---------------------------- MODULE TurnLifecycle ----------------------------
(***************************************************************************)
(* What a stored conversation promises about turns: a turn opens once,     *)
(* while no other turn is open, everything stored for it is stored while   *)
(* it is open, and it closes once.  Nothing else happens to it.            *)
(***************************************************************************)
EXTENDS Naturals

CONSTANT Turn

VARIABLES
  life,   \* "new", "open" or "closed"
  size    \* how much is stored for each turn

Init ==
  /\ life = [t \in Turn |-> "new"]
  /\ size = [t \in Turn |-> 0]

Open(t) ==
  /\ life[t] = "new"
  /\ \A u \in Turn : life[u] # "open"
  /\ life' = [life EXCEPT ![t] = "open"]
  /\ UNCHANGED size

Store(t) ==
  /\ life[t] = "open"
  /\ size' = [size EXCEPT ![t] = @ + 1]
  /\ UNCHANGED life

Close(t) ==
  /\ life[t] = "open"
  /\ life' = [life EXCEPT ![t] = "closed"]
  /\ UNCHANGED size

Next == \E t \in Turn : Open(t) \/ Store(t) \/ Close(t)

Spec == Init /\ [][Next]_<<life, size>>
=============================================================================
