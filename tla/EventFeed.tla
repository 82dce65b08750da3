------------------------------ MODULE EventFeed ------------------------------
(***************************************************************************)
(* What a phone is promised of a desktop's events: they are numbered, and  *)
(* its application is handed them one by one without a gap, some of them   *)
(* again, unless it is told to load everything anew.                       *)
(***************************************************************************)
EXTENDS Naturals

VARIABLES
  published, \* the number of the last event
  covered,   \* the application has the events up to this number
  handed     \* what it was handed last, and the number of that

feedVars == <<published, covered, handed>>

FeedInit == published = 0 /\ covered = 0 /\ handed = [what |-> "nothing", n |-> 0]

PublishNext == published' = published + 1 /\ UNCHANGED <<covered, handed>>

HandNext ==
  /\ covered < published
  /\ covered' = covered + 1
  /\ handed' = [what |-> "event", n |-> covered + 1]
  /\ UNCHANGED published

HandAgain ==
  /\ \E n \in 1..covered : handed' = [what |-> "event", n |-> n]
  /\ UNCHANGED <<published, covered>>

\* The application loads everything up to an event or a later one.
Reload ==
  /\ covered' \in covered..published
  /\ \E n \in 1..covered' : handed' = [what |-> "reload", n |-> n]
  /\ UNCHANGED published

\* The phone is started again, and may have forgotten some of the events.
Forget ==
  /\ covered' <= covered
  /\ handed' = [what |-> "nothing", n |-> 0]
  /\ UNCHANGED published

\* The desktop is started again, and numbers its events anew: the application has
\* none of them.
Renumber == published' = 0 /\ covered' = 0 /\ UNCHANGED handed

FeedNext == PublishNext \/ HandNext \/ HandAgain \/ Reload \/ Forget \/ Renumber

FeedSpec == FeedInit /\ [][FeedNext]_feedVars
=============================================================================
