------------------------ MODULE ConversationRecovery ------------------------
(***************************************************************************)
(* What a stored conversation says about its turns                         *)
(* (FailInterruptedTurnRecoveryPolicy.plan): a conversation is the         *)
(* sequence of its events, and its plan is "ready" when no turn is open,   *)
(* "interrupt" with the turn that is, or an exception when the events do   *)
(* not form a legal history.                                               *)
(*                                                                         *)
(* plan() walks the events once and keeps one variable, activeTurnId.  The *)
(* loop body is PlanStep; a value of "plan" is the state of the loop, with *)
(* Throws for the exception that ends it.                                  *)
(***************************************************************************)
EXTENDS Naturals, Sequences

CONSTANTS
  Turn,   \* turn ids
  None    \* "undefined"

ASSUME NoTurnAssumption == None \notin Turn

\* What the policy tells apart of the stored event types: a compaction is
\* "manual" or not by the reason in its record.
Opening == {"turn.started", "turn.continued"}
Inside == {"message.appended", "context.appended", "context.compacted"}
Outside == {"context.recorded", "context.compacted manually"}
Closing == {"turn.completed", "turn.cancelled", "turn.failed",
            "turn.transferred"}

\* A stored event: its type, its turn and whether it carries the session id of
\* the conversation it is stored in.  Only the events about the context may be
\* without a turn (contracts.ts).
Events ==
  {e \in [type : Opening \cup Inside \cup Outside \cup Closing,
          turn : Turn \cup {None}, own : BOOLEAN] :
     e.turn = None => e.type \in Outside \cup {"context.compacted"}}

\* The events of this conversation.
OwnEvents == {e \in Events : e.own}

Event(type, t) == [type |-> type, turn |-> t, own |-> TRUE]

\* A record of the session's context is not asked for its turn, a compaction by
\* hand must not have one.
Sessionwide(e) ==
  e.type \in Outside /\ (e.type = "context.compacted manually" => e.turn = None)

Ready == [status |-> "ready", turn |-> None]
Interrupt(t) == [status |-> "interrupt", turn |-> t]
Throws == [status |-> "throws", turn |-> None]

Plans == {Ready, Throws} \cup {Interrupt(t) : t \in Turn}

\* Mutation: a terminal closes whatever turn is open.
LegalAnyClosing(p, e) ==
  /\ e.own
  /\ \/ p = Ready /\ (e.type \in Opening \/ Sessionwide(e))
     \/ p = Interrupt(e.turn) /\ e.type \in Inside
     \/ p \notin {Ready, Throws} /\ e.type \in Closing

\* Event e is legal where the events before it leave plan p.
Legal(p, e) ==
  /\ e.own
  /\ \/ p = Ready /\ (e.type \in Opening \/ Sessionwide(e))
     \/ p = Interrupt(e.turn) /\ e.type \in Inside \cup Closing

PlanStep(p, e) ==
  IF ~Legal(p, e) THEN Throws
  ELSE IF e.type \in Opening THEN Interrupt(e.turn)
  ELSE IF e.type \in Closing THEN Ready ELSE p

\* plan(): the loop over the events.
Plan(events) ==
  LET after[n \in 0..Len(events)] ==
        IF n = 0 THEN Ready ELSE PlanStep(after[n - 1], events[n])
  IN  after[Len(events)]
=============================================================================
