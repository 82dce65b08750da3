-------------------------- MODULE SessionInputQueue --------------------------
(***************************************************************************)
(* The input queue of one agent session (class SessionInputQueue): two     *)
(* FIFO queues of identified entries and a pause bit.  The class is        *)
(* synchronous, so each of its methods is an operator from a queue value   *)
(* to a queue value; the module AgentSession applies them in its actions.  *)
(*                                                                         *)
(* An entry is its id.  What the queue asks of the input behind an id is   *)
(* its kind alone: a user message, a request that still has to be          *)
(* prepared, context records without a message, or a host operation        *)
(* ("context.compact", the only type there is).                            *)
(***************************************************************************)
EXTENDS Naturals, SequencesExt

CONSTANTS
  Entry,          \* ids of the entries that can be queued
  KindOf,         \* the kind of the input behind each id
  SteeringMode,   \* "all" or "one-at-a-time"
  FollowUpMode    \* "all" or "one-at-a-time"

Kinds == {"message", "request", "context", "operation"}
Modes == {"all", "one-at-a-time"}

ASSUME KindOfAssumption == KindOf \in [Entry -> Kinds]
ASSUME ModeAssumption == SteeringMode \in Modes /\ FollowUpMode \in Modes

Operations == {e \in Entry : KindOf[e] = "operation"}

\* isExecutableInput: only these can open a turn.
Executables == {e \in Entry : KindOf[e] \in {"message", "request"}}

Queues == [steering : Seq(Entry), followUp : Seq(Entry), paused : BOOLEAN]

EmptyQueue == [steering |-> <<>>, followUp |-> <<>>, paused |-> FALSE]

\* The ids of list(); pendingCount is positive iff this set is not empty.
Queued(q) == ToSet(q.steering) \cup ToSet(q.followUp)

HasOperation(q) == Queued(q) \cap Operations # {}

-----------------------------------------------------------------------------
(* Entering, leaving and moving entries by id. *)

EnqueueEntry(q, behavior, e) ==
  IF behavior = "steer"
    THEN [q EXCEPT !.steering = Append(q.steering, e)]
    ELSE [q EXCEPT !.followUp = Append(q.followUp, e)]

\* Ids are unique, so removing an id from both queues removes one slot.
RemoveEntry(q, e) ==
  [q EXCEPT !.steering = RemoveFirst(q.steering, e),
            !.followUp = RemoveFirst(q.followUp, e)]

\* What is left of followUpQueue comes after the listed ids, in its old order:
\* over all lists of ids, exactly the permutations of the queue.
Reorderings(q) ==
  {s \in [DOMAIN q.followUp -> ToSet(q.followUp)] :
     ToSet(s) = ToSet(q.followUp)}

\* Mutation: the entry is copied, not moved.
PromoteCopies(q, e) == [q EXCEPT !.steering = Append(q.steering, e)]

Promote(q, e) ==
  [q EXCEPT !.steering = Append(q.steering, e),
            !.followUp = RemoveFirst(q.followUp, e)]

Pause(q) == [q EXCEPT !.paused = TRUE]
Resume(q) == [q EXCEPT !.paused = FALSE]

-----------------------------------------------------------------------------
(* Consuming entries. *)

FirstOperation(s) == SelectInSeq(s, LAMBDA e : e \in Operations)

\* Positions of s that no operation precedes or occupies.
BeforeOperation(s) ==
  {i \in DOMAIN s : \A j \in 1..i : s[j] \notin Operations}

\* Mutation: take() does not look at the pause bit.
TakeCountUnpaused(s, paused, mode, stopAtOperation) ==
  LET available == IF stopAtOperation /\ FirstOperation(s) # 0
                     THEN FirstOperation(s) - 1 ELSE Len(s)
  IN  IF available = 0 THEN 0 ELSE IF mode = "all" THEN available ELSE 1

\* take(): how many entries of s one call consumes.
TakeCount(s, paused, mode, stopAtOperation) ==
  LET available == IF stopAtOperation /\ FirstOperation(s) # 0
                     THEN FirstOperation(s) - 1 ELSE Len(s)
  IN  IF paused \/ available = 0 THEN 0
      ELSE IF mode = "all" THEN available ELSE 1

SteeringCount(q) == TakeCount(q.steering, q.paused, SteeringMode, FALSE)

\* Mutation: takeFollowUpInputs does not stop at an operation.
FollowUpCountPastOperation(q) ==
  TakeCount(q.followUp, q.paused, FollowUpMode, FALSE)

FollowUpCount(q) == TakeCount(q.followUp, q.paused, FollowUpMode, TRUE)

TakenSteering(q) == ToSet(SubSeq(q.steering, 1, SteeringCount(q)))
TakenFollowUps(q) == ToSet(SubSeq(q.followUp, 1, FollowUpCount(q)))

AfterTakingSteering(q) ==
  [q EXCEPT !.steering = SubSeq(@, SteeringCount(q) + 1, Len(@))]
AfterTakingFollowUps(q) ==
  [q EXCEPT !.followUp = SubSeq(@, FollowUpCount(q) + 1, Len(@))]

\* takeById and takeFollowUpHead ignore the pause bit and never pass an
\* operation of the same queue.
TakeableById(q) ==
  ({q.steering[i] : i \in BeforeOperation(q.steering)} \cup
   {q.followUp[i] : i \in BeforeOperation(q.followUp)}) \cap Executables

\* The entry takeFollowUpHead returns, as a set: empty when it returns nothing.
FollowUpHead(q) ==
  {q.followUp[i] : i \in {j \in BeforeOperation(q.followUp) :
     /\ q.followUp[j] \in Executables
     /\ \A k \in 1..(j - 1) : q.followUp[k] \notin Executables}}

\* peekFollowUpOperation sees an operation only at the head of followUpQueue.
OperationAtHead(q) == q.followUp # <<>> /\ Head(q.followUp) \in Operations

DropHead(q) == [q EXCEPT !.followUp = Tail(@)]
=============================================================================
