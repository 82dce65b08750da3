---------------------------- MODULE AgentSession ----------------------------
(***************************************************************************)
(* The control plane of one agent session (class AgentSession of the       *)
(* runtime kernel): who may start a turn and when, what happens to the     *)
(* input queue when a turn ends, how cancel and close wait for the turn,   *)
(* and how asynchronous continuations are merged.                          *)
(*                                                                         *)
(* The code is single-threaded: whatever runs between two awaits is one    *)
(* atomic step here.  A method with awaits is a caller that remembers the  *)
(* await it is suspended at; what it read before the await may be stale    *)
(* when it resumes, and any other caller may run in between.               *)
(*                                                                         *)
(* The model abstracts the inputs to the ids and kinds of SessionInput-    *)
(* Queue and a turn to the phases that decide what it may do to the        *)
(* queue.  TurnJournal models the turn's own pipeline.                     *)
(***************************************************************************)
EXTENDS SessionInputQueue

CONSTANTS
  Caller,     \* concurrent users of the session: UI, team scheduler, tools
  Slot,       \* identities for turns that run at the same time
  Calls,      \* the methods the callers of a run use
  MaxCalls,   \* bound: calls one caller makes
  Faults,     \* the faults of a run
  None        \* "undefined"

APIs == {"send", "sendRequest", "sendWhenAvailable", "queueIfRunning",
         "continue", "requestContinuation", "steer", "followUp",
         "queueContext", "queueOperation", "queueNextTurnContext",
         "recordContext", "clearQueue", "removeQueued", "reorder",
         "promote", "restoreQueue", "sendQueuedNow", "resumeQueue",
         "cancel", "close"}

\* "failure": a turn or its preparation throws; "persistence": the turn's
\* terminal event cannot be stored; "orphan": a tool or a collector outlives
\* the abort of its turn; "policy": the continuation policy adds a message.
FaultKinds == {"failure", "persistence", "orphan", "policy"}

ASSUME CallsAssumption == Calls \subseteq APIs /\ Faults \subseteq FaultKinds
ASSUME MaxCallsAssumption == MaxCalls \in Nat
ASSUME EntryAssumption == IsFiniteSet(Entry)
ASSUME NoneAssumption == None \notin Entry \cup Slot

VARIABLES
  state,        \* currentState
  activeTurn,   \* the slot of activeTurn and activeController, or None
  activeOp,     \* the entry of activeQueueOperation, or None
  turn,         \* the turns that run, by slot
  orphan,       \* what a tool or collector of an aborted turn will still take
  queue,        \* inputQueue
  nextContext,  \* nextTurnContext is not empty
  requested,    \* continuationRequested
  waiters,      \* the callers in continuationWaiters
  drain,        \* continuationDrain
  afterOp,      \* the microtask of scheduleQueueAfterOperation is queued
  writes,       \* contextWrite: recordContext calls issued and settled
  line,         \* the callers that await contextWrite, in the order they came
  call,         \* where each caller is suspended
  budget,       \* calls each caller may still make
  place,        \* history: where each entry is
  behind,       \* history: entries queued while an operation was due
  frozen        \* history: entries a cancelled or failed turn left behind

turnVars == <<state, activeTurn, activeOp, turn, orphan>>
queueVars == <<queue, place, behind, frozen>>
contVars == <<requested, waiters, drain>>
writeVars == <<writes, line>>
vars == <<turnVars, queueVars, contVars, nextContext, afterOp, writeVars, call,
          budget>>

-----------------------------------------------------------------------------
States == {"idle", "running", "cancelling", "closing", "closed",
           "recovery_required"}

Phases == {"free", "admission", "executing", "stopping", "finalizing"}

TurnKinds == {"none", "message", "request", "continuation", "operation"}

Turns == [kind : TurnKinds, phase : Phases, aborted : BOOLEAN,
          signal : BOOLEAN, holds : SUBSET Entry]

FreeSlot == [kind |-> "none", phase |-> "free", aborted |-> FALSE,
             signal |-> FALSE, holds |-> {}]

Awaits == {"ready", "contextWrite", "turn", "released", "failed",
           "continuation", "recording", "appending"}

\* What a call remembers; a sendQueuedNow holds the entry it has taken.
CallRecords ==
  {r \in [op : APIs \cup {"none"}, at : Awaits, turn : Slot \cup {None},
          ticket : Nat, entry : Entry \cup {None}] :
     r.op = "sendQueuedNow" => r.entry \in Executables}

Ready == [op |-> "none", at |-> "ready", turn |-> None, ticket |-> 0,
          entry |-> None]

DrainOff == [at |-> "off", turn |-> None, waiters |-> {}]

\* An entry is unused, queued, held by a sendQueuedNow call, held by a turn
\* that has not stored it, stored (or handled by its preparation), removed
\* on request, or lost: no longer anywhere although nobody removed it.
Places == {"new", "queue", "call", "turn", "journal", "removed", "lost"}

Live == {t \in Slot : turn[t].phase # "free"}

\* Not closed, closing or recovery_required.
Open == state \in {"idle", "running", "cancelling"}

Fresh(kinds) == {e \in Entry : place[e] = "new" /\ KindOf[e] \in kinds}

Moved(es, where) == [e \in Entry |-> IF e \in es THEN where ELSE place[e]]

-----------------------------------------------------------------------------
(* Calls and their awaits. *)

Invoke(c, op) ==
  /\ op \in Calls
  /\ call[c] = Ready
  /\ budget[c] > 0
  /\ budget' = [budget EXCEPT ![c] = @ - 1]

\* "await this.contextWrite": behind every write issued so far.
AwaitWrites(c, op, e) ==
  /\ call' = [call EXCEPT ![c] = [op |-> op, at |-> "contextWrite",
                                  turn |-> None, ticket |-> writes.issued,
                                  entry |-> e]]
  /\ line' = Append(line, c)

\* Mutation: the caller awaits the operation instead of the turn it runs in.
AwaitOperation(C, c, op, e) ==
  [C EXCEPT ![c] = [op |-> op, at |-> "turn", ticket |-> 0, entry |-> e,
                    turn |-> IF activeOp = None THEN activeTurn
                             ELSE activeOp]]

AwaitTurn(C, c, op, e) ==
  [C EXCEPT ![c] = [op |-> op, at |-> "turn", turn |-> activeTurn,
                    ticket |-> 0, entry |-> e]]

Return(C, cs) == [c \in Caller |-> IF c \in cs THEN Ready ELSE C[c]]

\* Mutation: a turn that rejects wakes nobody.
ReleasedIfResolved(C, t, at) ==
  [c \in Caller |-> IF C[c].at = "turn" /\ C[c].turn = t /\ at = "released"
                      THEN [C[c] EXCEPT !.at = at, !.turn = None]
                      ELSE C[c]]

\* The calls that await turn t resume: normally, or with its rejection.
Released(C, t, at) ==
  [c \in Caller |-> IF C[c].at = "turn" /\ C[c].turn = t
                      THEN [C[c] EXCEPT !.at = at, !.turn = None]
                      ELSE C[c]]

OnlyCallsChange ==
  UNCHANGED <<turnVars, queueVars, contVars, nextContext, afterOp, writes,
              budget>>

\* Reactions to settled promises run in the order of the awaits.
Resumed(c, op) ==
  /\ call[c].op = op
  /\ call[c].at = "contextWrite"
  /\ writes.settled >= call[c].ticket
  /\ line # <<>> /\ Head(line) = c
  /\ line' = Tail(line)

-----------------------------------------------------------------------------
(* Starting turns. *)

\* startTurn and startRequest up to their first await, with the turns T that
\* run already: nothing here asks whether there are any.
Begin(T, kind, es, signal) ==
  \E t \in Slot :
    /\ T[t].phase = "free"
    /\ turn' = [T EXCEPT ![t] = [kind |-> kind, phase |-> "admission",
                                 aborted |-> FALSE, signal |-> signal,
                                 holds |-> es]]
    /\ activeTurn' = t
    /\ state' = "running"

\* startQueuedInput with entry e, which leaves queue q.
BeginQueued(q, e) ==
  /\ Begin(turn, KindOf[e], {e}, FALSE)
  /\ queue' = RemoveEntry(q, e)
  /\ place' = Moved({e}, "turn")

\* startQueuedOperation takes the operation at the head of queue q, when P
\* says where the entries are.
StartOperation(T, q, P) ==
  LET e == Head(q.followUp) IN
  /\ Begin(T, "operation", {e}, FALSE)
  /\ activeOp' = e
  /\ queue' = DropHead(q)
  /\ place' = [P EXCEPT ![e] = "turn"]

\* Mutation: an operation starts whatever runs already.
OperationDueAnytime(q, s) == ~q.paused /\ OperationAtHead(q)

\* Mutation: nobody starts the operation at the head.
OperationNeverDue(q, s) == FALSE

\* startQueuedOperationIfHead's condition, for queue q in state s.
OperationDue(q, s) == s = "idle" /\ ~q.paused /\ OperationAtHead(q)

\* startQueuedOperationIfHead, the queue being q with the entries as in P.
StartIfHead(q, P) ==
  \/ /\ OperationDue(q, state)
     /\ StartOperation(turn, q, P)
  \/ /\ ~OperationDue(q, state)
     /\ queue' = q /\ place' = P
     /\ UNCHANGED <<state, activeTurn, activeOp, turn>>

\* One round of drainRequestedContinuations, for the waiters in ws.
StartContinuation(T, ws) ==
  /\ Begin(T, "continuation", {}, FALSE)
  /\ requested' = FALSE
  /\ waiters' = {}
  /\ drain' = [at |-> "running", turn |-> activeTurn', waiters |-> ws]

\* Mutation: a continuation starts in every state that is not closed.
ScheduleUnlessClosed(T, a, s, asked, ws, D, C) ==
  LET due == asked /\ D.at = "off" IN
  \/ /\ due /\ s \notin {"closed", "closing"}
     /\ StartContinuation(T, ws)
     /\ call' = C
  \/ /\ due /\ s \in {"closed", "closing"}
     /\ turn' = T /\ activeTurn' = a /\ state' = s
     /\ requested' = FALSE /\ waiters' = {} /\ drain' = D
     /\ call' = Return(C, ws)
  \/ /\ ~due
     /\ turn' = T /\ activeTurn' = a /\ state' = s
     /\ requested' = asked /\ waiters' = ws /\ drain' = D
     /\ call' = C

\* scheduleRequestedContinuations, when the turns are T (a the active one),
\* the state s, the drain D and the calls C.
Schedule(T, a, s, asked, ws, D, C) ==
  LET due == asked /\ D.at = "off" IN
  \/ /\ due /\ s = "idle"
     /\ StartContinuation(T, ws)
     /\ call' = C
  \/ /\ due /\ s \in {"closed", "closing"}
     /\ turn' = T /\ activeTurn' = a /\ state' = s
     /\ requested' = FALSE /\ waiters' = {} /\ drain' = D
     /\ call' = Return(C, ws)
  \/ /\ due => s \notin {"idle", "closed", "closing"}
     /\ turn' = T /\ activeTurn' = a /\ state' = s
     /\ requested' = asked /\ waiters' = ws /\ drain' = D
     /\ call' = C

-----------------------------------------------------------------------------
(* send, sendRequest, queueRequestIfRunning, continue and retry. *)

Await(c, op) ==
  /\ Invoke(c, op)
  /\ AwaitWrites(c, op, None)
  /\ UNCHANGED <<turnVars, queueVars, contVars, nextContext, afterOp, writes>>

CallSend(c) ==
  \E op \in {"send", "sendRequest", "sendWhenAvailable", "queueIfRunning",
             "continue"} : Await(c, op)

\* queueBehaviorAfterOperations: nothing steers past a pending operation.
OperationPending == activeOp # None \/ HasOperation(queue)

Enter(e, behavior) ==
  /\ queue' = EnqueueEntry(queue,
                IF OperationPending THEN "followUp" ELSE behavior, e)
  /\ place' = Moved({e}, "queue")
  /\ behind' = IF OperationPending THEN behind \cup {e} ELSE behind
  /\ UNCHANGED frozen

SendKind == [send |-> "message", sendRequest |-> "request",
             sendWhenAvailable |-> "request", queueIfRunning |-> "request",
             continue |-> "continuation"]

\* Mutation: a turn that is being cancelled counts as gone.
StartUnlessRunning(c, op) ==
  /\ Resumed(c, op)
  /\ op # "queueIfRunning"
  /\ state \in {"idle", "cancelling"}
  /\ Begin(turn, SendKind[op], {}, op = "sendWhenAvailable")
  /\ nextContext' = (nextContext /\ op # "send")
  /\ call' = Return(call, {c})
  /\ UNCHANGED <<activeOp, orphan, queueVars, contVars, afterOp, writes,
                 budget>>

\* Idle: the turn starts in the same step as the check.  Only a message sent
\* by send takes the context waiting for the next turn along.
StartIdle(c, op) ==
  /\ Resumed(c, op)
  /\ op # "queueIfRunning"
  /\ state = "idle"
  /\ Begin(turn, SendKind[op], {}, op = "sendWhenAvailable")
  /\ nextContext' = (nextContext /\ op # "send")
  /\ call' = Return(call, {c})
  /\ UNCHANGED <<activeOp, orphan, queueVars, contVars, afterOp, writes,
                 budget>>

\* Running or cancelling, with a streamingBehavior: the input is queued.
QueueBusy(c, op) ==
  /\ Resumed(c, op)
  /\ op \in {"send", "sendRequest", "queueIfRunning"}
  /\ state \in {"running", "cancelling"}
  /\ \E e \in Fresh({SendKind[op]}), behavior \in {"steer", "followUp"} :
       Enter(e, behavior)
  /\ call' = Return(call, {c})
  /\ UNCHANGED <<turnVars, contVars, nextContext, afterOp, writes, budget>>

\* Closed, closing, recovery_required; busy, for those that neither queue nor
\* wait; idle, for queueRequestIfRunning.  Bound: when the entries are used up,
\* a request that would be queued is refused as well.
Refuse(c, op) ==
  /\ Resumed(c, op)
  /\ CASE state = "idle" -> op = "queueIfRunning"
       [] state \in {"running", "cancelling"} ->
            \/ op \in {"send", "sendRequest", "continue"}
            \/ op = "queueIfRunning" /\ Fresh({"request"}) = {}
       [] OTHER -> TRUE
  /\ call' = Return(call, {c})
  /\ OnlyCallsChange

\* steer, followUp and queueContext have no await and are not refused when idle.
QueueInput(c) ==
  /\ Open
  /\ \/ /\ Invoke(c, "steer")
        /\ \E e \in Fresh({"message"}) : Enter(e, "steer")
     \/ /\ Invoke(c, "followUp")
        /\ \E e \in Fresh({"message"}) : Enter(e, "followUp")
     \/ /\ Invoke(c, "queueContext")
        /\ \E e \in Fresh({"context"}), behavior \in {"steer", "followUp"} :
             Enter(e, behavior)
  /\ UNCHANGED <<turnVars, contVars, nextContext, afterOp, writeVars, call>>

QueueNextTurnContext(c) ==
  /\ Invoke(c, "queueNextTurnContext")
  /\ Open
  /\ nextContext' = TRUE
  /\ UNCHANGED <<turnVars, queueVars, contVars, afterOp, writeVars, call>>

-----------------------------------------------------------------------------
(* sendRequestWhenAvailable: one pass of its loop, and its AbortSignal. *)

\* Not idle: wait for the release of the turn that is active now.
WaitForRelease(c) ==
  /\ Resumed(c, "sendWhenAvailable")
  /\ state \in {"running", "cancelling"}
  /\ activeTurn # None
  /\ call' = AwaitTurn(call, c, "sendWhenAvailable", None)
  /\ OnlyCallsChange

\* waitForTurnRelease settles whether the turn resolved or rejected.
LookAgain(c) ==
  /\ call[c].op = "sendWhenAvailable"
  /\ call[c].at \in {"released", "failed"}
  /\ AwaitWrites(c, "sendWhenAvailable", None)
  /\ OnlyCallsChange

\* The caller's signal fires before admission: only this request ends.
AbandonWaiting(c) ==
  /\ call[c].op = "sendWhenAvailable"
  /\ call' = Return(call, {c})
  /\ line' = RemoveFirst(line, c)
  /\ OnlyCallsChange

\* The signal fires after admission: startRequest's abort listener.
SignalAbort(t) ==
  /\ turn[t].signal
  /\ activeTurn = t
  /\ state' = "cancelling"
  /\ turn' = [turn EXCEPT ![t].aborted = TRUE, ![t].signal = FALSE]
  /\ UNCHANGED <<activeTurn, activeOp, orphan, queueVars, contVars,
                 nextContext, afterOp, writeVars, call, budget>>

-----------------------------------------------------------------------------
(* requestContinuation and its drain. *)

RequestContinuation(c) ==
  /\ Invoke(c, "requestContinuation")
  /\ state \in {"idle", "running"}
  /\ Schedule(turn, activeTurn, state, TRUE, waiters \cup {c}, drain,
              [call EXCEPT ![c] = [Ready EXCEPT !.op = "requestContinuation",
                                                !.at = "continuation"]])
  /\ UNCHANGED <<activeOp, orphan, queueVars, nextContext, afterOp, writeVars>>

\* The turn of this round settled: its waiters settle, and the loop repeats.
DrainResumes ==
  /\ drain.at = "resumed"
  /\ call' = Return(call, drain.waiters)
  /\ \/ /\ requested /\ state = "idle"
        /\ StartContinuation(turn, waiters)
     \/ /\ ~(requested /\ state = "idle")
        /\ drain' = [DrainOff EXCEPT !.at = "ending"]
        /\ UNCHANGED <<state, activeTurn, turn, requested, waiters>>
  /\ UNCHANGED <<activeOp, orphan, queueVars, nextContext, afterOp, writeVars,
                 budget>>

\* Mutation: whoever asked since the loop ended is overlooked.
DrainEndsOnly ==
  /\ drain.at = "ending"
  /\ drain' = DrainOff
  /\ UNCHANGED <<turnVars, queueVars, requested, waiters, nextContext, afterOp,
                 writeVars, call, budget>>

\* continuationDrain is reset one microtask after its loop ended.
DrainEnds ==
  /\ drain.at = "ending"
  /\ Schedule(turn, activeTurn, state, requested, waiters, DrainOff, call)
  /\ UNCHANGED <<activeOp, orphan, queueVars, nextContext, afterOp, writeVars,
                 budget>>

-----------------------------------------------------------------------------
(* recordContext: writes are chained, and each looks at the state itself. *)

RecordContext(c) ==
  /\ Invoke(c, "recordContext")
  /\ Open
  /\ writes' = [writes EXCEPT !.issued = @ + 1]
  /\ call' = [call EXCEPT ![c] = [Ready EXCEPT !.op = "recordContext",
                                               !.at = "recording",
                                               !.ticket = writes.issued + 1]]
  /\ UNCHANGED <<line, turnVars, queueVars, contVars, nextContext, afterOp>>

BeginWrite(c) ==
  /\ call[c].at = "recording"
  /\ writes.settled = call[c].ticket - 1
  /\ \/ /\ state = "idle"
        /\ call' = [call EXCEPT ![c].at = "appending"]
        /\ UNCHANGED writes
     \/ /\ state # "idle"
        /\ call' = Return(call, {c})
        /\ writes' = [writes EXCEPT !.settled = call[c].ticket]
  /\ UNCHANGED <<line, turnVars, queueVars, contVars, nextContext, afterOp, budget>>

\* pipeline.recordContext resolves or rejects: the chain continues anyway.
EndWrite(c) ==
  /\ call[c].at = "appending"
  /\ writes' = [writes EXCEPT !.settled = call[c].ticket]
  /\ call' = Return(call, {c})
  /\ UNCHANGED <<line, turnVars, queueVars, contVars, nextContext, afterOp, budget>>

-----------------------------------------------------------------------------
(* The user's view of the queue: clear, remove, reorder, promote, restore. *)

\* Entries of q that an operation precedes.
BehindOperation(q) ==
  {q.followUp[i] : i \in DOMAIN q.followUp \ BeforeOperation(q.followUp)}
    \ Operations

ClearQueue(c) ==
  /\ Invoke(c, "clearQueue")
  /\ queue' = EmptyQueue
  /\ place' = Moved(Queued(queue), "removed")
  /\ behind' = {} /\ frozen' = {}
  /\ UNCHANGED <<turnVars, contVars, nextContext, afterOp, writeVars, call>>

RemoveQueued(c) ==
  /\ Invoke(c, "removeQueued")
  /\ \E e \in Queued(queue) :
       /\ queue' = RemoveEntry(queue, e)
       /\ place' = Moved({e}, "removed")
       /\ behind' = IF e \in Operations THEN {} ELSE behind \ {e}
       /\ frozen' = frozen \ {e}
  /\ UNCHANGED <<turnVars, contVars, nextContext, afterOp, writeVars, call>>

\* An entry the user moves in front of the operation need not wait for it.
Reorder(c) ==
  /\ Invoke(c, "reorder")
  /\ \E s \in Reorderings(queue) : queue' = [queue EXCEPT !.followUp = s]
  /\ behind' = IF activeOp = None THEN behind \cap BehindOperation(queue')
               ELSE behind
  /\ UNCHANGED <<turnVars, contVars, nextContext, afterOp, writeVars, call,
                 place, frozen>>

PromoteQueued(c) ==
  /\ Invoke(c, "promote")
  /\ \E e \in ToSet(queue.followUp) :
       /\ queue' = Promote(queue, e)
       /\ behind' = IF e \in Operations THEN {} ELSE behind \ {e}
  /\ UNCHANGED <<turnVars, contVars, nextContext, afterOp, writeVars, call,
                 place, frozen>>

\* The snapshots a session can have saved.
Snapshots ==
  LET entries == SeqOf(Entry, Cardinality(Entry)) IN
  {q \in [steering : entries, followUp : entries, paused : BOOLEAN] :
     /\ IsInjective(q.steering \o q.followUp)
     /\ ToSet(q.steering) \cap Operations = {}
     /\ Cardinality(ToSet(q.followUp) \cap Operations) <= 1}

\* The host restores the queue once, before anything else uses the session.
RestoreQueue(c) ==
  /\ Invoke(c, "restoreQueue")
  /\ \A d \in Caller : budget[d] = MaxCalls
  /\ \E q \in Snapshots :
       /\ StartIfHead(q, Moved(Queued(q), "queue"))
       /\ behind' = BehindOperation(q)
       /\ frozen' = IF q.paused THEN Queued(q) ELSE {}
  /\ UNCHANGED <<orphan, contVars, nextContext, afterOp, writeVars, call>>

-----------------------------------------------------------------------------
(* queueOperation. *)

\* Mutation: a running operation does not count.
QueueOperationAgain(c) ==
  /\ Invoke(c, "queueOperation")
  /\ Open
  /\ ~HasOperation(queue)
  /\ \E e \in Fresh({"operation"}) :
       StartIfHead(EnqueueEntry(queue, "followUp", e), Moved({e}, "queue"))
  /\ UNCHANGED <<orphan, contVars, nextContext, afterOp, writeVars, call, behind,
                 frozen>>

\* There is one operation type: a second request for it joins the first.
QueueOperation(c) ==
  /\ Invoke(c, "queueOperation")
  /\ Open
  /\ activeOp = None
  /\ \/ /\ HasOperation(queue)
        /\ StartIfHead(queue, place)
     \/ /\ ~HasOperation(queue)
        /\ \E e \in Fresh({"operation"}) :
             StartIfHead(EnqueueEntry(queue, "followUp", e),
                         Moved({e}, "queue"))
  /\ UNCHANGED <<orphan, contVars, nextContext, afterOp, writeVars, call, behind,
                 frozen>>

-----------------------------------------------------------------------------
(* cancel and close. *)

\* Mutation: the waiters are dropped without a rejection.
AbortTurnSilently(C) ==
  /\ state' = "cancelling"
  /\ requested' = FALSE /\ waiters' = {}
  /\ turn' = [turn EXCEPT ![activeTurn].aborted = TRUE]
  /\ call' = C
  /\ UNCHANGED <<activeTurn, drain>>

\* What cancel does before it awaits the turn; C are the other calls.
AbortTurn(C) ==
  /\ state' = "cancelling"
  /\ requested' = FALSE /\ waiters' = {}
  /\ turn' = [turn EXCEPT ![activeTurn].aborted = TRUE]
  /\ call' = Return(C, waiters)
  /\ UNCHANGED <<activeTurn, drain>>

Cancel(c) ==
  /\ Invoke(c, "cancel")
  /\ state \in {"running", "cancelling"}
  /\ AbortTurn(AwaitTurn(call, c, "cancel", None))
  /\ UNCHANGED <<activeOp, orphan, queueVars, nextContext, afterOp, writeVars>>

\* The turn settled either way, or waitMs passed.
CancelReturns(c) ==
  /\ call[c].op = "cancel"
  /\ call[c].at \in {"turn", "released", "failed"}
  /\ call' = Return(call, {c})
  /\ UNCHANGED line
  /\ OnlyCallsChange

Close(c) ==
  /\ Invoke(c, "close")
  /\ state # "closed"
  /\ \/ /\ activeTurn = None
        /\ AwaitWrites(c, "close", None)
        /\ UNCHANGED <<state, turn>>
     \/ /\ activeTurn # None
        /\ state' = "closing"
        /\ turn' = [turn EXCEPT ![activeTurn].aborted = TRUE]
        /\ call' = AwaitTurn(call, c, "close", None)
        /\ UNCHANGED line
  /\ UNCHANGED <<activeTurn, activeOp, orphan, queueVars, contVars,
                 nextContext, afterOp, writes>>

\* Neither path looks at the state again.
CloseCompletes(c) ==
  /\ call[c].op = "close"
  /\ \/ call[c].at = "released" /\ UNCHANGED line
     \/ Resumed(c, "close")
  /\ state' = "closed"
  /\ queue' = EmptyQueue
  /\ place' = Moved(Queued(queue), "removed")
  /\ behind' = {} /\ frozen' = {}
  /\ nextContext' = FALSE
  /\ requested' = FALSE /\ waiters' = {}
  /\ call' = Return(call, waiters \cup {c})
  /\ UNCHANGED <<activeTurn, activeOp, turn, orphan, drain, afterOp, writes,
                 budget>>

\* The rejection of the turn leaves close before it clears anything.
CloseFails(c) ==
  /\ call[c].op = "close"
  /\ call[c].at = "failed"
  /\ call' = Return(call, {c})
  /\ UNCHANGED line
  /\ OnlyCallsChange

-----------------------------------------------------------------------------
(* sendQueuedNow and resumeQueue. *)

SendQueuedNow(c) ==
  /\ Invoke(c, "sendQueuedNow")
  /\ Open
  /\ activeOp = None
  /\ \E e \in TakeableById(queue) :
       /\ queue' = RemoveEntry(queue, e)
       /\ place' = Moved({e}, "call")
       /\ frozen' = frozen \ {e}
       /\ \/ /\ state = "idle"
             /\ AwaitWrites(c, "sendQueuedNow", e)
             /\ UNCHANGED <<state, activeTurn, turn, contVars>>
          \/ /\ state # "idle"
             /\ AbortTurn(AwaitTurn(call, c, "sendQueuedNow", e))
             /\ UNCHANGED line
  /\ UNCHANGED <<activeOp, orphan, behind, nextContext, afterOp, writes>>

SendNowProceeds(c) ==
  /\ call[c].op = "sendQueuedNow"
  /\ call[c].at = "released"
  /\ AwaitWrites(c, "sendQueuedNow", call[c].entry)
  /\ OnlyCallsChange

\* "await this.cancel(...)" rejects with the turn.
SendNowFails(c) ==
  /\ call[c].op = "sendQueuedNow"
  /\ call[c].at = "failed"
  /\ place' = Moved({call[c].entry}, "lost")
  /\ call' = Return(call, {c})
  /\ UNCHANGED <<turnVars, queue, behind, frozen, contVars, nextContext,
                 afterOp, writeVars, budget>>

\* The code does not ask whether the session is still idle.
SendNowStarts(c) ==
  /\ Resumed(c, "sendQueuedNow")
  /\ BeginQueued(Resume(queue), call[c].entry)
  /\ frozen' = {}
  /\ call' = Return(call, {c})
  /\ UNCHANGED <<activeOp, orphan, behind, contVars, nextContext, afterOp,
                 writes, budget>>

ResumeQueue(c) ==
  /\ Invoke(c, "resumeQueue")
  /\ Open
  /\ queue' = Resume(queue)
  /\ frozen' = {}
  /\ \/ state = "idle" /\ AwaitWrites(c, "resumeQueue", None)
     \/ state # "idle" /\ UNCHANGED <<call, line>>
  /\ UNCHANGED <<turnVars, place, behind, contVars, nextContext, afterOp,
                 writes>>

\* The state is looked at again, the pause bit is not: the head goes out.
ResumeHead(c) ==
  /\ Resumed(c, "resumeQueue")
  /\ \/ /\ \/ state # "idle"
           \/ ~OperationDue(queue, state) /\ FollowUpHead(queue) = {}
        /\ UNCHANGED <<turnVars, queue, place, frozen>>
     \/ /\ OperationDue(queue, state)
        /\ StartOperation(turn, queue, place)
        /\ UNCHANGED <<orphan, frozen>>
     \/ /\ state = "idle" /\ ~OperationDue(queue, state)
        /\ \E e \in FollowUpHead(queue) :
             /\ BeginQueued(queue, e)
             /\ frozen' = frozen \ {e}
        /\ UNCHANGED <<activeOp, orphan>>
  /\ call' = Return(call, {c})
  /\ UNCHANGED <<behind, contVars, nextContext, afterOp, writes, budget>>

-----------------------------------------------------------------------------
(* What a running turn does to the queue.  Whatever it awaits can be cut    *)
(* short by its abort, but not the tool or collector it awaits: with the    *)
(* fault "orphan" that one still takes its entries, and nobody reads them.  *)

ControlUnchanged ==
  UNCHANGED <<state, activeTurn, activeOp, contVars, nextContext, afterOp,
              writeVars, call, budget>>

\* The start of the turn is stored, with the input the turn was started for.
Execute(t) ==
  /\ turn[t].phase = "admission"
  /\ turn[t].kind # "operation"
  /\ turn' = [turn EXCEPT ![t].phase = "executing", ![t].holds = {}]
  /\ place' = Moved(turn[t].holds, "journal")
  /\ UNCHANGED <<orphan, queue, behind, frozen>>
  /\ ControlUnchanged

\* Between model calls and between tools: what the turn takes, it prepares.
TakeSteering(t) ==
  /\ turn[t].phase = "executing"
  /\ turn[t].aborted => "orphan" \in Faults
  /\ turn[t].holds = {}
  /\ TakenSteering(queue) # {}
  /\ turn' = [turn EXCEPT ![t].holds = TakenSteering(queue)]
  /\ queue' = AfterTakingSteering(queue)
  /\ place' = Moved(TakenSteering(queue), "turn")
  /\ UNCHANGED <<orphan, behind, frozen>>
  /\ ControlUnchanged

\* The prepared inputs are stored as messages.  An operation is no message.
Deliver(t) ==
  /\ turn[t].phase = "executing"
  /\ ~turn[t].aborted
  /\ turn[t].holds # {}
  /\ turn' = [turn EXCEPT ![t].holds = {}]
  /\ place' = [e \in Entry |->
                IF e \notin turn[t].holds THEN place[e]
                ELSE IF e \in Operations THEN "lost" ELSE "journal"]
  /\ UNCHANGED <<orphan, queue, behind, frozen>>
  /\ ControlUnchanged

\* The model asks for no tool and no steering waits: ask for continuations.
NaturalStop(t) ==
  /\ turn[t].phase = "executing"
  /\ ~turn[t].aborted
  /\ turn[t].holds = {}
  /\ TakenSteering(queue) = {}
  /\ turn' = [turn EXCEPT ![t].phase = "stopping"]
  /\ UNCHANGED <<orphan, queueVars>>
  /\ ControlUnchanged

\* The queue at the natural stop, once the policy has had its say.
PolicyQueues ==
  {queue} \cup
  {EnqueueEntry(queue, "followUp", e) :
     e \in IF "policy" \in Faults THEN Fresh({"message"}) ELSE {}}

TakeFollowUps(t) ==
  /\ turn[t].phase = "stopping"
  /\ turn[t].aborted => "orphan" \in Faults
  /\ turn[t].holds = {}
  /\ \E q \in PolicyQueues :
       LET P == Moved(Queued(q), "queue") IN
       /\ queue' = AfterTakingFollowUps(q)
       /\ place' = [e \in Entry |->
                     IF e \in TakenFollowUps(q) THEN "turn" ELSE P[e]]
       /\ \/ /\ TakenFollowUps(q) # {}
             /\ turn' = [turn EXCEPT ![t].phase = "executing",
                                     ![t].holds = TakenFollowUps(q)]
          \/ /\ TakenFollowUps(q) = {}
             /\ ~turn[t].aborted
             /\ turn' = [turn EXCEPT ![t].phase = "finalizing"]
  /\ UNCHANGED <<orphan, behind, frozen>>
  /\ ControlUnchanged

\* The tool or collector of a turn that is gone returns at last.
OrphanTakes ==
  /\ \/ /\ orphan = "steering"
        /\ queue' = AfterTakingSteering(queue)
        /\ place' = Moved(TakenSteering(queue), "lost")
     \/ /\ orphan = "followUp"
        /\ queue' = AfterTakingFollowUps(queue)
        /\ place' = Moved(TakenFollowUps(queue), "lost")
  /\ orphan' = "none"
  /\ UNCHANGED <<turn, behind, frozen>>
  /\ ControlUnchanged

-----------------------------------------------------------------------------
(* The end of a turn. *)

Results == {"completed", "cancelled", "handled", "failed", "persistence"}

\* The ways turn t can settle.  A preparation may handle a request itself; an
\* AbortError of another making counts as a cancellation.
Outcome(t, r) ==
  \/ r = "completed" /\ turn[t].phase = "finalizing"
  \/ /\ r = "cancelled"
     /\ \/ turn[t].aborted /\ turn[t].phase # "finalizing"
        \/ "failure" \in Faults
  \/ /\ r = "handled" /\ ~turn[t].aborted
     /\ turn[t].kind = "request" /\ turn[t].phase = "admission"
  \/ r = "failed" /\ ~turn[t].aborted /\ "failure" \in Faults
  \/ /\ r = "persistence" /\ "persistence" \in Faults
     /\ turn[t].phase # "admission"

\* The promise of the turn rejects, instead of resolving with its result.
Rejects(t, r) ==
  \/ r = "persistence"
  \/ r = "failed" /\ turn[t].kind = "request" /\ turn[t].phase = "admission"

StateAfterTurn(s) ==
  CASE s = "closing" -> "closed"
    [] s = "recovery_required" -> s
    [] OTHER -> "idle"

\* finishActiveTurn for turn t: the entries are in q and as in P, the state
\* before it is s.  An operation defers the continuations to a microtask.
FinishActiveTurn(t, q, P, s, at) ==
  LET T == [turn EXCEPT ![t] = FreeSlot]
      C == Released(call, t, at)
      D == IF drain.at = "running" /\ drain.turn = t
             THEN [drain EXCEPT !.at = "resumed", !.turn = None] ELSE drain
      next == StateAfterTurn(s)
      wasOperation == turn[t].kind = "operation"
  IN  \/ /\ OperationDue(q, next)
         /\ StartOperation(T, q, P)
         /\ call' = C /\ drain' = D
         /\ UNCHANGED <<requested, waiters>>
      \/ /\ ~OperationDue(q, next)
         /\ queue' = q /\ place' = P
         /\ activeOp' = IF wasOperation /\ activeOp \in turn[t].holds
                          THEN None ELSE activeOp
         /\ \/ /\ wasOperation
               /\ turn' = T /\ activeTurn' = None /\ state' = next
               /\ call' = C /\ drain' = D
               /\ UNCHANGED <<requested, waiters>>
            \/ /\ ~wasOperation
               /\ Schedule(T, None, next, requested, waiters, D, C)

\* startTurn and startRequest after "await turn": the queue is paused unless
\* the turn completed or its request was handled.
Settle(t) ==
  /\ turn[t].phase # "free"
  /\ turn[t].kind # "operation"
  /\ \E r \in Results :
       LET pauses == r \notin {"completed", "handled"} /\ Queued(queue) # {}
       IN  /\ Outcome(t, r)
           /\ FinishActiveTurn(t,
                IF pauses THEN Pause(queue) ELSE queue,
                Moved(turn[t].holds, IF r = "handled" THEN "journal" ELSE "lost"),
                IF r = "persistence" THEN "recovery_required" ELSE state,
                IF Rejects(t, r) THEN "failed" ELSE "released")
           /\ frozen' = IF pauses THEN frozen \cup Queued(queue) ELSE frozen
  /\ \/ UNCHANGED orphan
     \/ /\ "orphan" \in Faults /\ turn[t].aborted
        /\ \/ turn[t].phase = "executing" /\ orphan' = "steering"
           \/ turn[t].phase = "stopping" /\ orphan' = "followUp"
  /\ UNCHANGED <<behind, nextContext, afterOp, writeVars, budget>>

\* An operation ends: done, failed or aborted, it is handled.
SettleOperation(t) ==
  /\ turn[t].kind = "operation"
  /\ FinishActiveTurn(t, queue, Moved(turn[t].holds, "journal"), state,
                      "released")
  /\ behind' = {}
  /\ afterOp' = TRUE
  /\ UNCHANGED <<orphan, frozen, nextContext, writeVars, budget>>

\* scheduleQueueAfterOperation's microtask.
AfterOperation ==
  /\ afterOp
  /\ afterOp' = FALSE
  /\ \/ /\ state # "idle" \/ queue.paused
        /\ UNCHANGED <<state, activeTurn, activeOp, turn, queue, place,
                       contVars, call>>
     \/ /\ OperationDue(queue, state)
        /\ StartOperation(turn, queue, place)
        /\ UNCHANGED <<contVars, call>>
     \/ /\ state = "idle" /\ ~queue.paused /\ ~OperationAtHead(queue)
        /\ \/ /\ \E e \in FollowUpHead(queue) : BeginQueued(queue, e)
              /\ UNCHANGED <<activeOp, contVars, call>>
           \/ /\ FollowUpHead(queue) = {}
              /\ Schedule(turn, activeTurn, state, requested, waiters, drain,
                          call)
              /\ UNCHANGED <<activeOp, queue, place>>
  /\ UNCHANGED <<orphan, behind, frozen, nextContext, writeVars, budget>>

-----------------------------------------------------------------------------
Init ==
  /\ state = "idle" /\ activeTurn = None /\ activeOp = None
  /\ turn = [t \in Slot |-> FreeSlot]
  /\ orphan = "none"
  /\ queue = EmptyQueue
  /\ nextContext = FALSE
  /\ requested = FALSE /\ waiters = {} /\ drain = DrainOff
  /\ afterOp = FALSE
  /\ writes = [issued |-> 0, settled |-> 0] /\ line = <<>>
  /\ call = [c \in Caller |-> Ready]
  /\ budget = [c \in Caller |-> MaxCalls]
  /\ place = [e \in Entry |-> "new"]
  /\ behind = {} /\ frozen = {}

\* A caller makes a call.
Request(c) ==
  \/ CallSend(c) \/ QueueInput(c) \/ QueueNextTurnContext(c)
  \/ RequestContinuation(c) \/ RecordContext(c)
  \/ ClearQueue(c) \/ RemoveQueued(c) \/ Reorder(c) \/ PromoteQueued(c)
  \/ RestoreQueue(c) \/ QueueOperation(c)
  \/ Cancel(c) \/ Close(c) \/ SendQueuedNow(c) \/ ResumeQueue(c)

\* A call goes on behind its await.
Proceed(c) ==
  \/ \E op \in DOMAIN SendKind :
       StartIdle(c, op) \/ QueueBusy(c, op) \/ Refuse(c, op)
  \/ WaitForRelease(c) \/ LookAgain(c)
  \/ BeginWrite(c) \/ EndWrite(c)
  \/ CancelReturns(c) \/ CloseCompletes(c) \/ CloseFails(c)
  \/ SendNowProceeds(c) \/ SendNowFails(c) \/ SendNowStarts(c)
  \/ ResumeHead(c)

\* A turn, or what is left of one, goes on.
Advance(t) ==
  \/ Execute(t) \/ TakeSteering(t) \/ Deliver(t) \/ NaturalStop(t)
  \/ TakeFollowUps(t) \/ Settle(t) \/ SettleOperation(t)

Scheduled == DrainResumes \/ DrainEnds \/ AfterOperation

Next ==
  \/ \E c \in Caller : Request(c) \/ Proceed(c) \/ AbandonWaiting(c)
  \/ \E t \in Slot : Advance(t) \/ SignalAbort(t)
  \/ Scheduled
  \/ OrphanTakes

\* Promises and microtasks that are ready run; a turn ends because its model
\* calls and tools end or react to the abort.  Nobody has to call anything.
Fairness ==
  /\ \A c \in Caller : WF_vars(Proceed(c))
  /\ \A t \in Slot : WF_vars(Advance(t))
  /\ WF_vars(Scheduled)

Spec == Init /\ [][Next]_vars
FairSpec == Spec /\ Fairness

-----------------------------------------------------------------------------
(* Properties. *)

ControlTypeOK ==
  /\ state \in States
  /\ activeTurn \in Slot \cup {None}
  /\ activeOp \in Entry \cup {None}
  /\ turn \in [Slot -> Turns]
  /\ orphan \in {"none", "steering", "followUp"}

QueueTypeOK ==
  /\ queue \in Queues
  /\ place \in [Entry -> Places]
  /\ behind \subseteq Entry
  /\ frozen \subseteq Entry

CallTypeOK ==
  /\ nextContext \in BOOLEAN
  /\ requested \in BOOLEAN
  /\ waiters \subseteq Caller
  /\ drain \in [at : {"off", "running", "resumed", "ending"},
                turn : Slot \cup {None}, waiters : SUBSET Caller]
  /\ afterOp \in BOOLEAN
  /\ writes \in [issued : Nat, settled : Nat]
  /\ line \in Seq(Caller)
  /\ call \in [Caller -> CallRecords]
  /\ budget \in [Caller -> Nat]

TypeOK == ControlTypeOK /\ QueueTypeOK /\ CallTypeOK

\* At any time at most one turn runs in a session, whatever is called while
\* it runs, while it is cancelled and in the step in which it ends.
AtMostOneTurn == \A t, u \in Live : t = u

\* Every entry is in exactly one place, once: the queue holds what the ledger
\* says it holds without duplicates, and so do turns and suspended calls.
EntriesInOnePlace ==
  LET all == queue.steering \o queue.followUp IN
  /\ IsInjective(all)
  /\ ToSet(all) = {e \in Entry : place[e] = "queue"}
  /\ \A e \in Entry :
       /\ place[e] = "turn" =>
            \E t \in Live : e \in turn[t].holds /\
              \A u \in Live \ {t} : e \notin turn[u].holds
       /\ place[e] = "call" =>
            \E c \in Caller : /\ call[c].op = "sendQueuedNow"
                              /\ call[c].entry = e

\* What may become of an entry: it is queued, or taken before anyone saw it in
\* the queue; a turn or a call takes it, a user removes it; and what is stored,
\* removed or lost stays so.
Fates == [new |-> {"queue", "turn"},
          queue |-> {"call", "turn", "removed", "lost"},
          call |-> {"turn", "lost"},
          turn |-> {"journal", "lost"},
          journal |-> {}, removed |-> {}, lost |-> {}]

\* No input is handled twice: what was taken out of the queue is never put back
\* into it, a turn that ends leaves its input to no other, and what was stored,
\* removed or given up is not stored, removed or given up again.
EntriesGoOneWay ==
  [][\A e \in Entry :
       place'[e] # place[e] => place'[e] \in Fates[place[e]]]_vars

\* Pause-on-terminal: what a cancelled or failed turn leaves in the queue stays
\* there until the user resumes, sends it, removes it or clears the queue.  No
\* later turn, operation or continuation consumes it on the way.
LeftoversStay == frozen \subseteq Queued(queue)

\* Nothing that was queued behind a compaction is consumed before it ended.
OperationIsBarrier == behind \subseteq Queued(queue)

\* However often a compaction is asked for, one is pending or running at most,
\* and while it runs the turn that is active is the compaction.
OperationRunsAlone ==
  /\ Cardinality((Queued(queue) \cap Operations) \cup ({activeOp} \ {None})) <= 1
  /\ activeOp # None =>
       /\ activeTurn # None
       /\ turn[activeTurn].kind = "operation"
       /\ activeOp \in turn[activeTurn].holds

\* Nobody waits for what will not happen: the turn a call or the drain awaits
\* runs, the caller of a continuation is on a list that is due, and a session
\* that is running, cancelling or closing has a turn that can end.
NobodyIsForgotten ==
  /\ \A c \in Caller :
       /\ call[c].at = "turn" => call[c].turn \in Live
       /\ call[c].at = "continuation" => c \in waiters \cup drain.waiters
  /\ waiters # {} => requested
  /\ drain.waiters # {} => drain.at \in {"running", "resumed"}
  /\ drain.at = "running" => drain.turn \in Live
  /\ state \in {"running", "cancelling", "closing"} => activeTurn \in Live

Writing == {c \in Caller : call[c].at \in {"recording", "appending"}}

\* Context is written one record at a time, in the order of the calls, and who
\* awaits the writes stands in line once, behind nobody that came later: no
\* write that others wait for is without a caller to make it.
WritesInOrder ==
  /\ IsInjective(line)
  /\ ToSet(line) = {c \in Caller : call[c].at = "contextWrite"}
  /\ \A i, j \in DOMAIN line :
       i < j => call[line[i]].ticket <= call[line[j]].ticket
  /\ \A i \in DOMAIN line : call[line[i]].ticket <= writes.issued
  /\ {call[c].ticket : c \in Writing} = (writes.settled + 1)..writes.issued
  /\ \A c, d \in Writing : call[c].ticket = call[d].ticket => c = d
  /\ \A c \in Caller :
       call[c].at = "appending" => call[c].ticket = writes.settled + 1

\* A session that could not store how a turn ended never runs another one.
RecoveryIsFinal ==
  [][state = "recovery_required" =>
       state' \in {"recovery_required", "closed"} /\ Live' = {}]_vars

\* A continuation that was asked for is due: behind the drain or the turn that
\* runs, behind the microtask of an operation, or close() is about to refuse it.
\* Only a session in recovery_required keeps it until it is closed.
RequestsAreHeld ==
  requested =>
    \/ drain.at # "off"
    \/ activeTurn # None
    \/ afterOp /\ state = "idle" /\ ~queue.paused
    \/ state = "recovery_required"
    \/ \E c \in Caller : call[c].op = "close" /\ call[c].at = "released"

\* Whoever asked for a continuation gets an answer.
ContinuationsAnswered ==
  \A c \in Caller :
    call[c].at = "continuation" ~> call[c].at # "continuation"

\* A prompt that waits for the session is admitted, refused or abandoned.
PromptsAnswered ==
  \A c \in Caller :
    call[c].op = "sendWhenAvailable" ~> call[c].op # "sendWhenAvailable"

\* A compaction that has come to the head of the follow-ups is run, unless the
\* queue is paused or the session closed first: by queueOperation(), by the end
\* of a turn, behind another operation, by restoreQueue() or by resumeQueue().
OperationsRun ==
  \A e \in Operations :
    LET AtHead == queue.followUp # <<>> /\ Head(queue.followUp) = e
    IN  AtHead ~> ~AtHead \/ queue.paused \/ state = "closed"

-----------------------------------------------------------------------------
(* Promises of documents, comments and tests that the code does not keep.  *)

\* What a turn takes out of the queue becomes a stored message.
ConsumedIsStored ==
  [][\A e \in Entry : place[e] = "turn" => place'[e] # "lost"]_vars

\* A closed session runs nothing and never opens again.
ClosedIsFinal == [][state = "closed" => state' = "closed"]_vars

\* Input that waits in a queue that is not paused is consumed.
QueuedIsConsumed ==
  \A e \in Entry : place[e] = "queue" ~> place[e] # "queue" \/ queue.paused
=============================================================================
