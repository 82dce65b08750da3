----------------------------- MODULE TurnJournal -----------------------------
(***************************************************************************)
(* How the turns of one session get into its stored conversation: the      *)
(* repository side of TurnPipeline and of the session's resume.            *)
(*                                                                         *)
(* A turn loads the conversation, appends its start, appends what it       *)
(* produces and appends how it ended; every append names the version it    *)
(* expects.  The repository serves the operations on a conversation one at *)
(* a time, in the order they were asked for.  An operation may fail, may   *)
(* be carried out and still be reported as failed (the file lock's release *)
(* throws), and the process may die before it is answered.                 *)
(*                                                                         *)
(* The conversation is kept as what load() and plan() make of it.  An      *)
(* append's events stand for one event: the first, which decides what      *)
(* plan() makes of the batch.  AgentSession decides when turns start; here *)
(* a turn starts when the session is idle, and a record is written then.   *)
(***************************************************************************)
EXTENDS ConversationRecovery

CONSTANTS
  Faults,      \* the faults of a run
  MaxFaults,   \* bound: operations that fail and crashes
  MaxEntries,  \* bound: messages and contexts of a turn
  MaxRecords   \* bound: records written outside turns

\* "refused": an operation fails and nothing is stored; "lostReply",
\* "lostStart": an append (of a turn's start) is stored and fails; "crash";
\* "orphan": a collector outlives the abort of its turn's run and appends its
\* context; "late": it does so after the turn has settled.
FaultKinds == {"refused", "lostReply", "lostStart", "crash", "orphan", "late"}

ASSUME FaultsAssumption == Faults \subseteq FaultKinds
ASSUME BoundsAssumption ==
  MaxFaults \in Nat /\ MaxEntries \in Nat /\ MaxRecords \in Nat

\* "undefined" is neither an event nor how a turn was closed.
ASSUME NothingAssumption == None \notin OwnEvents \cup Closing

VARIABLES
  journal,  \* the conversation file
  pending,  \* the operations the repository still has to serve
  session,  \* the state of the session
  run,      \* MutableTurnState and progress of each turn
  orphan,   \* the turn whose collector is still at work
  faults    \* what failed: how often, and which kinds of faults

vars == <<journal, pending, session, run, orphan, faults>>

-----------------------------------------------------------------------------
Sessions == {"idle", "running", "recovery_required", "down", "resuming"}

Verdicts == {"completed", "cancelled", "failed"}

\* Where a turn that runs stands, and how it can have ended.
InFlight == {"admitted", "loading", "reading", "starting", "running",
             "writing", "finalizing", "flushing", "completing", "ending",
             "draining", "drained", "checking", "closing"}
Settled == Verdicts \cup {"persistence", "dead"}

Runs == [at : {"new"} \cup InFlight \cup Settled, version : Nat,
         started : BOOLEAN, aborted : BOOLEAN,
         verdict : Verdicts \cup {None}, attempt : 0..1]

NewRun == [at |-> "new", version |-> 0, started |-> FALSE, aborted |-> FALSE,
           verdict |-> None, attempt |-> 0]

\* A load has no event.  "by" tells whose continuation awaits the answer.
Requests == [by : {"turn", "orphan", "recorder", "resume"},
             turn : Turn \cup {None}, expected : Nat,
             event : OwnEvents \cup {None}]

Journals == [version : Nat, plan : Plans, opened : SUBSET Turn,
             entries : [Turn -> Nat], records : Nat,
             terminal : [Turn -> Closing \cup {None}]]

EmptyJournal ==
  [version |-> 0, plan |-> Ready, opened |-> {},
   entries |-> [t \in Turn |-> 0], records |-> 0,
   terminal |-> [t \in Turn |-> None]]

\* The terminal lookup of a turn finds the first one stored for it.
Stored(J, e) ==
  [version |-> J.version + 1,
   plan |-> PlanStep(J.plan, e),
   opened |-> IF e.type \in Opening THEN J.opened \cup {e.turn} ELSE J.opened,
   entries |-> [t \in Turn |-> J.entries[t] +
                  IF e.type \in Inside /\ e.turn = t THEN 1 ELSE 0],
   records |-> J.records + IF e.type \in Outside THEN 1 ELSE 0,
   terminal |-> [t \in Turn |->
                  IF e.type \in Closing /\ e.turn = t /\ J.terminal[t] = None
                    THEN e.type ELSE J.terminal[t]]]

TerminalOf == [completed |-> "turn.completed", cancelled |-> "turn.cancelled",
               failed |-> "turn.failed"]

-----------------------------------------------------------------------------
(* The repository. *)

Load(by, t) == [by |-> by, turn |-> t, expected |-> 0, event |-> None]

AppendOf(by, t, version, e) ==
  [by |-> by, turn |-> t, expected |-> version, event |-> e]

Ask(r) == pending' = Append(pending, r)

Serving(by, t) ==
  /\ pending # <<>>
  /\ Head(pending).by = by
  /\ Head(pending).turn = t

\* The operation that is served is answered; its caller asks for those in rs.
Answered(rs) == pending' = Tail(pending) \o rs

Fault(kind) ==
  /\ kind \in Faults
  /\ faults.count < MaxFaults
  /\ faults' = [count |-> faults.count + 1, kinds |-> faults.kinds \cup {kind}]

\* Mutation: the version an append expects is not compared.
AcceptedAlways(r) == TRUE

Accepted(r) == r.expected = journal.version

\* An append resolves, or rejects.
AppendResolves ==
  /\ Accepted(Head(pending))
  /\ journal' = Stored(journal, Head(pending).event)
  /\ UNCHANGED faults

AppendRejects ==
  \/ /\ ~Accepted(Head(pending))
     /\ UNCHANGED <<journal, faults>>
  \/ /\ Fault("refused")
     /\ UNCHANGED journal
  \/ /\ Accepted(Head(pending))
     /\ Fault(IF Head(pending).event.type \in Opening
                THEN "lostStart" ELSE "lostReply")
     /\ journal' = Stored(journal, Head(pending).event)

LoadResolves == UNCHANGED <<journal, faults>>
LoadRejects == Fault("refused") /\ UNCHANGED journal

-----------------------------------------------------------------------------
(* The turn's stages, each up to the repository operation it awaits. *)

Goes(t, at) == run' = [run EXCEPT ![t].at = at]

\* An append of turn t resolved: state.version is the version it returned.
GoesOn(t, at) ==
  run' = [run EXCEPT ![t].at = at, ![t].version = Head(pending).expected + 1]

Ends(t, how) ==
  /\ Goes(t, how)
  /\ session' = IF how = "persistence" THEN "recovery_required" ELSE "idle"

\* Mutation: a cancelled turn settles without a terminal event.
CatchSettles(t, verdict) == Ends(t, verdict)

\* The catch clause: a turn that has started stores how it ended.
Catch(t, verdict) ==
  IF run[t].started
    THEN /\ run' = [run EXCEPT ![t].at = "ending", ![t].verdict = verdict]
         /\ UNCHANGED session
    ELSE Ends(t, verdict)

\* Mutation: the engine's stop reason is taken for the turn's status.
FailureByStopReason(t) == IF run[t].aborted THEN "aborted" ELSE "failed"

Failure(t) == IF run[t].aborted THEN "cancelled" ELSE "failed"

StartTurn(t) ==
  /\ session = "idle"
  /\ run[t].at = "new"
  /\ session' = "running"
  /\ Goes(t, "admitted")
  /\ UNCHANGED <<journal, pending, orphan, faults>>

Abort(t) ==
  /\ run[t].at \in InFlight
  /\ ~run[t].aborted
  /\ run' = [run EXCEPT ![t].aborted = TRUE]
  /\ UNCHANGED <<journal, pending, session, orphan, faults>>

\* The snapshot is bound and the request, if the turn has one, is prepared.
LoadConversation(t) ==
  /\ run[t].at = "admitted"
  /\ ~run[t].aborted
  /\ Goes(t, "loading")
  /\ Ask(Load("turn", t))
  /\ UNCHANGED <<journal, session, orphan, faults>>

\* A stage, the engine or the abort throws between two operations.
Interrupted(t) ==
  /\ run[t].at \in {"admitted", "running"}
  /\ \E verdict \in IF run[t].aborted THEN {"cancelled"}
                    ELSE {"cancelled", "failed"} : Catch(t, verdict)
  /\ \/ UNCHANGED <<orphan, faults>>
     \/ /\ "orphan" \in Faults /\ run[t].aborted
        /\ run[t].at = "running" /\ orphan = None
        /\ orphan' = t
        /\ faults' = [faults EXCEPT !.kinds = @ \cup {"orphan"}]
  /\ UNCHANGED <<journal, pending>>

\* load(), then readDocument().
Loaded(t) ==
  /\ Serving("turn", t) /\ run[t].at = "loading"
  /\ \/ /\ LoadResolves
        /\ run' = [run EXCEPT ![t].at = "reading",
                              ![t].version = journal.version]
        /\ Answered(<<Load("turn", t)>>)
        /\ UNCHANGED session
     \/ /\ LoadRejects
        /\ Catch(t, Failure(t))
        /\ Answered(<<>>)
  /\ UNCHANGED orphan

AppendStart(t) ==
  /\ Serving("turn", t) /\ run[t].at = "reading"
  /\ \/ /\ LoadResolves /\ ~run[t].aborted
        /\ Goes(t, "starting")
        /\ Answered(<<AppendOf("turn", t, run[t].version,
                               Event("turn.started", t))>>)
        /\ UNCHANGED session
     \/ /\ LoadRejects \/ (LoadResolves /\ run[t].aborted)
        /\ Catch(t, Failure(t))
        /\ Answered(<<>>)
  /\ UNCHANGED orphan

Started(t) ==
  /\ Serving("turn", t) /\ run[t].at = "starting"
  /\ \/ /\ AppendResolves
        /\ run' = [run EXCEPT ![t].at = "running", ![t].started = TRUE,
                              ![t].version = Head(pending).expected + 1]
        /\ UNCHANGED session
     \/ /\ AppendRejects
        /\ Catch(t, Failure(t))
  /\ Answered(<<>>)
  /\ UNCHANGED orphan

Entry(t) == Event("message.appended", t)

\* A message or a compaction of the run, or the contexts its tools buffered.
AppendEntry(t) ==
  /\ journal.entries[t] < MaxEntries
  /\ \/ run[t].at = "running" /\ Goes(t, "writing")
     \/ run[t].at = "finalizing" /\ Goes(t, "flushing")
  /\ Ask(AppendOf("turn", t, run[t].version, Entry(t)))
  /\ UNCHANGED <<journal, session, orphan, faults>>

EntryAppended(t) ==
  /\ Serving("turn", t) /\ run[t].at \in {"writing", "flushing"}
  /\ \/ /\ AppendResolves
        /\ GoesOn(t, IF run[t].at = "writing" THEN "running" ELSE "finalizing")
        /\ UNCHANGED session
     \/ /\ AppendRejects
        /\ Catch(t, Failure(t))
  /\ Answered(<<>>)
  /\ UNCHANGED orphan

\* The engine's completion is accepted unless the turn is aborted by then.
RunCompletes(t) ==
  /\ run[t].at = "running"
  /\ ~run[t].aborted
  /\ Goes(t, "finalizing")
  /\ UNCHANGED <<journal, pending, session, orphan, faults>>

AppendCompleted(t) ==
  /\ run[t].at = "finalizing"
  /\ Goes(t, "completing")
  /\ Ask(AppendOf("turn", t, run[t].version, Event("turn.completed", t)))
  /\ UNCHANGED <<journal, session, orphan, faults>>

Completed(t) ==
  /\ Serving("turn", t) /\ run[t].at = "completing"
  /\ \/ AppendResolves /\ Ends(t, "completed")
     \/ /\ AppendRejects
        /\ Catch(t, Failure(t))
  /\ Answered(<<>>)
  /\ UNCHANGED orphan

-----------------------------------------------------------------------------
(* appendTerminalSafely and appendTerminalEvent. *)

\* What is left in the context buffer goes first; if that fails, never mind.
FlushContext(t) ==
  /\ run[t].at = "ending"
  /\ journal.entries[t] < MaxEntries
  /\ Goes(t, "draining")
  /\ Ask(AppendOf("turn", t, run[t].version, Entry(t)))
  /\ UNCHANGED <<journal, session, orphan, faults>>

ContextFlushed(t) ==
  /\ Serving("turn", t) /\ run[t].at = "draining"
  /\ \/ AppendResolves /\ GoesOn(t, "drained")
     \/ AppendRejects /\ Goes(t, "drained")
  /\ Answered(<<>>)
  /\ UNCHANGED <<session, orphan>>

\* Mutation: a turn whose contexts have been flushed does not go on.
LoadUnlessFlushed(t) ==
  /\ run[t].at = "ending"
  /\ Goes(t, "checking")
  /\ Ask(Load("turn", t))
  /\ UNCHANGED <<journal, session, orphan, faults>>

LoadForTerminal(t) ==
  /\ run[t].at \in {"ending", "drained"}
  /\ Goes(t, "checking")
  /\ Ask(Load("turn", t))
  /\ UNCHANGED <<journal, session, orphan, faults>>

\* Mutation: a terminal that is stored already is not looked for.
NeverTerminated(t) == FALSE

\* Mutation: the terminal of any turn will do.
SomeTerminated(t) == \E u \in Turn : journal.terminal[u] # None

Terminated(t) == journal.terminal[t] # None

AppendTerminal(t) ==
  /\ Serving("turn", t) /\ run[t].at = "checking"
  /\ \/ /\ LoadResolves /\ Terminated(t)
        /\ Ends(t, run[t].verdict)
        /\ Answered(<<>>)
     \/ /\ LoadResolves /\ ~Terminated(t) /\ journal.plan = Interrupt(t)
        /\ Goes(t, "closing")
        /\ Answered(<<AppendOf("turn", t, journal.version,
                               Event(TerminalOf[run[t].verdict], t))>>)
        /\ UNCHANGED session
     \/ /\ \/ LoadRejects
           \/ LoadResolves /\ ~Terminated(t) /\ journal.plan # Interrupt(t)
        /\ Ends(t, "persistence")
        /\ Answered(<<>>)
  /\ UNCHANGED orphan

\* A second attempt is made, and no third.
TerminalAppended(t) ==
  /\ Serving("turn", t) /\ run[t].at = "closing"
  /\ \/ /\ AppendResolves
        /\ run' = [run EXCEPT ![t].at = run[t].verdict,
                              ![t].version = Head(pending).expected + 1]
        /\ session' = "idle"
        /\ Answered(<<>>)
     \/ /\ AppendRejects /\ run[t].attempt = 0
        /\ run' = [run EXCEPT ![t].at = "checking", ![t].attempt = 1]
        /\ Answered(<<Load("turn", t)>>)
        /\ UNCHANGED session
     \/ /\ AppendRejects /\ run[t].attempt = 1
        /\ Ends(t, "persistence")
        /\ Answered(<<>>)
  /\ UNCHANGED orphan

-----------------------------------------------------------------------------
(* A collector the abort did not stop, and records outside turns. *)

\* appendQueuedContext: neither the signal nor the turn's end is looked at.
OrphanAppends ==
  /\ orphan # None
  /\ run[orphan].at \in Settled => "late" \in Faults
  /\ Ask(AppendOf("orphan", orphan, run[orphan].version,
                  Event("context.appended", orphan)))
  /\ orphan' = None
  /\ UNCHANGED <<journal, session, run, faults>>

OrphanAnswered(t) ==
  /\ Serving("orphan", t)
  /\ \/ AppendResolves /\ GoesOn(t, run[t].at)
     \/ AppendRejects /\ UNCHANGED run
  /\ Answered(<<>>)
  /\ UNCHANGED <<session, orphan>>

Recording == \E i \in DOMAIN pending : pending[i].by = "recorder"

\* recordContext: one at a time, begun while the session is idle.
Record ==
  /\ session = "idle"
  /\ ~Recording
  /\ journal.records < MaxRecords
  /\ Ask(Load("recorder", None))
  /\ UNCHANGED <<journal, session, run, orphan, faults>>

RecordLoaded ==
  /\ Serving("recorder", None) /\ Head(pending).event = None
  /\ \/ /\ LoadResolves
        /\ Answered(<<AppendOf("recorder", None, journal.version,
                               Event("context.recorded", None))>>)
     \/ LoadRejects /\ Answered(<<>>)
  /\ UNCHANGED <<session, run, orphan>>

Recorded ==
  /\ Serving("recorder", None) /\ Head(pending).event # None
  /\ AppendResolves \/ AppendRejects
  /\ Answered(<<>>)
  /\ UNCHANGED <<session, run, orphan>>

-----------------------------------------------------------------------------
(* The session goes down and comes up again. *)

\* Closed by its user, who may open it again.
CloseSession ==
  /\ session \in {"idle", "recovery_required"}
  /\ ~Recording
  /\ session' = "down"
  /\ UNCHANGED <<journal, pending, run, orphan, faults>>

\* The process dies.  An append that is served may have been stored.
Crash ==
  /\ session # "down"
  /\ Fault("crash")
  /\ session' = "down"
  /\ pending' = <<>>
  /\ orphan' = None
  /\ run' = [t \in Turn |-> IF run[t].at \in InFlight
                              THEN [run[t] EXCEPT !.at = "dead"] ELSE run[t]]
  /\ \/ UNCHANGED journal
     \/ /\ pending # <<>>
        /\ Head(pending).event # None
        /\ Accepted(Head(pending))
        /\ journal' = Stored(journal, Head(pending).event)

Resume ==
  /\ session = "down"
  /\ session' = "resuming"
  /\ Ask(Load("resume", None))
  /\ UNCHANGED <<journal, run, orphan, faults>>

\* Mutation: the open turn is left open.
ResumeOpen ==
  /\ Serving("resume", None) /\ Head(pending).event = None
  /\ LoadResolves
  /\ session' = IF journal.plan = Throws THEN "down" ELSE "idle"
  /\ Answered(<<>>)
  /\ UNCHANGED <<run, orphan>>

ResumeLoaded ==
  /\ Serving("resume", None) /\ Head(pending).event = None
  /\ \/ /\ LoadResolves /\ journal.plan = Ready
        /\ session' = "idle"
        /\ Answered(<<>>)
     \/ /\ LoadResolves /\ journal.plan.status = "interrupt"
        /\ Answered(<<AppendOf("resume", None, journal.version,
                        Event("turn.failed", journal.plan.turn))>>)
        /\ UNCHANGED session
     \/ /\ LoadRejects \/ (LoadResolves /\ journal.plan = Throws)
        /\ session' = "down"
        /\ Answered(<<>>)
  /\ UNCHANGED <<run, orphan>>

Resumed ==
  /\ Serving("resume", None) /\ Head(pending).event # None
  /\ \/ AppendResolves /\ session' = "idle"
     \/ AppendRejects /\ session' = "down"
  /\ Answered(<<>>)
  /\ UNCHANGED <<run, orphan>>

-----------------------------------------------------------------------------
Init ==
  /\ journal = EmptyJournal
  /\ pending = <<>>
  /\ session = "idle"
  /\ run = [t \in Turn |-> NewRun]
  /\ orphan = None
  /\ faults = [count |-> 0, kinds |-> {}]

\* The turn's own code and engine.
Step(t) ==
  \/ LoadConversation(t) \/ Interrupted(t) \/ AppendEntry(t)
  \/ RunCompletes(t) \/ AppendCompleted(t) \/ FlushContext(t)
  \/ LoadForTerminal(t)

\* The repository serves an operation and its caller goes on.
Serve ==
  \/ \E t \in Turn :
       \/ Loaded(t) \/ AppendStart(t) \/ Started(t) \/ EntryAppended(t)
       \/ Completed(t) \/ ContextFlushed(t) \/ AppendTerminal(t)
       \/ TerminalAppended(t) \/ OrphanAnswered(t)
  \/ RecordLoaded \/ Recorded
  \/ ResumeLoaded \/ Resumed

Next ==
  \/ \E t \in Turn : StartTurn(t) \/ Abort(t) \/ Step(t)
  \/ Serve
  \/ OrphanAppends \/ Record \/ CloseSession \/ Crash \/ Resume

\* File operations end, and so do a turn's model calls and tools.
Fairness == WF_vars(Serve) /\ \A t \in Turn : WF_vars(Step(t))

Spec == Init /\ [][Next]_vars
FairSpec == Spec /\ Fairness

-----------------------------------------------------------------------------
(* Properties. *)

TypeOK ==
  /\ journal \in Journals
  /\ pending \in Seq(Requests)
  /\ session \in Sessions
  /\ run \in [Turn -> Runs]
  /\ orphan \in Turn \cup {None}
  /\ faults \in [count : 0..MaxFaults, kinds : SUBSET FaultKinds]

\* The stored conversation stays recoverable: whatever fails, races or
\* crashes, plan() never meets a history it refuses.
JournalIsRecoverable == journal.plan # Throws

\* A session that takes new turns has no open turn in its conversation: every
\* turn that left the session, and every turn a crash cut off, is closed.
IdleIsClosed == session = "idle" => journal.plan = Ready

\* Unless an answer of the repository gets lost, what the caller of a turn is
\* told is what the conversation says of it.
AnswerIsStored ==
  "lostReply" \notin faults.kinds =>
    \A t \in Turn :
      run[t].at \in Verdicts /\ run[t].started =>
        journal.terminal[t] = TerminalOf[run[t].at]

\* Lost answers alone, however many, and a collector's append between the load
\* and the append of a terminal alone do not put a session out of use: the
\* second attempt makes up for them.
NotStrandedLightly ==
  session = "recovery_required" =>
    "refused" \in faults.kinds \/ {"lostReply", "orphan"} \subseteq faults.kinds

\* A turn that started to run settles, unless its process dies.
TurnsSettle == \A t \in Turn : run[t].at = "admitted" ~> run[t].at \in Settled

\* The conversation implements the turns' abstract life.
Life == [t \in Turn |-> IF t \notin journal.opened THEN "new"
                        ELSE IF journal.terminal[t] = None THEN "open"
                        ELSE "closed"]

Lifecycle == INSTANCE TurnLifecycle WITH life <- Life, size <- journal.entries

\* Turns open one at a time, store what they store while they are open, and
\* close once: in the conversation as it is stored, at every step.
TurnsAreSerial == Lifecycle!Spec
=============================================================================
