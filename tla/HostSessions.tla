----------------------------- MODULE HostSessions -----------------------------
(***************************************************************************)
(* The sessions a RuntimeHost owns: createSession() and the calls that     *)
(* join it (RuntimeHostSessionLifecycle), the directory, the phases of a   *)
(* session's disposal (KernelRuntimeSession, RetryableCleanup), close()    *)
(* with its ordered tasks (RuntimeHostCloseCoordinator), and the files the *)
(* queues of sessions are kept in (RuntimeHostQueueSidecar).               *)
(*                                                                         *)
(* A step runs from one await to the next.  Creation always names a        *)
(* conversation: one that does not makes a conversation no other call can  *)
(* name.  What a queue holds is AgentSession's concern: here a queue is    *)
(* the number of its last change, whether it has entries and whether it is *)
(* paused.  Execution modes, models and the registration of agents are     *)
(* left out, and so is a conversation that is continued in another file.   *)
(***************************************************************************)
EXTENDS Naturals, Sequences, FiniteSets

CONSTANTS
  Path,       \* conversations, by their normalised files
  Call,       \* slots of callers of createSession
  Session,    \* sessions that may be assembled
  None,
  Stored,     \* conversations an earlier process left a queue of
  MaxChanges, \* bound: changes of queues
  MaxFaults   \* bound: operations that fail, deaths of the process

ASSUME NoneAssumption == None \notin Path \cup Session
ASSUME StoredAssumption == Stored \subseteq Path

VARIABLES
  call,    \* what each caller of createSession waits for
  where,   \* whether a session is in the directory
  pathOf,  \* its conversation
  todo,    \* its cleanup tasks that have not succeeded
  phase,   \* where its disposal stands
  queue,   \* the queue of each session
  chain,   \* the snapshots that wait to be written, per conversation
  disk,    \* the snapshot in the file of each conversation
  task,    \* the task close() is at
  closing, \* an attempt of close() is under way
  awaited, \* the sessions whose disposal it waits for
  failed,  \* one of them failed
  changes, \* changes of queues so far
  faults,
  said,    \* the last snapshot a session announced
  frozen,  \* conversations closed with a turn that left a queue
  spoiled  \* conversations whose last write failed

hostVars == <<task, closing, awaited, failed>>
fileVars == <<chain, disk, said, spoiled>>
sessionVars == <<where, pathOf, todo, phase, queue, frozen>>
bounds == <<changes, faults>>
vars == <<call, hostVars, fileVars, sessionVars, bounds>>

-----------------------------------------------------------------------------
\* The cleanup tasks of a session, in the order of their phases: compaction and
\* document participants, the event sink (which never fails and is cleared when
\* the others have settled), the kernel session, its resources (which give the
\* ownership of the conversation back).
Tasks == {"early", "sink", "kernel", "lease"}

After == [early |-> "kernel", kernel |-> "lease"]

Snapshot == [at : Nat, some : BOOLEAN, paused : BOOLEAN]

Nothing == [at |-> 0, some |-> FALSE, paused |-> FALSE]

\* A queue that is empty and not paused has no file; neither has one whose file
\* cannot be read.
Kept(q) == q.some \/ q.paused

\* A turn that was stopped or failed pauses a queue with entries.
Stopped(q) == [q EXCEPT !.paused = q.some \/ @]

CallStates == {"idle", "joined", "assembly", "duplicate", "restore", "rollback"}

NoCall == [at |-> "idle", path |-> None, session |-> None]

Calls == [at : CallStates, path : Path \cup {None}, session : Session \cup {None}]

CloseTasks == {"none", "creations", "sessions", "backends", "done"}

TypeOK ==
  /\ call \in [Call -> Calls]
  /\ where \in [Session -> {"unused", "loose", "listed", "gone"}]
  /\ pathOf \in [Session -> Path \cup {None}]
  /\ todo \in [Session -> SUBSET Tasks]
  /\ phase \in [Session -> (Tasks \ {"sink"}) \cup {"none"}]
  /\ queue \in [Session -> Snapshot]
  /\ chain \in [Path -> Seq(Snapshot)]
  /\ disk \in [Path -> Snapshot]
  /\ task \in CloseTasks
  /\ closing \in BOOLEAN
  /\ awaited \subseteq Session
  /\ failed \in BOOLEAN
  /\ changes \in Nat /\ faults \in Nat
  /\ said \in [Path -> Snapshot]
  /\ frozen \subseteq Path
  /\ spoiled \subseteq Path

Init ==
  /\ call = [c \in Call |-> NoCall]
  /\ where = [s \in Session |-> "unused"]
  /\ pathOf = [s \in Session |-> None]
  /\ todo = [s \in Session |-> {}]
  /\ phase = [s \in Session |-> "none"]
  /\ queue = [s \in Session |-> Nothing]
  /\ chain = [p \in Path |-> <<>>]
  /\ task = "none" /\ closing = FALSE /\ awaited = {} /\ failed = FALSE
  /\ changes = 0 /\ faults = 0
  /\ disk = [p \in Path |-> IF p \in Stored THEN Stopped([Nothing EXCEPT !.some = TRUE]) ELSE Nothing]
  /\ said = disk
  /\ frozen = {}
  /\ spoiled = {}

Fault == faults < MaxFaults /\ faults' = faults + 1

Listed(s) == where[s] = "listed"

OpenOn(p) == {s \in Session : Listed(s) /\ pathOf[s] = p}

Creating == {c \in Call : call[c].at \notin {"idle", "joined"}}

\* A session has the lease of the conversation, perhaps one in nobody's hands.
Leased(p) == \E s \in Session : pathOf[s] = p /\ "lease" \in todo[s]

\* A bound: a session is left for every assembly under way that can get one.
Unspent(p) ==
  \/ Leased(p)
  \/ Cardinality({c \in Call : call[c].at = "assembly" /\ ~Leased(call[c].path)})
       < Cardinality({s \in Session : where[s] = "unused"})

\* close() has been called.
Closed == task # "none"

-----------------------------------------------------------------------------
(* createSession() *)

\* Mutation: a creation under way is joined, a session that is open is not found.
CreateUnlessPending(c, p) ==
  /\ call[c].at = "idle"
  /\ ~Closed
  /\ ~\E d \in Creating : call[d].path = p
  /\ Unspent(p)
  /\ call' = [call EXCEPT ![c] = [at |-> "assembly", path |-> p, session |-> None]]
  /\ UNCHANGED <<hostVars, fileVars, sessionVars, bounds>>

\* A call joins the creation of the same conversation; without one it gets the
\* session that is in the directory, and only then is one assembled.
CreateSession(c, p) ==
  /\ call[c].at = "idle"
  /\ \/ /\ \E d \in Creating : call[d].path = p
        /\ call' = [call EXCEPT ![c] = [at |-> "joined", path |-> p, session |-> None]]
     \/ /\ ~\E d \in Creating : call[d].path = p
        /\ ~Closed
        /\ OpenOn(p) = {} /\ Unspent(p)
        /\ call' = [call EXCEPT ![c] = [at |-> "assembly", path |-> p, session |-> None]]
  /\ UNCHANGED <<hostVars, fileVars, sessionVars, bounds>>

\* Mutation: the creation is not shared with those who joined it.
AnswerAlone(c) == call' = [call EXCEPT ![c] = NoCall]

\* Whoever joined is answered with the one that was joined.
Answer(c) ==
  LET answered(d) == d = c \/ (call[d].at = "joined" /\ call[d].path = call[c].path) IN
  call' = [d \in Call |-> IF answered(d) THEN NoCall ELSE call[d]]

AssemblyFails(c) ==
  /\ call[c].at = "assembly"
  /\ Fault
  /\ Answer(c)
  /\ UNCHANGED <<hostVars, fileVars, sessionVars, changes>>

\* An assembly fails and the disposal that is to roll it back fails too: the
\* lease it took is in nobody's hands.
RollbackFails(c, s) ==
  LET p == call[c].path IN
  /\ call[c].at = "assembly"
  /\ where[s] = "unused"
  /\ ~Leased(p)
  /\ Fault
  /\ where' = [where EXCEPT ![s] = "loose"]
  /\ pathOf' = [pathOf EXCEPT ![s] = p]
  /\ todo' = [todo EXCEPT ![s] = {"lease"}]
  /\ Answer(c)
  /\ UNCHANGED <<hostVars, fileVars, phase, queue, frozen, changes>>

\* The conversation is owned already: by an assembly or a copy whose rollback
\* failed.
AssemblyConflicts(c) ==
  /\ call[c].at = "assembly"
  /\ Leased(call[c].path)
  /\ Answer(c)
  /\ UNCHANGED <<hostVars, fileVars, sessionVars, bounds>>

\* The session is registered and its events are attached, or its id is taken
\* (the file is a copy of another session's) and it is disposed of again.
Assembled(c, s) ==
  LET p == call[c].path IN
  /\ call[c].at = "assembly"
  /\ where[s] = "unused"
  /\ ~Leased(p)
  /\ pathOf' = [pathOf EXCEPT ![s] = p]
  /\ todo' = [todo EXCEPT ![s] = Tasks]
  /\ \/ /\ where' = [where EXCEPT ![s] = "listed"]
        /\ call' = [call EXCEPT ![c] = [@ EXCEPT !.at = "restore", !.session = s]]
        /\ UNCHANGED phase
     \/ /\ \E t \in Session : Listed(t)
        /\ where' = [where EXCEPT ![s] = "loose"]
        /\ call' = [call EXCEPT ![c] = [@ EXCEPT !.at = "duplicate", !.session = s]]
        /\ phase' = [phase EXCEPT ![s] = "early"]
  /\ UNCHANGED <<hostVars, fileVars, queue, frozen, bounds>>

DuplicateGone(c) ==
  /\ call[c].at = "duplicate"
  /\ phase[call[c].session] = "none"
  /\ Answer(c)
  /\ UNCHANGED <<hostVars, fileVars, sessionVars, bounds>>

\* Whether the host still hears of the session's queue.
Heard(s) == Listed(s) /\ "sink" \in todo[s]

\* persist(): a snapshot joins the writes of its conversation.
Persist(s, q) ==
  LET p == pathOf[s] IN
  IF Heard(s)
    THEN /\ chain' = [chain EXCEPT ![p] = Append(@, q)]
         /\ said' = [said EXCEPT ![p] = q]
         /\ frozen' = frozen \ {p}
    ELSE UNCHANGED <<chain, said, frozen>>

\* restore() reads the file, whatever is still to be written to it, and announces
\* what it read.
Restore(c) ==
  LET s == call[c].session
      q == disk[call[c].path]
  IN
  /\ call[c].at = "restore"
  /\ IF Kept(q)
       THEN queue' = [queue EXCEPT ![s] = q] /\ Persist(s, q)
       ELSE UNCHANGED <<queue, chain, said, frozen>>
  /\ Answer(c)
  /\ UNCHANGED <<hostVars, where, pathOf, todo, phase, disk, spoiled, bounds>>

\* Mutation: a disposal begins with a phase the session does not have.
StartDisposalAtSink(S) ==
  phase' = [s \in Session |->
    IF s \in S /\ Listed(s) /\ phase[s] = "none" THEN "sink" ELSE phase[s]]

\* One disposal of a session at a time: whoever asks meanwhile joins it.
StartDisposal(S) ==
  phase' = [s \in Session |->
    IF s \in S /\ Listed(s) /\ phase[s] = "none" THEN "early" ELSE phase[s]]

\* Attaching fails; the session is disposed of.
InitialisationFails(c) ==
  /\ call[c].at = "restore"
  /\ Fault
  /\ StartDisposal({call[c].session})
  /\ call' = [call EXCEPT ![c].at = "rollback"]
  /\ UNCHANGED <<hostVars, fileVars, where, pathOf, todo, queue, frozen, changes>>

RolledBack(c) ==
  /\ call[c].at = "rollback"
  /\ phase[call[c].session] = "none"
  /\ Answer(c)
  /\ UNCHANGED <<hostVars, fileVars, sessionVars, bounds>>

-----------------------------------------------------------------------------
(* A session at work *)

Open(s) == where[s] = "listed" /\ "kernel" \in todo[s]

\* Its queue changes: by a caller, by the turn that consumes it, by the end of a
\* turn that was stopped and pauses it.
ChangeQueue(s) ==
  /\ Open(s)
  /\ changes < MaxChanges
  /\ changes' = changes + 1
  /\ \E some \in BOOLEAN : \E paused \in {FALSE, queue[s].paused, queue[s].some /\ some} :
       LET q == [at |-> changes + 1, some |-> some, paused |-> paused] IN
       queue' = [queue EXCEPT ![s] = q] /\ Persist(s, q)
  /\ UNCHANGED <<call, hostVars, where, pathOf, todo, phase, disk, spoiled, faults>>

-----------------------------------------------------------------------------
(* disposeSession() *)

Dispose(s) ==
  /\ Listed(s) /\ phase[s] = "none"
  /\ StartDisposal({s})
  /\ UNCHANGED <<call, hostVars, fileVars, where, pathOf, todo, queue, frozen, bounds>>

\* Mutation: only the disposals that succeed are reported.
LeaveUnreported(s) ==
  IF todo'[s] = {}
    THEN /\ where' = [where EXCEPT ![s] = "gone"]
         /\ pathOf' = [pathOf EXCEPT ![s] = None]
         /\ awaited' = awaited \ {s}
         /\ failed' = failed
    ELSE UNCHANGED <<where, pathOf, awaited, failed>>

\* The disposal is over: a session with nothing left to clean is removed, any
\* other stays where it was.
Leave(s) ==
  /\ IF todo'[s] = {}
       THEN /\ where' = [where EXCEPT ![s] = "gone"]
            /\ pathOf' = [pathOf EXCEPT ![s] = None]
            /\ failed' = failed
       ELSE /\ failed' = (failed \/ s \in awaited)
            /\ UNCHANGED <<where, pathOf>>
  /\ awaited' = awaited \ {s}

\* The next phase, or the end.
Advance(s) ==
  IF phase[s] = "lease"
    THEN phase' = [phase EXCEPT ![s] = "none"] /\ Leave(s)
    ELSE phase' = [phase EXCEPT ![s] = After[@]] /\ UNCHANGED <<where, pathOf, awaited, failed>>

\* close() of the kernel session: the turn it may have is stopped, which pauses
\* the queue, and then the queue is cleared.
CloseKernel(s) ==
  /\ queue' = [queue EXCEPT ![s] = Nothing]
  /\ \E stopped \in BOOLEAN :
       frozen' = IF stopped /\ queue[s].some THEN frozen \cup {pathOf[s]} ELSE frozen \ {pathOf[s]}

CleanUp(s) ==
  /\ phase[s] # "none"
  /\ todo' = [todo EXCEPT ![s] = @ \ {phase[s], "sink"}]
  /\ Advance(s)
  /\ IF phase[s] = "kernel" /\ "kernel" \in todo[s]
       THEN CloseKernel(s)
       ELSE UNCHANGED <<queue, frozen>>
  /\ UNCHANGED <<call, task, closing, fileVars, bounds>>

\* A task fails; the phases behind it run all the same.  Closing the kernel
\* session fails only when its turn does.
CleanUpFails(s) ==
  /\ phase[s] \in todo[s]
  /\ Fault
  /\ todo' = [todo EXCEPT ![s] = @ \ {"sink"}]
  /\ Advance(s)
  /\ queue' = [queue EXCEPT ![s] = IF phase[s] = "kernel" THEN Stopped(@) ELSE @]
  /\ UNCHANGED <<call, task, closing, fileVars, frozen, changes>>

-----------------------------------------------------------------------------
(* The files of queues *)

\* Mutation: the writes of a conversation are not chained.
WriteAny(p) ==
  /\ chain[p] # <<>>
  /\ \E i \in 1..Len(chain[p]) :
       /\ disk' = [disk EXCEPT ![p] = chain[p][i]]
       /\ chain' = [chain EXCEPT ![p] = [j \in 1..(Len(@) - 1) |-> @[IF j < i THEN j ELSE j + 1]]]
  /\ spoiled' = spoiled \ {p}
  /\ UNCHANGED <<call, hostVars, sessionVars, said, bounds>>

Write(p) ==
  /\ chain[p] # <<>>
  /\ disk' = [disk EXCEPT ![p] = Head(chain[p])]
  /\ chain' = [chain EXCEPT ![p] = Tail(@)]
  /\ spoiled' = spoiled \ {p}
  /\ UNCHANGED <<call, hostVars, sessionVars, said, bounds>>

\* What a write that is cut short leaves: a file nobody can read.
Torn(q) == [at |-> q.at, some |-> FALSE, paused |-> FALSE]

WriteFails(p) ==
  /\ chain[p] # <<>>
  /\ Fault
  /\ disk' \in {disk, [disk EXCEPT ![p] = Torn(@)]}
  /\ chain' = [chain EXCEPT ![p] = Tail(@)]
  /\ spoiled' = spoiled \cup {p}
  /\ UNCHANGED <<call, hostVars, sessionVars, said, changes>>

-----------------------------------------------------------------------------
(* close() *)

\* Nobody is admitted any more; an attempt begins where the last one failed.
Close ==
  /\ ~closing /\ task # "done"
  /\ closing' = TRUE
  /\ failed' = FALSE
  /\ CASE task = "none" ->
            task' = "creations" /\ UNCHANGED <<awaited, phase>>
       [] task = "sessions" ->
            /\ awaited' = {s \in Session : Listed(s)}
            /\ StartDisposal(Session)
            /\ UNCHANGED task
       [] OTHER -> UNCHANGED <<task, awaited, phase>>
  /\ UNCHANGED <<call, fileVars, where, pathOf, todo, queue, frozen, bounds>>

CreationsDone ==
  /\ closing /\ task = "creations"
  /\ Creating = {}
  /\ task' = "sessions"
  /\ awaited' = {s \in Session : Listed(s)}
  /\ StartDisposal(Session)
  /\ UNCHANGED <<call, closing, failed, fileVars, where, pathOf, todo, queue, frozen, bounds>>

\* Mutation: a disposal that failed does not stop the closing.
SessionsDoneAnyway ==
  /\ closing /\ task = "sessions"
  /\ awaited = {}
  /\ task' = "backends"
  /\ UNCHANGED <<call, closing, awaited, failed, fileVars, sessionVars, bounds>>

SessionsDone ==
  /\ closing /\ task = "sessions"
  /\ awaited = {}
  /\ IF failed
       THEN closing' = FALSE /\ UNCHANGED task
       ELSE task' = "backends" /\ UNCHANGED closing
  /\ UNCHANGED <<call, awaited, failed, fileVars, sessionVars, bounds>>

BackendsDone ==
  /\ closing /\ task = "backends"
  /\ task' = "done" /\ closing' = FALSE
  /\ UNCHANGED <<call, awaited, failed, fileVars, sessionVars, bounds>>

BackendsFail ==
  /\ closing /\ task = "backends"
  /\ Fault
  /\ closing' = FALSE
  /\ UNCHANGED <<call, task, awaited, failed, fileVars, sessionVars, changes>>

-----------------------------------------------------------------------------
\* The process dies and another is started; what it was writing may be torn.
Crash ==
  /\ Fault
  /\ call' = [c \in Call |-> NoCall]
  /\ where' = [s \in Session |-> IF where[s] = "unused" THEN "unused" ELSE "gone"]
  /\ todo' = [s \in Session |-> {}]
  /\ phase' = [s \in Session |-> "none"]
  /\ chain' = [p \in Path |-> <<>>]
  /\ \/ UNCHANGED disk
     \/ disk' = [p \in Path |-> IF chain[p] = <<>> THEN disk[p] ELSE Torn(disk[p])]
  /\ task' = "none" /\ closing' = FALSE /\ awaited' = {} /\ failed' = FALSE
  /\ spoiled' = Path
  /\ pathOf' = [s \in Session |-> None]
  /\ queue' = [s \in Session |-> Nothing]
  /\ UNCHANGED <<said, frozen, changes>>

-----------------------------------------------------------------------------
Finishing(c) == Restore(c) \/ DuplicateGone(c) \/ RolledBack(c)

Next ==
  \/ \E c \in Call :
       \/ \E p \in Path : CreateSession(c, p)
       \/ AssemblyFails(c) \/ AssemblyConflicts(c)
       \/ \E s \in Session : Assembled(c, s) \/ RollbackFails(c, s)
       \/ InitialisationFails(c) \/ Finishing(c)
  \/ \E s \in Session :
       \/ ChangeQueue(s) \/ Dispose(s) \/ CleanUp(s) \/ CleanUpFails(s)
  \/ \E p \in Path : Write(p) \/ WriteFails(p)
  \/ Close \/ CreationsDone \/ SessionsDone \/ BackendsDone \/ BackendsFail
  \/ Crash

Spec == Init /\ [][Next]_vars

\* Assemblies arrive or fail, tasks of a disposal end, promises that are settled
\* run their reactions.  The close of the backends is promised nothing: it waits
\* for every lease of a backend, and one may be lost (BackendAdmission).
Fairness ==
  /\ \A c \in Call :
       /\ WF_vars(AssemblyFails(c) \/ AssemblyConflicts(c) \/ \E s \in Session : Assembled(c, s))
       /\ WF_vars(Finishing(c))
  /\ \A s \in Session : WF_vars(CleanUp(s))
  /\ WF_vars(CreationsDone) /\ WF_vars(SessionsDone)

FairSpec == Spec /\ Fairness

-----------------------------------------------------------------------------
(* Properties *)

\* A conversation is not acquired twice: while a session of it is in the
\* directory or being assembled, no other is assembled.
AcquiredOnce ==
  \A p \in Path :
    Cardinality({c \in Call : call[c].at = "assembly" /\ call[c].path = p})
      + Cardinality({s \in OpenOn(p) : "lease" \in todo[s]}) <= 1

\* Once close() has got past the sessions no session of the directory is open
\* and none is about to be.
ClosedIsEmpty ==
  task \in {"backends", "done"} =>
    /\ Creating = {}
    /\ \A s \in Session : ~Listed(s)

\* When every write is done, the file holds what the session announced last.
SidecarIsCurrent ==
  \A p \in Path : chain[p] = <<>> /\ p \notin spoiled => disk[p] = said[p]

\* Whoever creates a session or joins its creation is answered, and an attempt to
\* close the host fails, with an error to retry after, or gets past the creations
\* and the sessions to the backends.
EverybodyIsAnswered ==
  /\ \A c \in Call : (call[c].at # "idle") ~> (call[c].at = "idle")
  /\ closing ~> (~closing \/ task = "backends")

-----------------------------------------------------------------------------
(* A promise of the code's documentation that the code does not keep.      *)

\* What a turn that is stopped by the closing of its session leaves behind is
\* still paused when the session is opened again: the file says so.
LeftoversStayPaused ==
  \A p \in frozen : chain[p] = <<>> /\ p \notin spoiled /\ disk[p].some => disk[p].paused
=============================================================================
