# Formal models of the metoai agent runtime

metoai runs coding agents: a desktop program (and a few gateways around it)
that keeps conversations with language models, lets them call tools, and stores
what happened. This directory models the parts of it that decide *what happens
when*: the session kernel and the journal of its turns, the host that owns the
sessions, the backends it assembles them by, the locks that keep processes apart,
the desktop's pool of backends and the stream of events to a paired phone. It
holds TLA+ modules, TLC configurations that check them on small instances, and
proofs for TLAPS. Paths such as `kernel/agent-session.ts` are below
`src/packages/runtime-core/src/` unless they start with a package;
`PROJECT.json` names the exact lines behind every definition.

How to run (in this directory):

    tlc -workers 2 -config AgentSessionControl.cfg MCAgentSession
    tlapm AgentSessionProofs.tla

## 1. Inventory

### 1.1 The layers

    UI, remote peers, IM gateway, scheduler, agent teams     (callers)
            |  prompt, queue, cancel, close
    Runtime host  (sessions, backends, queue sidecar, retry, subagents)
            |
    AgentSession  --- SessionInputQueue ---+
            |  run/continue/retry          | takes entries between model calls
    TurnPipeline  --> StatelessAgentCoreTurnEngine --> runAgentTurn --> tools
            |  load / append(version, events)
    ConversationRepository (files) + ConversationRecoveryPolicy

    desktop  RemoteEventJournal -> DesktopRemoteDeviceHub -> RemoteConnection
    phone    DesktopLink <- RemoteConnection          (direct and relayed links)

One `AgentSession` is one conversation that is open in one process. Everything
in a session runs on one JavaScript thread, so what competes is not threads but
suspended methods: two `await`s of two callers, a turn and a caller, a turn and
what is left of the turn before it. That is where most of the hazards are.

### 1.2 Components

| Component | State it keeps | Operations | Hard behaviour | What makes it correct |
|---|---|---|---|---|
| **AgentSession** (`kernel/agent-session.ts`) | state, active turn and its controller, queued operation that runs, requested continuation and its waiters, `contextWrite` | send, sendRequest, sendRequestWhenAvailable, queueRequestIfRunning, continue, retry, requestContinuation, steer, followUp, queueContext, queueOperation, sendQueuedNow, resumeQueue, restoreQueue, recordContext, cancel, close | state read before an await and used after it; microtasks; turns that reject | one turn at a time; every waiter answered; closed and recovery_required are final |
| **SessionInputQueue** (`kernel/session-input-queue.ts`) | two lanes of entries, modes, paused | enqueue, take, remove, reorder, promote, take by id, restore, pause | consumers and editors interleave; operations are barriers | no entry twice; nothing overtakes a barrier; nothing taken while paused |
| **Agent loop** (`packages/agent/src/engine/run-agent-turn.ts`, `tool-executor.ts`, `kernel/stateless-agent-core-turn-engine.ts`) | messages, counters | model call, tool batch, steering, natural stop | an abort abandons the promise it waits for, not the work behind it | consumed input becomes a stored message |
| **TurnPipeline** (`kernel/turn-pipeline.ts`) | started, version | run, retry, continue, resumeSession, recordContext, manual compaction | every append may fail, or be stored and fail | a started turn gets exactly one terminal event |
| **Recovery policy** (`kernel/conversation-recovery.ts`) | one variable over a loop | plan | nested, foreign and reopened events | accepts exactly the legal histories |
| **File repository** (`packages/runtime-node/src/conversation/`) | files, a queue per session, locks | load, append, create, fork, continue, snapshots | torn lines, stale locks, several processes | versions compared; one operation at a time |
| **Conversation ownership** (same directory, `runtime-host/ownership-binding.ts`) | owner lock files, a session's lease | acquire, write, release, reclaim, heartbeat, rebind | two processes reclaim one stale lock; a release that fails between two leases | one owner; dead owners are replaced; a session owns what it works on |
| **Conversation continuation** (`runtime-host/active-session-host.ts`, `kernel/context-compaction-committer.ts`) | two conversations | continueConversation, transfer | the source says "transferred", the target may not exist | exactly one of them goes on |
| **Configuration center** (`configuration/`), **agent registry** (`agents/`) | published generations and leases | publish, bind, release | a source that changes during a binding | a turn sees one generation |
| **Backend admission** (`runtime-host/agent-backend-admission.ts`), **desktop backend pool** (`packages/runtime-desktop/src/backend-pool.ts`) | generations or compositions with live counts | admit, retire, create, release | a count taken after an await | nothing disposed that is in use, everything disposed in the end |
| **Runtime host sessions** (`runtime-host/runtime-host-session-lifecycle.ts`, `-close-coordinator.ts`, `kernel-runtime-session-backend.ts`) | directory, creations under way, cleanup tasks that have not succeeded | createSession, join, dispose, retry, close | clean-ups that fail half-way; close next to creation | one session per conversation; a failed clean-up is repeated; a closed host is empty |
| **Queue sidecar** (`runtime-host/runtime-host-queue-sidecar.ts`) | a chain of writes per conversation, a file each | persist, restore | a crash between a change and its snapshot, or within one | the file catches up with the last change |
| **Turn retry** (`retry/`) | deferred errors | retry | an error that is reported and then retried | one answer per prompt |
| **Subagents** (`packages/runtime-subagents`), **agent teams** (`packages/agent-team`, desktop) | child runs, permits, deliveries | dispatch, deliver, recover | a child that ends while its parent ends | every child reported once |
| **Remote control link** (`packages/remote-control`), **relay** (`apps/remote-relay`) | sequence numbers, a journal of events, links | send, acknowledge, resume, resync | lost, repeated and overtaken frames | in order once, or resync |
| UIs, IM gateway, model providers, tools, MCP, SSH, plugins | - | - | - | input and output of the above |

`PROJECT.json` lists the same components with their files, and what is left out
of each one that is modelled.

### 1.3 Hazards

`PROJECT.json` names the hazards that matter most, each at its line; section 5 names
some smaller ones. They fall into seven groups:

1. *State read before an await*: sendQueuedNow, close, resumeQueue and
   recordContext decide, wait, and act.
2. *Who consumes an entry*: steering and follow-ups are taken by the turn, by
   its tools, by what is left of an aborted turn, by a resume, by sendQueuedNow.
3. *What must still happen*: waiters of a turn, waiters of a continuation,
   queued compactions, input queued at the very end of a turn.
4. *What the file says*: a terminal append that fails, one that is stored and
   fails, a crash, a record or a collector that appends next to the turn.
5. *Who owns a file or a backend*: locks judged and then removed, leases between
   two conversations, counts taken late, releases that fail and are repeated.
6. *What a host leaves behind*: creations that join, clean-ups that fail, a
   close next to both, snapshots written behind a queue.
7. *Streams*: events lost, repeated, overtaken, evicted, over links that come and
   go.

Each group has its modules below. A hazard without a property says why; most of
these are promises the code does not keep (section 5).

## 2. Modules

| Module | Models | Lines of code behind it |
|---|---|---|
| `SessionInputQueue` | the queue as a value, its methods as operators on it | `session-input-queue.ts` |
| `AgentSession` (extends it) | the session, its callers, and a turn as far as it touches the session | `agent-session.ts`, parts of the agent loop and the turn pipeline |
| `MCAgentSession` | values of the constants | - |
| `ConversationRecovery` | `plan()` | `conversation-recovery.ts` |
| `MCConversationRecovery` | every short conversation, and a definition of the legal ones without a loop | - |
| `TurnJournal` (extends `ConversationRecovery`) | turns, records and resumes against the repository | `turn-pipeline.ts`, `file-conversation-repository.ts` |
| `TurnLifecycle` | what a stored conversation promises about turns (abstract) | - |
| `ConversationOwnership` | owner locks, leases and rebinding of processes on several machines | `conversation-ownership-lease.ts`, `ownership-binding.ts` |
| `HostSessions` | the sessions of a host from createSession to close, and the files of their queues | `runtime-host-session-lifecycle.ts`, `-close-coordinator.ts`, `-queue-sidecar.ts`, `kernel-runtime-session-backend.ts`, `retryable-cleanup.ts` |
| `BackendAdmission` | generations of the backends of agents, leases of sessions and of probes, retiring, closing | `agent-backend-admission.ts` |
| `BackendPool` | compositions and sources of tools, their counts, their disposal | `packages/runtime-desktop/src/backend-pool.ts` |
| `RemoteEvents` | journal, hub, links and phone | `packages/remote-control/src/`, `desktop-remote-device-hub.ts`, the phone's `RemoteConnection.kt`, `DesktopLink.kt`, `DesktopMirror.kt` |
| `EventFeed` | what a phone is promised of the events (abstract) | - |
| `MCTurnJournal`, `MCConversationOwnership`, `MCBackendPool`, `MCRemoteEvents` | values of the constants | - |
| `AgentSessionProofs`, `ConversationRecoveryProofs`, `ConversationOwnershipProofs`, `TurnJournalProofs`, `HostSessionsProofs`, `BackendPoolProofs`, `BackendAdmissionProofs`, `RemoteEventsProofs` | lemmas and theorems | - |

### 2.1 SessionInputQueue

A queue is `[steering, followUp, paused]`: two sequences of entry ids and a
bit. `KindOf` gives an entry's kind: a `message`, a `request` (prepared when it
is consumed), a `context` (delivered with a turn, cannot open one) or an
`operation` (a compaction). `take` becomes `TakeCount`: how many entries a take
in a given mode removes, which is nothing while paused and never beyond the
first operation of the follow-ups. `takeById` and `takeFollowUpHead` are sets of
at most one entry, empty for `undefined`.

### 2.2 AgentSession

*Steps.* What the code does between two awaits is one action. A method with
awaits is a caller with a record in `call`: which method it is in, which await
it hangs at (`contextWrite`, the turn, the continuation, the two of
recordContext), which turn it waits for, and the entry it holds if it is
sendQueuedNow. So `SendQueuedNow`, `SendNowProceeds` and `SendNowStarts` are
the three pieces of one method, and anything may happen between them.

*contextWrite.* A chain of promises. `writes` counts the links, a caller's
ticket is the length of the chain when it came. Continuations of one promise run
in the order they were attached, so `line` resumes its callers first come, first
served. Beyond that the order of microtasks is left open; the model allows more
orders than a JavaScript engine produces, never fewer.

*Turns.* `turn[t]` is a turn in one of the slots. Slots exist so that two turns
*could* run; that they never do is a property. Its phases are those that
decide what it may do to the queue: `admission` (nothing stored yet),
`executing`, `stopping` (between the last steering and the follow-ups of a natural stop),
`finalizing`. `holds` are entries it has taken and not stored. `Settle` is the
piece of startTurn or startRequest behind `await turn`: it pauses the queue
unless the turn completed, sets recovery_required if the terminal could not be
stored, and runs `FinishActiveTurn`, with the operation or continuation that
starts. `Drain*` are the two pieces of the drain loop, `AfterOperation` is the
queued microtask.

*What an abort leaves.* `orphan` is a collector or a tool that goes on after its
turn has settled and takes from the queue once more.

*Ledgers.* `place` says where each entry is (`queue`, `call`, `turn`,
`journal`, `removed`, `lost`), `behind` which entries were queued while an
operation was due, `frozen` which entries a cancelled or failed turn left. They
are history: no guard reads them, with the one exception that a *new* entry is
one whose place is `new`.

### 2.3 ConversationRecovery

`PlanStep` is the body of the loop in `plan()`, and the value it carries is
`activeTurnId` or the exception. An event is its type, its turn and whether it
carries the session id of the conversation it is stored in (`own`): the first check of
the loop refuses any other. Not every type can be without a turn; a record of context
is accepted whatever it says about one, a compaction by hand is not. `TurnJournal`
appends own events only (`OwnEvents`) and keeps this value instead of the
events, so that plan() at any moment is a field.

### 2.4 TurnJournal

The journal is `[version, plan, opened, entries, records, terminal]`: what load()
and plan() make of a file. `pending` is the repository's `exclusive` queue. An
operation is served together with the continuation of whoever awaits it, up to
its next operation: `Started` is the append of turn.started, its answer, and what
the turn does with it. Each append may resolve, be refused, conflict with the
version, or be carried out and reject (the lock's release throws behind it). An
append of several events stands for its first. `Catch`, `FlushContext`,
`LoadForTerminal`, `AppendTerminal` and `TerminalAppended` are
`appendTerminalSafely` with its two attempts. `Crash` drops everything but the
file, with or without the append that was being served; `Resume` loads, plans,
and appends turn.failed for an open turn. Records (`recordContext`) are written
while the session is idle and may overlap the next turn, as in the code.
`orphan` is a collector that calls `appendQueuedContext` after the abort.

`Life` maps a journal to `TurnLifecycle`: `TurnsAreSerial == Lifecycle!Spec` is
the refinement, with the numbers of entries as `size`.

### 2.5 ConversationOwnership

`lock` is the disk: per conversation the lock that is there, whose it is, whether its
holder is written in it, and whether it is still young. Every call on a file is a step
of its own (create, write, read and stat, remove), so what a process has read may
be gone when it acts. An operation of a process is a record in `op`: the path it
wants, the step it is at, what it judged. `Judge` is canReclaim with its answers:
a missing lock is reclaimable, a lock without a holder by its age, one of this
host by whether its process lives, one of another host by its age. `Age` lets a
lock grow old when nobody keeps it young: a living holder touches its lock, and
the age limit is far beyond the interval of that heartbeat. A
`lease` is what the process believes it has; `Rebind` acquires the lease of the
new conversation before it releases the old one, and each release can fail. When both
do the code drops the new lease and nothing can release it any more, while its timer
keeps the lock young; an acquisition whose file is written and cannot be closed leaves
a lock without a lease or a timer. `lost` marks these two in the lock.
`snatched` is a ledger: conversations of which somebody removed a lock other than
the one judged.

### 2.6 HostSessions

A slot in `call` is a caller of createSession: it joins a creation that is
pending for its conversation, finds an open session, or starts a creation of its
own (`assembly`, then `duplicate`, `restore` or `rollback`). An assembly that fails
disposes of what it made; when that fails too (`RollbackFails`) its lease is in
nobody's hands, as a copy's whose own disposal failed ("loose"). `todo[s]` are the
cleanup tasks of a session that have not succeeded, in the phases
`KernelRuntimeSession` gives them; `CleanUp` and `CleanUpFails` are one task
each, `Advance` is RetryableCleanup going to the next phase with the ones that
failed kept for the next attempt. Of a queue the host sees snapshots; `chain[p]`
are the ones still to be written, `disk[p]` the file. `task` is where close()
stands. `Crash` empties everything but the files, and tears the one that is being
written.

### 2.7 BackendPool

Compositions and sources are records numbered in the order they are asked for;
the four maps of the class hold their numbers, also of those that are only
promised. A session's `at` is the await its createAssembly or its release hangs
at. Whoever awaited an entry that was still being created goes on in the step
that resolves it; whoever found it there goes on one reaction later (`Enter`), and
only calls and releases that were queued before come between (`Entering`). A
composition whose disposal has begun refuses sessions at once and waits for those
it is creating: that is `RuntimeAgentSessionAssemblyBackend`. The host repeats a
disposal that failed ("kept"). The disposal of the pool fixes its tasks at the
first call and repeats those that failed.

### 2.8 BackendAdmission

A generation is a backend that was published for an agent: how many leases it
has, whether it is retired, how far its disposal is (`Run` is the controller that
lets everybody join an attempt under way). A caller of createAssembly either names
its agent (`Request`) or a stored session, and then leases all current generations
while their catalogs are asked (`Probe`, `Answered`, another round when one of them
was replaced meanwhile). `ReturnProbes` is the loop that gives these leases back
and awaits a disposal in the middle of it. Of the session the registry sees the
lifecycle it wrapped: `Leave`, `Left`, and `LeaveAgain` after a release that
failed. `closing` is close(): the generations whose leases it waits for
(`awaited`) and whose disposal it waits for (`joined`). `lost` is a ledger of
generations with a lease nobody will return. `asked` are generations whose catalog is
still at work for a request that has failed: the first catalog that fails ends the
request (`Promise.all`), which returns its leases without waiting for the others.

### 2.9 RemoteEvents

A link is a pair of channels that keep their order and lose what is under way
when the link breaks; every handshake makes one. The journal is two numbers: the
last it numbered and the last it dropped. The desktop's end is "off", "acking" or
"online", the phone's end also "recovering" after a gap. The hub sends an event
on the best link that is online; a replay is a list that is sent entry by entry,
between which new events may be sent. The phone keeps a `position` (and a saved
one), adopts a better link while the old one still delivers, and acknowledges.
`handed` is what the application was given last. `covered` is the number up to which
it has every event of the desktop that runs, or was told to load: it moves on by one,
by a resync, and back to 0 when the desktop is started again, since of its new events
the application has none. `EventFeed` says what the application must be given, and
`ImplementsFeed` is the refinement, with the journal's last number as `published`.

## 3. Runs

State counts are of distinct states. Callers and slots are symmetric in the
runs without liveness.

| Run | Question | Instance | States |
|---|---|---|---|
| `session_control` | do two turns ever overlap, does recovery_required stay, is a compaction a barrier, single, alone, does anyone wait for what will not come | 2 callers, 2 slots, a message, a request, 2 operations, 2 calls each of fourteen methods, turns that fail or cannot store their end | 1.5 M |
| `session_queue` | is an entry ever in two places, are leftovers ever consumed unasked | a message, a request and a context, 3 calls each of twelve methods, all faults | 375 k |
| `session_answers` | is everyone answered (fair) | a message and an operation, 2 calls each of nine methods, turns that fail | 178 k |
| `recovery_plan` | does plan() accept the legal histories and no others | 2 turns, every sequence of at most 4 events, foreign ones too | 6.4 M |
| `journal` | does the file stay legal, do turns settle, and with the truth (fair) | 2 turns, 2 faults, one entry a turn, one record | 1.35 M |
| `ownership` | do two processes own a conversation, is the lock of a dead one taken over (fair) | three processes on two machines, two conversations, one death or failure, rebinding | 241 k |
| `host_sessions` | is a conversation acquired once, is a closed host empty, does close get past its sessions (fair) | 2 conversations, 2 callers, 2 sessions, one left-over queue, one change, one fault or death | 705 k |
| `backend_admission` | is a backend disposed of that somebody holds a lease of, does what is retired go (fair) | 2 agents with catalogs, 2 callers, 2 generations, two kinds of failures | 197 k |
| `backend_pool` | does anyone lose a composition that is in use, is anything left over | 3 sessions, 2 scopes of one workspace, 4 compositions, 2 sources, two kinds of failures | 2.5 M |
| `remote_events` | is the application handed every event in turn or told to reload (refinement), does a gap close (fair) | a direct and a relayed link, 2 events, 2 connections, 1 restart, a journal of 1 entry | 1.1 M |
| `send_now_overlaps`, `ownership_race` | two promises the code does not keep | as small as shows it | - |

### What they show

- `AtMostOneTurn` is not in the code anywhere: startTurn and startRequest set
  the state without asking. It holds because each path to them looks at the
  state behind its last await. `RecoveryIsFinal` says the same of a session
  that could not store the end of a turn, for every later step of callers,
  drains and microtasks.
- `EntriesInOnePlace` ties the two lanes, what live turns hold and what
  suspended calls hold to one ledger. `LeftoversStay` is pause-on-terminal
  (ADR-0060): what a cancelled or failed turn leaves stays until somebody
  resumes, sends, removes or clears it. It would break if any consumer
  forgot the pause; the collectors that outlive an abort are in the run.
- `OperationIsBarrier`, `OperationRunsAlone`: five places can
  start an operation (the end of a turn, the microtask after an operation,
  restoreQueue, resumeQueue, queueOperation).
- `ContinuationsAnswered`, `PromptsAnswered` and `OperationsRun` are liveness: in
  an idle session a requested continuation has a drain or a microtask that will
  look at it, a prompt that waits has a turn that wakes it, a compaction that
  has come to the head of a queue that is not paused has a starter. (One that waits
  behind a message in an idle session has none, section 5.) The run starts it
  by queueOperation, the end of a turn, restoreQueue and resumeQueue; behind another
  operation it takes a second one, which the run does not have.
  `NobodyIsForgotten` is their safety half: the turn and the list a suspended
  call waits on are there.
- `PlanIsTheHistory` compares the loop with a definition by whole turns
  (spans from the opening to the closing event of the conversation's own events).
- `JournalIsRecoverable`, `IdleIsClosed`: plan() never meets a history it
  refuses, and a session that takes new turns has no open turn in its file.
  `AnswerIsStored`: what the caller was told is what the file says, unless
  an answer of the repository got lost. `NotStrandedLightly`: lost answers
  alone never put a session into recovery_required; the second attempt and the
  search for a stored terminal make up for them. `TurnsAreSerial` is the
  refinement, `TurnsSettle` the liveness.
- `ExclusiveUnlessSnatched`: two processes own a conversation only if one of
  them, or a third, removed a lock other than the one it had judged. Everything
  else around the locks (empty locks, ages, deaths, failed writes, failed
  releases, other machines) cannot break exclusion. `LeaseIsOnDisk` says what
  it rests on. `TargetIsOwned`: whichever release of a rebinding fails, the session
  owns what it works on. `LockIsLeased`: a lock that names a living process is one it
  has a lease for, but after a rebinding both of whose releases failed and after an
  acquisition that failed with its lock written; these two strand a lock (section 5),
  and nothing else does. `DeadLockIsReclaimed` is the liveness.
- `AcquiredOnce`: joined creations, open sessions and copies of a conversation
  under another path never lead to two acquired sessions of one conversation,
  also when a disposal failed and is pending. `ClosedIsEmpty` says what close()
  promises of the sessions; `SidecarIsCurrent` that the file catches
  up; `EverybodyIsAnswered` that no creation waits for ever, and that close() fails or
  gets past creations and sessions. That it gets past the backends as well is not
  shown: there it can wait for ever (section 5, item 11).
- `HeldIsThere`: a lease is counted before the first await and retiring looks at
  the count, so that whoever creates a session on a backend, runs on it or leases it
  to ask its catalog never meets its disposal, across replacements, failures and
  close(). A catalog that is still at work for a request that has failed is not
  covered: that request has returned its leases (section 5).
  `RetirementEnds` is the other half: the last to let go, whoever that is, disposes
  of a retired backend, and close() ends, unless a lease was lost (section 5).
- `InUseIsOpen`: no release, failed, repeated or late, shuts a composition
  another session is on. It rests on `OpenIsCounted`, which also says that no
  composition outlives its sessions. `EverythingGoes`: what a pool made is
  disposed of, whatever was being created, released or retried when its disposal
  began.
- `ImplementsFeed`: whatever the links do, the application gets event after event
  without a gap or is told to load everything. That is so until a desktop is started
  again, also after the phone was; from then on it is shown for the steps in which
  neither the phone's position nor that of a link it uses is a number of the journal
  before (`InStep`). In between the code loses events (section 5). `GapCloses`: a
  connection that missed something does not wait for ever while the desktop's end
  of the link stays; when that end goes, a connection over the relay may.

Every property has a mutant in `PROJECT.json`: a plausible bug, defined next to
the definition it replaces and marked `Mutation:`, that makes the property
fail in its run. A mutation is no part of the model.

### Bounds, and why they suffice

- *Two callers, two or three calls.* A race in a session takes a call that is suspended
  and one that runs in between; the third call sets the scene (queues an
  entry, starts the turn that is to fail). The violations below need two.
- *Two slots.* One more than the property allows.
- *Entries.* One of each kind that the code tells apart, two where order
  matters (messages around an operation).
- *Modes.* `steeringMode = "all"`, `followUpMode = "one-at-a-time"`: the two
  branches of take, one per lane. They are constants of a run.
- *Which methods.* A run uses the methods its question is about; all together
  use every action. The split keeps each run below two minutes.
- *Four events* are an opening, an event inside and a closing of a turn and an
  event of another turn before, between or after them.
- *Two faults.* A lost answer and another in the second attempt; a crash and
  another in the resume. With three the safety properties of the run hold as
  well (1.8 M states under symmetry).
- *Ownership.* Two processes race for a lock a third holds or has left; the
  second machine is there because the rule for its locks is another.
- *Host.* Two callers join, race or follow one another; two sessions are the one
  that is open and the copy or successor. One fault separates every pair of
  clean-up tasks.
- *Admission.* Two generations are one that is probed and the one that replaces it,
  or two that are probed at once and retired together; the second failure hits the
  repetition of the first.
- *Pool.* A third session comes between one that goes and one that comes; a
  fourth composition comes after one that failed, one that closes and one that
  replaced it. Every kind of failure happens once, two of them in a run.
- *Remote.* A journal of one entry evicts at the second event; two connections
  are a link and the one that replaces it.
- `CHECK_DEADLOCK FALSE` in the session runs: callers use up their calls; so do
  the owners, callers, sessions and connections of the later modules. In
  `recovery_plan` a conversation reaches its bound. The `journal` run checks
  deadlock: its session can always be closed and opened again.

### Fairness

`AgentSession`: weak fairness of `Proceed(c)` (a promise that is settled resumes
its awaiter), of `Scheduled` (microtasks run) and of `Advance(t)` (a turn goes
on: model calls and tools end or react to the abort; the code bounds its
waits for tools by racing them with the signal). No fairness for calls, aborts,
abandoned waits and orphans: nobody has to do anything. `TurnJournal`: weak
fairness of `Serve` (file operations end) and of each turn's own steps; none for
starting, aborting, recording, crashing, closing and resuming.
`ConversationOwnership`: the steps of an operation that has begun, the ageing of
locks nobody keeps young, and a process that goes on trying; none for deaths and
failures. `HostSessions`: assemblies arrive or fail, cleanup tasks end, settled
promises run their reactions; the close of the backends is not assumed to end.
`RemoteEvents`: frames that have arrived are handled and sends end; none for
publishing, connecting, breaking and restarting, and none for an end to find out that
the other has left: the relay keeps the phone's socket when a desktop leaves the room
(`remote-pair-room.ts:145-151`), and the phone only shows what it is told then
(`RemoteConnection.kt:235-238`). `BackendAdmission`: catalogs, backends and disposals answer, and the
host disposes of every session of a registry it closes
(`RuntimeHostCloseCoordinator` does that first); none for publishing, requests and
repeated attempts. `BackendPool` has no liveness property.

## 4. Proofs

`AgentSessionProofs` proves, for all callers, entries, slots, bounds and faults:

| Theorem | States | Assumes |
|---|---|---|
| `TypeCorrect` | `Spec => []TypeOK` | - |
| `OneTurnAtATime` | `Spec => []AtMostOneTurn` | `"sendQueuedNow" \notin Calls` |
| `RecoveryRunsNothing` | `Spec => RecoveryIsFinal` | `"sendQueuedNow" \notin Calls` |
| `EntriesHaveOnePlace` | `Spec => []EntriesInOnePlace` | - |
| `EntriesAreHandledOnce` | `Spec => EntriesGoOneWay` | - |
| `LeftoversAreTheUsers` | `Spec => []LeftoversStay` | - |
| `WaitsAreForWhatHappens` | `Spec => []NobodyIsForgotten` | - |
| `ContextIsWrittenInOrder` | `Spec => []WritesInOrder` | - |
| `RequestedIsDue` | `Spec => []RequestsAreHeld` | `"sendQueuedNow" \notin Calls` |
| `OneCompactionAtATime` | `Spec => []OperationRunsAlone` | `"sendQueuedNow" \notin Calls` |
| `CompactionIsABarrier` | `Spec => []OperationIsBarrier` | no `sendQueuedNow`, no `promote` in `Calls`; `"orphan" \notin Faults` |

The assumptions are what the code needs; for each, TLC finds a counterexample
without it. With sendQueuedNow two turns overlap (run
`send_now_overlaps`), one of them can be an operation, and the older of the two
leaves the session idle when it ends, with the continuation that was asked for in
nobody's hands until the younger one ends. promote accepts the
operation itself and moves it to the steering lane, where nothing is behind it
any more. A collector that outlives its turn takes the follow-ups while the
operation in front of them runs.

`AtMostOneTurn` is not inductive. A step that starts a turn looks at `state` and
not at the turns, so the invariant has to say what `state` tells of them:

    SoleInv == TypeOK /\ SoleTurn /\ NoSendNow(call)

`SoleTurn` says that no slot but the one `activeTurn` names is in use, and that
none is in an idle session or one in recovery_required. The steps that start a
turn need it for "idle", finishActiveTurn needs it to conclude that the session
is empty when it sets the state, and the operation and the continuation it may
start in the same step need that in turn. `NoSendNow` keeps the suspended calls
to those the assumption allows. There is one lemma for each operator that starts
or ends a turn (`BeginSole`, `StartIfHeadSole`, `ScheduleSole`, `FinishSole`,
`AbortSole`), and one for each group of actions in `Next`.
`RecoveryRunsNothing` is an action property from the same invariant: in
recovery_required no turn is live, so no step of a turn is left, and each step
of a caller or a microtask that starts one asks for an idle session.

`LeftoversStay` needs one conjunct more: a queue that holds leftovers is paused
(`LeftoverInv`). Every consumer looks at the pause bit, and every step that
lifts it gives the leftovers up to the user in the same step.

`OperationRunsAlone` needs `OperationInv`: with `SoleInv`, that the queue and
`activeQueueOperation` hold one operation between them, that an operation in
`activeQueueOperation` belongs to the active turn, that an operation's turn
never leaves admission (so that the operation is not stored as a message
before it is settled), and that a session whose callers have spent nothing is
untouched: restoreQueue does not ask for a pending operation, and is right
because it comes first. `BarrierInv` adds where the operation stands: while it
waits, what is behind it in the ledger is behind it in followUpQueue, and no
operation is in the steering lane, so that take() and takeFollowUpHead stop at
it; while it runs, what was behind it is in followUpQueue and there is no other
turn.

`EntriesInOnePlace` is proved for all calls and faults, overlapping turns
included. `PlaceInv` compares the ledger with each holder in a predicate of its
own: `QueueHolds` (both lanes without duplicates and disjoint, and the ledger's
"queue" entries exactly), `TurnsHold` (each "turn" entry in one turn, a free
slot holds nothing) and `CallsAgree`. The last is where the induction fails
without help. Settling the waiters of a continuation resets those calls; if one
of them could be a sendQueuedNow, its entry would be gone. So the invariant says
that a call with an entry stands at an await of sendQueuedNow, that no two hold
the same entry, and that the callers on `continuationWaiters` and those of the
running round are different ones and still wait for a continuation. Each
predicate has lemmas for what may change it (`UpdateHolds`, `OthersMove`,
`SenderTakes`, `ReturnAgrees`, ...), and each action is argued for the predicates
it touches; `SamePlaces` covers the others.

`EntriesAreHandledOnce` is the action property behind it: from step to step an
entry goes only where `Fates` lets it go, so what was taken out of the queue never
returns to it, and what is stored, removed or lost is not handled again. That a step
takes what was there and gives up what it had is `PlaceInv`. Each operator that
moves entries has a lemma that says where it sends them (`Goes`, `Sent`); a step
that moves them twice, like a settlement that starts the next turn, composes two of
them. restoreQueue alone queues entries without asking where they are; it comes first,
and in a session nobody has called every entry is new (`AllNewAtFirst`).

`WaitsAreForWhatHappens` is the safety half of `ContinuationsAnswered` and
`PromptsAnswered`, proved where those are only checked: the turn a call or the drain
awaits is one that runs, who asked for a continuation is on a list that is due, and a
session that is running, cancelling or closing has a turn that can end. `HeldInv`
says the same of every value the steps pass on, and nothing else is needed but the
types. It holds with overlapping turns, because finishActiveTurn answers for the turn
that ended and not for the one that is active. What it does not say is that the list
is served soon: in recovery_required the waiters of a continuation wait for close().

`ContextIsWrittenInOrder` is about the chain of promises behind recordContext. Those
that write hold exactly the tickets between the last settled write and the last
issued one, each a different one, and only the first of them appends; who awaits the
chain stands in the line once, in the order of arrival. So a write that others await
always has a caller to make it. `WriteInv` adds to `PlaceInv` that only recordContext
writes, since the settlement of waiting continuations could otherwise reset a writer.

`RequestedIsDue` says when `continuationRequested` may be true: while a drain or a
turn is there, while the microtask of an operation is to come in a session that is
neither busy nor paused, in recovery_required, or when close() is about to refuse it.
It needs two facts of its own: while an operation's turn is active the queue is not
paused (`Calm`; otherwise the microtask that follows would not look), and a session
that is closing has the close() that waits for its turn (`Closer`). `DueInv` takes
the rest from `SoleInv`, `PlaceInv` and `HeldInv`.

`EntriesGoOneWay`, `WritesInOrder` and `RequestsAreHeld` are not in a run; TLC has found
no violation with the constants of `session_control`, `session_queue` and
`session_answers`, that of `RequestsAreHeld` without sendQueuedNow only.

`ConversationRecoveryProofs`, for conversations of any length:

| Theorem | States |
|---|---|
| `PlanTellsTheHistory` | `Spec => []PlanIsTheHistory` |

`PlanIsTheHistory` says that the loop accepts exactly the legal conversations
(every event the conversation's own, turns one after the other, nothing of a turn
outside it), and names the open turn of those. The definition by whole turns quantifies over pairs of
positions; `LegalFits` and `OpenTurnsReach` restate it with one position, the event
that opens: `Reaches(i, m)` (the turn that event i opens is not closed before m) and
`Fits(m)` (event m belongs to the only turn that reaches it, or to none). In this form
an event that is appended changes nothing for the events before it, and what it does to
the open turn is one case for each group of event types. The invariant,
`PlanKnows`, is that the plan is an error when an event does not fit and otherwise
names the turn that is open.

The lemma `PlanExtends` (`Plan(<<>>) = Ready`, and `Plan(Append(s, e)) =
PlanStep(Plan(s), e)`) is what lets `TurnJournal` keep the plan of the stored events instead of
the events. The loop is a recursive function over positions, so both need
induction on a number of events. The library's induction rules take an operator,
which no installed prover can instantiate; its rule that a non-empty set has a minimal
element under a well-founded relation (`WFMin`) takes a set. `SetInduction` is derived
from that, `WalkExists` shows with it that the recursion is defined for every length,
and `WalksAgree` that two runs over a common prefix agree.

`ConversationOwnershipProofs`, for all processes, machines, conversations, deaths
and failures, without further assumptions:

| Theorem | States |
|---|---|
| `TypeCorrect` | `Spec => []TypeOK` |
| `LeasesAreOnDisk` | `Spec => []LeaseIsOnDisk` |
| `ExclusiveOwnership` | `Spec => []ExclusiveUnlessSnatched` |
| `TargetsAreOwned` | `Spec => []TargetIsOwned` |
| `LocksAreLeased` | `Spec => []LockIsLeased` |

The inductive invariant says of every operation which lock is its own: a process
that writes has created the lock at its path (`WriterHasFile`, `WrittenIsThere`),
one that is about to remove after a judgement has judged a lock whose owner was
over (`JudgedIsOver`), a release removes only what carries the id it wrote
(`RemovesOwn`), identities are never used twice (`IdsAreKnown`). Exclusion then
follows from `LeaseIsOnDisk`: two leases of one path would need two locks at it.
`LocksAreLeased` says of a living process's lock without a lease that it was stranded
in one of the two ways `lost` marks.

`TurnJournalProofs`, for all turns and bounds:

| Theorem | States | Assumes |
|---|---|---|
| `TypeCorrect` | `Spec => []TypeOK` | - |
| `Shaped` | `Spec => []Shape` | - |
| `JournalsAreRecoverable` | `Spec => []JournalIsRecoverable` | `Faults \subseteq Bearable` |
| `IdleSessionsAreClosed` | `Spec => []IdleIsClosed` | `Faults \subseteq Bearable` |
| `AnswersAreStored` | `Spec => []AnswerIsStored` | `Faults \subseteq Bearable` |
| `ConversationsAreSerial` | `Spec => TurnsAreSerial` | `Faults \subseteq Bearable` |
| `NotStrandedByOneFault` | `Spec => []NotStrandedLightly` | `Faults \subseteq Bearable` |

`Bearable` is every fault but two: "lostStart", the append of a turn's start that is
stored and rejects, and "late", a collector that appends when its turn has settled.
With either of them the code does not keep these properties (section 5, items 7
and 8), so the assumption is where the code's promise ends; operations that fail,
lost answers of all other appends, collectors that outlive an abort and crashes are
all allowed, in any number.

The argument has three layers. `Shape` holds whatever fails: who waits for which
operation (`RequestOK`: a turn for the event of its stage, a collector for a context
of its turn, recorder and resume for theirs), that each but the collectors waits for
one (`OneEach`), and which stage a turn can be in with which memory of its start and
of its verdict (`Stages`). `JournalInv` says what the conversation and the turns know
of each other. Its heart is `Fresh`: *an append that is still to be served and would
be accepted is legal* for plan(). Whatever is stored raises the version, which makes
every other append that waits stale at that moment (`StoredFresh`), so a step has to
look at the append it asks for and at none of those asked for before. That makes
every step that stores something legal, and the rest follows from what a legal event
does to the open turn (`StoredDoes`): `JournalOK` (the plan names exactly the turn
that is opened and has no terminal), `Known` (a turn that runs is the open turn, or
its terminal is stored, its answer was lost and all it still appends is stale), and
`RecordFirst` (a record begun in an idle session is loaded before the next turn gets
to its start). `HeadOpens` and `Known` give that an append of a start names a turn
that was never opened, also when the process dies while it is served.
`ConversationsAreSerial` needs only this much of a step: nothing is stored, or one
legal event is (`NextStoresOne`), and each kind of event is a step of `TurnLifecycle`
or a stutter (`StoredLife`).

`NotStrandedByOneFault` needs a third layer, `RetryInv`. A turn has one collector at
most, and only when it was interrupted (`Collecting`). A terminal that waits to be
served names the version its turn has just loaded, so it is stale only if that
collector was served in between; then none is left (`Stale`), and the second attempt
meets no other (`SecondAttempt`). A lost answer to the first attempt leaves the
terminal stored, and the second finds it. So the session is left to be recovered only
after a refused operation, or when the collector spoiled the first attempt and the
answer to the second was lost. TLC had shown this much on the run's instance before it
was proved.

`HostSessionsProofs`, for all conversations, callers, sessions, changes and failures:

| Theorem | States |
|---|---|
| `TypeCorrect` | `Spec => []TypeOK` |
| `ConversationsAreAcquiredOnce` | `Spec => []AcquiredOnce` |
| `ClosedHostsAreEmpty` | `Spec => []ClosedIsEmpty` |
| `FilesCatchUp` | `Spec => []SidecarIsCurrent` |

`HostInv` is a conjunction over callers, sessions and conversations: one creation of
a conversation at a time (`OneCreation`: all others join it), one session with its
lease, in the directory or out of it (`OneLease`), and no session of it in the
directory while one is assembled (`AssembledAlone`). `AcquiredOnce` follows by
counting: two creations, two leases or one of each contradict one of the three.
`ClosingInOrder` says how far close() has come: past the creations nothing is
created, what is still listed is awaited by the attempt that has not failed, and past
the sessions nothing is listed. `LastIsSaid` (the last snapshot that waits to be
written is the last that was announced) makes the file current when the writes are
done.

`BackendPoolProofs`, for all sessions, scopes, workspaces, bounds and failures; the
set of sessions is finite (`SessionAssumption`), since counts are compared with
numbers of sessions:

| Theorem | States |
|---|---|
| `TypeCorrect` | `Spec => []TypeOK` |
| `NobodyShutsWhatIsUsed` | `Spec => []InUseIsOpen` |
| `CountsAreRight` | `Spec => []OpenIsCounted` |
| `NothingIsLeft` | `Spec => []EverythingGoes` |

`InUseIsOpen` and `OpenIsCounted` are not inductive, and each needs the other: a release shuts a
composition when its count reaches zero, which is right only if the count is that
of its sessions. `PoolInv` has two halves. `Frame` holds always: types, what the
numbers of sessions and maps refer to, and that a pool that is up has no clean-up
tasks. While the pool is up, `Up` adds that an entry still being created is
awaited by somebody (`FreshIsAwaited`; otherwise it would come into the pool with
no session), what state of its composition each await of a session allows
(`Allowed`), and the count for every state of a composition (`Counted`). Each
action has a lemma for either half; a step that moves one session from one await to
another changes the counted set by at most that session, which is one lemma about
cardinalities (cited from the library's facts about finite sets). Once the pool is
down it stays down (`StaysDown`), which is why the second half need not survive.

`EverythingGoes` speaks only of a pool that is down, where nothing is left to argue
from, so `GoneInv` says what is true on the way. While the pool is up, a composition
that is not finished is in the maps or a release is at it (`Kept`), and the map of
the compositions that are there names no other (`ResolvedIsOpen`, without which a
release could take the wrong entry away). The first `disposePool` turns the maps
into tasks (`GoStarts`), and from then on what is not finished is a task or a
release is at it (`GoStays`); a release that is at something stays until it is gone
or fails (`ClosersStay`, `DroppersStay`). The same holds of the sources
(`SourceGoes`). The pool is down only when no task is left, so with no release
under way all is finished. The failures the property excuses are the ones at which
a step of this argument stops: a composition whose disposal failed in a release may
be nobody's, when another has its place in the maps; so may a source; and a source
that fails to start takes whatever its key names out of the map, which may be a
later one.

`BackendAdmissionProofs`, for all agents, callers, publications and failures; the
set of callers is finite (`CallerAssumption`), since counts are compared with
numbers of callers, and agents with a catalog are agents (`CatalogAssumption`):

| Theorem | States |
|---|---|
| `TypeCorrect` | `Spec => []TypeOK` |
| `HoldersKeepTheirBackend` | `Spec => []HeldIsThere` |

`AdmissionInv` adds to the types: callers refer to generations there are, and have
probes only while they ask catalogs (`Known`); a generation is current or retired,
never both, and nothing is current after close() (`CurrentIsKept`); only what is
retired and unleased is disposed of (`GoesUnleased`); a session whose release has
begun returned the last lease of a retired generation (`Gave`); and the count of a
generation is that of its holders, too high only when a lease was lost (`Counted`).
All are needed for one reason: leases are given only on current generations, so
the count of a retired one never rises again, and a disposal that begins at zero
stays right while it runs, fails and is repeated. (`asked` needs its type only,
`AskedTyped`.) `CallerStep` covers every step
that changes one caller and the counts of the generations it held; `RegistryStep`
and `QuietStep` cover the steps of the registry, in which no caller moves.

`RemoteEventsProofs`, for any links, ranks, capacity, events, connections and
restarts:

| Theorem | States |
|---|---|
| `TypeCorrect` | `Spec => []TypeOK` |
| `Feeds` | `Spec => ImplementsFeed` |

`Feeds` maps every step to a step of `EventFeed` or to a stutter, when the desktop was
never started again or when `InStep` holds: neither the position, the saved one nor
what a link that delivers saw last is beyond `covered`. `NotAhead` makes the first
case one of the second: `InStep` is kept by every step but the restart of a desktop.
`Carried` says that what a frame or a replay carries has been numbered, and `Numbered`
that the application has nothing that was not. An event that is handed then follows
the last number of a link, so it comes next or was covered; one that a retired link
has let through does not count.

The lemmas about the queue operators stand first in `AgentSessionProofs`: each returns
a queue; what it takes was in it and what it leaves was too; what followed an
operation follows it still, and take() stops at an operation; and an operator
that gets a queue without duplicates returns one. The last two kinds are
arithmetic on positions (`RemoveFirstGap`, `RestOfSequence`, `AppendDistinct`);
that a reordering repeats nothing is a counting argument about finite sets
(`ReorderKeepsDistinct`). None of them is about a state of the session.

Assumptions on constants are named in the modules (`NoneAssumption`,
`CallsAssumption`, ...) and evaluated by TLC in every run.

*Model-checked only*: liveness (`ContinuationsAnswered`, `PromptsAnswered`,
`OperationsRun`, `TurnsSettle`, `EverybodyIsAnswered`, `DeadLockIsReclaimed`,
`RetirementEnds`, `GapCloses`), which is beyond the prover. Every invariant and every
action property of a passing run, and both refinements, are theorems.

## 5. Where the code does something else than it says

The first two are runs that TLC finds violated; `PROJECT.json` quotes the
sentences they contradict.

1. *sendQueuedNow can start a second turn* (`send_now_overlaps`). In an idle
   session it takes its entry, awaits `contextWrite` and starts; a send that
   was waiting there first has started its turn by then. resumeQueue, next to
   it, looks again.
2. *Two processes can own a conversation* (`ownership_race`). A process that finds
   a lock gone between its failed creation and its look at the age takes it for
   reclaimable and removes what is at the path by then. No crash is needed.

The next ones have no run of their own. Where a property is named, it is in its
module under the heading of promises the code does not keep; a configuration
with it alone shows the behaviour.

3. *What a turn leaves thaws* (`LeftoversStayPaused`). Disposing of a session clears
   the event sink before it closes the kernel session, so the pause that the abort
   sets does not reach the file, and the next session consumes the entries in an
   unrelated turn, which ADR-0060 rules out (`kernel-runtime-session-backend.ts:202`).
4. *close can be undone* (`ClosedIsFinal`, with send and close). send on an idle
   session waits for `contextWrite`, close finds no turn and waits behind it, send
   starts its turn, close sets "closed" over it, and the end of the turn sets
   "idle".
5. *A cancelled turn loses steering input* (`ConsumedIsStored`, with send, steer
   and cancel): what the collector has taken off the queue when the abort comes is
   in nobody's hands (`run-agent-turn.ts:231`).
6. *A late follow-up is stranded* (`QueuedIsConsumed`, with send, under
   `FairSpec`): queued behind the last natural stop of a turn, it stays in the
   queue of an idle session that is not paused until something else starts a turn.
7. *A start that is stored and rejects stays open* (`IdleIsClosed` with the fault
   "lostStart"): no terminal is written because the turn did not start, and the
   next turn in this process writes a second start, after which plan() refuses
   the conversation (`turn-pipeline.ts:963`).
8. *Context behind the terminal* (`JournalIsRecoverable` with the faults "orphan"
   and "late"): a preparation that outlives its cancelled turn stores its context
   after the turn's end, after which plan() refuses the conversation
   (`turn-pipeline.ts:526`).
9. *A resync is recorded and not sent* (`QuietMeansCurrent`): a resume that reaches
   the desktop while its end still acknowledges the handshake and that asks for
   dropped events gets no answer (`connection.ts:507`); a phone that is idle
   afterwards stays behind.
10. *A source of tools is disposed of under a composition* (`SourceInUse`): it is
    counted only when the composition is there (`backend-pool.ts:234`), so the
    release of the last other composition of the workspace disposes of the source
    it is being created with. A second way: a release that is repeated after a
    failure, or that ends on a composition already shut, counts down twice.
11. *A retirement waits for leases nobody holds* (`ClosingEnds`): releaseProbes stops
    at the first backend whose disposal fails (`agent-backend-admission.ts:407`).
    The probes behind it stay counted, so dispose() of their retirements and close()
    wait for ever, although they promise to wait for sessions (line 56) and none is
    there.
12. *A catalog is asked while its backend is disposed of* (`AskedIsThere`): the first
    catalog that fails ends the request, which returns all leases while the others are
    still at work (`agent-backend-admission.ts:322-330`).
13. *A restarted desktop's events get lost* (`NeverDrops`). It numbers from 1 again, and
    its journal asks for a reload only when the phone is ahead of it
    (`event-journal.ts:58-61`). A phone at 1 that connects anew, while two events are
    published before its resume arrives, drops the first as seen and is handed the
    second; its resume from 1 finds nothing missing. `DesktopLink.kt:79-80` says that
    a reconnect never drops an event.
14. *A lock is stranded by its own process* (`NoLockIsStranded`). When both releases of
    a rebinding fail, the new lease is dropped (`ownership-binding.ts:39-48`) and its
    timer keeps the lock young; when a lock is written and cannot be closed
    (`conversation-ownership-lease.ts:94-100`), nobody has a lease of it. Either way the
    process keeps itself and the others of its machine from opening that conversation
    until it ends.

Seen while modelling, without a run:

- sendQueuedNow takes its entry before it cancels; if the cancelled turn
  *rejects* (its terminal could not be stored) the call throws and the
  entry is gone. The comment there says it cannot be (`agent-session.ts:357`).
- In recovery_required nobody answers those who wait for a continuation until
  the session is closed (`agent-session.ts:629`).
- `nextTurnContext` is attached by send() only; a turn that starts another way
  leaves it for a later one.
- A turn whose turn.completed is stored although its append rejects is reported
  as failed, while the file says completed.
- A compaction that is queued behind a message in an idle session is started by
  nobody, nor is one that removeQueued or reorderQueuedFollowUps brings to the head:
  it waits until a turn ends or the queue is resumed (`agent-session.ts:567`).
- An assembly that fails and whose own disposal fails keeps its lease, and nobody has
  it (`kernel-runtime-session-backend.ts:780-787`).
- A desktop that leaves the relay leaves the phone's socket open. A connection that was
  recovering stays so until the desktop is back in the room: the phone is told
  `peer_status`, shows it and keeps the connection (`RemoteConnection.kt:235-238`), and its
  transport sends no pings (`KtorWebSocketRemoteTransport.kt:33`).
- A session whose id is registered already and whose rollback fails is in nobody's
  hands, with its lease (`runtime-host-session-lifecycle.ts:171`).
- A session that is sent to a composition one reaction before its last session's
  release is refused with "closed", and so is every session of a scope whose
  composition failed to close, until the host's repetition succeeds
  (`backend-pool.ts:163`, `:318`).
- A composition that failed to close is put back over an entry that is still being
  created: the comment at `backend-pool.ts:316` asks whether another has taken its
  place, the code whether another is there.
- A source of tools whose disposal failed in a release is out of its map and is not
  disposed of again (`backend-pool.ts:341`).
- A route that fails to be created and whose release fails with it is returned to
  nobody: its backend is disposed of when close() or its retirement tries again.

## 6. Not modelled, and why

- Content: messages, prompts, models, tools, compaction of texts, observers.
- The file lock of single operations (`conversation-file-lock.ts`); a process id
  used again while the start of its process cannot be read; a holder suspended
  for longer than a lock's age; clocks that disagree.
- Of the backend admission: source ids and their conflicts, tombstones, the default
  backend, backends it does not own (their disposal does nothing).
- Execution modes, models and agents of the host; a conversation continued in
  another file while its session is open.
- Requests and answers of the remote link, keys, pairing, approval, and a second
  handshake on one connection of the relay. How long a replaced link stays open, and
  in which order links are disposed of, is left open. A desktop that is started again is
  modelled while the phone still connects afterwards.
- The rest of the repository (user interfaces, themes, plugins, providers,
  gateways, about 570 thousand lines) is presentation, configuration and input
  and output; the modules cover the protocols under it, a small share of its
  lines.
- setSteeringMode and setFollowUpMode: modes are constants of a run.
- retry() is the same as continue() for the session; the retry *coordinator*
  around it is planned.
- Turns that move to a new conversation, manual compaction, forks, seeds and
  snapshots of the repository; torn lines (a file with one is refused as a
  whole, which is a load that always fails).
- More orders of microtasks than an engine produces are allowed (2.2); no
  property that holds needs fewer.
- The version a collector's append returns is written to the turn's state even
  if the turn has moved on; the model does the same.
- In `TurnJournal` an append is one event; the code's appends of several are
  atomic in the file up to a torn tail.

## 7. Plan

Next components, most important first:

1. `ConversationContinuation`: two journals, a transfer, a crash in between;
   exactly one of the two goes on.
2. Published generations and leases; subagent pool and delivery; the retry
   loop; the agent loop with its counters; the team turn coordinator.

Runs stay at a dozen: a new one replaces or absorbs an old one, and a divergence
that is described in section 5 gives its run to a component without one.

Proofs: every invariant and action property of a passing run is a theorem. Next are
refinements worth stating (the session as an abstract queue with one consumer) and what
the modules above need.
