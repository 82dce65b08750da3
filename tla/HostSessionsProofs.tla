-------------------------- MODULE HostSessionsProofs --------------------------
(***************************************************************************)
(* Proofs about HostSessions, for any conversations, callers, sessions,    *)
(* changes and failures: no conversation is acquired twice, a host that    *)
(* has closed its sessions is empty, and the file of a queue catches up    *)
(* with it.                                                                *)
(***************************************************************************)
EXTENDS HostSessions, FiniteSetTheorems, TLAPS

-----------------------------------------------------------------------------
(* The inductive invariant *)

\* Callers that wait name a conversation, and the session they are given; so does
\* a session with a task left.
Known ==
  /\ \A c \in Call :
       /\ call[c].at # "idle" => call[c].path \in Path
       /\ call[c].at \in {"duplicate", "restore", "rollback"} => call[c].session \in Session
  /\ \A s \in Session : todo[s] # {} => pathOf[s] \in Path

\* Of one conversation one creation is under way: all others join it.
OneCreation == \A c, d \in Creating : call[c].path = call[d].path => c = d

\* One session has the lease of a conversation, in the directory or out of it.
OneLease ==
  \A s, t \in Session :
    "lease" \in todo[s] /\ "lease" \in todo[t] /\ pathOf[s] = pathOf[t] => s = t

\* What is assembled is not in the directory.
AssembledAlone == \A c \in Call : call[c].at = "assembly" => OpenOn(call[c].path) = {}

\* Nothing is created once close() is past the creations, and what the directory
\* still has is awaited, unless this attempt of close() has failed already.
ClosingInOrder ==
  /\ task \in {"sessions", "backends", "done"} => Creating = {}
  /\ task = "sessions" /\ closing /\ ~failed => \A s \in Session : Listed(s) => s \in awaited
  /\ task \in {"backends", "done"} => \A s \in Session : ~Listed(s)

\* The last snapshot that waits to be written is the last that was announced.
LastIsSaid ==
  \A p \in Path : chain[p] # <<>> => chain[p][Len(chain[p])] = said[p]

HostInv ==
  /\ TypeOK
  /\ Known
  /\ OneCreation /\ OneLease /\ AssembledAlone
  /\ ClosingInOrder
  /\ LastIsSaid /\ SidecarIsCurrent

-----------------------------------------------------------------------------
(* What the shared operators do, and the types of each step *)

LEMMA SnapshotTypes ==
  /\ Nothing \in Snapshot
  /\ \A q \in Snapshot : Stopped(q) \in Snapshot /\ Torn(q) \in Snapshot
  /\ Stopped([Nothing EXCEPT !.some = TRUE]) \in Snapshot
  <1>1. Nothing \in Snapshot /\ [Nothing EXCEPT !.some = TRUE] \in Snapshot
    BY DEF Nothing, Snapshot
  <1>2. \A q \in Snapshot : Stopped(q) \in Snapshot /\ Torn(q) \in Snapshot
    BY DEF Snapshot, Stopped, Torn
  <1>. QED BY <1>1, <1>2

LEMMA NoCallTyped == NoCall \in Calls /\ NoCall.at = "idle"
  BY DEF NoCall, Calls, CallStates

LEMMA CallWith ==
  ASSUME NEW r \in Calls, NEW a \in CallStates
  PROVE  /\ [r EXCEPT !.at = a] \in Calls
         /\ \A s \in Session : [r EXCEPT !.at = a, !.session = s] \in Calls
  BY DEF Calls

\* Whoever is answered is idle, everybody else is as before.
LEMMA AnswerDoes ==
  ASSUME TypeOK, NEW c \in Call, Answer(c)
  PROVE  /\ call' \in [Call -> Calls]
         /\ call'[c] = NoCall
         /\ \A d \in Call : call'[d] = NoCall \/ call'[d] = call[d]
  <1>1. \A d \in Call : call[d] \in Calls
    BY DEF TypeOK
  <1>. QED BY <1>1, NoCallTyped, SMT DEF Answer

LEMMA PersistDoes ==
  ASSUME TypeOK, NEW s \in Session, NEW q \in Snapshot, Persist(s, q)
  PROVE  /\ chain' \in [Path -> Seq(Snapshot)]
         /\ said' \in [Path -> Snapshot]
         /\ frozen' \subseteq Path
         /\ \A p \in Path :
              \/ chain'[p] = chain[p] /\ said'[p] = said[p]
              \/ chain'[p] = Append(chain[p], q) /\ said'[p] = q
  <1>. DEFINE x == pathOf[s]
  <1>1. CASE Heard(s)
    <2>1. /\ chain' = [chain EXCEPT ![x] = Append(@, q)]
          /\ said' = [said EXCEPT ![x] = q]
          /\ frozen' = frozen \ {x}
      BY <1>1 DEF Persist
    <2>2. \A p \in Path : chain[p] \in Seq(Snapshot) /\ Append(chain[p], q) \in Seq(Snapshot)
      BY DEF TypeOK
    <2>3. chain \in [Path -> Seq(Snapshot)] /\ said \in [Path -> Snapshot] /\ frozen \subseteq Path
      BY DEF TypeOK
    <2>. HIDE DEF x
    <2>4. \A p \in Path : chain'[p] = IF p = x THEN Append(chain[p], q) ELSE chain[p]
      BY <2>1, <2>3
    <2>. QED BY <2>1, <2>2, <2>3, <2>4
  <1>2. CASE ~Heard(s)
    BY <1>2 DEF Persist, TypeOK
  <1>. QED BY <1>1, <1>2

LEMMA StartDisposalTyped ==
  ASSUME TypeOK, NEW S, StartDisposal(S)
  PROVE  phase' \in [Session -> (Tasks \ {"sink"}) \cup {"none"}]
  BY DEF TypeOK, StartDisposal, Tasks

\* The end of a disposal: what has nothing left to clean leaves the directory.
LEMMA AdvanceDoes ==
  ASSUME TypeOK, NEW s \in Session, phase[s] # "none", Advance(s)
  PROVE  /\ where' \in [Session -> {"unused", "loose", "listed", "gone"}]
         /\ pathOf' \in [Session -> Path \cup {None}]
         /\ phase' \in [Session -> (Tasks \ {"sink"}) \cup {"none"}]
         /\ awaited' \subseteq Session /\ failed' \in BOOLEAN
         /\ \A t \in Session \ {s} :
              where'[t] = where[t] /\ pathOf'[t] = pathOf[t] /\ (t \in awaited' <=> t \in awaited)
         /\ \/ UNCHANGED <<where, pathOf, awaited, failed>>
            \/ where'[s] = "gone" /\ todo'[s] = {} /\ failed' = failed
            \/ UNCHANGED <<where, pathOf>> /\ failed' = (failed \/ s \in awaited)
  <1>1. CASE phase[s] = "lease"
    <2>1. phase' = [phase EXCEPT ![s] = "none"] /\ awaited' = awaited \ {s}
      BY <1>1 DEF Advance, Leave
    <2>2. CASE todo'[s] = {}
      <3>1. /\ where' = [where EXCEPT ![s] = "gone"]
            /\ pathOf' = [pathOf EXCEPT ![s] = None]
            /\ failed' = failed
        BY <1>1, <2>2 DEF Advance, Leave
      <3>. QED BY <2>1, <2>2, <3>1 DEF TypeOK, Tasks
    <2>3. CASE todo'[s] # {}
      <3>1. UNCHANGED <<where, pathOf>> /\ failed' = (failed \/ s \in awaited)
        BY <1>1, <2>3 DEF Advance, Leave
      <3>. QED BY <2>1, <3>1 DEF TypeOK, Tasks
    <2>. QED BY <2>2, <2>3
  <1>2. CASE phase[s] # "lease"
    <2>1. phase[s] \in {"early", "kernel"}
      BY <1>2 DEF TypeOK, Tasks
    <2>2. After[phase[s]] \in {"kernel", "lease"}
      BY <2>1 DEF After
    <2>3. phase' = [phase EXCEPT ![s] = After[phase[s]]] /\ UNCHANGED <<where, pathOf, awaited, failed>>
      BY <1>2 DEF Advance
    <2>. QED BY <2>2, <2>3 DEF TypeOK, Tasks
  <1>. QED BY <1>1, <1>2

LEMMA TypeStep ==
  ASSUME HostInv, Next
  PROVE  TypeOK'
  <1>. USE DEF HostInv, hostVars, fileVars, sessionVars, bounds
  <1>1. ASSUME NEW c \in Call, NEW p \in Path, CreateSession(c, p)
        PROVE  TypeOK'
    <2>1. /\ [at |-> "assembly", path |-> p, session |-> None] \in Calls
          /\ [at |-> "joined", path |-> p, session |-> None] \in Calls
      BY DEF Calls, CallStates
    <2>. QED BY <1>1, <2>1 DEF CreateSession, TypeOK
  <1>2. ASSUME NEW c \in Call, AssemblyFails(c)
        PROVE  TypeOK'
    BY <1>2, AnswerDoes DEF AssemblyFails, Fault, TypeOK
  <1>3. ASSUME NEW c \in Call, AssemblyConflicts(c)
        PROVE  TypeOK'
    BY <1>3, AnswerDoes DEF AssemblyConflicts, TypeOK
  <1>4. ASSUME NEW c \in Call, NEW s \in Session, Assembled(c, s)
        PROVE  TypeOK'
    <2>1. call[c] \in Calls /\ call[c].path \in Path
      BY <1>4 DEF Assembled, Known, TypeOK
    <2>2. \A a \in CallStates : [call[c] EXCEPT !.at = a, !.session = s] \in Calls
      BY <2>1, CallWith
    <2>3. call' \in [Call -> Calls]
      BY <1>4, <2>2 DEF Assembled, TypeOK, CallStates
    <2>4. where' \in [Session -> {"unused", "loose", "listed", "gone"}]
      BY <1>4 DEF Assembled, TypeOK
    <2>5. phase' \in [Session -> (Tasks \ {"sink"}) \cup {"none"}]
      BY <1>4 DEF Assembled, TypeOK, Tasks
    <2>6. pathOf' \in [Session -> Path \cup {None}] /\ todo' \in [Session -> SUBSET Tasks]
      BY <1>4, <2>1 DEF Assembled, TypeOK
    <2>. QED BY <1>4, <2>3, <2>4, <2>5, <2>6 DEF Assembled, TypeOK
  <1>17. ASSUME NEW c \in Call, NEW s \in Session, RollbackFails(c, s)
         PROVE  TypeOK'
    <2>1. call[c].path \in Path
      BY <1>17 DEF RollbackFails, Known
    <2>2. call' \in [Call -> Calls]
      BY <1>17, AnswerDoes DEF RollbackFails
    <2>3. {"lease"} \in SUBSET Tasks
      BY DEF Tasks
    <2>4. /\ where' \in [Session -> {"unused", "loose", "listed", "gone"}]
          /\ pathOf' \in [Session -> Path \cup {None}]
          /\ todo' \in [Session -> SUBSET Tasks]
      BY <1>17, <2>1, <2>3 DEF RollbackFails, TypeOK
    <2>. QED BY <1>17, <2>2, <2>4 DEF RollbackFails, Fault, TypeOK
  <1>5. ASSUME NEW c \in Call, InitialisationFails(c)
        PROVE  TypeOK'
    <2>1. call[c] \in Calls
      BY DEF TypeOK
    <2>2. [call[c] EXCEPT !.at = "rollback"] \in Calls
      BY <2>1, CallWith DEF CallStates
    <2>3. call' \in [Call -> Calls]
      BY <1>5, <2>2 DEF InitialisationFails, TypeOK
    <2>4. phase' \in [Session -> (Tasks \ {"sink"}) \cup {"none"}]
      BY <1>5, StartDisposalTyped DEF InitialisationFails
    <2>. QED BY <1>5, <2>3, <2>4 DEF InitialisationFails, Fault, TypeOK
  <1>6. ASSUME NEW c \in Call, Restore(c)
        PROVE  TypeOK'
    <2>. DEFINE s == call[c].session
                q == disk[call[c].path]
    <2>1. call[c].path \in Path /\ q \in Snapshot
      BY <1>6 DEF Restore, Known, TypeOK
    <2>2. call' \in [Call -> Calls]
      BY <1>6, AnswerDoes DEF Restore
    <2>3. CASE UNCHANGED <<queue, chain, said, frozen>>
      BY <1>6, <2>2, <2>3 DEF Restore, TypeOK
    <2>4. CASE queue' = [queue EXCEPT ![s] = q] /\ Persist(s, q)
      <3>1. s \in Session
        BY <1>6 DEF Restore, Known
      <3>2. queue' \in [Session -> Snapshot]
        BY <2>1, <2>4 DEF TypeOK
      <3>3. chain' \in [Path -> Seq(Snapshot)] /\ said' \in [Path -> Snapshot] /\ frozen' \subseteq Path
        BY <2>1, <2>4, <3>1, PersistDoes
      <3>. QED BY <1>6, <2>2, <3>2, <3>3 DEF Restore, TypeOK
    <2>. QED BY <1>6, <2>3, <2>4 DEF Restore
  <1>7. ASSUME NEW c \in Call, DuplicateGone(c) \/ RolledBack(c)
        PROVE  TypeOK'
    BY <1>7, AnswerDoes DEF DuplicateGone, RolledBack, TypeOK
  <1>8. ASSUME NEW s \in Session, ChangeQueue(s)
        PROVE  TypeOK'
    <2>1. PICK some \in BOOLEAN, paused \in BOOLEAN :
            LET q == [at |-> changes + 1, some |-> some, paused |-> paused] IN
            queue' = [queue EXCEPT ![s] = q] /\ Persist(s, q)
      BY <1>8 DEF ChangeQueue, TypeOK, Snapshot
    <2>. DEFINE q == [at |-> changes + 1, some |-> some, paused |-> paused]
    <2>2. q \in Snapshot
      BY DEF Snapshot, TypeOK
    <2>3. queue' = [queue EXCEPT ![s] = q] /\ Persist(s, q)
      BY <2>1
    <2>. HIDE DEF q
    <2>4. chain' \in [Path -> Seq(Snapshot)] /\ said' \in [Path -> Snapshot] /\ frozen' \subseteq Path
      BY <2>2, <2>3, PersistDoes
    <2>5. queue' \in [Session -> Snapshot]
      BY <2>2, <2>3 DEF TypeOK
    <2>. QED BY <1>8, <2>4, <2>5 DEF ChangeQueue, TypeOK
  <1>9. ASSUME NEW s \in Session, Dispose(s)
        PROVE  TypeOK'
    BY <1>9, StartDisposalTyped DEF Dispose, TypeOK
  <1>10. ASSUME NEW s \in Session, CleanUp(s)
         PROVE  TypeOK'
    <2>1. /\ where' \in [Session -> {"unused", "loose", "listed", "gone"}]
          /\ pathOf' \in [Session -> Path \cup {None}]
          /\ phase' \in [Session -> (Tasks \ {"sink"}) \cup {"none"}]
          /\ awaited' \subseteq Session /\ failed' \in BOOLEAN
      BY <1>10, AdvanceDoes DEF CleanUp
    <2>2. todo' \in [Session -> SUBSET Tasks]
      BY <1>10 DEF CleanUp, TypeOK
    <2>3. queue' \in [Session -> Snapshot] /\ frozen' \subseteq Path
      <3>1. CASE phase[s] = "kernel" /\ "kernel" \in todo[s]
        <4>1. pathOf[s] \in Path
          BY <3>1 DEF Known
        <4>. QED BY <1>10, <3>1, <4>1, SnapshotTypes DEF CleanUp, CloseKernel, TypeOK
      <3>2. CASE ~(phase[s] = "kernel" /\ "kernel" \in todo[s])
        BY <1>10, <3>2 DEF CleanUp, TypeOK
      <3>. QED BY <3>1, <3>2
    <2>. QED BY <1>10, <2>1, <2>2, <2>3 DEF CleanUp, TypeOK
  <1>11. ASSUME NEW s \in Session, CleanUpFails(s)
         PROVE  TypeOK'
    <2>1. phase[s] # "none"
      BY <1>11 DEF CleanUpFails, TypeOK, Tasks
    <2>2. /\ where' \in [Session -> {"unused", "loose", "listed", "gone"}]
          /\ pathOf' \in [Session -> Path \cup {None}]
          /\ phase' \in [Session -> (Tasks \ {"sink"}) \cup {"none"}]
          /\ awaited' \subseteq Session /\ failed' \in BOOLEAN
      BY <1>11, <2>1, AdvanceDoes DEF CleanUpFails
    <2>3. todo' \in [Session -> SUBSET Tasks]
      BY <1>11 DEF CleanUpFails, TypeOK
    <2>4. queue' \in [Session -> Snapshot]
      <3>1. queue[s] \in Snapshot /\ Stopped(queue[s]) \in Snapshot
        BY SnapshotTypes DEF TypeOK
      <3>. QED BY <1>11, <3>1 DEF CleanUpFails, TypeOK
    <2>. QED BY <1>11, <2>2, <2>3, <2>4 DEF CleanUpFails, Fault, TypeOK
  <1>12. ASSUME NEW p \in Path, Write(p) \/ WriteFails(p)
         PROVE  TypeOK'
    <2>1. chain[p] \in Seq(Snapshot) /\ chain[p] # <<>>
      BY <1>12 DEF Write, WriteFails, TypeOK
    <2>2. Head(chain[p]) \in Snapshot /\ Tail(chain[p]) \in Seq(Snapshot)
      BY <2>1
    <2>3. disk[p] \in Snapshot /\ Torn(disk[p]) \in Snapshot
      BY SnapshotTypes DEF TypeOK
    <2>4. chain' \in [Path -> Seq(Snapshot)]
      BY <1>12, <2>2 DEF Write, WriteFails, TypeOK
    <2>5. disk' \in [Path -> Snapshot]
      BY <1>12, <2>2, <2>3 DEF Write, WriteFails, TypeOK
    <2>. QED BY <1>12, <2>4, <2>5 DEF Write, WriteFails, Fault, TypeOK
  <1>13. ASSUME Close
         PROVE  TypeOK'
    <2>1. task' \in CloseTasks
      BY <1>13 DEF Close, CloseTasks, TypeOK
    <2>2. awaited' \subseteq Session
      BY <1>13 DEF Close, TypeOK
    <2>3. phase' \in [Session -> (Tasks \ {"sink"}) \cup {"none"}]
      <3>1. phase' = phase \/ StartDisposal(Session)
        BY <1>13 DEF Close
      <3>. QED BY <3>1, StartDisposalTyped DEF TypeOK
    <2>4. closing' \in BOOLEAN /\ failed' \in BOOLEAN
      BY <1>13 DEF Close
    <2>. QED BY <1>13, <2>1, <2>2, <2>3, <2>4 DEF Close, TypeOK
  <1>14. ASSUME CreationsDone
         PROVE  TypeOK'
    BY <1>14, StartDisposalTyped DEF CreationsDone, TypeOK, CloseTasks
  <1>15. ASSUME SessionsDone \/ BackendsDone \/ BackendsFail
         PROVE  TypeOK'
    <2>1. task' \in CloseTasks /\ closing' \in BOOLEAN /\ faults' \in Nat
      <3>1. CASE SessionsDone
        BY <3>1 DEF SessionsDone, TypeOK, CloseTasks
      <3>2. CASE BackendsDone
        BY <3>2 DEF BackendsDone, TypeOK, CloseTasks
      <3>3. CASE BackendsFail
        <4>1. task \in CloseTasks /\ faults \in Nat
          BY DEF TypeOK
        <4>2. task' \in CloseTasks /\ faults' \in Nat
          BY <3>3, <4>1 DEF BackendsFail, Fault
        <4>3. closing' \in BOOLEAN
          BY <3>3, Zenon DEF BackendsFail
        <4>. QED BY <4>2, <4>3
      <3>. QED BY <1>15, <3>1, <3>2, <3>3
    <2>. QED BY <1>15, <2>1 DEF SessionsDone, BackendsDone, BackendsFail, TypeOK
  <1>16. ASSUME Crash
         PROVE  TypeOK'
    <2>1. disk' \in [Path -> Snapshot]
      BY <1>16, SnapshotTypes DEF Crash, TypeOK
    <2>2. call' \in [Call -> Calls] /\ queue' \in [Session -> Snapshot]
      BY <1>16, SnapshotTypes, NoCallTyped DEF Crash
    <2>3. chain' \in [Path -> Seq(Snapshot)]
      BY <1>16 DEF Crash
    <2>4. where' \in [Session -> {"unused", "loose", "listed", "gone"}]
      BY <1>16 DEF Crash
    <2>5. /\ todo' \in [Session -> SUBSET Tasks]
          /\ phase' \in [Session -> (Tasks \ {"sink"}) \cup {"none"}]
          /\ pathOf' \in [Session -> Path \cup {None}]
      BY <1>16 DEF Crash
    <2>6. task' \in CloseTasks /\ closing' \in BOOLEAN /\ failed' \in BOOLEAN /\ awaited' \subseteq Session
      BY <1>16 DEF Crash, CloseTasks
    <2>7. said' \in [Path -> Snapshot] /\ frozen' \subseteq Path /\ spoiled' \subseteq Path
      BY <1>16 DEF Crash, TypeOK
    <2>8. changes' \in Nat /\ faults' \in Nat
      BY <1>16 DEF Crash, Fault, TypeOK
    <2>. QED BY <2>1, <2>2, <2>3, <2>4, <2>5, <2>6, <2>7, <2>8 DEF TypeOK
  <1>. QED BY <1>1, <1>2, <1>3, <1>4, <1>5, <1>6, <1>7, <1>8, <1>9, <1>10, <1>11, <1>12, <1>13,
              <1>14, <1>15, <1>16, <1>17 DEF Next, Finishing

-----------------------------------------------------------------------------
(* What any step does to a caller and to a session *)

Waits(c) == call[c].at \notin {"idle", "joined"}

\* Assembly c takes the lease of its conversation, and session s has it then.
Takes(c, s) == Assembled(c, s) \/ RollbackFails(c, s)

\* A caller stops waiting, goes on with the creation it began, or begins one that
\* nobody else has begun, of a conversation that is not open.
LEMMA CallerStep ==
  ASSUME HostInv, Next, NEW d \in Call
  PROVE  \/ ~Waits(d)' /\ (call'[d].at # "idle" => call'[d].path \in Path)
         \/ /\ Waits(d) /\ call'[d].path = call[d].path
            /\ call'[d].at = "assembly" => call[d].at = "assembly"
            /\ call'[d].at # "assembly" => call'[d].session \in Session
         \/ /\ call'[d].at = "assembly" /\ call'[d].path \in Path
            /\ ~\E c \in Call \ {d} : Waits(c)' /\ call'[c].path = call'[d].path
            /\ OpenOn(call[d].path)' = {}
            /\ task' = "none"
  <1>. USE DEF HostInv, hostVars, fileVars, sessionVars, bounds
  <1>0. /\ \A c \in Call : call[c] \in Calls
        /\ NoCall.at = "idle"
        /\ call[d].at \in {"duplicate", "restore", "rollback"} => call[d].session \in Session
        /\ call[d].at # "idle" => call[d].path \in Path
        /\ Waits(d) /\ call[d].at # "assembly" => call[d].session \in Session
    BY NoCallTyped DEF TypeOK, Known, Waits, Calls, CallStates
  <1>1. ASSUME call'[d] = call[d] \/ call'[d] = NoCall
        PROVE  \/ ~Waits(d)' /\ (call'[d].at # "idle" => call'[d].path \in Path)
               \/ /\ Waits(d) /\ call'[d].path = call[d].path
                  /\ call'[d].at = "assembly" => call[d].at = "assembly"
                  /\ call'[d].at # "assembly" => call'[d].session \in Session
    BY <1>0, <1>1 DEF Waits
  <1>2. ASSUME NEW c \in Call, NEW p \in Path, CreateSession(c, p), call'[d] # call[d]
        PROVE  \/ ~Waits(d)' /\ (call'[d].at # "idle" => call'[d].path \in Path)
               \/ /\ call'[d].at = "assembly" /\ call'[d].path \in Path
                  /\ ~\E e \in Call \ {d} : Waits(e)' /\ call'[e].path = call'[d].path
                  /\ OpenOn(call[d].path)' = {}
                  /\ task' = "none"
    <2>1. c = d /\ \A e \in Call \ {d} : call'[e] = call[e]
      BY <1>2 DEF CreateSession, TypeOK
    <2>2. CASE call' = [call EXCEPT ![c] = [at |-> "joined", path |-> p, session |-> None]]
      BY <2>1, <2>2 DEF TypeOK, Waits
    <2>3. CASE /\ ~\E e \in Creating : call[e].path = p
               /\ ~Closed
               /\ OpenOn(p) = {}
               /\ call' = [call EXCEPT ![c] = [at |-> "assembly", path |-> p, session |-> None]]
      <3>1. call'[d].at = "assembly" /\ call'[d].path = p
        BY <2>1, <2>3 DEF TypeOK
      <3>2. ~\E e \in Call \ {d} : Waits(e)' /\ call'[e].path = p
        BY <2>1, <2>3 DEF Creating, Waits
      <3>3. OpenOn(call[d].path)' = {} /\ task' = "none"
        BY <1>2, <2>3, <3>1 DEF CreateSession, OpenOn, Listed, Closed
      <3>. QED BY <3>1, <3>2, <3>3
    <2>. QED BY <1>2, <2>2, <2>3 DEF CreateSession
  <1>3. ASSUME NEW c \in Call, Answer(c)
        PROVE  call'[d] = call[d] \/ call'[d] = NoCall
    BY <1>3, AnswerDoes
  <1>4. ASSUME NEW c \in Call, NEW s \in Session, Assembled(c, s) \/ (InitialisationFails(c) /\ s = call[c].session)
        PROVE  \/ call'[d] = call[d]
               \/ /\ Waits(d) /\ call'[d].path = call[d].path
                  /\ call'[d].at # "assembly" /\ call'[d].session \in Session
    <2>1. call[c] \in Calls
      BY <1>0
    <2>2. CASE Assembled(c, s)
      <3>1. PICK a \in {"restore", "duplicate"} : call' = [call EXCEPT ![c] = [@ EXCEPT !.at = a, !.session = s]]
        BY <2>2 DEF Assembled
      <3>2. call[c].at = "assembly"
        BY <2>2 DEF Assembled
      <3>3. CASE c = d
        <4>1. call'[d] = [call[d] EXCEPT !.at = a, !.session = s]
          BY <3>1, <3>3 DEF TypeOK
        <4>2. call'[d].at = a /\ call'[d].session = s /\ call'[d].path = call[d].path
          BY <2>1, <3>3, <4>1 DEF Calls
        <4>. QED BY <3>2, <3>3, <4>2 DEF Waits
      <3>. QED BY <3>1, <3>3 DEF TypeOK
    <2>3. CASE InitialisationFails(c) /\ s = call[c].session
      <3>1. call' = [call EXCEPT ![c].at = "rollback"] /\ call[c].at = "restore"
        BY <2>3 DEF InitialisationFails
      <3>2. CASE c = d
        <4>1. call'[d] = [call[d] EXCEPT !.at = "rollback"]
          BY <3>1, <3>2 DEF TypeOK
        <4>2. call'[d].at = "rollback" /\ call'[d].session = s /\ call'[d].path = call[d].path
          BY <2>1, <2>3, <3>2, <4>1 DEF Calls
        <4>. QED BY <3>1, <3>2, <4>2 DEF Waits
      <3>. QED BY <3>1, <3>2 DEF TypeOK
    <2>. QED BY <1>4, <2>2, <2>3
  <1>5. ASSUME NEW c \in Call, InitialisationFails(c)
        PROVE  call[c].session \in Session
    BY <1>5 DEF InitialisationFails, Known
  <1>6. ASSUME Crash
        PROVE  call'[d] = NoCall
    BY <1>6 DEF Crash
  <1>7. ASSUME NEW c \in Call, \/ AssemblyFails(c) \/ AssemblyConflicts(c) \/ Finishing(c)
                               \/ \E s \in Session : RollbackFails(c, s)
        PROVE  Answer(c)
    BY <1>7 DEF AssemblyFails, RollbackFails, AssemblyConflicts, Finishing, Restore, DuplicateGone, RolledBack
  <1>8. ASSUME NEW s \in Session, ChangeQueue(s) \/ Dispose(s) \/ CleanUp(s) \/ CleanUpFails(s)
        PROVE  call' = call
    BY <1>8 DEF ChangeQueue, Dispose, CleanUp, CleanUpFails
  <1>9. ASSUME NEW p \in Path, Write(p) \/ WriteFails(p)
        PROVE  call' = call
    BY <1>9 DEF Write, WriteFails
  <1>10. ASSUME Close \/ CreationsDone \/ SessionsDone \/ BackendsDone \/ BackendsFail
         PROVE  call' = call
    BY <1>10 DEF Close, CreationsDone, SessionsDone, BackendsDone, BackendsFail
  <1>11. CASE \E c \in Call, p \in Path : CreateSession(c, p)
    BY <1>1, <1>2, <1>11
  <1>12. CASE \E c \in Call : \/ AssemblyFails(c) \/ AssemblyConflicts(c) \/ Finishing(c)
                              \/ \E s \in Session : RollbackFails(c, s)
    BY <1>1, <1>3, <1>7, <1>12
  <1>13. CASE \E c \in Call : InitialisationFails(c) \/ \E s \in Session : Assembled(c, s)
    BY <1>1, <1>4, <1>5, <1>13
  <1>14. CASE call' = call \/ Crash
    BY <1>1, <1>6, <1>14
  <1>. QED BY <1>8, <1>9, <1>10, <1>11, <1>12, <1>13, <1>14 DEF Next

\* A session is cleaned, and leaves when it is clean; or it is new.
Cleaned(s) ==
  /\ todo'[s] \subseteq todo[s]
  /\ where'[s] = "listed" => where[s] = "listed"
  /\ where'[s] = "gone" => where[s] = "gone" \/ todo'[s] = {}
  /\ pathOf'[s] = pathOf[s] \/ (todo'[s] = {} /\ where'[s] # "listed")

LEMMA SessionStep ==
  ASSUME HostInv, Next, NEW s \in Session
  PROVE  Cleaned(s) \/ \E c \in Call : Takes(c, s)
  <1>. USE DEF HostInv, hostVars, fileVars, sessionVars, bounds
  <1>1. ASSUME UNCHANGED <<todo, where, pathOf>>
        PROVE  Cleaned(s)
    BY <1>1 DEF Cleaned
  <1>2. ASSUME NEW t \in Session, phase[t] # "none", Advance(t),
               todo' = [todo EXCEPT ![t] = @ \ {phase[t], "sink"}] \/ todo' = [todo EXCEPT ![t] = @ \ {"sink"}]
        PROVE  Cleaned(s)
    <2>1. todo'[s] \subseteq todo[s]
      BY <1>2 DEF TypeOK
    <2>2. CASE s # t
      BY <1>2, <2>1, <2>2, AdvanceDoes DEF Cleaned
    <2>3. CASE s = t
      BY <1>2, <2>1, <2>3, AdvanceDoes DEF Cleaned
    <2>. QED BY <2>2, <2>3
  <1>3. ASSUME NEW t \in Session, CleanUp(t) \/ CleanUpFails(t)
        PROVE  Cleaned(s)
    <2>1. phase[t] # "none" /\ Advance(t)
      BY <1>3 DEF CleanUp, CleanUpFails, TypeOK, Tasks
    <2>. QED BY <1>2, <1>3, <2>1 DEF CleanUp, CleanUpFails
  <1>4. ASSUME Crash
        PROVE  Cleaned(s)
    BY <1>4 DEF Crash, Cleaned
  <1>5. ASSUME NEW c \in Call, NEW t \in Session, Takes(c, t), t # s
        PROVE  Cleaned(s)
    <2>1. todo'[s] = todo[s] /\ where'[s] = where[s] /\ pathOf'[s] = pathOf[s]
      BY <1>5 DEF Takes, Assembled, RollbackFails, TypeOK
    <2>. QED BY <2>1 DEF Cleaned
  <1>6. ASSUME NEW c \in Call, \/ \E p \in Path : CreateSession(c, p)
                               \/ AssemblyFails(c) \/ AssemblyConflicts(c)
                               \/ InitialisationFails(c) \/ Finishing(c)
        PROVE  UNCHANGED <<todo, where, pathOf>>
    BY <1>6 DEF CreateSession, AssemblyFails, AssemblyConflicts, InitialisationFails, Finishing,
                Restore, DuplicateGone, RolledBack
  <1>7. ASSUME NEW t \in Session, ChangeQueue(t) \/ Dispose(t)
        PROVE  UNCHANGED <<todo, where, pathOf>>
    BY <1>7 DEF ChangeQueue, Dispose
  <1>8. ASSUME NEW p \in Path, Write(p) \/ WriteFails(p)
        PROVE  UNCHANGED <<todo, where, pathOf>>
    BY <1>8 DEF Write, WriteFails
  <1>9. ASSUME Close \/ CreationsDone \/ SessionsDone \/ BackendsDone \/ BackendsFail
        PROVE  UNCHANGED <<todo, where, pathOf>>
    BY <1>9 DEF Close, CreationsDone, SessionsDone, BackendsDone, BackendsFail
  <1>10. CASE \E t \in Session : ChangeQueue(t) \/ Dispose(t) \/ CleanUp(t) \/ CleanUpFails(t)
    BY <1>1, <1>3, <1>7, <1>10
  <1>11. CASE \E c \in Call, t \in Session : Takes(c, t)
    BY <1>5, <1>11
  <1>12. CASE \E c \in Call : \/ \E p \in Path : CreateSession(c, p)
                              \/ AssemblyFails(c) \/ AssemblyConflicts(c)
                              \/ InitialisationFails(c) \/ Finishing(c)
    BY <1>1, <1>6, <1>12
  <1>13. CASE \E p \in Path : Write(p) \/ WriteFails(p)
    BY <1>1, <1>8, <1>13
  <1>14. CASE Crash \/ Close \/ CreationsDone \/ SessionsDone \/ BackendsDone \/ BackendsFail
    BY <1>1, <1>4, <1>9, <1>14
  <1>. QED BY <1>10, <1>11, <1>12, <1>13, <1>14 DEF Next, Takes

\* What taking a lease says of everybody else.
LEMMA TakesDoes ==
  ASSUME HostInv, NEW c \in Call, NEW s \in Session, Takes(c, s)
  PROVE  /\ call[c].at = "assembly" /\ call'[c].at # "assembly" /\ call[c].path \in Path
         /\ pathOf'[s] = call[c].path /\ where'[s] \in {"listed", "loose"}
         /\ \A t \in Session \ {s} : todo'[t] = todo[t] /\ pathOf'[t] = pathOf[t]
         /\ ~Leased(call[c].path)
  <1>1. /\ call[c].at = "assembly" /\ call[c].path \in Path /\ ~Leased(call[c].path)
        /\ pathOf'[s] = call[c].path
        /\ \A t \in Session \ {s} : todo'[t] = todo[t] /\ pathOf'[t] = pathOf[t]
    BY DEF HostInv, Known, TypeOK, Takes, Assembled, RollbackFails
  <1>2. where'[s] \in {"listed", "loose"}
    BY DEF HostInv, TypeOK, Takes, Assembled, RollbackFails
  <1>3. call'[c].at \in {"restore", "duplicate", "idle"}
    <2>1. call[c] \in Calls
      BY DEF HostInv, TypeOK
    <2>2. CASE Assembled(c, s)
      <3>1. PICK a \in {"restore", "duplicate"} : call'[c] = [call[c] EXCEPT !.at = a, !.session = s]
        BY <2>2 DEF HostInv, TypeOK, Assembled
      <3>. QED BY <2>1, <3>1 DEF Calls
    <2>3. CASE RollbackFails(c, s)
      BY <2>3, AnswerDoes, NoCallTyped DEF HostInv, RollbackFails
    <2>. QED BY <2>2, <2>3 DEF Takes
  <1>. QED BY <1>1, <1>2, <1>3

-----------------------------------------------------------------------------
(* The parts of the invariant, and that each step keeps them *)

LEMMA KnownStep ==
  ASSUME HostInv, Next
  PROVE  Known'
  <1>1. ASSUME NEW d \in Call
        PROVE  /\ call'[d].at # "idle" => call'[d].path \in Path
               /\ call'[d].at \in {"duplicate", "restore", "rollback"} => call'[d].session \in Session
    BY CallerStep DEF HostInv, Known, Waits
  <1>2. ASSUME NEW s \in Session, todo'[s] # {}
        PROVE  pathOf'[s] \in Path
    <2>1. CASE Cleaned(s)
      BY <1>2, <2>1 DEF HostInv, Known, Cleaned
    <2>2. CASE \E c \in Call : Takes(c, s)
      BY <2>2, TakesDoes
    <2>. QED BY <2>1, <2>2, SessionStep
  <1>. QED BY <1>1, <1>2 DEF Known

LEMMA OneCreationStep ==
  ASSUME HostInv, Next
  PROVE  OneCreation'
  <1>. SUFFICES ASSUME NEW c \in Call, NEW d \in Call, Waits(c)', Waits(d)',
                       call'[c].path = call'[d].path
                PROVE  c = d
    BY DEF OneCreation, Creating, Waits
  <1>1. CASE Waits(c) /\ call'[c].path = call[c].path /\ Waits(d) /\ call'[d].path = call[d].path
    BY <1>1 DEF HostInv, OneCreation, Creating, Waits
  <1>. QED BY <1>1, CallerStep

LEMMA OneLeaseStep ==
  ASSUME HostInv, Next
  PROVE  OneLease'
  <1>. SUFFICES ASSUME NEW s \in Session, NEW t \in Session,
                       "lease" \in todo'[s], "lease" \in todo'[t], pathOf'[s] = pathOf'[t]
                PROVE  s = t
    BY DEF OneLease
  <1>1. CASE Cleaned(s) /\ Cleaned(t)
    BY <1>1 DEF HostInv, OneLease, Cleaned
  <1>2. ASSUME NEW x \in Session, NEW y \in Session, x # y, "lease" \in todo'[y], pathOf'[x] = pathOf'[y],
               NEW c \in Call, Takes(c, x)
        PROVE  FALSE
    BY <1>2, TakesDoes DEF Leased
  <1>. QED BY <1>1, <1>2, SessionStep

LEMMA AssembledAloneStep ==
  ASSUME HostInv, Next
  PROVE  AssembledAlone'
  <1>. SUFFICES ASSUME NEW c \in Call, call'[c].at = "assembly", NEW s \in Session,
                       where'[s] = "listed", pathOf'[s] = call'[c].path, Waits(c)'
                PROVE  FALSE
    BY DEF AssembledAlone, OpenOn, Listed, Waits
  <1>1. CASE OpenOn(call[c].path)' = {}
    BY <1>1 DEF OpenOn, Listed
  <1>2. CASE call[c].at = "assembly" /\ call'[c].path = call[c].path
    <2>1. CASE Cleaned(s)
      BY <1>2, <2>1 DEF HostInv, AssembledAlone, OpenOn, Listed, Cleaned
    <2>2. ASSUME NEW d \in Call, Takes(d, s)
          PROVE  FALSE
      <3>1. call[d].at = "assembly" /\ call'[d].at # "assembly" /\ call[d].path = call[c].path
        BY <1>2, <2>2, TakesDoes
      <3>2. c = d
        BY <1>2, <3>1 DEF HostInv, OneCreation, Creating
      <3>. QED BY <3>1, <3>2
    <2>. QED BY <2>1, <2>2, SessionStep
  <1>. QED BY <1>1, <1>2, CallerStep

LEMMA ClosingStep ==
  ASSUME HostInv, Next
  PROVE  ClosingInOrder'
  <1>. USE DEF HostInv, ClosingInOrder, hostVars, fileVars, sessionVars, bounds
  <1>0. Creating = {c \in Call : Waits(c)}
    BY DEF Creating, Waits
  <1>1. ASSUME NEW c \in Call, NEW p \in Path, CreateSession(c, p)
        PROVE  ClosingInOrder'
    <2>1. PICK d \in Call : call' = [call EXCEPT ![c] = call'[c]] /\ (Closed => Waits(d))
      BY <1>1 DEF CreateSession, Creating, Waits, TypeOK
    <2>. QED BY <1>0, <1>1, <2>1 DEF CreateSession, Closed
  <1>2. ASSUME NEW c \in Call, Waits(c), task' = task
        PROVE  ClosingInOrder'
    <2>1. task \notin {"sessions", "backends", "done"}
      BY <1>0, <1>2
    <2>. QED BY <1>2, <2>1
  <1>3. ASSUME UNCHANGED <<call, hostVars, where>>
        PROVE  ClosingInOrder'
    BY <1>3 DEF Creating, Listed
  <1>4. ASSUME NEW s \in Session, CleanUp(s) \/ CleanUpFails(s)
        PROVE  ClosingInOrder'
    <2>1. phase[s] # "none" /\ Advance(s) /\ UNCHANGED <<call, task, closing>>
      BY <1>4 DEF CleanUp, CleanUpFails, TypeOK, Tasks
    <2>2. Creating' = Creating
      BY <2>1 DEF Creating
    <2>3. /\ \A t \in Session \ {s} : where'[t] = where[t] /\ (t \in awaited' <=> t \in awaited)
          /\ \/ UNCHANGED <<where, pathOf, awaited, failed>>
             \/ where'[s] = "gone" /\ todo'[s] = {} /\ failed' = failed
             \/ UNCHANGED <<where, pathOf>> /\ failed' = (failed \/ s \in awaited)
      BY <2>1, AdvanceDoes
    <2>4. ASSUME NEW t \in Session, Listed(t)'
          PROVE  Listed(t)
      BY <2>3, <2>4 DEF Listed
    <2>5. ASSUME task = "sessions", closing, ~failed', NEW t \in Session, Listed(t)'
          PROVE  t \in awaited'
      <3>1. ~failed
        BY <2>3, <2>5, Zenon
      <3>2. Listed(t)
        BY <2>4, <2>5
      <3>3. t \in awaited
        BY <2>5, <3>1, <3>2, Zenon
      <3>4. CASE t # s
        BY <2>3, <3>3, <3>4
      <3>5. CASE t = s
        <4>1. where'[s] = "listed"
          BY <2>5, <3>5 DEF Listed
        <4>2. ~(failed' = (failed \/ s \in awaited))
          BY <2>5, <3>3, <3>5, Zenon
        <4>3. awaited' = awaited
          BY <2>3, <4>1, <4>2
        <4>. QED BY <3>3, <4>3
      <3>. QED BY <3>4, <3>5
    <2>. QED BY <2>1, <2>2, <2>4, <2>5
  <1>5. ASSUME Close
        PROVE  ClosingInOrder'
    <2>1. Creating' = Creating /\ \A t \in Session : Listed(t)' <=> Listed(t)
      BY <1>5 DEF Close, Creating, Listed
    <2>2. CASE task = "none"
      BY <1>5, <2>2 DEF Close
    <2>3. CASE task = "sessions"
      BY <1>5, <2>1, <2>3 DEF Close
    <2>4. CASE task \notin {"none", "sessions"}
      BY <1>5, <2>1, <2>4 DEF Close
    <2>. QED BY <2>2, <2>3, <2>4
  <1>6. ASSUME CreationsDone
        PROVE  ClosingInOrder'
    BY <1>6 DEF CreationsDone, Creating, Listed
  <1>7. ASSUME SessionsDone
        PROVE  ClosingInOrder'
    BY <1>7 DEF SessionsDone, Creating, Listed
  <1>8. ASSUME BackendsDone
        PROVE  ClosingInOrder'
    BY <1>8 DEF BackendsDone, Creating, Listed
  <1>9. ASSUME BackendsFail
        PROVE  ClosingInOrder'
    BY <1>9 DEF BackendsFail, Creating, Listed
  <1>10. ASSUME Crash
         PROVE  ClosingInOrder'
    BY <1>10 DEF Crash
  <1>11. ASSUME NEW c \in Call, AssemblyFails(c) \/ AssemblyConflicts(c) \/ InitialisationFails(c)
         PROVE  ClosingInOrder'
    BY <1>2, <1>11 DEF AssemblyFails, AssemblyConflicts, InitialisationFails, Waits
  <1>12. ASSUME NEW c \in Call,
                Finishing(c) \/ \E s \in Session : Assembled(c, s) \/ RollbackFails(c, s)
         PROVE  ClosingInOrder'
    BY <1>2, <1>12 DEF Finishing, RollbackFails, Restore, DuplicateGone, RolledBack, Assembled, Waits
  <1>13. ASSUME NEW s \in Session, ChangeQueue(s) \/ Dispose(s)
         PROVE  ClosingInOrder'
    BY <1>3, <1>13 DEF ChangeQueue, Dispose
  <1>14. ASSUME NEW p \in Path, Write(p) \/ WriteFails(p)
         PROVE  ClosingInOrder'
    BY <1>3, <1>14 DEF Write, WriteFails
  <1>. QED BY <1>1, <1>4, <1>5, <1>6, <1>7, <1>8, <1>9, <1>10, <1>11, <1>12, <1>13, <1>14 DEF Next

\* A snapshot that joins the writes of a conversation is the last of them.
LEMMA LastAppended ==
  ASSUME NEW S, NEW q \in Seq(S), NEW x \in S
  PROVE  Append(q, x) # <<>> /\ Append(q, x)[Len(Append(q, x))] = x
  OBVIOUS

\* What is left when the first write is done ends as before.
LEMMA LastOfTail ==
  ASSUME NEW S, NEW q \in Seq(S), q # <<>>
  PROVE  /\ Tail(q) # <<>> => Tail(q)[Len(Tail(q))] = q[Len(q)]
         /\ Tail(q) = <<>> => Head(q) = q[Len(q)]
  <1>1. Len(q) \in Nat /\ Len(q) > 0 /\ Len(Tail(q)) = Len(q) - 1
    OBVIOUS
  <1>2. \A i \in 1..(Len(q) - 1) : Tail(q)[i] = q[i + 1]
    OBVIOUS
  <1>3. ASSUME Tail(q) # <<>>
        PROVE  Tail(q)[Len(Tail(q))] = q[Len(q)]
    <2>1. Len(q) - 1 \in 1..(Len(q) - 1)
      BY <1>1, <1>3
    <2>. QED BY <1>1, <1>2, <2>1
  <1>4. ASSUME Tail(q) = <<>>
        PROVE  Head(q) = q[Len(q)]
    <2>1. Len(q) = 1
      <3>. DEFINE n == Len(q)
                  m == Len(Tail(q))
      <3>1. n \in Nat /\ m = n - 1
        BY <1>1
      <3>2. m = 0
        <4>1. Len(<<>>) = 0
          OBVIOUS
        <4>. QED BY <1>4, <4>1, Zenon
      <3>. HIDE DEF n, m
      <3>3. n = 1
        BY <3>1, <3>2
      <3>. QED BY <3>3 DEF n
    <2>2. Head(q) = q[1]
      OBVIOUS
    <2>. QED BY <2>1, <2>2, Zenon
  <1>. QED BY <1>3, <1>4

FilesStep == LastIsSaid' /\ SidecarIsCurrent'

LEMMA PersistKeepsFiles ==
  ASSUME HostInv, NEW s \in Session, NEW q \in Snapshot, Persist(s, q), UNCHANGED <<disk, spoiled>>
  PROVE  FilesStep
  <1>. SUFFICES ASSUME NEW p \in Path
                PROVE  /\ chain'[p] # <<>> => chain'[p][Len(chain'[p])] = said'[p]
                       /\ chain'[p] = <<>> /\ p \notin spoiled' => disk'[p] = said'[p]
    BY DEF FilesStep, LastIsSaid, SidecarIsCurrent
  <1>1. CASE chain'[p] = chain[p] /\ said'[p] = said[p]
    BY <1>1 DEF HostInv, LastIsSaid, SidecarIsCurrent
  <1>2. CASE chain'[p] = Append(chain[p], q) /\ said'[p] = q
    <2>1. chain[p] \in Seq(Snapshot)
      BY DEF HostInv, TypeOK
    <2>. QED BY <1>2, <2>1, LastAppended
  <1>. QED BY <1>1, <1>2, PersistDoes DEF HostInv

LEMMA WriteKeepsFiles ==
  ASSUME HostInv, NEW p \in Path, Write(p) \/ WriteFails(p)
  PROVE  FilesStep
  <1>1. chain[p] \in Seq(Snapshot) /\ chain[p] # <<>> /\ chain \in [Path -> Seq(Snapshot)]
    BY DEF HostInv, TypeOK, Write, WriteFails
  <1>2. chain'[p] = Tail(chain[p]) /\ said' = said /\ \A x \in Path \ {p} : chain'[x] = chain[x]
    BY <1>1 DEF Write, WriteFails
  <1>3. \A x \in Path \ {p} : disk'[x] = disk[x] /\ (x \in spoiled' <=> x \in spoiled)
    BY DEF HostInv, TypeOK, Write, WriteFails
  <1>4. chain'[p] # <<>> => chain'[p][Len(chain'[p])] = said'[p]
    BY <1>1, <1>2, LastOfTail DEF HostInv, LastIsSaid
  <1>5. chain'[p] = <<>> /\ p \notin spoiled' => disk'[p] = said'[p]
    <2>1. CASE Write(p)
      <3>1. disk'[p] = Head(chain[p])
        BY <2>1 DEF HostInv, TypeOK, Write
      <3>. QED BY <1>1, <1>2, <3>1, LastOfTail DEF HostInv, LastIsSaid
    <2>2. CASE WriteFails(p)
      BY <2>2 DEF WriteFails
    <2>. QED BY <2>1, <2>2
  <1>6. ASSUME NEW x \in Path \ {p}
        PROVE  /\ chain'[x] # <<>> => chain'[x][Len(chain'[x])] = said'[x]
               /\ chain'[x] = <<>> /\ x \notin spoiled' => disk'[x] = said'[x]
    BY <1>2, <1>3, <1>6 DEF HostInv, LastIsSaid, SidecarIsCurrent
  <1>. QED BY <1>4, <1>5, <1>6 DEF FilesStep, LastIsSaid, SidecarIsCurrent

LEMMA FilesKept ==
  ASSUME HostInv, Next
  PROVE  FilesStep
  <1>. USE DEF hostVars, fileVars, sessionVars, bounds
  <1>1. ASSUME UNCHANGED fileVars
        PROVE  FilesStep
    BY <1>1 DEF HostInv, FilesStep, LastIsSaid, SidecarIsCurrent
  <1>2. ASSUME NEW c \in Call, Restore(c)
        PROVE  FilesStep
    <2>1. CASE UNCHANGED <<queue, chain, said, frozen>>
      BY <1>1, <1>2, <2>1 DEF Restore
    <2>2. CASE Persist(call[c].session, disk[call[c].path])
      <3>1. call[c].session \in Session /\ disk[call[c].path] \in Snapshot
        BY <1>2 DEF Restore, HostInv, Known, TypeOK
      <3>. QED BY <1>2, <2>2, <3>1, PersistKeepsFiles DEF Restore
    <2>. QED BY <1>2, <2>1, <2>2 DEF Restore
  <1>3. ASSUME NEW s \in Session, ChangeQueue(s)
        PROVE  FilesStep
    <2>1. PICK some \in BOOLEAN, paused \in BOOLEAN :
            Persist(s, [at |-> changes + 1, some |-> some, paused |-> paused])
      BY <1>3 DEF ChangeQueue, HostInv, TypeOK, Snapshot
    <2>2. [at |-> changes + 1, some |-> some, paused |-> paused] \in Snapshot
      BY DEF HostInv, TypeOK, Snapshot
    <2>. QED BY <1>3, <2>1, <2>2, PersistKeepsFiles DEF ChangeQueue
  <1>4. ASSUME Crash
        PROVE  FilesStep
    BY <1>4 DEF Crash, FilesStep, LastIsSaid, SidecarIsCurrent
  <1>5. ASSUME NEW c \in Call, \/ \E p \in Path : CreateSession(c, p)
                               \/ AssemblyFails(c) \/ AssemblyConflicts(c)
                               \/ \E s \in Session : Assembled(c, s) \/ RollbackFails(c, s)
                               \/ InitialisationFails(c) \/ DuplicateGone(c) \/ RolledBack(c)
        PROVE  UNCHANGED fileVars
    BY <1>5 DEF CreateSession, AssemblyFails, RollbackFails, AssemblyConflicts, Assembled,
                InitialisationFails, DuplicateGone, RolledBack
  <1>6. ASSUME NEW s \in Session, Dispose(s) \/ CleanUp(s) \/ CleanUpFails(s)
        PROVE  UNCHANGED fileVars
    BY <1>6 DEF Dispose, CleanUp, CleanUpFails
  <1>7. ASSUME Close \/ CreationsDone \/ SessionsDone \/ BackendsDone \/ BackendsFail
        PROVE  UNCHANGED fileVars
    BY <1>7 DEF Close, CreationsDone, SessionsDone, BackendsDone, BackendsFail
  <1>8. ASSUME NEW p \in Path, Write(p) \/ WriteFails(p)
        PROVE  FilesStep
    BY <1>8, WriteKeepsFiles
  <1>9. CASE \E s \in Session : ChangeQueue(s) \/ Dispose(s) \/ CleanUp(s) \/ CleanUpFails(s)
    BY <1>1, <1>3, <1>6, <1>9
  <1>10. CASE \E c \in Call : \/ \E p \in Path : CreateSession(c, p)
                              \/ AssemblyFails(c) \/ AssemblyConflicts(c)
                              \/ \E s \in Session : Assembled(c, s) \/ RollbackFails(c, s)
                              \/ InitialisationFails(c) \/ Finishing(c)
    BY <1>1, <1>2, <1>5, <1>10 DEF Finishing
  <1>. QED BY <1>1, <1>4, <1>7, <1>8, <1>9, <1>10 DEF Next

-----------------------------------------------------------------------------
(* The theorems *)

LEMMA InitHost == Init => HostInv
  <1>. SUFFICES ASSUME Init PROVE HostInv
    OBVIOUS
  <1>1. \A c \in Call : call[c].at = "idle"
    BY NoCallTyped DEF Init
  <1>2. /\ call \in [Call -> Calls] /\ queue \in [Session -> Snapshot]
        /\ disk \in [Path -> Snapshot] /\ said \in [Path -> Snapshot]
    BY NoCallTyped, SnapshotTypes DEF Init
  <1>3. chain \in [Path -> Seq(Snapshot)]
    BY DEF Init
  <1>4. TypeOK
    BY <1>2, <1>3 DEF Init, TypeOK, CloseTasks, Tasks
  <1>5. Known /\ OneCreation /\ AssembledAlone
    BY <1>1 DEF Init, Known, OneCreation, AssembledAlone, Creating
  <1>6. OneLease /\ ClosingInOrder
    BY DEF Init, OneLease, ClosingInOrder
  <1>7. LastIsSaid /\ SidecarIsCurrent
    BY DEF Init, LastIsSaid, SidecarIsCurrent
  <1>. QED BY <1>4, <1>5, <1>6, <1>7 DEF HostInv

LEMMA NextHost == HostInv /\ [Next]_vars => HostInv'
  <1>. SUFFICES ASSUME HostInv, [Next]_vars PROVE HostInv'
    OBVIOUS
  <1>1. CASE Next
    BY <1>1, TypeStep, KnownStep, OneCreationStep, OneLeaseStep, AssembledAloneStep,
       ClosingStep, FilesKept DEF HostInv, FilesStep
  <1>2. CASE UNCHANGED vars
    <2>. USE <1>2 DEF HostInv, vars, hostVars, fileVars, sessionVars, bounds
    <2>1. TypeOK' /\ Known'
      BY DEF TypeOK, Known
    <2>2. OneCreation' /\ AssembledAlone'
      BY DEF OneCreation, AssembledAlone, Creating, OpenOn, Listed
    <2>3. OneLease' /\ ClosingInOrder'
      BY DEF OneLease, ClosingInOrder, Creating, Listed
    <2>4. LastIsSaid' /\ SidecarIsCurrent'
      BY DEF LastIsSaid, SidecarIsCurrent
    <2>. QED BY <2>1, <2>2, <2>3, <2>4
  <1>. QED BY <1>1, <1>2

\* The inductive invariant of the host: what its calls, its directory, its cleanup
\* tasks, the attempts of close() and the files of queues say of each other.
THEOREM Inductive == Spec => []HostInv
  <1>. QED BY InitHost, NextHost, PTL DEF Spec

\* Every variable of the host keeps its type.
THEOREM TypeCorrect == Spec => []TypeOK
  <1>1. HostInv => TypeOK
    BY DEF HostInv
  <1>. QED BY <1>1, Inductive, PTL

\* A conversation is not acquired twice, however many callers create it, join its
\* creation, fail or leave a copy behind whose disposal failed (createSession).
THEOREM ConversationsAreAcquiredOnce == Spec => []AcquiredOnce
  <1>1. ASSUME HostInv, NEW p \in Path
        PROVE  Cardinality({c \in Call : call[c].at = "assembly" /\ call[c].path = p})
                 + Cardinality({s \in OpenOn(p) : "lease" \in todo[s]}) <= 1
    <2>. DEFINE C == {c \in Call : call[c].at = "assembly" /\ call[c].path = p}
                S == {s \in OpenOn(p) : "lease" \in todo[s]}
    <2>1. \A c, d \in C : c = d
      BY <1>1 DEF HostInv, OneCreation, Creating
    <2>2. \A s, t \in S : s = t
      BY <1>1 DEF HostInv, OneLease, OpenOn
    <2>3. C = {} \/ S = {}
      BY <1>1 DEF HostInv, AssembledAlone
    <2>. HIDE DEF C, S
    <2>4. ASSUME NEW T, \A x, y \in T : x = y
          PROVE  Cardinality(T) \in 0..1 /\ (T = {} => Cardinality(T) = 0)
      <3>1. CASE T = {}
        BY <3>1, FS_EmptySet
      <3>2. CASE T # {}
        <4>1. PICK x : T = {x}
          BY <2>4, <3>2
        <4>. QED BY <4>1, FS_Singleton
      <3>. QED BY <3>1, <3>2
    <2>5. Cardinality(C) \in 0..1 /\ Cardinality(S) \in 0..1 /\ (Cardinality(C) = 0 \/ Cardinality(S) = 0)
      BY <2>1, <2>2, <2>3, <2>4
    <2>. QED BY <2>5 DEF C, S
  <1>2. HostInv => AcquiredOnce
    BY <1>1 DEF AcquiredOnce
  <1>. QED BY <1>2, Inductive, PTL

\* close() gets past the sessions only when none is open and none is about to be,
\* whichever attempt it is (RuntimeHostCloseCoordinator).
THEOREM ClosedHostsAreEmpty == Spec => []ClosedIsEmpty
  <1>1. HostInv => ClosedIsEmpty
    BY DEF HostInv, ClosingInOrder, ClosedIsEmpty
  <1>. QED BY <1>1, Inductive, PTL

\* When its writes are done, and the last did not fail, the file of a queue holds
\* what was announced last (RuntimeHostQueueSidecar).
THEOREM FilesCatchUp == Spec => []SidecarIsCurrent
  <1>1. HostInv => SidecarIsCurrent
    BY DEF HostInv
  <1>. QED BY <1>1, Inductive, PTL

=============================================================================
