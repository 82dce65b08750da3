--------------------- MODULE ConversationOwnershipProofs ---------------------
(***************************************************************************)
(* Proofs about ConversationOwnership, for every set of processes,         *)
(* machines and conversations, and for any number of retries and crashes.  *)
(*                                                                         *)
(* The strengthening says, for each place a process can stand at, what it  *)
(* knows of the lock file it is about to write or to remove.               *)
(***************************************************************************)
EXTENDS ConversationOwnership, FiniteSetTheorems, TLAPS

-----------------------------------------------------------------------------
(* Types *)

LEMMA IdType ==
  ASSUME TypeOK, NEW p \in Process
  PROVE  /\ Id(p) \in Ids
         /\ <<p, made[p] + 1>> \in Ids
  BY DEF TypeOK, Id, Ids

LEMMA NoneIsNoId == None \notin Ids /\ None \notin Process /\ None \notin Path
  BY NoneAssumption DEF Ids

LEMMA TypeInit == Init => TypeOK
  BY DEF Init, TypeOK, NoFile, NoOp, Files, Steps, Ops, Reasons

LEMMA OpType ==
  ASSUME NEW x \in Path \cup {None}, NEW w \in Reasons, NEW n \in Path \cup {None}
  PROVE  /\ [NoOp EXCEPT !.path = x] \in Ops
         /\ [NoOp EXCEPT !.path = x, !.why = w] \in Ops
         /\ [NoOp EXCEPT !.path = x, !.why = w, !.next = n] \in Ops
  BY DEF NoOp, Ops, Reasons

LEMMA StepTypes ==
  ASSUME TypeOK, NEW p \in Process, NEW s \in Steps, Go(p, s)
  PROVE  step' \in [Process -> Steps]
  BY DEF TypeOK, Go

LEMMA TypeStart ==
  ASSUME TypeOK, NEW p \in Process, NEW x \in Path, Start(p, x)
  PROVE  TypeOK'
  BY SMTT(30) DEF TypeOK, Start, At, Go, NoOp, Steps, Ops, Reasons

LEMMA TypeRefuse ==
  ASSUME TypeOK, NEW p \in Process, Refuse(p)
  PROVE  step' \in [Process -> Steps] /\ op' \in [Process -> Ops]
  BY SMTT(30) DEF TypeOK, Refuse, Go, NoOp, Steps, Ops, Reasons

LEMMA TypeFinish ==
  ASSUME TypeOK, NEW p \in Process, Finish(p)
  PROVE  /\ step' \in [Process -> Steps]
         /\ op' \in [Process -> Ops]
         /\ leases' \in [Process -> SUBSET Lease]
         /\ target' \in [Process -> Path \cup {None}]
         /\ made' \in [Process -> Nat]
         /\ dead' \subseteq Process
  <1>1. step' \in [Process -> Steps] /\ op' \in [Process -> Ops]
    BY TypeRefuse DEF Finish
  <1>2. leases' \in [Process -> SUBSET Lease]
    BY DEF Finish, TypeOK, LeasesOn
  <1>3. op[p].next \in Path \cup {None}
    BY DEF TypeOK, Ops
  <1>4. target' \in [Process -> Path \cup {None}]
    BY <1>3 DEF Finish, TypeOK
  <1> QED BY <1>1, <1>2, <1>4 DEF Finish, TypeOK

LEMMA TypeCreate ==
  ASSUME TypeOK, NEW p \in Process, Create(p)
  PROVE  TypeOK'
  <1>1. step' \in [Process -> Steps]
    BY DEF TypeOK, Create, Go, Steps
  <1>2. made' \in [Process -> Nat]
    BY DEF TypeOK, Create
  <1>3. lock' \in [Path -> Files]
    <2> DEFINE f == [NoFile EXCEPT !.id = <<p, made[p] + 1>>]
    <2>1. f \in Files
      BY IdType DEF NoFile, Files
    <2>2. lock' = lock \/ lock' = [lock EXCEPT ![op[p].path] = f]
      BY DEF Create
    <2> HIDE DEF f
    <2> QED BY <2>1, <2>2 DEF TypeOK
  <1> QED BY <1>1, <1>2, <1>3 DEF TypeOK, Create

LEMMA WrittenFile ==
  ASSUME NEW f \in Files
  PROVE  /\ [f EXCEPT !.written = TRUE] \in Files
         /\ [f EXCEPT !.lost = "heartbeat"] \in Files
         /\ [f EXCEPT !.written = TRUE, !.lost = "nothing"] \in Files
  BY DEF Files

LEMMA OpInProgress ==
  ASSUME NEW o \in Ops, NEW i \in Ids \cup {None}
  PROVE  /\ [o EXCEPT !.seen = i] \in Ops
         /\ [o EXCEPT !.attempt = o.attempt + 1, !.seen = None] \in Ops
  <1>1. [o EXCEPT !.seen = i] \in Ops
    BY DEF Ops
  <1>2. o.attempt + 1 \in Nat
    BY DEF Ops
  <1>3. ASSUME NEW n \in Nat
        PROVE  [o EXCEPT !.attempt = n, !.seen = None] \in Ops
    BY Zenon DEF Ops
  <1> QED BY <1>1, <1>2, <1>3

LEMMA TypeWrite ==
  ASSUME TypeOK, NEW p \in Process, Write(p), op[p].path \in Path
  PROVE  TypeOK'
  <1> DEFINE x == op[p].path
  <1>1. lock' \in [Path -> Files]
    <2> DEFINE f == [lock[x] EXCEPT !.written = TRUE]
    <2>1. f \in Files
      <3>1. lock[x] \in Files
        BY DEF TypeOK
      <3> QED BY <3>1, WrittenFile, Zenon
    <2>2. lock' = lock \/ lock' = [lock EXCEPT ![x] = f]
      BY DEF TypeOK, Write
    <2> HIDE DEF f
    <2> QED BY <2>1, <2>2 DEF TypeOK
  <1>2. [path |-> x, id |-> Id(p)] \in Lease
    BY IdType DEF Lease
  <1>3. leases' \in [Process -> SUBSET Lease]
    BY <1>2 DEF TypeOK, Write
  <1>4. target' \in [Process -> Path \cup {None}]
    BY DEF TypeOK, Write
  <1>5. step' \in [Process -> Steps] /\ op' \in [Process -> Ops]
    <2>1. CASE Refuse(p)
      BY <2>1, TypeRefuse
    <2>2. CASE ~Refuse(p)
      <3> DEFINE o == [NoOp EXCEPT !.path = target[p], !.why = "rebind", !.next = x]
      <3>1. target[p] \in Path \cup {None} /\ "rebind" \in Reasons
        BY DEF TypeOK, Reasons
      <3>2. o \in Ops
        BY <3>1, OpType
      <3>3. Go(p, "check") /\ op' = [op EXCEPT ![p] = o]
        BY <2>2 DEF Write
      <3> HIDE DEF o
      <3> QED BY <3>2, <3>3, StepTypes DEF TypeOK, Steps
    <2> QED BY <2>1, <2>2
  <1> QED BY <1>1, <1>3, <1>4, <1>5 DEF TypeOK, Write

LEMMA TypeWriteFails ==
  ASSUME TypeOK, NEW p \in Process, WriteFails(p), op[p].path \in Path
  PROVE  TypeOK'
  <1> DEFINE f == [lock[op[p].path] EXCEPT !.written = TRUE, !.lost = "nothing"]
  <1>1. f \in Files
    <2>1. lock[op[p].path] \in Files
      BY DEF TypeOK
    <2> QED BY <2>1, WrittenFile, Zenon
  <1>2. lock' = lock \/ lock' = [lock EXCEPT ![op[p].path] = f]
    BY DEF TypeOK, WriteFails
  <1> HIDE DEF f
  <1> QED BY <1>1, <1>2, TypeRefuse DEF TypeOK, WriteFails

LEMMA TypeReadHolder ==
  ASSUME TypeOK, NEW p \in Process, ReadHolder(p), op[p].path \in Path
  PROVE  TypeOK'
  BY SMTT(30) DEF TypeOK, ReadHolder, Go, Files, Steps, Ops

LEMMA TypeJudge ==
  ASSUME TypeOK, NEW p \in Process, Judge(p), op[p].path \in Path
  PROVE  TypeOK'
  <1>1. Judged(p) \in Ids \cup {None}
    BY DEF Judged, TypeOK, Files, Ops
  <1>2. step' \in [Process -> Steps] /\ op' \in [Process -> Ops]
    <2>1. CASE Refuse(p)
      BY <2>1, TypeRefuse
    <2>2. CASE ~Refuse(p)
      <3> DEFINE o == [op[p] EXCEPT !.seen = Judged(p)]
      <3>1. op \in [Process -> Ops] /\ step \in [Process -> Steps]
        BY DEF TypeOK
      <3>2. o \in Ops
        <4>1. op[p] \in Ops
          BY <3>1
        <4> QED BY <1>1, <4>1, OpInProgress, Zenon
      <3>3. op' = [op EXCEPT ![p].seen = Judged(p)] /\ step' = [step EXCEPT ![p] = "remove"]
        BY <2>2 DEF Judge, Go
      <3>4. op' = [op EXCEPT ![p] = o]
        BY <3>1, <3>3
      <3> HIDE DEF o
      <3> QED BY <3>1, <3>2, <3>3, <3>4 DEF Steps
    <2> QED BY <2>1, <2>2
  <1> QED BY <1>2 DEF TypeOK, Judge

LEMMA NoFileType == NoFile \in Files
  BY DEF NoFile, Files

LEMMA TypeRemove ==
  ASSUME TypeOK, NEW p \in Process, Remove(p), op[p].path \in Path
  PROVE  TypeOK'
  <1>1. lock' \in [Path -> Files] /\ snatched' \subseteq Path
    BY NoFileType DEF TypeOK, Remove
  <1>2. step' \in [Process -> Steps] /\ op' \in [Process -> Ops]
    <2>1. CASE Refuse(p)
      BY <2>1, TypeRefuse
    <2>2. CASE ~Refuse(p)
      <3> DEFINE o == [op[p] EXCEPT !.attempt = op[p].attempt + 1, !.seen = None]
      <3>1. op \in [Process -> Ops] /\ step \in [Process -> Steps]
        BY DEF TypeOK
      <3>2. o \in Ops
        <4>1. op[p] \in Ops
          BY <3>1
        <4> QED BY <4>1, OpInProgress, Zenon
      <3>3. /\ op' = [op EXCEPT ![p].attempt = op[p].attempt + 1, ![p].seen = None]
            /\ step' = [step EXCEPT ![p] = "open"]
        BY <2>2 DEF Remove, Go
      <3>4. op' = [op EXCEPT ![p] = o]
        BY <3>1, <3>3
      <3> HIDE DEF o
      <3> QED BY <3>1, <3>2, <3>3, <3>4 DEF Steps
    <2> QED BY <2>1, <2>2
  <1> QED BY <1>1, <1>2 DEF TypeOK, Remove

LEMMA TypeClose ==
  ASSUME TypeOK, NEW p \in Process, Close(p)
  PROVE  TypeOK'
  <1> DEFINE o == [NoOp EXCEPT !.path = target[p], !.why = "close"]
  <1>1. target[p] \in Path \cup {None} /\ "close" \in Reasons
    BY DEF TypeOK, Reasons
  <1>2. o \in Ops
    BY <1>1, OpType
  <1>3. Go(p, "check") /\ op' = [op EXCEPT ![p] = o]
    BY DEF Close
  <1> HIDE DEF o
  <1> QED BY <1>2, <1>3, StepTypes DEF TypeOK, Steps, Close

LEMMA TypeCheck ==
  ASSUME TypeOK, NEW p \in Process, Check(p), op[p].path \in Path
  PROVE  TypeOK'
  <1>1. CASE OwnLock(p)
    <2> DEFINE o == [op[p] EXCEPT !.seen = lock[op[p].path].id]
    <2>1. lock[op[p].path].id \in Ids \cup {None}
      BY DEF TypeOK, Files
    <2>2. o \in Ops
      BY <2>1 DEF TypeOK, Ops
    <2>3. Go(p, "rm") /\ op' = [op EXCEPT ![p] = o]
      BY <1>1 DEF Check, TypeOK
    <2> HIDE DEF o
    <2> QED BY <1>1, <2>2, <2>3, StepTypes DEF TypeOK, Steps, Check
  <1>2. CASE ~OwnLock(p)
    BY <1>2, TypeFinish DEF TypeOK, Check
  <1> QED BY <1>1, <1>2

LEMMA TypeRemoveOwn ==
  ASSUME TypeOK, NEW p \in Process, RemoveOwn(p), op[p].path \in Path
  PROVE  TypeOK'
  <1>1. lock' \in [Path -> Files] /\ snatched' \subseteq Path
    BY NoFileType DEF TypeOK, RemoveOwn
  <1> QED BY <1>1, TypeFinish DEF TypeOK, RemoveOwn

LEMMA TypeReleaseFails ==
  ASSUME TypeOK, NEW p \in Process, ReleaseFails(p), op[p].path \in Path
  PROVE  TypeOK'
  <1>1. step' \in [Process -> Steps] /\ op' \in [Process -> Ops]
    <2>1. CASE Refuse(p)
      BY <2>1, TypeRefuse
    <2>2. CASE ~Refuse(p)
      <3> DEFINE o == [NoOp EXCEPT !.path = op[p].next, !.why = "undo"]
      <3>1. op[p].next \in Path \cup {None} /\ "undo" \in Reasons
        BY DEF TypeOK, Ops, Reasons
      <3>2. o \in Ops
        BY <3>1, OpType
      <3>3. Go(p, "check") /\ op' = [op EXCEPT ![p] = o]
        BY <2>2 DEF ReleaseFails
      <3> HIDE DEF o
      <3> QED BY <3>2, <3>3, StepTypes DEF TypeOK, Steps
    <2> QED BY <2>1, <2>2
  <1>2. lock' \in [Path -> Files]
    <2> DEFINE f == [lock[op[p].path] EXCEPT !.lost = "heartbeat"]
    <2>1. f \in Files
      <3>1. lock[op[p].path] \in Files
        BY DEF TypeOK
      <3> QED BY <3>1, WrittenFile, Zenon
    <2>2. lock' = lock \/ lock' = [lock EXCEPT ![op[p].path] = f]
      BY DEF TypeOK, ReleaseFails
    <2> HIDE DEF f
    <2> QED BY <2>1, <2>2 DEF TypeOK
  <1>3. leases' \in [Process -> SUBSET Lease]
    BY DEF TypeOK, ReleaseFails, LeasesOn
  <1> QED BY <1>1, <1>2, <1>3 DEF TypeOK, ReleaseFails

LEMMA TypeCrash ==
  ASSUME TypeOK, NEW p \in Process, Crash(p)
  PROVE  TypeOK'
  BY TypeRefuse DEF TypeOK, Crash

LEMMA TypeAge ==
  ASSUME TypeOK, NEW x \in Path, Age(x)
  PROVE  TypeOK'
  <1> DEFINE f == [lock[x] EXCEPT !.stale = TRUE]
  <1>1. f \in Files
    BY DEF TypeOK, Files
  <1>2. lock' = [lock EXCEPT ![x] = f]
    BY DEF TypeOK, Age
  <1> HIDE DEF f
  <1> QED BY <1>1, <1>2 DEF TypeOK, Age

-----------------------------------------------------------------------------
(* The inductive invariant *)

\* Whoever is at an operation is at it for a conversation.
OpHasPath == \A p \in Process : step[p] # "idle" => op[p].path \in Path

\* A number a process has not reached names no file.
Known(id) == id # None => id \in Ids /\ id[2] <= made[id[1]]

IdsAreKnown ==
  /\ \A x \in Path : Known(lock[x].id)
  /\ \A p \in Process : Known(op[p].seen)

LeaseIsMine == \A p \in Process : \A l \in leases[p] : Creator(l.id) = p

\* The file that is about to be written is at its path and young.
WriterHasFile ==
  \A p \in Process : At(p, "write") =>
    \/ op[p].path \in snatched
    \/ lock[op[p].path].id = Id(p) /\ ~lock[op[p].path].stale

\* The file that was judged reclaimable still is.
JudgedIsOver ==
  \A p \in Process : At(p, "remove") /\ op[p].seen # None =>
    \/ Creator(op[p].seen) \in dead
    \/ lock[op[p].path].id = op[p].seen => lock[op[p].path].stale

\* Whoever gives a lease back removes a file of its own.
RemovesOwn == \A p \in Process : At(p, "rm") => Creator(op[p].seen) = p

Acquires(p) == step[p] \in {"open", "write", "read", "judge", "remove"}

Releases(p) == step[p] \in {"check", "rm"}

ReasonOf(p) ==
  /\ Acquires(p) => op[p].path # target[p]
  /\ Releases(p) => op[p].why \in {"close", "rebind", "undo"}
  /\ Releases(p) /\ op[p].why = "undo" => op[p].path # target[p]
  /\ Releases(p) /\ op[p].why = "close" => op[p].path = target[p]
  /\ Releases(p) /\ op[p].why = "rebind" =>
       /\ op[p].path = target[p]
       /\ op[p].next \in Path \ {target[p]}
       /\ LeasesOn(p, op[p].next) # {}

ReasonHolds == \A p \in Process : ReasonOf(p)

WrittenIsThere == \A x \in Path : lock[x].written => Present(x)

TargetHasLease ==
  \A p \in Process : target[p] # None => p \notin dead /\ LeasesOn(p, target[p]) # {}

IInv ==
  /\ TypeOK
  /\ OpHasPath
  /\ IdsAreKnown
  /\ LeaseIsMine
  /\ LeaseIsOnDisk
  /\ WriterHasFile
  /\ JudgedIsOver
  /\ RemovesOwn
  /\ ReasonHolds
  /\ TargetHasLease
  /\ WrittenIsThere
  /\ LockIsLeased

-----------------------------------------------------------------------------
(* Every step keeps it *)

\* Process p, and nobody else, moves.
Local(p) ==
  \A q \in Process \ {p} :
    /\ step'[q] = step[q]
    /\ op'[q] = op[q]
    /\ leases'[q] = leases[q]
    /\ target'[q] = target[q]
    /\ made'[q] = made[q]

LEMMA LocalStart ==
  ASSUME TypeOK, NEW p \in Process, NEW x \in Path, Start(p, x)
  PROVE  Local(p)
  BY SMTT(30) DEF TypeOK, Local, Start, Go

LEMMA LocalCreate ==
  ASSUME TypeOK, NEW p \in Process, Create(p)
  PROVE  Local(p)
  BY SMTT(30) DEF TypeOK, Local, Create, Go

LEMMA LocalWrite ==
  ASSUME TypeOK, NEW p \in Process, Write(p)
  PROVE  Local(p)
  BY SMTT(30) DEF TypeOK, Local, Write, Refuse, Go

LEMMA LocalWriteFails ==
  ASSUME TypeOK, NEW p \in Process, WriteFails(p)
  PROVE  Local(p)
  BY SMTT(30) DEF TypeOK, Local, WriteFails, Refuse, Go

LEMMA LocalReadHolder ==
  ASSUME TypeOK, NEW p \in Process, ReadHolder(p)
  PROVE  Local(p)
  BY SMTT(30) DEF TypeOK, Local, ReadHolder, Go

LEMMA LocalJudge ==
  ASSUME TypeOK, NEW p \in Process, Judge(p)
  PROVE  Local(p)
  BY SMTT(30) DEF TypeOK, Local, Judge, Refuse, Go

LEMMA LocalRemove ==
  ASSUME TypeOK, NEW p \in Process, Remove(p)
  PROVE  Local(p)
  BY SMTT(30) DEF TypeOK, Local, Remove, Refuse, Go

LEMMA LocalClose ==
  ASSUME TypeOK, NEW p \in Process, Close(p)
  PROVE  Local(p)
  BY SMTT(30) DEF TypeOK, Local, Close, Go

LEMMA LocalCheck ==
  ASSUME TypeOK, NEW p \in Process, Check(p)
  PROVE  Local(p)
  BY SMTT(30) DEF TypeOK, Local, Check, Finish, Refuse, Go

LEMMA LocalRemoveOwn ==
  ASSUME TypeOK, NEW p \in Process, RemoveOwn(p)
  PROVE  Local(p)
  BY SMTT(30) DEF TypeOK, Local, RemoveOwn, Finish, Refuse, Go

LEMMA LocalReleaseFails ==
  ASSUME TypeOK, NEW p \in Process, ReleaseFails(p)
  PROVE  Local(p)
  BY SMTT(30) DEF TypeOK, Local, ReleaseFails, Refuse, Go

LEMMA LocalCrash ==
  ASSUME TypeOK, NEW p \in Process, Crash(p)
  PROVE  Local(p)
  BY SMTT(30) DEF TypeOK, Local, Crash, Refuse, Go

LEMMA CreatorOfId ==
  ASSUME NEW p \in Process, NEW n \in Nat
  PROVE  Creator(<<p, n>>) = p /\ <<p, n>>[2] = n /\ <<p, n>> \in Ids /\ <<p, n>> # None
  BY NoneIsNoId DEF Creator, Ids

-----------------------------------------------------------------------------
(* What each step does to the process that takes it *)

Idle(p) == step'[p] = "idle" /\ op'[p] = NoOp

NothingElse(p) ==
  /\ Local(p)
  /\ UNCHANGED <<lock, leases, target, made, dead, snatched>>

LEMMA NoOpFields == NoOp.seen = None /\ NoOp.path = None /\ NoOp.why = "none"
  BY DEF NoOp

LEMMA StartDoes ==
  ASSUME TypeOK, NEW p \in Process, NEW x \in Path, Start(p, x)
  PROVE  /\ step[p] = "idle" /\ p \notin dead
         /\ step'[p] = "open" /\ op'[p].path = x /\ op'[p].seen = None
         /\ NothingElse(p)
  <1> DEFINE o == [NoOp EXCEPT !.path = x]
  <1>1. o.path = x /\ o.seen = None
    BY DEF NoOp
  <1>2. op' = [op EXCEPT ![p] = o]
    BY DEF Start
  <1> HIDE DEF o
  <1> QED BY <1>1, <1>2, LocalStart DEF TypeOK, Start, Go, At, NothingElse

LEMMA CreateDoes ==
  ASSUME TypeOK, NEW p \in Process, Create(p), op[p].path \in Path
  PROVE  /\ step[p] = "open" /\ p \notin dead
         /\ Local(p)
         /\ UNCHANGED <<op, leases, target, dead, snatched>>
         /\ \/ step'[p] = "read" /\ UNCHANGED <<lock, made>>
            \/ /\ step'[p] = "write"
               /\ made'[p] = made[p] + 1
               /\ lock[op[p].path].id = None
               /\ lock'[op[p].path].id = <<p, made[p] + 1>>
               /\ ~lock'[op[p].path].written
               /\ ~lock'[op[p].path].stale
               /\ \A y \in Path \ {op[p].path} : lock'[y] = lock[y]
  <1> DEFINE f == [NoFile EXCEPT !.id = <<p, made[p] + 1>>]
  <1>1. f.id = <<p, made[p] + 1>> /\ ~f.written /\ ~f.stale
    BY DEF NoFile
  <1>2. \/ step'[p] = "read" /\ UNCHANGED <<lock, made>>
        \/ /\ step'[p] = "write"
           /\ made'[p] = made[p] + 1
           /\ lock[op[p].path].id = None
           /\ lock' = [lock EXCEPT ![op[p].path] = f]
    BY DEF TypeOK, Create, Go, Present
  <1> HIDE DEF f
  <1> QED BY <1>1, <1>2, LocalCreate DEF TypeOK, Create, At

LEMMA WriteDoes ==
  ASSUME TypeOK, NEW p \in Process, Write(p), op[p].path \in Path
  PROVE  /\ step[p] = "write" /\ p \notin dead
         /\ Local(p)
         /\ UNCHANGED <<made, dead, snatched>>
         /\ \A y \in Path \ {op[p].path} : lock'[y] = lock[y]
         /\ lock'[op[p].path].id = lock[op[p].path].id
         /\ lock'[op[p].path].stale = lock[op[p].path].stale
         /\ lock'[op[p].path].lost = lock[op[p].path].lost
         /\ lock'[op[p].path].written = (lock[op[p].path].written \/ WritesOwnFile(p))
         /\ leases'[p] = leases[p] \cup {[path |-> op[p].path, id |-> Id(p)]}
         /\ \/ target[p] = None /\ target'[p] = op[p].path /\ Idle(p)
            \/ /\ target[p] # None /\ target'[p] = target[p]
               /\ step'[p] = "check"
               /\ op'[p].path = target[p]
               /\ op'[p].why = "rebind"
               /\ op'[p].next = op[p].path
               /\ op'[p].seen = None
  <1> DEFINE x == op[p].path
             f == [lock[x] EXCEPT !.written = TRUE]
             o == [NoOp EXCEPT !.path = target[p], !.why = "rebind", !.next = x]
  <1>1. /\ f.id = lock[x].id
        /\ f.stale = lock[x].stale
        /\ f.lost = lock[x].lost
        /\ f.written
    BY DEF TypeOK, Files
  <1>2. lock' = IF WritesOwnFile(p) THEN [lock EXCEPT ![x] = f] ELSE lock
    BY DEF Write, TypeOK
  <1>3. /\ o.path = target[p]
        /\ o.why = "rebind"
        /\ o.next = x
        /\ o.seen = None
    BY DEF NoOp
  <1>4. \/ target[p] = None /\ target'[p] = x /\ Idle(p)
        \/ /\ target[p] # None /\ target'[p] = target[p]
           /\ step'[p] = "check"
           /\ op'[p] = o
    BY DEF TypeOK, Write, Go, Idle, Refuse
  <1>5. leases'[p] = leases[p] \cup {[path |-> x, id |-> Id(p)]}
    BY DEF TypeOK, Write
  <1> HIDE DEF f, o
  <1>6. /\ \A y \in Path \ {x} : lock'[y] = lock[y]
        /\ lock'[x] = IF WritesOwnFile(p) THEN f ELSE lock[x]
    BY <1>2 DEF TypeOK
  <1>7. lock[x].written \in BOOLEAN
    BY DEF TypeOK, Files
  <1>8. /\ lock'[x].id = lock[x].id
        /\ lock'[x].stale = lock[x].stale
        /\ lock'[x].lost = lock[x].lost
        /\ lock'[x].written = (lock[x].written \/ WritesOwnFile(p))
    BY <1>1, <1>6, <1>7
  <1>9. /\ step[p] = "write" /\ p \notin dead
        /\ UNCHANGED <<made, dead, snatched>>
    BY DEF Write, At
  <1> QED BY <1>3, <1>4, <1>5, <1>6, <1>8, <1>9, LocalWrite

\* A file keeps its name and its age.
SameFile(x) ==
  /\ lock'[x].id = lock[x].id
  /\ lock'[x].stale = lock[x].stale

LEMMA WriteFailsDoes ==
  ASSUME TypeOK, NEW p \in Process, WriteFails(p), op[p].path \in Path
  PROVE  /\ Idle(p) /\ Local(p)
         /\ UNCHANGED <<leases, target, made, dead, snatched>>
         /\ \A y \in Path : SameFile(y)
         /\ \A y \in Path : lock'[y] # lock[y] =>
              y = op[p].path /\ WritesOwnFile(p) /\ lock'[y].lost = "nothing"
  <1> DEFINE x == op[p].path
             f == [lock[x] EXCEPT !.written = TRUE, !.lost = "nothing"]
  <1>1. f.id = lock[x].id /\ f.stale = lock[x].stale /\ f.lost = "nothing"
    BY DEF TypeOK, Files
  <1>2. lock' = lock \/ (WritesOwnFile(p) /\ lock' = [lock EXCEPT ![x] = f])
    BY DEF TypeOK, WriteFails
  <1>3. Idle(p) /\ Local(p) /\ UNCHANGED <<leases, target, made, dead, snatched>>
    BY LocalWriteFails DEF TypeOK, WriteFails, Refuse, Go, Idle
  <1> HIDE DEF f
  <1> QED BY <1>1, <1>2, <1>3 DEF TypeOK, SameFile

LEMMA ReadHolderDoes ==
  ASSUME TypeOK, NEW p \in Process, ReadHolder(p)
  PROVE  /\ step[p] = "read" /\ p \notin dead
         /\ step'[p] = "judge" /\ op'[p].path = op[p].path
         /\ op'[p].seen \in {None, lock[op[p].path].id}
         /\ NothingElse(p)
  <1> DEFINE i == IF lock[op[p].path].written THEN lock[op[p].path].id ELSE None
             o == [op[p] EXCEPT !.seen = i]
  <1>1. o.path = op[p].path /\ o.seen = i
    BY DEF TypeOK, Ops
  <1>2. op' = [op EXCEPT ![p] = o]
    BY DEF TypeOK, ReadHolder
  <1>3. i \in {None, lock[op[p].path].id}
    OBVIOUS
  <1> HIDE DEF i, o
  <1> QED BY <1>1, <1>2, <1>3, LocalReadHolder DEF TypeOK, ReadHolder, Go, At, NothingElse

LEMMA JudgeDoes ==
  ASSUME TypeOK, NEW p \in Process, Judge(p)
  PROVE  /\ step[p] = "judge" /\ p \notin dead
         /\ NothingElse(p)
         /\ \/ Idle(p)
            \/ /\ step'[p] = "remove" /\ op'[p].path = op[p].path
               /\ op'[p].seen = Judged(p)
               /\ Reclaimable(p)
  BY LocalJudge, SMTT(30) DEF TypeOK, Judge, Refuse, Idle, Go, At, Ops, NothingElse

LEMMA RemoveDoes ==
  ASSUME TypeOK, NEW p \in Process, Remove(p), op[p].path \in Path
  PROVE  /\ step[p] = "remove" /\ p \notin dead
         /\ Local(p)
         /\ UNCHANGED <<leases, target, made, dead>>
         /\ lock'[op[p].path] = NoFile
         /\ \A y \in Path \ {op[p].path} : lock'[y] = lock[y]
         /\ snatched \subseteq snatched'
         /\ op[p].path \in snatched' \/ lock[op[p].path].id \in {None, op[p].seen}
         /\ \/ Idle(p)
            \/ step'[p] = "open" /\ op'[p].path = op[p].path /\ op'[p].seen = None
  <1>1. \/ Idle(p)
        \/ step'[p] = "open" /\ op'[p].path = op[p].path /\ op'[p].seen = None
    BY SMTT(30) DEF TypeOK, Remove, Refuse, Idle, Go, Ops
  <1> QED BY <1>1, LocalRemove DEF TypeOK, Remove, At

LEMMA CloseDoes ==
  ASSUME TypeOK, NEW p \in Process, Close(p)
  PROVE  /\ step[p] = "idle" /\ p \notin dead /\ target[p] # None
         /\ step'[p] = "check"
         /\ op'[p].path = target[p] /\ op'[p].why = "close" /\ op'[p].seen = None
         /\ NothingElse(p)
  <1> DEFINE o == [NoOp EXCEPT !.path = target[p], !.why = "close"]
  <1>1. o.path = target[p] /\ o.why = "close" /\ o.seen = None
    BY DEF NoOp
  <1>2. op' = [op EXCEPT ![p] = o]
    BY DEF Close
  <1> HIDE DEF o
  <1> QED BY <1>1, <1>2, LocalClose DEF TypeOK, Close, Go, At, NothingElse

\* What is left once a lease was given back.
Done(p) ==
  /\ Idle(p)
  /\ leases'[p] = leases[p] \ LeasesOn(p, op[p].path)
  /\ op[p].why = "close" => target'[p] = None
  /\ op[p].why = "rebind" => target'[p] = op[p].next
  /\ op[p].why = "undo" => target'[p] = target[p]
  /\ UNCHANGED <<made, dead>>

LEMMA FinishDoes ==
  ASSUME TypeOK, NEW p \in Process, Finish(p)
  PROVE  Done(p)
  BY SMTT(30) DEF TypeOK, Finish, Refuse, Go, Idle, Done

LEMMA CheckDoes ==
  ASSUME TypeOK, NEW p \in Process, Check(p)
  PROVE  /\ step[p] = "check" /\ p \notin dead
         /\ Local(p)
         /\ UNCHANGED <<lock, snatched>>
         /\ \/ /\ OwnLock(p)
               /\ step'[p] = "rm" /\ op'[p].path = op[p].path
               /\ op'[p].why = op[p].why /\ op'[p].next = op[p].next
               /\ op'[p].seen = lock[op[p].path].id
               /\ UNCHANGED <<leases, target, made, dead>>
            \/ ~OwnLock(p) /\ Done(p)
  <1>1. CASE OwnLock(p)
    BY <1>1, LocalCheck, SMTT(30) DEF TypeOK, Check, Go, At, Ops
  <1>2. CASE ~OwnLock(p)
    BY <1>2, LocalCheck, FinishDoes DEF Check, At
  <1> QED BY <1>1, <1>2

LEMMA RemoveOwnDoes ==
  ASSUME TypeOK, NEW p \in Process, RemoveOwn(p), op[p].path \in Path
  PROVE  /\ step[p] = "rm" /\ p \notin dead
         /\ Local(p)
         /\ lock'[op[p].path] = NoFile
         /\ \A y \in Path \ {op[p].path} : lock'[y] = lock[y]
         /\ snatched \subseteq snatched'
         /\ op[p].path \in snatched' \/ lock[op[p].path].id \in {None, op[p].seen}
         /\ Done(p)
  <1>1. Done(p)
    BY FinishDoes DEF RemoveOwn
  <1> QED BY <1>1, LocalRemoveOwn DEF TypeOK, RemoveOwn, At

LEMMA ReleaseFailsDoes ==
  ASSUME TypeOK, NEW p \in Process, ReleaseFails(p), op[p].path \in Path
  PROVE  /\ step[p] \in {"check", "rm"} /\ p \notin dead
         /\ Local(p)
         /\ UNCHANGED <<target, made, dead, snatched>>
         /\ \A y \in Path : SameFile(y) /\ lock'[y].written = lock[y].written
         /\ \A y \in Path : lock'[y] # lock[y] => lock'[y].lost # "no"
         /\ \/ Idle(p) /\ UNCHANGED <<lock, leases>>
            \/ /\ Idle(p)
               /\ op[p].why = "undo"
               /\ leases'[p] = leases[p] \ LeasesOn(p, op[p].path)
               /\ \A l \in LeasesOn(p, op[p].path) :
                    l.id = lock[op[p].path].id => lock'[op[p].path].lost # "no"
            \/ /\ UNCHANGED <<lock, leases>>
               /\ op[p].why = "rebind"
               /\ step'[p] = "check"
               /\ op'[p].path = op[p].next /\ op'[p].why = "undo" /\ op'[p].seen = None
  <1> DEFINE x == op[p].path
             o == [NoOp EXCEPT !.path = op[p].next, !.why = "undo"]
             f == [lock[x] EXCEPT !.lost = "heartbeat"]
  <1>1. o.path = op[p].next /\ o.why = "undo" /\ o.seen = None
    BY DEF NoOp
  <1>2. /\ f.id = lock[x].id /\ f.stale = lock[x].stale /\ f.written = lock[x].written
        /\ f.lost = "heartbeat"
    BY DEF TypeOK, Files
  <1>3. /\ step[p] \in {"check", "rm"} /\ p \notin dead /\ Local(p)
        /\ UNCHANGED <<target, made, dead, snatched>>
    BY LocalReleaseFails DEF ReleaseFails, At
  <1>4. CASE op[p].why = "rebind"
    <2>1. op' = [op EXCEPT ![p] = o] /\ Go(p, "check") /\ UNCHANGED <<leases, lock>>
      BY <1>4 DEF ReleaseFails
    <2> HIDE DEF o
    <2> QED BY <1>1, <1>3, <1>4, <2>1 DEF TypeOK, Go, SameFile
  <1>5. CASE op[p].why # "rebind"
    <2>1. Idle(p)
      BY <1>5 DEF TypeOK, ReleaseFails, Go, Refuse, Idle
    <2>2. CASE op[p].why # "undo"
      <3>1. UNCHANGED <<leases, lock>>
        BY <2>2 DEF ReleaseFails
      <3> QED BY <1>3, <2>1, <3>1 DEF SameFile
    <2>3. CASE op[p].why = "undo"
      <3>1. /\ leases' = [leases EXCEPT ![p] = @ \ LeasesOn(p, x)]
            /\ lock' = IF \E l \in LeasesOn(p, x) : l.id = lock[x].id
                        THEN [lock EXCEPT ![x] = f] ELSE lock
        BY <2>3 DEF ReleaseFails
      <3> HIDE DEF f
      <3>2. leases'[p] = leases[p] \ LeasesOn(p, x)
        BY <3>1 DEF TypeOK
      <3>3. lock' = lock \/ lock' = [lock EXCEPT ![x] = f]
        BY <3>1
      <3>4. \A l \in LeasesOn(p, x) : l.id = lock[x].id => lock'[x].lost # "no"
        BY <1>2, <3>1 DEF TypeOK
      <3>5. /\ \A y \in Path : SameFile(y) /\ lock'[y].written = lock[y].written
            /\ \A y \in Path : lock'[y] # lock[y] => lock'[y].lost # "no"
        BY <1>2, <3>3 DEF TypeOK, SameFile
      <3> QED BY <1>3, <2>1, <2>3, <3>2, <3>4, <3>5
    <2> QED BY <2>2, <2>3
  <1> QED BY <1>4, <1>5

LEMMA CrashDoes ==
  ASSUME TypeOK, NEW p \in Process, Crash(p)
  PROVE  /\ p \notin dead /\ dead' = dead \cup {p}
         /\ Local(p)
         /\ Idle(p) /\ leases'[p] = {} /\ target'[p] = None
         /\ UNCHANGED <<lock, made, snatched>>
  BY LocalCrash DEF TypeOK, Crash, Refuse, Go, Idle

LEMMA AgeDoes ==
  ASSUME TypeOK, NEW x \in Path, Age(x)
  PROVE  /\ lock[x].id # None /\ ~Beating(lock[x])
         /\ lock'[x].id = lock[x].id /\ lock'[x].written = lock[x].written
         /\ lock'[x].stale /\ lock'[x].lost = lock[x].lost
         /\ \A y \in Path \ {x} : lock'[y] = lock[y]
         /\ UNCHANGED <<step, op, leases, target, made, dead, snatched>>
  BY SMTT(30) DEF TypeOK, Age, Files, Present

-----------------------------------------------------------------------------
(* Every step keeps the invariant *)

\* The step that was taken.
LEMMA Cases ==
  ASSUME Next
  PROVE  \/ \E x \in Path : Age(x)
         \/ \E p \in Process :
              \/ \E x \in Path : Start(p, x) /\ x # target[p]
              \/ Create(p) \/ Write(p) \/ WriteFails(p) \/ ReadHolder(p) \/ Judge(p)
              \/ Remove(p) \/ Close(p) \/ Check(p) \/ RemoveOwn(p)
              \/ ReleaseFails(p) \/ Crash(p)
  BY NoneIsNoId DEF Next, Acquire, Rebind, Acquiring, Releasing

LEMMA NoFileFields == NoFile.id = None /\ ~NoFile.written
  BY DEF NoFile

LEMMA CreatorType ==
  ASSUME NEW id \in Ids
  PROVE  Creator(id) \in Process
  BY DEF Creator, Ids

LEMMA LeaseFields ==
  ASSUME TypeOK, NEW p \in Process, NEW l \in leases[p]
  PROVE  /\ l.path \in Path
         /\ l.id \in Ids
         /\ l.id # None
         /\ l = [path |-> l.path, id |-> l.id]
  BY NoneIsNoId DEF TypeOK, Lease

LEMMA IdStays ==
  ASSUME NEW q \in Process, made'[q] = made[q]
  PROVE  Id(q)' = Id(q)
  BY DEF Id

LEMMA IdGrows ==
  ASSUME TypeOK, NEW q \in Process, made'[q] = made[q] + 1
  PROVE  Id(q)' = <<q, made[q] + 1>>
  BY DEF Id

LEMMA FreshId ==
  ASSUME IInv, NEW p \in Process, NEW id, Known(id)
  PROVE  id # <<p, made[p] + 1>>
  BY CreatorOfId DEF IInv, TypeOK, Known, Creator

LEMMA PathAtWork ==
  ASSUME IInv, NEW p \in Process,
         \/ Create(p) \/ Write(p) \/ WriteFails(p) \/ Remove(p) \/ RemoveOwn(p) \/ ReleaseFails(p)
         \/ ReadHolder(p) \/ Judge(p) \/ Check(p)
  PROVE  op[p].path \in Path
  BY DEF IInv, OpHasPath, Create, Write, WriteFails, Remove, RemoveOwn, ReleaseFails, ReadHolder, Judge, Check, At

\* Writing changes no name in a lock, and only the writer's own file and leases.
LEMMA WriteChanges ==
  ASSUME IInv, NEW p \in Process, Write(p)
  PROVE  /\ op[p].path \in Path /\ dead' = dead /\ Local(p)
         /\ \A y \in Path : lock'[y].id = lock[y].id /\ lock'[y].lost = lock[y].lost
         /\ \A y \in Path :
              lock'[y].written => lock[y].written \/ (y = op[p].path /\ WritesOwnFile(p))
         /\ leases'[p] = leases[p] \cup {[path |-> op[p].path, id |-> Id(p)]}
  <1>1. TypeOK
    BY DEF IInv
  <1>2. op[p].path \in Path
    BY PathAtWork
  <1>3. /\ dead' = dead /\ Local(p)
        /\ leases'[p] = leases[p] \cup {[path |-> op[p].path, id |-> Id(p)]}
    BY <1>1, <1>2, WriteDoes
  <1>4. /\ \A y \in Path \ {op[p].path} : lock'[y] = lock[y]
        /\ lock'[op[p].path].id = lock[op[p].path].id
        /\ lock'[op[p].path].lost = lock[op[p].path].lost
        /\ lock'[op[p].path].written = (lock[op[p].path].written \/ WritesOwnFile(p))
    BY <1>1, <1>2, WriteDoes
  <1>5. ASSUME NEW y \in Path
        PROVE  /\ lock'[y].id = lock[y].id /\ lock'[y].lost = lock[y].lost
               /\ lock'[y].written => lock[y].written \/ (y = op[p].path /\ WritesOwnFile(p))
    <2>1. CASE y = op[p].path
      BY <1>4, <2>1
    <2>2. CASE y # op[p].path
      BY <1>4, <2>2
    <2> QED BY <2>1, <2>2
  <1> QED BY <1>2, <1>3, <1>5

LEMMA IdOf ==
  ASSUME TypeOK, NEW p \in Process
  PROVE  Creator(Id(p)) = p /\ Creator(<<p, made[p] + 1>>) = p /\ Id(p) \in Ids /\ Id(p) # None
  BY CreatorOfId DEF TypeOK, Id

LEMMA OpHasPathStep ==
  ASSUME IInv, TypeOK', Next
  PROVE  OpHasPath'
  <1> USE DEF IInv, TypeOK, OpHasPath, Local, Idle, At, Done, ReasonHolds, ReasonOf, Releases
  <1>1. ASSUME NEW p \in Process, NEW x \in Path, Start(p, x), x # target[p]
        PROVE  OpHasPath'
    BY <1>1, StartDoes DEF NothingElse
  <1>2. ASSUME NEW p \in Process, Create(p)
        PROVE  OpHasPath'
    BY <1>2, PathAtWork, CreateDoes
  <1>3. ASSUME NEW p \in Process, Write(p)
        PROVE  OpHasPath'
    BY <1>3, PathAtWork, WriteDoes
  <1>4. ASSUME NEW p \in Process, WriteFails(p)
        PROVE  OpHasPath'
    BY <1>4, PathAtWork, WriteFailsDoes DEF SameFile
  <1>5. ASSUME NEW p \in Process, ReadHolder(p)
        PROVE  OpHasPath'
    BY <1>5, ReadHolderDoes DEF NothingElse
  <1>6. ASSUME NEW p \in Process, Judge(p)
        PROVE  OpHasPath'
    BY <1>6, JudgeDoes DEF NothingElse
  <1>7. ASSUME NEW p \in Process, Remove(p)
        PROVE  OpHasPath'
    BY <1>7, PathAtWork, RemoveDoes
  <1>8. ASSUME NEW p \in Process, Close(p)
        PROVE  OpHasPath'
    BY <1>8, CloseDoes DEF NothingElse
  <1>9. ASSUME NEW p \in Process, Check(p)
        PROVE  OpHasPath'
    BY <1>9, CheckDoes
  <1>10. ASSUME NEW p \in Process, RemoveOwn(p)
        PROVE  OpHasPath'
    BY <1>10, PathAtWork, RemoveOwnDoes
  <1>11. ASSUME NEW p \in Process, ReleaseFails(p)
        PROVE  OpHasPath'
    BY <1>11, PathAtWork, ReleaseFailsDoes DEF SameFile
  <1>12. ASSUME NEW p \in Process, Crash(p)
        PROVE  OpHasPath'
    BY <1>12, CrashDoes
  <1>13. ASSUME NEW x \in Path, Age(x)
        PROVE  OpHasPath'
    BY <1>13, AgeDoes
  <1> QED BY <1>1, <1>2, <1>3, <1>4, <1>5, <1>6, <1>7, <1>8, <1>9, <1>10, <1>11, <1>12, <1>13, Cases

LEMMA LeaseIsMineStep ==
  ASSUME IInv, TypeOK', Next
  PROVE  LeaseIsMine'
  <1> USE DEF IInv, TypeOK, OpHasPath, LeaseIsMine, Local, Idle, Done, LeasesOn
  <1>1. ASSUME NEW p \in Process, NEW x \in Path, Start(p, x), x # target[p]
        PROVE  LeaseIsMine'
    BY <1>1, StartDoes DEF NothingElse
  <1>2. ASSUME NEW p \in Process, Create(p)
        PROVE  LeaseIsMine'
    BY <1>2, PathAtWork, CreateDoes
  <1>3. ASSUME NEW p \in Process, Write(p)
        PROVE  LeaseIsMine'
    <2> DEFINE new == [path |-> op[p].path, id |-> Id(p)]
    <2>1. Creator(new.id) = p
      BY IdOf
    <2>2. leases'[p] = leases[p] \cup {new}
      BY <1>3, PathAtWork, WriteDoes
    <2> HIDE DEF new
    <2> QED BY <1>3, <2>1, <2>2, PathAtWork, WriteDoes
  <1>4. ASSUME NEW p \in Process, WriteFails(p)
        PROVE  LeaseIsMine'
    BY <1>4, PathAtWork, WriteFailsDoes DEF SameFile
  <1>5. ASSUME NEW p \in Process, ReadHolder(p)
        PROVE  LeaseIsMine'
    BY <1>5, ReadHolderDoes DEF NothingElse
  <1>6. ASSUME NEW p \in Process, Judge(p)
        PROVE  LeaseIsMine'
    BY <1>6, JudgeDoes DEF NothingElse
  <1>7. ASSUME NEW p \in Process, Remove(p)
        PROVE  LeaseIsMine'
    BY <1>7, PathAtWork, RemoveDoes
  <1>8. ASSUME NEW p \in Process, Close(p)
        PROVE  LeaseIsMine'
    BY <1>8, CloseDoes DEF NothingElse
  <1>9. ASSUME NEW p \in Process, Check(p)
        PROVE  LeaseIsMine'
    BY <1>9, CheckDoes
  <1>10. ASSUME NEW p \in Process, RemoveOwn(p)
        PROVE  LeaseIsMine'
    BY <1>10, PathAtWork, RemoveOwnDoes
  <1>11. ASSUME NEW p \in Process, ReleaseFails(p)
        PROVE  LeaseIsMine'
    BY <1>11, PathAtWork, ReleaseFailsDoes DEF SameFile
  <1>12. ASSUME NEW p \in Process, Crash(p)
        PROVE  LeaseIsMine'
    BY <1>12, CrashDoes
  <1>13. ASSUME NEW x \in Path, Age(x)
        PROVE  LeaseIsMine'
    BY <1>13, AgeDoes
  <1> QED BY <1>1, <1>2, <1>3, <1>4, <1>5, <1>6, <1>7, <1>8, <1>9, <1>10, <1>11, <1>12, <1>13, Cases

LEMMA RemovesOwnStep ==
  ASSUME IInv, TypeOK', Next
  PROVE  RemovesOwn'
  <1> USE DEF IInv, TypeOK, LeaseIsMine, RemovesOwn, Local, Idle, Done, LeasesOn, At
  <1>1. ASSUME NEW p \in Process, NEW x \in Path, Start(p, x), x # target[p]
        PROVE  RemovesOwn'
    BY <1>1, StartDoes DEF NothingElse
  <1>2. ASSUME NEW p \in Process, Create(p)
        PROVE  RemovesOwn'
    BY <1>2, PathAtWork, CreateDoes
  <1>3. ASSUME NEW p \in Process, Write(p)
        PROVE  RemovesOwn'
    BY <1>3, PathAtWork, WriteDoes
  <1>4. ASSUME NEW p \in Process, WriteFails(p)
        PROVE  RemovesOwn'
    BY <1>4, PathAtWork, WriteFailsDoes DEF SameFile
  <1>5. ASSUME NEW p \in Process, ReadHolder(p)
        PROVE  RemovesOwn'
    BY <1>5, ReadHolderDoes DEF NothingElse
  <1>6. ASSUME NEW p \in Process, Judge(p)
        PROVE  RemovesOwn'
    BY <1>6, JudgeDoes DEF NothingElse
  <1>7. ASSUME NEW p \in Process, Remove(p)
        PROVE  RemovesOwn'
    BY <1>7, PathAtWork, RemoveDoes
  <1>8. ASSUME NEW p \in Process, Close(p)
        PROVE  RemovesOwn'
    BY <1>8, CloseDoes DEF NothingElse
  <1>9. ASSUME NEW p \in Process, Check(p)
        PROVE  RemovesOwn'
    BY <1>9, CheckDoes DEF OwnLock
  <1>10. ASSUME NEW p \in Process, RemoveOwn(p)
        PROVE  RemovesOwn'
    BY <1>10, PathAtWork, RemoveOwnDoes
  <1>11. ASSUME NEW p \in Process, ReleaseFails(p)
        PROVE  RemovesOwn'
    BY <1>11, PathAtWork, ReleaseFailsDoes DEF SameFile
  <1>12. ASSUME NEW p \in Process, Crash(p)
        PROVE  RemovesOwn'
    BY <1>12, CrashDoes
  <1>13. ASSUME NEW x \in Path, Age(x)
        PROVE  RemovesOwn'
    BY <1>13, AgeDoes
  <1> QED BY <1>1, <1>2, <1>3, <1>4, <1>5, <1>6, <1>7, <1>8, <1>9, <1>10, <1>11, <1>12, <1>13, Cases

LEMMA ReasonHoldsOthers ==
  ASSUME IInv, TypeOK', NEW p \in Process, Local(p)
  PROVE  \A q \in Process \ {p} : ReasonOf(q)'
  BY DEF IInv, ReasonHolds, ReasonOf, Local, Acquires, Releases, LeasesOn, Done

LEMMA ReasonHoldsStep ==
  ASSUME IInv, TypeOK', Next
  PROVE  ReasonHolds'
  <1> USE DEF IInv, TypeOK, ReasonHolds, ReasonOf, Idle, Acquires, Releases, LeasesOn, Done
  <1>1. ASSUME NEW p \in Process, NEW x \in Path, Start(p, x), x # target[p]
        PROVE  ReasonOf(p)' /\ Local(p)
    BY <1>1, StartDoes DEF NothingElse
  <1>2. ASSUME NEW p \in Process, Create(p)
        PROVE  ReasonOf(p)' /\ Local(p)
    BY <1>2, PathAtWork, CreateDoes
  <1>3. ASSUME NEW p \in Process, Write(p)
        PROVE  ReasonOf(p)' /\ Local(p)
    <2> DEFINE new == [path |-> op[p].path, id |-> Id(p)]
    <2>1. new.path = op[p].path
      OBVIOUS
    <2>2. leases'[p] = leases[p] \cup {new}
      BY <1>3, PathAtWork, WriteDoes
    <2> HIDE DEF new
    <2>3. Local(p)
      BY <1>3, PathAtWork, WriteDoes
    <2>4. op[p].path # target[p] /\ op[p].path \in Path
      BY <1>3, PathAtWork, WriteDoes
    <2>5. CASE Idle(p)
      BY <2>3, <2>5, NoOpFields
    <2>6. CASE ~Idle(p)
      <3> HIDE DEF Idle
      <3> QED BY <1>3, <2>1, <2>2, <2>3, <2>4, <2>6, PathAtWork, WriteDoes
    <2> QED BY <2>3, <2>5, <2>6
  <1>4. ASSUME NEW p \in Process, WriteFails(p)
        PROVE  ReasonOf(p)' /\ Local(p)
    BY <1>4, PathAtWork, WriteFailsDoes DEF SameFile
  <1>5. ASSUME NEW p \in Process, ReadHolder(p)
        PROVE  ReasonOf(p)' /\ Local(p)
    BY <1>5, ReadHolderDoes DEF NothingElse
  <1>6. ASSUME NEW p \in Process, Judge(p)
        PROVE  ReasonOf(p)' /\ Local(p)
    BY <1>6, JudgeDoes DEF NothingElse
  <1>7. ASSUME NEW p \in Process, Remove(p)
        PROVE  ReasonOf(p)' /\ Local(p)
    BY <1>7, PathAtWork, RemoveDoes
  <1>8. ASSUME NEW p \in Process, Close(p)
        PROVE  ReasonOf(p)' /\ Local(p)
    BY <1>8, CloseDoes DEF NothingElse
  <1>9. ASSUME NEW p \in Process, Check(p)
        PROVE  ReasonOf(p)' /\ Local(p)
    BY <1>9, CheckDoes
  <1>10. ASSUME NEW p \in Process, RemoveOwn(p)
        PROVE  ReasonOf(p)' /\ Local(p)
    BY <1>10, PathAtWork, RemoveOwnDoes
  <1>11. ASSUME NEW p \in Process, ReleaseFails(p)
        PROVE  ReasonOf(p)' /\ Local(p)
    BY <1>11, PathAtWork, ReleaseFailsDoes DEF SameFile
  <1>12. ASSUME NEW p \in Process, Crash(p)
        PROVE  ReasonOf(p)' /\ Local(p)
    BY <1>12, CrashDoes
  <1>13. ASSUME NEW x \in Path, Age(x)
        PROVE  ReasonHolds'
    BY <1>13, AgeDoes
  <1> HIDE DEF ReasonOf
  <1> QED BY <1>1, <1>2, <1>3, <1>4, <1>5, <1>6, <1>7, <1>8, <1>9, <1>10, <1>11, <1>12, <1>13, Cases, ReasonHoldsOthers

LEMMA TargetHasLeaseStep ==
  ASSUME IInv, TypeOK', Next
  PROVE  TargetHasLease'
  <1> USE DEF IInv, TypeOK, TargetHasLease, ReasonHolds, ReasonOf, Releases, Local, Idle, Done, LeasesOn
  <1>1. ASSUME NEW p \in Process, NEW x \in Path, Start(p, x), x # target[p]
        PROVE  TargetHasLease'
    BY <1>1, StartDoes DEF NothingElse
  <1>2. ASSUME NEW p \in Process, Create(p)
        PROVE  TargetHasLease'
    BY <1>2, PathAtWork, CreateDoes
  <1>3. ASSUME NEW p \in Process, Write(p)
        PROVE  TargetHasLease'
    <2> DEFINE new == [path |-> op[p].path, id |-> Id(p)]
    <2>1. new.path = op[p].path
      OBVIOUS
    <2>2. leases'[p] = leases[p] \cup {new}
      BY <1>3, PathAtWork, WriteDoes
    <2> HIDE DEF new
    <2> QED BY <1>3, <2>1, <2>2, PathAtWork, WriteDoes
  <1>4. ASSUME NEW p \in Process, WriteFails(p)
        PROVE  TargetHasLease'
    BY <1>4, PathAtWork, WriteFailsDoes DEF SameFile
  <1>5. ASSUME NEW p \in Process, ReadHolder(p)
        PROVE  TargetHasLease'
    BY <1>5, ReadHolderDoes DEF NothingElse
  <1>6. ASSUME NEW p \in Process, Judge(p)
        PROVE  TargetHasLease'
    BY <1>6, JudgeDoes DEF NothingElse
  <1>7. ASSUME NEW p \in Process, Remove(p)
        PROVE  TargetHasLease'
    BY <1>7, PathAtWork, RemoveDoes
  <1>8. ASSUME NEW p \in Process, Close(p)
        PROVE  TargetHasLease'
    BY <1>8, CloseDoes DEF NothingElse
  <1>9. ASSUME NEW p \in Process, Check(p)
        PROVE  TargetHasLease'
    BY <1>9, CheckDoes
  <1>10. ASSUME NEW p \in Process, RemoveOwn(p)
        PROVE  TargetHasLease'
    BY <1>10, PathAtWork, RemoveOwnDoes
  <1>11. ASSUME NEW p \in Process, ReleaseFails(p)
        PROVE  TargetHasLease'
    BY <1>11, PathAtWork, ReleaseFailsDoes DEF SameFile
  <1>12. ASSUME NEW p \in Process, Crash(p)
        PROVE  TargetHasLease'
    BY <1>12, CrashDoes
  <1>13. ASSUME NEW x \in Path, Age(x)
        PROVE  TargetHasLease'
    BY <1>13, AgeDoes
  <1> QED BY <1>1, <1>2, <1>3, <1>4, <1>5, <1>6, <1>7, <1>8, <1>9, <1>10, <1>11, <1>12, <1>13, Cases

\* Where the ids of a state come from.
IdsComeFrom ==
  /\ \A q \in Process : made'[q] \in {made[q], made[q] + 1}
  /\ \A x \in Path :
       \/ lock'[x].id \in {None, lock[x].id}
       \/ \E p \in Process : lock'[x].id = <<p, made'[p]>>
  /\ \A q \in Process :
       \/ op'[q].seen \in {None, op[q].seen}
       \/ \E x \in Path : op'[q].seen = lock[x].id

LEMMA IdsAreTraced ==
  ASSUME IInv, TypeOK', Next
  PROVE  IdsComeFrom
  <1> USE DEF IInv, TypeOK, IdsComeFrom, Local, Idle, Done
  <1>1. ASSUME NEW p \in Process, NEW x \in Path, Start(p, x), x # target[p]
        PROVE  IdsComeFrom
    BY <1>1, StartDoes DEF NothingElse
  <1>2. ASSUME NEW p \in Process, Create(p)
        PROVE  IdsComeFrom
    BY <1>2, PathAtWork, CreateDoes, IdGrows
  <1>3. ASSUME NEW p \in Process, Write(p)
        PROVE  IdsComeFrom
    BY <1>3, PathAtWork, WriteDoes, NoOpFields
  <1>4. ASSUME NEW p \in Process, WriteFails(p)
        PROVE  IdsComeFrom
    BY <1>4, PathAtWork, WriteFailsDoes, NoOpFields DEF SameFile
  <1>5. ASSUME NEW p \in Process, ReadHolder(p)
        PROVE  IdsComeFrom
    <2>1. op[p].path \in Path
      BY <1>5, PathAtWork
    <2> QED BY <1>5, <2>1, ReadHolderDoes DEF NothingElse
  <1>6. ASSUME NEW p \in Process, Judge(p)
        PROVE  IdsComeFrom
    <2>1. op[p].path \in Path /\ Judged(p) \in {op[p].seen, lock[op[p].path].id}
      BY <1>6, PathAtWork DEF Judged
    <2> QED BY <1>6, <2>1, JudgeDoes, NoOpFields DEF NothingElse
  <1>7. ASSUME NEW p \in Process, Remove(p)
        PROVE  IdsComeFrom
    BY <1>7, PathAtWork, RemoveDoes, NoFileFields, NoOpFields
  <1>8. ASSUME NEW p \in Process, Close(p)
        PROVE  IdsComeFrom
    BY <1>8, CloseDoes DEF NothingElse
  <1>9. ASSUME NEW p \in Process, Check(p)
        PROVE  IdsComeFrom
    BY <1>9, CheckDoes, PathAtWork, NoOpFields
  <1>10. ASSUME NEW p \in Process, RemoveOwn(p)
        PROVE  IdsComeFrom
    BY <1>10, PathAtWork, RemoveOwnDoes, NoFileFields, NoOpFields
  <1>11. ASSUME NEW p \in Process, ReleaseFails(p)
        PROVE  IdsComeFrom
    BY <1>11, PathAtWork, ReleaseFailsDoes, NoOpFields DEF SameFile
  <1>12. ASSUME NEW p \in Process, Crash(p)
        PROVE  IdsComeFrom
    BY <1>12, CrashDoes, NoOpFields
  <1>13. ASSUME NEW x \in Path, Age(x)
        PROVE  IdsComeFrom
    BY <1>13, AgeDoes
  <1> QED BY <1>1, <1>2, <1>3, <1>4, <1>5, <1>6, <1>7, <1>8, <1>9, <1>10, <1>11, <1>12, <1>13, Cases

LEMMA KnownStays ==
  ASSUME TypeOK, NEW id, Known(id), IdsComeFrom
  PROVE  Known(id)'
  <1>1. CASE id = None
    BY <1>1 DEF Known
  <1>2. CASE id # None
    <2>1. id[1] \in Process /\ id[2] \in Nat
      BY <1>2 DEF Known, Ids
    <2> QED BY <1>2, <2>1 DEF TypeOK, Known, IdsComeFrom
  <1> QED BY <1>1, <1>2

LEMMA IdsAreKnownStep ==
  ASSUME IInv, TypeOK', Next
  PROVE  IdsAreKnown'
  <1>1. IdsComeFrom
    BY IdsAreTraced
  <1>2. ASSUME NEW x \in Path, NEW id, id = lock'[x].id
        PROVE  Known(id)'
    <2>1. CASE id \in {None, lock[x].id}
      <3>1. Known(id)
        BY <2>1 DEF IInv, IdsAreKnown, Known
      <3> QED BY <1>1, <3>1, KnownStays DEF IInv
    <2>2. CASE \E p \in Process : id = <<p, made'[p]>>
      BY <2>2 DEF Known, TypeOK, Ids
    <2> QED BY <1>1, <1>2, <2>1, <2>2 DEF IdsComeFrom
  <1>3. ASSUME NEW q \in Process, NEW id, id = op'[q].seen
        PROVE  Known(id)'
    <2>1. Known(None) /\ Known(op[q].seen) /\ \A x \in Path : Known(lock[x].id)
      BY DEF IInv, IdsAreKnown, Known
    <2>2. Known(id)
      BY <1>1, <1>3, <2>1 DEF IdsComeFrom
    <2> QED BY <1>1, <2>2, KnownStays DEF IInv
  <1>4. \A x \in Path : Known(lock[x].id)'
    BY <1>2
  <1>5. \A q \in Process : Known(op[q].seen)'
    BY <1>3
  <1> QED BY <1>4, <1>5 DEF IdsAreKnown

LEMMA WrittenIsThereStep ==
  ASSUME IInv, TypeOK', Next
  PROVE  WrittenIsThere'
  <1> USE DEF IInv, TypeOK, WrittenIsThere, Present, Local, Idle, Done
  <1>1. ASSUME NEW p \in Process, NEW x \in Path, Start(p, x), x # target[p]
        PROVE  WrittenIsThere'
    BY <1>1, StartDoes DEF NothingElse
  <1>2. ASSUME NEW p \in Process, Create(p)
        PROVE  WrittenIsThere'
    BY <1>2, PathAtWork, CreateDoes
  <1>3. ASSUME NEW p \in Process, Write(p)
        PROVE  WrittenIsThere'
    <2>1. WritesOwnFile(p) => lock[op[p].path].id # None
      BY IdOf DEF WritesOwnFile
    <2>2. \A x \in Path : lock'[x].written => lock[x].written \/ (x = op[p].path /\ WritesOwnFile(p))
      BY <1>3, WriteChanges, Zenon
    <2>3. \A x \in Path : lock'[x].id = lock[x].id
      BY <1>3, WriteChanges, Zenon
    <2> QED BY <2>1, <2>2, <2>3
  <1>4. ASSUME NEW p \in Process, WriteFails(p)
        PROVE  WrittenIsThere'
    <2>1. /\ op[p].path \in Path
          /\ \A x \in Path : lock'[x].id = lock[x].id
          /\ \A x \in Path : lock'[x] # lock[x] => x = op[p].path /\ WritesOwnFile(p)
      <3>1. op[p].path \in Path
        BY <1>4, PathAtWork
      <3> QED BY <1>4, <3>1, WriteFailsDoes DEF SameFile
    <2>2. WritesOwnFile(p) => lock[op[p].path].id # None
      BY IdOf DEF WritesOwnFile
    <2> QED BY <2>1, <2>2
  <1>5. ASSUME NEW p \in Process, ReadHolder(p)
        PROVE  WrittenIsThere'
    BY <1>5, ReadHolderDoes DEF NothingElse
  <1>6. ASSUME NEW p \in Process, Judge(p)
        PROVE  WrittenIsThere'
    BY <1>6, JudgeDoes DEF NothingElse
  <1>7. ASSUME NEW p \in Process, Remove(p)
        PROVE  WrittenIsThere'
    BY <1>7, PathAtWork, RemoveDoes, NoFileFields
  <1>8. ASSUME NEW p \in Process, Close(p)
        PROVE  WrittenIsThere'
    BY <1>8, CloseDoes DEF NothingElse
  <1>9. ASSUME NEW p \in Process, Check(p)
        PROVE  WrittenIsThere'
    BY <1>9, CheckDoes
  <1>10. ASSUME NEW p \in Process, RemoveOwn(p)
        PROVE  WrittenIsThere'
    BY <1>10, PathAtWork, RemoveOwnDoes, NoFileFields
  <1>11. ASSUME NEW p \in Process, ReleaseFails(p)
        PROVE  WrittenIsThere'
    BY <1>11, PathAtWork, ReleaseFailsDoes DEF SameFile
  <1>12. ASSUME NEW p \in Process, Crash(p)
        PROVE  WrittenIsThere'
    BY <1>12, CrashDoes
  <1>13. ASSUME NEW x \in Path, Age(x)
        PROVE  WrittenIsThere'
    BY <1>13, AgeDoes
  <1> QED BY <1>1, <1>2, <1>3, <1>4, <1>5, <1>6, <1>7, <1>8, <1>9, <1>10, <1>11, <1>12, <1>13, Cases

LEMMA LeaseIsOnDiskStep ==
  ASSUME IInv, TypeOK', Next
  PROVE  LeaseIsOnDisk'
  <1> USE DEF IInv, TypeOK, LeaseIsOnDisk, LeaseIsMine, WriterHasFile, JudgedIsOver, RemovesOwn, Local, Idle, Done, LeasesOn, At, WritesOwnFile, Lease, NoFile
  <1>1. ASSUME NEW p \in Process, NEW x \in Path, Start(p, x), x # target[p]
        PROVE  LeaseIsOnDisk'
    BY <1>1, StartDoes DEF NothingElse
  <1>2. ASSUME NEW p \in Process, Create(p)
        PROVE  LeaseIsOnDisk'
    BY <1>2, PathAtWork, CreateDoes, LeaseFields
  <1>3. ASSUME NEW p \in Process, Write(p)
        PROVE  LeaseIsOnDisk'
    BY <1>3, PathAtWork, WriteDoes
  <1>4. ASSUME NEW p \in Process, WriteFails(p)
        PROVE  LeaseIsOnDisk'
    BY <1>4, PathAtWork, WriteFailsDoes DEF SameFile
  <1>5. ASSUME NEW p \in Process, ReadHolder(p)
        PROVE  LeaseIsOnDisk'
    BY <1>5, ReadHolderDoes DEF NothingElse
  <1>6. ASSUME NEW p \in Process, Judge(p)
        PROVE  LeaseIsOnDisk'
    BY <1>6, JudgeDoes DEF NothingElse
  <1>7. ASSUME NEW p \in Process, Remove(p)
        PROVE  LeaseIsOnDisk'
    BY <1>7, PathAtWork, RemoveDoes
  <1>8. ASSUME NEW p \in Process, Close(p)
        PROVE  LeaseIsOnDisk'
    BY <1>8, CloseDoes DEF NothingElse
  <1>9. ASSUME NEW p \in Process, Check(p)
        PROVE  LeaseIsOnDisk'
    BY <1>9, CheckDoes
  <1>10. ASSUME NEW p \in Process, RemoveOwn(p)
        PROVE  LeaseIsOnDisk'
    BY <1>10, PathAtWork, RemoveOwnDoes
  <1>11. ASSUME NEW p \in Process, ReleaseFails(p)
        PROVE  LeaseIsOnDisk'
    BY <1>11, PathAtWork, ReleaseFailsDoes DEF SameFile
  <1>12. ASSUME NEW p \in Process, Crash(p)
        PROVE  LeaseIsOnDisk'
    BY <1>12, CrashDoes
  <1>13. ASSUME NEW x \in Path, Age(x)
        PROVE  LeaseIsOnDisk'
    BY <1>13, AgeDoes, LeaseFields DEF Beating
  <1> QED BY <1>1, <1>2, <1>3, <1>4, <1>5, <1>6, <1>7, <1>8, <1>9, <1>10, <1>11, <1>12, <1>13, Cases

LEMMA WriterHasFileStep ==
  ASSUME IInv, TypeOK', Next
  PROVE  WriterHasFile'
  <1> USE DEF IInv, TypeOK, OpHasPath, WriterHasFile, JudgedIsOver, RemovesOwn, Local, Idle, Done, At
  <1>1. ASSUME NEW p \in Process, NEW x \in Path, Start(p, x), x # target[p]
        PROVE  WriterHasFile'
    BY <1>1, StartDoes, IdStays DEF NothingElse
  <1>2. ASSUME NEW p \in Process, Create(p)
        PROVE  WriterHasFile'
    <2> SUFFICES ASSUME NEW q \in Process, At(q, "write")'
                 PROVE  \/ op'[q].path \in snatched'
                        \/ lock'[op'[q].path].id = Id(q)' /\ ~lock'[op'[q].path].stale
      OBVIOUS
    <2> DEFINE x == op[p].path
    <2>1. CASE q = p
      <3>1. x \in Path
        BY <1>2, PathAtWork
      <3>2. /\ step'[p] = "write" => made'[p] = made[p] + 1 /\ lock'[x].id = <<p, made[p] + 1>>
            /\ step'[p] = "write" => ~lock'[x].stale
            /\ op' = op
        BY <1>2, <3>1, CreateDoes
      <3>3. step'[p] = "write"
        BY <2>1
      <3>4. Id(p)' = <<p, made[p] + 1>>
        BY <3>2, <3>3, IdGrows
      <3> QED BY <2>1, <3>2, <3>3, <3>4
    <2>2. CASE q # p
      <3>1. /\ At(q, "write") /\ op'[q].path = op[q].path /\ Id(q)' = Id(q)
            /\ snatched' = snatched /\ op[q].path \in Path
        BY <1>2, <2>2, PathAtWork, CreateDoes, IdStays
      <3>2. CASE op[q].path \in snatched
        BY <3>1, <3>2
      <3>3. CASE lock[op[q].path].id = Id(q) /\ ~lock[op[q].path].stale
        <4>1. lock[op[q].path].id # None
          BY <3>3, IdOf
        <4>2. lock'[op[q].path] = lock[op[q].path]
          BY <1>2, <3>1, <4>1, PathAtWork, CreateDoes
        <4> QED BY <3>1, <3>3, <4>2
      <3> QED BY <3>1, <3>2, <3>3
    <2> QED BY <2>1, <2>2
  <1>3. ASSUME NEW p \in Process, Write(p)
        PROVE  WriterHasFile'
    BY <1>3, PathAtWork, WriteDoes, IdStays
  <1>4. ASSUME NEW p \in Process, WriteFails(p)
        PROVE  WriterHasFile'
    BY <1>4, PathAtWork, WriteFailsDoes, IdStays DEF SameFile
  <1>5. ASSUME NEW p \in Process, ReadHolder(p)
        PROVE  WriterHasFile'
    BY <1>5, ReadHolderDoes, IdStays DEF NothingElse
  <1>6. ASSUME NEW p \in Process, Judge(p)
        PROVE  WriterHasFile'
    BY <1>6, JudgeDoes, IdStays DEF NothingElse
  <1>7. ASSUME NEW p \in Process, Remove(p)
        PROVE  WriterHasFile'
    <2> SUFFICES ASSUME NEW q \in Process, At(q, "write")'
                 PROVE  \/ op'[q].path \in snatched'
                        \/ lock'[op'[q].path].id = Id(q)' /\ ~lock'[op'[q].path].stale
      OBVIOUS
    <2>1. /\ q # p /\ q \notin dead
          /\ At(q, "write") /\ op'[q].path = op[q].path /\ Id(q)' = Id(q)
          /\ snatched \subseteq snatched' /\ op[q].path \in Path
      BY <1>7, PathAtWork, RemoveDoes, IdStays
    <2>2. CASE op[q].path \in snatched
      BY <2>1, <2>2
    <2>3. CASE lock[op[q].path].id = Id(q) /\ ~lock[op[q].path].stale
      <3>1. Id(q) # None /\ Creator(Id(q)) = q
        BY IdOf
      <3>2. op[q].path = op[p].path => op[p].path \in snatched'
        BY <1>7, <2>1, <2>3, <3>1, PathAtWork, RemoveDoes
      <3>3. op[q].path # op[p].path => lock'[op[q].path] = lock[op[q].path]
        BY <1>7, <2>1, PathAtWork, RemoveDoes
      <3> QED BY <2>1, <2>3, <3>2, <3>3
    <2> QED BY <2>1, <2>2, <2>3
  <1>8. ASSUME NEW p \in Process, Close(p)
        PROVE  WriterHasFile'
    BY <1>8, CloseDoes, IdStays DEF NothingElse
  <1>9. ASSUME NEW p \in Process, Check(p)
        PROVE  WriterHasFile'
    BY <1>9, CheckDoes, IdStays
  <1>10. ASSUME NEW p \in Process, RemoveOwn(p)
        PROVE  WriterHasFile'
    <2> SUFFICES ASSUME NEW q \in Process, At(q, "write")'
                 PROVE  \/ op'[q].path \in snatched'
                        \/ lock'[op'[q].path].id = Id(q)' /\ ~lock'[op'[q].path].stale
      OBVIOUS
    <2>1. /\ q # p /\ q \notin dead
          /\ At(q, "write") /\ op'[q].path = op[q].path /\ Id(q)' = Id(q)
          /\ snatched \subseteq snatched' /\ op[q].path \in Path
      BY <1>10, PathAtWork, RemoveOwnDoes, IdStays
    <2>2. CASE op[q].path \in snatched
      BY <2>1, <2>2
    <2>3. CASE lock[op[q].path].id = Id(q) /\ ~lock[op[q].path].stale
      <3>1. Id(q) # None /\ Creator(Id(q)) = q
        BY IdOf
      <3>2. op[q].path = op[p].path => op[p].path \in snatched'
        BY <1>10, <2>1, <2>3, <3>1, PathAtWork, RemoveOwnDoes
      <3>3. op[q].path # op[p].path => lock'[op[q].path] = lock[op[q].path]
        BY <1>10, <2>1, PathAtWork, RemoveOwnDoes
      <3> QED BY <2>1, <2>3, <3>2, <3>3
    <2> QED BY <2>1, <2>2, <2>3
  <1>11. ASSUME NEW p \in Process, ReleaseFails(p)
        PROVE  WriterHasFile'
    BY <1>11, PathAtWork, ReleaseFailsDoes, IdStays DEF SameFile
  <1>12. ASSUME NEW p \in Process, Crash(p)
        PROVE  WriterHasFile'
    BY <1>12, CrashDoes, IdStays
  <1>13. ASSUME NEW x \in Path, Age(x)
        PROVE  WriterHasFile'
    <2> SUFFICES ASSUME NEW q \in Process, At(q, "write")'
                 PROVE  \/ op'[q].path \in snatched'
                        \/ lock'[op'[q].path].id = Id(q)' /\ ~lock'[op'[q].path].stale
      OBVIOUS
    <2>1. /\ q \notin dead /\ step[q] = "write" /\ op'[q].path = op[q].path
          /\ Id(q)' = Id(q) /\ snatched' = snatched /\ op[q].path \in Path
      BY <1>13, AgeDoes, IdStays
    <2>2. lock[x].id # Id(q)
      <3>1. SUFFICES ASSUME lock[x].id = Id(q)
                     PROVE  Beating(lock[x])
        BY <1>13, AgeDoes
      <3>2. Creator(lock[x].id) = q
        BY <3>1, IdOf
      <3> QED BY <2>1, <3>1, <3>2 DEF Beating
    <2> QED BY <1>13, <2>1, <2>2, AgeDoes
  <1> QED BY <1>1, <1>2, <1>3, <1>4, <1>5, <1>6, <1>7, <1>8, <1>9, <1>10, <1>11, <1>12, <1>13, Cases

LEMMA JudgedIsOverStep ==
  ASSUME IInv, TypeOK', Next
  PROVE  JudgedIsOver'
  <1> USE DEF IInv, TypeOK, OpHasPath, JudgedIsOver, Local, Idle, Done, At
  <1>1. ASSUME NEW p \in Process, NEW x \in Path, Start(p, x), x # target[p]
        PROVE  JudgedIsOver'
    BY <1>1, StartDoes DEF NothingElse
  <1>2. ASSUME NEW p \in Process, Create(p)
        PROVE  JudgedIsOver'
    <2>1. \A q \in Process : op[q].seen # <<p, made[p] + 1>>
      BY FreshId DEF IdsAreKnown
    <2> QED BY <1>2, <2>1, PathAtWork, CreateDoes
  <1>3. ASSUME NEW p \in Process, Write(p)
        PROVE  JudgedIsOver'
    BY <1>3, PathAtWork, WriteDoes
  <1>4. ASSUME NEW p \in Process, WriteFails(p)
        PROVE  JudgedIsOver'
    BY <1>4, PathAtWork, WriteFailsDoes DEF SameFile
  <1>5. ASSUME NEW p \in Process, ReadHolder(p)
        PROVE  JudgedIsOver'
    BY <1>5, ReadHolderDoes DEF NothingElse
  <1>6. ASSUME NEW p \in Process, Judge(p)
        PROVE  JudgedIsOver'
    <2>1. Judged(p) # None =>
            \/ Creator(Judged(p)) \in dead
            \/ lock[op[p].path].id = Judged(p) => lock[op[p].path].stale
            \/ ~Reclaimable(p)
      BY DEF Judged, Reclaimable, SameHost
    <2> QED BY <1>6, <2>1, JudgeDoes DEF NothingElse
  <1>7. ASSUME NEW p \in Process, Remove(p)
        PROVE  JudgedIsOver'
    BY <1>7, PathAtWork, RemoveDoes, NoFileFields
  <1>8. ASSUME NEW p \in Process, Close(p)
        PROVE  JudgedIsOver'
    BY <1>8, CloseDoes DEF NothingElse
  <1>9. ASSUME NEW p \in Process, Check(p)
        PROVE  JudgedIsOver'
    BY <1>9, CheckDoes
  <1>10. ASSUME NEW p \in Process, RemoveOwn(p)
        PROVE  JudgedIsOver'
    BY <1>10, PathAtWork, RemoveOwnDoes, NoFileFields
  <1>11. ASSUME NEW p \in Process, ReleaseFails(p)
        PROVE  JudgedIsOver'
    BY <1>11, PathAtWork, ReleaseFailsDoes DEF SameFile
  <1>12. ASSUME NEW p \in Process, Crash(p)
        PROVE  JudgedIsOver'
    BY <1>12, CrashDoes
  <1>13. ASSUME NEW x \in Path, Age(x)
        PROVE  JudgedIsOver'
    BY <1>13, AgeDoes
  <1> QED BY <1>1, <1>2, <1>3, <1>4, <1>5, <1>6, <1>7, <1>8, <1>9, <1>10, <1>11, <1>12, <1>13, Cases

LEMMA LockIsLeasedStep ==
  ASSUME IInv, TypeOK', Next
  PROVE  LockIsLeased'
  <1> USE DEF IInv, TypeOK, LockIsLeased, WrittenIsThere, Present, Local, Idle, Done
  <1>1. ASSUME NEW p \in Process, NEW x \in Path, Start(p, x), x # target[p]
        PROVE  LockIsLeased'
    BY <1>1, StartDoes DEF NothingElse
  <1>2. ASSUME NEW p \in Process, Create(p)
        PROVE  LockIsLeased'
    BY <1>2, PathAtWork, CreateDoes
  <1>3. ASSUME NEW p \in Process, Write(p)
        PROVE  LockIsLeased'
    <2> DEFINE x == op[p].path
               new == [path |-> x, id |-> Id(p)]
    <2>1. /\ x \in Path /\ dead' = dead /\ Local(p)
          /\ \A y \in Path : lock'[y].id = lock[y].id /\ lock'[y].lost = lock[y].lost
          /\ \A y \in Path : lock'[y].written => lock[y].written \/ (y = x /\ WritesOwnFile(p))
          /\ leases'[p] = leases[p] \cup {new}
      BY <1>3, WriteChanges, Zenon
    <2>2. SUFFICES ASSUME NEW y \in Path, lock'[y].written, lock[y].lost = "no",
                          Creator(lock[y].id) \notin dead
                   PROVE  [path |-> y, id |-> lock[y].id] \in leases'[Creator(lock[y].id)]
      BY <2>1
    <2>3. CASE lock[y].written
      <3>1. /\ [path |-> y, id |-> lock[y].id] \in leases[Creator(lock[y].id)]
            /\ Creator(lock[y].id) \in Process
        BY <2>2, <2>3, CreatorType DEF Files
      <3> QED BY <2>1, <3>1
    <2>4. CASE y = x /\ WritesOwnFile(p)
      <3>1. lock[y].id = Id(p) /\ Creator(lock[y].id) = p
        BY <2>4, IdOf DEF WritesOwnFile
      <3>2. new \in leases'[p]
        BY <2>1
      <3> QED BY <2>4, <3>1, <3>2
    <2> QED BY <2>1, <2>2, <2>3, <2>4
  <1>4. ASSUME NEW p \in Process, WriteFails(p)
        PROVE  LockIsLeased'
    BY <1>4, PathAtWork, WriteFailsDoes DEF SameFile
  <1>5. ASSUME NEW p \in Process, ReadHolder(p)
        PROVE  LockIsLeased'
    BY <1>5, ReadHolderDoes DEF NothingElse
  <1>6. ASSUME NEW p \in Process, Judge(p)
        PROVE  LockIsLeased'
    BY <1>6, JudgeDoes DEF NothingElse
  <1>7. ASSUME NEW p \in Process, Remove(p)
        PROVE  LockIsLeased'
    BY <1>7, PathAtWork, RemoveDoes, NoFileFields
  <1>8. ASSUME NEW p \in Process, Close(p)
        PROVE  LockIsLeased'
    BY <1>8, CloseDoes DEF NothingElse
  <1>9. ASSUME NEW p \in Process, Check(p)
        PROVE  LockIsLeased'
    <2>1. CASE OwnLock(p)
      BY <1>9, <2>1, CheckDoes
    <2>2. CASE ~OwnLock(p)
      <3> DEFINE x == op[p].path
      <3>1. lock' = lock /\ x \in Path /\ dead' = dead /\ Local(p)
        BY <1>9, <2>2, PathAtWork, CheckDoes
      <3>2. \A l \in leases[p] : l.path # x => l \in leases'[p]
        BY <1>9, <2>2, CheckDoes DEF LeasesOn
      <3>3. SUFFICES ASSUME NEW y \in Path, lock[y].written, lock[y].lost = "no",
                            Creator(lock[y].id) \notin dead
                     PROVE  [path |-> y, id |-> lock[y].id] \in leases'[Creator(lock[y].id)]
        BY <3>1
      <3> DEFINE l == [path |-> y, id |-> lock[y].id]
      <3>4. /\ l.path = y /\ l.id = lock[y].id
            /\ l \in leases[Creator(lock[y].id)]
            /\ Creator(lock[y].id) \in Process
        BY <3>3, CreatorType DEF Files
      <3> HIDE DEF l
      <3>5. y = x => Creator(lock[y].id) # p
        BY <2>2, <3>3, <3>4 DEF OwnLock, LeasesOn
      <3>6. l \in leases'[Creator(lock[y].id)]
        BY <3>1, <3>2, <3>4, <3>5
      <3> QED BY <3>6 DEF l
    <2> QED BY <2>1, <2>2
  <1>10. ASSUME NEW p \in Process, RemoveOwn(p)
        PROVE  LockIsLeased'
    <2> DEFINE x == op[p].path
    <2>1. /\ ~lock'[x].written /\ x \in Path
          /\ \A y \in Path \ {x} : lock'[y] = lock[y]
          /\ dead' = dead /\ Local(p)
      BY <1>10, PathAtWork, RemoveOwnDoes, NoFileFields
    <2>2. \A l \in leases[p] : l.path # x => l \in leases'[p]
      BY <1>10, PathAtWork, RemoveOwnDoes DEF LeasesOn
    <2>3. SUFFICES ASSUME NEW y \in Path, lock'[y].written, lock[y].lost = "no",
                          Creator(lock[y].id) \notin dead
                   PROVE  [path |-> y, id |-> lock[y].id] \in leases'[Creator(lock[y].id)]
      BY <2>1
    <2>4. y # x /\ lock[y].written /\ lock[y].id \in Ids
      BY <2>1, <2>3 DEF Files
    <2> DEFINE l == [path |-> y, id |-> lock[y].id]
    <2>5. l.path = y /\ l \in leases[Creator(lock[y].id)] /\ Creator(lock[y].id) \in Process
      BY <2>3, <2>4, CreatorType
    <2> HIDE DEF l
    <2>6. l \in leases'[Creator(lock[y].id)]
      BY <2>1, <2>2, <2>4, <2>5
    <2> QED BY <2>6 DEF l
  <1>11. ASSUME NEW p \in Process, ReleaseFails(p)
        PROVE  LockIsLeased'
    <2> DEFINE x == op[p].path
    <2>1. /\ x \in Path /\ dead' = dead /\ Local(p)
          /\ \A y \in Path : lock'[y].id = lock[y].id /\ lock'[y].written = lock[y].written
          /\ \A y \in Path : lock'[y] # lock[y] => lock'[y].lost # "no"
      BY <1>11, PathAtWork, ReleaseFailsDoes DEF SameFile
    <2>2. \/ leases' = leases
          \/ /\ leases'[p] = leases[p] \ LeasesOn(p, x)
             /\ \A l \in LeasesOn(p, x) : l.id = lock[x].id => lock'[x].lost # "no"
      BY <1>11, <2>1, ReleaseFailsDoes
    <2>3. SUFFICES ASSUME NEW y \in Path, lock[y].written, lock'[y].lost = "no",
                          Creator(lock[y].id) \notin dead
                   PROVE  [path |-> y, id |-> lock[y].id] \in leases'[Creator(lock[y].id)]
      BY <2>1
    <2> DEFINE l == [path |-> y, id |-> lock[y].id]
               q == Creator(lock[y].id)
    <2>4. lock[y].lost = "no"
      BY <2>1, <2>3
    <2>5. l.path = y /\ l.id = lock[y].id /\ l \in leases[q] /\ q \in Process
      BY <2>3, <2>4, CreatorType DEF Files
    <2> HIDE DEF l, q
    <2>6. CASE q # p \/ leases' = leases
      BY <2>1, <2>5, <2>6 DEF l, q
    <2>7. CASE q = p /\ leases' # leases
      <3>1. l \notin LeasesOn(p, x)
        BY <2>2, <2>3, <2>5, <2>7 DEF LeasesOn
      <3> QED BY <2>2, <2>5, <2>7, <3>1 DEF l, q
    <2> QED BY <2>6, <2>7 DEF l, q
  <1>12. ASSUME NEW p \in Process, Crash(p)
        PROVE  LockIsLeased'
    <2>1. /\ lock' = lock /\ dead' = dead \cup {p} /\ Local(p)
      BY <1>12, CrashDoes
    <2>2. SUFFICES ASSUME NEW y \in Path, lock[y].written, lock[y].lost = "no",
                          Creator(lock[y].id) \notin dead \cup {p}
                   PROVE  [path |-> y, id |-> lock[y].id] \in leases'[Creator(lock[y].id)]
      BY <2>1
    <2>3. Creator(lock[y].id) \in Process \ {p}
      BY <2>2, CreatorType DEF Files
    <2> QED BY <2>1, <2>2, <2>3
  <1>13. ASSUME NEW x \in Path, Age(x)
        PROVE  LockIsLeased'
    BY <1>13, AgeDoes
  <1> QED BY <1>1, <1>2, <1>3, <1>4, <1>5, <1>6, <1>7, <1>8, <1>9, <1>10, <1>11, <1>12, <1>13, Cases

LEMMA TypeStep ==
  ASSUME IInv, Next
  PROVE  TypeOK'
  <1>1. TypeOK
    BY DEF IInv
  <1>2. ASSUME NEW p \in Process, NEW x \in Path, Start(p, x)
        PROVE  TypeOK'
    BY <1>1, <1>2, TypeStart
  <1>3. ASSUME NEW p \in Process,
               Create(p) \/ Write(p) \/ ReadHolder(p) \/ Judge(p) \/ Remove(p)
        PROVE  TypeOK'
    BY <1>1, <1>3, PathAtWork, TypeCreate, TypeWrite, TypeReadHolder, TypeJudge, TypeRemove
  <1>4. ASSUME NEW p \in Process, Check(p) \/ RemoveOwn(p)
        PROVE  TypeOK'
    BY <1>1, <1>4, PathAtWork, TypeCheck, TypeRemoveOwn
  <1>5. ASSUME NEW p \in Process, WriteFails(p) \/ Close(p) \/ ReleaseFails(p) \/ Crash(p)
        PROVE  TypeOK'
    BY <1>1, <1>5, PathAtWork, TypeWriteFails, TypeClose, TypeReleaseFails, TypeCrash
  <1>6. ASSUME NEW x \in Path, Age(x)
        PROVE  TypeOK'
    BY <1>1, <1>6, TypeAge
  <1> QED BY <1>2, <1>3, <1>4, <1>5, <1>6, Cases

LEMMA InitIInv == Init => IInv
  <1> SUFFICES ASSUME Init
               PROVE  IInv
    OBVIOUS
  <1>1. TypeOK
    BY TypeInit
  <1>2. NoFile.id = None /\ ~NoFile.written /\ NoOp.seen = None
    BY NoFileFields, NoOpFields
  <1> QED BY <1>1, <1>2 DEF Init, IInv, OpHasPath, IdsAreKnown, Known, LeaseIsMine,
            LeaseIsOnDisk, WriterHasFile, JudgedIsOver, RemovesOwn, ReasonHolds,
            ReasonOf, Acquires, Releases, WrittenIsThere, TargetHasLease, LockIsLeased, At

LEMMA StutterIInv ==
  ASSUME IInv, UNCHANGED vars
  PROVE  IInv'
  BY DEF vars, IInv, TypeOK, OpHasPath, IdsAreKnown, Known, LeaseIsMine,
         LeaseIsOnDisk, WriterHasFile, JudgedIsOver, RemovesOwn, ReasonHolds,
         ReasonOf, Acquires, Releases, WrittenIsThere, Present, TargetHasLease,
         LeasesOn, LockIsLeased, At, Id

LEMMA NextIInv ==
  ASSUME IInv, Next
  PROVE  IInv'
  <1>1. TypeOK'
    BY TypeStep
  <1> QED BY <1>1, OpHasPathStep, IdsAreKnownStep, LeaseIsMineStep, LeaseIsOnDiskStep,
            WriterHasFileStep, JudgedIsOverStep, RemovesOwnStep, ReasonHoldsStep,
            WrittenIsThereStep, TargetHasLeaseStep, LockIsLeasedStep DEF IInv

LEMMA Invariance == Spec => []IInv
  <1>1. Init => IInv
    BY InitIInv
  <1>2. IInv /\ [Next]_vars => IInv'
    BY NextIInv, StutterIInv
  <1> QED BY <1>1, <1>2, PTL DEF Spec

-----------------------------------------------------------------------------
(* What follows *)

\* Every variable keeps its type, for all processes, conversations and faults.
THEOREM TypeCorrect == Spec => []TypeOK
  <1>1. IInv => TypeOK
    BY DEF IInv
  <1> QED BY <1>1, Invariance, PTL

\* As long as nobody removed a lock other than the one it had judged, the file
\* of every lease is at its path and young: acquire() and the heartbeat keep
\* what the owner relies on without ever reading its lock again.
THEOREM LeasesAreOnDisk == Spec => []LeaseIsOnDisk
  <1>1. IInv => LeaseIsOnDisk
    BY DEF IInv
  <1> QED BY <1>1, Invariance, PTL

\* Two processes own one conversation only after such a removal: the window
\* between canReclaim() or releaseOwnedLock()'s reading and its rm is the only
\* way to break exclusion.
THEOREM ExclusiveOwnership == Spec => []ExclusiveUnlessSnatched
  <1>1. ASSUME IInv, NEW x \in Path, x \notin snatched, NEW p \in Owners(x), NEW q \in Owners(x)
        PROVE  p = q
    <2>1. /\ p \in Process \ dead /\ q \in Process \ dead
          /\ LeasesOn(p, x) # {} /\ LeasesOn(q, x) # {}
      BY DEF Owners
    <2>2. PICK k \in leases[p] : k.path = x
      BY <2>1 DEF LeasesOn
    <2>3. PICK l \in leases[q] : l.path = x
      BY <2>1 DEF LeasesOn
    <2>4. lock[x].id = k.id /\ lock[x].id = l.id
      BY <1>1, <2>1, <2>2, <2>3 DEF IInv, LeaseIsOnDisk
    <2>5. Creator(k.id) = p /\ Creator(l.id) = q
      BY <2>1, <2>2, <2>3, <1>1 DEF IInv, LeaseIsMine
    <2> QED BY <2>4, <2>5
  <1>2. ASSUME NEW x \in Path, \A p, q \in Owners(x) : p = q
        PROVE  ~(Cardinality(Owners(x)) > 1)
    <2>1. CASE Owners(x) = {}
      BY <2>1, FS_EmptySet
    <2>2. CASE Owners(x) # {}
      <3>1. PICK p \in Owners(x) : Owners(x) = {p}
        BY <1>2, <2>2
      <3>2. Cardinality({p}) = 1
        BY FS_Singleton
      <3> QED BY <3>1, <3>2
    <2> QED BY <2>1, <2>2
  <1>3. IInv => ExclusiveUnlessSnatched
    BY <1>1, <1>2 DEF ExclusiveUnlessSnatched
  <1> QED BY <1>3, Invariance, PTL

\* A session's conversation is its own before, during and after a rebinding,
\* whichever of the rebinding's releases fails.
THEOREM TargetsAreOwned == Spec => []TargetIsOwned
  <1>1. ASSUME IInv, NEW p \in Process, target[p] # None, target[p] \notin snatched
        PROVE  Present(target[p]) /\ Creator(lock[target[p]].id) = p
    <2>1. p \notin dead /\ LeasesOn(p, target[p]) # {}
      BY <1>1 DEF IInv, TargetHasLease
    <2>2. PICK l \in leases[p] : l.path = target[p]
      BY <2>1 DEF LeasesOn
    <2>3. lock[target[p]].id = l.id
      BY <1>1, <2>1, <2>2 DEF IInv, LeaseIsOnDisk
    <2>4. Creator(l.id) = p /\ l.id # None
      BY <1>1, <2>2, LeaseFields DEF IInv, LeaseIsMine
    <2> QED BY <2>3, <2>4 DEF Present
  <1>2. IInv => TargetIsOwned
    BY <1>1 DEF TargetIsOwned
  <1> QED BY <1>2, Invariance, PTL

\* A lock on disk names a dead process or one that can still remove it, unless both
\* releases of a rebinding failed (ownership-binding.ts), or the acquisition that
\* wrote it (conversation-ownership-lease.ts).
THEOREM LocksAreLeased == Spec => []LockIsLeased
  <1>1. IInv => LockIsLeased
    BY DEF IInv
  <1> QED BY <1>1, Invariance, PTL

=============================================================================
