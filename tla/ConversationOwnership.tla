------------------------ MODULE ConversationOwnership ------------------------
(***************************************************************************)
(* Which process may write to a conversation: the `.owner.lock' beside its *)
(* file (FileConversationOwnershipManager) and the binding that keeps the  *)
(* lease attached to a session whose conversation is continued in another  *)
(* file (RuntimeOwnershipBinding).                                         *)
(*                                                                         *)
(* Each step is one file operation of one process, so that the processes   *)
(* that race for a lock come between each other's steps.  A lock file is   *)
(* known by who created it and by the how-manieth of its creator's files   *)
(* it is: a write through an open handle reaches the file it was opened on *)
(* and no other.                                                           *)
(*                                                                         *)
(* Processes do not come back to life; a program that is started again is  *)
(* another process.  The age of a file is two values: a heartbeat keeps it *)
(* young, and it becomes stale only when nothing beats for it and nobody   *)
(* is about to write it (heartbeats come four times as often as a lock     *)
(* goes stale, and a file is written as soon as it is created).            *)
(***************************************************************************)
EXTENDS Naturals, FiniteSets

CONSTANTS
  Process,     \* processes that open conversations
  HostOf,      \* the machine of each process
  Path,        \* conversation files
  None,        \* no file, no process, no path
  RaceRetries, \* ACQUIRE_RACE_RETRY_COUNT
  MaxCreates,  \* bound: lock files each process creates
  MaxCrashes   \* bound: processes that die

ASSUME RetriesAssumption == RaceRetries \in Nat \ {0}
ASSUME NoneAssumption == None \notin Process \cup Path \cup (Process \X Nat)

VARIABLES
  lock,     \* the lock file of each path
  step,     \* where each process stands
  op,       \* the acquisition or release it is at
  leases,   \* the leases it believes it has
  target,   \* the path its binding is for
  made,     \* the lock files it has created
  dead,     \* the processes that died
  snatched  \* paths that lost a lock nobody had judged reclaimable

vars == <<lock, step, op, leases, target, made, dead, snatched>>

-----------------------------------------------------------------------------
Ids == Process \X Nat

\* What is left of the lease of a file that its process has lost: "heartbeat", after
\* two releases of a rebinding failed; "nothing", when the acquisition failed.
NoFile == [id |-> None, written |-> FALSE, stale |-> FALSE, lost |-> "no"]

Files == [id : Ids \cup {None}, written : BOOLEAN, stale : BOOLEAN,
          lost : {"no", "heartbeat", "nothing"}]

Lease == [path : Path, id : Ids]

Steps == {"idle", "open", "write", "read", "judge", "remove", "check", "rm"}

\* Why a lease is given back: the session ends, its conversation goes on in
\* another file, or the rebinding to that file failed.
Reasons == {"none", "close", "rebind", "undo"}

Ops == [path : Path \cup {None}, attempt : Nat, seen : Ids \cup {None},
        why : Reasons, next : Path \cup {None}]

NoOp == [path |-> None, attempt |-> 0, seen |-> None, why |-> "none",
         next |-> None]

TypeOK ==
  /\ lock \in [Path -> Files]
  /\ step \in [Process -> Steps]
  /\ op \in [Process -> Ops]
  /\ leases \in [Process -> SUBSET Lease]
  /\ target \in [Process -> Path \cup {None}]
  /\ made \in [Process -> Nat]
  /\ dead \subseteq Process
  /\ snatched \subseteq Path

Init ==
  /\ lock = [x \in Path |-> NoFile]
  /\ step = [p \in Process |-> "idle"]
  /\ op = [p \in Process |-> NoOp]
  /\ leases = [p \in Process |-> {}]
  /\ target = [p \in Process |-> None]
  /\ made = [p \in Process |-> 0]
  /\ dead = {}
  /\ snatched = {}

Present(x) == lock[x].id # None

Creator(id) == id[1]

Id(p) == <<p, made[p]>>

LeasesOn(p, x) == {l \in leases[p] : l.path = x}

Owners(x) == {p \in Process \ dead : LeasesOn(p, x) # {}}

At(p, s) == p \notin dead /\ step[p] = s

Go(p, s) == step' = [step EXCEPT ![p] = s]

\* The acquisition rejects: a first one leaves the process without a lease, a
\* rebinding with the one it had.
Refuse(p) == Go(p, "idle") /\ op' = [op EXCEPT ![p] = NoOp]

-----------------------------------------------------------------------------
(* acquire() *)

Start(p, x) ==
  /\ At(p, "idle")
  /\ made[p] < MaxCreates[p]
  /\ op' = [op EXCEPT ![p] = [NoOp EXCEPT !.path = x]]
  /\ Go(p, "open")
  /\ UNCHANGED <<lock, leases, target, made, dead, snatched>>

\* A session opens a conversation.
Acquire(p, x) == target[p] = None /\ leases[p] = {} /\ Start(p, x)

\* Its conversation is continued in the file x.
Rebind(p, x) == target[p] \notin {None, x} /\ Start(p, x)

Create(p) ==
  LET x == op[p].path IN
  /\ At(p, "open")
  /\ IF Present(x)
       THEN Go(p, "read") /\ UNCHANGED <<lock, made>>
       ELSE /\ made' = [made EXCEPT ![p] = @ + 1]
            /\ lock' = [lock EXCEPT ![x] =
                 [NoFile EXCEPT !.id = <<p, made[p] + 1>>]]
            /\ Go(p, "write")
  /\ UNCHANGED <<op, leases, target, dead, snatched>>

WritesOwnFile(p) == lock[op[p].path].id = Id(p)

\* The first lease is bound; with a lease for the target in hand, rebind()
\* gives the source's back.
Write(p) ==
  LET x == op[p].path IN
  /\ At(p, "write")
  /\ lock' = IF WritesOwnFile(p) THEN [lock EXCEPT ![x].written = TRUE] ELSE lock
  /\ leases' = [leases EXCEPT ![p] = @ \cup {[path |-> x, id |-> Id(p)]}]
  /\ IF target[p] = None
       THEN /\ target' = [target EXCEPT ![p] = x]
            /\ Refuse(p)
       ELSE /\ op' = [op EXCEPT ![p] = [NoOp EXCEPT
                 !.path = target[p], !.why = "rebind", !.next = x]]
            /\ Go(p, "check")
            /\ UNCHANGED target
  /\ UNCHANGED <<made, dead, snatched>>

\* The file cannot be written and stays behind, empty; or it is written and cannot
\* be closed, and names a holder that has no lease.
WriteFails(p) ==
  /\ At(p, "write")
  /\ Refuse(p)
  /\ \/ UNCHANGED lock
     \/ /\ WritesOwnFile(p)
        /\ lock' = [lock EXCEPT ![op[p].path] = [@ EXCEPT !.written = TRUE, !.lost = "nothing"]]
  /\ UNCHANGED <<leases, target, made, dead, snatched>>

\* Mutation: the path of the lock is kept for its holder.
ReadHolderPath(p) ==
  /\ At(p, "read")
  /\ op' = [op EXCEPT ![p].seen = op[p].path]
  /\ Go(p, "judge")
  /\ UNCHANGED <<lock, leases, target, made, dead, snatched>>

\* readHolder: a file that is gone or still empty names no holder.
ReadHolder(p) ==
  LET f == lock[op[p].path] IN
  /\ At(p, "read")
  /\ op' = [op EXCEPT ![p].seen = IF f.written THEN f.id ELSE None]
  /\ Go(p, "judge")
  /\ UNCHANGED <<lock, leases, target, made, dead, snatched>>

SameHost(p, id) == id # None /\ HostOf[Creator(id)] = HostOf[p]

\* Mutation: whether the holder's process still runs is not asked.
ReclaimableIfLocal(p) ==
  LET f == lock[op[p].path] IN
  IF SameHost(p, op[p].seen) THEN TRUE ELSE f.id = None \/ f.stale

\* Mutation: the age of a lock of another machine is not looked at.
ReclaimableIfForeign(p) ==
  IF SameHost(p, op[p].seen) THEN Creator(op[p].seen) \in dead ELSE TRUE

\* Mutation: a lock of this machine is left to its age, which nobody reads.
ReclaimableByAge(p) ==
  LET f == lock[op[p].path] IN
  ~SameHost(p, op[p].seen) /\ (f.id = None \/ f.stale)

\* canReclaim: a holder on this machine is reclaimed when its process is gone,
\* any other when its lock is old or has disappeared.
Reclaimable(p) ==
  LET f == lock[op[p].path] IN
  IF SameHost(p, op[p].seen)
    THEN Creator(op[p].seen) \in dead
    ELSE f.id = None \/ f.stale

\* What was judged: the holder that was read, or the file whose age was.
Judged(p) == IF SameHost(p, op[p].seen) THEN op[p].seen ELSE lock[op[p].path].id

Judge(p) ==
  /\ At(p, "judge")
  /\ IF Reclaimable(p)
       THEN op' = [op EXCEPT ![p].seen = Judged(p)] /\ Go(p, "remove")
       ELSE Refuse(p)
  /\ UNCHANGED <<lock, leases, target, made, dead, snatched>>

\* rm takes whatever is at the path by now.
Remove(p) ==
  LET x == op[p].path
      attempt == op[p].attempt + 1
  IN
  /\ At(p, "remove")
  /\ lock' = [lock EXCEPT ![x] = NoFile]
  /\ snatched' = IF lock[x].id \in {None, op[p].seen} THEN snatched
                 ELSE snatched \cup {x}
  /\ IF attempt < RaceRetries
       THEN /\ op' = [op EXCEPT ![p].attempt = attempt, ![p].seen = None]
            /\ Go(p, "open")
       ELSE Refuse(p)
  /\ UNCHANGED <<leases, target, made, dead>>

-----------------------------------------------------------------------------
(* release(), for a session that ends and for a binding that moves *)

Close(p) ==
  /\ At(p, "idle")
  /\ target[p] # None
  /\ op' = [op EXCEPT ![p] = [NoOp EXCEPT !.path = target[p], !.why = "close"]]
  /\ Go(p, "check")
  /\ UNCHANGED <<lock, leases, target, made, dead, snatched>>

\* The lease of op's path is given back.
Finish(p) ==
  LET x == op[p].path IN
  /\ leases' = [leases EXCEPT ![p] = @ \ LeasesOn(p, x)]
  /\ target' = CASE op[p].why = "close"  -> [target EXCEPT ![p] = None]
                 [] op[p].why = "rebind" -> [target EXCEPT ![p] = op[p].next]
                 [] OTHER                -> target
  /\ Refuse(p)
  /\ UNCHANGED <<made, dead>>

OwnLock(p) ==
  LET f == lock[op[p].path] IN
  f.written /\ \E l \in LeasesOn(p, op[p].path) : l.id = f.id

Check(p) ==
  /\ At(p, "check")
  /\ IF OwnLock(p)
       THEN /\ op' = [op EXCEPT ![p].seen = lock[op[p].path].id]
            /\ Go(p, "rm")
            /\ UNCHANGED <<leases, target, made, dead>>
       ELSE Finish(p)
  /\ UNCHANGED <<lock, snatched>>

RemoveOwn(p) ==
  LET x == op[p].path IN
  /\ At(p, "rm")
  /\ lock' = [lock EXCEPT ![x] = NoFile]
  /\ snatched' = IF lock[x].id \in {None, op[p].seen} THEN snatched
                 ELSE snatched \cup {x}
  /\ Finish(p)

\* Mutation: the lease counts as released before its file is removed.
ReleaseFailsForgetting(p) ==
  /\ At(p, "check") \/ At(p, "rm")
  /\ Finish(p)
  /\ UNCHANGED <<lock, snatched>>

\* Mutation: the failed rebinding gives the source's lease back.
ReleaseFailsSwapped(p) ==
  /\ At(p, "check") \/ At(p, "rm")
  /\ IF op[p].why = "rebind"
       THEN /\ op' = [op EXCEPT ![p] = [NoOp EXCEPT !.path = target[p], !.why = "undo"]]
            /\ Go(p, "check")
       ELSE Refuse(p)
  /\ UNCHANGED <<lock, leases, target, made, dead, snatched>>

\* Reading or removing the file fails: an end can be asked for again; a
\* rebinding gives the target's lease back; when that fails too, the target's
\* lease is lost to the process, whose heartbeat keeps its file young.
ReleaseFails(p) ==
  /\ At(p, "check") \/ At(p, "rm")
  /\ IF op[p].why = "rebind"
       THEN /\ op' = [op EXCEPT ![p] = [NoOp EXCEPT !.path = op[p].next, !.why = "undo"]]
            /\ Go(p, "check")
       ELSE Refuse(p)
  /\ IF op[p].why = "undo"
       THEN /\ leases' = [leases EXCEPT ![p] = @ \ LeasesOn(p, op[p].path)]
            /\ lock' = IF \E l \in LeasesOn(p, op[p].path) : l.id = lock[op[p].path].id
                         THEN [lock EXCEPT ![op[p].path].lost = "heartbeat"] ELSE lock
       ELSE UNCHANGED <<leases, lock>>
  /\ UNCHANGED <<target, made, dead, snatched>>

-----------------------------------------------------------------------------
(* The world around *)

\* The process dies; its locks stay.
Crash(p) ==
  /\ p \notin dead
  /\ Cardinality(dead) < MaxCrashes
  /\ dead' = dead \cup {p}
  /\ Refuse(p)
  /\ leases' = [leases EXCEPT ![p] = {}]
  /\ target' = [target EXCEPT ![p] = None]
  /\ UNCHANGED <<lock, made, snatched>>

\* Someone who will touch or write the file soon.
Beating(f) ==
  LET p == Creator(f.id) IN
  /\ p \notin dead
  /\ \/ \E l \in leases[p] : l.id = f.id
     \/ f.lost = "heartbeat"
     \/ step[p] = "write" /\ f.id = Id(p)

Age(x) ==
  /\ Present(x)
  /\ ~lock[x].stale
  /\ ~Beating(lock[x])
  /\ lock' = [lock EXCEPT ![x].stale = TRUE]
  /\ UNCHANGED <<step, op, leases, target, made, dead, snatched>>

Acquiring(p) == Create(p) \/ Write(p) \/ ReadHolder(p) \/ Judge(p) \/ Remove(p)

Releasing(p) == Check(p) \/ RemoveOwn(p)

Next ==
  \/ \E p \in Process :
       \/ \E x \in Path : Acquire(p, x) \/ Rebind(p, x)
       \/ Acquiring(p) \/ WriteFails(p)
       \/ Close(p) \/ Releasing(p) \/ ReleaseFails(p)
       \/ Crash(p)
  \/ \E x \in Path : Age(x)

Spec == Init /\ [][Next]_vars

\* File operations are answered, time passes, and whoever wants a
\* conversation asks for it again.
Fairness ==
  /\ \A p \in Process : WF_vars(Acquiring(p)) /\ WF_vars(Releasing(p))
  /\ \A p \in Process, x \in Path : SF_vars(Acquire(p, x))
  /\ \A x \in Path : WF_vars(Age(x))

FairSpec == Spec /\ Fairness

-----------------------------------------------------------------------------
(* Properties *)

\* A lock that was not snatched belongs to whoever has a lease on it: the file
\* of a living owner is at its path (the lease is checked nowhere else).
LeaseIsOnDisk ==
  \A p \in Process \ dead : \A l \in leases[p] :
    l.path \in snatched \/ (lock[l.path].id = l.id /\ ~lock[l.path].stale)

\* Two processes own a conversation at once only where one of them, or a
\* third, removed a lock other than the one it had judged.
ExclusiveUnlessSnatched ==
  \A x \in Path : Cardinality(Owners(x)) > 1 => x \in snatched

\* "exclusive conversation ownership": no two processes own a conversation.
OneOwner == \A x \in Path : Cardinality(Owners(x)) <= 1

\* The conversation a session is bound to is its own, before, during and after
\* a rebinding, whether that succeeds or fails.
TargetIsOwned ==
  \A p \in Process : target[p] # None =>
    \/ target[p] \in snatched
    \/ Present(target[p]) /\ Creator(lock[target[p]].id) = p

\* A lock that names a living process is one it has a lease to give back with:
\* nobody on its machine could remove it otherwise.  The exceptions are the ones
\* that follow a rebinding both of whose releases failed, and an acquisition that
\* failed with its lock written.
LockIsLeased ==
  \A x \in Path : lock[x].written =>
    LET p == Creator(lock[x].id) IN
    \/ p \in dead
    \/ [path |-> x, id |-> lock[x].id] \in leases[p]
    \/ lock[x].lost # "no"

\* A lock whose owner died does not keep the conversation shut: it is removed,
\* or nobody is left who would ask for it.
LeftBehind(x) == Present(x) /\ Creator(lock[x].id) \in dead

Willing(p) == p \notin dead /\ made[p] < MaxCreates[p] /\ target[p] = None /\ leases[p] = {}

DeadLockIsReclaimed ==
  \A x \in Path : LeftBehind(x) ~> (~LeftBehind(x) \/ \A p \in Process : ~Willing(p))

-----------------------------------------------------------------------------
(* What one expects of the code and it does not keep, in no run            *)

\* No living process leaves a lock behind that it cannot remove.
NoLockIsStranded ==
  \A x \in Path : lock[x].written /\ Creator(lock[x].id) \notin dead =>
    [path |-> x, id |-> lock[x].id] \in leases[Creator(lock[x].id)]
=============================================================================
