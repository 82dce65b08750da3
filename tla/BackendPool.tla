----------------------------- MODULE BackendPool ------------------------------
(***************************************************************************)
(* The desktop's pool of backends (DesktopRuntimeBackendPool): sessions of *)
(* one scope share a composition, compositions of one workspace share a    *)
(* source of MCP tools.  A composition lives as long as a session counted  *)
(* on it, a source as long as a composition counted on it, and the pool's  *)
(* disposal disposes of whatever is left.                                  *)
(*                                                                         *)
(* A step runs from one await to the next.  Compositions and sources are   *)
(* numbered in the order they are asked for; a promise of the code is the  *)
(* number of what it resolves to.  Of a composition the model keeps that   *)
(* disposing of it refuses new sessions at once, waits for the ones under  *)
(* creation and can be repeated; of a session, that RuntimeHost repeats a  *)
(* disposal that failed.                                                   *)
(***************************************************************************)
EXTENDS Naturals, Sequences, FiniteSets

CONSTANTS
  Session,
  Scope,           \* what compositions are kept by
  Key,             \* what sources are kept by
  KeyOf,           \* the key of a scope's source
  MaxCompositions, \* bound: compositions asked for
  MaxSources,      \* bound: sources asked for
  MaxFaults        \* bound: kinds of operations that fail, once each

ASSUME KeyAssumption == KeyOf \in [Scope -> Key]
ASSUME SessionAssumption == IsFiniteSet(Session)
ASSUME BoundsAssumption == MaxCompositions \in Nat /\ MaxSources \in Nat

VARIABLES
  entries,         \* the composition of each scope, promised or there
  resolvedEntries, \* the composition of each scope that is there
  mcpSources,      \* the source of each key, promised or there
  mcpCounts,       \* the compositions counted on it
  composition,
  source,
  session,
  pool,            \* the disposal of the pool
  faults           \* the kinds of operations that have failed

maps == <<entries, resolvedEntries, mcpSources, mcpCounts>>
vars == <<maps, composition, source, session, pool, faults>>

-----------------------------------------------------------------------------
\* No composition, no source.
Nobody == 0

Composition == DOMAIN composition
Source == DOMAIN source

\* "shut": its disposal has begun, it refuses to create sessions.
CompositionStates == {"source", "composing", "open", "shut", "gone", "failed"}

Compositions ==
  [scope : Scope, source : 1..MaxSources, at : CompositionStates, live : Nat]

SourceStates == {"starting", "open", "gone", "failed"}

Sources == [key : Key, at : SourceStates]

\* "leaving": the session itself is being disposed of; "failing": it was not
\* created; "closing", "dropping": its release awaits the disposal of the
\* composition, of the source; "kept": the release failed and is to be repeated.
SessionStates ==
  {"new", "waiting", "creating", "open", "leaving", "failing", "closing",
   "dropping", "kept", "gone", "refused"}

\* created: it was handed to the caller; owned: its release took the composition
\* out of the maps; drops: the source its release disposes of.
Sessions ==
  [at : SessionStates, on : 0..MaxCompositions, created : BOOLEAN, owned : BOOLEAN,
   drops : 0..MaxSources]

NewSession ==
  [at |-> "new", on |-> Nobody, created |-> FALSE, owned |-> FALSE, drops |-> Nobody]

Pools ==
  [at : {"up", "closing", "stuck", "down"}, phase : 0..1,
   compositions : SUBSET (1..MaxCompositions), sources : SUBSET (1..MaxSources),
   left : SUBSET (1..MaxCompositions + MaxSources)]

FaultKinds == {"source", "composition", "creation", "leave", "close", "drop", "clean"}

TypeOK ==
  /\ entries \in [Scope -> 0..Len(composition)]
  /\ resolvedEntries \in [Scope -> 0..Len(composition)]
  /\ mcpSources \in [Key -> 0..Len(source)]
  /\ mcpCounts \in [Key -> Nat]
  /\ composition \in Seq(Compositions)
  /\ source \in Seq(Sources)
  /\ session \in [Session -> Sessions]
  /\ pool \in Pools
  /\ faults \subseteq FaultKinds

Init ==
  /\ entries = [c \in Scope |-> Nobody]
  /\ resolvedEntries = [c \in Scope |-> Nobody]
  /\ mcpSources = [k \in Key |-> Nobody]
  /\ mcpCounts = [k \in Key |-> 0]
  /\ composition = <<>>
  /\ source = <<>>
  /\ session = [s \in Session |-> NewSession]
  /\ pool = [at |-> "up", phase |-> 0, compositions |-> {}, sources |-> {}, left |-> {}]
  /\ faults = {}

disposed == pool.at # "up"

On(e, states) == {s \in Session : session[s].on = e /\ session[s].at \in states}

CompositionOf(s) == composition[session[s].on]

\* Counts never go below zero.
\* Mutation: they may.
OneLessAnyway(n) == n - 1

OneLess(n) == IF n > 0 THEN n - 1 ELSE 0

\* Mutation: one for all who waited.
WaitersOnce(e) == IF On(e, {"waiting"}) = {} THEN 0 ELSE 1

Waiters(e) == Cardinality(On(e, {"waiting"}))

Fault(kind) ==
  /\ kind \notin faults
  /\ Cardinality(faults) < MaxFaults
  /\ faults' = faults \cup {kind}

-----------------------------------------------------------------------------
(* createAssembly: the entry, its source, its composition *)

\* getOrCreateMcpRuntimeSource: the source of a key and the maps after it.
AskForSource(k) ==
  \/ mcpSources[k] # Nobody /\ UNCHANGED <<mcpSources, source>>
  \/ /\ mcpSources[k] = Nobody
     /\ Len(source) < MaxSources
     /\ source' = Append(source, [key |-> k, at |-> "starting"])
     /\ mcpSources' = [mcpSources EXCEPT ![k] = Len(source) + 1]

PrewarmMcp(k) ==
  /\ ~disposed
  /\ mcpSources[k] = Nobody
  /\ AskForSource(k)
  /\ UNCHANGED <<entries, resolvedEntries, mcpCounts, composition, session, pool, faults>>

\* The caller awaits the entry of its scope, which it may have to create.
CreateAssembly(s, c) ==
  /\ session[s].at = "new"
  /\ ~disposed
  /\ \/ /\ entries[c] # Nobody
        /\ UNCHANGED <<entries, mcpSources, source, composition>>
     \/ /\ entries[c] = Nobody
        /\ Len(composition) < MaxCompositions
        /\ AskForSource(KeyOf[c])
        /\ composition' = Append(composition,
             [scope |-> c, source |-> mcpSources'[KeyOf[c]], at |-> "source", live |-> 0])
        /\ entries' = [entries EXCEPT ![c] = Len(composition) + 1]
  /\ session' = [session EXCEPT ![s].at = "waiting", ![s].on = entries'[c]]
  /\ UNCHANGED <<resolvedEntries, mcpCounts, pool, faults>>

SourceStarts(i) ==
  /\ source[i].at = "starting"
  /\ source' = [source EXCEPT ![i].at = "open"]
  /\ UNCHANGED <<maps, composition, session, pool, faults>>

SourceFails(i) ==
  /\ source[i].at = "starting"
  /\ Fault("source")
  /\ source' = [source EXCEPT ![i].at = "failed"]
  /\ mcpSources' = [mcpSources EXCEPT ![source[i].key] = Nobody]
  /\ UNCHANGED <<entries, resolvedEntries, mcpCounts, composition, session, pool>>

\* createEntry goes on when the promise of its source has settled, whatever has
\* become of the source meanwhile.
StartComposing(e) ==
  /\ composition[e].at = "source"
  /\ source[composition[e].source].at \in {"open", "gone"}
  /\ composition' = [composition EXCEPT ![e].at = "composing"]
  /\ UNCHANGED <<maps, source, session, pool, faults>>

\* The source is counted only now.  Whoever awaited the entry goes on in the
\* same run of reactions.
Composed(e) ==
  /\ composition[e].at = "composing"
  /\ LET c == composition[e].scope IN
     /\ resolvedEntries' = [resolvedEntries EXCEPT ![c] = e]
     /\ mcpCounts' = [mcpCounts EXCEPT ![KeyOf[c]] = @ + 1]
  /\ composition' = [composition EXCEPT ![e].at = "open",
       ![e].live = IF disposed THEN 0 ELSE Waiters(e)]
  /\ session' = [s \in Session |->
       IF s \in On(e, {"waiting"})
       THEN [session[s] EXCEPT !.at = IF disposed THEN "refused" ELSE "creating"]
       ELSE session[s]]
  /\ UNCHANGED <<entries, mcpSources, source, pool, faults>>

EntryFails(e) ==
  /\ \/ /\ composition[e].at = "source"
        /\ source[composition[e].source].at = "failed"
        /\ UNCHANGED faults
     \/ composition[e].at = "composing" /\ Fault("composition")
  /\ composition' = [composition EXCEPT ![e].at = "failed"]
  /\ entries' = [entries EXCEPT ![composition[e].scope] = Nobody]
  /\ session' = [s \in Session |->
       IF s \in On(e, {"waiting"}) THEN [session[s] EXCEPT !.at = "refused"] ELSE session[s]]
  /\ UNCHANGED <<resolvedEntries, mcpSources, mcpCounts, source, pool>>

\* A caller that found the entry there counts itself one turn of the queue of
\* reactions later; a release may have come between.
Enter(s) ==
  LET e == session[s].on IN
  /\ session[s].at = "waiting"
  /\ composition[e].at \in {"open", "shut", "gone"}
  /\ \/ /\ disposed
        /\ session' = [session EXCEPT ![s].at = "refused"]
        /\ UNCHANGED composition
     \/ /\ ~disposed
        /\ composition' = [composition EXCEPT ![e].live = @ + 1]
        /\ session' = [session EXCEPT
             ![s].at = IF composition[e].at = "open" THEN "creating" ELSE "failing"]
  /\ UNCHANGED <<maps, source, pool, faults>>

Created(s) ==
  /\ session[s].at = "creating"
  /\ session' = [session EXCEPT ![s].at = "open", ![s].created = TRUE]
  /\ UNCHANGED <<maps, composition, source, pool, faults>>

\* Mutation: a session that was not created is not released.
CreationFailsUnreleased(s) ==
  /\ session[s].at = "creating"
  /\ Fault("creation")
  /\ session' = [session EXCEPT ![s].at = "refused"]
  /\ UNCHANGED <<maps, composition, source, pool>>

CreationFails(s) ==
  /\ session[s].at = "creating"
  /\ Fault("creation")
  /\ session' = [session EXCEPT ![s].at = "failing"]
  /\ UNCHANGED <<maps, composition, source, pool>>

-----------------------------------------------------------------------------
(* The release of an assembly *)

\* The host disposes of the session; the pool's release follows.
Dispose(s) ==
  /\ session[s].at = "open"
  /\ session' = [session EXCEPT ![s].at = "leaving"]
  /\ UNCHANGED <<maps, composition, source, pool, faults>>

DisposeFails(s) ==
  /\ session[s].at = "leaving"
  /\ Fault("leave")
  /\ session' = [session EXCEPT ![s].at = "open"]
  /\ UNCHANGED <<maps, composition, source, pool>>

\* What a session becomes when its release has succeeded, and when it has failed:
\* only a session that was handed out is disposed of again.
Over(s) == IF session[s].created THEN "gone" ELSE "refused"
Again(s) == IF session[s].created THEN "kept" ELSE "refused"

\* releaseAssembly up to its first await.  A repeated release comes here again.
Release(s) ==
  LET e == session[s].on
      live == OneLess(composition[e].live)
      owned == resolvedEntries[composition[e].scope] = e
  IN
  /\ session[s].at \in {"leaving", "failing", "kept"}
  /\ \/ /\ disposed
        /\ session' = [session EXCEPT ![s].at = Over(s)]
        /\ UNCHANGED <<maps, composition>>
     \/ /\ ~disposed
        /\ live > 0
        /\ composition' = [composition EXCEPT ![e].live = live]
        /\ session' = [session EXCEPT ![s].at = Over(s)]
        /\ UNCHANGED maps
     \/ /\ ~disposed
        /\ live <= 0
        /\ composition' = [composition EXCEPT ![e].live = live,
                             ![e].at = IF @ = "open" THEN "shut" ELSE @]
        /\ session' = [session EXCEPT ![s].at = "closing", ![s].owned = owned]
        /\ IF owned
           THEN /\ entries' = [entries EXCEPT ![composition[e].scope] = Nobody]
                /\ resolvedEntries' = [resolvedEntries EXCEPT ![composition[e].scope] = Nobody]
                /\ UNCHANGED <<mcpSources, mcpCounts>>
           ELSE UNCHANGED maps
  /\ UNCHANGED <<source, pool, faults>>

\* The composition waits for the sessions it is creating.
Closable(e) == On(e, {"creating"}) = {}

\* The composition is gone; releaseMcpComposition up to its await.
Closed(s) ==
  LET e == session[s].on
      k == KeyOf[composition[e].scope]
      remaining == OneLess(mcpCounts[k])
  IN
  /\ session[s].at = "closing"
  /\ Closable(e)
  /\ composition' = [composition EXCEPT ![e].at = "gone"]
  /\ \/ /\ disposed
        /\ session' = [session EXCEPT ![s].at = Over(s)]
        /\ UNCHANGED <<mcpSources, mcpCounts>>
     \/ /\ ~disposed
        /\ remaining > 0
        /\ mcpCounts' = [mcpCounts EXCEPT ![k] = remaining]
        /\ session' = [session EXCEPT ![s].at = Over(s)]
        /\ UNCHANGED mcpSources
     \/ /\ ~disposed
        /\ remaining <= 0
        /\ mcpCounts' = [mcpCounts EXCEPT ![k] = 0]
        /\ mcpSources' = [mcpSources EXCEPT ![k] = Nobody]
        /\ session' = [session EXCEPT ![s].drops = mcpSources[k],
             ![s].at = IF mcpSources[k] = Nobody THEN Over(s) ELSE "dropping"]
  /\ UNCHANGED <<entries, resolvedEntries, source, pool, faults>>

\* The entry goes back into the maps unless another is there already.
CloseFails(s) ==
  LET e == session[s].on
      c == composition[e].scope
  IN
  /\ session[s].at = "closing"
  /\ Closable(e)
  /\ composition[e].at = "shut"
  /\ Fault("close")
  /\ \/ /\ session[s].owned
        /\ resolvedEntries[c] = Nobody
        /\ entries' = [entries EXCEPT ![c] = e]
        /\ resolvedEntries' = [resolvedEntries EXCEPT ![c] = e]
     \/ /\ ~session[s].owned \/ resolvedEntries[c] # Nobody
        /\ UNCHANGED <<entries, resolvedEntries>>
  /\ session' = [session EXCEPT ![s].at = Again(s)]
  /\ UNCHANGED <<mcpSources, mcpCounts, composition, source, pool>>

Dropped(s) ==
  LET i == session[s].drops IN
  /\ session[s].at = "dropping"
  /\ source[i].at # "starting"
  /\ source' = [source EXCEPT ![i].at = IF @ = "failed" THEN @ ELSE "gone"]
  /\ session' = [session EXCEPT ![s].at = Over(s)]
  /\ UNCHANGED <<maps, composition, pool, faults>>

DropFails(s) ==
  /\ session[s].at = "dropping"
  /\ source[session[s].drops].at = "open"
  /\ Fault("drop")
  /\ session' = [session EXCEPT ![s].at = Again(s)]
  /\ UNCHANGED <<maps, composition, source, pool>>

-----------------------------------------------------------------------------
(* The disposal of the pool *)

\* What the pool has to dispose of: whatever is promised.
\* Mutation: what is there.
ResolvedOnly == {resolvedEntries[c] : c \in Scope} \ {Nobody}

Promised == {entries[c] : c \in Scope} \ {Nobody}

\* The tasks are fixed at the first call; a later call repeats the ones that
\* failed.
DisposePool ==
  /\ \/ /\ ~disposed
        /\ pool' = [at |-> "closing", phase |-> 0, compositions |-> Promised,
                    sources |-> {mcpSources[k] : k \in Key} \ {Nobody}, left |-> Promised]
     \/ /\ pool.at = "stuck"
        /\ pool' = [pool EXCEPT !.at = "closing", !.phase = 0, !.left = pool.compositions]
  /\ UNCHANGED <<maps, composition, source, session, faults>>

\* A task awaits the promise of the entry, then disposes of the composition.
ShutComposition(e) ==
  /\ pool.phase = 0
  /\ e \in pool.left
  /\ composition[e].at = "open"
  /\ composition' = [composition EXCEPT ![e].at = "shut"]
  /\ UNCHANGED <<maps, source, session, pool, faults>>

CleanComposition(e) ==
  /\ pool.phase = 0
  /\ e \in pool.left
  /\ composition[e].at \in {"shut", "gone", "failed"}
  /\ Closable(e)
  /\ composition' = [composition EXCEPT ![e].at = IF @ = "failed" THEN @ ELSE "gone"]
  /\ pool' = [pool EXCEPT !.left = @ \ {e}, !.compositions = @ \ {e}]
  /\ UNCHANGED <<maps, source, session, faults>>

CleanSource(i) ==
  /\ pool.phase = 1
  /\ i \in pool.left
  /\ source[i].at # "starting"
  /\ source' = [source EXCEPT ![i].at = IF @ = "failed" THEN @ ELSE "gone"]
  /\ pool' = [pool EXCEPT !.left = @ \ {i}, !.sources = @ \ {i}]
  /\ UNCHANGED <<maps, composition, session, faults>>

\* A task that fails stays for the next call.
CleanFails(x) ==
  /\ x \in pool.left
  /\ \/ pool.phase = 0 /\ composition[x].at = "shut" /\ Closable(x)
     \/ pool.phase = 1 /\ source[x].at = "open"
  /\ Fault("clean")
  /\ pool' = [pool EXCEPT !.left = @ \ {x}]
  /\ UNCHANGED <<maps, composition, source, session>>

\* The sources follow the compositions, also when some of these failed; with no
\* task left the pool is down and its maps are cleared.
PhaseEnds ==
  /\ pool.at = "closing"
  /\ pool.left = {}
  /\ \/ /\ pool.phase = 0
        /\ pool' = [pool EXCEPT !.phase = 1, !.left = pool.sources]
        /\ UNCHANGED maps
     \/ /\ pool.phase = 1
        /\ pool.compositions \cup pool.sources # {}
        /\ pool' = [pool EXCEPT !.at = "stuck"]
        /\ UNCHANGED maps
     \/ /\ pool.phase = 1
        /\ pool.compositions \cup pool.sources = {}
        /\ pool' = [pool EXCEPT !.at = "down"]
        /\ entries' = [c \in Scope |-> Nobody]
        /\ resolvedEntries' = [c \in Scope |-> Nobody]
        /\ mcpSources' = [k \in Key |-> Nobody]
        /\ mcpCounts' = [k \in Key |-> 0]
  /\ UNCHANGED <<composition, source, session, faults>>

-----------------------------------------------------------------------------
\* A caller that found the entry there is about to go on: only calls and releases
\* whose turn had come already are before it.
Entering == \E s \in Session : session[s].at = "waiting" /\ CompositionOf(s).at \in {"open", "shut", "gone"}

Next ==
  \/ \E s \in Session : (\E c \in Scope : CreateAssembly(s, c)) \/ Enter(s) \/ Release(s)
  \/ ~Entering /\ \E s \in Session :
       \/ Created(s) \/ CreationFails(s)
       \/ Dispose(s) \/ DisposeFails(s)
       \/ Closed(s) \/ CloseFails(s) \/ Dropped(s) \/ DropFails(s)
  \/ ~Entering /\ \E k \in Key : PrewarmMcp(k)
  \/ ~Entering /\ \E i \in Source : SourceStarts(i) \/ SourceFails(i) \/ CleanSource(i)
  \/ ~Entering /\ \E e \in Composition :
       \/ StartComposing(e) \/ Composed(e) \/ EntryFails(e)
       \/ ShutComposition(e) \/ CleanComposition(e)
  \/ ~Entering /\ \E x \in Composition \cup Source : CleanFails(x)
  \/ ~Entering /\ (DisposePool \/ PhaseEnds)

Spec == Init /\ [][Next]_vars

-----------------------------------------------------------------------------
(* Properties *)

\* While the pool is up, a session that is being created, in use or on its way
\* out has its composition: nobody else's release, failed or repeated, shuts it.
InUseIsOpen ==
  ~disposed =>
    \A s \in Session :
      session[s].at \in {"creating", "open", "leaving"} => CompositionOf(s).at = "open"

\* A composition does not outlive its sessions: while the pool is up, an open one
\* has exactly the count of the sessions that will release it, and some.
OpenIsCounted ==
  ~disposed =>
    \A e \in Composition :
      composition[e].at = "open" =>
        /\ composition[e].live = Cardinality(On(e, {"creating", "open", "leaving", "failing"}))
        /\ composition[e].live > 0

\* When the pool is down and no release is under way, everything it ever made has
\* been disposed of; not so when a disposal failed in a release, or when a source
\* that nobody would use failed to start.
Quiet == \A s \in Session : session[s].at \notin {"closing", "dropping"}

EverythingGoes ==
  pool.at = "down" /\ Quiet =>
    /\ "close" \notin faults =>
         \A e \in Composition : composition[e].at \in {"gone", "failed"}
    /\ faults \cap {"drop", "source"} = {} => \A i \in Source : source[i].at \in {"gone", "failed"}

-----------------------------------------------------------------------------
(* A promise of a test of the code that the code does not keep.            *)

\* The tools of an open composition are there.
SourceInUse ==
  ~disposed =>
    \A e \in Composition :
      composition[e].at = "open" => source[composition[e].source].at = "open"
=============================================================================
