--------------------------- MODULE BackendAdmission ---------------------------
(***************************************************************************)
(* Which backend a new session of the host is assembled by                 *)
(* (RuntimeHostAgentBackendRegistry).  Publishing a backend for an agent   *)
(* makes a generation; replacing, retiring or removing it retires the      *)
(* generation, which is disposed of when the last lease on it is returned. *)
(* A session holds a lease from its creation to its release; a request     *)
(* that names a stored session and no agent asks the catalog of every      *)
(* current generation, and leases all of them while it waits.              *)
(*                                                                         *)
(* A step runs from one await to the next.  Generations are numbered in    *)
(* the order they are published.  Requests that are refused change nothing *)
(* and have no step; sessions of the default backend hold no lease.        *)
(***************************************************************************)
EXTENDS Naturals, Sequences, FiniteSets

CONSTANTS
  Agent,
  Catalogued,     \* agents whose backends come with a catalog of sessions
  Caller,         \* slots of callers of createAssembly and of their sessions
  MaxGenerations, \* bound: backends published
  MaxFaults       \* bound: kinds of operations that fail, once each

ASSUME CatalogAssumption == Catalogued \subseteq Agent
ASSUME CallerAssumption == IsFiniteSet(Caller)
ASSUME BoundsAssumption == MaxGenerations \in Nat

VARIABLES
  current,    \* the generation new sessions of an agent get
  generation,
  caller,
  closing,    \* the attempt to close the registry
  faults,     \* the kinds of operations that have failed
  lost,       \* generations with a lease that nobody will return
  asked       \* generations whose catalog a request that has failed still asks

vars == <<current, generation, caller, closing, faults, lost, asked>>

-----------------------------------------------------------------------------
\* No generation.
Nothing == 0

Generation == DOMAIN generation

\* "there": the disposal has not begun, or has failed.  spoiled: it has failed.
Generations ==
  [agent : Agent, leases : Nat, retired : BOOLEAN, at : {"there", "closing", "gone"},
   spoiled : BOOLEAN]

\* "probing": awaits the catalogs; "flushing": gives its probes back and awaits a
\* disposal; "returning": gives back the rest; "again": asks the catalogs anew;
\* "leaving": the session is being disposed of; "releasing": its release awaits a
\* disposal; "kept": the release failed and may be repeated.
CallerStates ==
  {"idle", "probing", "flushing", "returning", "again", "creating", "open", "leaving",
   "releasing", "kept"}

\* on: the generation leased, or whose disposal is awaited; probes: the ones leased
\* while the catalogs are asked; again: they are asked again.
Callers ==
  [at : CallerStates, on : 0..MaxGenerations, probes : SUBSET (1..MaxGenerations),
   created : BOOLEAN, again : BOOLEAN]

NoCaller == [at |-> "idle", on |-> Nothing, probes |-> {}, created |-> FALSE, again |-> FALSE]

FaultKinds == {"catalog", "creation", "session", "disposal"}

TypeOK ==
  /\ current \in [Agent -> 0..Len(generation)]
  /\ generation \in Seq(Generations)
  /\ caller \in [Caller -> Callers]
  /\ closing \in [at : {"no", "waiting", "failed", "done"}, awaited : SUBSET (1..MaxGenerations),
                  joined : SUBSET (1..MaxGenerations), failed : BOOLEAN]
  /\ faults \subseteq FaultKinds
  /\ lost \subseteq 1..MaxGenerations
  /\ asked \subseteq 1..MaxGenerations

Init ==
  /\ current = [a \in Agent |-> Nothing]
  /\ generation = <<>>
  /\ caller = [c \in Caller |-> NoCaller]
  /\ closing = [at |-> "no", awaited |-> {}, joined |-> {}, failed |-> FALSE]
  /\ faults = {}
  /\ lost = {}
  /\ asked = {}

closed == closing.at # "no"

Fault(kind) ==
  /\ kind \notin faults
  /\ Cardinality(faults) < MaxFaults
  /\ faults' = faults \cup {kind}

\* The generations after some of their leases have been returned.
Returned(G) ==
  [g \in Generation |->
     IF g \in G THEN [generation[g] EXCEPT !.leases = @ - 1] ELSE generation[g]]

\* Those whose last lease is returned with G and that are to be disposed of.
Due(G) == {g \in G : generation[g].retired /\ generation[g].leases = 1}

\* closeController.run(): an attempt under way is joined.
Run(g) == IF g.at = "there" THEN [g EXCEPT !.at = "closing"] ELSE g

-----------------------------------------------------------------------------
(* Publishing *)

\* Mutation: a generation is disposed of when it is retired.
RetireNow(g) == Run([g EXCEPT !.retired = TRUE])

\* A generation nobody leases is disposed of at once.
Retire(g) ==
  LET retired == [g EXCEPT !.retired = TRUE] IN
  IF g.leases = 0 THEN Run(retired) ELSE retired

RetireAll(G) == [g \in Generation |-> IF g \in G THEN Retire(generation[g]) ELSE generation[g]]

Upsert(a) ==
  /\ ~closed
  /\ Len(generation) < MaxGenerations
  /\ generation' = Append(RetireAll({current[a]}),
       [agent |-> a, leases |-> 0, retired |-> FALSE, at |-> "there", spoiled |-> FALSE])
  /\ current' = [current EXCEPT ![a] = Len(generation) + 1]
  /\ UNCHANGED <<caller, closing, faults, lost, asked>>

\* retire() and remove(): they differ in who may publish for the agent next.
Remove(a) ==
  /\ ~closed
  /\ current[a] # Nothing
  /\ generation' = RetireAll({current[a]})
  /\ current' = [current EXCEPT ![a] = Nothing]
  /\ UNCHANGED <<caller, closing, faults, lost, asked>>

\* dispose() of a retirement, called again after a failure.
DisposeAgain(g) ==
  /\ generation[g].retired
  /\ generation[g].leases = 0
  /\ generation[g].at = "there"
  /\ generation' = [generation EXCEPT ![g] = Run(@)]
  /\ UNCHANGED <<current, caller, closing, faults, lost, asked>>

-----------------------------------------------------------------------------
(* createAssembly() *)

Lease(G) ==
  [g \in Generation |->
     IF g \in G THEN [generation[g] EXCEPT !.leases = @ + 1] ELSE generation[g]]

\* A request that names its agent.
Request(c, a) ==
  /\ caller[c].at = "idle"
  /\ ~closed
  /\ current[a] # Nothing
  /\ generation' = Lease({current[a]})
  /\ caller' = [caller EXCEPT ![c] = [NoCaller EXCEPT !.at = "creating", !.on = current[a]]]
  /\ UNCHANGED <<current, closing, faults, lost, asked>>

Candidates == {current[a] : a \in Catalogued} \ {Nothing}

\* Mutation: the catalogs are asked without a lease.
ProbeUnleased(c) ==
  /\ caller[c].at \in {"idle", "again"}
  /\ ~closed
  /\ caller' = [caller EXCEPT ![c] = [NoCaller EXCEPT !.at = "probing", !.probes = Candidates]]
  /\ UNCHANGED <<current, generation, closing, faults, lost, asked>>

\* A request that names a stored session, and every further round of it.
Probe(c) ==
  /\ caller[c].at \in {"idle", "again"}
  /\ ~closed
  /\ generation' = Lease(Candidates)
  /\ caller' = [caller EXCEPT ![c] = [NoCaller EXCEPT !.at = "probing", !.probes = Candidates]]
  /\ UNCHANGED <<current, closing, faults, lost, asked>>

ProbeRefused(c) ==
  /\ caller[c].at = "again"
  /\ closed
  /\ caller' = [caller EXCEPT ![c] = NoCaller]
  /\ UNCHANGED <<current, generation, closing, faults, lost, asked>>

IsCurrent(g) == current[generation[g].agent] = g

\* releaseProbes(): one after the other, up to one whose disposal it has to await.
ReturnProbes(c, G, again) ==
  \/ /\ Due(G) = {}
     /\ generation' = Returned(G)
     /\ caller' = [caller EXCEPT ![c] = [NoCaller EXCEPT !.at = IF again THEN "again" ELSE "idle"]]
  \/ \E g \in Due(G) : \E before \in SUBSET (G \ Due(G)) :
       /\ generation' = [Returned(before \cup {g}) EXCEPT ![g] = Run(@)]
       /\ caller' = [caller EXCEPT ![c] =
            [NoCaller EXCEPT !.at = "flushing", !.on = g, !.probes = G \ (before \cup {g}),
                             !.again = again]]

ReturnMore(c) ==
  /\ caller[c].at = "returning"
  /\ ReturnProbes(c, caller[c].probes, caller[c].again)
  /\ UNCHANGED <<current, closing, faults, lost, asked>>

\* Every catalog has answered.  When a candidate was replaced or retired meanwhile
\* the answers do not count; the one that claims the session keeps its lease; of
\* several none does.
Answered(c) ==
  LET probes == caller[c].probes
      changed == \E g \in probes : ~IsCurrent(g)
  IN
  /\ caller[c].at = "probing"
  /\ \/ ReturnProbes(c, probes, changed)
     \/ /\ ~changed
        /\ \E g \in probes :
             /\ generation' = Returned(probes \ {g})
             /\ caller' = [caller EXCEPT ![c] = [NoCaller EXCEPT !.at = "creating", !.on = g]]
  /\ UNCHANGED <<current, closing, faults, lost, asked>>

\* The first catalog that fails ends the wait: the request returns its leases while
\* the others may not have answered yet.
CatalogFails(c) ==
  /\ caller[c].at = "probing"
  /\ Fault("catalog")
  /\ ReturnProbes(c, caller[c].probes, FALSE)
  /\ \E failed \in caller[c].probes : \E others \in SUBSET (caller[c].probes \ {failed}) :
       asked' = asked \cup others
  /\ UNCHANGED <<current, closing, lost>>

\* A catalog answers a request that has failed: nobody takes the answer.
StrayAnswered(g) ==
  /\ g \in asked
  /\ asked' = asked \ {g}
  /\ UNCHANGED <<current, generation, caller, closing, faults, lost>>

Created(c) ==
  /\ caller[c].at = "creating"
  /\ caller' = [caller EXCEPT ![c] = [@ EXCEPT !.at = "open", !.created = TRUE]]
  /\ UNCHANGED <<current, generation, closing, faults, lost, asked>>

-----------------------------------------------------------------------------
(* The lease of a session *)

\* Mutation: the release of the last lease leaves the disposal to others.
ReleaseOnly(c) ==
  /\ generation' = Returned({caller[c].on})
  /\ caller' = [caller EXCEPT ![c] = NoCaller]

\* release(): the last lease of a retired generation awaits its disposal.
Release(c) ==
  LET g == caller[c].on IN
  IF g \in Due({g})
    THEN /\ generation' = [Returned({g}) EXCEPT ![g] = Run(@)]
         /\ caller' = [caller EXCEPT ![c].at = "releasing"]
    ELSE /\ generation' = Returned({g})
         /\ caller' = [caller EXCEPT ![c] = NoCaller]

CreationFails(c) ==
  /\ caller[c].at = "creating"
  /\ Fault("creation")
  /\ Release(c)
  /\ UNCHANGED <<current, closing, lost, asked>>

Leave(c) ==
  /\ caller[c].at = "open"
  /\ caller' = [caller EXCEPT ![c].at = "leaving"]
  /\ UNCHANGED <<current, generation, closing, faults, lost, asked>>

LeaveFails(c) ==
  /\ caller[c].at = "leaving"
  /\ Fault("session")
  /\ caller' = [caller EXCEPT ![c].at = "open"]
  /\ UNCHANGED <<current, generation, closing, lost, asked>>

Left(c) ==
  /\ caller[c].at = "leaving"
  /\ Release(c)
  /\ UNCHANGED <<current, closing, faults, lost, asked>>

\* A session whose release failed is disposed of again: its lease is returned
\* already, only the disposal is repeated.
LeaveAgain(c) ==
  LET g == caller[c].on IN
  /\ caller[c].at = "kept"
  /\ generation' = [generation EXCEPT ![g] = Run(@)]
  /\ caller' = [caller EXCEPT ![c] =
       IF generation[g].at = "gone" THEN NoCaller ELSE [@ EXCEPT !.at = "releasing"]]
  /\ UNCHANGED <<current, closing, faults, lost, asked>>

-----------------------------------------------------------------------------
(* Disposal *)

Disposed(g) ==
  /\ generation[g].at = "closing"
  /\ generation' = [generation EXCEPT ![g].at = "gone"]
  /\ caller' = [c \in Caller |->
       CASE caller[c].at = "releasing" /\ caller[c].on = g -> NoCaller
         [] caller[c].at = "flushing" /\ caller[c].on = g -> [caller[c] EXCEPT !.at = "returning", !.on = Nothing]
         [] OTHER -> caller[c]]
  /\ closing' = [closing EXCEPT !.joined = @ \ {g}]
  /\ UNCHANGED <<current, faults, lost, asked>>

\* Everybody who awaited it is told.  Who was giving probes back stops there: the
\* leases on the others are never returned.
DisposalFails(g) ==
  LET flushing == {c \in Caller : caller[c].at = "flushing" /\ caller[c].on = g} IN
  /\ generation[g].at = "closing"
  /\ Fault("disposal")
  /\ generation' = [generation EXCEPT ![g].at = "there", ![g].spoiled = TRUE]
  /\ caller' = [c \in Caller |->
       CASE caller[c].at = "releasing" /\ caller[c].on = g /\ caller[c].created ->
              [caller[c] EXCEPT !.at = "kept"]
         [] caller[c].at = "releasing" /\ caller[c].on = g /\ ~caller[c].created -> NoCaller
         [] c \in flushing -> NoCaller
         [] OTHER -> caller[c]]
  /\ closing' = [closing EXCEPT !.joined = @ \ {g}, !.failed = @ \/ g \in closing.joined]
  /\ lost' = lost \cup UNION {caller[c].probes : c \in flushing}
  /\ UNCHANGED <<current, asked>>

\* close(): everything is retired; a call after a failure tries again.
Close ==
  /\ closing.at \in {"no", "failed"}
  /\ generation' = IF closed THEN generation ELSE RetireAll({current[a] : a \in Agent} \ {Nothing})
  /\ current' = [a \in Agent |-> Nothing]
  /\ closing' = [at |-> "waiting", awaited |-> {g \in Generation : generation[g].at # "gone"},
                 joined |-> {}, failed |-> FALSE]
  /\ UNCHANGED <<caller, faults, lost, asked>>

\* Mutation: close() does not wait for the leases.
CloseJoinsLeased(g) ==
  /\ g \in closing.awaited
  /\ closing' = [closing EXCEPT !.awaited = @ \ {g},
                   !.joined = IF generation[g].at = "gone" THEN @ ELSE @ \cup {g}]
  /\ generation' = [generation EXCEPT ![g] = Run(@)]
  /\ UNCHANGED <<current, caller, faults, lost, asked>>

\* Nobody leases the generation any more: close() disposes of it or joins who does.
CloseJoins(g) ==
  /\ g \in closing.awaited
  /\ generation[g].leases = 0
  /\ closing' = [closing EXCEPT !.awaited = @ \ {g},
                   !.joined = IF generation[g].at = "gone" THEN @ ELSE @ \cup {g}]
  /\ generation' = [generation EXCEPT ![g] = Run(@)]
  /\ UNCHANGED <<current, caller, faults, lost, asked>>

CloseEnds ==
  /\ closing.at = "waiting"
  /\ closing.awaited = {} /\ closing.joined = {}
  /\ closing' = [closing EXCEPT !.at = IF closing.failed THEN "failed" ELSE "done"]
  /\ UNCHANGED <<current, generation, caller, faults, lost, asked>>

-----------------------------------------------------------------------------
\* The steps the code takes by itself once it has been called.
Continues(c) ==
  \/ Answered(c) \/ ReturnMore(c) \/ ProbeRefused(c) \/ Created(c) \/ Left(c)
  \/ caller[c].at = "again" /\ Probe(c)

Next ==
  \/ \E a \in Agent : Upsert(a) \/ Remove(a)
  \/ \E c \in Caller :
       \/ \E a \in Agent : Request(c, a)
       \/ caller[c].at = "idle" /\ Probe(c)
       \/ CatalogFails(c) \/ CreationFails(c) \/ Leave(c) \/ LeaveFails(c) \/ LeaveAgain(c)
       \/ Continues(c)
  \/ \E g \in Generation : DisposeAgain(g) \/ Disposed(g) \/ DisposalFails(g) \/ CloseJoins(g)
  \/ \E g \in asked : StrayAnswered(g)
  \/ Close \/ CloseEnds

Spec == Init /\ [][Next]_vars

\* Catalogs, backends and disposals answer; the host disposes of every session of
\* a registry it closes.
FairSpec ==
  /\ Spec
  /\ \A c \in Caller : WF_vars(Continues(c)) /\ WF_vars(closed /\ Leave(c))
  /\ \A g \in 1..MaxGenerations :
       /\ WF_vars(g \in Generation /\ Disposed(g))
       /\ WF_vars(g \in Generation /\ CloseJoins(g))
  /\ WF_vars(CloseEnds)

-----------------------------------------------------------------------------
(* Properties *)

\* A caller has a session on a generation, or leases it to ask its catalog.
Holds(me, g) ==
  \/ g \in me.probes
  \/ me.on = g /\ me.at \in {"creating", "open", "leaving"}

Holders(g) == {c \in Caller : Holds(caller[c], g)}

\* A generation that a session is created by or runs on, or that a request leases
\* to ask its catalog, has every one of them in its count, and is not being disposed
\* of.  A request leases what it asks until all have answered or one has failed.
HeldIsThere ==
  \A g \in Generation :
    /\ g \notin lost => generation[g].leases = Cardinality(Holders(g))
    /\ Holders(g) # {} => generation[g].at = "there"

\* A retired generation whose leases are all returned is disposed of, unless that
\* fails, and close() comes to an end, unless a lease was lost.
RetirementEnds ==
  /\ \A g \in 1..MaxGenerations :
       (g \in Generation /\ generation[g].retired /\ generation[g].leases = 0)
         ~> (g \in Generation /\ (generation[g].at = "gone" \/ generation[g].spoiled))
  /\ closing.at = "waiting" ~> (closing.at # "waiting" \/ lost # {})

-----------------------------------------------------------------------------
(* What one expects of the code and it does not keep, in no run            *)

\* close() comes to an end.
ClosingEnds == closing.at = "waiting" ~> closing.at # "waiting"

\* No generation is disposed of while its catalog is asked, also by a request that
\* has failed on another catalog.
AskedIsThere == \A g \in asked : generation[g].at = "there"
=============================================================================
