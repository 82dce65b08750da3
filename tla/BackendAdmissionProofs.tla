------------------------ MODULE BackendAdmissionProofs ------------------------
(***************************************************************************)
(* Proofs about BackendAdmission, for any agents, callers, bounds and      *)
(* failures: whoever holds a generation is counted, and it is not being    *)
(* disposed of.                                                            *)
(***************************************************************************)
EXTENDS BackendAdmission, FiniteSetTheorems, TLAPS

-----------------------------------------------------------------------------
(* The inductive invariant *)

\* TypeOK, but for what failed requests still ask, which no other variable depends on.
Typed ==
  /\ current \in [Agent -> 0..Len(generation)]
  /\ generation \in Seq(Generations)
  /\ caller \in [Caller -> Callers]
  /\ closing \in [at : {"no", "waiting", "failed", "done"}, awaited : SUBSET (1..MaxGenerations),
                  joined : SUBSET (1..MaxGenerations), failed : BOOLEAN]
  /\ faults \subseteq FaultKinds
  /\ lost \subseteq 1..MaxGenerations

AskedTyped == asked \subseteq 1..MaxGenerations

\* The states in which a caller has, or had, the lease of a session.
Leased == {"creating", "open", "leaving", "releasing", "kept"}

\* A caller refers to generations there are, and to several while it asks catalogs.
Known(me) ==
  /\ me.probes \subseteq Generation
  /\ me.probes # {} => me.at \in {"probing", "flushing", "returning"}
  /\ me.at \in Leased => me.on \in Generation

\* A session whose release began has returned the last lease of a retired generation.
Gave(me) ==
  me.at \in {"releasing", "kept"} =>
    generation[me.on].retired /\ generation[me.on].leases = 0

\* Retired is what is not current, and after close() that is everything.
CurrentIsKept ==
  /\ \A a \in Agent : current[a] # Nothing =>
       generation[current[a]].agent = a /\ ~generation[current[a]].retired
  /\ \A g \in Generation : ~generation[g].retired => IsCurrent(g)
  /\ closed => \A a \in Agent : current[a] = Nothing

\* Only what is retired and unleased is disposed of.
GoesUnleased(g) == generation[g].at # "there" => generation[g].retired /\ generation[g].leases = 0

\* The count is that of the holders; it is too high only when a lease was lost.
Counted(g) ==
  /\ Cardinality(Holders(g)) <= generation[g].leases
  /\ g \notin lost => generation[g].leases = Cardinality(Holders(g))

\* The numbers of generations keep within the types; close() awaits some of them.
Bounded ==
  /\ Len(generation) <= MaxGenerations
  /\ closing.awaited \subseteq Generation
  /\ ~closed => closing.awaited = {}

AdmissionInv ==
  /\ Typed
  /\ Bounded
  /\ \A c \in Caller : Known(caller[c]) /\ Gave(caller[c])
  /\ CurrentIsKept
  /\ \A g \in Generation : GoesUnleased(g) /\ Counted(g)

-----------------------------------------------------------------------------
(* Helpers *)

LEMMA SeqUpdated ==
  ASSUME NEW S, NEW q \in Seq(S), NEW r,
         r = [i \in DOMAIN q |-> r[i]], \A i \in DOMAIN q : r[i] \in S
  PROVE  r \in Seq(S) /\ Len(r) = Len(q) /\ DOMAIN r = DOMAIN q
  <1>1. Len(q) \in Nat /\ DOMAIN q = 1..Len(q)
    OBVIOUS
  <1>2. r \in [1..Len(q) -> S] /\ DOMAIN r = 1..Len(q)
    BY <1>1
  <1>. QED BY <1>1, <1>2

LEMMA SeqExtended ==
  ASSUME NEW S, NEW q \in Seq(S), NEW x \in S
  PROVE  /\ Append(q, x) \in Seq(S)
         /\ Len(Append(q, x)) = Len(q) + 1
         /\ DOMAIN Append(q, x) = DOMAIN q \cup {Len(q) + 1}
         /\ Append(q, x)[Len(q) + 1] = x
         /\ \A i \in DOMAIN q : Append(q, x)[i] = q[i]
  OBVIOUS

\* Generations are numbered from one, and are not more than the bound.
LEMMA Numbers ==
  ASSUME Typed, Bounded
  PROVE  /\ Len(generation) \in Nat
         /\ Generation = 1..Len(generation)
         /\ Generation \subseteq 1..MaxGenerations
         /\ Nothing \notin Generation
         /\ \A g \in Generation : generation[g] \in Generations
         /\ \A a \in Agent : current[a] # Nothing => current[a] \in Generation
  BY BoundsAssumption DEF Typed, Bounded, Generation, Nothing

\* Generations that are all replaced by generations keep their numbers.
LEMMA NumbersKept ==
  ASSUME Typed, generation' = [g \in Generation |-> generation'[g]],
         \A g \in Generation : generation'[g] \in Generations
  PROVE  /\ generation' \in Seq(Generations)
         /\ Len(generation') = Len(generation) /\ Generation' = Generation
  BY SeqUpdated DEF Typed, Generation

\* A generation after an attempt to dispose of it.
Attempted(r, at, spoiled) == [r EXCEPT !.at = at, !.spoiled = spoiled]

LEMMA AttemptedTyped ==
  ASSUME NEW r \in Generations, NEW at \in {"there", "gone"}, NEW spoiled \in BOOLEAN
  PROVE  /\ Attempted(r, at, spoiled) \in Generations
         /\ Attempted(r, at, spoiled).agent = r.agent
         /\ Attempted(r, at, spoiled).leases = r.leases
         /\ Attempted(r, at, spoiled).retired = r.retired
  BY DEF Attempted, Generations

LEMMA RunTyped ==
  ASSUME NEW r \in Generations
  PROVE  /\ Run(r) \in Generations /\ Run(r).agent = r.agent /\ Run(r).leases = r.leases
         /\ Run(r).retired = r.retired
  BY DEF Run, Generations

LEMMA HoldersFinite ==
  ASSUME NEW g
  PROVE  /\ IsFiniteSet(Holders(g)) /\ Cardinality(Holders(g)) \in Nat
         /\ Cardinality(Holders(g)) = 0 <=> Holders(g) = {}
  BY CallerAssumption, FS_Subset, FS_CardinalityType, FS_EmptySet DEF Holders

LEMMA HoldersFiniteNext ==
  ASSUME NEW g
  PROVE  IsFiniteSet(Holders(g)') /\ Cardinality(Holders(g)') \in Nat
  BY CallerAssumption, FS_Subset, FS_CardinalityType DEF Holders

\* A set that gains or loses one element, and its size.
LEMMA OneMore ==
  ASSUME NEW S, NEW T, NEW c, IsFiniteSet(S), c \notin S, T = S \cup {c}
  PROVE  Cardinality(T) = Cardinality(S) + 1
  BY FS_AddElement

LEMMA OneLess ==
  ASSUME NEW S, NEW T, NEW c, IsFiniteSet(S), c \in S, T = S \ {c}
  PROVE  Cardinality(T) = Cardinality(S) - 1 /\ Cardinality(S) >= 1
  <1>1. Cardinality(S) \in Nat /\ Cardinality(S) # 0
    BY FS_CardinalityType, FS_EmptySet
  <1>2. Cardinality(T) = Cardinality(S) - 1
    BY FS_RemoveElement
  <1>. QED BY <1>1, <1>2

\* What one caller does to the count of a generation keeps it right.
LEMMA Recounted ==
  ASSUME Typed, Bounded, NEW c \in Caller, NEW g \in Generation, Counted(g),
         UNCHANGED lost,
         NEW me, caller' = [caller EXCEPT ![c] = me],
         \/ (Holds(caller[c], g) <=> Holds(me, g)) /\ generation'[g].leases = generation[g].leases
         \/ /\ Holds(caller[c], g) /\ ~Holds(me, g)
            /\ generation'[g].leases = generation[g].leases - 1
         \/ /\ ~Holds(caller[c], g) /\ Holds(me, g)
            /\ generation'[g].leases = generation[g].leases + 1
  PROVE  Counted(g)' /\ generation'[g].leases \in Nat
  <1>1. generation[g].leases \in Nat
    BY Numbers DEF Generations
  <1>2. caller'[c] = me /\ \A d \in Caller \ {c} : caller'[d] = caller[d]
    BY DEF Typed
  <1>3. IsFiniteSet(Holders(g)) /\ Cardinality(Holders(g)) \in Nat
    BY HoldersFinite
  <1>4. CASE /\ Holds(caller[c], g) <=> Holds(me, g)
             /\ generation'[g].leases = generation[g].leases
    <2>1. Holders(g)' = Holders(g)
      BY <1>2, <1>4 DEF Holders, Holds
    <2>. QED BY <2>1, <1>1, <1>4 DEF Counted
  <1>5. CASE /\ Holds(caller[c], g) /\ ~Holds(me, g)
             /\ generation'[g].leases = generation[g].leases - 1
    <2>1. Holders(g)' = Holders(g) \ {c} /\ c \in Holders(g)
      BY <1>2, <1>5 DEF Holders, Holds
    <2>2. Cardinality(Holders(g)') = Cardinality(Holders(g)) - 1 /\ Cardinality(Holders(g)) >= 1
      BY <2>1, <1>3, OneLess
    <2>. QED BY <2>2, <1>1, <1>3, <1>5 DEF Counted
  <1>6. CASE /\ ~Holds(caller[c], g) /\ Holds(me, g)
             /\ generation'[g].leases = generation[g].leases + 1
    <2>1. Holders(g)' = Holders(g) \cup {c} /\ c \notin Holders(g)
      BY <1>2, <1>6 DEF Holders, Holds
    <2>2. Cardinality(Holders(g)') = Cardinality(Holders(g)) + 1
      BY <2>1, <1>3, OneMore
    <2>. QED BY <2>2, <1>1, <1>3, <1>6 DEF Counted
  <1>. QED BY <1>4, <1>5, <1>6

-----------------------------------------------------------------------------
(* A step of one caller *)

\* What a step of a caller may do to a generation: count itself in while it is
\* current, count itself out, or begin the disposal of one it leaves to nobody.
Moves(c, me, g) ==
  /\ generation'[g].agent = generation[g].agent
  /\ generation'[g].retired = generation[g].retired
  /\ generation'[g].spoiled = generation[g].spoiled
  /\ \/ (Holds(caller[c], g) <=> Holds(me, g)) /\ generation'[g].leases = generation[g].leases
     \/ /\ Holds(caller[c], g) /\ ~Holds(me, g)
        /\ generation'[g].leases = generation[g].leases - 1
     \/ /\ ~Holds(caller[c], g) /\ Holds(me, g) /\ ~generation[g].retired
        /\ generation'[g].leases = generation[g].leases + 1
  /\ \/ generation'[g].at = generation[g].at
     \/ /\ generation'[g].at = "closing"
        /\ generation[g].retired /\ generation'[g].leases = 0

LEMMA CallerStep ==
  ASSUME AdmissionInv, NEW c \in Caller, NEW me \in Callers,
         caller' = [caller EXCEPT ![c] = me],
         UNCHANGED <<current, closing, lost>>,
         faults' \subseteq FaultKinds,
         generation' = [g \in Generation |-> generation'[g]],
         \A g \in Generation : generation'[g] = [agent |-> generation'[g].agent,
           leases |-> generation'[g].leases, retired |-> generation'[g].retired,
           at |-> generation'[g].at, spoiled |-> generation'[g].spoiled],
         \A g \in Generation : Moves(c, me, g),
         Known(me),
         me.at \in {"releasing", "kept"} =>
           generation[me.on].retired /\ generation'[me.on].leases = 0
  PROVE  AdmissionInv'
  <1>. USE DEF AdmissionInv
  <1>1. \A g \in Generation : Counted(g)' /\ generation'[g].leases \in Nat
    <2>. TAKE g \in Generation
    <2>1. Counted(g) /\ Typed /\ Bounded /\ lost' = lost
      OBVIOUS
    <2>2. Moves(c, me, g)
      OBVIOUS
    <2>. QED BY <2>1, <2>2, Recounted DEF Moves
  <1>2. \A g \in Generation : generation'[g] \in Generations
    <2>. TAKE g \in Generation
    <2>1. generation[g] \in Generations
      BY Numbers
    <2>. QED BY <2>1, <1>1 DEF Moves, Generations
  <1>3. generation' \in Seq(Generations) /\ Len(generation') = Len(generation) /\ Generation' = Generation
    BY <1>2, SeqUpdated DEF Typed, Generation
  <1>4. Typed'
    BY <1>3 DEF Typed
  <1>5. Bounded'
    BY <1>3 DEF Bounded, closed
  <1>6. caller'[c] = me /\ \A d \in Caller \ {c} : caller'[d] = caller[d]
    BY DEF Typed
  <1>7. \A d \in Caller : Known(caller[d])'
    BY <1>3, <1>6 DEF Known
  <1>8. \A d \in Caller : Gave(caller[d])'
    <2>. TAKE d \in Caller
    <2>1. CASE d = c
      BY <2>1, <1>6, <1>3, Numbers DEF Gave, Known, Moves, Leased
    <2>2. CASE d # c
      <3>. SUFFICES ASSUME caller[d].at \in {"releasing", "kept"}
                    PROVE  generation'[caller[d].on].retired /\ generation'[caller[d].on].leases = 0
        BY <2>2, <1>6 DEF Gave
      <3>. DEFINE g == caller[d].on
      <3>1. g \in Generation /\ generation[g].retired /\ generation[g].leases = 0
        BY DEF Gave, Known, Leased
      <3>2. Moves(c, me, g) /\ generation'[g].leases \in Nat
        BY <3>1, <1>1
      <3>. QED BY <3>1, <3>2 DEF Moves
    <2>. QED BY <2>1, <2>2
  <1>9. CurrentIsKept'
    BY <1>3, Numbers DEF CurrentIsKept, Moves, IsCurrent, closed
  <1>10. \A g \in Generation : GoesUnleased(g)'
    <2>. TAKE g \in Generation
    <2>1. GoesUnleased(g) /\ Moves(c, me, g) /\ generation'[g].leases \in Nat /\ generation[g] \in Generations
      BY <1>1, Numbers
    <2>. QED BY <2>1 DEF GoesUnleased, Moves, Generations
  <1>. QED BY <1>1, <1>3, <1>4, <1>5, <1>7, <1>8, <1>9, <1>10
\* A step that changes only the caller, and not what it holds.
LEMMA CallerOnly ==
  ASSUME AdmissionInv, NEW c \in Caller, NEW me \in Callers,
         caller' = [caller EXCEPT ![c] = me],
         UNCHANGED <<current, generation, closing, lost>>,
         faults' \subseteq FaultKinds,
         \A g \in Generation : Holds(caller[c], g) <=> Holds(me, g),
         Known(me), me.at \notin {"releasing", "kept"}
  PROVE  AdmissionInv'
  <1>1. \A g \in Generation : generation[g] \in Generations
    BY Numbers DEF AdmissionInv
  <1>2. generation' = [g \in Generation |-> generation'[g]]
    BY DEF AdmissionInv, Typed, Generation
  <1>3. \A g \in Generation : Moves(c, me, g)
    BY DEF Moves
  <1>. QED BY <1>1, <1>2, <1>3, CallerStep DEF Generations

LEMMA NoCallerTyped ==
  NoCaller \in Callers /\ NoCaller.at = "idle" /\ NoCaller.on = Nothing /\ NoCaller.probes = {}
  <1>1. Nothing \in 0..MaxGenerations
    BY BoundsAssumption DEF Nothing
  <1>2. {} \in SUBSET (1..MaxGenerations) /\ "idle" \in CallerStates /\ FALSE \in BOOLEAN
    BY DEF CallerStates
  <1>. QED BY <1>1, <1>2 DEF NoCaller, Callers

LEMMA IdleHoldsNothing ==
  ASSUME NEW at \in {"idle", "again"}, NEW me, me = [NoCaller EXCEPT !.at = at]
  PROVE  me \in Callers /\ Known(me) /\ me.at = at /\ \A g \in Generation : ~Holds(me, g)
  BY NoCallerTyped DEF Callers, CallerStates, Known, Leased, Holds

LEMMA NoCallerHoldsNothing ==
  Known(NoCaller) /\ \A g \in Generation : ~Holds(NoCaller, g)
  BY NoCallerTyped DEF Known, Leased, Holds

LEMMA FaultTyped ==
  ASSUME AdmissionInv, NEW kind \in FaultKinds, Fault(kind)
  PROVE  faults' \subseteq FaultKinds
  BY DEF AdmissionInv, Typed, Fault

LEMMA CallerOnlySteps ==
  ASSUME AdmissionInv, NEW c \in Caller,
         ProbeRefused(c) \/ Created(c) \/ Leave(c) \/ LeaveFails(c)
  PROVE  AdmissionInv'
  <1>1. caller[c] \in Callers /\ Known(caller[c]) /\ faults \subseteq FaultKinds
    BY DEF AdmissionInv, Typed
  <1>2. CASE ProbeRefused(c)
    <2>2. \A g \in Generation : ~Holds(caller[c], g)
      BY <1>1, <1>2 DEF ProbeRefused, Holds, Known
    <2>. QED BY <1>1, <1>2, <2>2, NoCallerTyped, NoCallerHoldsNothing, CallerOnly DEF ProbeRefused
  <1>3. CASE Created(c)
    <2>. DEFINE me == [caller[c] EXCEPT !.at = "open", !.created = TRUE]
    <2>1. me \in Callers /\ Known(me) /\ me.at = "open" /\ \A g \in Generation : Holds(caller[c], g) <=> Holds(me, g)
      BY <1>1, <1>3 DEF Created, Callers, CallerStates, Known, Leased, Holds
    <2>. QED BY <1>1, <1>3, <2>1, CallerOnly DEF Created
  <1>4. CASE Leave(c)
    <2>. DEFINE me == [caller[c] EXCEPT !.at = "leaving"]
    <2>1. me \in Callers /\ Known(me) /\ me.at = "leaving" /\ \A g \in Generation : Holds(caller[c], g) <=> Holds(me, g)
      BY <1>1, <1>4 DEF Leave, Callers, CallerStates, Known, Leased, Holds
    <2>. QED BY <1>1, <1>4, <2>1, CallerOnly DEF Leave
  <1>5. CASE LeaveFails(c)
    <2>. DEFINE me == [caller[c] EXCEPT !.at = "open"]
    <2>1. me \in Callers /\ Known(me) /\ me.at = "open" /\ \A g \in Generation : Holds(caller[c], g) <=> Holds(me, g)
      BY <1>1, <1>5 DEF LeaveFails, Callers, CallerStates, Known, Leased, Holds
    <2>2. faults' \subseteq FaultKinds
      BY <1>5, FaultTyped DEF LeaveFails, FaultKinds
    <2>. QED BY <1>5, <2>1, <2>2, CallerOnly DEF LeaveFails
  <1>. QED BY <1>2, <1>3, <1>4, <1>5

-----------------------------------------------------------------------------
(* Leases that are taken *)

LEMMA RequestStep ==
  ASSUME AdmissionInv, NEW c \in Caller, NEW a \in Agent, Request(c, a)
  PROVE  AdmissionInv'
  <1>. DEFINE k == current[a]
              me == [NoCaller EXCEPT !.at = "creating", !.on = k]
  <1>1. k \in Generation /\ k \in 1..MaxGenerations /\ ~generation[k].retired
    BY Numbers DEF AdmissionInv, Request, CurrentIsKept
  <1>2. me \in Callers /\ Known(me) /\ me.at = "creating" /\ \A g \in Generation : Holds(me, g) <=> g = k
    <2>1. me = [NoCaller EXCEPT !.at = "creating", !.on = k] /\ k \in 0..MaxGenerations /\ k \in Generation
      BY <1>1, BoundsAssumption
    <2>. HIDE DEF k, me
    <2>2. me \in Callers /\ me.at = "creating" /\ me.on = k /\ me.probes = {}
      BY <2>1, NoCallerTyped DEF Callers, CallerStates
    <2>. QED BY <2>1, <2>2 DEF Known, Leased, Holds
  <1>3. \A g \in Generation : ~Holds(caller[c], g)
    BY DEF AdmissionInv, Known, Request, Holds
  <1>4. \A g \in Generation : generation[g] \in Generations
    BY Numbers DEF AdmissionInv
  <1>5. \A g \in Generation :
          generation'[g] = IF g = k THEN [generation[g] EXCEPT !.leases = @ + 1] ELSE generation[g]
    BY DEF Request, Lease
  <1>6. \A g \in Generation : Moves(c, me, g)
    <2>. SUFFICES ASSUME NEW g \in Generation
                  PROVE  Moves(c, me, g)
      OBVIOUS
    <2>1. CASE g = k
      BY <1>1, <1>2, <1>3, <1>4, <1>5, <2>1 DEF Moves, Generations
    <2>2. CASE g # k
      BY <1>2, <1>3, <1>5, <2>2 DEF Moves
    <2>. QED BY <2>1, <2>2
  <1>7. \A g \in Generation : generation'[g] = [agent |-> generation'[g].agent,
          leases |-> generation'[g].leases, retired |-> generation'[g].retired,
          at |-> generation'[g].at, spoiled |-> generation'[g].spoiled]
    BY <1>4, <1>5 DEF Generations
  <1>8. generation' = [g \in Generation |-> generation'[g]]
    BY DEF Request, Lease
  <1>9. caller' = [caller EXCEPT ![c] = me] /\ UNCHANGED <<current, closing, lost>> /\ faults' \subseteq FaultKinds
    BY DEF Request, AdmissionInv, Typed
  <1>. QED BY <1>2, <1>6, <1>7, <1>8, <1>9, CallerStep

LEMMA CandidatesCurrent ==
  ASSUME AdmissionInv
  PROVE  Candidates \subseteq Generation /\ \A g \in Candidates : ~generation[g].retired
  BY Numbers, CatalogAssumption DEF AdmissionInv, Candidates, CurrentIsKept

LEMMA ProbeStep ==
  ASSUME AdmissionInv, NEW c \in Caller, Probe(c)
  PROVE  AdmissionInv'
  <1>. DEFINE me == [NoCaller EXCEPT !.at = "probing", !.probes = Candidates]
  <1>1. Candidates \subseteq Generation /\ \A g \in Candidates : ~generation[g].retired
    BY CandidatesCurrent
  <1>2. me \in Callers /\ Known(me) /\ me.at = "probing" /\ \A g \in Generation : Holds(me, g) <=> g \in Candidates
    BY <1>1, Numbers, BoundsAssumption, NoCallerTyped
       DEF AdmissionInv, Callers, CallerStates, Known, Leased, Holds
  <1>3. \A g \in Generation : ~Holds(caller[c], g)
    BY DEF AdmissionInv, Known, Probe, Holds
  <1>4. \A g \in Generation : generation[g] \in Generations
    BY Numbers DEF AdmissionInv
  <1>5. \A g \in Generation :
          generation'[g] = IF g \in Candidates THEN [generation[g] EXCEPT !.leases = @ + 1] ELSE generation[g]
    BY DEF Probe, Lease
  <1>6. \A g \in Generation : Moves(c, me, g)
    BY <1>1, <1>2, <1>3, <1>4, <1>5 DEF Moves, Generations
  <1>7. \A g \in Generation : generation'[g] = [agent |-> generation'[g].agent,
          leases |-> generation'[g].leases, retired |-> generation'[g].retired,
          at |-> generation'[g].at, spoiled |-> generation'[g].spoiled]
    BY <1>4, <1>5 DEF Generations
  <1>8. generation' = [g \in Generation |-> generation'[g]]
    BY DEF Probe, Lease
  <1>9. caller' = [caller EXCEPT ![c] = me] /\ UNCHANGED <<current, closing, lost>> /\ faults' \subseteq FaultKinds
    BY DEF Probe, AdmissionInv, Typed
  <1>. QED BY <1>2, <1>6, <1>7, <1>8, <1>9, CallerStep

-----------------------------------------------------------------------------
(* Leases that are returned *)

\* The generations after c has returned the leases of G, and begun the disposal of
\* those in D.
ReturnedBy(c, me, G, D) ==
  /\ \A g \in Generation : generation'[g] =
       [agent |-> generation[g].agent,
        leases |-> IF g \in G THEN generation[g].leases - 1 ELSE generation[g].leases,
        retired |-> generation[g].retired,
        at |-> IF g \in D /\ generation[g].at = "there" THEN "closing" ELSE generation[g].at,
        spoiled |-> generation[g].spoiled]
  /\ generation' = [g \in Generation |-> generation'[g]]
  /\ D \subseteq Due(G)
  /\ \A g \in Generation : g \in G => Holds(caller[c], g)
  /\ \A g \in Generation : Holds(me, g) <=> Holds(caller[c], g) /\ g \notin G

LEMMA ReturnStep ==
  ASSUME AdmissionInv, NEW c \in Caller, NEW me \in Callers, NEW G, NEW D,
         ReturnedBy(c, me, G, D),
         caller' = [caller EXCEPT ![c] = me],
         UNCHANGED <<current, closing, lost>>,
         faults' \subseteq FaultKinds,
         Known(me),
         me.at \in {"releasing", "kept"} =>
           generation[me.on].retired /\ generation'[me.on].leases = 0
  PROVE  AdmissionInv'
  <1>1. \A g \in Generation : generation[g] \in Generations
    BY Numbers DEF AdmissionInv
  <1>2. \A g \in Generation : Moves(c, me, g)
    <2>. TAKE g \in Generation
    <2>1. CASE g \in D
      <3>1. g \in G /\ generation[g].retired /\ generation[g].leases = 1
        BY <2>1 DEF ReturnedBy, Due
      <3>2. /\ generation'[g].agent = generation[g].agent
            /\ generation'[g].retired = generation[g].retired
            /\ generation'[g].spoiled = generation[g].spoiled
            /\ generation'[g].leases = generation[g].leases - 1
            /\ generation'[g].at = IF generation[g].at = "there" THEN "closing" ELSE generation[g].at
        <4>. DEFINE at == IF generation[g].at = "there" THEN "closing" ELSE generation[g].at
        <4>1. generation'[g] = [agent |-> generation[g].agent, leases |-> generation[g].leases - 1,
                retired |-> generation[g].retired, at |-> at, spoiled |-> generation[g].spoiled]
          BY <2>1, <3>1 DEF ReturnedBy
        <4>. HIDE DEF at
        <4>2. /\ generation'[g].agent = generation[g].agent
              /\ generation'[g].retired = generation[g].retired
              /\ generation'[g].spoiled = generation[g].spoiled
              /\ generation'[g].leases = generation[g].leases - 1
              /\ generation'[g].at = at
          BY <4>1
        <4>. QED BY <4>2 DEF at
      <3>3. Holds(caller[c], g) /\ ~Holds(me, g)
        BY <3>1 DEF ReturnedBy
      <3>. QED BY <3>1, <3>2, <3>3 DEF Moves
    <2>2. CASE g \notin D
      BY <2>2, <1>1 DEF Moves, ReturnedBy, Generations
    <2>. QED BY <2>1, <2>2
  <1>3. \A g \in Generation : generation'[g] = [agent |-> generation'[g].agent,
          leases |-> generation'[g].leases, retired |-> generation'[g].retired,
          at |-> generation'[g].at, spoiled |-> generation'[g].spoiled]
    <2>. SUFFICES ASSUME NEW g \in Generation
                  PROVE  generation'[g] = [agent |-> generation'[g].agent,
                           leases |-> generation'[g].leases, retired |-> generation'[g].retired,
                           at |-> generation'[g].at, spoiled |-> generation'[g].spoiled]
      OBVIOUS
    <2>. PICK n, at : generation'[g] = [agent |-> generation[g].agent, leases |-> n,
                        retired |-> generation[g].retired, at |-> at, spoiled |-> generation[g].spoiled]
      BY DEF ReturnedBy
    <2>. QED OBVIOUS
  <1>4. generation' = [g \in Generation |-> generation'[g]]
    BY DEF ReturnedBy
  <1>. QED BY <1>2, <1>3, <1>4, CallerStep

LEMMA ReturnedFields ==
  ASSUME AdmissionInv, NEW G
  PROVE  \A g \in Generation : Returned(G)[g] =
           [agent |-> generation[g].agent,
            leases |-> IF g \in G THEN generation[g].leases - 1 ELSE generation[g].leases,
            retired |-> generation[g].retired, at |-> generation[g].at, spoiled |-> generation[g].spoiled]
  BY Numbers DEF AdmissionInv, Returned, Generations

LEMMA RunFields ==
  ASSUME NEW r \in [agent : Agent, leases : Int, retired : BOOLEAN,
                    at : {"there", "closing", "gone"}, spoiled : BOOLEAN]
  PROVE  Run(r) = [agent |-> r.agent, leases |-> r.leases, retired |-> r.retired,
                   at |-> IF r.at = "there" THEN "closing" ELSE r.at, spoiled |-> r.spoiled]
  BY DEF Run

\* The leases of G, with the disposal of one that nobody leases any more.
LEMMA ReturnedAndRun ==
  ASSUME AdmissionInv, NEW G, NEW k \in Generation,
         generation' = [Returned(G) EXCEPT ![k] = Run(@)]
  PROVE  /\ \A g \in Generation : generation'[g] =
              [agent |-> generation[g].agent,
               leases |-> IF g \in G THEN generation[g].leases - 1 ELSE generation[g].leases,
               retired |-> generation[g].retired,
               at |-> IF g \in {k} /\ generation[g].at = "there" THEN "closing" ELSE generation[g].at,
               spoiled |-> generation[g].spoiled]
         /\ generation' = [g \in Generation |-> generation'[g]]
  <1>1. \A g \in Generation : generation[g] \in Generations
    BY Numbers DEF AdmissionInv
  <1>2. generation' = [g \in Generation |-> IF g = k THEN Run(Returned(G)[g]) ELSE Returned(G)[g]]
    BY DEF Returned
  <1>3. Returned(G)[k] \in [agent : Agent, leases : Int, retired : BOOLEAN,
                            at : {"there", "closing", "gone"}, spoiled : BOOLEAN]
    <2>. DEFINE n == IF k \in G THEN generation[k].leases - 1 ELSE generation[k].leases
    <2>1. Returned(G)[k] = [agent |-> generation[k].agent, leases |-> n,
            retired |-> generation[k].retired, at |-> generation[k].at, spoiled |-> generation[k].spoiled]
      BY ReturnedFields
    <2>2. /\ generation[k].agent \in Agent /\ n \in Int /\ generation[k].retired \in BOOLEAN
          /\ generation[k].at \in {"there", "closing", "gone"} /\ generation[k].spoiled \in BOOLEAN
      BY <1>1 DEF Generations
    <2>. HIDE DEF n
    <2>. QED BY <2>1, <2>2
  <1>4. \A g \in Generation : g # k => generation'[g] = Returned(G)[g]
    BY <1>2
  <1>5. generation'[k] = Run(Returned(G)[k])
    BY <1>2
  <1>6. generation' = [g \in Generation |-> generation'[g]]
    BY <1>2
  <1>7. ASSUME NEW g \in Generation
        PROVE  generation'[g] =
              [agent |-> generation[g].agent,
               leases |-> IF g \in G THEN generation[g].leases - 1 ELSE generation[g].leases,
               retired |-> generation[g].retired,
               at |-> IF g \in {k} /\ generation[g].at = "there" THEN "closing" ELSE generation[g].at,
               spoiled |-> generation[g].spoiled]
    <2>1. CASE g = k
      <3>. DEFINE n == IF k \in G THEN generation[k].leases - 1 ELSE generation[k].leases
      <3>1. Returned(G)[k] = [agent |-> generation[k].agent, leases |-> n,
              retired |-> generation[k].retired, at |-> generation[k].at, spoiled |-> generation[k].spoiled]
        BY ReturnedFields
      <3>2. Run(Returned(G)[k]) = [agent |-> Returned(G)[k].agent, leases |-> Returned(G)[k].leases,
              retired |-> Returned(G)[k].retired,
              at |-> IF Returned(G)[k].at = "there" THEN "closing" ELSE Returned(G)[k].at,
              spoiled |-> Returned(G)[k].spoiled]
        BY <1>3, RunFields
      <3>3. Run(Returned(G)[k]) = [agent |-> generation[k].agent, leases |-> n,
              retired |-> generation[k].retired,
              at |-> IF generation[k].at = "there" THEN "closing" ELSE generation[k].at,
              spoiled |-> generation[k].spoiled]
        <4>. HIDE DEF n
        <4>. QED BY <3>1, <3>2
      <3>. QED BY <2>1, <1>5, <3>3
    <2>2. CASE g # k
      BY <2>2, <1>4, ReturnedFields
    <2>. QED BY <2>1, <2>2
  <1>. QED BY <1>6, <1>7

LEMMA ReturnProbesStep ==
  ASSUME AdmissionInv, NEW c \in Caller, NEW G \in SUBSET Generation, NEW again \in BOOLEAN,
         \A g \in Generation : Holds(caller[c], g) <=> g \in G,
         ReturnProbes(c, G, again),
         UNCHANGED <<current, closing, lost>>, faults' \subseteq FaultKinds
  PROVE  AdmissionInv'
  <1>1. CASE /\ Due(G) = {}
             /\ generation' = Returned(G)
             /\ caller' = [caller EXCEPT ![c] = [NoCaller EXCEPT !.at = IF again THEN "again" ELSE "idle"]]
    <2>. DEFINE me == [NoCaller EXCEPT !.at = IF again THEN "again" ELSE "idle"]
    <2>1. me \in Callers /\ Known(me) /\ me.at \in {"again", "idle"} /\ \A g \in Generation : ~Holds(me, g)
      <3>1. (IF again THEN "again" ELSE "idle") \in {"idle", "again"}
        OBVIOUS
      <3>2. PICK at \in {"idle", "again"} : at = IF again THEN "again" ELSE "idle"
        BY <3>1
      <3>3. me = [NoCaller EXCEPT !.at = at]
        BY <3>2
      <3>. HIDE DEF me
      <3>. QED BY <3>3, IdleHoldsNothing
    <2>2. generation' = [g \in Generation |-> generation'[g]]
      BY <1>1 DEF Returned
    <2>3. \A g \in Generation : generation'[g] =
            [agent |-> generation[g].agent,
             leases |-> IF g \in G THEN generation[g].leases - 1 ELSE generation[g].leases,
             retired |-> generation[g].retired,
             at |-> generation[g].at, spoiled |-> generation[g].spoiled]
      BY <1>1, ReturnedFields
    <2>4. ReturnedBy(c, me, G, {})
      BY <2>1, <2>2, <2>3 DEF ReturnedBy
    <2>. QED BY <1>1, <2>1, <2>4, ReturnStep
  <1>2. ASSUME NEW k \in Due(G), NEW before \in SUBSET (G \ Due(G)),
               generation' = [Returned(before \cup {k}) EXCEPT ![k] = Run(@)],
               caller' = [caller EXCEPT ![c] =
                 [NoCaller EXCEPT !.at = "flushing", !.on = k, !.probes = G \ (before \cup {k}),
                                  !.again = again]]
        PROVE  AdmissionInv'
    <2>. DEFINE me == [NoCaller EXCEPT !.at = "flushing", !.on = k, !.probes = G \ (before \cup {k}),
                                       !.again = again]
                B == before \cup {k}
    <2>1. k \in G /\ k \in Generation /\ generation[k].retired /\ generation[k].leases = 1
      BY DEF Due
    <2>2. me \in Callers
      <3>1. k \in 0..MaxGenerations /\ G \ B \in SUBSET (1..MaxGenerations)
        BY <2>1, Numbers, BoundsAssumption DEF AdmissionInv
      <3>2. me = [NoCaller EXCEPT !.at = "flushing", !.on = k, !.probes = G \ B, !.again = again]
        OBVIOUS
      <3>. HIDE DEF me, B
      <3>. QED BY <3>1, <3>2, NoCallerTyped DEF Callers, CallerStates
    <2>3. Known(me) /\ me.at = "flushing" /\ \A g \in Generation : Holds(me, g) <=> g \in G /\ g \notin B
      BY NoCallerTyped DEF Known, Leased, Holds, Callers
    <2>4. B \subseteq G /\ {k} \subseteq Due(B)
      BY <2>1 DEF Due
    <2>5. ReturnedBy(c, me, B, {k})
      <3>. HIDE DEF me, B
      <3>1. generation' = [Returned(B) EXCEPT ![k] = Run(@)]
        BY <1>2 DEF B
      <3>. QED BY <2>1, <2>3, <2>4, <3>1, ReturnedAndRun DEF ReturnedBy
    <2>. QED BY <1>2, <2>2, <2>3, <2>5, ReturnStep
  <1>. QED BY <1>1, <1>2 DEF ReturnProbes

LEMMA ProbesHeld ==
  ASSUME AdmissionInv, NEW c \in Caller, caller[c].at \in {"probing", "flushing", "returning"}
  PROVE  /\ caller[c].probes \in SUBSET Generation
         /\ \A g \in Generation : Holds(caller[c], g) <=> g \in caller[c].probes
  BY DEF AdmissionInv, Known, Holds

LEMMA ReturnMoreStep ==
  ASSUME AdmissionInv, NEW c \in Caller, ReturnMore(c)
  PROVE  AdmissionInv'
  <1>1. caller[c].again \in BOOLEAN /\ faults' \subseteq FaultKinds
    BY DEF AdmissionInv, Typed, Callers, ReturnMore
  <1>. QED BY <1>1, ProbesHeld, ReturnProbesStep DEF ReturnMore

LEMMA CatalogFailsStep ==
  ASSUME AdmissionInv, NEW c \in Caller, CatalogFails(c)
  PROVE  AdmissionInv'
  <1>1. faults' \subseteq FaultKinds
    BY FaultTyped DEF CatalogFails, FaultKinds
  <1>. QED BY <1>1, ProbesHeld, ReturnProbesStep DEF CatalogFails

LEMMA AnsweredStep ==
  ASSUME AdmissionInv, NEW c \in Caller, Answered(c)
  PROVE  AdmissionInv'
  <1>. DEFINE probes == caller[c].probes
              changed == \E g \in probes : ~IsCurrent(g)
  <1>1. /\ probes \in SUBSET Generation
        /\ \A g \in Generation : Holds(caller[c], g) <=> g \in probes
        /\ faults' \subseteq FaultKinds /\ changed \in BOOLEAN
    BY ProbesHeld DEF Answered, AdmissionInv, Typed
  <1>2. CASE ReturnProbes(c, probes, changed)
    BY <1>1, <1>2, ReturnProbesStep DEF Answered
  <1>3. ASSUME NEW k \in probes, generation' = Returned(probes \ {k}),
               caller' = [caller EXCEPT ![c] = [NoCaller EXCEPT !.at = "creating", !.on = k]]
        PROVE  AdmissionInv'
    <2>. DEFINE me == [NoCaller EXCEPT !.at = "creating", !.on = k]
    <2>1. me \in Callers
      <3>1. k \in 0..MaxGenerations
        BY <1>1, Numbers, BoundsAssumption DEF AdmissionInv
      <3>. QED BY <3>1, NoCallerTyped DEF Callers, CallerStates
    <2>2. Known(me) /\ me.at = "creating" /\ \A g \in Generation : Holds(me, g) <=> g = k
      BY <1>1, NoCallerTyped DEF Known, Leased, Holds, Callers
    <2>3. generation' = [g \in Generation |-> generation'[g]]
      BY <1>3 DEF Returned
    <2>4. ReturnedBy(c, me, probes \ {k}, {})
      BY <1>1, <1>3, <2>2, <2>3, ReturnedFields DEF ReturnedBy
    <2>. QED BY <1>1, <1>3, <2>1, <2>2, <2>4, ReturnStep DEF Answered
  <1>. QED BY <1>2, <1>3 DEF Answered

LEMMA ReleaseStep ==
  ASSUME AdmissionInv, NEW c \in Caller, caller[c].at \in {"creating", "leaving"}, Release(c),
         UNCHANGED <<current, closing, lost>>, faults' \subseteq FaultKinds
  PROVE  AdmissionInv'
  <1>. DEFINE k == caller[c].on
  <1>1. k \in Generation /\ caller[c].probes = {} /\ \A g \in Generation : Holds(caller[c], g) <=> g = k
    BY DEF AdmissionInv, Known, Leased, Holds
  <1>2. CASE k \in Due({k})
    <2>. DEFINE me == [caller[c] EXCEPT !.at = "releasing"]
    <2>1. /\ generation' = [Returned({k}) EXCEPT ![k] = Run(@)]
          /\ caller' = [caller EXCEPT ![c] = me]
      BY <1>2 DEF Release
    <2>2. generation[k].retired /\ generation[k].leases = 1
      BY <1>2 DEF Due
    <2>3. caller[c] \in Callers
      BY DEF AdmissionInv, Typed
    <2>4. me \in Callers /\ Known(me) /\ me.at = "releasing" /\ me.on = k /\ \A g \in Generation : ~Holds(me, g)
      BY <1>1, <2>3 DEF Callers, CallerStates, Known, Leased, Holds
    <2>5. ReturnedBy(c, me, {k}, {k}) /\ generation'[k].leases = 0
      <3>. HIDE DEF me
      <3>1. {k} \subseteq Due({k})
        BY <1>2
      <3>2. /\ \A g \in Generation : generation'[g] =
                   [agent |-> generation[g].agent,
                    leases |-> IF g \in {k} THEN generation[g].leases - 1 ELSE generation[g].leases,
                    retired |-> generation[g].retired,
                    at |-> IF g \in {k} /\ generation[g].at = "there" THEN "closing" ELSE generation[g].at,
                    spoiled |-> generation[g].spoiled]
            /\ generation' = [g \in Generation |-> generation'[g]]
        BY <1>1, <2>1, ReturnedAndRun
      <3>3. ReturnedBy(c, me, {k}, {k})
        BY <1>1, <2>4, <3>1, <3>2 DEF ReturnedBy
      <3>4. generation'[k].leases = 0
        BY <1>1, <2>2, <3>2
      <3>. QED BY <3>3, <3>4
    <2>. QED BY <2>1, <2>2, <2>4, <2>5, ReturnStep
  <1>3. CASE k \notin Due({k})
    <2>1. generation' = Returned({k}) /\ caller' = [caller EXCEPT ![c] = NoCaller]
      BY <1>3 DEF Release
    <2>3. NoCaller \in Callers /\ Known(NoCaller) /\ NoCaller.at = "idle" /\ \A g \in Generation : ~Holds(NoCaller, g)
      BY NoCallerTyped, NoCallerHoldsNothing
    <2>4. generation' = [g \in Generation |-> generation'[g]]
      BY <2>1 DEF Returned
    <2>5. ReturnedBy(c, NoCaller, {k}, {})
      BY <1>1, <2>1, <2>3, <2>4, ReturnedFields DEF ReturnedBy
    <2>. QED BY <2>1, <2>3, <2>5, ReturnStep
  <1>. QED BY <1>2, <1>3

LEMMA ReleaseSteps ==
  ASSUME AdmissionInv, NEW c \in Caller, CreationFails(c) \/ Left(c)
  PROVE  AdmissionInv'
  <1>1. CASE CreationFails(c)
    BY <1>1, FaultTyped, ReleaseStep DEF CreationFails, FaultKinds
  <1>2. CASE Left(c)
    <2>1. faults' \subseteq FaultKinds
      BY <1>2 DEF Left, AdmissionInv, Typed
    <2>. QED BY <1>2, <2>1, ReleaseStep DEF Left
  <1>. QED BY <1>1, <1>2

LEMMA LeaveAgainStep ==
  ASSUME AdmissionInv, NEW c \in Caller, LeaveAgain(c)
  PROVE  AdmissionInv'
  <1>. DEFINE k == caller[c].on
              me == IF generation[k].at = "gone" THEN NoCaller ELSE [caller[c] EXCEPT !.at = "releasing"]
  <1>1. k \in Generation /\ caller[c].probes = {} /\ \A g \in Generation : ~Holds(caller[c], g)
    BY DEF AdmissionInv, Known, Leased, Holds, LeaveAgain
  <1>2. generation[k].retired /\ generation[k].leases = 0
    BY DEF AdmissionInv, Gave, LeaveAgain
  <1>3. caller[c] \in Callers
    BY DEF AdmissionInv, Typed
  <1>4. \A g \in Generation : generation[g] \in Generations
    BY Numbers DEF AdmissionInv
  <1>5. /\ me \in Callers /\ Known(me) /\ \A g \in Generation : ~Holds(me, g)
        /\ me.at \in {"releasing", "kept"} => me.on = k
    <2>1. CASE generation[k].at = "gone"
      BY <2>1, NoCallerTyped, NoCallerHoldsNothing
    <2>2. CASE generation[k].at # "gone"
      BY <1>1, <1>3, <2>2 DEF Callers, CallerStates, Known, Leased, Holds
    <2>. QED BY <2>1, <2>2
  <1>6. generation' = [g \in Generation |-> IF g = k THEN Run(generation[g]) ELSE generation[g]]
    BY DEF LeaveAgain, AdmissionInv, Typed, Generation
  <1>7. \A g \in Generation : generation'[g] =
          [agent |-> generation[g].agent, leases |-> generation[g].leases,
           retired |-> generation[g].retired,
           at |-> IF g = k /\ generation[g].at = "there" THEN "closing" ELSE generation[g].at,
           spoiled |-> generation[g].spoiled]
    BY <1>4, <1>6, RunFields DEF Generations
  <1>8. \A g \in Generation : Moves(c, me, g)
    <2>. HIDE DEF me, k
    <2>. TAKE g \in Generation
    <2>1. /\ generation'[g].agent = generation[g].agent
          /\ generation'[g].retired = generation[g].retired
          /\ generation'[g].spoiled = generation[g].spoiled
          /\ generation'[g].leases = generation[g].leases
          /\ generation'[g].at = IF g = k /\ generation[g].at = "there" THEN "closing" ELSE generation[g].at
      <3>. DEFINE at == IF g = k /\ generation[g].at = "there" THEN "closing" ELSE generation[g].at
      <3>1. generation'[g] = [agent |-> generation[g].agent, leases |-> generation[g].leases,
              retired |-> generation[g].retired, at |-> at, spoiled |-> generation[g].spoiled]
        BY <1>7
      <3>. HIDE DEF at
      <3>2. /\ generation'[g].agent = generation[g].agent
            /\ generation'[g].retired = generation[g].retired
            /\ generation'[g].spoiled = generation[g].spoiled
            /\ generation'[g].leases = generation[g].leases
            /\ generation'[g].at = at
        BY <3>1
      <3>. QED BY <3>2 DEF at
    <2>2. g = k => generation[g].retired /\ generation'[g].leases = 0
      BY <1>2, <2>1
    <2>. QED BY <1>1, <1>5, <2>1, <2>2 DEF Moves
  <1>9. /\ caller' = [caller EXCEPT ![c] = me]
        /\ UNCHANGED <<current, closing, lost>> /\ faults' \subseteq FaultKinds
    BY DEF LeaveAgain, AdmissionInv, Typed
  <1>10. generation' = [g \in Generation |-> generation'[g]]
    BY <1>6
  <1>11. generation'[k].leases = 0
    <2>. HIDE DEF me, k
    <2>1. generation'[k].leases = generation[k].leases
      <3>. PICK at : generation'[k] = [agent |-> generation[k].agent, leases |-> generation[k].leases,
              retired |-> generation[k].retired, at |-> at, spoiled |-> generation[k].spoiled]
        BY <1>1, <1>7
      <3>. QED OBVIOUS
    <2>. QED BY <1>2, <2>1
  <1>12. \A g \in Generation : generation'[g] = [agent |-> generation'[g].agent,
           leases |-> generation'[g].leases, retired |-> generation'[g].retired,
           at |-> generation'[g].at, spoiled |-> generation'[g].spoiled]
    <2>. HIDE DEF me, k
    <2>. SUFFICES ASSUME NEW g \in Generation
                  PROVE  generation'[g] = [agent |-> generation'[g].agent,
                           leases |-> generation'[g].leases, retired |-> generation'[g].retired,
                           at |-> generation'[g].at, spoiled |-> generation'[g].spoiled]
      OBVIOUS
    <2>. PICK at : generation'[g] = [agent |-> generation[g].agent, leases |-> generation[g].leases,
                     retired |-> generation[g].retired, at |-> at, spoiled |-> generation[g].spoiled]
      BY <1>7
    <2>. QED OBVIOUS
  <1>13. me.at \in {"releasing", "kept"} => generation[me.on].retired /\ generation'[me.on].leases = 0
    BY <1>2, <1>5, <1>11
  <1>. HIDE DEF me
  <1>. QED BY <1>5, <1>8, <1>9, <1>10, <1>12, <1>13, CallerStep
-----------------------------------------------------------------------------
(* Steps of the registry *)

\* A step that leaves the counts alone, and in which nobody takes a lease.
LEMMA RegistryStep ==
  ASSUME AdmissionInv, Typed', Bounded', Generation \subseteq Generation',
         \A g \in Generation :
           /\ generation'[g].leases = generation[g].leases
           /\ generation[g].retired => generation'[g].retired,
         \A g \in Generation' \ Generation : generation'[g].leases = 0,
         \A g \in Generation' : GoesUnleased(g)',
         CurrentIsKept',
         \A c \in Caller : Known(caller[c])',
         \A c \in Caller : caller'[c].at \in {"releasing", "kept"} =>
           caller[c].at \in {"releasing", "kept"} /\ caller'[c].on = caller[c].on,
         lost \subseteq lost',
         \A c \in Caller : \A g \in Generation' : Holds(caller'[c], g) => Holds(caller[c], g),
         \A c \in Caller : \A g \in Generation' \ lost' : Holds(caller[c], g) => Holds(caller'[c], g)
  PROVE  AdmissionInv'
  <1>1. \A c \in Caller : Gave(caller[c])'
    <2>. SUFFICES ASSUME NEW c \in Caller, caller'[c].at \in {"releasing", "kept"}
                  PROVE  generation'[caller'[c].on].retired /\ generation'[caller'[c].on].leases = 0
      BY DEF Gave
    <2>1. caller[c].at \in {"releasing", "kept"} /\ caller'[c].on = caller[c].on
      OBVIOUS
    <2>2. caller[c].on \in Generation /\ generation[caller[c].on].retired /\ generation[caller[c].on].leases = 0
      BY <2>1 DEF AdmissionInv, Gave, Known, Leased
    <2>. QED BY <2>1, <2>2
  <1>2. ASSUME NEW g \in Generation'
        PROVE  Counted(g)'
    <2>1. /\ Holders(g)' \subseteq Holders(g)
          /\ g \notin lost' => Holders(g)' = Holders(g)
      BY DEF Holders
    <2>2. IsFiniteSet(Holders(g)) /\ Cardinality(Holders(g)) \in Nat /\ Cardinality(Holders(g)') \in Nat
      BY HoldersFinite, HoldersFiniteNext
    <2>3. Cardinality(Holders(g)') <= Cardinality(Holders(g))
      BY <2>1, <2>2, FS_Subset
    <2>4. CASE g \in Generation
      <3>1. Counted(g) /\ generation'[g].leases = generation[g].leases
        BY <2>4 DEF AdmissionInv
      <3>2. generation[g].leases \in Nat
        BY <2>4, Numbers DEF AdmissionInv, Generations
      <3>. QED BY <2>1, <2>2, <2>3, <3>1, <3>2 DEF Counted
    <2>5. CASE g \notin Generation
      <3>1. \A c \in Caller : ~Holds(caller[c], g)
        BY <2>5 DEF AdmissionInv, Known, Leased, Holds
      <3>2. Holders(g)' = {}
        BY <3>1, <2>1 DEF Holders
      <3>3. Cardinality(Holders(g)') = 0
        BY <3>2, FS_EmptySet
      <3>. QED BY <2>5, <3>3 DEF Counted
    <2>. QED BY <2>4, <2>5
  <1>. QED BY <1>1, <1>2 DEF AdmissionInv

\* The same when no caller moves.
LEMMA QuietStep ==
  ASSUME AdmissionInv, Typed', Bounded', Generation \subseteq Generation',
         \A g \in Generation :
           /\ generation'[g].leases = generation[g].leases
           /\ generation[g].retired => generation'[g].retired,
         \A g \in Generation' \ Generation : generation'[g].leases = 0,
         \A g \in Generation' : GoesUnleased(g)',
         CurrentIsKept',
         UNCHANGED <<caller, lost>>
  PROVE  AdmissionInv'
  <1>1. \A c \in Caller : Known(caller[c])'
    BY DEF AdmissionInv, Known
  <1>. QED BY <1>1, RegistryStep

LEMMA RetireFields ==
  ASSUME NEW r \in Generations
  PROVE  Retire(r) = [agent |-> r.agent, leases |-> r.leases, retired |-> TRUE,
                      at |-> IF r.leases = 0 /\ r.at = "there" THEN "closing" ELSE r.at,
                      spoiled |-> r.spoiled]
  BY DEF Retire, Run, Generations

\* Retiring generations keeps their counts, and disposes of those nobody leases.
LEMMA Retiring ==
  ASSUME AdmissionInv, NEW G
  PROVE  LET q == RetireAll(G) IN
         /\ q \in Seq(Generations) /\ Len(q) = Len(generation) /\ DOMAIN q = Generation
         /\ \A g \in Generation :
              /\ q[g].agent = generation[g].agent
              /\ q[g].leases = generation[g].leases
              /\ q[g].retired <=> generation[g].retired \/ g \in G
              /\ q[g].at # "there" => q[g].retired /\ q[g].leases = 0
  <1>. DEFINE q == RetireAll(G)
  <1>1. \A g \in Generation : generation[g] \in Generations /\ GoesUnleased(g)
    BY Numbers DEF AdmissionInv
  <1>2. \A g \in Generation : q[g] = IF g \in G THEN Retire(generation[g]) ELSE generation[g]
    BY DEF RetireAll
  <1>3. ASSUME NEW g \in Generation
        PROVE  /\ q[g] \in Generations
               /\ q[g].agent = generation[g].agent
               /\ q[g].leases = generation[g].leases
               /\ q[g].retired <=> generation[g].retired \/ g \in G
               /\ q[g].at # "there" => q[g].retired /\ q[g].leases = 0
    <2>1. CASE g \in G
      <3>1. q[g] = Retire(generation[g])
        BY <2>1, <1>2
      <3>2. q[g] = [agent |-> generation[g].agent, leases |-> generation[g].leases, retired |-> TRUE,
              at |-> IF generation[g].leases = 0 /\ generation[g].at = "there" THEN "closing"
                     ELSE generation[g].at,
              spoiled |-> generation[g].spoiled]
        BY <3>1, <1>1, RetireFields
      <3>. HIDE DEF q
      <3>. QED BY <2>1, <3>2, <1>1 DEF Generations, GoesUnleased
    <2>2. CASE g \notin G
      <3>1. q[g] = generation[g]
        BY <2>2, <1>2
      <3>. HIDE DEF q
      <3>. QED BY <2>2, <3>1, <1>1 DEF Generations, GoesUnleased
    <2>. QED BY <2>1, <2>2
  <1>4. q = [g \in Generation |-> q[g]]
    BY DEF RetireAll
  <1>5. q \in Seq(Generations) /\ Len(q) = Len(generation) /\ DOMAIN q = Generation
    <2>. HIDE DEF q
    <2>. QED BY <1>3, <1>4, SeqUpdated DEF AdmissionInv, Typed, Generation
  <1>. QED BY <1>3, <1>5

LEMMA UpsertStep ==
  ASSUME AdmissionInv, NEW a \in Agent, Upsert(a)
  PROVE  AdmissionInv'
  <1>. DEFINE q == RetireAll({current[a]})
              n == Len(generation) + 1
              new == [agent |-> a, leases |-> 0, retired |-> FALSE, at |-> "there", spoiled |-> FALSE]
  <1>1. /\ q \in Seq(Generations) /\ Len(q) = Len(generation) /\ DOMAIN q = Generation
        /\ \A g \in Generation :
              /\ q[g].agent = generation[g].agent
              /\ q[g].leases = generation[g].leases
              /\ q[g].retired <=> generation[g].retired \/ g \in {current[a]}
              /\ q[g].at # "there" => q[g].retired /\ q[g].leases = 0
    BY Retiring
  <1>2. /\ generation' = Append(q, new) /\ current' = [current EXCEPT ![a] = n]
        /\ UNCHANGED <<caller, closing, faults, lost>> /\ ~closed /\ Len(generation) < MaxGenerations
    BY DEF Upsert
  <1>3. new \in Generations /\ new.agent = a /\ new.leases = 0 /\ ~new.retired /\ new.at = "there"
    BY DEF Generations
  <1>. HIDE DEF q, new
  <1>4. /\ generation' \in Seq(Generations) /\ Len(generation') = n
        /\ Generation' = Generation \cup {n} /\ generation'[n] = new
        /\ \A g \in Generation : generation'[g] = q[g]
    BY <1>1, <1>2, <1>3, SeqExtended DEF Generation
  <1>5. Len(generation) \in Nat /\ Generation = 1..Len(generation) /\ n \notin Generation
    BY Numbers DEF AdmissionInv
  <1>6. current' \in [Agent -> 0..Len(generation')]
    BY <1>2, <1>4, <1>5 DEF AdmissionInv, Typed
  <1>7. Typed' /\ Bounded'
    BY <1>2, <1>4, <1>5, <1>6, BoundsAssumption DEF AdmissionInv, Typed, Bounded, closed
  <1>8. \A g \in Generation' : GoesUnleased(g)'
    BY <1>1, <1>3, <1>4 DEF GoesUnleased
  <1>9. CurrentIsKept'
    <2>1. current'[a] = n /\ \A b \in Agent \ {a} : current'[b] = current[b]
      BY <1>2 DEF AdmissionInv, Typed
    <2>2. ASSUME NEW b \in Agent, current'[b] # Nothing
          PROVE  generation'[current'[b]].agent = b /\ ~generation'[current'[b]].retired
      <3>1. CASE b = a
        BY <2>1, <3>1, <1>3, <1>4
      <3>2. CASE b # a
        <4>1. /\ current[b] \in Generation /\ generation[current[b]].agent = b
              /\ ~generation[current[b]].retired /\ current'[b] = current[b]
          BY <2>1, <2>2, <3>2, Numbers DEF AdmissionInv, CurrentIsKept
        <4>2. current[b] # current[a]
          BY <4>1, <3>2, Numbers DEF AdmissionInv, CurrentIsKept
        <4>. QED BY <4>1, <4>2, <1>1, <1>4
      <3>. QED BY <3>1, <3>2
    <2>3. ASSUME NEW g \in Generation', ~generation'[g].retired
          PROVE  current'[generation'[g].agent] = g
      <3>1. CASE g = n
        BY <2>1, <3>1, <1>3, <1>4
      <3>2. CASE g # n
        <4>1. g \in Generation /\ generation'[g] = q[g]
          BY <3>2, <1>4
        <4>2. ~generation[g].retired /\ g # current[a] /\ generation'[g].agent = generation[g].agent
          BY <2>3, <4>1, <1>1
        <4>3. current[generation[g].agent] = g /\ generation[g].agent \in Agent
          BY <4>1, <4>2, Numbers DEF AdmissionInv, CurrentIsKept, IsCurrent, Generations
        <4>4. generation[g].agent # a
          BY <4>2, <4>3
        <4>. QED BY <2>1, <4>2, <4>3, <4>4
      <3>. QED BY <3>1, <3>2
    <2>. QED BY <2>2, <2>3, <1>2 DEF CurrentIsKept, IsCurrent, closed
  <1>. QED BY <1>1, <1>2, <1>3, <1>4, <1>7, <1>8, <1>9, QuietStep

LEMMA RemoveStep ==
  ASSUME AdmissionInv, NEW a \in Agent, Remove(a)
  PROVE  AdmissionInv'
  <1>1. /\ generation' \in Seq(Generations) /\ Len(generation') = Len(generation) /\ Generation' = Generation
        /\ \A g \in Generation :
              /\ generation'[g].agent = generation[g].agent
              /\ generation'[g].leases = generation[g].leases
              /\ generation'[g].retired <=> generation[g].retired \/ g \in {current[a]}
              /\ generation'[g].at # "there" => generation'[g].retired /\ generation'[g].leases = 0
    BY Retiring DEF Remove, Generation
  <1>2. /\ current' = [current EXCEPT ![a] = Nothing]
        /\ UNCHANGED <<caller, closing, faults, lost>> /\ ~closed
    BY DEF Remove
  <1>3. Typed' /\ Bounded'
    BY <1>1, <1>2, Numbers DEF AdmissionInv, Typed, Bounded, Nothing
  <1>4. \A g \in Generation' : GoesUnleased(g)'
    BY <1>1 DEF GoesUnleased
  <1>5. CurrentIsKept'
    <2>1. current'[a] = Nothing /\ \A b \in Agent \ {a} : current'[b] = current[b]
      BY <1>2 DEF AdmissionInv, Typed
    <2>2. ASSUME NEW b \in Agent, current'[b] # Nothing
          PROVE  generation'[current'[b]].agent = b /\ ~generation'[current'[b]].retired
      <3>1. /\ b # a /\ current[b] \in Generation /\ generation[current[b]].agent = b
            /\ ~generation[current[b]].retired /\ current'[b] = current[b]
        BY <2>1, <2>2, Numbers DEF AdmissionInv, CurrentIsKept
      <3>2. current[b] # current[a]
        BY <3>1, Numbers DEF AdmissionInv, CurrentIsKept
      <3>. QED BY <3>1, <3>2, <1>1
    <2>3. ASSUME NEW g \in Generation', ~generation'[g].retired
          PROVE  current'[generation'[g].agent] = g
      <3>1. g \in Generation /\ ~generation[g].retired /\ g # current[a]
            /\ generation'[g].agent = generation[g].agent
        BY <2>3, <1>1
      <3>2. current[generation[g].agent] = g /\ generation[g].agent \in Agent
        BY <3>1, Numbers DEF AdmissionInv, CurrentIsKept, IsCurrent, Generations
      <3>3. generation[g].agent # a
        BY <3>1, <3>2
      <3>. QED BY <2>1, <3>1, <3>2, <3>3
    <2>. QED BY <2>2, <2>3, <1>2 DEF CurrentIsKept, IsCurrent, closed
  <1>. QED BY <1>1, <1>2, <1>3, <1>4, <1>5, QuietStep

LEMMA CloseStep ==
  ASSUME AdmissionInv, Close
  PROVE  AdmissionInv'
  <1>. DEFINE G == IF closed THEN {} ELSE {current[a] : a \in Agent} \ {Nothing}
  <1>1. /\ generation' \in Seq(Generations) /\ Len(generation') = Len(generation) /\ Generation' = Generation
        /\ \A g \in Generation :
              /\ generation'[g].agent = generation[g].agent
              /\ generation'[g].leases = generation[g].leases
              /\ generation'[g].retired <=> generation[g].retired \/ g \in G
              /\ generation'[g].at # "there" => generation'[g].retired /\ generation'[g].leases = 0
    <2>1. CASE closed
      <3>1. generation' = generation /\ G = {}
        BY <2>1 DEF Close
      <3>. QED BY <3>1, Numbers DEF AdmissionInv, Typed, GoesUnleased, Generation, Generations
    <2>2. CASE ~closed
      <3>1. generation' = RetireAll(G)
        BY <2>2 DEF Close
      <3>. HIDE DEF G
      <3>. QED BY <3>1, Retiring DEF Generation
    <2>. QED BY <2>1, <2>2
  <1>2. /\ current' = [a \in Agent |-> Nothing]
        /\ closing' = [at |-> "waiting", awaited |-> {g \in Generation : generation[g].at # "gone"},
                       joined |-> {}, failed |-> FALSE]
        /\ UNCHANGED <<caller, faults, lost>>
    BY DEF Close
  <1>3. Typed' /\ Bounded'
    <2>1. current' \in [Agent -> 0..Len(generation')]
      BY <1>1, <1>2, Numbers DEF AdmissionInv, Nothing
    <2>2. closing'.awaited \subseteq Generation
      BY <1>2
    <2>3. closing' \in [at : {"no", "waiting", "failed", "done"}, awaited : SUBSET (1..MaxGenerations),
                        joined : SUBSET (1..MaxGenerations), failed : BOOLEAN]
      BY <1>2, Numbers DEF AdmissionInv
    <2>. QED BY <1>1, <1>2, <2>1, <2>2, <2>3 DEF AdmissionInv, Typed, Bounded, closed
  <1>4. \A g \in Generation' : GoesUnleased(g)'
    BY <1>1 DEF GoesUnleased
  <1>5. \A g \in Generation : generation'[g].retired
    <2>. TAKE g \in Generation
    <2>1. CASE generation[g].retired
      BY <2>1, <1>1
    <2>2. CASE ~generation[g].retired
      <3>1. current[generation[g].agent] = g /\ generation[g].agent \in Agent /\ g # Nothing
        BY <2>2, Numbers DEF AdmissionInv, CurrentIsKept, IsCurrent, Generations
      <3>2. ~closed
        BY <3>1 DEF AdmissionInv, CurrentIsKept
      <3>. QED BY <3>1, <3>2, <1>1
    <2>. QED BY <2>1, <2>2
  <1>6. CurrentIsKept'
    BY <1>1, <1>2, <1>5 DEF CurrentIsKept
  <1>. HIDE DEF G
  <1>. QED BY <1>1, <1>2, <1>3, <1>4, <1>6, QuietStep

\* An attempt to dispose of what is retired and unleased.
LEMMA Attempt ==
  ASSUME AdmissionInv, NEW k \in Generation,
         generation[k].retired, generation[k].leases = 0,
         generation' = [generation EXCEPT ![k] = Run(@)],
         UNCHANGED <<current, caller, faults, lost>>,
         closing' \in [at : {"no", "waiting", "failed", "done"}, awaited : SUBSET (1..MaxGenerations),
                       joined : SUBSET (1..MaxGenerations), failed : BOOLEAN],
         closing'.awaited \subseteq closing.awaited, closing'.at = closing.at
  PROVE  AdmissionInv'
  <1>1. \A g \in Generation : generation[g] \in Generations
    BY Numbers DEF AdmissionInv
  <1>2. generation' = [g \in Generation |-> IF g = k THEN Run(generation[g]) ELSE generation[g]]
    BY DEF AdmissionInv, Typed, Generation
  <1>3. /\ Run(generation[k]) \in Generations
        /\ Run(generation[k]).agent = generation[k].agent
        /\ Run(generation[k]).leases = generation[k].leases
        /\ Run(generation[k]).retired = generation[k].retired
    BY <1>1, RunTyped
  <1>4. ASSUME NEW g \in Generation
        PROVE  /\ generation'[g] \in Generations
               /\ generation'[g].agent = generation[g].agent
               /\ generation'[g].leases = generation[g].leases
               /\ generation'[g].retired = generation[g].retired
               /\ GoesUnleased(g)'
    <2>1. CASE g = k
      <3>1. generation'[g] = Run(generation[k])
        BY <1>2, <2>1
      <3>. QED BY <3>1, <2>1, <1>3 DEF GoesUnleased
    <2>2. CASE g # k
      <3>1. generation'[g] = generation[g]
        BY <1>2, <2>2
      <3>. QED BY <3>1, <1>1 DEF AdmissionInv, GoesUnleased
    <2>. QED BY <2>1, <2>2
  <1>5. generation' = [g \in Generation |-> generation'[g]]
    BY <1>2
  <1>6. generation' \in Seq(Generations) /\ Len(generation') = Len(generation) /\ Generation' = Generation
    BY <1>4, <1>5, SeqUpdated DEF AdmissionInv, Typed, Generation
  <1>7. Typed' /\ Bounded'
    BY <1>6 DEF AdmissionInv, Typed, Bounded, closed
  <1>8. CurrentIsKept'
    BY <1>4, <1>6, Numbers DEF AdmissionInv, CurrentIsKept, IsCurrent, closed
  <1>. QED BY <1>4, <1>6, <1>7, <1>8, QuietStep

LEMMA AttemptSteps ==
  ASSUME AdmissionInv, NEW g \in Generation, DisposeAgain(g) \/ CloseJoins(g)
  PROVE  AdmissionInv'
  <1>1. CASE DisposeAgain(g)
    <2>1. closing' = closing
      BY <1>1 DEF DisposeAgain
    <2>. QED BY <1>1, <2>1, Attempt DEF DisposeAgain, AdmissionInv, Typed
  <1>2. CASE CloseJoins(g)
    <2>. DEFINE joined == IF generation[g].at = "gone" THEN closing.joined ELSE closing.joined \cup {g}
    <2>1. closing' = [closing EXCEPT !.awaited = @ \ {g}, !.joined = joined] /\ g \in closing.awaited
      BY <1>2 DEF CloseJoins
    <2>2. joined \in SUBSET (1..MaxGenerations)
      BY Numbers DEF AdmissionInv, Typed
    <2>. HIDE DEF joined
    <2>3. /\ closing' \in [at : {"no", "waiting", "failed", "done"}, awaited : SUBSET (1..MaxGenerations),
                           joined : SUBSET (1..MaxGenerations), failed : BOOLEAN]
          /\ closing'.awaited \subseteq closing.awaited /\ closing'.at = closing.at
      BY <2>1, <2>2 DEF AdmissionInv, Typed
    <2>4. generation[g].retired /\ generation[g].leases = 0
      <3>1. closed
        BY <2>1 DEF AdmissionInv, Bounded
      <3>2. generation[g].agent \in Agent /\ g # Nothing
        BY Numbers DEF AdmissionInv, Generations
      <3>. QED BY <3>1, <3>2, <1>2 DEF CloseJoins, AdmissionInv, CurrentIsKept, IsCurrent
    <2>. QED BY <1>2, <2>3, <2>4, Attempt DEF CloseJoins
  <1>. QED BY <1>1, <1>2

LEMMA CloseEndsStep ==
  ASSUME AdmissionInv, CloseEnds
  PROVE  AdmissionInv'
  <1>1. /\ closing' \in [at : {"no", "waiting", "failed", "done"}, awaited : SUBSET (1..MaxGenerations),
                         joined : SUBSET (1..MaxGenerations), failed : BOOLEAN]
        /\ closing'.awaited = closing.awaited /\ closing.at # "no" /\ closing'.at # "no"
    BY DEF CloseEnds, AdmissionInv, Typed
  <1>2. Typed' /\ Bounded'
    BY <1>1 DEF CloseEnds, AdmissionInv, Typed, Bounded, Generation
  <1>3. CurrentIsKept'
    BY <1>1 DEF CloseEnds, AdmissionInv, CurrentIsKept, IsCurrent, closed, Generation
  <1>. QED BY <1>1, <1>2, <1>3, QuietStep DEF CloseEnds, AdmissionInv, Generation, GoesUnleased

\* A disposal that ends, well or not, leaves the generation with its count.
LEMMA Disposing ==
  ASSUME AdmissionInv, NEW k \in Generation, generation[k].at = "closing",
         NEW at \in {"there", "gone"}, NEW spoiled \in BOOLEAN,
         generation' = [generation EXCEPT ![k].at = at, ![k].spoiled = spoiled],
         UNCHANGED current, closing'.at = closing.at
  PROVE  /\ generation' \in Seq(Generations) /\ Len(generation') = Len(generation) /\ Generation' = Generation
         /\ \A g \in Generation :
              /\ generation'[g].leases = generation[g].leases
              /\ generation'[g].retired = generation[g].retired
              /\ GoesUnleased(g)'
         /\ CurrentIsKept'
  <1>1. \A g \in Generation : generation[g] \in Generations
    BY Numbers DEF AdmissionInv
  <1>2. generation' = [g \in Generation |->
          IF g = k THEN [generation[g] EXCEPT !.at = at, !.spoiled = spoiled] ELSE generation[g]]
    BY DEF AdmissionInv, Typed, Generation
  <1>3. ASSUME NEW g \in Generation
        PROVE  /\ generation'[g] \in Generations
               /\ generation'[g].agent = generation[g].agent
               /\ generation'[g].leases = generation[g].leases
               /\ generation'[g].retired = generation[g].retired
               /\ GoesUnleased(g)'
    <2>1. CASE g = k
      <3>1. generation'[g] = Attempted(generation[k], at, spoiled)
        BY <1>2, <2>1 DEF Attempted
      <3>2. generation[k].retired /\ generation[k].leases = 0
        BY DEF AdmissionInv, GoesUnleased
      <3>3. generation[k] \in Generations
        BY <1>1
      <3>4. /\ generation'[g] \in Generations
            /\ generation'[g].agent = generation[k].agent
            /\ generation'[g].leases = generation[k].leases
            /\ generation'[g].retired = generation[k].retired
        <4>1. /\ Attempted(generation[k], at, spoiled) \in Generations
              /\ Attempted(generation[k], at, spoiled).agent = generation[k].agent
              /\ Attempted(generation[k], at, spoiled).leases = generation[k].leases
              /\ Attempted(generation[k], at, spoiled).retired = generation[k].retired
          BY <3>3, AttemptedTyped
        <4>. QED BY <3>1, <4>1
      <3>. QED BY <3>2, <3>4, <2>1 DEF GoesUnleased
    <2>2. CASE g # k
      <3>1. generation'[g] = generation[g]
        BY <1>2, <2>2
      <3>. QED BY <3>1, <1>1 DEF AdmissionInv, GoesUnleased
    <2>. QED BY <2>1, <2>2
  <1>4. generation' = [g \in Generation |-> generation'[g]]
    BY <1>2
  <1>5. generation' \in Seq(Generations) /\ Len(generation') = Len(generation) /\ Generation' = Generation
    BY <1>3, <1>4, NumbersKept DEF AdmissionInv
  <1>6. CurrentIsKept'
    BY <1>3, <1>5, Numbers DEF AdmissionInv, CurrentIsKept, IsCurrent, closed
  <1>. QED BY <1>3, <1>5, <1>6

LEMMA DisposedStep ==
  ASSUME AdmissionInv, NEW k \in Generation, Disposed(k)
  PROVE  AdmissionInv'
  <1>1. /\ closing' \in [at : {"no", "waiting", "failed", "done"}, awaited : SUBSET (1..MaxGenerations),
                         joined : SUBSET (1..MaxGenerations), failed : BOOLEAN]
        /\ closing'.awaited = closing.awaited /\ closing'.at = closing.at
    BY DEF Disposed, AdmissionInv, Typed
  <1>2. generation[k] \in Generations /\ generation[k].spoiled \in BOOLEAN
    BY Numbers DEF AdmissionInv, Generations
  <1>3. generation' = [generation EXCEPT ![k].at = "gone", ![k].spoiled = generation[k].spoiled]
    BY <1>2 DEF Disposed, AdmissionInv, Typed, Generation, Generations
  <1>4. /\ generation' \in Seq(Generations) /\ Len(generation') = Len(generation) /\ Generation' = Generation
        /\ \A g \in Generation :
             /\ generation'[g].leases = generation[g].leases
             /\ generation'[g].retired = generation[g].retired
             /\ GoesUnleased(g)'
        /\ CurrentIsKept'
    BY <1>1, <1>2, <1>3, Disposing DEF Disposed
  <1>5. ASSUME NEW c \in Caller
        PROVE  /\ caller'[c] \in Callers /\ Known(caller[c])'
               /\ caller'[c].at \in {"releasing", "kept"} =>
                    caller[c].at \in {"releasing", "kept"} /\ caller'[c].on = caller[c].on
               /\ \A g \in Generation : Holds(caller'[c], g) <=> Holds(caller[c], g)
    <2>1. caller[c] \in Callers /\ Known(caller[c])
      BY DEF AdmissionInv, Typed
    <2>2. CASE caller[c].at = "releasing" /\ caller[c].on = k
      <3>1. caller'[c] = NoCaller
        BY <2>2 DEF Disposed
      <3>2. \A g \in Generation : ~Holds(caller[c], g)
        BY <2>1, <2>2 DEF Known, Holds
      <3>. QED BY <3>1, <3>2, NoCallerTyped, NoCallerHoldsNothing, <1>4 DEF Known
    <2>3. CASE caller[c].at = "flushing" /\ caller[c].on = k
      <3>1. caller'[c] = [caller[c] EXCEPT !.at = "returning", !.on = Nothing]
        BY <2>3 DEF Disposed
      <3>2. Nothing \in 0..MaxGenerations
        BY BoundsAssumption DEF Nothing
      <3>. QED BY <2>1, <2>3, <3>1, <3>2, <1>4 DEF Known, Leased, Holds, Callers, CallerStates
    <2>4. CASE /\ ~(caller[c].at = "releasing" /\ caller[c].on = k)
               /\ ~(caller[c].at = "flushing" /\ caller[c].on = k)
      <3>1. caller'[c] = caller[c]
        BY <2>4 DEF Disposed
      <3>. QED BY <2>1, <3>1, <1>4 DEF Known
    <2>. QED BY <2>2, <2>3, <2>4
  <1>6. caller' \in [Caller -> Callers]
    <2>1. caller' = [c \in Caller |-> caller'[c]]
      BY DEF Disposed
    <2>. QED BY <2>1, <1>5
  <1>7. Typed' /\ Bounded'
    BY <1>1, <1>4, <1>6 DEF Disposed, AdmissionInv, Typed, Bounded, closed
  <1>8. lost' = lost
    BY DEF Disposed
  <1>. QED BY <1>4, <1>5, <1>7, <1>8, RegistryStep

LEMMA DisposalFailsStep ==
  ASSUME AdmissionInv, NEW k \in Generation, DisposalFails(k)
  PROVE  AdmissionInv'
  <1>. DEFINE flushing == {c \in Caller : caller[c].at = "flushing" /\ caller[c].on = k}
  <1>1. /\ closing' \in [at : {"no", "waiting", "failed", "done"}, awaited : SUBSET (1..MaxGenerations),
                         joined : SUBSET (1..MaxGenerations), failed : BOOLEAN]
        /\ closing'.awaited = closing.awaited /\ closing'.at = closing.at
    BY DEF DisposalFails, AdmissionInv, Typed
  <1>2. /\ generation' \in Seq(Generations) /\ Len(generation') = Len(generation) /\ Generation' = Generation
        /\ \A g \in Generation :
             /\ generation'[g].leases = generation[g].leases
             /\ generation'[g].retired = generation[g].retired
             /\ GoesUnleased(g)'
        /\ CurrentIsKept'
    BY <1>1, Disposing DEF DisposalFails
  <1>3. lost' = lost \cup UNION {caller[c].probes : c \in flushing}
    BY DEF DisposalFails
  <1>4. ASSUME NEW c \in Caller
        PROVE  /\ caller'[c] \in Callers /\ Known(caller[c])'
               /\ caller'[c].at \in {"releasing", "kept"} =>
                    caller[c].at \in {"releasing", "kept"} /\ caller'[c].on = caller[c].on
               /\ \A g \in Generation : Holds(caller'[c], g) => Holds(caller[c], g)
               /\ \A g \in Generation \ lost' : Holds(caller[c], g) => Holds(caller'[c], g)
    <2>1. caller[c] \in Callers /\ Known(caller[c])
      BY DEF AdmissionInv, Typed
    <2>2. CASE caller[c].at = "releasing" /\ caller[c].on = k /\ caller[c].created
      <3>1. caller'[c] = [caller[c] EXCEPT !.at = "kept"]
        BY <2>2 DEF DisposalFails
      <3>. QED BY <2>1, <2>2, <3>1, <1>2 DEF Known, Leased, Holds, Callers, CallerStates
    <2>3. CASE caller[c].at = "releasing" /\ caller[c].on = k /\ ~caller[c].created
      <3>1. caller'[c] = NoCaller
        BY <2>3 DEF DisposalFails
      <3>2. \A g \in Generation : ~Holds(caller[c], g)
        BY <2>1, <2>3 DEF Known, Holds
      <3>. QED BY <3>1, <3>2, NoCallerTyped, NoCallerHoldsNothing, <1>2 DEF Known
    <2>4. CASE c \in flushing
      <3>1. caller'[c] = NoCaller
        BY <2>4 DEF DisposalFails
      <3>2. \A g \in Generation \ lost' : ~Holds(caller[c], g)
        BY <2>1, <2>4, <1>3 DEF Holds
      <3>. QED BY <3>1, <3>2, NoCallerTyped, NoCallerHoldsNothing, <1>2 DEF Known
    <2>5. CASE ~(caller[c].at = "releasing" /\ caller[c].on = k) /\ c \notin flushing
      <3>1. caller'[c] = caller[c]
        BY <2>5 DEF DisposalFails
      <3>. QED BY <2>1, <3>1, <1>2 DEF Known
    <2>. QED BY <2>2, <2>3, <2>4, <2>5
  <1>5. caller' \in [Caller -> Callers]
    <2>1. caller' = [c \in Caller |-> caller'[c]]
      BY DEF DisposalFails
    <2>. QED BY <2>1, <1>4
  <1>6. lost' \subseteq 1..MaxGenerations /\ faults' \subseteq FaultKinds
    BY <1>3, FaultTyped, Numbers DEF DisposalFails, FaultKinds, AdmissionInv, Typed, Known
  <1>7. Typed' /\ Bounded'
    BY <1>1, <1>2, <1>5, <1>6 DEF DisposalFails, AdmissionInv, Typed, Bounded, closed
  <1>8. lost \subseteq lost'
    BY <1>3
  <1>. HIDE DEF flushing
  <1>. QED BY <1>2, <1>4, <1>7, <1>8, RegistryStep

-----------------------------------------------------------------------------
(* Theorems *)

LEMMA InitAdmission == Init => AdmissionInv
  <1>. SUFFICES ASSUME Init PROVE AdmissionInv
    OBVIOUS
  <1>1. Generation = {} /\ generation \in Seq(Generations) /\ Len(generation) = 0
    BY DEF Init, Generation
  <1>2. Typed /\ Bounded
    BY <1>1, NoCallerTyped, BoundsAssumption DEF Init, Typed, Bounded, Nothing
  <1>3. \A c \in Caller : Known(caller[c]) /\ Gave(caller[c])
    BY NoCallerTyped, NoCallerHoldsNothing DEF Init, Gave
  <1>4. CurrentIsKept
    BY <1>1 DEF Init, CurrentIsKept, closed
  <1>. QED BY <1>1, <1>2, <1>3, <1>4 DEF AdmissionInv

LEMMA UnchangedStep ==
  ASSUME AdmissionInv, UNCHANGED <<current, generation, caller, closing, faults, lost>>
  PROVE  AdmissionInv'
  <1>1. Generation' = Generation
    BY DEF Generation
  <1>2. Typed' /\ Bounded'
    BY <1>1 DEF AdmissionInv, Typed, Bounded, closed
  <1>3. CurrentIsKept'
    BY <1>1 DEF AdmissionInv, CurrentIsKept, IsCurrent, closed
  <1>. QED BY <1>1, <1>2, <1>3, QuietStep DEF AdmissionInv, GoesUnleased

\* What is still asked was asked by a request that leased it.
LEMMA NextAsked == AdmissionInv /\ AskedTyped /\ [Next]_vars => AskedTyped'
  <1>. SUFFICES ASSUME AdmissionInv, AskedTyped, [Next]_vars PROVE AskedTyped'
    OBVIOUS
  <1>1. ASSUME NEW c \in Caller, CatalogFails(c)
        PROVE  AskedTyped'
    <2>1. caller[c].probes \subseteq 1..MaxGenerations
      BY DEF AdmissionInv, Typed, Callers
    <2>. QED BY <1>1, <2>1 DEF CatalogFails, AskedTyped
  <1>2. ASSUME NEW g, StrayAnswered(g)
        PROVE  AskedTyped'
    BY <1>2 DEF StrayAnswered, AskedTyped
  <1>3. CASE UNCHANGED asked
    BY <1>3 DEF AskedTyped
  <1>4. ASSUME NEW a \in Agent, Upsert(a) \/ Remove(a)
        PROVE  UNCHANGED asked
    BY <1>4 DEF Upsert, Remove
  <1>5. ASSUME NEW c \in Caller,
               \/ \E a \in Agent : Request(c, a)
               \/ Probe(c) \/ CreationFails(c) \/ Leave(c) \/ LeaveFails(c) \/ LeaveAgain(c)
               \/ Continues(c)
        PROVE  UNCHANGED asked
    BY <1>5 DEF Request, Probe, CreationFails, Leave, LeaveFails, LeaveAgain, Continues, Answered,
       ReturnMore, ProbeRefused, Created, Left
  <1>6. ASSUME NEW g \in Generation, DisposeAgain(g) \/ Disposed(g) \/ DisposalFails(g) \/ CloseJoins(g)
        PROVE  UNCHANGED asked
    BY <1>6 DEF DisposeAgain, Disposed, DisposalFails, CloseJoins
  <1>7. CASE Close \/ CloseEnds
    BY <1>3, <1>7 DEF Close, CloseEnds
  <1>8. CASE UNCHANGED vars
    BY <1>3, <1>8 DEF vars
  <1>. QED BY <1>1, <1>2, <1>3, <1>4, <1>5, <1>6, <1>7, <1>8 DEF Next

LEMMA NextAdmission == AdmissionInv /\ [Next]_vars => AdmissionInv'
  <1>. SUFFICES ASSUME AdmissionInv, [Next]_vars PROVE AdmissionInv'
    OBVIOUS
  <1>1. CASE \E a \in Agent : Upsert(a) \/ Remove(a)
    BY <1>1, UpsertStep, RemoveStep
  <1>2. ASSUME NEW c \in Caller,
               \/ \E a \in Agent : Request(c, a)
               \/ Probe(c) \/ CatalogFails(c) \/ CreationFails(c) \/ Leave(c) \/ LeaveFails(c)
               \/ LeaveAgain(c) \/ Continues(c)
        PROVE  AdmissionInv'
    BY <1>2, RequestStep, ProbeStep, CatalogFailsStep, ReleaseSteps, CallerOnlySteps, LeaveAgainStep,
       AnsweredStep, ReturnMoreStep DEF Continues
  <1>3. CASE \E g \in Generation : DisposeAgain(g) \/ Disposed(g) \/ DisposalFails(g) \/ CloseJoins(g)
    BY <1>3, AttemptSteps, DisposedStep, DisposalFailsStep
  <1>4. CASE Close \/ CloseEnds
    BY <1>4, CloseStep, CloseEndsStep
  <1>5. CASE (\E g \in asked : StrayAnswered(g)) \/ UNCHANGED vars
    BY <1>5, UnchangedStep DEF StrayAnswered, vars
  <1>. QED BY <1>1, <1>2, <1>3, <1>4, <1>5 DEF Next

\* The invariant is inductive.
THEOREM Inductive == Spec => [](AdmissionInv /\ AskedTyped)
  <1>1. Init => AskedTyped
    BY DEF Init, AskedTyped
  <1>. QED BY <1>1, InitAdmission, NextAdmission, NextAsked, PTL DEF Spec

\* Generations, callers, the attempt to close and the counts keep their types; no
\* count falls below zero.
THEOREM TypeCorrect == Spec => []TypeOK
  <1>1. AdmissionInv /\ AskedTyped => TypeOK
    BY DEF AdmissionInv, Typed, AskedTyped, TypeOK
  <1>. QED BY Inductive, <1>1, PTL

\* Whoever creates a session on a backend, runs one or leases it to ask its catalog
\* is counted, and the backend is not being disposed of, however often it is
\* replaced, retired and closed meanwhile (createLease, releaseProbes,
\* retireGeneration, disposeAll of RuntimeHostAgentBackendRegistry).  Nothing is said
\* of a catalog that is still asked once its request has failed on another one and
\* has returned its leases.
THEOREM HoldersKeepTheirBackend == Spec => []HeldIsThere
  <1>1. ASSUME AdmissionInv
        PROVE  HeldIsThere
    <2>. SUFFICES ASSUME NEW g \in Generation
                  PROVE  /\ g \notin lost => generation[g].leases = Cardinality(Holders(g))
                         /\ Holders(g) # {} => generation[g].at = "there"
      BY DEF HeldIsThere
    <2>1. Counted(g) /\ GoesUnleased(g)
      BY <1>1 DEF AdmissionInv
    <2>2. Cardinality(Holders(g)) \in Nat /\ (Cardinality(Holders(g)) = 0 <=> Holders(g) = {})
      BY HoldersFinite
    <2>. QED BY <2>1, <2>2 DEF Counted, GoesUnleased
  <1>. QED BY Inductive, <1>1, PTL
=============================================================================
