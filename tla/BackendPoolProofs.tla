-------------------------- MODULE BackendPoolProofs ---------------------------
(***************************************************************************)
(* Proofs about BackendPool, for any sessions, scopes, sources, bounds and *)
(* failures: while the pool is up nobody shuts a composition that somebody *)
(* uses, the count of an open one is the number of its sessions, and when  *)
(* the pool is down everything it ever made has been disposed of.          *)
(***************************************************************************)
EXTENDS BackendPool, FiniteSetTheorems, TLAPS

-----------------------------------------------------------------------------
(* The inductive invariant *)

\* The sessions that count on a composition.
Held == {"creating", "open", "leaving", "failing"}

\* The bounds keep the numbers of compositions and sources within the types.
Bounded == Len(composition) <= MaxCompositions /\ Len(source) <= MaxSources

\* Whoever has asked is on a composition that was asked for.
OnKnown ==
  \A s \in Session :
    /\ session[s].on \in 0..Len(composition)
    /\ session[s].at = "new" <=> session[s].on = Nobody

\* The disposal of the pool has no tasks before it has begun.
NoTasks == ~disposed => pool.left = {}

\* A composition that is not there yet has somebody waiting, and nobody else.
FreshIsAwaited ==
  \A e \in Composition :
    composition[e].at \in {"source", "composing"} =>
      /\ On(e, {"waiting"}) # {}
      /\ \A s \in Session : session[s].on = e => session[s].at = "waiting"

\* What the sessions of a composition say about it.
Allowed(s) ==
  /\ session[s].at \in {"creating", "open", "leaving"} => CompositionOf(s).at = "open"
  /\ session[s].at = "failing" => CompositionOf(s).at \in {"open", "shut", "gone"}
  /\ session[s].at \in {"closing", "dropping", "kept"} => CompositionOf(s).at \in {"shut", "gone"}

Counted(e) ==
  composition[e].at = "open" =>
    composition[e].live = Cardinality(On(e, Held)) /\ composition[e].live > 0

Up ==
  /\ FreshIsAwaited
  /\ \A s \in Session : Allowed(s)
  /\ \A e \in Composition : Counted(e)

Frame == TypeOK /\ Bounded /\ OnKnown /\ NoTasks

PoolInv == Frame /\ (~disposed => Up)

-----------------------------------------------------------------------------
(* Helpers *)

LEMMA SeqUpdated ==
  ASSUME NEW S, NEW q \in Seq(S), NEW r,
         r = [i \in DOMAIN q |-> r[i]], \A i \in DOMAIN q : r[i] \in S
  PROVE  r \in Seq(S) /\ Len(r) = Len(q) /\ DOMAIN r = DOMAIN q
  <1>1. Len(q) \in Nat /\ DOMAIN q = 1..Len(q)
    OBVIOUS
  <1>2. r \in [1..Len(q) -> S] /\ DOMAIN r = 1..Len(q)
    BY <1>1
  <1>. QED BY <1>1, <1>2

LEMMA SeqExtended ==
  ASSUME NEW S, NEW q \in Seq(S), NEW x \in S
  PROVE  /\ Append(q, x) \in Seq(S)
         /\ Len(Append(q, x)) = Len(q) + 1
         /\ DOMAIN Append(q, x) = DOMAIN q \cup {Len(q) + 1}
         /\ Append(q, x)[Len(q) + 1] = x
         /\ \A i \in DOMAIN q : Append(q, x)[i] = q[i]
  OBVIOUS

LEMMA OneLessNat == \A n \in Nat : OneLess(n) \in Nat
  BY DEF OneLess

LEMMA InitFrame == Init => PoolInv
  <1>. SUFFICES ASSUME Init PROVE PoolInv OBVIOUS
  <1>1. TypeOK
    BY KeyAssumption, BoundsAssumption, SMT
       DEF Init, TypeOK, NewSession, Sessions, SessionStates, Pools, Nobody
  <1>2. Bounded /\ OnKnown /\ NoTasks
    BY BoundsAssumption, SMT DEF Init, Bounded, OnKnown, NoTasks, NewSession, Nobody
  <1>3. Up
    BY SMT DEF Init, Up, FreshIsAwaited, Allowed, Counted, Composition, NewSession
  <1>. QED BY <1>1, <1>2, <1>3 DEF PoolInv, Frame

LEMMA AskFrame ==
  ASSUME Frame, NEW k \in Key, AskForSource(k)
  PROVE  /\ source' \in Seq(Sources) /\ Len(source') <= MaxSources
         /\ Len(source) <= Len(source')
         /\ mcpSources' \in [Key -> 0..Len(source')]
         /\ mcpSources'[k] \in 1..Len(source')
  <1>1. CASE mcpSources[k] # Nobody /\ UNCHANGED <<mcpSources, source>>
    BY <1>1, SMT DEF Frame, TypeOK, Bounded, Nobody
  <1>2. CASE /\ mcpSources[k] = Nobody
             /\ Len(source) < MaxSources
             /\ source' = Append(source, [key |-> k, at |-> "starting"])
             /\ mcpSources' = [mcpSources EXCEPT ![k] = Len(source) + 1]
    <2>1. [key |-> k, at |-> "starting"] \in Sources
      BY DEF Sources, SourceStates
    <2>2. source \in Seq(Sources) /\ Len(source) \in Nat
      BY DEF Frame, TypeOK
    <2>3. source' \in Seq(Sources) /\ Len(source') = Len(source) + 1
      BY <1>2, <2>1, <2>2, SeqExtended
    <2>. QED BY <1>2, <2>2, <2>3, BoundsAssumption, SMT DEF Frame, TypeOK, Bounded
  <1>. QED BY <1>1, <1>2 DEF AskForSource

\* The records a step may put in place of a composition or a session.
LEMMA CompositionWith ==
  ASSUME NEW r \in Compositions, NEW a \in CompositionStates
  PROVE  /\ [r EXCEPT !.at = a] \in Compositions
         /\ \A n \in Nat : /\ [r EXCEPT !.live = n] \in Compositions
                          /\ [[r EXCEPT !.live = n] EXCEPT !.at = a] \in Compositions
                          /\ [[r EXCEPT !.at = a] EXCEPT !.live = n] \in Compositions
  BY DEF Compositions

LEMMA SessionWith ==
  ASSUME NEW r \in Sessions, NEW a \in SessionStates
  PROVE  /\ [r EXCEPT !.at = a] \in Sessions
         /\ \A e \in 0..MaxCompositions : [[r EXCEPT !.at = a] EXCEPT !.on = e] \in Sessions
         /\ \A b \in BOOLEAN : /\ [[r EXCEPT !.at = a] EXCEPT !.created = b] \in Sessions
                               /\ [[r EXCEPT !.at = a] EXCEPT !.owned = b] \in Sessions
         /\ \A i \in 0..MaxSources : [[r EXCEPT !.drops = i] EXCEPT !.at = a] \in Sessions
  BY DEF Sessions

LEMMA CompositionsUpdated ==
  ASSUME Frame,
         composition' = [i \in Composition |-> composition'[i]],
         \A i \in Composition : composition'[i] \in Compositions
  PROVE  /\ composition' \in Seq(Compositions)
         /\ Len(composition') = Len(composition)
         /\ Composition' = Composition
  <1>1. composition \in Seq(Compositions)
    BY DEF Frame, TypeOK
  <1>. QED BY <1>1, SeqUpdated DEF Composition

LEMMA SourcesUpdated ==
  ASSUME Frame, NEW i \in Source, NEW a \in SourceStates,
         source' = [source EXCEPT ![i].at = a]
  PROVE  source' \in Seq(Sources) /\ Len(source') = Len(source)
  <1>1. source \in Seq(Sources)
    BY DEF Frame, TypeOK
  <1>2. \A j \in Source : source[j] \in Sources
    BY <1>1 DEF Source
  <1>3. \A j \in Source : source'[j] \in Sources
    BY <1>2 DEF Source, Sources
  <1>4. source' = [j \in Source |-> source'[j]]
    BY DEF Source
  <1>. QED BY <1>1, <1>3, <1>4, SeqUpdated DEF Source

-----------------------------------------------------------------------------
(* Types, step by step *)

\* What the frame says of the parts a step can change.
LEMMA FrameParts ==
  ASSUME Frame
  PROVE  /\ composition \in Seq(Compositions) /\ Len(composition) \in 0..MaxCompositions
         /\ source \in Seq(Sources) /\ Len(source) \in 0..MaxSources
         /\ Composition = 1..Len(composition) /\ Source = 1..Len(source)
         /\ \A e \in Composition : composition[e] \in Compositions
         /\ \A i \in Source : source[i] \in Sources
         /\ session \in [Session -> Sessions]
         /\ \A s \in Session : session[s].at # "new" => session[s].on \in Composition
         /\ pool \in Pools
  <1>1. composition \in Seq(Compositions) /\ source \in Seq(Sources)
    BY DEF Frame, TypeOK
  <1>2. Len(composition) \in Nat /\ Len(source) \in Nat
    BY <1>1
  <1>3. Len(composition) \in 0..MaxCompositions /\ Len(source) \in 0..MaxSources
    BY <1>2, BoundsAssumption, SMT DEF Frame, Bounded
  <1>4. Composition = 1..Len(composition) /\ Source = 1..Len(source)
    BY <1>1 DEF Composition, Source
  <1>5. /\ \A e \in Composition : composition[e] \in Compositions
        /\ \A i \in Source : source[i] \in Sources
    BY <1>1, <1>4
  <1>6. session \in [Session -> Sessions] /\ pool \in Pools
    BY DEF Frame, TypeOK
  <1>7. \A s \in Session : session[s].at # "new" => session[s].on \in Composition
    BY <1>2, <1>4, SMT DEF Frame, OnKnown, Nobody
  <1>. QED BY <1>1, <1>3, <1>4, <1>5, <1>6, <1>7

LEMMA PrewarmMcpFrame ==
  ASSUME Frame, NEW k \in Key, PrewarmMcp(k)
  PROVE  Frame'
  BY AskFrame, SMT DEF PrewarmMcp, Frame, TypeOK, Bounded, OnKnown, NoTasks, disposed

LEMMA CreateAssemblyFrame ==
  ASSUME Frame, NEW s \in Session, NEW c \in Scope, CreateAssembly(s, c)
  PROVE  Frame'
  <1>. DEFINE n == Len(composition)
  <1>0. n \in 0..MaxCompositions
    BY FrameParts
  <1>1. /\ source' \in Seq(Sources) /\ Len(source') <= MaxSources
        /\ mcpSources' \in [Key -> 0..Len(source')]
        /\ composition' \in Seq(Compositions) /\ Len(composition') <= MaxCompositions
        /\ n <= Len(composition')
        /\ entries' \in [Scope -> 0..Len(composition')]
        /\ entries'[c] \in 1..Len(composition')
    <2>1. CASE entries[c] # Nobody /\ UNCHANGED <<entries, mcpSources, source, composition>>
      BY <2>1, SMT DEF Frame, TypeOK, Bounded, Nobody
    <2>2. CASE /\ entries[c] = Nobody
               /\ Len(composition) < MaxCompositions
               /\ AskForSource(KeyOf[c])
               /\ composition' = Append(composition,
                    [scope |-> c, source |-> mcpSources'[KeyOf[c]], at |-> "source", live |-> 0])
               /\ entries' = [entries EXCEPT ![c] = Len(composition) + 1]
      <3>1. KeyOf[c] \in Key
        BY KeyAssumption
      <3>2. /\ source' \in Seq(Sources) /\ Len(source') <= MaxSources
            /\ mcpSources' \in [Key -> 0..Len(source')]
            /\ mcpSources'[KeyOf[c]] \in 1..Len(source')
        BY <2>2, <3>1, AskFrame
      <3>3. Len(source') \in Nat
        BY <3>2
      <3>4. mcpSources'[KeyOf[c]] \in 1..MaxSources
        BY <3>2, <3>3, BoundsAssumption, SMT
      <3>5. [scope |-> c, source |-> mcpSources'[KeyOf[c]], at |-> "source", live |-> 0] \in Compositions
        BY <3>4, SMT DEF Compositions, CompositionStates
      <3>6. composition' \in Seq(Compositions) /\ Len(composition') = n + 1
        BY <2>2, <3>5, FrameParts, SeqExtended
      <3>7. entries \in [Scope -> 0..n]
        BY DEF Frame, TypeOK
      <3>8. entries' \in [Scope -> 0..(n + 1)] /\ entries'[c] = n + 1
        BY <2>2, <3>7, <1>0, SMT
      <3>9. n + 1 <= MaxCompositions
        BY <2>2, <1>0, BoundsAssumption, SMT
      <3>. QED BY <3>2, <3>6, <3>8, <3>9, <1>0, BoundsAssumption, SMT
    <2>. QED BY <2>1, <2>2 DEF CreateAssembly
  <1>2. Len(composition') \in Nat
    BY <1>1
  <1>3. session' \in [Session -> Sessions] /\ OnKnown'
    <2>1. session' = [session EXCEPT ![s].at = "waiting", ![s].on = entries'[c]]
      BY DEF CreateAssembly
    <2>2. entries'[c] \in 1..MaxCompositions
      BY <1>1, <1>2, BoundsAssumption, SMT
    <2>3. session' = [t \in Session |-> IF t = s
            THEN [[session[s] EXCEPT !.at = "waiting"] EXCEPT !.on = entries'[c]] ELSE session[t]]
      BY <2>1, FrameParts
    <2>4. session' \in [Session -> Sessions]
      <3>1. session[s] \in Sessions /\ "waiting" \in SessionStates /\ entries'[c] \in 0..MaxCompositions
        BY <2>2, FrameParts, BoundsAssumption, SMT DEF SessionStates
      <3>2. [[session[s] EXCEPT !.at = "waiting"] EXCEPT !.on = entries'[c]] \in Sessions
        BY <3>1, SessionWith
      <3>. QED BY <2>3, <3>2, FrameParts
    <2>5. \A t \in Session : /\ session'[t].at = IF t = s THEN "waiting" ELSE session[t].at
                             /\ session'[t].on = IF t = s THEN entries'[c] ELSE session[t].on
      BY <2>3, FrameParts DEF Sessions
    <2>. QED BY <2>4, <2>5, <1>0, <1>1, <1>2, SMT DEF Frame, OnKnown, Nobody
  <1>4. resolvedEntries' \in [Scope -> 0..Len(composition')]
    BY <1>0, <1>1, <1>2, SMT DEF CreateAssembly, Frame, TypeOK
  <1>. QED BY <1>1, <1>3, <1>4 DEF CreateAssembly, Frame, TypeOK, Bounded, NoTasks, disposed

LEMMA SourceStartsFrame ==
  ASSUME Frame, NEW i \in Source, SourceStarts(i)
  PROVE  Frame'
  <1>1. source' \in Seq(Sources) /\ Len(source') = Len(source)
    BY SourcesUpdated DEF SourceStarts, SourceStates
  <1>. QED BY <1>1, SMT DEF SourceStarts, maps, Frame, TypeOK, Bounded, OnKnown, NoTasks, disposed

LEMMA SourceFailsFrame ==
  ASSUME Frame, NEW i \in Source, SourceFails(i)
  PROVE  Frame'
  <1>1. source' \in Seq(Sources) /\ Len(source') = Len(source)
    BY SourcesUpdated DEF SourceFails, SourceStates
  <1>2. source[i].key \in Key
    BY FrameParts DEF Sources
  <1>3. mcpSources' \in [Key -> 0..Len(source)]
    BY <1>2, FrameParts, SMT DEF SourceFails, Frame, TypeOK, Nobody
  <1>. QED BY <1>1, <1>3, SMT DEF SourceFails, Fault, FaultKinds, Frame, TypeOK, Bounded, OnKnown, NoTasks, disposed

LEMMA StartComposingFrame ==
  ASSUME Frame, NEW e \in Composition, StartComposing(e)
  PROVE  Frame'
  <1>1. composition' \in Seq(Compositions) /\ Len(composition') = Len(composition)
    <2>1. composition' = [i \in Composition |->
            IF i = e THEN [composition[e] EXCEPT !.at = "composing"] ELSE composition[i]]
      BY FrameParts DEF StartComposing, Composition
    <2>2. \A i \in Composition : composition'[i] \in Compositions
      <3>1. [composition[e] EXCEPT !.at = "composing"] \in Compositions
        BY FrameParts, CompositionWith DEF CompositionStates
      <3>. QED BY <2>1, <3>1, FrameParts
    <2>. QED BY <2>1, <2>2, CompositionsUpdated
  <1>. QED BY <1>1, SMT DEF StartComposing, maps, Frame, TypeOK, Bounded, OnKnown, NoTasks, disposed

\* One composition, or one session, becomes another record.
LEMMA CompositionBecomes ==
  ASSUME Frame, NEW e \in Composition, NEW r \in Compositions,
         composition' = [i \in Composition |-> IF i = e THEN r ELSE composition[i]]
  PROVE  /\ composition' \in Seq(Compositions)
         /\ Len(composition') = Len(composition)
         /\ Composition' = Composition
  <1>1. \A i \in Composition : composition'[i] \in Compositions
    BY FrameParts
  <1>. QED BY <1>1, CompositionsUpdated

LEMMA SessionBecomes ==
  ASSUME Frame, NEW s \in Session, NEW r \in Sessions,
         session[s].at # "new", r.at # "new", r.on = session[s].on,
         session' = [t \in Session |-> IF t = s THEN r ELSE session[t]],
         Len(composition') = Len(composition)
  PROVE  /\ session' \in [Session -> Sessions]
         /\ OnKnown'
         /\ \A t \in Session : /\ session'[t].at = IF t = s THEN r.at ELSE session[t].at
                               /\ session'[t].on = session[t].on
  <1>1. session' \in [Session -> Sessions]
    BY FrameParts
  <1>2. \A t \in Session : /\ session'[t].at = IF t = s THEN r.at ELSE session[t].at
                           /\ session'[t].on = session[t].on
    OBVIOUS
  <1>. QED BY <1>1, <1>2 DEF Frame, OnKnown

LEMMA SessionMoves ==
  ASSUME Frame, NEW s \in Session, NEW a \in SessionStates \ {"new"},
         session[s].at # "new", session' = [session EXCEPT ![s].at = a],
         Len(composition') = Len(composition)
  PROVE  /\ session' \in [Session -> Sessions]
         /\ OnKnown'
         /\ \A t \in Session : /\ session'[t].at = IF t = s THEN a ELSE session[t].at
                               /\ session'[t].on = session[t].on
  <1>. DEFINE r == [session[s] EXCEPT !.at = a]
  <1>1. r \in Sessions
    BY FrameParts, SessionWith
  <1>2. r.at = a /\ r.on = session[s].on
    BY FrameParts DEF Sessions
  <1>3. session' = [t \in Session |-> IF t = s THEN r ELSE session[t]]
    BY FrameParts
  <1>. QED BY <1>1, <1>2, <1>3, SessionBecomes

\* The frame from its parts, for steps that ask for no composition or source.
LEMMA FrameFromParts ==
  ASSUME Frame,
         composition' \in Seq(Compositions), Len(composition') = Len(composition),
         source' \in Seq(Sources), Len(source') = Len(source),
         session' \in [Session -> Sessions], OnKnown',
         entries' \in [Scope -> 0..Len(composition)],
         resolvedEntries' \in [Scope -> 0..Len(composition)],
         mcpSources' \in [Key -> 0..Len(source)], mcpCounts' \in [Key -> Nat],
         pool' \in Pools, NoTasks', faults' \subseteq FaultKinds
  PROVE  Frame'
  BY DEF Frame, TypeOK, Bounded

LEMMA FrameMaps ==
  ASSUME Frame
  PROVE  /\ entries \in [Scope -> 0..Len(composition)]
         /\ resolvedEntries \in [Scope -> 0..Len(composition)]
         /\ mcpSources \in [Key -> 0..Len(source)] /\ mcpCounts \in [Key -> Nat]
         /\ pool \in Pools /\ faults \subseteq FaultKinds
         /\ OnKnown /\ NoTasks
  BY DEF Frame, TypeOK

LEMMA FaultTyped == ASSUME Frame, NEW k \in FaultKinds, Fault(k) PROVE faults' \subseteq FaultKinds
  BY FrameMaps DEF Fault

\* Everybody who waited for a composition goes on at once.
LEMMA WaitersMove ==
  ASSUME Frame, NEW e \in Composition, NEW a \in SessionStates \ {"new"},
         session' = [s \in Session |->
           IF s \in On(e, {"waiting"}) THEN [session[s] EXCEPT !.at = a] ELSE session[s]],
         Len(composition') = Len(composition)
  PROVE  /\ session' \in [Session -> Sessions]
         /\ OnKnown'
         /\ \A t \in Session :
              /\ session'[t].at = IF t \in On(e, {"waiting"}) THEN a ELSE session[t].at
              /\ session'[t].on = session[t].on
  <1>1. \A s \in Session : [session[s] EXCEPT !.at = a] \in Sessions
    BY FrameParts, SessionWith
  <1>2. session' \in [Session -> Sessions]
    BY <1>1, FrameParts
  <1>3. \A t \in Session :
              /\ session'[t].at = IF t \in On(e, {"waiting"}) THEN a ELSE session[t].at
              /\ session'[t].on = session[t].on
    BY FrameParts DEF Sessions
  <1>4. \A t \in On(e, {"waiting"}) : session[t].at # "new"
    BY DEF On
  <1>5. \A t \in Session : session'[t].at = "new" <=> session[t].at = "new"
    BY <1>3, <1>4
  <1>. QED BY <1>2, <1>3, <1>5 DEF Frame, OnKnown

LEMMA ComposedFrame ==
  ASSUME Frame, NEW e \in Composition, Composed(e)
  PROVE  Frame'
  <1>. DEFINE c == composition[e].scope
              a == IF disposed THEN "refused" ELSE "creating"
              n == IF disposed THEN 0 ELSE Waiters(e)
              r == [[composition[e] EXCEPT !.at = "open"] EXCEPT !.live = n]
  <1>1. c \in Scope /\ KeyOf[c] \in Key
    BY FrameParts, KeyAssumption DEF Compositions
  <1>2. n \in Nat
    BY SessionAssumption, FS_Subset, FS_CardinalityType DEF Waiters, On
  <1>3. r \in Compositions
    BY <1>2, FrameParts, CompositionWith DEF CompositionStates
  <1>4. composition' = [i \in Composition |-> IF i = e THEN r ELSE composition[i]]
    BY FrameParts DEF Composed, Composition
  <1>5. composition' \in Seq(Compositions) /\ Len(composition') = Len(composition)
    BY <1>3, <1>4, CompositionBecomes
  <1>6. a \in SessionStates \ {"new"}
    BY DEF SessionStates
  <1>7. session' \in [Session -> Sessions] /\ OnKnown'
    BY <1>5, <1>6, WaitersMove DEF Composed
  <1>8. resolvedEntries' \in [Scope -> 0..Len(composition)]
    BY <1>1, FrameParts, FrameMaps, SMT DEF Composed
  <1>9. mcpCounts' \in [Key -> Nat]
    BY <1>1, FrameMaps, SMT DEF Composed
  <1>10. source' \in Seq(Sources) /\ Len(source') = Len(source)
    BY FrameParts DEF Composed
  <1>11. NoTasks'
    BY FrameMaps DEF Composed, NoTasks, disposed
  <1>. QED BY <1>5, <1>7, <1>8, <1>9, <1>10, <1>11, FrameMaps, FrameFromParts DEF Composed

LEMMA EntryFailsFrame ==
  ASSUME Frame, NEW e \in Composition, EntryFails(e)
  PROVE  Frame'
  <1>. DEFINE r == [composition[e] EXCEPT !.at = "failed"]
  <1>1. composition[e].scope \in Scope
    BY FrameParts DEF Compositions
  <1>2. r \in Compositions
    BY FrameParts, CompositionWith DEF CompositionStates
  <1>3. composition' = [i \in Composition |-> IF i = e THEN r ELSE composition[i]]
    BY FrameParts DEF EntryFails, Composition
  <1>4. composition' \in Seq(Compositions) /\ Len(composition') = Len(composition)
    BY <1>2, <1>3, CompositionBecomes
  <1>5. session' \in [Session -> Sessions] /\ OnKnown'
    BY <1>4, WaitersMove DEF EntryFails, SessionStates
  <1>6. entries' \in [Scope -> 0..Len(composition)]
    BY <1>1, FrameParts, FrameMaps, SMT DEF EntryFails, Nobody
  <1>7. faults' \subseteq FaultKinds
    BY FrameMaps, FaultTyped DEF EntryFails, FaultKinds
  <1>8. source' \in Seq(Sources) /\ Len(source') = Len(source)
    BY FrameParts DEF EntryFails
  <1>9. NoTasks'
    BY FrameMaps DEF EntryFails, NoTasks, disposed
  <1>. QED BY <1>4, <1>5, <1>6, <1>7, <1>8, <1>9, FrameMaps, FrameFromParts DEF EntryFails

LEMMA EnterFrame ==
  ASSUME Frame, NEW s \in Session, Enter(s)
  PROVE  Frame'
  <1>. DEFINE e == session[s].on
              r == [composition[e] EXCEPT !.live = composition[e].live + 1]
  <1>1. session[s].at # "new" /\ e \in Composition
    BY FrameParts DEF Enter
  <1>2. composition' \in Seq(Compositions) /\ Len(composition') = Len(composition)
    <2>1. CASE disposed
      BY <2>1, FrameParts DEF Enter
    <2>2. CASE ~disposed
      <3>1. composition[e].live + 1 \in Nat
        BY <1>1, FrameParts DEF Compositions
      <3>2. r \in Compositions
        BY <1>1, <3>1, FrameParts, CompositionWith DEF Compositions
      <3>3. composition' = [i \in Composition |-> IF i = e THEN r ELSE composition[i]]
        BY <1>1, <2>2, FrameParts DEF Enter, Composition
      <3>. QED BY <1>1, <3>2, <3>3, CompositionBecomes
    <2>. QED BY <2>1, <2>2
  <1>3. \E a \in SessionStates \ {"new"} : session' = [session EXCEPT ![s].at = a]
    BY DEF Enter, SessionStates
  <1>4. session' \in [Session -> Sessions] /\ OnKnown'
    BY <1>1, <1>2, <1>3, SessionMoves
  <1>5. source' \in Seq(Sources) /\ Len(source') = Len(source)
    BY FrameParts DEF Enter
  <1>6. NoTasks'
    BY FrameMaps DEF Enter, NoTasks, disposed
  <1>. QED BY <1>2, <1>4, <1>5, <1>6, FrameMaps, FrameFromParts DEF Enter, maps

\* Steps of a session alone.
LEMMA CreatedFrame ==
  ASSUME Frame, NEW s \in Session, Created(s)
  PROVE  Frame'
  <1>. DEFINE r == [[session[s] EXCEPT !.at = "open"] EXCEPT !.created = TRUE]
  <1>0. r \in Sessions
    BY FrameParts, SessionWith DEF SessionStates
  <1>1. r \in Sessions /\ r.at = "open" /\ r.on = session[s].on
    BY <1>0, FrameParts DEF Sessions
  <1>2. session' = [t \in Session |-> IF t = s THEN r ELSE session[t]]
    BY FrameParts DEF Created
  <1>3. Len(composition') = Len(composition) /\ session[s].at # "new"
    BY DEF Created
  <1>4. session' \in [Session -> Sessions] /\ OnKnown'
    BY <1>1, <1>2, <1>3, SessionBecomes
  <1>5. NoTasks'
    BY FrameMaps DEF Created, NoTasks, disposed
  <1>. QED BY <1>4, <1>5, FrameParts, FrameMaps, FrameFromParts DEF Created, maps

LEMMA MoveFrame ==
  ASSUME Frame, NEW s \in Session,
         CreationFails(s) \/ Dispose(s) \/ DisposeFails(s) \/ DropFails(s)
  PROVE  Frame'
  <1>1. UNCHANGED <<maps, composition, source, pool>> /\ session[s].at # "new"
    BY DEF CreationFails, Dispose, DisposeFails, DropFails
  <1>2. \E a \in SessionStates \ {"new"} : session' = [session EXCEPT ![s].at = a]
    BY DEF CreationFails, Dispose, DisposeFails, DropFails, Again, SessionStates
  <1>3. session' \in [Session -> Sessions] /\ OnKnown'
    BY <1>1, <1>2, SessionMoves
  <1>4. faults' \subseteq FaultKinds
    BY FrameMaps, FaultTyped DEF CreationFails, Dispose, DisposeFails, DropFails, FaultKinds
  <1>5. NoTasks'
    BY <1>1, FrameMaps DEF NoTasks, disposed
  <1>. QED BY <1>1, <1>3, <1>4, <1>5, FrameParts, FrameMaps, FrameFromParts DEF maps

LEMMA OverTyped ==
  \A s \in Session : Over(s) \in SessionStates \ {"new"} /\ Again(s) \in SessionStates \ {"new"}
  BY DEF Over, Again, SessionStates

LEMMA ReleaseFrame ==
  ASSUME Frame, NEW s \in Session, Release(s)
  PROVE  Frame'
  <1>. DEFINE e == session[s].on
              c == composition[e].scope
              live == OneLess(composition[e].live)
              owned == resolvedEntries[c] = e
  <1>1. session[s].at # "new" /\ e \in Composition
    BY FrameParts DEF Release
  <1>2. c \in Scope /\ composition[e].live \in Nat /\ composition[e].at \in CompositionStates
    BY <1>1, FrameParts DEF Compositions
  <1>3. live \in Nat
    BY <1>2, OneLessNat
  <1>4. composition' \in Seq(Compositions) /\ Len(composition') = Len(composition)
    <2>1. CASE UNCHANGED composition
      BY <2>1, FrameParts
    <2>2. CASE composition' = [composition EXCEPT ![e].live = live]
      <3>. DEFINE r == [composition[e] EXCEPT !.live = live]
      <3>1. r \in Compositions
        BY <1>1, <1>2, <1>3, FrameParts, CompositionWith
      <3>2. composition' = [i \in Composition |-> IF i = e THEN r ELSE composition[i]]
        BY <1>1, <2>2, FrameParts DEF Composition
      <3>. QED BY <1>1, <3>1, <3>2, CompositionBecomes
    <2>3. CASE composition' = [composition EXCEPT ![e].live = live,
                                 ![e].at = IF @ = "open" THEN "shut" ELSE @]
      <3>. DEFINE a == IF composition[e].at = "open" THEN "shut" ELSE composition[e].at
                  r == [[composition[e] EXCEPT !.live = live] EXCEPT !.at = a]
      <3>1. a \in CompositionStates
        BY <1>2 DEF CompositionStates
      <3>2. r \in Compositions
        BY <1>1, <1>3, <3>1, FrameParts, CompositionWith
      <3>3. composition' = [i \in Composition |-> IF i = e THEN r ELSE composition[i]]
        BY <1>1, <2>3, FrameParts DEF Composition, Compositions
      <3>. QED BY <1>1, <3>2, <3>3, CompositionBecomes
    <2>. QED BY <2>1, <2>2, <2>3 DEF Release
  <1>5. session' \in [Session -> Sessions] /\ OnKnown'
    <2>1. CASE session' = [session EXCEPT ![s].at = Over(s)]
      BY <1>1, <1>4, <2>1, OverTyped, SessionMoves
    <2>2. CASE session' = [session EXCEPT ![s].at = "closing", ![s].owned = owned]
      <3>. DEFINE r == [[session[s] EXCEPT !.at = "closing"] EXCEPT !.owned = owned]
      <3>1. r \in Sessions
        BY FrameParts, SessionWith DEF SessionStates
      <3>2. r.at = "closing" /\ r.on = session[s].on
        BY FrameParts DEF Sessions
      <3>3. session' = [t \in Session |-> IF t = s THEN r ELSE session[t]]
        BY <2>2, FrameParts
      <3>. QED BY <1>1, <1>4, <3>1, <3>2, <3>3, SessionBecomes
    <2>. QED BY <2>1, <2>2 DEF Release
  <1>6. /\ entries' \in [Scope -> 0..Len(composition)]
        /\ resolvedEntries' \in [Scope -> 0..Len(composition)]
    <2>1. CASE UNCHANGED <<entries, resolvedEntries>>
      BY <2>1, FrameMaps
    <2>2. CASE /\ entries' = [entries EXCEPT ![c] = Nobody]
               /\ resolvedEntries' = [resolvedEntries EXCEPT ![c] = Nobody]
      BY <1>2, <2>2, FrameParts, FrameMaps, SMT DEF Nobody
    <2>. QED BY <2>1, <2>2 DEF Release, maps
  <1>7. mcpSources' \in [Key -> 0..Len(source)] /\ mcpCounts' \in [Key -> Nat]
    BY FrameMaps DEF Release, maps
  <1>8. source' \in Seq(Sources) /\ Len(source') = Len(source)
    BY FrameParts DEF Release
  <1>9. NoTasks' /\ pool' \in Pools /\ faults' \subseteq FaultKinds
    BY FrameMaps DEF Release, NoTasks, disposed
  <1>. QED BY <1>4, <1>5, <1>6, <1>7, <1>8, <1>9, FrameFromParts

LEMMA ClosedFrame ==
  ASSUME Frame, NEW s \in Session, Closed(s)
  PROVE  Frame'
  <1>. DEFINE e == session[s].on
              k == KeyOf[composition[e].scope]
              remaining == OneLess(mcpCounts[k])
  <1>1. session[s].at # "new" /\ e \in Composition
    BY FrameParts DEF Closed
  <1>2. k \in Key
    BY <1>1, FrameParts, KeyAssumption DEF Compositions
  <1>3. remaining \in Nat
    BY <1>2, OneLessNat, FrameMaps
  <1>4. composition' \in Seq(Compositions) /\ Len(composition') = Len(composition)
    <2>. DEFINE r == [composition[e] EXCEPT !.at = "gone"]
    <2>1. r \in Compositions
      BY <1>1, FrameParts, CompositionWith DEF CompositionStates
    <2>2. composition' = [i \in Composition |-> IF i = e THEN r ELSE composition[i]]
      BY <1>1, FrameParts DEF Closed, Composition
    <2>. QED BY <1>1, <2>1, <2>2, CompositionBecomes
  <1>5. session' \in [Session -> Sessions] /\ OnKnown'
    <2>1. CASE session' = [session EXCEPT ![s].at = Over(s)]
      BY <1>1, <1>4, <2>1, OverTyped, SessionMoves
    <2>2. CASE session' = [session EXCEPT ![s].drops = mcpSources[k],
                 ![s].at = IF mcpSources[k] = Nobody THEN Over(s) ELSE "dropping"]
      <3>. DEFINE a == IF mcpSources[k] = Nobody THEN Over(s) ELSE "dropping"
                  r == [[session[s] EXCEPT !.drops = mcpSources[k]] EXCEPT !.at = a]
      <3>1. a \in SessionStates \ {"new"}
        BY DEF Over, SessionStates
      <3>2. mcpSources[k] \in 0..MaxSources
        BY <1>2, FrameMaps, FrameParts, BoundsAssumption, SMT
      <3>3. r \in Sessions
        BY <3>1, <3>2, FrameParts, SessionWith
      <3>4. r.at = a /\ r.on = session[s].on
        BY FrameParts DEF Sessions
      <3>5. session' = [t \in Session |-> IF t = s THEN r ELSE session[t]]
        BY <2>2, FrameParts
      <3>. QED BY <1>1, <1>4, <3>1, <3>3, <3>4, <3>5, SessionBecomes
    <2>. QED BY <2>1, <2>2 DEF Closed
  <1>6. mcpSources' \in [Key -> 0..Len(source)] /\ mcpCounts' \in [Key -> Nat]
    <2>1. CASE UNCHANGED <<mcpSources, mcpCounts>>
      BY <2>1, FrameMaps
    <2>2. CASE mcpCounts' = [mcpCounts EXCEPT ![k] = remaining] /\ UNCHANGED mcpSources
      BY <1>3, <2>2, FrameMaps
    <2>3. CASE mcpCounts' = [mcpCounts EXCEPT ![k] = 0] /\ mcpSources' = [mcpSources EXCEPT ![k] = Nobody]
      <3>1. mcpSources \in [Key -> 0..Len(source)] /\ Len(source) \in Nat
        BY FrameMaps, FrameParts
      <3>2. Nobody \in 0..Len(source) /\ 0 \in Nat
        BY <3>1, SMT DEF Nobody
      <3>. QED BY <2>3, <3>1, <3>2, FrameMaps
    <2>. QED BY <2>1, <2>2, <2>3 DEF Closed
  <1>7. source' \in Seq(Sources) /\ Len(source') = Len(source)
    BY FrameParts DEF Closed
  <1>8. NoTasks' /\ pool' \in Pools /\ faults' \subseteq FaultKinds
    BY FrameMaps DEF Closed, NoTasks, disposed
  <1>. QED BY <1>4, <1>5, <1>6, <1>7, <1>8, FrameMaps, FrameFromParts DEF Closed

LEMMA CloseFailsFrame ==
  ASSUME Frame, NEW s \in Session, CloseFails(s)
  PROVE  Frame'
  <1>. DEFINE e == session[s].on
              c == composition[e].scope
  <1>1. session[s].at # "new" /\ e \in Composition /\ UNCHANGED composition
    BY FrameParts DEF CloseFails
  <1>2. c \in Scope
    BY <1>1, FrameParts DEF Compositions
  <1>3. session' \in [Session -> Sessions] /\ OnKnown'
    BY <1>1, SessionMoves DEF CloseFails, Again, SessionStates
  <1>4. /\ entries' \in [Scope -> 0..Len(composition)]
        /\ resolvedEntries' \in [Scope -> 0..Len(composition)]
    <2>1. e \in 0..Len(composition)
      BY <1>1, FrameParts, SMT
    <2>2. CASE UNCHANGED <<entries, resolvedEntries>>
      BY <2>2, FrameMaps
    <2>3. CASE /\ entries' = [entries EXCEPT ![c] = e]
               /\ resolvedEntries' = [resolvedEntries EXCEPT ![c] = e]
      BY <2>1, <2>3, FrameMaps
    <2>. QED BY <2>2, <2>3 DEF CloseFails
  <1>5. faults' \subseteq FaultKinds
    BY FrameMaps, FaultTyped DEF CloseFails, FaultKinds
  <1>6. NoTasks'
    BY FrameMaps DEF CloseFails, NoTasks, disposed
  <1>. QED BY <1>1, <1>3, <1>4, <1>5, <1>6, FrameMaps, FrameParts, FrameFromParts DEF CloseFails

LEMMA DroppedFrame ==
  ASSUME Frame, NEW s \in Session, Dropped(s)
  PROVE  Frame'
  <1>. DEFINE i == session[s].drops
  <1>1. session[s].at # "new" /\ UNCHANGED composition
    BY DEF Dropped
  <1>2. session' \in [Session -> Sessions] /\ OnKnown'
    BY <1>1, SessionMoves DEF Dropped, Over, SessionStates
  <1>3. source' \in Seq(Sources) /\ Len(source') = Len(source)
    <2>1. CASE i \in Source
      <3>1. (IF source[i].at = "failed" THEN source[i].at ELSE "gone") \in SourceStates
        BY DEF SourceStates
      <3>2. source' = [source EXCEPT ![i].at = IF source[i].at = "failed" THEN source[i].at ELSE "gone"]
        BY DEF Dropped
      <3>. QED BY <2>1, <3>1, <3>2, SourcesUpdated
    <2>2. CASE i \notin Source
      <3>1. source' = [j \in Source |-> source[j]]
        BY <2>2 DEF Dropped, Source
      <3>2. source = [j \in Source |-> source[j]]
        BY FrameParts DEF Source
      <3>. QED BY <3>1, <3>2, FrameParts
    <2>. QED BY <2>1, <2>2
  <1>4. NoTasks'
    BY FrameMaps DEF Dropped, NoTasks, disposed
  <1>. QED BY <1>1, <1>2, <1>3, <1>4, FrameMaps, FrameParts, FrameFromParts DEF Dropped, maps

LEMMA PoolAt ==
  ASSUME NEW r \in Pools, NEW x \in {"up", "closing", "stuck", "down"}
  PROVE  [r EXCEPT !.at = x] \in Pools /\ [r EXCEPT !.at = x].at = x
  BY DEF Pools

LEMMA PoolPhase ==
  ASSUME NEW r \in Pools, NEW x \in 0..1
  PROVE  [r EXCEPT !.phase = x] \in Pools /\ [r EXCEPT !.phase = x].at = r.at
  BY DEF Pools

LEMMA PoolLeft ==
  ASSUME NEW r \in Pools, NEW x \in SUBSET (1..MaxCompositions + MaxSources)
  PROVE  [r EXCEPT !.left = x] \in Pools /\ [r EXCEPT !.left = x].at = r.at
  BY DEF Pools

LEMMA PoolCompositions ==
  ASSUME NEW r \in Pools, NEW x \in SUBSET (1..MaxCompositions)
  PROVE  [r EXCEPT !.compositions = x] \in Pools /\ [r EXCEPT !.compositions = x].at = r.at
  BY DEF Pools

LEMMA PoolSources ==
  ASSUME NEW r \in Pools, NEW x \in SUBSET (1..MaxSources)
  PROVE  [r EXCEPT !.sources = x] \in Pools /\ [r EXCEPT !.sources = x].at = r.at
  BY DEF Pools

LEMMA PoolStepsFrame ==
  ASSUME Frame, DisposePool \/ PhaseEnds
  PROVE  Frame' /\ disposed'
  <1>1. Promised \subseteq 1..MaxCompositions
    <2>1. \A c \in Scope : entries[c] \in 0..MaxCompositions
      BY FrameMaps, FrameParts, BoundsAssumption, SMT
    <2>. QED BY <2>1, BoundsAssumption, SMT DEF Promised, Nobody
  <1>2. {mcpSources[k] : k \in Key} \ {Nobody} \subseteq 1..MaxSources
    <2>1. \A k \in Key : mcpSources[k] \in 0..MaxSources
      BY FrameMaps, FrameParts, BoundsAssumption, SMT
    <2>. QED BY <2>1, BoundsAssumption, SMT DEF Nobody
  <1>3. /\ 1..MaxCompositions \subseteq 1..MaxCompositions + MaxSources
        /\ 1..MaxSources \subseteq 1..MaxCompositions + MaxSources
    BY BoundsAssumption, SMT
  <1>4. pool' \in Pools /\ pool'.at # "up"
    <2>1. CASE DisposePool
      <3>1. CASE pool' = [at |-> "closing", phase |-> 0, compositions |-> Promised,
                          sources |-> {mcpSources[k] : k \in Key} \ {Nobody}, left |-> Promised]
        <4>1. Promised \subseteq 1..MaxCompositions + MaxSources
          BY <1>1, <1>3
        <4>. QED BY <1>1, <1>2, <3>1, <4>1, SMT DEF Pools
      <3>2. CASE pool' = [pool EXCEPT !.at = "closing", !.phase = 0, !.left = pool.compositions]
        <4>1. pool.compositions \subseteq 1..MaxCompositions + MaxSources
          BY <1>3, FrameMaps DEF Pools
        <4>2. [pool EXCEPT !.left = pool.compositions] \in Pools
          BY <4>1, FrameMaps, PoolLeft
        <4>0. 0 \in 0..1 /\ 1 \in 0..1
          BY SMT
        <4>3. [[pool EXCEPT !.left = pool.compositions] EXCEPT !.phase = 0] \in Pools
          BY <4>0, <4>2, PoolPhase
        <4>. DEFINE r == [[pool EXCEPT !.left = pool.compositions] EXCEPT !.phase = 0]
        <4>4. [r EXCEPT !.at = "closing"] \in Pools /\ [r EXCEPT !.at = "closing"].at = "closing"
          BY <4>3, PoolAt
        <4>5. pool' = [r EXCEPT !.at = "closing"]
          BY <3>2, FrameMaps DEF Pools
        <4>. QED BY <4>4, <4>5
      <3>. QED BY <2>1, <3>1, <3>2 DEF DisposePool
    <2>2. CASE PhaseEnds
      <3>1. pool.sources \subseteq 1..MaxCompositions + MaxSources
        BY <1>3, FrameMaps DEF Pools
      <3>2. CASE pool' = [pool EXCEPT !.phase = 1, !.left = pool.sources] /\ pool.at = "closing"
        <4>. DEFINE r == [pool EXCEPT !.left = pool.sources]
        <4>1. r \in Pools /\ r.at = pool.at
          BY <3>1, FrameMaps, PoolLeft
        <4>0. 1 \in 0..1
          BY SMT
        <4>2. [r EXCEPT !.phase = 1] \in Pools /\ [r EXCEPT !.phase = 1].at = pool.at
          BY <4>0, <4>1, PoolPhase
        <4>3. pool' = [r EXCEPT !.phase = 1]
          BY <3>2, FrameMaps DEF Pools
        <4>. QED BY <3>2, <4>2, <4>3
      <3>3. CASE pool' = [pool EXCEPT !.at = "stuck"] \/ pool' = [pool EXCEPT !.at = "down"]
        BY <3>3, FrameMaps, PoolAt
      <3>. QED BY <2>2, <3>2, <3>3 DEF PhaseEnds
    <2>. QED BY <2>1, <2>2
  <1>5. NoTasks' /\ OnKnown'
    BY <1>4, FrameMaps DEF NoTasks, disposed, OnKnown, DisposePool, PhaseEnds
  <1>6. /\ entries' \in [Scope -> 0..Len(composition)]
        /\ resolvedEntries' \in [Scope -> 0..Len(composition)]
        /\ mcpSources' \in [Key -> 0..Len(source)] /\ mcpCounts' \in [Key -> Nat]
    <2>1. CASE UNCHANGED maps
      BY <2>1, FrameMaps DEF maps
    <2>2. CASE /\ entries' = [c \in Scope |-> Nobody] /\ resolvedEntries' = [c \in Scope |-> Nobody]
               /\ mcpSources' = [k \in Key |-> Nobody] /\ mcpCounts' = [k \in Key |-> 0]
      BY <2>2, FrameParts, SMT DEF Nobody
    <2>. QED BY <2>1, <2>2 DEF DisposePool, PhaseEnds
  <1>. QED BY <1>4, <1>5, <1>6, FrameMaps, FrameParts, FrameFromParts
       DEF DisposePool, PhaseEnds, disposed

\* The tasks of the disposal.
LEMMA TasksFrame ==
  ASSUME Frame,
         \/ \E e \in Composition : ShutComposition(e) \/ CleanComposition(e)
         \/ \E i \in Source : CleanSource(i)
         \/ \E x \in Composition \cup Source : CleanFails(x)
  PROVE  Frame' /\ disposed /\ disposed'
  <1>1. pool.left # {}
    BY DEF ShutComposition, CleanComposition, CleanSource, CleanFails
  <1>2. pool.at # "up"
    BY <1>1, FrameMaps DEF NoTasks, disposed
  <1>3. pool' \in Pools /\ pool'.at # "up"
    <2>1. \A x : pool.left \ {x} \in SUBSET (1..MaxCompositions + MaxSources)
      BY FrameMaps DEF Pools
    <2>2. CASE UNCHANGED pool
      BY <1>2, <2>2, FrameMaps
    <2>3. CASE \E x \in Composition \cup Source : CleanFails(x)
      BY <1>2, <2>1, <2>3, FrameMaps, PoolLeft DEF CleanFails
    <2>4. CASE \E e \in Composition : CleanComposition(e)
      <3>1. PICK e \in Composition : CleanComposition(e)
        BY <2>4
      <3>. DEFINE r == [pool EXCEPT !.left = pool.left \ {e}]
                  q == [r EXCEPT !.compositions = pool.compositions \ {e}]
      <3>2. r \in Pools /\ r.at = pool.at
        BY <2>1, FrameMaps, PoolLeft
      <3>3. pool.compositions \ {e} \in SUBSET (1..MaxCompositions)
        BY FrameMaps DEF Pools
      <3>4. q \in Pools /\ q.at = pool.at
        BY <3>2, <3>3, PoolCompositions
      <3>5. pool' = q
        BY <3>1, FrameMaps DEF CleanComposition, Pools
      <3>. QED BY <1>2, <3>4, <3>5
    <2>5. CASE \E i \in Source : CleanSource(i)
      <3>1. PICK i \in Source : CleanSource(i)
        BY <2>5
      <3>. DEFINE r == [pool EXCEPT !.left = pool.left \ {i}]
                  q == [r EXCEPT !.sources = pool.sources \ {i}]
      <3>2. r \in Pools /\ r.at = pool.at
        BY <2>1, FrameMaps, PoolLeft
      <3>3. pool.sources \ {i} \in SUBSET (1..MaxSources)
        BY FrameMaps DEF Pools
      <3>4. q \in Pools /\ q.at = pool.at
        BY <3>2, <3>3, PoolSources
      <3>5. pool' = q
        BY <3>1, FrameMaps DEF CleanSource, Pools
      <3>. QED BY <1>2, <3>4, <3>5
    <2>. QED BY <2>2, <2>3, <2>4, <2>5 DEF ShutComposition
  <1>4. composition' \in Seq(Compositions) /\ Len(composition') = Len(composition)
    <2>1. CASE UNCHANGED composition
      BY <2>1, FrameParts
    <2>2. CASE \E e \in Composition : ShutComposition(e)
      <3>1. PICK e \in Composition : ShutComposition(e)
        BY <2>2
      <3>. DEFINE r == [composition[e] EXCEPT !.at = "shut"]
      <3>2. r \in Compositions
        BY FrameParts, CompositionWith DEF CompositionStates
      <3>3. composition' = [i \in Composition |-> IF i = e THEN r ELSE composition[i]]
        BY <3>1, FrameParts DEF ShutComposition, Composition
      <3>. QED BY <3>2, <3>3, CompositionBecomes
    <2>3. CASE \E e \in Composition : CleanComposition(e)
      <3>1. PICK e \in Composition : CleanComposition(e)
        BY <2>3
      <3>. DEFINE a == IF composition[e].at = "failed" THEN composition[e].at ELSE "gone"
                  r == [composition[e] EXCEPT !.at = a]
      <3>2. a \in CompositionStates
        BY DEF CompositionStates
      <3>3. r \in Compositions
        BY <3>2, FrameParts, CompositionWith
      <3>4. composition' = [i \in Composition |-> IF i = e THEN r ELSE composition[i]]
        BY <3>1, FrameParts DEF CleanComposition, Composition
      <3>. QED BY <3>3, <3>4, CompositionBecomes
    <2>. QED BY <2>1, <2>2, <2>3 DEF CleanSource, CleanFails
  <1>5. source' \in Seq(Sources) /\ Len(source') = Len(source)
    <2>1. CASE UNCHANGED source
      BY <2>1, FrameParts
    <2>2. CASE \E i \in Source : CleanSource(i)
      <3>1. PICK i \in Source : CleanSource(i)
        BY <2>2
      <3>2. (IF source[i].at = "failed" THEN source[i].at ELSE "gone") \in SourceStates
        BY DEF SourceStates
      <3>3. source' = [source EXCEPT ![i].at = IF source[i].at = "failed" THEN source[i].at ELSE "gone"]
        BY <3>1 DEF CleanSource
      <3>. QED BY <3>2, <3>3, SourcesUpdated
    <2>. QED BY <2>1, <2>2 DEF ShutComposition, CleanComposition, CleanFails
  <1>6. UNCHANGED <<maps, session>>
    BY DEF ShutComposition, CleanComposition, CleanSource, CleanFails
  <1>7. faults' \subseteq FaultKinds
    BY FrameMaps, FaultTyped DEF ShutComposition, CleanComposition, CleanSource, CleanFails, FaultKinds
  <1>8. NoTasks' /\ OnKnown'
    BY <1>3, <1>4, <1>6, FrameMaps DEF NoTasks, disposed, OnKnown
  <1>. QED BY <1>2, <1>3, <1>4, <1>5, <1>6, <1>7, <1>8, FrameMaps, FrameParts, FrameFromParts DEF maps, disposed

LEMMA NextFrame == Frame /\ [Next]_vars => Frame'
  <1>. SUFFICES ASSUME Frame, [Next]_vars PROVE Frame' OBVIOUS
  <1>1. CASE UNCHANGED vars
    BY <1>1 DEF vars, maps, Frame, TypeOK, Bounded, OnKnown, NoTasks, disposed
  <1>2. CASE Next
    BY <1>2, PrewarmMcpFrame, CreateAssemblyFrame, SourceStartsFrame, SourceFailsFrame,
       StartComposingFrame, ComposedFrame, EntryFailsFrame, EnterFrame, CreatedFrame, MoveFrame,
       ReleaseFrame, ClosedFrame, CloseFailsFrame, DroppedFrame, PoolStepsFrame, TasksFrame
       DEF Next
  <1>. QED BY <1>1, <1>2

-----------------------------------------------------------------------------
(* Counts and uses, step by step *)

Fresh == {"source", "composing"}

LEMMA OnFinite ==
  ASSUME NEW e, NEW states
  PROVE  IsFiniteSet(On(e, states)) /\ Cardinality(On(e, states)) \in Nat
  BY SessionAssumption, FS_Subset, FS_CardinalityType DEF On

\* Only a pool that is up can have been up.
LEMMA StaysDown == ASSUME Frame, [Next]_vars, disposed PROVE disposed'
  <1>1. CASE UNCHANGED pool
    BY <1>1 DEF disposed
  <1>2. CASE DisposePool \/ PhaseEnds
    BY <1>2, PoolStepsFrame
  <1>3. CASE \/ \E e \in Composition : ShutComposition(e) \/ CleanComposition(e)
             \/ \E i \in Source : CleanSource(i)
             \/ \E x \in Composition \cup Source : CleanFails(x)
    BY <1>3, TasksFrame
  <1>. QED BY <1>1, <1>2, <1>3
       DEF Next, vars, PrewarmMcp, CreateAssembly, SourceStarts, SourceFails, StartComposing, Composed,
           EntryFails, Enter, Created, CreationFails, Dispose, DisposeFails, DropFails, Release, Closed,
           CloseFails, Dropped

LEMMA UpUnchanged ==
  ASSUME Up, UNCHANGED <<composition, session>>
  PROVE  Up'
  BY DEF Up, FreshIsAwaited, Allowed, CompositionOf, Counted, On, Composition

\* A session moves on and its composition changes with it: what is left to show is
\* what this composition's sessions say.
LEMMA UpStep ==
  ASSUME Frame, Up, NEW s \in Session, NEW e \in Composition, NEW a,
         e = session[s].on,
         \A t \in Session : /\ session'[t].at = IF t = s THEN a ELSE session[t].at
                            /\ session'[t].on = session[t].on,
         Composition' = Composition,
         \A x \in Composition : x # e => composition'[x] = composition[x],
         composition[e].at \notin Fresh, composition'[e].at \notin Fresh,
         Counted(e)', \A t \in Session : session[t].on = e => Allowed(t)'
  PROVE  Up'
  <1>1. \A x \in Composition : x # e => On(x, {"waiting"})' = On(x, {"waiting"}) /\ On(x, Held)' = On(x, Held)
    BY DEF On
  <1>2. FreshIsAwaited'
    BY <1>1 DEF Up, FreshIsAwaited, Fresh
  <1>3. \A t \in Session : Allowed(t)'
    <2>. SUFFICES ASSUME NEW t \in Session, session[t].on # e PROVE Allowed(t)'
      OBVIOUS
    <2>1. CASE session[t].at = "new"
      BY <2>1 DEF Allowed
    <2>2. CASE session[t].at # "new"
      <3>1. session[t].on \in Composition
        BY <2>2, FrameParts
      <3>2. CompositionOf(t)' = CompositionOf(t)
        BY <3>1 DEF CompositionOf
      <3>3. session'[t].at = session[t].at
        OBVIOUS
      <3>. QED BY <3>2, <3>3 DEF Up, Allowed
    <2>. QED BY <2>1, <2>2
  <1>4. \A x \in Composition : Counted(x)'
    BY <1>1 DEF Up, Counted
  <1>. QED BY <1>2, <1>3, <1>4 DEF Up

\* Steps of a session alone: it counts on its composition before and after, or
\* neither before nor after.
LEMMA UpMoves ==
  ASSUME Frame, Up, UNCHANGED composition, NEW s \in Session, NEW a,
         session[s].at \notin {"new", "waiting"},
         \A t \in Session : /\ session'[t].at = IF t = s THEN a ELSE session[t].at
                            /\ session'[t].on = session[t].on,
         session[s].at \in Held <=> a \in Held, Allowed(s)'
  PROVE  Up'
  <1>. DEFINE e == session[s].on
  <1>1. e \in Composition
    BY FrameParts
  <1>2. composition[e].at \notin Fresh /\ composition'[e].at \notin Fresh
    BY <1>1 DEF Up, FreshIsAwaited, Fresh
  <1>3. On(e, Held)' = On(e, Held)
    BY DEF On
  <1>4. Counted(e)'
    BY <1>1, <1>3 DEF Up, Counted
  <1>5. Composition' = Composition
    BY DEF Composition
  <1>6. \A t \in Session : session[t].on = e => Allowed(t)'
    BY DEF Up, Allowed, CompositionOf
  <1>. QED BY <1>1, <1>2, <1>4, <1>5, <1>6, UpStep

LEMMA CreatedUp ==
  ASSUME Frame, Up, NEW s \in Session, Created(s)
  PROVE  Up'
  <1>1. \A t \in Session : /\ session'[t].at = IF t = s THEN "open" ELSE session[t].at
                           /\ session'[t].on = session[t].on
    BY FrameParts DEF Created, Sessions
  <1>2. Allowed(s)'
    BY <1>1 DEF Created, Up, Allowed, CompositionOf
  <1>. QED BY <1>1, <1>2, UpMoves DEF Created, Held

LEMMA MoveUp ==
  ASSUME Frame, Up, NEW s \in Session,
         CreationFails(s) \/ Dispose(s) \/ DisposeFails(s) \/ DropFails(s) \/ CloseFails(s) \/ Dropped(s)
  PROVE  Up'
  <1>1. PICK a \in {"failing", "leaving", "open", "kept", "refused", "gone"} :
          /\ session' = [session EXCEPT ![s].at = a]
          /\ \/ session[s].at = "creating" /\ a = "failing"
             \/ session[s].at = "open" /\ a = "leaving"
             \/ session[s].at = "leaving" /\ a = "open"
             \/ session[s].at \in {"closing", "dropping"} /\ a \in {"kept", "refused", "gone"}
    BY DEF CreationFails, Dispose, DisposeFails, DropFails, CloseFails, Dropped, Over, Again
  <1>2. \A t \in Session : /\ session'[t].at = IF t = s THEN a ELSE session[t].at
                           /\ session'[t].on = session[t].on
    BY <1>1, FrameParts DEF Sessions
  <1>3. UNCHANGED composition
    BY DEF CreationFails, Dispose, DisposeFails, DropFails, CloseFails, Dropped
  <1>4. Allowed(s)'
    BY <1>1, <1>2, <1>3 DEF Up, Allowed, CompositionOf
  <1>5. session[s].at \in Held <=> a \in Held
    BY <1>1 DEF Held
  <1>. QED BY <1>1, <1>2, <1>3, <1>4, <1>5, UpMoves

LEMMA CreateAssemblyUp ==
  ASSUME Frame, Frame', Up, NEW s \in Session, NEW c \in Scope, CreateAssembly(s, c)
  PROVE  Up'
  <1>. DEFINE e == entries'[c]
              n == Len(composition)
  <1>1. \A t \in Session : /\ session'[t].at = IF t = s THEN "waiting" ELSE session[t].at
                           /\ session'[t].on = IF t = s THEN e ELSE session[t].on
    BY FrameParts DEF CreateAssembly, Sessions
  <1>2. session[s].at = "new" /\ session[s].on = Nobody
    BY FrameMaps DEF CreateAssembly, OnKnown
  <1>3. \A x \in Composition : /\ On(x, Held)' = On(x, Held)
                              /\ On(x, {"waiting"}) \subseteq On(x, {"waiting"})'
                              /\ \A t \in Session : session'[t].on = x =>
                                    t = s \/ session[t].on = x
    BY <1>1, <1>2, FrameParts, SMT DEF On, Held, Nobody
  <1>4. /\ \A x \in Composition : x \in Composition' /\ composition'[x] = composition[x]
        /\ \A x \in Composition' \ Composition :
             x = n + 1 /\ e = x /\ composition'[x].at = "source"
    <2>1. CASE UNCHANGED composition
      BY <2>1 DEF Composition
    <2>2. CASE /\ composition' = Append(composition,
                    [scope |-> c, source |-> mcpSources'[KeyOf[c]], at |-> "source", live |-> 0])
               /\ entries' = [entries EXCEPT ![c] = Len(composition) + 1]
      BY <2>2, FrameParts, FrameMaps, SMT DEF Composition
    <2>. QED BY <2>1, <2>2 DEF CreateAssembly
  <1>5. FreshIsAwaited'
    <2>. SUFFICES ASSUME NEW x \in Composition', composition'[x].at \in Fresh
                  PROVE  /\ On(x, {"waiting"})' # {}
                         /\ \A t \in Session : session'[t].on = x => session'[t].at = "waiting"
      BY DEF FreshIsAwaited, Fresh
    <2>1. CASE x \in Composition
      BY <1>1, <1>3, <1>4, <2>1 DEF Up, FreshIsAwaited, Fresh
    <2>2. CASE x \notin Composition
      <3>1. x = e /\ x = n + 1 /\ n \in Nat
        BY <1>4, <2>2, FrameParts
      <3>2. \A t \in Session : t # s => session'[t].on # x
        BY <1>1, <3>1, FrameMaps, SMT DEF OnKnown
      <3>3. s \in On(x, {"waiting"})'
        BY <1>1, <3>1 DEF On
      <3>. QED BY <1>1, <3>2, <3>3
    <2>. QED BY <2>1, <2>2
  <1>6. \A t \in Session : Allowed(t)'
    <2>. SUFFICES ASSUME NEW t \in Session PROVE Allowed(t)'
      OBVIOUS
    <2>1. CASE t = s \/ session[t].at = "new"
      BY <1>1, <2>1 DEF Allowed
    <2>2. CASE t # s /\ session[t].at # "new"
      <3>1. session[t].on \in Composition
        BY <2>2, FrameParts
      <3>2. CompositionOf(t)' = CompositionOf(t) /\ session'[t].at = session[t].at
        BY <1>1, <1>4, <2>2, <3>1 DEF CompositionOf
      <3>. QED BY <3>2 DEF Up, Allowed
    <2>. QED BY <2>1, <2>2
  <1>7. \A x \in Composition' : Counted(x)'
    BY <1>3, <1>4 DEF Up, Counted
  <1>. QED BY <1>5, <1>6, <1>7 DEF Up

\* A composition that nobody is on but those who wait for it changes, and they
\* may all go on: what is left to show is what it says of itself.
LEMMA UpFresh ==
  ASSUME Frame, Up, NEW e \in Composition, composition[e].at \in Fresh,
         Composition' = Composition,
         \A x \in Composition : x # e => composition'[x] = composition[x],
         \A t \in Session : /\ session'[t].on = session[t].on
                            /\ session[t].on # e => session'[t].at = session[t].at,
         composition'[e].at \in Fresh => \A t \in Session : session'[t].at = session[t].at,
         Counted(e)', \A t \in Session : session[t].on = e => Allowed(t)'
  PROVE  Up'
  <1>1. \A x \in Composition : x # e => On(x, {"waiting"})' = On(x, {"waiting"}) /\ On(x, Held)' = On(x, Held)
    BY DEF On
  <1>2. FreshIsAwaited'
    <2>. SUFFICES ASSUME NEW x \in Composition, composition'[x].at \in Fresh
                  PROVE  /\ On(x, {"waiting"})' # {}
                         /\ \A t \in Session : session'[t].on = x => session'[t].at = "waiting"
      BY DEF FreshIsAwaited, Fresh
    <2>1. CASE x = e
      <3>1. On(e, {"waiting"})' = On(e, {"waiting"})
        BY <2>1 DEF On
      <3>. QED BY <2>1, <3>1 DEF Up, FreshIsAwaited, Fresh
    <2>2. CASE x # e
      BY <1>1, <2>2 DEF Up, FreshIsAwaited, Fresh
    <2>. QED BY <2>1, <2>2
  <1>3. \A t \in Session : Allowed(t)'
    <2>. SUFFICES ASSUME NEW t \in Session, session[t].on # e PROVE Allowed(t)'
      OBVIOUS
    <2>1. CASE session[t].at = "new"
      BY <2>1 DEF Allowed
    <2>2. CASE session[t].at # "new"
      <3>1. session[t].on \in Composition
        BY <2>2, FrameParts
      <3>2. CompositionOf(t)' = CompositionOf(t) /\ session'[t].at = session[t].at
        BY <3>1 DEF CompositionOf
      <3>. QED BY <3>2 DEF Up, Allowed
    <2>. QED BY <2>1, <2>2
  <1>4. \A x \in Composition : Counted(x)'
    BY <1>1 DEF Up, Counted
  <1>. QED BY <1>2, <1>3, <1>4 DEF Up

LEMMA StartComposingUp ==
  ASSUME Frame, Up, NEW e \in Composition, StartComposing(e)
  PROVE  Up'
  <1>1. composition[e].at \in Fresh /\ UNCHANGED session
    BY DEF StartComposing, Fresh
  <1>2. /\ Composition' = Composition
        /\ \A x \in Composition : x # e => composition'[x] = composition[x]
        /\ composition'[e].at = "composing"
    BY FrameParts DEF StartComposing, Composition, Compositions
  <1>3. Counted(e)'
    BY <1>2 DEF Counted
  <1>4. \A t \in Session : session[t].on = e => Allowed(t)'
    BY <1>1 DEF Up, FreshIsAwaited, Fresh, Allowed
  <1>. QED BY <1>1, <1>2, <1>3, <1>4, UpFresh

LEMMA ComposedUp ==
  ASSUME Frame, Up, NEW e \in Composition, Composed(e), ~disposed
  PROVE  Up'
  <1>1. composition[e].at \in Fresh
    BY DEF Composed, Fresh
  <1>2. /\ Composition' = Composition
        /\ \A x \in Composition : x # e => composition'[x] = composition[x]
        /\ composition'[e].at = "open" /\ composition'[e].live = Waiters(e)
    BY FrameParts DEF Composed, Composition, Compositions
  <1>3. \A t \in Session : /\ session'[t].on = session[t].on
                           /\ session'[t].at = IF t \in On(e, {"waiting"}) THEN "creating" ELSE session[t].at
    BY FrameParts DEF Composed, Sessions
  <1>4. /\ On(e, {"waiting"}) # {}
        /\ \A t \in Session : session[t].on = e => session[t].at = "waiting"
    BY <1>1 DEF Up, FreshIsAwaited, Fresh
  <1>5. On(e, Held)' = On(e, {"waiting"})
    BY <1>3, <1>4 DEF On, Held
  <1>6. Waiters(e) > 0
    <2>1. IsFiniteSet(On(e, {"waiting"})) /\ Cardinality(On(e, {"waiting"})) \in Nat
      BY OnFinite
    <2>2. Cardinality(On(e, {"waiting"})) # 0
      BY <1>4, <2>1, FS_EmptySet
    <2>. QED BY <2>1, <2>2 DEF Waiters
  <1>7. Counted(e)'
    BY <1>2, <1>5, <1>6 DEF Counted, Waiters
  <1>8. \A t \in Session : session[t].on = e => Allowed(t)'
    BY <1>2, <1>3, <1>4 DEF On, Allowed, CompositionOf
  <1>. QED BY <1>1, <1>2, <1>3, <1>7, <1>8, UpFresh DEF On, Fresh

LEMMA EntryFailsUp ==
  ASSUME Frame, Up, NEW e \in Composition, EntryFails(e)
  PROVE  Up'
  <1>1. composition[e].at \in Fresh
    BY DEF EntryFails, Fresh
  <1>2. /\ Composition' = Composition
        /\ \A x \in Composition : x # e => composition'[x] = composition[x]
        /\ composition'[e].at = "failed"
    BY FrameParts DEF EntryFails, Composition, Compositions
  <1>3. \A t \in Session : /\ session'[t].on = session[t].on
                           /\ session'[t].at = IF t \in On(e, {"waiting"}) THEN "refused" ELSE session[t].at
    BY FrameParts DEF EntryFails, Sessions
  <1>4. \A t \in Session : session[t].on = e => session[t].at = "waiting"
    BY <1>1 DEF Up, FreshIsAwaited, Fresh
  <1>5. Counted(e)'
    BY <1>2 DEF Counted
  <1>6. \A t \in Session : session[t].on = e => Allowed(t)'
    BY <1>3, <1>4 DEF On, Allowed
  <1>. QED BY <1>1, <1>2, <1>3, <1>5, <1>6, UpFresh DEF On, Fresh

LEMMA EnterUp ==
  ASSUME Frame, Up, NEW s \in Session, Enter(s), ~disposed
  PROVE  Up'
  <1>0. PICK e \in Composition : e = session[s].on
    BY FrameParts DEF Enter
  <1>. DEFINE a == IF composition[e].at = "open" THEN "creating" ELSE "failing"
  <1>1. session[s].at = "waiting" /\ composition[e].at \in {"open", "shut", "gone"}
    BY <1>0 DEF Enter
  <1>2. /\ Composition' = Composition
        /\ \A x \in Composition : x # e => composition'[x] = composition[x]
        /\ composition'[e].at = composition[e].at /\ composition'[e].live = composition[e].live + 1
    BY <1>0, <1>1, FrameParts DEF Enter, Composition, Compositions
  <1>3. \A t \in Session : /\ session'[t].on = session[t].on
                           /\ session'[t].at = IF t = s THEN a ELSE session[t].at
    BY <1>0, FrameParts DEF Enter, Sessions
  <1>4. On(e, Held)' = On(e, Held) \cup {s} /\ s \notin On(e, Held)
    BY <1>0, <1>1, <1>3 DEF On, Held
  <1>5. Cardinality(On(e, Held)') = Cardinality(On(e, Held)) + 1
    BY <1>4, OnFinite, FS_AddElement
  <1>6. Counted(e)'
    <2>1. Cardinality(On(e, Held)) \in Nat
      BY OnFinite
    <2>2. CASE composition[e].at = "open"
      <3>1. composition[e].live = Cardinality(On(e, Held))
        BY <2>2 DEF Up, Counted
      <3>2. composition'[e].live = Cardinality(On(e, Held)') /\ composition'[e].live > 0
        BY <1>2, <1>5, <2>1, <3>1
      <3>. QED BY <3>2 DEF Counted
    <2>3. CASE composition[e].at # "open"
      BY <1>2, <2>3 DEF Counted
    <2>. QED BY <2>2, <2>3
  <1>7. \A t \in Session : session[t].on = e => Allowed(t)'
    BY <1>1, <1>2, <1>3 DEF Up, Allowed, CompositionOf
  <1>. QED BY <1>0, <1>1, <1>2, <1>3, <1>6, <1>7, UpStep DEF Fresh

LEMMA ReleaseUp ==
  ASSUME Frame, Up, NEW s \in Session, Release(s), ~disposed
  PROVE  Up'
  <1>0. PICK e \in Composition : e = session[s].on
    BY FrameParts DEF Release
  <1>. DEFINE live == OneLess(composition[e].live)
  <1>1. session[s].at \in {"leaving", "failing", "kept"} /\ e = session[s].on
    BY <1>0 DEF Release
  <1>2. composition[e].at \in {"open", "shut", "gone"} /\ composition[e].live \in Nat /\ live \in Nat
    BY <1>1, OneLessNat, FrameParts DEF Up, Allowed, CompositionOf, Compositions
  <1>3. Composition' = Composition /\ \A x \in Composition : x # e => composition'[x] = composition[x]
    BY <1>1, FrameParts DEF Release, Composition
  <1>4. PICK a \in {"gone", "refused", "closing"} :
          /\ \A t \in Session : /\ session'[t].on = session[t].on
                                /\ session'[t].at = IF t = s THEN a ELSE session[t].at
          /\ a = "closing" <=> live <= 0
    <2>1. PICK a \in {"gone", "refused", "closing"} :
            /\ \/ session' = [session EXCEPT ![s].at = a]
               \/ \E o \in BOOLEAN : session' = [session EXCEPT ![s].at = a, ![s].owned = o]
            /\ a = "closing" <=> live <= 0
      <3>1. CASE live > 0 /\ session' = [session EXCEPT ![s].at = Over(s)]
        <4>1. PICK a \in {"gone", "refused"} : a = Over(s)
          BY DEF Over
        <4>2. session' = [session EXCEPT ![s].at = a] /\ a # "closing"
          BY <3>1, <4>1
        <4>3. ~(live <= 0)
          BY <1>2, <3>1
        <4>. QED BY <4>1, <4>2, <4>3, Zenon
      <3>2. ASSUME live <= 0,
                   NEW o \in BOOLEAN,
                   session' = [session EXCEPT ![s].at = "closing", ![s].owned = o]
            PROVE  \E a \in {"gone", "refused", "closing"} :
                     /\ \E b \in BOOLEAN : session' = [session EXCEPT ![s].at = a, ![s].owned = b]
                     /\ a = "closing" <=> live <= 0
        BY <3>2
      <3>. QED BY <1>1, <3>1, <3>2 DEF Release
    <2>2. session \in [Session -> Sessions]
      BY FrameParts
    <2>. HIDE DEF live
    <2>3. \A t \in Session : /\ session'[t].on = session[t].on
                            /\ session'[t].at = IF t = s THEN a ELSE session[t].at
      BY <2>1, <2>2 DEF Sessions
    <2>. QED BY <2>1, <2>3
  <1>5. /\ composition'[e].live = live
        /\ composition'[e].at =
             IF live <= 0 /\ composition[e].at = "open" THEN "shut" ELSE composition[e].at
    <2>1. composition \in Seq(Compositions) /\ e \in DOMAIN composition /\ composition[e] \in Compositions
      BY FrameParts DEF Composition
    <2>2. CASE live > 0 /\ composition' = [composition EXCEPT ![e].live = live]
      BY <1>2, <2>1, <2>2 DEF Compositions
    <2>3. CASE /\ live <= 0
               /\ composition' = [composition EXCEPT ![e].live = live,
                                    ![e].at = IF composition[e].at = "open" THEN "shut" ELSE composition[e].at]
      <3>. DEFINE b == IF composition[e].at = "open" THEN "shut" ELSE composition[e].at
      <3>1. composition'[e] = [[composition[e] EXCEPT !.live = live] EXCEPT !.at = b]
        BY <2>1, <2>3
      <3>. QED BY <2>1, <2>3, <3>1 DEF Compositions
    <2>4. \/ live > 0 /\ composition' = [composition EXCEPT ![e].live = live]
          \/ /\ live <= 0
             /\ composition' = [composition EXCEPT ![e].live = live,
                                  ![e].at = IF composition[e].at = "open" THEN "shut" ELSE composition[e].at]
      BY <1>1 DEF Release
    <2>. QED BY <2>2, <2>3, <2>4
  <1>6. CASE composition[e].at = "open"
    <2>1. session[s].at # "kept" /\ s \in On(e, Held)
      BY <1>1, <1>6 DEF Up, Allowed, CompositionOf, On, Held
    <2>2. On(e, Held)' = On(e, Held) \ {s}
      BY <1>4 DEF On, Held
    <2>3. Cardinality(On(e, Held)') = Cardinality(On(e, Held)) - 1
      BY <2>1, <2>2, OnFinite, FS_RemoveElement
    <2>4. composition[e].live = Cardinality(On(e, Held)) /\ composition[e].live > 0
      BY <1>1, <1>6 DEF Up, Counted
    <2>5. live = Cardinality(On(e, Held)')
      BY <1>2, <2>3, <2>4 DEF OneLess
    <2>6. CASE live > 0
      <3>1. Counted(e)'
        BY <1>5, <2>5, <2>6 DEF Counted
      <3>2. composition'[e].at = "open" /\ a # "closing"
        BY <1>2, <1>4, <1>5, <1>6, <2>6, OneLessNat
      <3>3. \A t \in Session : session[t].on = e => Allowed(t)'
        BY <1>4, <1>6, <3>2 DEF Up, Allowed, CompositionOf
      <3>. QED BY <1>1, <1>3, <1>4, <1>6, <3>1, <3>2, <3>3, UpStep DEF Fresh
    <2>7. CASE live <= 0
      <3>1. On(e, Held)' = {}
        BY <1>2, <2>2, <2>5, <2>7, OneLessNat, OnFinite, FS_Subset, FS_EmptySet
      <3>2. composition'[e].at = "shut" /\ a = "closing"
        BY <1>4, <1>5, <1>6, <2>7
      <3>3. \A t \in Session : session[t].on = e => session'[t].at \notin Held
        BY <1>4, <3>1 DEF On
      <3>4. \A t \in Session : session[t].on = e => Allowed(t)'
        BY <1>4, <3>2, <3>3 DEF Allowed, CompositionOf, Held
      <3>5. Counted(e)'
        BY <3>2 DEF Counted
      <3>. QED BY <1>1, <1>3, <1>4, <1>6, <3>2, <3>4, <3>5, UpStep DEF Fresh
    <2>. QED BY <1>2, <2>6, <2>7, OneLessNat
  <1>7. CASE composition[e].at # "open"
    <2>1. composition'[e].at = composition[e].at
      BY <1>5, <1>7
    <2>2. Counted(e)'
      BY <1>7, <2>1 DEF Counted
    <2>3. \A t \in Session : session[t].on = e => Allowed(t)'
      BY <1>2, <1>4, <1>7, <2>1 DEF Up, Allowed, CompositionOf
    <2>. QED BY <1>1, <1>2, <1>3, <1>4, <2>1, <2>2, <2>3, UpStep DEF Fresh
  <1>. QED BY <1>6, <1>7

LEMMA ClosedUp ==
  ASSUME Frame, Up, NEW s \in Session, Closed(s)
  PROVE  Up'
  <1>0. PICK e \in Composition : e = session[s].on
    BY FrameParts DEF Closed
  <1>1. session[s].at = "closing" /\ composition[e].at \in {"shut", "gone"}
    BY <1>0 DEF Closed, Up, Allowed, CompositionOf
  <1>2. /\ Composition' = Composition
        /\ \A x \in Composition : x # e => composition'[x] = composition[x]
        /\ composition'[e].at = "gone"
    BY <1>0, FrameParts DEF Closed, Composition, Compositions
  <1>3. PICK a \in {"gone", "refused", "dropping"} :
          \A t \in Session : /\ session'[t].on = session[t].on
                             /\ session'[t].at = IF t = s THEN a ELSE session[t].at
    <2>1. CASE session' = [session EXCEPT ![s].at = Over(s)]
      BY <2>1, FrameParts DEF Over, Sessions
    <2>2. CASE \E i : session' = [session EXCEPT ![s].drops = i,
                 ![s].at = IF i = Nobody THEN Over(s) ELSE "dropping"]
      BY <2>2, FrameParts DEF Over, Sessions
    <2>. QED BY <2>1, <2>2 DEF Closed
  <1>4. Counted(e)'
    BY <1>2 DEF Counted
  <1>5. \A t \in Session : session[t].on = e => Allowed(t)'
    BY <1>1, <1>2, <1>3 DEF Up, Allowed, CompositionOf
  <1>. QED BY <1>0, <1>1, <1>2, <1>3, <1>4, <1>5, UpStep DEF Fresh

LEMMA NextUp == Frame /\ Frame' /\ Up /\ [Next]_vars /\ ~disposed' => Up'
  <1>. SUFFICES ASSUME Frame, Frame', Up, [Next]_vars, ~disposed' PROVE Up' OBVIOUS
  <1>0. ~disposed
    BY StaysDown
  <1>1. CASE UNCHANGED vars
    BY <1>1, UpUnchanged DEF vars
  <1>2. CASE \/ \E k \in Key : PrewarmMcp(k)
             \/ \E i \in Source : SourceStarts(i) \/ SourceFails(i)
    BY <1>2, UpUnchanged DEF PrewarmMcp, SourceStarts, SourceFails
  <1>3. CASE \E s \in Session : (\E c \in Scope : CreateAssembly(s, c)) \/ Enter(s) \/ Release(s)
    BY <1>0, <1>3, CreateAssemblyUp, EnterUp, ReleaseUp
  <1>4. CASE \E s \in Session :
               \/ Created(s) \/ CreationFails(s) \/ Dispose(s) \/ DisposeFails(s)
               \/ Closed(s) \/ CloseFails(s) \/ Dropped(s) \/ DropFails(s)
    BY <1>4, CreatedUp, MoveUp, ClosedUp
  <1>5. CASE \E e \in Composition : StartComposing(e) \/ Composed(e) \/ EntryFails(e)
    BY <1>0, <1>5, StartComposingUp, ComposedUp, EntryFailsUp
  <1>6. ~(DisposePool \/ PhaseEnds)
    BY PoolStepsFrame
  <1>7. ~ \/ \E e \in Composition : ShutComposition(e) \/ CleanComposition(e)
          \/ \E i \in Source : CleanSource(i)
          \/ \E x \in Composition \cup Source : CleanFails(x)
    BY <1>0, TasksFrame
  <1>. QED BY <1>1, <1>2, <1>3, <1>4, <1>5, <1>6, <1>7 DEF Next

-----------------------------------------------------------------------------
(* Theorems *)

\* The invariant is inductive: it holds of the empty pool, and every step of a
\* session, an entry, a source or the disposal keeps it.
THEOREM Inductive == Spec => []PoolInv
  <1>1. PoolInv /\ [Next]_vars => PoolInv'
    BY NextFrame, NextUp, StaysDown DEF PoolInv
  <1>. QED BY InitFrame, <1>1, PTL DEF Spec

\* Every map, composition, source, session and task list keeps its type.
THEOREM TypeCorrect == Spec => []TypeOK
  <1>1. PoolInv => TypeOK
    BY DEF PoolInv, Frame
  <1>. QED BY Inductive, <1>1, PTL

\* Nobody shuts a composition that a session is created on, runs on or has not
\* given back, however creations fail and releases fail, repeat and overlap
\* (releaseAssembly and createAssembly of DesktopRuntimeBackendPool).
THEOREM NobodyShutsWhatIsUsed == Spec => []InUseIsOpen
  <1>1. PoolInv => InUseIsOpen
    BY DEF PoolInv, Up, Allowed, InUseIsOpen
  <1>. QED BY Inductive, <1>1, PTL

\* liveAssemblies of an open composition is the number of its sessions, and not
\* zero: it does not outlive the last of them.
THEOREM CountsAreRight == Spec => []OpenIsCounted
  <1>1. PoolInv => OpenIsCounted
    BY DEF PoolInv, Up, Counted, OpenIsCounted, Held
  <1>. QED BY Inductive, <1>1, PTL
-----------------------------------------------------------------------------
(* What the pool's disposal leaves.                                        *)
(*                                                                         *)
(* EverythingGoes speaks of a pool that is down.  While the pool is up,    *)
(* what is not finished is in the maps, or a release is at it; disposing   *)
(* of the pool turns the maps into tasks, and from then on what is not     *)
(* finished is a task or a release is at it.                               *)

Closing(e) == \E s \in Session : session[s].on = e /\ session[s].at = "closing"
Dropping(i) == \E s \in Session : session[s].drops = i /\ session[s].at = "dropping"

Finished(e) == composition[e].at \in {"gone", "failed"}
SourceFinished(i) == source[i].at \in {"gone", "failed"}

\* The maps have what is promised or open, a release has what is shut.
Kept(e) ==
  /\ composition[e].at \in {"source", "composing", "open"} =>
       entries[composition[e].scope] = e
  /\ composition[e].at = "open" => resolvedEntries[composition[e].scope] = e
  /\ composition[e].at = "shut" => Closing(e)

\* What the map of the compositions that are there names is there.
ResolvedIsOpen ==
  \A c \in Scope : resolvedEntries[c] # Nobody =>
    /\ resolvedEntries[c] \in Composition
    /\ composition[resolvedEntries[c]].at = "open"
    /\ composition[resolvedEntries[c]].scope = c

CompositionsKept == (\A e \in Composition : Kept(e)) /\ ResolvedIsOpen

\* Once the disposal has begun: what is not finished is a task of the pool's or
\* of a release.
CompositionsGo ==
  \A e \in Composition : Finished(e) \/ Closing(e) \/ e \in pool.compositions

SourceGoes(i) ==
  \/ SourceFinished(i) \/ Dropping(i)
  \/ ~disposed /\ mcpSources[source[i].key] = i
  \/ disposed /\ i \in pool.sources

\* The strengthening of EverythingGoes, up to the failures that excuse it.
GoneInv ==
  /\ PoolInv
  /\ "close" \notin faults => IF disposed THEN CompositionsGo ELSE CompositionsKept
  /\ {"drop", "source"} \cap faults = {} => \A i \in Source : SourceGoes(i)
  /\ pool.at = "down" => pool.compositions = {} /\ pool.sources = {}

\* A step that moves one session moves no other.
OnlyMoves(s) == \A t \in Session : t # s => session'[t] = session[t]

LEMMA OneSessionMoves ==
  ASSUME Frame, NEW s \in Session,
         \/ \E c \in Scope : CreateAssembly(s, c)
         \/ Enter(s) \/ Release(s) \/ Created(s) \/ CreationFails(s)
         \/ Dispose(s) \/ DisposeFails(s) \/ Closed(s) \/ CloseFails(s)
         \/ Dropped(s) \/ DropFails(s)
  PROVE  OnlyMoves(s)
  <1>1. session \in [Session -> Sessions]
    BY FrameParts
  <1>2. CASE \/ \E c \in Scope : CreateAssembly(s, c)
             \/ Enter(s) \/ Release(s) \/ Created(s)
    BY <1>1, <1>2 DEF CreateAssembly, Enter, Release, Created, OnlyMoves
  <1>3. CASE \/ CreationFails(s) \/ Dispose(s) \/ DisposeFails(s) \/ CloseFails(s)
             \/ Dropped(s) \/ DropFails(s)
    BY <1>1, <1>3 DEF CreationFails, Dispose, DisposeFails, CloseFails, Dropped,
                      DropFails, OnlyMoves
  <1>4. CASE Closed(s)
    BY <1>1, <1>4 DEF Closed, OnlyMoves
  <1>. QED BY <1>2, <1>3, <1>4

\* The steps in which nobody moves, and those in which only waiters do.
LEMMA OtherSteps ==
  ASSUME Frame, [Next]_vars,
         ~\E s \in Session :
            \/ \E c \in Scope : CreateAssembly(s, c)
            \/ Enter(s) \/ Release(s) \/ Created(s) \/ CreationFails(s)
            \/ Dispose(s) \/ DisposeFails(s) \/ Closed(s) \/ CloseFails(s)
            \/ Dropped(s) \/ DropFails(s)
  PROVE  \A t \in Session : session[t].at # "waiting" => session'[t] = session[t]
  <1>1. CASE \E e \in Composition : Composed(e) \/ EntryFails(e)
    BY <1>1, FrameParts DEF Composed, EntryFails, On
  <1>2. CASE ~\E e \in Composition : Composed(e) \/ EntryFails(e)
    <2>1. UNCHANGED session
      BY <1>2 DEF Next, vars, PrewarmMcp, SourceStarts, SourceFails, CleanSource, StartComposing,
                  ShutComposition, CleanComposition, CleanFails, DisposePool, PhaseEnds
    <2>. QED BY <2>1
  <1>. QED BY <1>1, <1>2

\* A release that has begun to dispose of a composition goes on until it is gone.
LEMMA ClosersStay ==
  ASSUME Frame, [Next]_vars, NEW e \in Composition, Closing(e)
  PROVE  Closing(e)' \/ Finished(e)' \/ "close" \in faults'
  <1>1. PICK t \in Session : session[t].on = e /\ session[t].at = "closing"
    BY DEF Closing
  <1>2. CASE session'[t] = session[t]
    BY <1>1, <1>2 DEF Closing
  <1>3. ASSUME NEW s \in Session,
               \/ \E c \in Scope : CreateAssembly(s, c)
               \/ Enter(s) \/ Release(s) \/ Created(s) \/ CreationFails(s)
               \/ Dispose(s) \/ DisposeFails(s) \/ Dropped(s) \/ DropFails(s)
        PROVE  session'[t] = session[t]
    <2>1. session[s].at # "closing"
      BY <1>3 DEF CreateAssembly, Enter, Release, Created, CreationFails, Dispose,
                  DisposeFails, Dropped, DropFails
    <2>2. OnlyMoves(s)
      BY <1>3, OneSessionMoves
    <2>. QED BY <1>1, <2>1, <2>2 DEF OnlyMoves
  <1>4. ASSUME NEW s \in Session, CloseFails(s) PROVE "close" \in faults'
    BY <1>4 DEF CloseFails, Fault
  <1>5. ASSUME NEW s \in Session, Closed(s), session'[t] # session[t] PROVE Finished(e)'
    <2>1. s = t
      BY <1>5, OneSessionMoves DEF OnlyMoves
    <2>2. composition' = [composition EXCEPT ![e].at = "gone"]
      BY <1>1, <1>5, <2>1 DEF Closed
    <2>3. composition'[e].at = "gone"
      BY <2>2, FrameParts DEF Composition, Compositions
    <2>. QED BY <2>3 DEF Finished
  <1>6. CASE ~\E s \in Session :
               \/ \E c \in Scope : CreateAssembly(s, c)
               \/ Enter(s) \/ Release(s) \/ Created(s) \/ CreationFails(s)
               \/ Dispose(s) \/ DisposeFails(s) \/ Closed(s) \/ CloseFails(s)
               \/ Dropped(s) \/ DropFails(s)
    BY <1>1, <1>2, <1>6, OtherSteps
  <1>. QED BY <1>2, <1>3, <1>4, <1>5, <1>6
\* How a step may change what a composition is at.
LEMMA CompositionEffects ==
  ASSUME Frame, [Next]_vars, NEW e \in Composition
  PROVE  /\ e \in Composition'
         /\ composition'[e].scope = composition[e].scope
         /\ \/ composition'[e].at = composition[e].at
            \/ StartComposing(e) \/ Composed(e) \/ EntryFails(e)
            \/ (\E s \in Session : Release(s) /\ session[s].on = e) /\ composition[e].at = "open"
            \/ composition'[e].at = "gone"
            \/ composition[e].at = "open" /\ ShutComposition(e)
  <1>. DEFINE Goal ==
         /\ e \in Composition'
         /\ composition'[e].scope = composition[e].scope
         /\ \/ composition'[e].at = composition[e].at
            \/ StartComposing(e) \/ Composed(e) \/ EntryFails(e)
            \/ (\E s \in Session : Release(s) /\ session[s].on = e) /\ composition[e].at = "open"
            \/ composition'[e].at = "gone"
            \/ composition[e].at = "open" /\ ShutComposition(e)
  <1>0. /\ \A x \in Composition : composition[x] \in Compositions
        /\ composition \in Seq(Compositions)
    BY FrameParts
  <1>1. CASE UNCHANGED composition
    BY <1>1 DEF Composition
  <1>2. ASSUME NEW s \in Session, NEW c \in Scope, CreateAssembly(s, c) PROVE Goal
    <2>1. CASE UNCHANGED composition
      BY <2>1 DEF Composition
    <2>2. CASE composition' = Append(composition,
                 [scope |-> c, source |-> mcpSources'[KeyOf[c]], at |-> "source", live |-> 0])
      <3>1. e \in 1..Len(composition) /\ Len(composition) \in Nat
        BY FrameParts
      <3>2. composition'[e] = composition[e] /\ e \in DOMAIN composition'
        BY <1>0, <2>2, <3>1
      <3>. QED BY <3>2 DEF Composition
    <2>. QED BY <1>2, <2>1, <2>2 DEF CreateAssembly
  <1>3. ASSUME NEW x \in Composition, StartComposing(x) \/ EntryFails(x) PROVE Goal
    BY <1>0, <1>3 DEF StartComposing, EntryFails, Composition, Compositions
  <1>4. ASSUME NEW x \in Composition, Composed(x) PROVE Goal
    <2>1. composition'[e].at # composition[e].at => x = e
      BY <1>0, <1>4 DEF Composed, Composition, Compositions
    <2>2. e \in Composition' /\ composition'[e].scope = composition[e].scope
      BY <1>0, <1>4 DEF Composed, Composition, Compositions
    <2>. QED BY <1>4, <2>1, <2>2
  <1>5. ASSUME NEW x \in Composition, ShutComposition(x) \/ CleanComposition(x) PROVE Goal
    <2>1. CASE ShutComposition(x)
      BY <1>0, <2>1 DEF ShutComposition, Composition, Compositions
    <2>2. CASE CleanComposition(x)
      <3>1. PICK a : /\ composition' = [composition EXCEPT ![x].at = a]
                     /\ a = composition[x].at \/ a = "gone"
        BY <2>2 DEF CleanComposition
      <3>. QED BY <1>0, <3>1 DEF Composition, Compositions
    <2>. QED BY <1>5, <2>1, <2>2
  <1>6. ASSUME NEW s \in Session, Enter(s) PROVE Goal
    <2>1. CASE composition' = [composition EXCEPT ![session[s].on].live = @ + 1]
      BY <1>0, <2>1 DEF Composition, Compositions
    <2>. QED BY <1>1, <1>6, <2>1 DEF Enter
  <1>7. ASSUME NEW s \in Session, Release(s) PROVE Goal
    <2>. DEFINE x == session[s].on
                live == OneLess(composition[x].live)
    <2>1. CASE composition' = [composition EXCEPT ![x].live = live]
      BY <1>0, <2>1 DEF Composition, Compositions
    <2>2. CASE composition' = [composition EXCEPT ![x].live = live,
                                 ![x].at = IF @ = "open" THEN "shut" ELSE @]
      <3>. HIDE DEF live
      <3>1. e \in Composition' /\ composition'[e].scope = composition[e].scope
        BY <1>0, <2>2 DEF Composition, Compositions
      <3>2. composition'[e].at # composition[e].at => x = e /\ composition[e].at = "open"
        BY <1>0, <2>2 DEF Composition, Compositions
      <3>. QED BY <1>7, <3>1, <3>2
    <2>. QED BY <1>1, <1>7, <2>1, <2>2 DEF Release, maps
  <1>8. ASSUME NEW s \in Session, Closed(s) PROVE Goal
    <2>1. composition' = [composition EXCEPT ![session[s].on].at = "gone"]
      BY <1>8 DEF Closed
    <2>. QED BY <1>0, <2>1 DEF Composition, Compositions
  <1>9. CASE ~(\/ \E s \in Session : (\E c \in Scope : CreateAssembly(s, c))
                    \/ Enter(s) \/ Release(s) \/ Closed(s)
               \/ \E x \in Composition : StartComposing(x) \/ EntryFails(x) \/ Composed(x)
                    \/ ShutComposition(x) \/ CleanComposition(x))
    <2>1. UNCHANGED composition
      BY <1>9 DEF Next, vars, PrewarmMcp, SourceStarts, SourceFails, CleanSource, Created,
                  CreationFails, Dispose, DisposeFails, CloseFails, Dropped, DropFails,
                  CleanFails, DisposePool, PhaseEnds
    <2>. QED BY <1>1, <2>1
  <1>. QED BY <1>2, <1>3, <1>4, <1>5, <1>6, <1>7, <1>8, <1>9

\* What is finished stays finished, and no failure is forgotten.
LEMMA FinishedStays ==
  ASSUME Frame, [Next]_vars, NEW e \in Composition
  PROVE  Finished(e) => Finished(e)'
  <1>1. EntryFails(e) => composition'[e].at = "failed"
    BY FrameParts DEF EntryFails, Composition, Compositions
  <1>. QED BY <1>1, CompositionEffects
           DEF Finished, StartComposing, Composed, EntryFails

LEMMA FaultsStay == ASSUME [Next]_vars PROVE faults \subseteq faults'
  <1>1. CASE \E s \in Session : (\E c \in Scope : CreateAssembly(s, c)) \/ Enter(s) \/ Release(s)
    BY <1>1 DEF CreateAssembly, Enter, Release
  <1>2. CASE \E s \in Session :
               \/ Created(s) \/ CreationFails(s) \/ Dispose(s) \/ DisposeFails(s)
               \/ Closed(s) \/ CloseFails(s) \/ Dropped(s) \/ DropFails(s)
    BY <1>2 DEF Created, CreationFails, Dispose, DisposeFails, Closed, CloseFails, Dropped,
                DropFails, Fault
  <1>3. CASE \/ \E k \in Key : PrewarmMcp(k)
             \/ \E i \in Source : SourceStarts(i) \/ SourceFails(i) \/ CleanSource(i)
             \/ \E e \in Composition : \/ StartComposing(e) \/ Composed(e) \/ EntryFails(e)
                                       \/ ShutComposition(e) \/ CleanComposition(e)
             \/ \E x \in Composition \cup Source : CleanFails(x)
             \/ DisposePool \/ PhaseEnds \/ UNCHANGED vars
    BY <1>3 DEF PrewarmMcp, SourceStarts, SourceFails, CleanSource, StartComposing, Composed,
                EntryFails, ShutComposition, CleanComposition, CleanFails, DisposePool,
                PhaseEnds, Fault, vars
  <1>. QED BY <1>1, <1>2, <1>3 DEF Next
\* A composition that stays shut has a release at it.
LEMMA ShutStays ==
  ASSUME Frame, [Next]_vars, CompositionsKept, "close" \notin faults',
         NEW e \in Composition, composition[e].at = "shut", composition'[e].at = "shut"
  PROVE  Closing(e)'
  <1>1. Closing(e)
    BY DEF CompositionsKept, Kept
  <1>2. ~Finished(e)'
    BY DEF Finished
  <1>. QED BY <1>1, <1>2, ClosersStay

\* Neither the maps nor what a composition is at change, but for one that goes on
\* composing or is gone.
LEMMA QuietKept ==
  ASSUME Frame, [Next]_vars, CompositionsKept, "close" \notin faults',
         Composition' = Composition, UNCHANGED <<entries, resolvedEntries>>,
         \A e \in Composition :
           \/ composition'[e].at = composition[e].at
           \/ composition[e].at = "source" /\ composition'[e].at = "composing"
           \/ composition[e].at # "open" /\ composition'[e].at = "gone"
  PROVE  CompositionsKept'
  <1>0. \A e \in Composition : composition'[e].scope = composition[e].scope
    BY CompositionEffects
  <1>1. \A e \in Composition : Kept(e)'
    <2>. SUFFICES ASSUME NEW e \in Composition PROVE Kept(e)'
      OBVIOUS
    <2>1. Kept(e)
      BY DEF CompositionsKept
    <2>2. composition'[e].at = "shut" => Closing(e)'
      BY ShutStays
    <2>. QED BY <1>0, <2>1, <2>2 DEF Kept
  <1>2. ResolvedIsOpen'
    BY <1>0 DEF CompositionsKept, ResolvedIsOpen
  <1>. QED BY <1>1, <1>2 DEF CompositionsKept

\* An entry of the maps belongs to one composition.
LEMMA CreateAssemblyKept ==
  ASSUME Frame, Frame', [Next]_vars, CompositionsKept, "close" \notin faults',
         NEW s \in Session, NEW c \in Scope, CreateAssembly(s, c)
  PROVE  CompositionsKept'
  <1>1. CASE UNCHANGED <<entries, composition>>
    BY <1>1, QuietKept DEF CreateAssembly, Composition
  <1>2. CASE /\ entries[c] = Nobody
             /\ composition' = Append(composition,
                  [scope |-> c, source |-> mcpSources'[KeyOf[c]], at |-> "source", live |-> 0])
             /\ entries' = [entries EXCEPT ![c] = Len(composition) + 1]
    <2>n. PICK n : n = Len(composition) + 1
      OBVIOUS
    <2>0. /\ composition \in Seq(Compositions) /\ Len(composition) \in Nat
          /\ Composition = 1..Len(composition)
          /\ entries \in [Scope -> 0..Len(composition)]
      BY FrameParts DEF Frame, TypeOK
    <2>1. /\ Composition' = Composition \cup {n} /\ n \notin Composition
          /\ \A e \in Composition : composition'[e] = composition[e] /\ e # Nobody
          /\ composition'[n].scope = c /\ composition'[n].at = "source"
      BY <1>2, <2>0, <2>n DEF Composition, Nobody
    <2>2. resolvedEntries' = resolvedEntries
      BY DEF CreateAssembly
    <2>3. \A e \in Composition : Kept(e)'
      <3>. SUFFICES ASSUME NEW e \in Composition PROVE Kept(e)'
        OBVIOUS
      <3>1. Kept(e)
        BY DEF CompositionsKept
      <3>2. composition'[e].at = "shut" => Closing(e)'
        BY <2>1, ShutStays
      <3>3. entries[composition[e].scope] = e => entries'[composition[e].scope] = e
        BY <1>2, <2>0, <2>1
      <3>. QED BY <2>1, <2>2, <3>1, <3>2, <3>3 DEF Kept
    <2>4. Kept(n)'
      <3>1. entries'[c] = n
        BY <1>2, <2>0, <2>n
      <3>. QED BY <2>1, <3>1 DEF Kept
    <2>5. ResolvedIsOpen'
      BY <2>1, <2>2 DEF CompositionsKept, ResolvedIsOpen
    <2>. QED BY <2>1, <2>3, <2>4, <2>5 DEF CompositionsKept
  <1>3. \/ entries' = entries /\ composition' = composition
        \/ /\ entries[c] = Nobody
           /\ composition' = Append(composition,
                [scope |-> c, source |-> mcpSources'[KeyOf[c]], at |-> "source", live |-> 0])
           /\ entries' = [entries EXCEPT ![c] = Len(composition) + 1]
    BY DEF CreateAssembly
  <1>. QED BY <1>1, <1>2, <1>3

LEMMA ComposedKept ==
  ASSUME Frame, Frame', [Next]_vars, CompositionsKept, "close" \notin faults', ~disposed,
         NEW e \in Composition, Composed(e)
  PROVE  CompositionsKept'
  <1>. DEFINE c == composition[e].scope
  <1>1. /\ composition[e].at = "composing" /\ c \in Scope /\ entries' = entries
        /\ resolvedEntries' = [resolvedEntries EXCEPT ![c] = e]
    BY FrameParts DEF Composed, Compositions
  <1>2. /\ Composition' = Composition /\ composition'[e].at = "open"
        /\ \A x \in Composition : x # e => composition'[x] = composition[x]
        /\ composition'[e].scope = c
    BY FrameParts DEF Composed, Composition, Compositions
  <1>3. entries[c] = e /\ e # Nobody /\ resolvedEntries \in [Scope -> 0..Len(composition)]
    BY <1>1, FrameParts DEF CompositionsKept, Kept, Nobody, Frame, TypeOK
  <1>4. \A x \in Composition : Kept(x)'
    <2>. SUFFICES ASSUME NEW x \in Composition PROVE Kept(x)'
      OBVIOUS
    <2>1. Kept(x)
      BY DEF CompositionsKept
    <2>2. CASE x = e
      BY <1>1, <1>2, <1>3, <2>2 DEF Kept
    <2>3. CASE x # e
      <3>1. composition'[x].at = "shut" => Closing(x)'
        BY <1>2, <2>3, ShutStays
      <3>2. composition[x].at = "open" => composition[x].scope # c
        BY <1>3, <2>1, <2>3 DEF Kept
      <3>3. composition[x].at = "open" => resolvedEntries'[composition[x].scope] = x
        BY <1>1, <1>3, <2>1, <3>2, FrameParts DEF Kept, Compositions
      <3>. QED BY <1>1, <1>2, <2>1, <2>3, <3>1, <3>3 DEF Kept
    <2>. QED BY <2>2, <2>3
  <1>5. ResolvedIsOpen'
    <2>. SUFFICES ASSUME NEW d \in Scope, resolvedEntries'[d] # Nobody
                  PROVE  /\ resolvedEntries'[d] \in Composition
                         /\ composition'[resolvedEntries'[d]].at = "open"
                         /\ composition'[resolvedEntries'[d]].scope = d
      BY <1>2 DEF ResolvedIsOpen
    <2>1. CASE d = c
      BY <1>1, <1>2, <1>3, <2>1
    <2>2. CASE d # c
      <3>1. resolvedEntries'[d] = resolvedEntries[d]
        BY <1>1, <1>3, <2>2
      <3>2. /\ resolvedEntries[d] \in Composition
            /\ composition[resolvedEntries[d]].at = "open"
            /\ composition[resolvedEntries[d]].scope = d
        BY <3>1 DEF CompositionsKept, ResolvedIsOpen
      <3>. QED BY <1>1, <1>2, <3>1, <3>2
    <2>. QED BY <2>1, <2>2
  <1>. QED BY <1>2, <1>4, <1>5 DEF CompositionsKept

LEMMA EntryFailsKept ==
  ASSUME Frame, Frame', [Next]_vars, CompositionsKept, "close" \notin faults',
         NEW e \in Composition, EntryFails(e)
  PROVE  CompositionsKept'
  <1>. DEFINE c == composition[e].scope
  <1>1. /\ composition[e].at \in {"source", "composing"} /\ c \in Scope
        /\ entries' = [entries EXCEPT ![c] = Nobody] /\ resolvedEntries' = resolvedEntries
    BY FrameParts DEF EntryFails, Compositions
  <1>2. /\ Composition' = Composition /\ composition'[e].at = "failed"
        /\ \A x \in Composition : x # e => composition'[x] = composition[x]
    BY FrameParts DEF EntryFails, Composition, Compositions
  <1>3. entries[c] = e /\ entries \in [Scope -> 0..Len(composition)]
    BY <1>1, FrameParts DEF CompositionsKept, Kept, Frame, TypeOK
  <1>4. \A x \in Composition : Kept(x)'
    <2>. SUFFICES ASSUME NEW x \in Composition PROVE Kept(x)'
      OBVIOUS
    <2>1. Kept(x)
      BY DEF CompositionsKept
    <2>2. CASE x = e
      BY <1>2, <2>2 DEF Kept
    <2>3. CASE x # e
      <3>1. composition'[x].at = "shut" => Closing(x)'
        BY <1>2, <2>3, ShutStays
      <3>2. composition[x].scope \in Scope
        BY FrameParts DEF Compositions
      <3>3. entries[composition[x].scope] = x => entries'[composition[x].scope] = x
        BY <1>1, <1>3, <2>3, <3>2
      <3>. QED BY <1>1, <1>2, <2>1, <2>3, <3>1, <3>3 DEF Kept
    <2>. QED BY <2>2, <2>3
  <1>5. ResolvedIsOpen'
    BY <1>1, <1>2 DEF CompositionsKept, ResolvedIsOpen
  <1>. QED BY <1>2, <1>4, <1>5 DEF CompositionsKept
\* The last release of a composition takes it out of the maps and is at it.
LEMMA ReleaseKept ==
  ASSUME Frame, Frame', [Next]_vars, Up, CompositionsKept, "close" \notin faults', ~disposed,
         NEW s \in Session, Release(s)
  PROVE  CompositionsKept'
  <1>e. PICK e : e = session[s].on
    OBVIOUS
  <1>c. PICK c : c = composition[e].scope
    OBVIOUS
  <1>n. PICK live : live = OneLess(composition[e].live)
    OBVIOUS
  <1>0. /\ session \in [Session -> Sessions] /\ composition \in Seq(Compositions)
        /\ e \in Composition /\ c \in Scope
        /\ session[s].at \in {"leaving", "failing", "kept"}
        /\ composition[e].at \in {"open", "shut", "gone"}
    <2>1. session[s].at \in {"leaving", "failing", "kept"}
      BY DEF Release
    <2>2. e \in Composition
      BY <1>e, <2>1, FrameParts
    <2>3. composition[e].at \in {"open", "shut", "gone"}
      BY <1>e, <2>1 DEF Up, Allowed, CompositionOf
    <2>. QED BY <1>c, <2>1, <2>2, <2>3, FrameParts DEF Compositions
  <1>1. CASE composition' = [composition EXCEPT ![e].live = live] /\ UNCHANGED maps
    <2>1. /\ Composition' = Composition
          /\ \A x \in Composition : composition'[x].at = composition[x].at
      BY <1>0, <1>1, FrameParts DEF Composition, Compositions
    <2>. QED BY <1>1, <2>1, QuietKept DEF maps
  <1>2. CASE /\ composition' = [composition EXCEPT ![e].live = live,
                                  ![e].at = IF @ = "open" THEN "shut" ELSE @]
             /\ session' = [session EXCEPT ![s].at = "closing",
                              ![s].owned = (resolvedEntries[c] = e)]
             /\ IF resolvedEntries[c] = e
                THEN /\ entries' = [entries EXCEPT ![c] = Nobody]
                     /\ resolvedEntries' = [resolvedEntries EXCEPT ![c] = Nobody]
                ELSE UNCHANGED <<entries, resolvedEntries>>
    <2>1. /\ Composition' = Composition
          /\ \A x \in Composition : x # e => composition'[x] = composition[x]
          /\ composition'[e].at # "open" /\ composition'[e].at \in {"shut", "gone"}
          /\ composition'[e].scope = c
      BY <1>0, <1>2, <1>c, FrameParts DEF Composition, Compositions
    <2>2. Closing(e)'
      <3>1. session'[s].at = "closing" /\ session'[s].on = e
        BY <1>0, <1>2, <1>e DEF Sessions
      <3>. QED BY <3>1 DEF Closing
    <2>3. /\ entries \in [Scope -> 0..Len(composition)]
          /\ resolvedEntries \in [Scope -> 0..Len(composition)]
          /\ e # Nobody
      BY <1>0, FrameParts, SMT DEF Frame, TypeOK, Nobody
    <2>4. resolvedEntries[c] = e => composition[e].at = "open" /\ entries[c] = e
      BY <1>0, <1>c, <2>3 DEF CompositionsKept, ResolvedIsOpen, Kept
    <2>5. composition[e].at = "open" => resolvedEntries[c] = e
      BY <1>0, <1>c DEF CompositionsKept, Kept
    <2>6. \A x \in Composition : Kept(x)'
      <3>. SUFFICES ASSUME NEW x \in Composition PROVE Kept(x)'
        OBVIOUS
      <3>1. Kept(x)
        BY DEF CompositionsKept
      <3>2. CASE x = e
        BY <2>1, <2>2, <3>2 DEF Kept
      <3>3. CASE x # e
        <4>1. composition'[x].at = "shut" => Closing(x)'
          BY <2>1, <3>3, ShutStays
        <4>2. composition[x].scope \in Scope
          BY FrameParts DEF Compositions
        <4>3. /\ entries[composition[x].scope] = x => entries'[composition[x].scope] = x
              /\ resolvedEntries[composition[x].scope] = x
                   => resolvedEntries'[composition[x].scope] = x
          <5>1. CASE resolvedEntries[c] = e
            BY <1>0, <1>2, <2>3, <2>4, <3>3, <4>2, <5>1
          <5>2. CASE resolvedEntries[c] # e
            BY <1>2, <5>2
          <5>. QED BY <5>1, <5>2
        <4>. QED BY <2>1, <3>1, <3>3, <4>1, <4>3 DEF Kept
      <3>. QED BY <3>2, <3>3
    <2>7. ResolvedIsOpen'
      <3>. SUFFICES ASSUME NEW d \in Scope, resolvedEntries'[d] # Nobody
                    PROVE  /\ resolvedEntries'[d] \in Composition
                           /\ composition'[resolvedEntries'[d]].at = "open"
                           /\ composition'[resolvedEntries'[d]].scope = d
        BY <2>1 DEF ResolvedIsOpen
      <3>1. resolvedEntries'[d] = resolvedEntries[d] /\ (d = c => resolvedEntries[c] # e)
        BY <1>0, <1>2, <2>3
      <3>2. /\ resolvedEntries[d] \in Composition
            /\ composition[resolvedEntries[d]].at = "open"
            /\ composition[resolvedEntries[d]].scope = d
        BY <3>1 DEF CompositionsKept, ResolvedIsOpen
      <3>3. resolvedEntries[d] # e
        BY <1>c, <3>1, <3>2
      <3>. QED BY <2>1, <3>1, <3>2, <3>3
    <2>. QED BY <2>1, <2>6, <2>7 DEF CompositionsKept
  <1>3. \/ composition' = [composition EXCEPT ![e].live = live] /\ UNCHANGED maps
        \/ /\ composition' = [composition EXCEPT ![e].live = live,
                                ![e].at = IF @ = "open" THEN "shut" ELSE @]
           /\ session' = [session EXCEPT ![s].at = "closing",
                            ![s].owned = (resolvedEntries[c] = e)]
           /\ IF resolvedEntries[c] = e
              THEN /\ entries' = [entries EXCEPT ![c] = Nobody]
                   /\ resolvedEntries' = [resolvedEntries EXCEPT ![c] = Nobody]
              ELSE UNCHANGED <<entries, resolvedEntries>>
    BY <1>e, <1>c, <1>n DEF Release, maps
  <1>. QED BY <1>1, <1>2, <1>3

\* What is not finished stays in the maps, or a release is at it.
LEMMA NextKept ==
  ASSUME Frame, Frame', [Next]_vars, Up, CompositionsKept, "close" \notin faults', ~disposed'
  PROVE  CompositionsKept'
  <1>0. ~disposed
    BY StaysDown
  <1>1. CASE UNCHANGED <<composition, entries, resolvedEntries>>
    BY <1>1, QuietKept DEF Composition
  <1>2. ASSUME NEW s \in Session, Enter(s) PROVE CompositionsKept'
    <2>1. CASE composition' = [composition EXCEPT ![session[s].on].live = @ + 1]
      <3>1. /\ Composition' = Composition
            /\ \A x \in Composition : composition'[x].at = composition[x].at
        BY <2>1, FrameParts DEF Composition, Compositions
      <3>. QED BY <1>2, <3>1, QuietKept DEF Enter, maps
    <2>. QED BY <1>1, <1>2, <2>1 DEF Enter, maps
  <1>3. ASSUME NEW s \in Session, Closed(s) PROVE CompositionsKept'
    <2>1. session[s].at = "closing" /\ composition' = [composition EXCEPT ![session[s].on].at = "gone"]
      BY <1>3 DEF Closed
    <2>2. composition[session[s].on].at # "open"
      BY <2>1 DEF Up, Allowed, CompositionOf
    <2>3. /\ Composition' = Composition
          /\ \A x \in Composition :
               \/ composition'[x].at = composition[x].at
               \/ composition[x].at # "open" /\ composition'[x].at = "gone"
      BY <2>1, <2>2, FrameParts DEF Composition, Compositions
    <2>. QED BY <1>3, <2>3, QuietKept DEF Closed
  <1>4. ASSUME NEW e \in Composition, StartComposing(e) PROVE CompositionsKept'
    <2>1. /\ Composition' = Composition
          /\ \A x \in Composition :
               \/ composition'[x].at = composition[x].at
               \/ composition[x].at = "source" /\ composition'[x].at = "composing"
      BY <1>4, FrameParts DEF StartComposing, Composition, Compositions
    <2>. QED BY <1>4, <2>1, QuietKept DEF StartComposing, maps
  <1>5. ASSUME NEW s \in Session, CloseFails(s) PROVE CompositionsKept'
    BY <1>5 DEF CloseFails, Fault
  <1>6. CASE \/ \E s \in Session :
                  \/ Created(s) \/ CreationFails(s) \/ Dispose(s) \/ DisposeFails(s)
                  \/ Dropped(s) \/ DropFails(s)
             \/ \E k \in Key : PrewarmMcp(k)
             \/ \E i \in Source : SourceStarts(i) \/ SourceFails(i)
             \/ UNCHANGED vars
    <2>1. UNCHANGED <<composition, entries, resolvedEntries>>
      BY <1>6 DEF Created, CreationFails, Dispose, DisposeFails, Dropped, DropFails,
                  PrewarmMcp, SourceStarts, SourceFails, maps, vars
    <2>. QED BY <1>1, <2>1
  <1>7. ~(DisposePool \/ PhaseEnds)
    BY PoolStepsFrame
  <1>8. ~ \/ \E e \in Composition : ShutComposition(e) \/ CleanComposition(e)
          \/ \E i \in Source : CleanSource(i)
          \/ \E x \in Composition \cup Source : CleanFails(x)
    BY <1>0, TasksFrame
  <1>. QED BY <1>0, <1>2, <1>3, <1>4, <1>5, <1>6, <1>7, <1>8, CreateAssemblyKept, ReleaseKept,
              ComposedKept, EntryFailsKept DEF Next
\* Disposing of the pool makes a task of whatever is in the maps.
LEMMA GoStarts ==
  ASSUME Frame, CompositionsKept, ~disposed, DisposePool
  PROVE  CompositionsGo'
  <1>1. pool'.compositions = Promised /\ UNCHANGED <<composition, session>>
    BY DEF DisposePool, disposed
  <1>2. SUFFICES ASSUME NEW e \in Composition
                 PROVE  Finished(e) \/ Closing(e) \/ e \in Promised
    BY <1>1 DEF CompositionsGo, Finished, Closing, Composition
  <1>3. composition[e].at \in CompositionStates /\ composition[e].scope \in Scope /\ e # Nobody
    BY FrameParts DEF Compositions, Nobody
  <1>4. Kept(e)
    BY DEF CompositionsKept
  <1>. QED BY <1>3, <1>4 DEF Kept, CompositionStates, Promised, Finished

\* What the disposal changes of its tasks.
LEMMA TaskEffects ==
  ASSUME Frame, [Next]_vars, disposed
  PROVE  /\ \A e \in pool.compositions : e \in pool'.compositions \/ CleanComposition(e)
         /\ \A i \in pool.sources : i \in pool'.sources \/ CleanSource(i)
         /\ pool'.compositions \subseteq pool.compositions
         /\ pool'.sources \subseteq pool.sources
         /\ pool'.at = "down" =>
              pool.at = "down" \/ (pool'.compositions = {} /\ pool'.sources = {})
  <1>0. pool \in Pools
    BY FrameParts
  <1>1. CASE UNCHANGED pool
    BY <1>1
  <1>2. ASSUME NEW e \in Composition, CleanComposition(e)
        PROVE  /\ pool'.compositions = pool.compositions \ {e} /\ pool'.sources = pool.sources
               /\ pool'.at = pool.at
    BY <1>0, <1>2 DEF CleanComposition, Pools
  <1>3. ASSUME NEW i \in Source, CleanSource(i)
        PROVE  /\ pool'.sources = pool.sources \ {i} /\ pool'.compositions = pool.compositions
               /\ pool'.at = pool.at
    BY <1>0, <1>3 DEF CleanSource, Pools
  <1>4. ASSUME NEW x \in Composition \cup Source, CleanFails(x)
        PROVE  UNCHANGED <<pool.compositions, pool.sources, pool.at>>
    BY <1>0, <1>4 DEF CleanFails, Pools
  <1>5. ASSUME DisposePool
        PROVE  UNCHANGED <<pool.compositions, pool.sources>> /\ pool'.at = "closing"
    BY <1>0, <1>5 DEF DisposePool, disposed, Pools
  <1>6. ASSUME PhaseEnds
        PROVE  /\ UNCHANGED <<pool.compositions, pool.sources>>
               /\ pool'.at = "down" => pool.compositions \cup pool.sources = {}
    <2>1. pool.at = "closing"
      BY <1>6 DEF PhaseEnds
    <2>2. CASE pool' = [pool EXCEPT !.phase = 1, !.left = pool.sources]
      BY <1>0, <2>1, <2>2 DEF Pools
    <2>3. CASE pool' = [pool EXCEPT !.at = "stuck"]
      BY <1>0, <2>3 DEF Pools
    <2>4. CASE pool' = [pool EXCEPT !.at = "down"] /\ pool.compositions \cup pool.sources = {}
      BY <1>0, <2>4 DEF Pools
    <2>. QED BY <1>6, <2>2, <2>3, <2>4 DEF PhaseEnds
  <1>7. CASE ~(\/ \E e \in Composition : CleanComposition(e)
               \/ \E i \in Source : CleanSource(i)
               \/ \E x \in Composition \cup Source : CleanFails(x)
               \/ DisposePool \/ PhaseEnds)
    <2>1. UNCHANGED pool
      BY <1>7 DEF Next, vars, PrewarmMcp, CreateAssembly, SourceStarts, SourceFails,
           StartComposing, Composed, EntryFails, Enter, Created, CreationFails, Dispose,
           DisposeFails, DropFails, Release, Closed, CloseFails, Dropped, ShutComposition
    <2>. QED BY <2>1
  <1>. QED BY <1>2, <1>3, <1>4, <1>5, <1>6, <1>7

\* From then on what is not finished is a task, or a release is at it.
LEMMA GoStays ==
  ASSUME Frame, [Next]_vars, disposed, CompositionsGo, "close" \notin faults'
  PROVE  CompositionsGo'
  <1>1. Composition' = Composition
    <2>1. ~\E s \in Session : \E c \in Scope : CreateAssembly(s, c)
      BY DEF CreateAssembly
    <2>2. CASE UNCHANGED composition
      BY <2>2 DEF Composition
    <2>3. CASE \E s \in Session : Enter(s) \/ Release(s) \/ Closed(s)
      BY <2>3, FrameParts DEF Enter, Release, Closed, Composition
    <2>4. CASE \E e \in Composition :
                 \/ StartComposing(e) \/ Composed(e) \/ EntryFails(e)
                 \/ ShutComposition(e) \/ CleanComposition(e)
      BY <2>4, FrameParts DEF StartComposing, Composed, EntryFails, ShutComposition,
                              CleanComposition, Composition
    <2>. QED BY <2>1, <2>2, <2>3, <2>4
         DEF Next, vars, PrewarmMcp, SourceStarts, SourceFails, CleanSource, Created, CreationFails,
             Dispose, DisposeFails, CloseFails, Dropped, DropFails, CleanFails, DisposePool, PhaseEnds
  <1>2. ASSUME NEW e \in Composition, CleanComposition(e) PROVE Finished(e)'
    <2>1. composition'[e].at = IF composition[e].at = "failed" THEN composition[e].at ELSE "gone"
      BY <1>2, FrameParts DEF CleanComposition, Composition, Compositions
    <2>. QED BY <2>1 DEF Finished
  <1>. SUFFICES ASSUME NEW e \in Composition PROVE (Finished(e) \/ Closing(e) \/ e \in pool.compositions)'
    BY <1>1 DEF CompositionsGo
  <1>. QED BY <1>2, FinishedStays, ClosersStay, TaskEffects DEF CompositionsGo
\* The sources: their keys stay, and what is finished stays finished.
LEMMA SourceEffects ==
  ASSUME Frame, [Next]_vars, NEW i \in Source
  PROVE  /\ i \in Source' /\ source'[i].key = source[i].key
         /\ SourceFinished(i) => SourceFinished(i)'
         /\ CleanSource(i) \/ (\E t \in Session : Dropped(t) /\ session[t].drops = i)
              => SourceFinished(i)'
  <1>. DEFINE Stays == /\ i \in Source' /\ source'[i].key = source[i].key
                       /\ SourceFinished(i) => SourceFinished(i)'
  <1>0. source \in Seq(Sources) /\ \A j \in Source : source[j] \in Sources
    BY FrameParts
  <1>1. ASSUME UNCHANGED source PROVE Stays
    BY <1>1 DEF Source, SourceFinished
  <1>2. ASSUME NEW k \in Key, AskForSource(k) PROVE Stays
    <2>1. CASE source' = Append(source, [key |-> k, at |-> "starting"])
      <3>1. i \in 1..Len(source) /\ Len(source) \in Nat
        BY FrameParts
      <3>2. source'[i] = source[i] /\ i \in DOMAIN source'
        BY <1>0, <2>1, <3>1
      <3>. QED BY <3>2 DEF Source, SourceFinished
    <2>. QED BY <1>1, <1>2, <2>1 DEF AskForSource
  <1>3. ASSUME NEW j, NEW a, source' = [source EXCEPT ![j].at = a],
               a = source[j].at \/ a \in {"gone", "failed"} \/ source[j].at = "starting"
        PROVE  Stays /\ (i = j /\ a \in {"gone", "failed"} => SourceFinished(i)')
    BY <1>0, <1>3 DEF Source, Sources, SourceFinished
  <1>4. ASSUME NEW j \in Source, SourceStarts(j) \/ SourceFails(j) PROVE Stays
    BY <1>3, <1>4 DEF SourceStarts, SourceFails
  <1>5. ASSUME NEW j, source' = [source EXCEPT ![j].at = IF @ = "failed" THEN @ ELSE "gone"]
        PROVE  Stays /\ (i = j => SourceFinished(i)')
    <2>1. PICK a : a = IF source[j].at = "failed" THEN source[j].at ELSE "gone"
      OBVIOUS
    <2>2. source' = [source EXCEPT ![j].at = a]
      BY <1>5, <2>1
    <2>. QED BY <1>3, <2>1, <2>2
  <1>6. ASSUME NEW j \in Source, CleanSource(j)
        PROVE  Stays /\ (i = j => SourceFinished(i)')
    BY <1>5, <1>6 DEF CleanSource
  <1>7. ASSUME NEW t \in Session, Dropped(t)
        PROVE  Stays /\ (session[t].drops = i => SourceFinished(i)')
    BY <1>5, <1>7 DEF Dropped
  <1>8. ASSUME NEW s \in Session, NEW c \in Scope, CreateAssembly(s, c) PROVE Stays
    BY <1>1, <1>2, <1>8, KeyAssumption DEF CreateAssembly
  <1>9. ASSUME NEW k \in Key, PrewarmMcp(k) PROVE Stays
    BY <1>2, <1>9 DEF PrewarmMcp
  <1>10. CASE ~(\/ \E s \in Session : (\E c \in Scope : CreateAssembly(s, c)) \/ Dropped(s)
                \/ \E k \in Key : PrewarmMcp(k)
                \/ \E j \in Source : SourceStarts(j) \/ SourceFails(j) \/ CleanSource(j))
    <2>1. UNCHANGED source
      BY <1>10 DEF Next, vars, StartComposing, Composed, EntryFails, Enter, Created, CreationFails,
           Dispose, DisposeFails, DropFails, Release, Closed, CloseFails, ShutComposition,
           CleanComposition, CleanFails, DisposePool, PhaseEnds
    <2>. QED BY <1>1, <1>10, <2>1
  <1>11. Stays
    BY <1>4, <1>6, <1>7, <1>8, <1>9, <1>10
  <1>. QED BY <1>6, <1>7, <1>11

\* A release that disposes of a source goes on until the source is gone.
LEMMA DroppersStay ==
  ASSUME Frame, [Next]_vars, NEW i \in Source, Dropping(i)
  PROVE  Dropping(i)' \/ SourceFinished(i)' \/ "drop" \in faults'
  <1>1. PICK t \in Session : session[t].drops = i /\ session[t].at = "dropping"
    BY DEF Dropping
  <1>2. CASE session'[t] = session[t]
    BY <1>1, <1>2 DEF Dropping
  <1>3. ASSUME NEW s \in Session,
               \/ \E c \in Scope : CreateAssembly(s, c)
               \/ Enter(s) \/ Release(s) \/ Created(s) \/ CreationFails(s)
               \/ Dispose(s) \/ DisposeFails(s) \/ Closed(s) \/ CloseFails(s)
        PROVE  session'[t] = session[t]
    <2>1. session[s].at # "dropping"
      BY <1>3 DEF CreateAssembly, Enter, Release, Created, CreationFails, Dispose,
                  DisposeFails, Closed, CloseFails
    <2>2. OnlyMoves(s)
      BY <1>3, OneSessionMoves
    <2>. QED BY <1>1, <2>1, <2>2 DEF OnlyMoves
  <1>4. ASSUME NEW s \in Session, DropFails(s) PROVE "drop" \in faults'
    BY <1>4 DEF DropFails, Fault
  <1>5. ASSUME NEW s \in Session, Dropped(s), session'[t] # session[t] PROVE SourceFinished(i)'
    <2>1. s = t
      BY <1>5, OneSessionMoves DEF OnlyMoves
    <2>. QED BY <1>1, <1>5, <2>1, SourceEffects
  <1>6. CASE ~\E s \in Session :
               \/ \E c \in Scope : CreateAssembly(s, c)
               \/ Enter(s) \/ Release(s) \/ Created(s) \/ CreationFails(s)
               \/ Dispose(s) \/ DisposeFails(s) \/ Closed(s) \/ CloseFails(s)
               \/ Dropped(s) \/ DropFails(s)
    BY <1>1, <1>2, <1>6, OtherSteps
  <1>. QED BY <1>2, <1>3, <1>4, <1>5, <1>6

\* While the pool is up a source leaves the maps with a release that disposes of
\* it, or because it failed to start.
LEMMA InTheMapsStays ==
  ASSUME Frame, [Next]_vars, NEW i \in Source, ~disposed', mcpSources[source[i].key] = i,
         "source" \notin faults'
  PROVE  mcpSources'[source[i].key] = i \/ Dropping(i)'
  <1>0. /\ source[i].key \in Key /\ i # Nobody
        /\ mcpSources \in [Key -> 0..Len(source)] /\ session \in [Session -> Sessions]
    BY FrameParts DEF Sources, Nobody, Frame, TypeOK
  <1>1. CASE UNCHANGED mcpSources
    BY <1>1
  <1>2. ASSUME NEW k \in Key, AskForSource(k) PROVE mcpSources'[source[i].key] = i
    BY <1>0, <1>2 DEF AskForSource
  <1>3. ASSUME NEW s \in Session, Closed(s), mcpSources' # mcpSources
        PROVE  mcpSources'[source[i].key] = i \/ Dropping(i)'
    <2>1. PICK k : /\ mcpSources' = [mcpSources EXCEPT ![k] = Nobody]
                   /\ session' = [session EXCEPT ![s].drops = mcpSources[k],
                        ![s].at = IF mcpSources[k] = Nobody THEN Over(s) ELSE "dropping"]
      BY <1>3 DEF Closed
    <2>2. CASE k = source[i].key
      <3>1. session'[s].drops = i /\ session'[s].at = "dropping"
        BY <1>0, <2>1, <2>2 DEF Sessions
      <3>. QED BY <3>1 DEF Dropping
    <2>. QED BY <1>0, <2>1, <2>2
  <1>4. ASSUME NEW j \in Source, SourceFails(j) PROVE FALSE
    BY <1>4 DEF SourceFails, Fault
  <1>5. ~(DisposePool \/ PhaseEnds)
    BY PoolStepsFrame
  <1>6. CASE \/ \E s \in Session : \E c \in Scope : CreateAssembly(s, c)
             \/ \E k \in Key : PrewarmMcp(k)
    BY <1>1, <1>2, <1>6, KeyAssumption DEF CreateAssembly, PrewarmMcp
  <1>7. CASE ~(\/ \E s \in Session : (\E c \in Scope : CreateAssembly(s, c)) \/ Closed(s)
               \/ \E k \in Key : PrewarmMcp(k)
               \/ \E j \in Source : SourceFails(j))
    <2>1. UNCHANGED mcpSources
      BY <1>5, <1>7 DEF Next, vars, maps, SourceStarts, CleanSource, StartComposing, Composed,
           EntryFails, Enter, Created, CreationFails, Dispose, DisposeFails, Dropped, DropFails,
           Release, CloseFails, ShutComposition, CleanComposition, CleanFails
    <2>. QED BY <1>1, <2>1
  <1>. QED BY <1>1, <1>3, <1>4, <1>6, <1>7
\* Only the first call of disposePool ends the time the pool is up.
LEMMA DisposalBegins ==
  ASSUME Frame, [Next]_vars, ~disposed, disposed'
  PROVE  DisposePool /\ pool'.at = "closing"
  <1>1. DisposePool
    BY TasksFrame
       DEF disposed, Next, vars, PrewarmMcp, CreateAssembly, SourceStarts, SourceFails,
           StartComposing, Composed, EntryFails, Enter, Created, CreationFails, Dispose,
           DisposeFails, DropFails, Release, Closed, CloseFails, Dropped, PhaseEnds
  <1>. QED BY <1>1 DEF DisposePool, disposed

\* A source that was there before the step.
LEMMA SourceStep ==
  ASSUME Frame, [Next]_vars, NEW i \in Source, SourceGoes(i),
         {"drop", "source"} \cap faults' = {}
  PROVE  SourceGoes(i)'
  <1>1. CASE SourceFinished(i)
    BY <1>1, SourceEffects DEF SourceGoes
  <1>2. CASE Dropping(i)
    BY <1>2, DroppersStay DEF SourceGoes
  <1>3. CASE ~disposed /\ mcpSources[source[i].key] = i
    <2>1. CASE ~disposed'
      BY <1>3, <2>1, InTheMapsStays, SourceEffects DEF SourceGoes
    <2>2. CASE disposed'
      <3>1. DisposePool
        BY <1>3, <2>2, DisposalBegins
      <3>2. pool'.sources = {mcpSources[k] : k \in Key} \ {Nobody}
        BY <1>3, <3>1 DEF DisposePool, disposed
      <3>3. source[i].key \in Key /\ i # Nobody
        BY FrameParts DEF Sources, Nobody
      <3>. QED BY <1>3, <2>2, <3>2, <3>3 DEF SourceGoes
    <2>. QED BY <2>1, <2>2
  <1>4. CASE disposed /\ i \in pool.sources
    BY <1>4, StaysDown, TaskEffects, SourceEffects DEF SourceGoes
  <1>. QED BY <1>1, <1>2, <1>3, <1>4 DEF SourceGoes

\* A source that the step asks for is in the maps.
LEMMA NewSource ==
  ASSUME Frame, [Next]_vars, NEW i \in Source', i \notin Source
  PROVE  SourceGoes(i)'
  <1>0. /\ source \in Seq(Sources) /\ Source = 1..Len(source)
        /\ mcpSources \in [Key -> 0..Len(source)]
    BY FrameParts DEF Frame, TypeOK
  <1>1. ASSUME NEW k \in Key, AskForSource(k), ~disposed, UNCHANGED pool PROVE SourceGoes(i)'
    <2>1. /\ source' = Append(source, [key |-> k, at |-> "starting"])
          /\ mcpSources' = [mcpSources EXCEPT ![k] = Len(source) + 1]
      BY <1>1 DEF AskForSource, Source
    <2>2. i = Len(source) + 1 /\ source'[i].key = k
      BY <1>0, <2>1 DEF Source
    <2>3. mcpSources'[source'[i].key] = i
      BY <1>0, <2>1, <2>2
    <2>. QED BY <1>1, <2>3 DEF SourceGoes, disposed
  <1>2. ASSUME NEW s \in Session, NEW c \in Scope, CreateAssembly(s, c) PROVE SourceGoes(i)'
    <2>1. AskForSource(KeyOf[c])
      BY <1>2 DEF CreateAssembly, Source
    <2>. QED BY <1>1, <1>2, <2>1, KeyAssumption DEF CreateAssembly
  <1>3. ASSUME NEW k \in Key, PrewarmMcp(k) PROVE SourceGoes(i)'
    BY <1>1, <1>3 DEF PrewarmMcp
  <1>4. CASE ~(\/ \E s \in Session : \E c \in Scope : CreateAssembly(s, c)
               \/ \E k \in Key : PrewarmMcp(k))
    <2>1. CASE UNCHANGED source
      BY <2>1 DEF Source
    <2>2. CASE \/ \E j \in Source : SourceStarts(j) \/ SourceFails(j) \/ CleanSource(j)
               \/ \E s \in Session : Dropped(s)
      BY <1>0, <2>2 DEF SourceStarts, SourceFails, CleanSource, Dropped, Source
    <2>. QED BY <1>4, <2>1, <2>2
         DEF Next, vars, StartComposing, Composed, EntryFails, Enter, Created, CreationFails,
             Dispose, DisposeFails, DropFails, Release, Closed, CloseFails, ShutComposition,
             CleanComposition, CleanFails, DisposePool, PhaseEnds
  <1>. QED BY <1>2, <1>3, <1>4

LEMMA InitGone == Init => GoneInv
  <1>. SUFFICES ASSUME Init PROVE GoneInv OBVIOUS
  <1>1. Composition = {} /\ Source = {} /\ ~disposed /\ pool.at # "down"
    BY DEF Init, Composition, Source, disposed
  <1>2. ResolvedIsOpen
    BY DEF Init, ResolvedIsOpen
  <1>. QED BY <1>1, <1>2, InitFrame DEF GoneInv, CompositionsKept

LEMMA NextGone == GoneInv /\ [Next]_vars => GoneInv'
  <1>. SUFFICES ASSUME GoneInv, [Next]_vars PROVE GoneInv' OBVIOUS
  <1>1. Frame /\ Frame' /\ PoolInv' /\ (~disposed => Up) /\ faults \subseteq faults'
    BY NextFrame, NextUp, StaysDown, FaultsStay DEF GoneInv, PoolInv
  <1>2. ASSUME "close" \notin faults'
        PROVE  IF disposed' THEN CompositionsGo' ELSE CompositionsKept'
    <2>1. IF disposed THEN CompositionsGo ELSE CompositionsKept
      BY <1>1, <1>2 DEF GoneInv
    <2>2. CASE disposed
      BY <1>1, <1>2, <2>1, <2>2, GoStays, StaysDown
    <2>3. CASE ~disposed /\ disposed'
      BY <1>1, <2>1, <2>3, DisposalBegins, GoStarts
    <2>4. CASE ~disposed /\ ~disposed'
      BY <1>1, <1>2, <2>1, <2>4, NextKept
    <2>. QED BY <2>2, <2>3, <2>4
  <1>3. ASSUME {"drop", "source"} \cap faults' = {}, NEW i \in Source' PROVE SourceGoes(i)'
    <2>1. i \in Source => SourceGoes(i)
      BY <1>1, <1>3 DEF GoneInv
    <2>. QED BY <1>1, <1>3, <2>1, SourceStep, NewSource
  <1>4. pool'.at = "down" => pool'.compositions = {} /\ pool'.sources = {}
    <2>1. CASE disposed
      BY <1>1, <2>1, TaskEffects DEF GoneInv
    <2>2. CASE ~disposed
      BY <1>1, <2>2, DisposalBegins DEF disposed
    <2>. QED BY <2>1, <2>2
  <1>. QED BY <1>1, <1>2, <1>3, <1>4 DEF GoneInv

\* What the pool's disposal and the releases leave when all of them are over: no
\* composition and no source that is not disposed of, whatever was promised,
\* under way or failed to start meanwhile (disposePool of
\* DesktopRuntimeBackendPool, whose tasks are fixed at its first call).
THEOREM NothingIsLeft == Spec => []EverythingGoes
  <1>1. GoneInv => EverythingGoes
    <2>. SUFFICES ASSUME GoneInv, pool.at = "down", Quiet PROVE EverythingGoes
      BY DEF EverythingGoes
    <2>1. pool.compositions = {} /\ pool.sources = {} /\ disposed
      BY DEF GoneInv, disposed
    <2>2. (\A e \in Composition : ~Closing(e)) /\ (\A i \in Source : ~Dropping(i))
      BY DEF Quiet, Closing, Dropping
    <2>3. "close" \notin faults => \A e \in Composition : Finished(e)
      BY <2>1, <2>2 DEF GoneInv, CompositionsGo
    <2>4. {"drop", "source"} \cap faults = {} => \A i \in Source : SourceFinished(i)
      BY <2>1, <2>2 DEF GoneInv, SourceGoes
    <2>. QED BY <2>3, <2>4 DEF EverythingGoes, Finished, SourceFinished
  <1>. QED BY InitGone, NextGone, <1>1, PTL DEF Spec
=============================================================================
