---------------------- MODULE ConversationRecoveryProofs ----------------------
(***************************************************************************)
(* Proofs about the recovery policy, for conversations of any length: what *)
(* the loop of plan() computes, and that it is what the conversation looks *)
(* like as a whole.                                                        *)
(*                                                                         *)
(* The loop is a recursive function, and what it computes is shown by      *)
(* induction on the number of events.  The library's induction rules are   *)
(* about operators; its least-element rule of well-founded relations is    *)
(* about sets, and yields the induction that is needed here.               *)
(***************************************************************************)
EXTENDS MCConversationRecovery, WellFoundedInduction, TLAPS

-----------------------------------------------------------------------------
(* Induction over the naturals, for sets *)

Less == {p \in Nat \X Nat : p[1] < p[2]}

LEMMA LeastOf ==
  ASSUME NEW T, T \subseteq Nat, T # {}
  PROVE  \E n \in T : \A m \in T : n <= m
  <1>1. IsWellFoundedOn(Less, Nat)
    BY NatLessThanWellFounded DEF Less, OpToRel
  <1>2. PICK n \in T : \A m \in T : ~ (<<m, n>> \in Less)
    BY <1>1, WFMin
  <1>3. \A m \in T : ~ (m < n)
    BY <1>2 DEF Less
  <1>. QED BY <1>3

LEMMA SetInduction ==
  ASSUME NEW S, 0 \in S, \A n \in Nat : n \in S => n + 1 \in S
  PROVE  Nat \subseteq S
  <1>. SUFFICES ASSUME Nat \ S # {} PROVE FALSE
    OBVIOUS
  <1>1. PICK n \in Nat \ S : \A m \in Nat \ S : n <= m
    BY LeastOf
  <1>2. n # 0 /\ n - 1 \in Nat
    BY <1>1
  <1>3. n - 1 \in S
    BY <1>1, <1>2
  <1>. QED BY <1>1, <1>2, <1>3

-----------------------------------------------------------------------------
(* The loop of plan() *)

\* g is the loop over the first n events of s.
Walks(g, s, n) ==
  g = [i \in 0..n |-> IF i = 0 THEN Ready ELSE PlanStep(g[i - 1], s[i])]

LEMMA WalksAgree ==
  ASSUME NEW s, NEW m \in Nat, NEW n \in Nat, m <= n,
         NEW g, Walks(g, s, m), NEW h, Walks(h, s, n)
  PROVE  \A i \in 0..m : g[i] = h[i]
  <1>. DEFINE S == {i \in Nat : i <= m => g[i] = h[i]}
  <1>1. 0 \in S
    BY DEF Walks
  <1>2. ASSUME NEW i \in Nat, i \in S PROVE i + 1 \in S
    <2>. SUFFICES ASSUME i + 1 <= m PROVE g[i + 1] = h[i + 1]
      OBVIOUS
    <2>1. g[i] = h[i] /\ i + 1 \in 0..m /\ i + 1 \in 0..n /\ i + 1 # 0 /\ (i + 1) - 1 = i
      BY <1>2
    <2>2. g[i + 1] = PlanStep(g[i], s[i + 1])
      BY <2>1 DEF Walks
    <2>3. h[i + 1] = PlanStep(h[i], s[i + 1])
      BY <2>1 DEF Walks
    <2>. QED BY <2>1, <2>2, <2>3
  <1>3. Nat \subseteq S
    <2>. HIDE DEF S
    <2>. QED BY <1>1, <1>2, SetInduction
  <1>. QED BY <1>3

LEMMA WalkGoesOn ==
  ASSUME NEW s, NEW n \in Nat, NEW g, Walks(g, s, n)
  PROVE  Walks([i \in 0..(n + 1) |-> IF i <= n THEN g[i] ELSE PlanStep(g[n], s[n + 1])], s, n + 1)
  <1>. DEFINE h == [i \in 0..(n + 1) |-> IF i <= n THEN g[i] ELSE PlanStep(g[n], s[n + 1])]
  <1>1. ASSUME NEW i \in 0..(n + 1)
        PROVE  h[i] = IF i = 0 THEN Ready ELSE PlanStep(h[i - 1], s[i])
    <2>1. CASE i = 0
      BY <2>1 DEF Walks
    <2>2. CASE i # 0 /\ i <= n
      <3>1. h[i] = g[i] /\ h[i - 1] = g[i - 1] /\ i \in 0..n
        BY <2>2
      <3>2. g[i] = PlanStep(g[i - 1], s[i])
        BY <2>2, <3>1 DEF Walks
      <3>. QED BY <2>2, <3>1, <3>2
    <2>3. CASE i = n + 1
      <3>1. h[i - 1] = g[n] /\ h[i] = PlanStep(g[n], s[n + 1]) /\ i # 0
        BY <2>3
      <3>. QED BY <2>3, <3>1
    <2>. QED BY <2>1, <2>2, <2>3
  <1>2. h = [i \in 0..(n + 1) |-> h[i]]
    OBVIOUS
  <1>. HIDE DEF h
  <1>3. h = [i \in 0..(n + 1) |-> IF i = 0 THEN Ready ELSE PlanStep(h[i - 1], s[i])]
    BY <1>1, <1>2
  <1>4. Walks(h, s, n + 1)
    BY <1>3 DEF Walks
  <1>. QED BY <1>4 DEF h

LEMMA WalkExists == ASSUME NEW s, NEW n \in Nat PROVE \E g : Walks(g, s, n)
  <1>. DEFINE S == {i \in Nat : \E g : Walks(g, s, i)}
  <1>1. 0 \in S
    <2>1. Walks([i \in 0..0 |-> Ready], s, 0)
      BY DEF Walks
    <2>. QED BY <2>1
  <1>2. ASSUME NEW i \in Nat, i \in S PROVE i + 1 \in S
    <2>1. PICK g : Walks(g, s, i)
      BY <1>2
    <2>2. \E h : Walks(h, s, i + 1)
      BY <2>1, WalkGoesOn
    <2>. QED BY <2>2
  <1>3. Nat \subseteq S
    <2>. HIDE DEF S
    <2>. QED BY <1>1, <1>2, SetInduction
  <1>. QED BY <1>3

LEMMA PlanWalks ==
  ASSUME NEW s, Len(s) \in Nat
  PROVE  \E g : Walks(g, s, Len(s)) /\ Plan(s) = g[Len(s)]
  <1>1. Plan(s) = (CHOOSE g : Walks(g, s, Len(s)))[Len(s)]
    BY DEF Plan, Walks
  <1>. QED BY <1>1, WalkExists

\* Storing one more event takes the plan one step further.
LEMMA PlanExtends ==
  ASSUME NEW S, NEW s \in Seq(S), NEW e
  PROVE  Plan(<<>>) = Ready /\ Plan(Append(s, e)) = PlanStep(Plan(s), e)
  <1>1. Plan(<<>>) = Ready
    <2>1. PICK g : Walks(g, <<>>, Len(<<>>)) /\ Plan(<<>>) = g[Len(<<>>)]
      BY PlanWalks
    <2>. QED BY <2>1 DEF Walks
  <1>2. Plan(Append(s, e)) = PlanStep(Plan(s), e)
    <2>. DEFINE n == Len(s)
                r == Append(s, e)
    <2>1. n \in Nat /\ Len(r) = n + 1 /\ r[n + 1] = e /\ \A i \in 1..n : r[i] = s[i]
      OBVIOUS
    <2>2. PICK g : Walks(g, s, n) /\ Plan(s) = g[n]
      BY <2>1, PlanWalks
    <2>. HIDE DEF n, r
    <2>3. PICK h : Walks(h, r, n + 1) /\ Plan(r) = h[n + 1]
      <3>1. Len(r) \in Nat
        BY <2>1
      <3>2. PICK h : Walks(h, r, Len(r)) /\ Plan(r) = h[Len(r)]
        BY <3>1, PlanWalks
      <3>. QED BY <2>1, <3>2
    <2>4. Walks(g, r, n)
      <3>1. \A i \in 0..n : i # 0 => r[i] = s[i]
        BY <2>1
      <3>. QED BY <2>2, <3>1 DEF Walks
    <2>5. g[n] = h[n]
      BY <2>1, <2>3, <2>4, WalksAgree
    <2>6. h[n + 1] = PlanStep(h[n], r[n + 1])
      <3>1. n + 1 \in 0..(n + 1) /\ n + 1 # 0 /\ (n + 1) - 1 = n
        BY <2>1
      <3>. QED BY <2>3, <3>1 DEF Walks
    <2>. QED BY <2>1, <2>2, <2>3, <2>5, <2>6 DEF r
  <1>. QED BY <1>1, <1>2

-----------------------------------------------------------------------------
(* Conversations as a whole *)

\* Event m closes turn t.
Closes(m, t) ==
  events[m].own /\ events[m].type \in Closing /\ events[m].turn = t

Opens(i) == i \in 1..Len(events) /\ events[i].type \in Opening

\* The turn that event i opens has not been closed before event m, or before the
\* one after the last.
Reaches(i, m) ==
  /\ Opens(i) /\ i <= m
  /\ \A j \in (i + 1)..(m - 1) : ~Closes(j, events[i].turn)

OpenAt(i) == Reaches(i, Len(events) + 1)

\* Event m belongs to the one turn that reaches it, or to none.
Fits(m) ==
  /\ events[m].own
  /\ \/ /\ Sessionwide(events[m])
        /\ \A i \in 1..Len(events) : ~Reaches(i, m)
     \/ /\ events[m].type \notin Outside
        /\ \E i \in 1..Len(events) :
             /\ Reaches(i, m)
             /\ events[m].turn = events[i].turn
             /\ (m = i) = (events[m].type \in Opening)
             /\ \A k \in 1..Len(events) \ {i} : ~Reaches(k, m)

LEMMA ClosingEvents ==
  ASSUME events \in Seq(Events)
  PROVE  \A j \in 1..Len(events) : \A t :
           events[j] \in {Event(c, t) : c \in Closing} <=> Closes(j, t)
  <1>1. \A j \in 1..Len(events) : events[j] \in Events
    OBVIOUS
  <1>. QED BY <1>1 DEF Events, Event, Closes

LEMMA SpanReaches ==
  ASSUME events \in Seq(Events), NEW i, NEW m \in 1..Len(events)
  PROVE  (\E s \in Spans : s[1] = i /\ m \in s[1]..s[2]) <=> Reaches(i, m)
  <1>0. /\ Len(events) \in Nat
        /\ \A j \in 1..Len(events) : events[j] \in Events
    OBVIOUS
  <1>c. \A j \in 1..Len(events) : \A t :
          events[j] \in {Event(c, t) : c \in Closing} <=> Closes(j, t)
    BY ClosingEvents
  <1>1. ASSUME NEW s \in Spans, s[1] = i, m \in s[1]..s[2] PROVE Reaches(i, m)
    <2>1. /\ s[1] \in 1..Len(events) /\ s[2] \in 1..Len(events)
          /\ events[s[1]].type \in Opening
          /\ \A j \in (s[1] + 1)..(s[2] - 1) :
               events[j] \notin {Event(c, events[s[1]].turn) : c \in Closing}
      BY DEF Spans
    <2>. QED BY <1>0, <1>1, <1>c, <2>1 DEF Reaches, Opens
  <1>2. ASSUME Reaches(i, m) PROVE \E s \in Spans : s[1] = i /\ m \in s[1]..s[2]
    <2>. DEFINE n == Len(events)
                t == events[i].turn
                T == {j \in m..n : j > i /\ Closes(j, t)}
    <2>0. i \in 1..n /\ i <= m /\ events[i].type \in Opening
          /\ \A j \in (i + 1)..(m - 1) : ~Closes(j, t)
      BY <1>2 DEF Reaches, Opens
    <2>1. CASE T = {}
      <3>1. <<i, n>> \in Spans
        <4>1. \A j \in (i + 1)..n : ~Closes(j, t)
          BY <1>0, <2>0, <2>1
        <4>2. \A j \in (i + 1)..n : events[j] \notin {Event(c, t) : c \in Closing}
          BY <1>0, <1>c, <2>0, <4>1
        <4>. QED BY <1>0, <2>0, <4>2 DEF Spans
      <3>. QED BY <1>0, <2>0, <3>1
    <2>2. CASE T # {}
      <3>1. PICK l \in T : \A j \in T : l <= j
        <4>1. T \subseteq Nat
          BY <1>0
        <4>. QED BY <2>2, <4>1, LeastOf
      <3>2. \A j \in (i + 1)..(l - 1) : ~Closes(j, t)
        BY <1>0, <2>0, <3>1
      <3>3. <<i, l>> \in Spans
        <4>1. \A j \in (i + 1)..(l - 1) : events[j] \notin {Event(c, t) : c \in Closing}
          BY <1>0, <1>c, <2>0, <3>1, <3>2
        <4>2. events[l] \in {Event(c, t) : c \in Closing}
          BY <1>0, <1>c, <3>1
        <4>. QED BY <1>0, <2>0, <3>1, <4>1, <4>2 DEF Spans
      <3>. QED BY <1>0, <2>0, <3>1, <3>3
    <2>. QED BY <2>1, <2>2
  <1>. QED BY <1>1, <1>2

\* A turn has one span.
LEMMA SpansAreTurns ==
  ASSUME events \in Seq(Events), NEW s \in Spans, NEW u \in Spans, s[1] = u[1]
  PROVE  s = u
  <1>0. /\ Len(events) \in Nat
        /\ s \in (1..Len(events)) \X (1..Len(events))
        /\ u \in (1..Len(events)) \X (1..Len(events))
    BY DEF Spans
  <1>1. s[2] = u[2]
    BY <1>0, SMT DEF Spans
  <1>. QED BY <1>0, <1>1

LEMMA LegalFits ==
  ASSUME events \in Seq(Events)
  PROVE  LegalHistory <=> \A m \in 1..Len(events) : Fits(m)
  <1>. SUFFICES ASSUME NEW m \in 1..Len(events)
                PROVE  Fits(m) <=>
                         /\ events[m].own
                         /\ \/ /\ Sessionwide(events[m])
                               /\ \A s \in Spans : m \notin s[1]..s[2]
                            \/ /\ events[m].type \notin Outside
                               /\ \E s \in Spans :
                                    /\ m \in s[1]..s[2]
                                    /\ events[m].turn = events[s[1]].turn
                                    /\ (m = s[1]) = (events[m].type \in Opening)
                                    /\ \A u \in Spans \ {s} : m \notin u[1]..u[2]
    BY DEF LegalHistory
  <1>0. \A s \in Spans : s[1] \in 1..Len(events)
    BY DEF Spans
  <1>1. (\A s \in Spans : m \notin s[1]..s[2]) <=> (\A i \in 1..Len(events) : ~Reaches(i, m))
    BY <1>0, SpanReaches
  <1>2. ASSUME NEW s \in Spans,
               m \in s[1]..s[2],
               \A u \in Spans \ {s} : m \notin u[1]..u[2]
        PROVE  /\ Reaches(s[1], m)
               /\ \A k \in 1..Len(events) \ {s[1]} : ~Reaches(k, m)
    <2>1. Reaches(s[1], m)
      BY <1>2, SpanReaches
    <2>2. ASSUME NEW k \in 1..Len(events) \ {s[1]}, Reaches(k, m) PROVE FALSE
      <3>1. PICK u \in Spans : u[1] = k /\ m \in u[1]..u[2]
        BY <2>2, SpanReaches
      <3>. QED BY <1>2, <2>2, <3>1
    <2>. QED BY <2>1, <2>2
  <1>3. ASSUME NEW i \in 1..Len(events), Reaches(i, m),
               \A k \in 1..Len(events) \ {i} : ~Reaches(k, m)
        PROVE  \E s \in Spans : /\ s[1] = i /\ m \in s[1]..s[2]
                                /\ \A u \in Spans \ {s} : m \notin u[1]..u[2]
    <2>1. PICK s \in Spans : s[1] = i /\ m \in s[1]..s[2]
      BY <1>3, SpanReaches
    <2>2. ASSUME NEW u \in Spans \ {s}, m \in u[1]..u[2] PROVE FALSE
      <3>1. Reaches(u[1], m)
        BY <2>2, SpanReaches
      <3>2. u[1] = i
        BY <1>0, <1>3, <3>1
      <3>. QED BY <2>1, <2>2, <3>2, SpansAreTurns
    <2>. QED BY <2>1, <2>2
  <1>4. (\E s \in Spans :
           /\ m \in s[1]..s[2]
           /\ events[m].turn = events[s[1]].turn
           /\ (m = s[1]) = (events[m].type \in Opening)
           /\ \A u \in Spans \ {s} : m \notin u[1]..u[2])
        <=> (\E i \in 1..Len(events) :
               /\ Reaches(i, m)
               /\ events[m].turn = events[i].turn
               /\ (m = i) = (events[m].type \in Opening)
               /\ \A k \in 1..Len(events) \ {i} : ~Reaches(k, m))
    BY <1>0, <1>2, <1>3
  <1>. QED BY <1>1, <1>4 DEF Fits

LEMMA OpenTurnsReach ==
  ASSUME events \in Seq(Events)
  PROVE  OpenTurns = {events[i].turn : i \in {j \in 1..Len(events) : OpenAt(j)}}
  <1>1. \A j \in 1..Len(events) : \A t :
          events[j] \in {Event(c, t) : c \in Closing} <=> Closes(j, t)
    BY ClosingEvents
  <1>2. \A j \in 1..Len(events) :
          OpenAt(j) <=> /\ events[j].type \in Opening
                        /\ \A k \in (j + 1)..Len(events) :
                             events[k] \notin {Event(c, events[j].turn) : c \in Closing}
    BY <1>1 DEF OpenAt, Reaches, Opens
  <1>. QED BY <1>2 DEF OpenTurns
-----------------------------------------------------------------------------
(* One more event *)

LEMMA ReachesStays ==
  ASSUME events \in Seq(Events), NEW e \in Events, events' = Append(events, e),
         NEW i, NEW m \in 1..(Len(events) + 1)
  PROVE  Reaches(i, m)' <=>
           \/ i \in 1..Len(events) /\ Reaches(i, m)
           \/ i = Len(events) + 1 /\ m = i /\ e.type \in Opening
  <1>n. PICK n : n = Len(events)
    OBVIOUS
  <1>0. /\ n \in Nat /\ Len(events') = n + 1 /\ events'[n + 1] = e
        /\ \A j \in 1..n : events'[j] = events[j]
    BY <1>n
  <1>1. CASE i \in 1..n
    <2>1. \A j \in (i + 1)..(m - 1) : Closes(j, events[i].turn)' <=> Closes(j, events[i].turn)
      BY <1>0, <1>1, <1>n DEF Closes
    <2>2. events'[i] = events[i] /\ (Opens(i)' <=> Opens(i))
      BY <1>0, <1>1, <1>n DEF Opens
    <2>3. Reaches(i, m)' <=>
            Opens(i)' /\ i <= m /\ \A j \in (i + 1)..(m - 1) : ~Closes(j, events[i].turn)'
      BY <2>2 DEF Reaches, Closes
    <2>. QED BY <1>0, <1>1, <1>n, <2>1, <2>2, <2>3 DEF Reaches
  <1>2. CASE i = n + 1
    <2>1. Reaches(i, m)' <=> Opens(i)' /\ i <= m /\ m = n + 1
      BY <1>0, <1>2, <1>n DEF Reaches
    <2>2. Opens(i)' <=> e.type \in Opening
      BY <1>0, <1>2 DEF Opens
    <2>. QED BY <1>0, <1>2, <1>n, <2>1, <2>2
  <1>3. CASE i \notin 1..(n + 1)
    BY <1>0, <1>3, <1>n DEF Reaches, Opens
  <1>. QED BY <1>0, <1>1, <1>2, <1>3

LEMMA FitsStays ==
  ASSUME events \in Seq(Events), NEW e \in Events, events' = Append(events, e),
         NEW m \in 1..Len(events)
  PROVE  Fits(m)' <=> Fits(m)
  <1>n. PICK n : n = Len(events)
    OBVIOUS
  <1>0. /\ n \in Nat /\ Len(events') = n + 1
        /\ \A j \in 1..n : events'[j] = events[j]
    BY <1>n
  <1>1. \A i \in 1..(n + 1) : Reaches(i, m)' <=> i \in 1..n /\ Reaches(i, m)
    BY <1>0, <1>n, ReachesStays
  <1>. QED BY <1>0, <1>1, <1>n DEF Fits
LEMMA LastFits ==
  ASSUME events \in Seq(Events), NEW e \in Events, events' = Append(events, e),
         NEW n, n = Len(events)
  PROVE  Fits(n + 1)' <=>
           /\ e.own
           /\ \/ /\ Sessionwide(e) \/ e.type \in Opening
                 /\ \A i \in 1..n : ~OpenAt(i)
              \/ /\ e.type \notin Outside \cup Opening
                 /\ \E i \in 1..n : /\ OpenAt(i) /\ e.turn = events[i].turn
                                    /\ \A k \in 1..n \ {i} : ~OpenAt(k)
  <1>0. /\ n \in Nat /\ Len(events') = n + 1 /\ events'[n + 1] = e
        /\ \A j \in 1..n : events'[j] = events[j]
    OBVIOUS
  <1>1. \A i \in 1..n : Reaches(i, n + 1)' <=> OpenAt(i)
    BY <1>0, ReachesStays DEF OpenAt
  <1>2. Reaches(n + 1, n + 1)' <=> e.type \in Opening
    BY <1>0, ReachesStays
  <1>3. \A i : i \in 1..(n + 1) <=> (i \in 1..n \/ i = n + 1)
    BY <1>0
  <1>4. n + 1 \notin 1..n
    BY <1>0
  <1>5. Fits(n + 1)' <=>
          /\ e.own
          /\ \/ Sessionwide(e) /\ \A i \in 1..(n + 1) : ~Reaches(i, n + 1)'
             \/ /\ e.type \notin Outside
                /\ \E i \in 1..(n + 1) :
                     /\ Reaches(i, n + 1)'
                     /\ e.turn = events'[i].turn
                     /\ (n + 1 = i) = (e.type \in Opening)
                     /\ \A k \in 1..(n + 1) \ {i} : ~Reaches(k, n + 1)'
    BY <1>0 DEF Fits, Sessionwide
  <1>6. CASE e.type \in Outside
    <2>1. e.type \notin Opening
      BY <1>6 DEF Outside, Opening
    <2>. QED BY <1>1, <1>2, <1>3, <1>5, <1>6, <2>1
  <1>7. CASE e.type \in Opening
    <2>1. e.type \notin Outside
      BY <1>7 DEF Outside, Opening
    <2>2. ~Sessionwide(e)
      BY <2>1 DEF Sessionwide
    <2>3. Fits(n + 1)' <=>
            e.own /\ \A k \in 1..n : ~Reaches(k, n + 1)'
      BY <1>0, <1>2, <1>3, <1>4, <1>5, <1>7, <2>1, <2>2
    <2>. QED BY <1>1, <1>7, <2>1, <2>3
  <1>8. CASE e.type \notin Outside \cup Opening
    <2>1. ~Sessionwide(e)
      BY <1>8 DEF Sessionwide
    <2>. QED BY <1>0, <1>1, <1>2, <1>3, <1>4, <1>5, <1>8, <2>1
  <1>. QED BY <1>6, <1>7, <1>8

LEMMA OpenAfter ==
  ASSUME events \in Seq(Events), NEW e \in Events, events' = Append(events, e),
         NEW n, n = Len(events)
  PROVE  /\ \A i \in 1..n : OpenAt(i)' <=>
              OpenAt(i) /\ ~(e.own /\ e.type \in Closing /\ e.turn = events[i].turn)
         /\ OpenAt(n + 1)' <=> e.type \in Opening
  <1>0. /\ n \in Nat /\ Len(events') = n + 1 /\ events'[n + 1] = e
        /\ \A j \in 1..n : events'[j] = events[j]
    OBVIOUS
  <1>1. ASSUME NEW i \in 1..(n + 1)
        PROVE  OpenAt(i)' <=>
                 Reaches(i, n + 1)' /\ (i <= n => ~Closes(n + 1, events[i].turn)')
    <2>1. \A j : j \in (i + 1)..(n + 1) <=> (j \in (i + 1)..n \/ (j = n + 1 /\ i <= n))
      BY <1>0, <1>1
    <2>. QED BY <1>0, <1>1, <2>1 DEF OpenAt, Reaches
  <1>2. \A i \in 1..n : Closes(n + 1, events[i].turn)' <=>
                          e.own /\ e.type \in Closing /\ e.turn = events[i].turn
    BY <1>0 DEF Closes
  <1>3. \A i \in 1..n : Reaches(i, n + 1)' <=> OpenAt(i)
    BY <1>0, ReachesStays DEF OpenAt
  <1>4. Reaches(n + 1, n + 1)' <=> e.type \in Opening
    BY <1>0, ReachesStays
  <1>. QED BY <1>0, <1>1, <1>2, <1>3, <1>4

-----------------------------------------------------------------------------
(* The plan is the history *)

Only(i) == OpenAt(i) /\ \A k \in 1..Len(events) \ {i} : ~OpenAt(k)

\* What the loop knows after the events so far.
AllFit == \A m \in 1..Len(events) : Fits(m)

Knows(i) == Only(i) /\ Plan(events) = Interrupt(events[i].turn)

PlanKnows ==
  IF AllFit
  THEN \/ Plan(events) = Ready /\ \A i \in 1..Len(events) : ~OpenAt(i)
       \/ \E i \in 1..Len(events) : Knows(i)
  ELSE Plan(events) = Throws

RecoveryInv == events \in Seq(Events) /\ PlanKnows

LEMMA InitKnows == Init => RecoveryInv
  <1>. SUFFICES ASSUME Init PROVE RecoveryInv OBVIOUS
  <1>1. events = <<>> /\ events \in Seq(Events) /\ Len(events) = 0
    BY DEF Init
  <1>2. Plan(events) = Ready
    BY <1>1, PlanExtends
  <1>. QED BY <1>1, <1>2 DEF RecoveryInv, PlanKnows, AllFit

LEMMA NextKnows == RecoveryInv /\ [Next]_events => RecoveryInv'
  <1>. SUFFICES ASSUME RecoveryInv, [Next]_events PROVE RecoveryInv' OBVIOUS
  <1>1. CASE UNCHANGED events
    BY <1>1 DEF RecoveryInv, PlanKnows, AllFit, Knows, Only, OpenAt, Reaches, Opens, Closes, Fits
  <1>2. ASSUME NEW e \in Events, events' = Append(events, e) PROVE RecoveryInv'
    <2>n. PICK n : n = Len(events)
      OBVIOUS
    <2>0. /\ events \in Seq(Events) /\ events' \in Seq(Events)
          /\ n \in Nat /\ Len(events') = n + 1
          /\ \A j \in 1..n : events'[j] = events[j]
          /\ events'[n + 1] = e
      BY <1>2, <2>n DEF RecoveryInv
    <2>1. Plan(events') = PlanStep(Plan(events), e)
      BY <1>2, <2>0, PlanExtends
    <2>2. AllFit' <=> AllFit /\ Fits(n + 1)'
      <3>1. (\A m \in 1..Len(events') : Fits(m)') <=>
              (\A m \in 1..n : Fits(m)) /\ Fits(n + 1)'
        BY <1>2, <2>n, <2>0, FitsStays
      <3>. QED BY <2>n, <3>1 DEF AllFit
    <2>3. ASSUME ~AllFit PROVE PlanKnows'
      <3>1. Plan(events) = Throws
        BY <2>3 DEF RecoveryInv, PlanKnows
      <3>2. Plan(events') = Throws
        BY <2>1, <3>1 DEF PlanStep, Legal, Throws, Ready, Interrupt
      <3>. QED BY <2>2, <2>3, <3>2 DEF PlanKnows
    <2>4. ASSUME AllFit, Plan(events) = Ready, \A i \in 1..n : ~OpenAt(i)
          PROVE  PlanKnows'
      <3>1. Fits(n + 1)' <=> e.own /\ (e.type \in Opening \/ Sessionwide(e))
        BY <1>2, <2>n, <2>0, <2>4, LastFits
      <3>2. CASE e.own /\ e.type \in Opening
        <4>1. Plan(events') = Interrupt(events'[n + 1].turn)
          BY <2>0, <2>1, <2>4, <3>2 DEF PlanStep, Legal
        <4>2. \A i \in 1..(n + 1) : OpenAt(i)' <=> i = n + 1
          BY <1>2, <2>n, <2>0, <2>4, <3>2, OpenAfter
        <4>3. Only(n + 1)'
          BY <2>0, <4>2 DEF Only
        <4>4. AllFit' /\ Knows(n + 1)' /\ n + 1 \in 1..Len(events')
          BY <2>0, <2>2, <2>4, <3>1, <3>2, <4>1, <4>3 DEF Knows
        <4>. QED BY <4>4 DEF PlanKnows
      <3>3. CASE e.own /\ Sessionwide(e)
        <4>1. e.type \notin Opening \cup Closing
          BY <3>3 DEF Sessionwide, Outside, Opening, Closing
        <4>2. Plan(events') = Ready
          BY <2>1, <2>4, <3>3, <4>1 DEF PlanStep, Legal
        <4>3. \A i \in 1..(n + 1) : ~OpenAt(i)'
          BY <1>2, <2>n, <2>0, <2>4, <4>1, OpenAfter
        <4>. QED BY <2>0, <2>2, <2>4, <3>1, <3>3, <4>2, <4>3 DEF PlanKnows
      <3>4. CASE ~(e.own /\ (e.type \in Opening \/ Sessionwide(e)))
        <4>1. Plan(events') = Throws
          BY <2>1, <2>4, <3>4 DEF PlanStep, Legal, Ready, Interrupt
        <4>. QED BY <2>2, <3>1, <3>4, <4>1 DEF PlanKnows
      <3>. QED BY <3>2, <3>3, <3>4
    <2>5. ASSUME AllFit, NEW i \in 1..n, Knows(i) PROVE PlanKnows'
      <3>0. /\ OpenAt(i) /\ \A k \in 1..n \ {i} : ~OpenAt(k)
            /\ Plan(events) = Interrupt(events[i].turn)
        BY <2>n, <2>5 DEF Knows, Only
      <3>d. e.type \in Inside \cup Closing => e.type \notin Outside \cup Opening
        BY DEF Inside, Closing, Outside, Opening
      <3>1. Fits(n + 1)' <=>
              e.own /\ e.type \in Inside \cup Closing /\ e.turn = events[i].turn
        <4>1. e.type \in Inside \cup Closing \cup Outside \cup Opening
          BY DEF Events
        <4>. QED BY <1>2, <2>n, <2>0, <3>0, <3>d, <4>1, LastFits DEF Sessionwide
      <3>2. CASE e.own /\ e.type \in Inside /\ e.turn = events[i].turn
        <4>1. e.type \notin Opening \cup Closing
          BY <3>2 DEF Inside, Opening, Closing
        <4>2. Plan(events') = Interrupt(events'[i].turn)
          BY <2>0, <2>1, <3>0, <3>2, <4>1 DEF PlanStep, Legal
        <4>3. \A k \in 1..(n + 1) : OpenAt(k)' <=> k = i
          BY <1>2, <2>n, <2>0, <3>0, <4>1, OpenAfter
        <4>4. Only(i)'
          BY <2>0, <4>3 DEF Only
        <4>5. AllFit' /\ Knows(i)' /\ i \in 1..Len(events')
          BY <2>0, <2>2, <2>5, <3>1, <3>2, <4>2, <4>4 DEF Knows
        <4>. QED BY <4>5 DEF PlanKnows
      <3>3. CASE e.own /\ e.type \in Closing /\ e.turn = events[i].turn
        <4>1. e.type \notin Opening
          BY <3>3 DEF Opening, Closing
        <4>2. Plan(events') = Ready
          BY <2>1, <3>0, <3>3, <4>1 DEF PlanStep, Legal
        <4>3. \A k \in 1..(n + 1) : ~OpenAt(k)'
          BY <1>2, <2>n, <2>0, <3>0, <3>3, <4>1, OpenAfter
        <4>. QED BY <2>0, <2>2, <2>5, <3>1, <3>3, <4>2, <4>3 DEF PlanKnows
      <3>4. CASE ~(e.own /\ e.type \in Inside \cup Closing /\ e.turn = events[i].turn)
        <4>1. Plan(events) # Ready
          BY <3>0 DEF Ready, Interrupt
        <4>2. ~e.own \/ Plan(events) # Interrupt(e.turn) \/ e.type \notin Inside \cup Closing
          BY <3>0, <3>4 DEF Interrupt
        <4>3. Plan(events') = Throws
          BY <2>1, <4>1, <4>2 DEF PlanStep, Legal
        <4>. QED BY <2>2, <3>1, <3>4, <4>3 DEF PlanKnows
      <3>. QED BY <3>2, <3>3, <3>4
    <2>. QED BY <2>n, <2>0, <2>3, <2>4, <2>5 DEF RecoveryInv, PlanKnows
  <1>. QED BY <1>1, <1>2 DEF Next, Extend

\* plan() accepts exactly the conversations that hold no event of another
\* session, in which turns follow one another and nothing of a turn lies outside
\* it, and asks to interrupt exactly the turn that is still open: for conversations of any length, with any turns, turn ids
\* that are used again included (FailInterruptedTurnRecoveryPolicy.plan).
THEOREM PlanTellsTheHistory == Spec => []PlanIsTheHistory
  <1>1. RecoveryInv => PlanIsTheHistory
    <2>. SUFFICES ASSUME RecoveryInv PROVE PlanIsTheHistory OBVIOUS
    <2>1. LegalHistory <=> AllFit
      BY LegalFits DEF RecoveryInv, AllFit
    <2>2. OpenTurns = {events[i].turn : i \in {j \in 1..Len(events) : OpenAt(j)}}
      BY OpenTurnsReach DEF RecoveryInv
    <2>3. \A t : Interrupt(t) # Throws /\ Ready # Throws
      BY DEF Interrupt, Throws, Ready
    <2>4. CASE ~LegalHistory
      BY <2>1, <2>4 DEF RecoveryInv, PlanKnows, PlanIsTheHistory
    <2>5. CASE /\ LegalHistory
               /\ Plan(events) = Ready /\ \A i \in 1..Len(events) : ~OpenAt(i)
      BY <2>2, <2>3, <2>5 DEF PlanIsTheHistory
    <2>6. ASSUME LegalHistory,
                 NEW i \in 1..Len(events), Knows(i)
          PROVE  PlanIsTheHistory
      <3>1. OpenTurns = {events[i].turn}
        BY <2>2, <2>6 DEF Knows, Only
      <3>. QED BY <2>3, <2>6, <3>1 DEF Knows, PlanIsTheHistory
    <2>. QED BY <2>1, <2>4, <2>5, <2>6 DEF RecoveryInv, PlanKnows
  <1>. QED BY InitKnows, NextKnows, <1>1, PTL DEF Spec
=============================================================================
