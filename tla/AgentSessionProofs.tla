--------------------------- MODULE AgentSessionProofs ---------------------------
(***************************************************************************)
(* Proofs about AgentSession, for any callers, slots, entries and faults:  *)
(* its type invariant; at most one turn runs, and a session in             *)
(* recovery_required never runs another; what a turn leaves in the queue   *)
(* stays the user's; one compaction is pending or running, and nothing     *)
(* passes it; every entry is in one place, and is handled once; no call    *)
(* waits for what nobody does; writes of the context are in the order of   *)
(* their calls; and a continuation that was asked for is due.  The lemmas  *)
(* about the queue operators come first.  Each result has a section with   *)
(* the invariant it needs, and what it assumes of the calls and faults of  *)
(* a run stands in its theorem.                                            *)
(***************************************************************************)
EXTENDS AgentSession, FiniteSetTheorems, SequenceTheorems, TLAPS

-----------------------------------------------------------------------------
(* The queue operators: what they return are queues again, and entries of  *)
(* the queue they are applied to.                                          *)

\* The least position of a non-empty set of positions is one of them.  The
\* initial segments 1..i are ordered by strict inclusion, which is well-founded.
LEMMA LeastPosition ==
  ASSUME NEW n \in Nat, NEW I \in SUBSET (1..n), I # {}
  PROVE  /\ Min(I) \in I
         /\ \A i \in I : Min(I) <= i
<1> DEFINE Segments == {1..i : i \in I}
           R == StrictSubsetOrdering(1..n)
<1>1. IsWellFoundedOn(R, SUBSET (1..n))
  <2>1. IsFiniteSet(1..n)
    BY FS_Interval
  <2>2. FiniteSubsetsOf(1..n) = SUBSET (1..n)
    BY <2>1, FS_FiniteSubsetsOfFinite, Zenon
  <2> QED BY <2>2, FS_StrictSubsetOrderingWellFounded, Zenon
<1>2. Segments \subseteq SUBSET (1..n) /\ Segments # {}
  <2>1. \A i \in I : 1..i \in SUBSET (1..n)
    OBVIOUS
  <2> QED BY <2>1
<1>3. PICK X \in Segments : \A Y \in Segments : <<Y, X>> \notin R
  <2> HIDE DEF R, Segments
  <2> QED BY <1>1, <1>2, WFMin
<1>4. PICK m \in I : X = 1..m
  OBVIOUS
<1>5. \A i \in I : m <= i
  <2> SUFFICES ASSUME NEW i \in I, i < m PROVE FALSE
    OBVIOUS
  <2>1. 1..i \subseteq 1..m /\ 1..i # 1..m
    <3>1. m \in 1..m /\ m \notin 1..i
      OBVIOUS
    <3> QED BY <3>1
  <2>2. <<1..i, 1..m>> \in R
    BY <2>1 DEF StrictSubsetOrdering
  <2>3. 1..i \in Segments
    OBVIOUS
  <2> QED BY <1>3, <1>4, <2>2, <2>3
<1> QED BY <1>5 DEF Min

\* What is left of a sequence behind its first n elements.
LEMMA RestOfSequence ==
  ASSUME NEW S, NEW s \in Seq(S), NEW n \in 0..Len(s)
  PROVE  /\ SubSeq(s, n + 1, Len(s)) \in Seq(S)
         /\ Len(SubSeq(s, n + 1, Len(s))) = Len(s) - n
         /\ \A i \in 1..(Len(s) - n) : SubSeq(s, n + 1, Len(s))[i] = s[n + i]
<1> DEFINE rest == SubSeq(s, n + 1, Len(s))
<1>1. Len(s) \in Nat /\ n \in Nat
  BY LenProperties
<1>2. n + 1 \in Int /\ Len(s) \in Int /\ \A i \in (n + 1)..Len(s) : s[i] \in S
  BY <1>1, ElementOfSeq
<1>3. /\ rest \in Seq(S)
      /\ Len(rest) = IF n + 1 <= Len(s) THEN Len(s) - (n + 1) + 1 ELSE 0
      /\ \A i \in 1..(Len(s) - (n + 1) + 1) : rest[i] = s[n + 1 + i - 1]
  BY <1>2, SubSeqProperties
<1> HIDE DEF rest
<1>4. Len(rest) = Len(s) - n
  BY <1>1, <1>3
<1>5. ASSUME NEW i \in 1..(Len(s) - n)
      PROVE  rest[i] = s[n + i]
  <2>1. i \in 1..(Len(s) - (n + 1) + 1) /\ n + 1 + i - 1 = n + i
    BY <1>1
  <2> QED BY <1>3, <2>1
<1> QED BY <1>3, <1>4, <1>5 DEF rest

\* Dropping the first occurrence of an element leaves a sequence of the rest.
LEMMA RemoveFirstIsSeq ==
  ASSUME NEW S, NEW s \in Seq(S), NEW e
  PROVE  RemoveFirst(s, e) \in Seq(S)
<1> DEFINE I == {i \in 1..Len(s) : s[i] = e}
<1>1. CASE I = {}
  BY <1>1 DEF RemoveFirst
<1>2. CASE I # {}
  <2>1. Len(s) \in Nat /\ I \in SUBSET (1..Len(s))
    BY LenProperties
  <2>2. Min(I) \in 1..Len(s)
    <3> HIDE DEF I
    <3> QED BY <1>2, <2>1, LeastPosition
  <2>3. RemoveFirst(s, e) = RemoveAt(s, Min(I))
    BY <1>2 DEF RemoveFirst, SelectInSeq
  <2> HIDE DEF I
  <2>4. /\ SubSeq(s, 1, Min(I) - 1) \in Seq(S)
        /\ SubSeq(s, Min(I) + 1, Len(s)) \in Seq(S)
    BY <2>1, <2>2
  <2> QED BY <2>3, <2>4, ConcatProperties DEF RemoveAt
<1> QED BY <1>1, <1>2

-----------------------------------------------------------------------------
(* Entering, leaving and moving entries. *)

\* A queue holds entries only.
LEMMA QueuedAreEntries ==
  ASSUME NEW q \in Queues
  PROVE  /\ Queued(q) \subseteq Entry
         /\ \A i \in DOMAIN q.steering : q.steering[i] \in Entry
         /\ \A i \in DOMAIN q.followUp : q.followUp[i] \in Entry
<1>1. q.steering \in Seq(Entry) /\ q.followUp \in Seq(Entry)
  BY DEF Queues
<1>2. /\ \A i \in DOMAIN q.steering : q.steering[i] \in Entry
      /\ \A i \in DOMAIN q.followUp : q.followUp[i] \in Entry
  BY <1>1
<1> QED BY <1>2 DEF Queued, ToSet

\* Every operation on the whole queue returns a queue.
LEMMA QueueOperators ==
  ASSUME NEW q \in Queues, NEW e \in Entry
  PROVE  /\ EmptyQueue \in Queues
         /\ Pause(q) \in Queues
         /\ Resume(q) \in Queues
         /\ RemoveEntry(q, e) \in Queues
         /\ Promote(q, e) \in Queues
         /\ \A behavior : EnqueueEntry(q, behavior, e) \in Queues
<1>1. /\ q.steering \in Seq(Entry) /\ q.followUp \in Seq(Entry)
      /\ q.paused \in BOOLEAN
      /\ q = [steering |-> q.steering, followUp |-> q.followUp,
              paused |-> q.paused]
  BY DEF Queues
<1>2. /\ Append(q.steering, e) \in Seq(Entry)
      /\ Append(q.followUp, e) \in Seq(Entry)
      /\ RemoveFirst(q.steering, e) \in Seq(Entry)
      /\ RemoveFirst(q.followUp, e) \in Seq(Entry)
  BY <1>1, AppendProperties, RemoveFirstIsSeq
<1>3. EmptyQueue \in Queues /\ Pause(q) \in Queues /\ Resume(q) \in Queues
  <2>1. EmptyQueue \in Queues
    BY EmptySeq DEF EmptyQueue, Queues
  <2>2. Pause(q) \in Queues /\ Resume(q) \in Queues
    BY <1>1 DEF Pause, Resume, Queues
  <2> QED BY <2>1, <2>2
<1>4. RemoveEntry(q, e) \in Queues /\ Promote(q, e) \in Queues
  BY <1>1, <1>2 DEF RemoveEntry, Promote, Queues
<1>5. \A behavior : EnqueueEntry(q, behavior, e) \in Queues
  BY <1>1, <1>2 DEF EnqueueEntry, Queues
<1> QED BY <1>3, <1>4, <1>5

\* A reordered followUpQueue is a queue of entries.
LEMMA ReorderingsAreQueues ==
  ASSUME NEW q \in Queues, NEW s \in Reorderings(q)
  PROVE  [q EXCEPT !.followUp = s] \in Queues
<1>1. q.followUp \in Seq(Entry) /\ DOMAIN q.followUp = 1..Len(q.followUp)
      /\ Len(q.followUp) \in Nat
  BY LenProperties DEF Queues
<1>2. ToSet(q.followUp) \subseteq Entry
  BY <1>1 DEF ToSet
<1>3. s \in [1..Len(q.followUp) -> Entry]
  BY <1>1, <1>2 DEF Reorderings
<1>4. s \in Seq(Entry)
  BY <1>1, <1>3, SeqDef
<1> QED BY <1>4 DEF Queues

-----------------------------------------------------------------------------
(* Consuming entries. *)

\* take() consumes a prefix of the queue it is applied to.
LEMMA TakeCountInRange ==
  ASSUME NEW s \in Seq(Entry), NEW paused, NEW mode, NEW stop
  PROVE  TakeCount(s, paused, mode, stop) \in 0..Len(s)
<1> DEFINE I == {i \in 1..Len(s) : s[i] \in Operations}
<1>1. Len(s) \in Nat
  BY LenProperties
<1>2. FirstOperation(s) \in 0..Len(s)
  <2>1. CASE I = {}
    BY <1>1, <2>1 DEF FirstOperation, SelectInSeq
  <2>2. CASE I # {}
    <3>1. Min(I) \in I
      <4>1. I \in SUBSET (1..Len(s))
        OBVIOUS
      <4> HIDE DEF I
      <4> QED BY <1>1, <2>2, <4>1, LeastPosition
    <3>2. FirstOperation(s) = Min(I)
      BY <2>2 DEF FirstOperation, SelectInSeq
    <3> QED BY <1>1, <3>1, <3>2
  <2> QED BY <2>1, <2>2
<1> DEFINE available == IF stop /\ FirstOperation(s) # 0
                          THEN FirstOperation(s) - 1 ELSE Len(s)
<1>3. available \in 0..Len(s)
  BY <1>1, <1>2
<1>4. TakeCount(s, paused, mode, stop) =
        IF paused \/ available = 0 THEN 0
        ELSE IF mode = "all" THEN available ELSE 1
  BY DEF TakeCount
<1> HIDE DEF available
<1> QED BY <1>1, <1>3, <1>4

\* A prefix of a queue consists of its entries, and the rest is a queue.
LEMMA PrefixAndRest ==
  ASSUME NEW s \in Seq(Entry), NEW n \in 0..Len(s)
  PROVE  /\ ToSet(SubSeq(s, 1, n)) \subseteq ToSet(s)
         /\ SubSeq(s, n + 1, Len(s)) \in Seq(Entry)
<1>1. Len(s) \in Nat /\ \A i \in 1..Len(s) : s[i] \in Entry
  BY LenProperties, ElementOfSeq
<1>2. /\ DOMAIN SubSeq(s, 1, n) = 1..n
      /\ \A i \in 1..n : SubSeq(s, 1, n)[i] = s[i]
  BY <1>1
<1>3. ToSet(SubSeq(s, 1, n)) \subseteq ToSet(s)
  BY <1>1, <1>2, LenProperties DEF ToSet
<1> QED BY <1>1, <1>3

\* takeSteeringInputs and takeFollowUpInputs return entries of the queue and
\* leave a queue.
LEMMA TakenFromQueue ==
  ASSUME NEW q \in Queues
  PROVE  /\ TakenSteering(q) \subseteq Queued(q)
         /\ TakenFollowUps(q) \subseteq Queued(q)
         /\ AfterTakingSteering(q) \in Queues
         /\ AfterTakingFollowUps(q) \in Queues
<1>1. q.steering \in Seq(Entry) /\ q.followUp \in Seq(Entry)
  BY DEF Queues
<1>2. /\ SteeringCount(q) \in 0..Len(q.steering)
      /\ FollowUpCount(q) \in 0..Len(q.followUp)
  BY <1>1, TakeCountInRange DEF SteeringCount, FollowUpCount
<1>3. /\ TakenSteering(q) \subseteq ToSet(q.steering)
      /\ TakenFollowUps(q) \subseteq ToSet(q.followUp)
  BY <1>1, <1>2, PrefixAndRest DEF TakenSteering, TakenFollowUps
<1>4. /\ SubSeq(q.steering, SteeringCount(q) + 1, Len(q.steering)) \in Seq(Entry)
      /\ SubSeq(q.followUp, FollowUpCount(q) + 1, Len(q.followUp)) \in Seq(Entry)
  BY <1>1, <1>2, PrefixAndRest
<1>5. AfterTakingSteering(q) \in Queues /\ AfterTakingFollowUps(q) \in Queues
  BY <1>4 DEF AfterTakingSteering, AfterTakingFollowUps, Queues
<1> QED BY <1>3, <1>5 DEF Queued

\* takeById and takeFollowUpHead return entries of the queue.
LEMMA TakenByIdOrHead ==
  ASSUME NEW q \in Queues
  PROVE  TakeableById(q) \subseteq Queued(q) /\ FollowUpHead(q) \subseteq Queued(q)
BY DEF TakeableById, FollowUpHead, BeforeOperation, Queued, ToSet

\* The operation at the head of the queue is an entry, and the rest a queue.
LEMMA OperationHead ==
  ASSUME NEW q \in Queues, OperationAtHead(q)
  PROVE  /\ Head(q.followUp) \in Queued(q)
         /\ Head(q.followUp) \in Operations
         /\ DropHead(q) \in Queues
<1>1. q.followUp \in Seq(Entry) /\ q.followUp # <<>>
  BY DEF Queues, OperationAtHead
<1>2. /\ Head(q.followUp) = q.followUp[1] /\ 1 \in DOMAIN q.followUp
      /\ Tail(q.followUp) \in Seq(Entry)
  BY <1>1, EmptySeq, LenProperties, HeadTailProperties
<1>3. Head(q.followUp) \in Queued(q)
  BY <1>2 DEF Queued, ToSet
<1>4. DropHead(q) \in Queues
  BY <1>2 DEF DropHead, Queues
<1> QED BY <1>3, <1>4 DEF OperationAtHead

-----------------------------------------------------------------------------
(* What the operators keep of the queue. *)

\* RemoveFirst closes the gap that the first occurrence of the element leaves,
\* and changes nothing when there is none.
LEMMA RemoveFirstGap ==
  ASSUME NEW S, NEW s \in Seq(S), NEW e
  PROVE  \/ e \notin ToSet(s) /\ RemoveFirst(s, e) = s
         \/ \E k \in 1..Len(s) :
              /\ s[k] = e /\ \A i \in 1..(k - 1) : s[i] # e
              /\ RemoveFirst(s, e) \in Seq(S)
              /\ Len(RemoveFirst(s, e)) = Len(s) - 1
              /\ \A i \in 1..(Len(s) - 1) :
                   RemoveFirst(s, e)[i] = s[IF i < k THEN i ELSE i + 1]
<1> DEFINE I == {i \in 1..Len(s) : s[i] = e}
<1>1. Len(s) \in Nat /\ DOMAIN s = 1..Len(s)
  BY LenProperties
<1>2. CASE I = {}
  BY <1>1, <1>2 DEF RemoveFirst, ToSet
<1>3. CASE I # {}
  <2>1. PICK k \in I : k = Min(I) /\ \A i \in I : k <= i
    <3>1. I \in SUBSET (1..Len(s))
      OBVIOUS
    <3> HIDE DEF I
    <3> QED BY <1>1, <1>3, <3>1, LeastPosition
  <2>2. RemoveFirst(s, e) = SubSeq(s, 1, k - 1) \o SubSeq(s, k + 1, Len(s))
    BY <1>3, <2>1 DEF RemoveFirst, SelectInSeq, RemoveAt
  <2>3. k \in 1..Len(s) /\ s[k] = e
    BY <2>1
  <2>10. \A i \in 1..(k - 1) : s[i] # e
    BY <1>1, <2>1
  <2> HIDE DEF I
  <2>4. /\ SubSeq(s, 1, k - 1) \in Seq(S)
        /\ Len(SubSeq(s, 1, k - 1)) = k - 1
        /\ \A i \in 1..(k - 1) : SubSeq(s, 1, k - 1)[i] = s[i]
    BY <1>1, <2>3
  <2> DEFINE front == SubSeq(s, 1, k - 1)
             back == SubSeq(s, k + 1, Len(s))
  <2>5. /\ back \in Seq(S)
        /\ Len(back) = Len(s) - k
        /\ \A i \in 1..(Len(s) - k) : back[i] = s[k + i]
    <3>1. k \in 0..Len(s)
      BY <1>1, <2>3
    <3> QED BY <3>1, RestOfSequence
  <2>8. RemoveFirst(s, e) = front \o back /\ front \in Seq(S) /\ back \in Seq(S)
        /\ Len(front) = k - 1 /\ Len(back) = Len(s) - k
    <3>1. RemoveFirst(s, e) = front \o back
      BY <2>2
    <3>2. front \in Seq(S) /\ Len(front) = k - 1
      BY <2>4
    <3> HIDE DEF front, back
    <3> QED BY <2>5, <3>1, <3>2
  <2> HIDE DEF front, back
  <2>9. /\ front \o back \in Seq(S)
        /\ Len(front \o back) = Len(front) + Len(back)
        /\ \A i \in 1..(Len(front) + Len(back)) :
             (front \o back)[i] = IF i <= Len(front) THEN front[i]
                                  ELSE back[i - Len(front)]
    BY <2>8, ConcatProperties
  <2>6. /\ RemoveFirst(s, e) \in Seq(S)
        /\ Len(RemoveFirst(s, e)) = Len(s) - 1
    BY <1>1, <2>3, <2>8, <2>9
  <2>7. ASSUME NEW i \in 1..(Len(s) - 1)
        PROVE  RemoveFirst(s, e)[i] = s[IF i < k THEN i ELSE i + 1]
    <3>1. RemoveFirst(s, e)[i] =
            IF i <= k - 1 THEN front[i] ELSE back[i - (k - 1)]
      BY <1>1, <2>3, <2>8, <2>9
    <3>2. CASE i < k
      BY <2>3, <2>4, <3>1, <3>2 DEF front
    <3>3. CASE ~(i < k)
      <4>1. i - (k - 1) \in 1..(Len(s) - k) /\ k + (i - (k - 1)) = i + 1
        BY <1>1, <2>3, <3>3
      <4> QED BY <2>3, <2>5, <3>1, <3>3, <4>1
    <3> QED BY <3>2, <3>3
  <2> QED BY <2>3, <2>6, <2>7, <2>10
<1> QED BY <1>2, <1>3

LEMMA RemoveFirstKeeps ==
  ASSUME NEW S, NEW s \in Seq(S), NEW e
  PROVE  /\ ToSet(s) \ {e} \subseteq ToSet(RemoveFirst(s, e))
         /\ ToSet(RemoveFirst(s, e)) \subseteq ToSet(s)
         /\ IsInjective(s) => /\ IsInjective(RemoveFirst(s, e))
                              /\ e \notin ToSet(RemoveFirst(s, e))
<1> DEFINE r == RemoveFirst(s, e)
<1>1. CASE e \notin ToSet(s) /\ r = s
  BY <1>1
<1>2. CASE \E k \in 1..Len(s) :
              /\ s[k] = e
              /\ r \in Seq(S)
              /\ Len(r) = Len(s) - 1
              /\ \A i \in 1..(Len(s) - 1) : r[i] = s[IF i < k THEN i ELSE i + 1]
  <2> HIDE DEF r
  <2>1. PICK k \in 1..Len(s) :
              /\ s[k] = e
              /\ r \in Seq(S)
              /\ Len(r) = Len(s) - 1
              /\ \A i \in 1..(Len(s) - 1) : r[i] = s[IF i < k THEN i ELSE i + 1]
    BY <1>2
  <2>2. /\ Len(s) \in Nat /\ DOMAIN s = 1..Len(s)
        /\ DOMAIN r = 1..(Len(s) - 1)
    BY <2>1, LenProperties
  <2>3. ASSUME NEW x \in ToSet(s) \ {e} PROVE x \in ToSet(r)
    <3>1. PICK j \in 1..Len(s) : s[j] = x
      BY <2>2 DEF ToSet
    <3>2. j # k
      BY <2>1, <3>1
    <3> DEFINE i == IF j < k THEN j ELSE j - 1
    <3>3. i \in 1..(Len(s) - 1) /\ j = IF i < k THEN i ELSE i + 1
      BY <2>2, <3>2
    <3> HIDE DEF i
    <3>4. r[i] = x
      BY <2>1, <3>1, <3>3
    <3> QED BY <2>2, <3>3, <3>4 DEF ToSet
  <2>4. ASSUME NEW i \in DOMAIN r
        PROVE  /\ (IF i < k THEN i ELSE i + 1) \in DOMAIN s \ {k}
               /\ r[i] = s[IF i < k THEN i ELSE i + 1]
    BY <2>1, <2>2
  <2>5. ToSet(r) \subseteq ToSet(s)
    BY <2>4 DEF ToSet
  <2>6. ASSUME IsInjective(s) PROVE IsInjective(r) /\ e \notin ToSet(r)
    <3>1. \A i \in DOMAIN r : r[i] # e
      BY <2>1, <2>2, <2>4, <2>6 DEF IsInjective
    <3>2. ASSUME NEW i \in DOMAIN r, NEW j \in DOMAIN r, r[i] = r[j]
          PROVE  i = j
      <4>1. (IF i < k THEN i ELSE i + 1) = (IF j < k THEN j ELSE j + 1)
        BY <2>4, <2>6, <3>2 DEF IsInjective
      <4> QED BY <2>2, <4>1
    <3> QED BY <3>1, <3>2 DEF IsInjective, ToSet
  <2> QED BY <2>3, <2>5, <2>6 DEF r
<1>3. \/ e \notin ToSet(s) /\ r = s
      \/ \E k \in 1..Len(s) :
           /\ s[k] = e
           /\ r \in Seq(S)
           /\ Len(r) = Len(s) - 1
           /\ \A i \in 1..(Len(s) - 1) : r[i] = s[IF i < k THEN i ELSE i + 1]
  BY RemoveFirstGap
<1> QED BY <1>1, <1>2, <1>3

LEMMA AppendAdds ==
  ASSUME NEW S, NEW s \in Seq(S), NEW e \in S
  PROVE  ToSet(Append(s, e)) = ToSet(s) \cup {e}
<1>1. /\ Len(s) \in Nat /\ DOMAIN s = 1..Len(s)
      /\ DOMAIN Append(s, e) = 1..(Len(s) + 1)
      /\ \A i \in 1..Len(s) : Append(s, e)[i] = s[i]
      /\ Append(s, e)[Len(s) + 1] = e
  BY LenProperties, AppendProperties
<1>2. \A i \in 1..(Len(s) + 1) : i \in 1..Len(s) \/ i = Len(s) + 1
  BY <1>1
<1> QED BY <1>1, <1>2 DEF ToSet

\* Entering, moving and pausing lose no entry, and removing loses one.
LEMMA OperatorsKeepEntries ==
  ASSUME NEW q \in Queues, NEW e \in Entry
  PROVE  /\ \A b : /\ Queued(EnqueueEntry(q, b, e)) = Queued(q) \cup {e}
                   /\ EnqueueEntry(q, b, e).paused = q.paused
         /\ Queued(q) \ {e} \subseteq Queued(RemoveEntry(q, e))
         /\ Queued(RemoveEntry(q, e)) \subseteq Queued(q)
         /\ RemoveEntry(q, e).paused = q.paused
         /\ Queued(q) \subseteq Queued(Promote(q, e))
         /\ Promote(q, e).paused = q.paused
         /\ Queued(Pause(q)) = Queued(q) /\ Pause(q).paused
         /\ Queued(Resume(q)) = Queued(q) /\ ~Resume(q).paused
         /\ \A s \in Reorderings(q) : Queued([q EXCEPT !.followUp = s]) = Queued(q)
<1>1. q.steering \in Seq(Entry) /\ q.followUp \in Seq(Entry)
      /\ q = [steering |-> q.steering, followUp |-> q.followUp,
              paused |-> q.paused]
  BY DEF Queues
<1>2. \A b : /\ Queued(EnqueueEntry(q, b, e)) = Queued(q) \cup {e}
             /\ EnqueueEntry(q, b, e).paused = q.paused
  <2>1. /\ ToSet(Append(q.steering, e)) = ToSet(q.steering) \cup {e}
        /\ ToSet(Append(q.followUp, e)) = ToSet(q.followUp) \cup {e}
    BY <1>1, AppendAdds
  <2> QED BY <1>1, <2>1 DEF EnqueueEntry, Queued
<1>3. /\ Queued(q) \ {e} \subseteq Queued(RemoveEntry(q, e))
      /\ Queued(RemoveEntry(q, e)) \subseteq Queued(q)
      /\ RemoveEntry(q, e).paused = q.paused
  <2>1. /\ ToSet(q.steering) \ {e} \subseteq ToSet(RemoveFirst(q.steering, e))
        /\ ToSet(q.followUp) \ {e} \subseteq ToSet(RemoveFirst(q.followUp, e))
        /\ ToSet(RemoveFirst(q.steering, e)) \subseteq ToSet(q.steering)
        /\ ToSet(RemoveFirst(q.followUp, e)) \subseteq ToSet(q.followUp)
    BY <1>1, RemoveFirstKeeps
  <2>2. /\ RemoveEntry(q, e).steering = RemoveFirst(q.steering, e)
        /\ RemoveEntry(q, e).followUp = RemoveFirst(q.followUp, e)
        /\ RemoveEntry(q, e).paused = q.paused
    BY <1>1 DEF RemoveEntry
  <2> QED BY <2>1, <2>2 DEF Queued
<1>4. Queued(q) \subseteq Queued(Promote(q, e)) /\ Promote(q, e).paused = q.paused
  <2>1. /\ ToSet(Append(q.steering, e)) = ToSet(q.steering) \cup {e}
        /\ ToSet(q.followUp) \ {e} \subseteq ToSet(RemoveFirst(q.followUp, e))
    BY <1>1, AppendAdds, RemoveFirstKeeps
  <2>2. /\ Promote(q, e).steering = Append(q.steering, e)
        /\ Promote(q, e).followUp = RemoveFirst(q.followUp, e)
        /\ Promote(q, e).paused = q.paused
    BY <1>1 DEF Promote
  <2> QED BY <2>1, <2>2 DEF Queued
<1>5. /\ Queued(Pause(q)) = Queued(q) /\ Pause(q).paused
      /\ Queued(Resume(q)) = Queued(q) /\ ~Resume(q).paused
  BY <1>1 DEF Pause, Resume, Queued
<1>6. \A s \in Reorderings(q) : Queued([q EXCEPT !.followUp = s]) = Queued(q)
  BY <1>1 DEF Reorderings, Queued
<1> QED BY <1>2, <1>3, <1>4, <1>5, <1>6

\* What enqueueing gives: a queue with one entry more.
LEMMA EnqueueAddsOne ==
  ASSUME NEW q \in Queues, NEW e \in Entry, NEW behavior
  PROVE  /\ EnqueueEntry(q, behavior, e) \in Queues
         /\ Queued(EnqueueEntry(q, behavior, e)) = Queued(q) \cup {e}
<1>1. EnqueueEntry(q, behavior, e) \in Queues
  BY QueueOperators, Zenon
<1>2. q.steering \in Seq(Entry) /\ q.followUp \in Seq(Entry)
  BY DEF Queues
<1>3. /\ ToSet(Append(q.steering, e)) = ToSet(q.steering) \cup {e}
      /\ ToSet(Append(q.followUp, e)) = ToSet(q.followUp) \cup {e}
  BY <1>2, AppendAdds
<1>4. Queued(EnqueueEntry(q, behavior, e)) = Queued(q) \cup {e}
  BY <1>3 DEF EnqueueEntry, Queued, Queues
<1> QED BY <1>1, <1>4

\* A paused queue lets take() have nothing.
LEMMA PausedTakesNothing ==
  ASSUME NEW q \in Queues, q.paused
  PROVE  AfterTakingSteering(q) = q /\ AfterTakingFollowUps(q) = q
<1>1. q.steering \in Seq(Entry) /\ q.followUp \in Seq(Entry)
      /\ q = [steering |-> q.steering, followUp |-> q.followUp,
              paused |-> q.paused]
  BY DEF Queues
<1>2. SteeringCount(q) = 0 /\ FollowUpCount(q) = 0
  BY DEF SteeringCount, FollowUpCount, TakeCount
<1>3. \A s \in Seq(Entry) : SubSeq(s, 1, Len(s)) = s
  BY SubSeqProperties
<1>4. /\ SubSeq(q.steering, SteeringCount(q) + 1, Len(q.steering)) = q.steering
      /\ SubSeq(q.followUp, FollowUpCount(q) + 1, Len(q.followUp)) = q.followUp
  BY <1>1, <1>2, <1>3
<1> QED BY <1>1, <1>4 DEF AfterTakingSteering, AfterTakingFollowUps

\* Taking from the front of a queue adds nothing to it.
LEMMA TakingOnlyTakes ==
  ASSUME NEW q \in Queues
  PROVE  /\ Queued(AfterTakingSteering(q)) \subseteq Queued(q)
         /\ Queued(AfterTakingFollowUps(q)) \subseteq Queued(q)
         /\ ToSet(AfterTakingSteering(q).steering) \subseteq ToSet(q.steering)
         /\ AfterTakingSteering(q).followUp = q.followUp
         /\ AfterTakingFollowUps(q).steering = q.steering
         /\ OperationAtHead(q) => /\ Queued(DropHead(q)) \subseteq Queued(q)
                                  /\ DropHead(q).steering = q.steering
<1>1. q.steering \in Seq(Entry) /\ q.followUp \in Seq(Entry)
      /\ q = [steering |-> q.steering, followUp |-> q.followUp,
              paused |-> q.paused]
  BY DEF Queues
<1>2. ASSUME NEW s \in Seq(Entry), NEW n \in 0..Len(s)
      PROVE  ToSet(SubSeq(s, n + 1, Len(s))) \subseteq ToSet(s)
  <2>1. Len(s) \in Nat /\ DOMAIN s = 1..Len(s) /\ n \in Nat
    BY LenProperties
  <2>2. /\ DOMAIN SubSeq(s, n + 1, Len(s)) = 1..(Len(s) - n)
        /\ \A i \in 1..(Len(s) - n) : SubSeq(s, n + 1, Len(s))[i] = s[n + i]
    BY <2>1
  <2>3. \A i \in 1..(Len(s) - n) : n + i \in 1..Len(s)
    BY <2>1
  <2> QED BY <2>1, <2>2, <2>3 DEF ToSet
<1>3. /\ SteeringCount(q) \in 0..Len(q.steering)
      /\ FollowUpCount(q) \in 0..Len(q.followUp)
  BY <1>1, TakeCountInRange DEF SteeringCount, FollowUpCount
<1>4. /\ ToSet(SubSeq(q.steering, SteeringCount(q) + 1, Len(q.steering)))
           \subseteq ToSet(q.steering)
      /\ ToSet(SubSeq(q.followUp, FollowUpCount(q) + 1, Len(q.followUp)))
           \subseteq ToSet(q.followUp)
  BY <1>1, <1>2, <1>3
<1>5. /\ AfterTakingSteering(q).steering =
           SubSeq(q.steering, SteeringCount(q) + 1, Len(q.steering))
      /\ AfterTakingFollowUps(q).followUp =
           SubSeq(q.followUp, FollowUpCount(q) + 1, Len(q.followUp))
      /\ AfterTakingSteering(q).followUp = q.followUp
      /\ AfterTakingFollowUps(q).steering = q.steering
  BY <1>1 DEF AfterTakingSteering, AfterTakingFollowUps
<1>6. ASSUME OperationAtHead(q)
      PROVE  Queued(DropHead(q)) \subseteq Queued(q) /\ DropHead(q).steering = q.steering
  <2>1. DropHead(q).steering = q.steering /\ DropHead(q).followUp = Tail(q.followUp)
    BY <1>1 DEF DropHead
  <2>2. /\ Tail(q.followUp) \in Seq(Entry)
        /\ Len(Tail(q.followUp)) = Len(q.followUp) - 1
        /\ \A i \in 1..(Len(q.followUp) - 1) : Tail(q.followUp)[i] = q.followUp[i + 1]
        /\ Len(q.followUp) \in Nat
    BY <1>1, <1>6, HeadTailProperties, LenProperties DEF OperationAtHead
  <2>3. ToSet(Tail(q.followUp)) \subseteq ToSet(q.followUp)
    BY <1>1, <2>2, LenProperties DEF ToSet
  <2> QED BY <2>1, <2>3 DEF Queued
<1> QED BY <1>4, <1>5, <1>6 DEF Queued

\* Moving an entry of followUpQueue adds nothing to the queue.
LEMMA PromoteAddsNothing ==
  ASSUME NEW q \in Queues, NEW e \in ToSet(q.followUp)
  PROVE  Queued(Promote(q, e)) \subseteq Queued(q)
<1>1. q.steering \in Seq(Entry) /\ q.followUp \in Seq(Entry) /\ e \in Entry
  BY QueuedAreEntries DEF Queues, Queued
<1>2. /\ Promote(q, e).steering = Append(q.steering, e)
      /\ Promote(q, e).followUp = RemoveFirst(q.followUp, e)
  BY DEF Promote, Queues
<1>3. /\ ToSet(Append(q.steering, e)) = ToSet(q.steering) \cup {e}
      /\ ToSet(RemoveFirst(q.followUp, e)) \subseteq ToSet(q.followUp)
  BY <1>1, AppendAdds, RemoveFirstKeeps
<1> QED BY <1>2, <1>3 DEF Queued

-----------------------------------------------------------------------------
(* What is queued behind an operation. *)

\* In s, an operation precedes x.
Follows(s, x) ==
  \E i, j \in 1..Len(s) : j < i /\ s[j] \in Operations /\ s[i] = x

LEMMA FollowsIsIn ==
  ASSUME NEW s \in Seq(Entry), NEW x, Follows(s, x)
  PROVE  x \in ToSet(s) /\ (s # <<>> => x \in ToSet(Tail(s)))
<1>1. PICK i \in 1..Len(s), j \in 1..Len(s) : j < i /\ s[i] = x
  BY DEF Follows
<1>2. Len(s) \in Nat /\ DOMAIN s = 1..Len(s)
  BY LenProperties
<1>3. ASSUME s # <<>> PROVE x \in ToSet(Tail(s))
  <2>1. /\ Tail(s) \in Seq(Entry) /\ Len(Tail(s)) = Len(s) - 1
        /\ \A k \in 1..(Len(s) - 1) : Tail(s)[k] = s[k + 1]
    BY <1>3, HeadTailProperties
  <2>2. i - 1 \in 1..(Len(s) - 1) /\ (i - 1) + 1 = i
    BY <1>1, <1>2
  <2>3. Tail(s)[i - 1] = x /\ i - 1 \in DOMAIN Tail(s)
    BY <1>1, <2>1, <2>2, LenProperties
  <2> QED BY <2>3 DEF ToSet
<1> QED BY <1>1, <1>2, <1>3 DEF ToSet

\* What comes in stays behind the operations that are there, and moves none.
LEMMA AppendKeepsFollows ==
  ASSUME NEW s \in Seq(Entry), NEW e \in Entry
  PROVE  /\ \A x : Follows(s, x) => Follows(Append(s, e), x)
         /\ ToSet(s) \cap Operations # {} => Follows(Append(s, e), e)
<1>1. /\ Len(s) \in Nat /\ DOMAIN s = 1..Len(s)
      /\ Len(Append(s, e)) = Len(s) + 1
      /\ \A i \in 1..Len(s) : Append(s, e)[i] = s[i]
      /\ Append(s, e)[Len(s) + 1] = e
  BY LenProperties, AppendProperties
<1>2. \A i \in 1..Len(s) : i \in 1..(Len(s) + 1) /\ i < Len(s) + 1
  BY <1>1
<1>3. Len(s) + 1 \in 1..(Len(s) + 1)
  BY <1>1
<1>4. ASSUME NEW x, Follows(s, x) PROVE Follows(Append(s, e), x)
  <2>1. PICK i \in 1..Len(s), j \in 1..Len(s) :
          j < i /\ s[j] \in Operations /\ s[i] = x
    BY <1>4 DEF Follows
  <2> QED BY <1>1, <1>2, <2>1 DEF Follows
<1>5. ASSUME ToSet(s) \cap Operations # {} PROVE Follows(Append(s, e), e)
  <2>1. PICK j \in 1..Len(s) : s[j] \in Operations
    BY <1>1, <1>5 DEF ToSet
  <2> QED BY <1>1, <1>2, <1>3, <2>1 DEF Follows
<1> QED BY <1>4, <1>5

\* Removing an entry leaves the others behind the operation, when it is no
\* operation itself or when no operation precedes it.
LEMMA RemoveKeepsFollows ==
  ASSUME NEW s \in Seq(Entry), NEW e, NEW x, Follows(s, x),
         \/ e # x /\ e \notin Operations
         \/ \E i \in BeforeOperation(s) : s[i] = e
  PROVE  Follows(RemoveFirst(s, e), x)
<1> DEFINE r == RemoveFirst(s, e)
<1>1. PICK i \in 1..Len(s), j \in 1..Len(s) :
        j < i /\ s[j] \in Operations /\ s[i] = x
  BY DEF Follows
<1>2. CASE r = s
  BY <1>2
<1>3. CASE \E k \in 1..Len(s) :
              /\ s[k] = e /\ \A n \in 1..(k - 1) : s[n] # e
              /\ Len(r) = Len(s) - 1
              /\ \A n \in 1..(Len(s) - 1) : r[n] = s[IF n < k THEN n ELSE n + 1]
  <2>1. PICK k \in 1..Len(s) :
              /\ s[k] = e /\ \A n \in 1..(k - 1) : s[n] # e
              /\ Len(r) = Len(s) - 1
              /\ \A n \in 1..(Len(s) - 1) : r[n] = s[IF n < k THEN n ELSE n + 1]
    BY <1>3
  <2> HIDE DEF r
  <2>2. Len(s) \in Nat /\ DOMAIN s = 1..Len(s)
    BY LenProperties
  <2>3. k # j /\ k # i
    <3>1. CASE e # x /\ e \notin Operations
      BY <1>1, <2>1, <3>1
    <3>2. CASE \E m \in BeforeOperation(s) : s[m] = e
      <4>1. PICK m \in DOMAIN s : s[m] = e /\ \A n \in 1..m : s[n] \notin Operations
        BY <3>2 DEF BeforeOperation
      <4>2. k <= m
        BY <2>1, <2>2, <4>1
      <4>3. j > m
        BY <1>1, <2>2, <4>1
      <4> QED BY <1>1, <2>2, <4>2, <4>3
    <3> QED BY <3>1, <3>2
  <2> DEFINE m == IF i < k THEN i ELSE i - 1
             n == IF j < k THEN j ELSE j - 1
  <2>4. m \in 1..(Len(s) - 1) /\ n \in 1..(Len(s) - 1) /\ n < m
    BY <1>1, <2>2, <2>3
  <2>5. i = (IF m < k THEN m ELSE m + 1) /\ j = (IF n < k THEN n ELSE n + 1)
    BY <2>2, <2>3
  <2> HIDE DEF m, n
  <2>6. r[m] = s[i] /\ r[n] = s[j]
    BY <2>1, <2>4, <2>5
  <2> QED BY <1>1, <2>1, <2>4, <2>6 DEF Follows, r
<1>4. \/ r = s
      \/ \E k \in 1..Len(s) :
              /\ s[k] = e /\ \A n \in 1..(k - 1) : s[n] # e
              /\ Len(r) = Len(s) - 1
              /\ \A n \in 1..(Len(s) - 1) : r[n] = s[IF n < k THEN n ELSE n + 1]
  <2>1. \/ e \notin ToSet(s) /\ RemoveFirst(s, e) = s
        \/ \E k \in 1..Len(s) :
             /\ s[k] = e /\ \A n \in 1..(k - 1) : s[n] # e
             /\ RemoveFirst(s, e) \in Seq(Entry)
             /\ Len(RemoveFirst(s, e)) = Len(s) - 1
             /\ \A n \in 1..(Len(s) - 1) :
                  RemoveFirst(s, e)[n] = s[IF n < k THEN n ELSE n + 1]
    BY ONLY s \in Seq(Entry), RemoveFirstGap
  <2> QED BY <2>1, Zenon
<1> QED BY <1>2, <1>3, <1>4

\* takeFollowUpInputs stops in front of an operation.
LEMMA TakeStopsAtOperation ==
  ASSUME NEW s \in Seq(Entry), NEW paused, NEW mode,
         NEW j \in 1..TakeCount(s, paused, mode, TRUE)
  PROVE  j \in 1..Len(s) /\ s[j] \notin Operations
<1> DEFINE I == {i \in 1..Len(s) : s[i] \in Operations}
           n == TakeCount(s, paused, mode, TRUE)
<1>1. Len(s) \in Nat /\ n \in 0..Len(s)
  BY LenProperties, TakeCountInRange
<1>5. j \in 1..n
  OBVIOUS
<1> HIDE DEF n
<1>2. j \in 1..Len(s)
  BY <1>1, <1>5
<1>3. CASE I = {}
  BY <1>2, <1>3
<1>4. CASE I # {}
  <2>1. FirstOperation(s) = Min(I)
    BY <1>4 DEF FirstOperation, SelectInSeq
  <2>2. Min(I) \in I /\ \A i \in I : Min(I) <= i
    <3>1. I \in SUBSET (1..Len(s))
      OBVIOUS
    <3> HIDE DEF I
    <3> QED BY <1>1, <1>4, <3>1, LeastPosition
  <2>3. FirstOperation(s) \in 1..Len(s) /\ \A i \in I : FirstOperation(s) <= i
    BY <2>1, <2>2
  <2>4. n <= FirstOperation(s) - 1
    <3>1. n = IF paused \/ FirstOperation(s) - 1 = 0 THEN 0
              ELSE IF mode = "all" THEN FirstOperation(s) - 1 ELSE 1
      BY <1>1, <2>3 DEF TakeCount, n
    <3> QED BY <1>1, <2>3, <3>1
  <2>5. j < FirstOperation(s)
    BY <1>1, <1>5, <2>3, <2>4
  <2>6. j \notin I
    BY <1>1, <2>3, <2>5
  <2> QED BY <1>2, <2>6
<1> QED BY <1>3, <1>4

LEMMA TakingKeepsFollows ==
  ASSUME NEW q \in Queues, NEW x, Follows(q.followUp, x)
  PROVE  Follows(AfterTakingFollowUps(q).followUp, x)
<1> DEFINE s == q.followUp
           n == FollowUpCount(q)
           r == SubSeq(s, n + 1, Len(s))
<1>1. s \in Seq(Entry) /\ Len(s) \in Nat
  BY LenProperties DEF Queues
<1>2. n \in 0..Len(s) /\ \A j \in 1..n : s[j] \notin Operations
  BY <1>1, TakeCountInRange, TakeStopsAtOperation DEF FollowUpCount
<1>3. AfterTakingFollowUps(q).followUp = r
  BY DEF AfterTakingFollowUps, Queues
<1>4. PICK i \in 1..Len(s), j \in 1..Len(s) :
        j < i /\ s[j] \in Operations /\ s[i] = x
  BY DEF Follows
<1> HIDE DEF n, s
<1>5. /\ Len(r) = Len(s) - n
      /\ \A k \in 1..(Len(s) - n) : r[k] = s[n + k]
  BY <1>1, <1>2, RestOfSequence
<1>6. n < j
  BY <1>1, <1>2, <1>4
<1>7. /\ i - n \in 1..(Len(s) - n) /\ j - n \in 1..(Len(s) - n) /\ j - n < i - n
      /\ n + (i - n) = i /\ n + (j - n) = j
  BY <1>1, <1>2, <1>4, <1>6
<1>8. r[i - n] = x /\ r[j - n] \in Operations
  BY <1>4, <1>5, <1>7
<1> HIDE DEF r
<1> QED BY <1>3, <1>5, <1>7, <1>8 DEF Follows
-----------------------------------------------------------------------------
(* No entry is queued twice. *)

Distinct(q) ==
  /\ IsInjective(q.steering) /\ IsInjective(q.followUp)
  /\ ToSet(q.steering) \cap ToSet(q.followUp) = {}

\* list() has no duplicates when neither queue has and they share nothing.
LEMMA DistinctLists ==
  ASSUME NEW q \in Queues
  PROVE  /\ ToSet(q.steering \o q.followUp) = Queued(q)
         /\ Distinct(q) <=> IsInjective(q.steering \o q.followUp)
<1> DEFINE s == q.steering
           r == q.followUp
           all == s \o r
<1>1. s \in Seq(Entry) /\ r \in Seq(Entry)
  BY DEF Queues
<1>2. /\ Len(s) \in Nat /\ Len(r) \in Nat
      /\ DOMAIN s = 1..Len(s) /\ DOMAIN r = 1..Len(r)
      /\ DOMAIN all = 1..(Len(s) + Len(r))
      /\ \A i \in 1..(Len(s) + Len(r)) :
           all[i] = IF i <= Len(s) THEN s[i] ELSE r[i - Len(s)]
  <2> HIDE DEF s, r
  <2>1. /\ Len(s) \in Nat /\ Len(r) \in Nat
        /\ DOMAIN s = 1..Len(s) /\ DOMAIN r = 1..Len(r)
    BY <1>1, LenProperties
  <2>2. /\ s \o r \in Seq(Entry)
        /\ Len(s \o r) = Len(s) + Len(r)
        /\ \A i \in 1..(Len(s) + Len(r)) :
             (s \o r)[i] = IF i <= Len(s) THEN s[i] ELSE r[i - Len(s)]
    BY <1>1, ConcatProperties
  <2>3. DOMAIN (s \o r) = 1..(Len(s) + Len(r))
    <3> DEFINE both == s \o r
    <3>1. both \in Seq(Entry) /\ Len(both) = Len(s) + Len(r)
      BY <2>2
    <3> HIDE DEF both
    <3>2. DOMAIN both = 1..Len(both)
      BY <3>1, LenProperties
    <3> QED BY <3>1, <3>2 DEF both
  <2> QED BY <2>1, <2>2, <2>3, Zenon
<1> HIDE DEF s, r, all
<1>3. \A i \in DOMAIN s : i \in DOMAIN all /\ all[i] = s[i]
  BY <1>2
<1>4. ASSUME NEW i \in DOMAIN r
      PROVE  Len(s) + i \in DOMAIN all /\ all[Len(s) + i] = r[i]
  <2>1. Len(s) + i \in 1..(Len(s) + Len(r)) /\ ~(Len(s) + i <= Len(s))
        /\ (Len(s) + i) - Len(s) = i
    BY <1>2
  <2> QED BY <1>2, <2>1
<1>5. ASSUME NEW i \in DOMAIN all
      PROVE  \/ i \in DOMAIN s /\ all[i] = s[i]
             \/ /\ i - Len(s) \in DOMAIN r /\ all[i] = r[i - Len(s)]
                /\ i = Len(s) + (i - Len(s))
  <2>1. i \in 1..(Len(s) + Len(r))
    BY <1>2
  <2>2. CASE i <= Len(s)
    BY <1>2, <2>1, <2>2
  <2>3. CASE ~(i <= Len(s))
    <3>1. i - Len(s) \in 1..Len(r) /\ i = Len(s) + (i - Len(s))
      BY <1>2, <2>1, <2>3
    <3> QED BY <1>2, <2>1, <2>3, <3>1
  <2> QED BY <2>2, <2>3
<1>6. ToSet(all) = ToSet(s) \cup ToSet(r)
  <2>1. ToSet(all) \subseteq ToSet(s) \cup ToSet(r)
    BY <1>5 DEF ToSet
  <2>2. ToSet(s) \cup ToSet(r) \subseteq ToSet(all)
    BY <1>3, <1>4 DEF ToSet
  <2> QED BY <2>1, <2>2
<1>7. ASSUME IsInjective(all)
      PROVE  IsInjective(s) /\ IsInjective(r) /\ ToSet(s) \cap ToSet(r) = {}
  <2>1. IsInjective(s)
    BY <1>3, <1>7 DEF IsInjective
  <2>2. ASSUME NEW i \in DOMAIN r, NEW j \in DOMAIN r, r[i] = r[j] PROVE i = j
    <3>1. Len(s) + i = Len(s) + j
      BY <1>4, <1>7, <2>2 DEF IsInjective
    <3> QED BY <1>2, <3>1
  <2>3. ASSUME NEW i \in DOMAIN s, NEW j \in DOMAIN r, s[i] = r[j] PROVE FALSE
    <3>1. i = Len(s) + j
      BY <1>3, <1>4, <1>7, <2>3 DEF IsInjective
    <3> QED BY <1>2, <3>1
  <2> QED BY <2>1, <2>2, <2>3 DEF IsInjective, ToSet
<1>8. ASSUME IsInjective(s), IsInjective(r), ToSet(s) \cap ToSet(r) = {},
             NEW i \in DOMAIN all, NEW j \in DOMAIN all, all[i] = all[j]
      PROVE  i = j
  <2>1. \A m \in DOMAIN s, n \in DOMAIN r : s[m] # r[n]
    BY <1>8 DEF ToSet
  <2>2. CASE i \in DOMAIN s /\ all[i] = s[i]
    BY <1>5, <1>8, <2>1, <2>2 DEF IsInjective
  <2>3. CASE /\ i - Len(s) \in DOMAIN r /\ all[i] = r[i - Len(s)]
             /\ i = Len(s) + (i - Len(s))
    <3>1. CASE j \in DOMAIN s /\ all[j] = s[j]
      BY <1>8, <2>1, <2>3, <3>1
    <3>2. CASE /\ j - Len(s) \in DOMAIN r /\ all[j] = r[j - Len(s)]
               /\ j = Len(s) + (j - Len(s))
      <4>1. i - Len(s) = j - Len(s)
        BY <1>8, <2>3, <3>2 DEF IsInjective
      <4> QED BY <2>3, <3>2, <4>1
    <3> QED BY <1>5, <3>1, <3>2
  <2> QED BY <1>5, <2>2, <2>3
<1>9. IsInjective(all) <=>
        IsInjective(s) /\ IsInjective(r) /\ ToSet(s) \cap ToSet(r) = {}
  BY <1>7, <1>8 DEF IsInjective
<1> QED BY <1>6, <1>9 DEF Distinct, Queued, s, r, all

\* A new entry at the end of a sequence leaves it without duplicates.
LEMMA AppendDistinct ==
  ASSUME NEW S, NEW s \in Seq(S), NEW e \in S, IsInjective(s), e \notin ToSet(s)
  PROVE  IsInjective(Append(s, e))
<1>1. /\ Len(s) \in Nat /\ DOMAIN s = 1..Len(s)
      /\ DOMAIN Append(s, e) = 1..(Len(s) + 1)
      /\ \A i \in 1..Len(s) : Append(s, e)[i] = s[i]
      /\ Append(s, e)[Len(s) + 1] = e
  BY LenProperties, AppendProperties
<1>2. \A i \in 1..(Len(s) + 1) : i \in 1..Len(s) \/ i = Len(s) + 1
  BY <1>1
<1>3. \A i \in 1..Len(s) : s[i] # e
  BY <1>1 DEF ToSet
<1> QED BY <1>1, <1>2, <1>3 DEF IsInjective

\* What comes off the front of a sequence is gone from the rest.
LEMMA RestDistinct ==
  ASSUME NEW S, NEW s \in Seq(S), NEW n \in 0..Len(s), NEW r \in Seq(S),
         IsInjective(s), Len(r) = Len(s) - n,
         \A i \in 1..(Len(s) - n) : r[i] = s[n + i]
  PROVE  /\ IsInjective(r)
         /\ ToSet(r) = ToSet(s) \ {s[i] : i \in 1..n}
<1>1. /\ Len(s) \in Nat /\ DOMAIN s = 1..Len(s)
      /\ DOMAIN r = 1..(Len(s) - n)
  BY LenProperties
<1>2. \A i \in DOMAIN r : n + i \in DOMAIN s /\ r[i] = s[n + i] /\ n + i \notin 1..n
  BY <1>1
<1>3. IsInjective(r)
  <2> SUFFICES ASSUME NEW i \in DOMAIN r, NEW j \in DOMAIN r, r[i] = r[j]
               PROVE  i = j
    BY DEF IsInjective
  <2>1. n + i = n + j
    BY <1>2 DEF IsInjective
  <2> QED BY <1>1, <2>1
<1>4. ASSUME NEW x \in ToSet(r) PROVE x \in ToSet(s) \ {s[i] : i \in 1..n}
  <2>1. PICK i \in DOMAIN r : x = r[i]
    BY DEF ToSet
  <2>2. \A j \in 1..n : j \in DOMAIN s /\ j # n + i
    BY <1>1, <1>2
  <2>3. n + i \in DOMAIN s /\ x = s[n + i]
    BY <1>2, <2>1
  <2>4. x \in ToSet(s)
    BY <2>3 DEF ToSet
  <2>5. \A j \in 1..n : s[j] # x
    BY <2>2, <2>3 DEF IsInjective
  <2> QED BY <2>4, <2>5
<1>5. ASSUME NEW x \in ToSet(s) \ {s[i] : i \in 1..n} PROVE x \in ToSet(r)
  <2>1. PICK i \in DOMAIN s : x = s[i] /\ i \notin 1..n
    BY DEF ToSet
  <2>2. i - n \in DOMAIN r /\ n + (i - n) = i
    BY <1>1, <2>1
  <2>3. r[i - n] = x
    BY <1>2, <2>1, <2>2
  <2> QED BY <2>2, <2>3 DEF ToSet
<1> QED BY <1>3, <1>4, <1>5

\* The operators on whole queues neither duplicate an entry nor lose one that
\* they were not asked to remove.
LEMMA OperatorsKeepDistinct ==
  ASSUME NEW q \in Queues, NEW e \in Entry, Distinct(q)
  PROVE  /\ e \notin Queued(q) => \A b : Distinct(EnqueueEntry(q, b, e))
         /\ Distinct(RemoveEntry(q, e))
         /\ Queued(RemoveEntry(q, e)) = Queued(q) \ {e}
         /\ e \in ToSet(q.followUp) =>
              /\ Distinct(Promote(q, e))
              /\ Queued(Promote(q, e)) = Queued(q)
<1> DEFINE s == q.steering
           r == q.followUp
<1>1. s \in Seq(Entry) /\ r \in Seq(Entry)
  BY DEF Queues
<1>2. IsInjective(s) /\ IsInjective(r) /\ ToSet(s) \cap ToSet(r) = {}
  BY DEF Distinct
<1> HIDE DEF s, r
<1>3. /\ ToSet(Append(s, e)) = ToSet(s) \cup {e}
      /\ ToSet(Append(r, e)) = ToSet(r) \cup {e}
  BY <1>1, AppendAdds
<1>4. /\ IsInjective(RemoveFirst(s, e)) /\ IsInjective(RemoveFirst(r, e))
      /\ ToSet(RemoveFirst(s, e)) = ToSet(s) \ {e}
      /\ ToSet(RemoveFirst(r, e)) = ToSet(r) \ {e}
  <2>1. ASSUME NEW z \in Seq(Entry), IsInjective(z)
        PROVE  /\ IsInjective(RemoveFirst(z, e))
               /\ ToSet(RemoveFirst(z, e)) = ToSet(z) \ {e}
    BY <2>1, RemoveFirstKeeps
  <2> QED BY <1>1, <1>2, <2>1
<1>5. ASSUME e \notin Queued(q), NEW b PROVE Distinct(EnqueueEntry(q, b, e))
  <2>1. e \notin ToSet(s) /\ e \notin ToSet(r)
    BY <1>5 DEF Queued, s, r
  <2>2. IsInjective(Append(s, e)) /\ IsInjective(Append(r, e))
    BY <1>1, <1>2, <2>1, AppendDistinct
  <2>3. /\ EnqueueEntry(q, b, e).steering = IF b = "steer" THEN Append(s, e) ELSE s
        /\ EnqueueEntry(q, b, e).followUp = IF b = "steer" THEN r ELSE Append(r, e)
    BY DEF EnqueueEntry, Queues, s, r
  <2> QED BY <1>2, <1>3, <2>1, <2>2, <2>3 DEF Distinct
<1>6. Distinct(RemoveEntry(q, e)) /\ Queued(RemoveEntry(q, e)) = Queued(q) \ {e}
  <2>1. /\ RemoveEntry(q, e).steering = RemoveFirst(s, e)
        /\ RemoveEntry(q, e).followUp = RemoveFirst(r, e)
    BY DEF RemoveEntry, Queues, s, r
  <2>2. Queued(q) = ToSet(s) \cup ToSet(r)
    BY DEF Queued, s, r
  <2> QED BY <1>2, <1>4, <2>1, <2>2 DEF Distinct, Queued
<1>7. ASSUME e \in ToSet(r)
      PROVE  Distinct(Promote(q, e)) /\ Queued(Promote(q, e)) = Queued(q)
  <2>1. e \notin ToSet(s)
    BY <1>2, <1>7
  <2>2. IsInjective(Append(s, e))
    BY <1>1, <1>2, <2>1, AppendDistinct
  <2>3. /\ Promote(q, e).steering = Append(s, e)
        /\ Promote(q, e).followUp = RemoveFirst(r, e)
    BY DEF Promote, Queues, s, r
  <2>4. Queued(q) = ToSet(s) \cup ToSet(r)
    BY DEF Queued, s, r
  <2>5. Distinct(Promote(q, e))
    BY <1>2, <1>3, <1>4, <2>2, <2>3 DEF Distinct
  <2> QED BY <1>3, <1>4, <1>7, <2>3, <2>4, <2>5 DEF Queued
<1> QED BY <1>5, <1>6, <1>7 DEF r

\* A reordered followUpQueue has every entry once: a function onto as many
\* values as it has arguments takes none twice.
LEMMA ReorderKeepsDistinct ==
  ASSUME NEW q \in Queues, NEW z \in Reorderings(q), Distinct(q)
  PROVE  /\ Distinct([q EXCEPT !.followUp = z])
         /\ Queued([q EXCEPT !.followUp = z]) = Queued(q)
<1> DEFINE r == q.followUp
           D == DOMAIN r
<1>1. r \in Seq(Entry) /\ q.followUp = r
      /\ [q EXCEPT !.followUp = z] =
           [steering |-> q.steering, followUp |-> z, paused |-> q.paused]
  BY DEF Queues
<1>2. z \in [D -> ToSet(r)] /\ ToSet(z) = ToSet(r)
  BY DEF Reorderings
<1>3. IsInjective(r)
  BY DEF Distinct
<1>4. r \in [D -> ToSet(r)]
  <2>1. D = 1..Len(r) /\ r = [i \in 1..Len(r) |-> r[i]]
    BY <1>1, LenProperties
  <2> QED BY <2>1 DEF ToSet
<1>5. IsFiniteSet(D)
  <2>1. D = 1..Len(r) /\ Len(r) \in Nat
    BY <1>1, LenProperties
  <2> QED BY <2>1, FS_Interval
<1> HIDE DEF D, r
<1>6. r \in Surjection(D, ToSet(r)) /\ r \in Injection(D, ToSet(r))
  BY <1>3, <1>4 DEF Surjection, Injection, ToSet, D
<1>7. z \in Surjection(D, ToSet(r))
  BY <1>2 DEF Surjection, ToSet
<1>8. Cardinality(ToSet(r)) = Cardinality(D)
  BY <1>5, <1>6, FS_Surjection
<1>9. z \in Injection(D, ToSet(r))
  BY <1>5, <1>7, <1>8, FS_Surjection
<1>10. IsInjective(z)
  BY <1>9 DEF Injection
<1> QED BY <1>1, <1>2, <1>10 DEF Distinct, Queued

\* What a turn or a call takes off the front of a queue is no longer queued.
LEMMA TakingKeepsDistinct ==
  ASSUME NEW q \in Queues, Distinct(q)
  PROVE  /\ Distinct(AfterTakingSteering(q))
         /\ Queued(AfterTakingSteering(q)) = Queued(q) \ TakenSteering(q)
         /\ Distinct(AfterTakingFollowUps(q))
         /\ Queued(AfterTakingFollowUps(q)) = Queued(q) \ TakenFollowUps(q)
         /\ OperationAtHead(q) =>
              /\ Distinct(DropHead(q))
              /\ Queued(DropHead(q)) = Queued(q) \ {Head(q.followUp)}
<1> DEFINE s == q.steering
           r == q.followUp
           m == SteeringCount(q)
           n == FollowUpCount(q)
<1>1. /\ s \in Seq(Entry) /\ r \in Seq(Entry)
      /\ Queued(q) = ToSet(s) \cup ToSet(r)
  BY DEF Queues, Queued
<1>2. IsInjective(s) /\ IsInjective(r) /\ ToSet(s) \cap ToSet(r) = {}
  BY DEF Distinct
<1>3. m \in 0..Len(s) /\ n \in 0..Len(r)
  BY <1>1, TakeCountInRange DEF SteeringCount, FollowUpCount
<1>4. /\ TakenSteering(q) = ToSet(SubSeq(s, 1, m))
      /\ TakenFollowUps(q) = ToSet(SubSeq(r, 1, n))
      /\ AfterTakingSteering(q).steering = SubSeq(s, m + 1, Len(s))
      /\ AfterTakingSteering(q).followUp = r
      /\ AfterTakingFollowUps(q).steering = s
      /\ AfterTakingFollowUps(q).followUp = SubSeq(r, n + 1, Len(r))
      /\ DropHead(q).steering = s /\ DropHead(q).followUp = Tail(r)
      /\ OperationAtHead(q) => r # <<>>
  BY DEF TakenSteering, TakenFollowUps, AfterTakingSteering,
         AfterTakingFollowUps, DropHead, OperationAtHead, Queues
<1> HIDE DEF s, r, m, n
<1>5. ASSUME NEW z \in Seq(Entry), NEW k \in 0..Len(z), IsInjective(z)
      PROVE  /\ IsInjective(SubSeq(z, k + 1, Len(z)))
             /\ ToSet(SubSeq(z, k + 1, Len(z))) =
                  ToSet(z) \ ToSet(SubSeq(z, 1, k))
             /\ ToSet(SubSeq(z, 1, k)) \subseteq ToSet(z)
  <2>1. ToSet(SubSeq(z, 1, k)) = {z[i] : i \in 1..k}
    <3>1. Len(z) \in Nat
      BY LenProperties
    <3>2. DOMAIN SubSeq(z, 1, k) = 1..k /\ \A i \in 1..k : SubSeq(z, 1, k)[i] = z[i]
      BY <3>1
    <3> QED BY <3>2 DEF ToSet
  <2>2. /\ SubSeq(z, k + 1, Len(z)) \in Seq(Entry)
        /\ Len(SubSeq(z, k + 1, Len(z))) = Len(z) - k
        /\ \A i \in 1..(Len(z) - k) : SubSeq(z, k + 1, Len(z))[i] = z[k + i]
    BY RestOfSequence
  <2>3. /\ IsInjective(SubSeq(z, k + 1, Len(z)))
        /\ ToSet(SubSeq(z, k + 1, Len(z))) = ToSet(z) \ {z[i] : i \in 1..k}
    <3> DEFINE rest == SubSeq(z, k + 1, Len(z))
    <3>1. /\ rest \in Seq(Entry) /\ Len(rest) = Len(z) - k
          /\ \A i \in 1..(Len(z) - k) : rest[i] = z[k + i]
      BY <2>2
    <3> HIDE DEF rest
    <3>2. IsInjective(rest) /\ ToSet(rest) = ToSet(z) \ {z[i] : i \in 1..k}
      BY <1>5, <3>1, RestDistinct
    <3> QED BY <3>2 DEF rest
  <2> QED BY <2>1, <2>3, PrefixAndRest
<1>6. /\ Distinct(AfterTakingSteering(q))
      /\ Queued(AfterTakingSteering(q)) = Queued(q) \ TakenSteering(q)
  <2>1. /\ IsInjective(SubSeq(s, m + 1, Len(s)))
        /\ ToSet(SubSeq(s, m + 1, Len(s))) = ToSet(s) \ TakenSteering(q)
        /\ TakenSteering(q) \subseteq ToSet(s)
    BY <1>1, <1>2, <1>3, <1>4, <1>5
  <2> QED BY <1>1, <1>2, <1>4, <2>1 DEF Distinct, Queued
<1>7. /\ Distinct(AfterTakingFollowUps(q))
      /\ Queued(AfterTakingFollowUps(q)) = Queued(q) \ TakenFollowUps(q)
  <2>1. /\ IsInjective(SubSeq(r, n + 1, Len(r)))
        /\ ToSet(SubSeq(r, n + 1, Len(r))) = ToSet(r) \ TakenFollowUps(q)
        /\ TakenFollowUps(q) \subseteq ToSet(r)
    BY <1>1, <1>2, <1>3, <1>4, <1>5
  <2> QED BY <1>1, <1>2, <1>4, <2>1 DEF Distinct, Queued
<1>8. ASSUME r # <<>>
      PROVE  /\ Distinct(DropHead(q))
             /\ Queued(DropHead(q)) = Queued(q) \ {Head(r)}
  <2>1. /\ Len(r) \in Nat /\ Len(r) # 0 /\ DOMAIN r = 1..Len(r)
        /\ Head(r) = r[1] /\ Tail(r) \in Seq(Entry)
        /\ Len(Tail(r)) = Len(r) - 1
        /\ \A i \in 1..(Len(r) - 1) : Tail(r)[i] = r[i + 1]
    BY <1>1, <1>8, EmptySeq, LenProperties, HeadTailProperties
  <2>2. 1 \in 0..Len(r) /\ \A i \in 1..(Len(r) - 1) : Tail(r)[i] = r[1 + i]
    BY <2>1
  <2>3. {r[i] : i \in 1..1} = {Head(r)}
    BY <2>1
  <2>4. IsInjective(Tail(r)) /\ ToSet(Tail(r)) = ToSet(r) \ {Head(r)}
    BY <1>1, <1>2, <2>1, <2>2, <2>3, RestDistinct
  <2>5. Head(r) \in ToSet(r)
    BY <2>1 DEF ToSet
  <2> QED BY <1>1, <1>2, <1>4, <2>4, <2>5 DEF Distinct, Queued
<1> QED BY <1>4, <1>6, <1>7, <1>8 DEF r

\* An empty queue, and one that is paused or resumed.
LEMMA PauseKeepsDistinct ==
  /\ Distinct(EmptyQueue) /\ Queued(EmptyQueue) = {}
  /\ \A q \in Queues : Distinct(q) => Distinct(Pause(q)) /\ Distinct(Resume(q))
<1>1. Distinct(EmptyQueue) /\ Queued(EmptyQueue) = {}
  BY DEF EmptyQueue, Distinct, Queued, IsInjective, ToSet
<1> QED BY <1>1 DEF Pause, Resume, Distinct, Queues

-----------------------------------------------------------------------------
(* The operators the actions share keep the types. *)

CallMaps == [Caller -> CallRecords]
Ledgers == [Entry -> Places]
Drains == [at : {"off", "running", "resumed", "ending"},
           turn : Slot \cup {None}, waiters : SUBSET Caller]

LEMMA BoundedSequences ==
  ASSUME NEW S, NEW n \in Nat
  PROVE  SeqOf(S, n) \subseteq Seq(S)
<1>1. 0..n \subseteq Nat
  OBVIOUS
<1>2. ASSUME NEW s \in SeqOf(S, n)
      PROVE  \E m \in Nat : s \in [1..m -> S]
  BY <1>1, <1>2, Zenon DEF SeqOf
<1>3. Seq(S) = UNION {[1..m -> S] : m \in Nat}
  BY SeqDef
<1> QED BY <1>2, <1>3, Zenon

LEMMA MovedIsLedger ==
  ASSUME place \in Ledgers, NEW es, NEW where \in Places
  PROVE  Moved(es, where) \in Ledgers
BY DEF Moved, Ledgers

LEMMA ReadyIsCall == Ready \in CallRecords
BY DEF Ready, CallRecords, Awaits

LEMMA CallOperators ==
  ASSUME NEW C \in CallMaps, NEW t, NEW cs
  PROVE  /\ Return(C, cs) \in CallMaps
         /\ Released(C, t, "released") \in CallMaps
         /\ Released(C, t, "failed") \in CallMaps
<1>1. Return(C, cs) \in CallMaps
  BY ReadyIsCall DEF Return, CallMaps
<1>2. \A at \in Awaits : Released(C, t, at) \in CallMaps
  <2> SUFFICES ASSUME NEW at \in Awaits, NEW c \in Caller
               PROVE  [C[c] EXCEPT !.at = at, !.turn = None] \in CallRecords
    BY DEF Released, CallMaps
  <2>1. C[c] \in CallRecords
    BY DEF CallMaps
  <2> QED BY <2>1 DEF CallRecords
<1> QED BY <1>1, <1>2 DEF Awaits

LEMMA AwaitTurnIsCall ==
  ASSUME NEW C \in CallMaps, NEW c \in Caller, NEW op \in APIs,
         NEW e \in Entry \cup {None}, activeTurn \in Slot \cup {None},
         op = "sendQueuedNow" => e \in Executables
  PROVE  AwaitTurn(C, c, op, e) \in CallMaps
<1>1. [op |-> op, at |-> "turn", turn |-> activeTurn, ticket |-> 0,
       entry |-> e] \in CallRecords
  BY DEF CallRecords, Awaits
<1> QED BY <1>1 DEF AwaitTurn, CallMaps

LEMMA AwaitWritesTypes ==
  ASSUME CallTypeOK, NEW c \in Caller, NEW op \in APIs,
         NEW e \in Entry \cup {None}, AwaitWrites(c, op, e),
         op = "sendQueuedNow" => e \in Executables
  PROVE  call' \in CallMaps /\ line' \in Seq(Caller)
<1>1. [op |-> op, at |-> "contextWrite", turn |-> None,
       ticket |-> writes.issued, entry |-> e] \in CallRecords
  BY DEF CallRecords, Awaits, CallTypeOK
<1>2. call' \in CallMaps
  BY <1>1 DEF AwaitWrites, CallMaps, CallTypeOK
<1> QED BY <1>2, AppendProperties DEF AwaitWrites, CallTypeOK

LEMMA ResumedTypes ==
  ASSUME CallTypeOK, NEW c \in Caller, NEW op, Resumed(c, op)
  PROVE  line' \in Seq(Caller)
BY HeadTailProperties DEF Resumed, CallTypeOK

LEMMA InvokeTypes ==
  ASSUME CallTypeOK, NEW c \in Caller, NEW op, Invoke(c, op)
  PROVE  /\ op \in APIs
         /\ budget' \in [Caller -> Nat]
BY CallsAssumption DEF Invoke, CallTypeOK

LEMMA BeginTypes ==
  ASSUME NEW T \in [Slot -> Turns], NEW kind \in TurnKinds,
         NEW es \in SUBSET Entry, NEW signal \in BOOLEAN,
         Begin(T, kind, es, signal)
  PROVE  /\ turn' \in [Slot -> Turns]
         /\ activeTurn' \in Slot
         /\ state' = "running"
<1>1. [kind |-> kind, phase |-> "admission", aborted |-> FALSE,
       signal |-> signal, holds |-> es] \in Turns
  BY DEF Turns, Phases
<1> QED BY <1>1 DEF Begin

LEMMA BeginQueuedTypes ==
  ASSUME TypeOK, NEW q \in Queues, NEW e \in Entry, BeginQueued(q, e),
         KindOf[e] \in TurnKinds
  PROVE  /\ turn' \in [Slot -> Turns]
         /\ activeTurn' \in Slot
         /\ state' = "running"
         /\ queue' \in Queues
         /\ place' \in Ledgers
<1>1. turn \in [Slot -> Turns]
  BY DEF TypeOK, ControlTypeOK
<1>2. Begin(turn, KindOf[e], {e}, FALSE)
  BY DEF BeginQueued
<1>3. queue' \in Queues
  BY QueueOperators DEF BeginQueued
<1>4. place' \in Ledgers
  BY MovedIsLedger DEF BeginQueued, Places, TypeOK, QueueTypeOK, Ledgers
<1> QED BY <1>1, <1>2, <1>3, <1>4, BeginTypes

\* The entry at the head that goes out opens a turn of its kind.
LEMMA FollowUpHeadKinds ==
  ASSUME NEW q \in Queues, NEW e \in FollowUpHead(q)
  PROVE  e \in Entry /\ KindOf[e] \in TurnKinds
<1>1. e \in Executables
  BY DEF FollowUpHead
<1> QED BY <1>1 DEF Executables, TurnKinds

LEMMA StartOperationTypes ==
  ASSUME NEW T \in [Slot -> Turns], NEW q \in Queues, NEW P \in Ledgers,
         OperationAtHead(q), StartOperation(T, q, P)
  PROVE  /\ turn' \in [Slot -> Turns]
         /\ activeTurn' \in Slot
         /\ state' = "running"
         /\ activeOp' \in Entry
         /\ queue' \in Queues
         /\ place' \in Ledgers
<1> DEFINE e == Head(q.followUp)
<1>1. e \in Entry /\ DropHead(q) \in Queues
  BY OperationHead, QueuedAreEntries
<1>2. Begin(T, "operation", {e}, FALSE)
  BY DEF StartOperation
<1>3. "operation" \in TurnKinds
  BY DEF TurnKinds
<1>4. place' \in Ledgers
  BY <1>1 DEF StartOperation, Ledgers, Places
<1>5. activeOp' = e /\ queue' = DropHead(q)
  BY DEF StartOperation
<1> HIDE DEF e
<1> QED BY <1>1, <1>2, <1>3, <1>4, <1>5, BeginTypes

LEMMA StartIfHeadTypes ==
  ASSUME TypeOK, NEW q \in Queues, NEW P \in Ledgers, StartIfHead(q, P)
  PROVE  /\ turn' \in [Slot -> Turns]
         /\ activeTurn' \in Slot \cup {None}
         /\ state' \in States
         /\ activeOp' \in Entry \cup {None}
         /\ queue' \in Queues
         /\ place' \in Ledgers
<1>1. CASE OperationDue(q, state)
  <2>1. StartOperation(turn, q, P) /\ OperationAtHead(q)
    BY <1>1 DEF StartIfHead, OperationDue
  <2>2. turn \in [Slot -> Turns]
    BY DEF TypeOK, ControlTypeOK
  <2> QED BY <2>1, <2>2, StartOperationTypes DEF States
<1>2. CASE ~OperationDue(q, state)
  BY <1>2 DEF StartIfHead, TypeOK, ControlTypeOK
<1> QED BY <1>1, <1>2

LEMMA StartContinuationTypes ==
  ASSUME NEW T \in [Slot -> Turns], NEW ws \in SUBSET Caller,
         StartContinuation(T, ws)
  PROVE  /\ turn' \in [Slot -> Turns]
         /\ activeTurn' \in Slot
         /\ state' = "running"
         /\ requested' \in BOOLEAN
         /\ waiters' \in SUBSET Caller
         /\ drain' \in Drains
<1>1. Begin(T, "continuation", {}, FALSE)
  BY DEF StartContinuation
<1>2. /\ turn' \in [Slot -> Turns]
      /\ activeTurn' \in Slot
      /\ state' = "running"
  BY <1>1, BeginTypes DEF TurnKinds
<1> QED BY <1>2 DEF StartContinuation, Drains

LEMMA ScheduleTypes ==
  ASSUME NEW T \in [Slot -> Turns], NEW a \in Slot \cup {None},
         NEW s \in States, NEW asked \in BOOLEAN, NEW ws \in SUBSET Caller,
         NEW D \in Drains, NEW C \in CallMaps,
         Schedule(T, a, s, asked, ws, D, C)
  PROVE  /\ turn' \in [Slot -> Turns]
         /\ activeTurn' \in Slot \cup {None}
         /\ state' \in States
         /\ requested' \in BOOLEAN
         /\ waiters' \in SUBSET Caller
         /\ drain' \in Drains
         /\ call' \in CallMaps
<1>1. CASE StartContinuation(T, ws) /\ call' = C
  BY <1>1, StartContinuationTypes DEF States
<1>2. CASE /\ turn' = T /\ activeTurn' = a /\ state' = s
           /\ requested' = FALSE /\ waiters' = {} /\ drain' = D
           /\ call' = Return(C, ws)
  BY <1>2, CallOperators
<1>3. CASE /\ turn' = T /\ activeTurn' = a /\ state' = s
           /\ requested' = asked /\ waiters' = ws /\ drain' = D
           /\ call' = C
  BY <1>3
<1> QED BY <1>1, <1>2, <1>3 DEF Schedule

LEMMA FinishTypes ==
  ASSUME TypeOK, NEW t \in Slot, NEW q \in Queues, NEW P \in Ledgers,
         NEW s \in States, NEW at \in {"released", "failed"},
         FinishActiveTurn(t, q, P, s, at)
  PROVE  /\ turn' \in [Slot -> Turns]
         /\ activeTurn' \in Slot \cup {None}
         /\ state' \in States
         /\ activeOp' \in Entry \cup {None}
         /\ queue' \in Queues
         /\ place' \in Ledgers
         /\ requested' \in BOOLEAN
         /\ waiters' \in SUBSET Caller
         /\ drain' \in Drains
         /\ call' \in CallMaps
<1> DEFINE T == [turn EXCEPT ![t] = FreeSlot]
           C == Released(call, t, at)
           D == IF drain.at = "running" /\ drain.turn = t
                  THEN [drain EXCEPT !.at = "resumed", !.turn = None]
                  ELSE drain
           next == StateAfterTurn(s)
           op == IF turn[t].kind = "operation" /\ activeOp \in turn[t].holds
                   THEN None ELSE activeOp
<1>1. T \in [Slot -> Turns]
  BY DEF TypeOK, ControlTypeOK, FreeSlot, Turns, TurnKinds, Phases
<1>2. C \in CallMaps
  BY CallOperators DEF TypeOK, CallTypeOK, CallMaps
<1>3. D \in Drains
  BY DEF TypeOK, CallTypeOK, Drains
<1>4. next \in States
  BY DEF StateAfterTurn, States
<1>5. /\ requested \in BOOLEAN /\ waiters \in SUBSET Caller
      /\ activeOp \in Entry \cup {None}
  BY DEF TypeOK, CallTypeOK, ControlTypeOK
<1>6. \/ /\ OperationDue(q, next)
         /\ StartOperation(T, q, P)
         /\ call' = C /\ drain' = D
         /\ UNCHANGED <<requested, waiters>>
      \/ /\ queue' = q /\ place' = P /\ activeOp' = op
         /\ \/ /\ turn' = T /\ activeTurn' = None /\ state' = next
               /\ call' = C /\ drain' = D
               /\ UNCHANGED <<requested, waiters>>
            \/ Schedule(T, None, next, requested, waiters, D, C)
  BY Zenon DEF FinishActiveTurn
<1>7. op \in Entry \cup {None}
  BY <1>5
<1> HIDE DEF T, C, D, next, op
<1>8. CASE OperationDue(q, next) /\ StartOperation(T, q, P)
           /\ call' = C /\ drain' = D /\ UNCHANGED <<requested, waiters>>
  BY <1>1, <1>2, <1>3, <1>5, <1>8, StartOperationTypes DEF OperationDue, States
<1>9. CASE /\ queue' = q /\ place' = P /\ activeOp' = op
           /\ turn' = T /\ activeTurn' = None /\ state' = next
           /\ call' = C /\ drain' = D
           /\ UNCHANGED <<requested, waiters>>
  BY <1>1, <1>2, <1>3, <1>4, <1>5, <1>7, <1>9
<1>10. CASE /\ queue' = q /\ place' = P /\ activeOp' = op
            /\ Schedule(T, None, next, requested, waiters, D, C)
  BY <1>1, <1>2, <1>3, <1>4, <1>5, <1>7, <1>10, ScheduleTypes
<1> QED BY <1>6, <1>8, <1>9, <1>10

LEMMA UpdatedTurns ==
  ASSUME NEW T \in [Slot -> Turns], NEW t, NEW u \in Turns
  PROVE  [T EXCEPT ![t] = u] \in [Slot -> Turns]
OBVIOUS

LEMMA AbortedTypes ==
  ASSUME NEW T \in [Slot -> Turns], NEW t
  PROVE  [T EXCEPT ![t].aborted = TRUE] \in [Slot -> Turns]
<1>1. \A u \in Turns : [u EXCEPT !.aborted = TRUE] \in Turns
  BY DEF Turns
<1>2. CASE t \in Slot
  <2> DEFINE u == [T[t] EXCEPT !.aborted = TRUE]
  <2>1. u \in Turns
    BY <1>1, <1>2
  <2>2. [T EXCEPT ![t].aborted = TRUE] = [T EXCEPT ![t] = u]
    OBVIOUS
  <2> HIDE DEF u
  <2> QED BY <1>2, <2>1, <2>2
<1>3. CASE t \notin Slot
  BY <1>3
<1> QED BY <1>2, <1>3

LEMMA AbortTurnTypes ==
  ASSUME ControlTypeOK, CallTypeOK, NEW C \in CallMaps, AbortTurn(C)
  PROVE  /\ turn' \in [Slot -> Turns]
         /\ activeTurn' \in Slot \cup {None}
         /\ state' \in States
         /\ requested' \in BOOLEAN
         /\ waiters' \in SUBSET Caller
         /\ drain' \in Drains
         /\ call' \in CallMaps
<1>1. turn' \in [Slot -> Turns]
  BY AbortedTypes DEF AbortTurn, ControlTypeOK
<1>2. call' \in CallMaps
  BY CallOperators DEF AbortTurn
<1> QED BY <1>1, <1>2 DEF AbortTurn, ControlTypeOK, CallTypeOK, Drains, States

-----------------------------------------------------------------------------
(* Every action keeps the types. *)

LEMMA EnterTypes ==
  ASSUME TypeOK, NEW e \in Entry, NEW behavior, Enter(e, behavior)
  PROVE  QueueTypeOK'
<1>1. queue' \in Queues
  BY QueueOperators DEF Enter, TypeOK, QueueTypeOK
<1>2. place' \in [Entry -> Places]
  BY MovedIsLedger DEF Enter, TypeOK, QueueTypeOK, Ledgers, Places
<1> QED BY <1>1, <1>2 DEF Enter, TypeOK, QueueTypeOK

LEMMA SnapshotsAreQueues == Snapshots \subseteq Queues
<1>1. Cardinality(Entry) \in Nat
  BY EntryAssumption, FS_CardinalityType
<1>2. SeqOf(Entry, Cardinality(Entry)) \subseteq Seq(Entry)
  BY <1>1, BoundedSequences, Zenon
<1> QED BY <1>2 DEF Snapshots, Queues

LEMMA RequestKeepsTypes ==
  ASSUME TypeOK, NEW c \in Caller, Request(c)
  PROVE  TypeOK'
<1> USE DEF TypeOK, ControlTypeOK, QueueTypeOK, CallTypeOK, CallMaps, Ledgers,
            Drains, turnVars, queueVars, contVars, writeVars
<1>1. CASE CallSend(c)
  <2>1. PICK op \in APIs \ {"sendQueuedNow"} : Await(c, op)
    BY <1>1 DEF CallSend, APIs
  <2> QED BY <2>1, InvokeTypes, AwaitWritesTypes DEF Await
<1>2. CASE QueueInput(c)
  <2>1. PICK e, behavior, op :
        e \in Entry /\ Invoke(c, op) /\ Enter(e, behavior)
    BY <1>2 DEF QueueInput, Fresh
  <2>2. QueueTypeOK' /\ budget' \in [Caller -> Nat]
    BY <2>1, EnterTypes, InvokeTypes
  <2> QED BY <1>2, <2>2 DEF QueueInput
<1>3. CASE QueueNextTurnContext(c)
  BY <1>3, InvokeTypes DEF QueueNextTurnContext
<1>4. CASE RequestContinuation(c)
  <2> DEFINE C == [call EXCEPT ![c] = [Ready EXCEPT !.op = "requestContinuation",
                                                    !.at = "continuation"]]
  <2>1. C \in CallMaps
    BY DEF Ready, CallRecords, APIs, Awaits
  <2>2. Schedule(turn, activeTurn, state, TRUE, waiters \cup {c}, drain, C)
    BY <1>4 DEF RequestContinuation
  <2> HIDE DEF C
  <2>3. /\ ControlTypeOK'
        /\ requested' \in BOOLEAN /\ waiters' \in SUBSET Caller
        /\ drain' \in Drains /\ call' \in CallMaps
    <3> waiters \cup {c} \in SUBSET Caller /\ TRUE \in BOOLEAN
      OBVIOUS
    <3> HIDE DEF Drains, CallMaps
    <3> QED BY <1>4, <2>1, <2>2, ScheduleTypes
            DEF RequestContinuation, Drains, CallMaps
  <2> QED BY <1>4, <2>3, InvokeTypes DEF RequestContinuation
<1>5. CASE RecordContext(c)
  <2> DEFINE r == [Ready EXCEPT !.op = "recordContext", !.at = "recording",
                                !.ticket = writes.issued + 1]
  <2>1. r \in CallRecords
    <3>1. writes.issued + 1 \in Nat
      OBVIOUS
    <3> HIDE DEF TypeOK
    <3> QED BY <3>1 DEF Ready, CallRecords, APIs, Awaits
  <2>2. call' = [call EXCEPT ![c] = r]
    BY <1>5 DEF RecordContext
  <2>3. writes' \in [issued : Nat, settled : Nat]
    BY <1>5 DEF RecordContext
  <2> HIDE DEF r
  <2>4. call' \in CallMaps
    BY <2>1, <2>2
  <2> QED BY <1>5, <2>3, <2>4, InvokeTypes DEF RecordContext
<1>6. CASE ClearQueue(c)
  <2>1. EmptyQueue \in Queues
    BY EmptySeq DEF EmptyQueue, Queues
  <2> QED BY <1>6, <2>1, InvokeTypes, MovedIsLedger DEF ClearQueue, Places
<1>7. CASE RemoveQueued(c)
  <2>1. PICK e \in Queued(queue) : /\ queue' = RemoveEntry(queue, e)
                                   /\ place' = Moved({e}, "removed")
    BY <1>7 DEF RemoveQueued
  <2>2. queue' \in Queues /\ place' \in Ledgers
    BY <2>1, MovedIsLedger, QueueOperators, QueuedAreEntries DEF Places
  <2>3. behind' \subseteq Entry /\ frozen' \subseteq Entry
    BY <1>7 DEF RemoveQueued
  <2> QED BY <1>7, <2>2, <2>3, InvokeTypes DEF RemoveQueued
<1>8. CASE Reorder(c)
  BY <1>8, InvokeTypes, ReorderingsAreQueues DEF Reorder
<1>9. CASE PromoteQueued(c)
  <2>1. PICK e \in ToSet(queue.followUp) : queue' = Promote(queue, e)
    BY <1>9 DEF PromoteQueued
  <2>2. queue' \in Queues
    BY <2>1, QueueOperators, QueuedAreEntries DEF Queued
  <2>3. behind' \subseteq Entry
    BY <1>9 DEF PromoteQueued
  <2> QED BY <1>9, <2>2, <2>3, InvokeTypes DEF PromoteQueued
<1>10. CASE RestoreQueue(c)
  <2>1. PICK q \in Snapshots :
          /\ StartIfHead(q, Moved(Queued(q), "queue"))
          /\ behind' = BehindOperation(q)
          /\ frozen' = IF q.paused THEN Queued(q) ELSE {}
    BY <1>10 DEF RestoreQueue
  <2>2. q \in Queues
    BY SnapshotsAreQueues
  <2>3. Moved(Queued(q), "queue") \in Ledgers
    BY MovedIsLedger DEF Places
  <2>4. Queued(q) \subseteq Entry /\ BehindOperation(q) \subseteq Entry
    BY <2>2, QueuedAreEntries DEF BehindOperation
  <2>5. ControlTypeOK' /\ queue' \in Queues /\ place' \in Ledgers
    BY <1>10, <2>1, <2>2, <2>3, StartIfHeadTypes DEF RestoreQueue
  <2> QED BY <1>10, <2>1, <2>4, <2>5, InvokeTypes DEF RestoreQueue
<1>11. CASE QueueOperation(c)
  <2>1. PICK q \in Queues, P \in Ledgers : StartIfHead(q, P)
    BY <1>11, QueueOperators, MovedIsLedger
       DEF QueueOperation, Fresh, Places
  <2>2. ControlTypeOK' /\ queue' \in Queues /\ place' \in Ledgers
    BY <1>11, <2>1, StartIfHeadTypes DEF QueueOperation
  <2> QED BY <1>11, <2>2, InvokeTypes DEF QueueOperation
<1>12. CASE Cancel(c)
  <2>1. "cancel" \in APIs
    BY DEF APIs
  <2>2. AwaitTurn(call, c, "cancel", None) \in CallMaps
    BY <2>1, AwaitTurnIsCall
  <2>3. AbortTurn(AwaitTurn(call, c, "cancel", None))
    BY <1>12 DEF Cancel
  <2> QED BY <1>12, <2>2, <2>3, InvokeTypes, AbortTurnTypes DEF Cancel
<1>13. CASE Close(c)
  <2>1. "close" \in APIs
    BY DEF APIs
  <2>2. call' \in CallMaps /\ line' \in Seq(Caller)
    BY <1>13, <2>1, AwaitTurnIsCall, AwaitWritesTypes DEF Close
  <2>3. turn' \in [Slot -> Turns] /\ state' \in States
    BY <1>13, AbortedTypes DEF Close, States
  <2> QED BY <1>13, <2>2, <2>3, InvokeTypes DEF Close
<1>14. CASE SendQueuedNow(c)
  <2>1. "sendQueuedNow" \in APIs
    BY DEF APIs
  <2>2. PICK e \in TakeableById(queue) :
          /\ queue' = RemoveEntry(queue, e)
          /\ place' = Moved({e}, "call")
          /\ frozen' = frozen \ {e}
          /\ \/ /\ AwaitWrites(c, "sendQueuedNow", e)
                /\ UNCHANGED <<state, activeTurn, turn, contVars>>
             \/ /\ AbortTurn(AwaitTurn(call, c, "sendQueuedNow", e))
                /\ UNCHANGED line
    BY <1>14 DEF SendQueuedNow
  <2>3. e \in Entry /\ e \in Executables
    BY <2>2, TakenByIdOrHead, QueuedAreEntries DEF TakeableById
  <2>4. QueueTypeOK'
    BY <1>14, <2>2, <2>3, QueueOperators, MovedIsLedger
       DEF SendQueuedNow, Places
  <2>5. AwaitTurn(call, c, "sendQueuedNow", e) \in CallMaps
    BY <2>1, <2>3, AwaitTurnIsCall
  <2>6. CASE /\ AwaitWrites(c, "sendQueuedNow", e)
             /\ UNCHANGED <<state, activeTurn, turn, contVars>>
    <3>1. call' \in CallMaps /\ line' \in Seq(Caller)
      BY <2>1, <2>3, <2>6, AwaitWritesTypes
    <3> QED BY <1>14, <2>4, <2>6, <3>1, InvokeTypes DEF SendQueuedNow
  <2>7. CASE /\ AbortTurn(AwaitTurn(call, c, "sendQueuedNow", e))
             /\ UNCHANGED line
    BY <1>14, <2>4, <2>5, <2>7, AbortTurnTypes, InvokeTypes DEF SendQueuedNow
  <2> QED BY <2>2, <2>6, <2>7
<1>15. CASE ResumeQueue(c)
  <2>1. "resumeQueue" \in APIs
    BY DEF APIs
  <2>2. call' \in CallMaps /\ line' \in Seq(Caller)
    BY <1>15, <2>1, AwaitWritesTypes DEF ResumeQueue
  <2>3. queue' \in Queues
    BY <1>15, QueueOperators DEF ResumeQueue, Resume, Queues
  <2> QED BY <1>15, <2>2, <2>3, InvokeTypes DEF ResumeQueue
<1> QED BY <1>1, <1>2, <1>3, <1>4, <1>5, <1>6, <1>7, <1>8, <1>9, <1>10, <1>11,
           <1>12, <1>13, <1>14, <1>15 DEF Request

LEMMA ProceedKeepsTypes ==
  ASSUME TypeOK, NEW c \in Caller, Proceed(c)
  PROVE  TypeOK'
<1> USE DEF TypeOK, ControlTypeOK, QueueTypeOK, CallTypeOK, CallMaps, Ledgers,
            Drains, turnVars, queueVars, contVars, writeVars, OnlyCallsChange
<1>1. ASSUME NEW op \in DOMAIN SendKind, StartIdle(c, op) PROVE TypeOK'
  <2>1. SendKind[op] \in TurnKinds
    BY <1>1 DEF SendKind, TurnKinds
  <2>2. Begin(turn, SendKind[op], {}, op = "sendWhenAvailable")
    BY <1>1 DEF StartIdle
  <2>3. ControlTypeOK'
    BY <1>1, <2>1, <2>2, BeginTypes DEF StartIdle, States
  <2> QED BY <1>1, <2>3, ResumedTypes, CallOperators DEF StartIdle
<1>2. ASSUME NEW op \in DOMAIN SendKind, QueueBusy(c, op) PROVE TypeOK'
  <2>1. PICK e, behavior : e \in Entry /\ Enter(e, behavior)
    BY <1>2 DEF QueueBusy, Fresh
  <2>2. QueueTypeOK'
    BY <2>1, EnterTypes
  <2> QED BY <1>2, <2>2, ResumedTypes, CallOperators DEF QueueBusy
<1>3. ASSUME NEW op \in DOMAIN SendKind, Refuse(c, op) PROVE TypeOK'
  <2>1. line' \in Seq(Caller)
    BY <1>3, ResumedTypes DEF Refuse
  <2>2. call' \in CallMaps
    BY <1>3, CallOperators DEF Refuse
  <2> QED BY <1>3, <2>1, <2>2 DEF Refuse
<1>4. CASE WaitForRelease(c)
  <2>1. "sendWhenAvailable" \in APIs
    BY DEF APIs
  <2>2. call' \in CallMaps
    BY <1>4, <2>1, AwaitTurnIsCall DEF WaitForRelease
  <2> QED BY <1>4, <2>2, ResumedTypes DEF WaitForRelease
<1>5. CASE LookAgain(c)
  <2>1. "sendWhenAvailable" \in APIs
    BY DEF APIs
  <2> QED BY <1>5, <2>1, AwaitWritesTypes DEF LookAgain
<1>6. CASE BeginWrite(c)
  <2>1. call[c] \in CallRecords
    OBVIOUS
  <2> DEFINE r == [call[c] EXCEPT !.at = "appending"]
  <2>2. r \in CallRecords
    BY <2>1 DEF CallRecords, Awaits
  <2>3. call' \in CallMaps
    <3>1. \/ call' = [call EXCEPT ![c] = r]
          \/ call' = Return(call, {c})
      BY <1>6 DEF BeginWrite
    <3>2. call \in [Caller -> CallRecords]
      OBVIOUS
    <3>3. [call EXCEPT ![c] = r] \in [Caller -> CallRecords]
      <4> HIDE DEF r, TypeOK
      <4> QED BY <2>2, <3>2
    <3>4. Return(call, {c}) \in [Caller -> CallRecords]
      BY <3>2, CallOperators
    <3> HIDE DEF r, TypeOK
    <3> QED BY <3>1, <3>3, <3>4
  <2>4. call[c].ticket \in Nat
    BY <2>1 DEF CallRecords
  <2>5. writes' \in [issued : Nat, settled : Nat]
    BY <1>6, <2>4 DEF BeginWrite
  <2> QED BY <1>6, <2>3, <2>5 DEF BeginWrite
<1>7. CASE EndWrite(c)
  <2>1. call[c].ticket \in Nat
    BY DEF CallRecords
  <2>2. writes' \in [issued : Nat, settled : Nat]
    BY <1>7, <2>1 DEF EndWrite
  <2> QED BY <1>7, <2>2, CallOperators DEF EndWrite
<1>8. CASE CancelReturns(c)
  BY <1>8, CallOperators DEF CancelReturns
<1>9. CASE CloseCompletes(c)
  <2>1. line' \in Seq(Caller)
    BY <1>9, ResumedTypes DEF CloseCompletes
  <2>2. queue' \in Queues /\ place' \in Ledgers
    <3>1. EmptyQueue \in Queues
      BY EmptySeq DEF EmptyQueue, Queues
    <3> QED BY <1>9, <3>1, MovedIsLedger DEF CloseCompletes, Places
  <2> QED BY <1>9, <2>1, <2>2, CallOperators DEF CloseCompletes, States
<1>10. CASE CloseFails(c)
  BY <1>10, CallOperators DEF CloseFails
<1>11. CASE SendNowProceeds(c)
  <2>1. "sendQueuedNow" \in APIs /\ call[c].entry \in Entry \cup {None}
    BY DEF APIs, CallRecords
  <2>2. call[c].entry \in Executables
    BY <1>11 DEF SendNowProceeds, CallRecords
  <2> QED BY <1>11, <2>1, <2>2, AwaitWritesTypes DEF SendNowProceeds
<1>12. CASE SendNowFails(c)
  <2>1. place' \in Ledgers
    BY <1>12, MovedIsLedger DEF SendNowFails, Places
  <2> QED BY <1>12, <2>1, CallOperators DEF SendNowFails
<1>13. CASE SendNowStarts(c)
  <2> DEFINE e == call[c].entry
  <2>1. e \in Executables
    BY <1>13 DEF SendNowStarts, Resumed, CallRecords
  <2>2. e \in Entry /\ KindOf[e] \in TurnKinds
    BY <2>1 DEF Executables, TurnKinds
  <2>3. Resume(queue) \in Queues
    BY DEF Resume, Queues
  <2>4. BeginQueued(Resume(queue), e)
    BY <1>13 DEF SendNowStarts
  <2> HIDE DEF e
  <2>5. ControlTypeOK' /\ queue' \in Queues /\ place' \in Ledgers
    BY <1>13, <2>2, <2>3, <2>4, BeginQueuedTypes DEF SendNowStarts, States
  <2>6. call' \in CallMaps /\ line' \in Seq(Caller)
    BY <1>13, ResumedTypes, CallOperators DEF SendNowStarts
  <2> QED BY <1>13, <2>5, <2>6 DEF SendNowStarts
<1>14. CASE ResumeHead(c)
  <2>1. call' \in CallMaps /\ line' \in Seq(Caller)
    BY <1>14, ResumedTypes, CallOperators DEF ResumeHead
  <2>2. ControlTypeOK' /\ QueueTypeOK'
    <3>1. CASE UNCHANGED <<turnVars, queue, place, frozen>>
      BY <1>14, <3>1 DEF ResumeHead
    <3>2. CASE /\ OperationDue(queue, state)
               /\ StartOperation(turn, queue, place)
               /\ UNCHANGED <<orphan, frozen>>
      BY <1>14, <3>2, StartOperationTypes DEF ResumeHead, OperationDue, States
    <3>3. CASE /\ \E e \in FollowUpHead(queue) :
                    /\ BeginQueued(queue, e)
                    /\ frozen' = frozen \ {e}
               /\ UNCHANGED <<activeOp, orphan>>
      <4>1. PICK e \in FollowUpHead(queue) : /\ BeginQueued(queue, e)
                                             /\ frozen' = frozen \ {e}
        BY <3>3
      <4>2. e \in Entry /\ KindOf[e] \in TurnKinds
        BY <4>1, FollowUpHeadKinds
      <4> QED BY <1>14, <3>3, <4>1, <4>2, BeginQueuedTypes
              DEF ResumeHead, States
    <3> QED BY <1>14, <3>1, <3>2, <3>3 DEF ResumeHead
  <2> QED BY <1>14, <2>1, <2>2 DEF ResumeHead
<1> QED BY <1>1, <1>2, <1>3, <1>4, <1>5, <1>6, <1>7, <1>8, <1>9, <1>10, <1>11,
           <1>12, <1>13, <1>14 DEF Proceed

\* However a turn settles, finishActiveTurn runs on a queue and a ledger.
LEMMA SettleFinishes ==
  ASSUME TypeOK, NEW t \in Slot, Settle(t)
  PROVE  \E q \in Queues, P \in Ledgers, s \in States,
            at \in {"released", "failed"} : FinishActiveTurn(t, q, P, s, at)
<1>1. PICK r \in Results :
        LET pauses == r \notin {"completed", "handled"} /\ Queued(queue) # {}
        IN  FinishActiveTurn(t,
              IF pauses THEN Pause(queue) ELSE queue,
              Moved(turn[t].holds,
                    IF r = "handled" THEN "journal" ELSE "lost"),
              IF r = "persistence" THEN "recovery_required" ELSE state,
              IF Rejects(t, r) THEN "failed" ELSE "released")
  BY DEF Settle
<1>2. queue \in Queues /\ Pause(queue) \in Queues
  BY DEF Pause, Queues, TypeOK, QueueTypeOK
<1>3. /\ Moved(turn[t].holds, "journal") \in Ledgers
      /\ Moved(turn[t].holds, "lost") \in Ledgers
  BY MovedIsLedger DEF Places, TypeOK, QueueTypeOK, Ledgers
<1>4. state \in States /\ "recovery_required" \in States
  BY DEF States, TypeOK, ControlTypeOK
<1> QED BY <1>1, <1>2, <1>3, <1>4

LEMMA AdvanceKeepsTypes ==
  ASSUME TypeOK, NEW t \in Slot, Advance(t)
  PROVE  TypeOK'
<1> USE DEF TypeOK, ControlTypeOK, QueueTypeOK, CallTypeOK, CallMaps, Ledgers,
            Drains, turnVars, queueVars, contVars, writeVars, ControlUnchanged
<1>1. \A u \in Turns, es \in SUBSET Entry, p \in Phases :
        /\ [u EXCEPT !.holds = es] \in Turns
        /\ [u EXCEPT !.phase = p] \in Turns
        /\ [u EXCEPT !.phase = p, !.holds = es] \in Turns
  BY DEF Turns
<1>2. turn[t] \in Turns
  OBVIOUS
<1>3. CASE Execute(t)
  <2>1. turn' = [turn EXCEPT ![t] =
                   [turn[t] EXCEPT !.phase = "executing", !.holds = {}]]
    BY <1>3 DEF Execute
  <2>2. turn' \in [Slot -> Turns]
    BY <1>1, <1>2, <2>1 DEF Phases
  <2>3. place' \in Ledgers
    BY <1>3, MovedIsLedger DEF Execute, Places
  <2> QED BY <1>3, <2>2, <2>3 DEF Execute
<1>4. CASE TakeSteering(t)
  <2>1. TakenSteering(queue) \subseteq Entry
    BY TakenFromQueue, QueuedAreEntries
  <2>2. turn' = [turn EXCEPT ![t] =
                   [turn[t] EXCEPT !.holds = TakenSteering(queue)]]
    BY <1>4 DEF TakeSteering
  <2>3. turn' \in [Slot -> Turns]
    <3>1. [turn[t] EXCEPT !.holds = TakenSteering(queue)] \in Turns
      <4> HIDE DEF TypeOK
      <4> QED BY <1>2, <2>1 DEF Turns
    <3>2. turn \in [Slot -> Turns]
      OBVIOUS
    <3> HIDE DEF TypeOK
    <3> QED BY <2>2, <3>1, <3>2, UpdatedTurns
  <2>4. queue' \in Queues /\ place' \in Ledgers
    BY <1>4, TakenFromQueue, MovedIsLedger DEF TakeSteering, Places
  <2> QED BY <1>4, <2>3, <2>4 DEF TakeSteering
<1>5. CASE Deliver(t)
  <2>1. turn' = [turn EXCEPT ![t] = [turn[t] EXCEPT !.holds = {}]]
    BY <1>5 DEF Deliver
  <2>2. turn' \in [Slot -> Turns]
    <3>1. [turn[t] EXCEPT !.holds = {}] \in Turns
      <4> HIDE DEF TypeOK
      <4> QED BY <1>2 DEF Turns
    <3> QED BY <2>1, <3>1, UpdatedTurns
  <2>3. place' \in Ledgers
    BY <1>5 DEF Deliver, Places
  <2> QED BY <1>5, <2>2, <2>3 DEF Deliver
<1>6. CASE NaturalStop(t)
  <2>1. turn' = [turn EXCEPT ![t] = [turn[t] EXCEPT !.phase = "stopping"]]
    BY <1>6 DEF NaturalStop
  <2>2. turn' \in [Slot -> Turns]
    BY <1>1, <1>2, <2>1 DEF Phases
  <2> QED BY <1>6, <2>2 DEF NaturalStop
<1>7. CASE TakeFollowUps(t)
  <2>1. PICK q \in PolicyQueues :
          LET P == Moved(Queued(q), "queue") IN
          /\ queue' = AfterTakingFollowUps(q)
          /\ place' = [e \in Entry |->
                        IF e \in TakenFollowUps(q) THEN "turn" ELSE P[e]]
          /\ \/ turn' = [turn EXCEPT ![t].phase = "executing",
                                     ![t].holds = TakenFollowUps(q)]
             \/ turn' = [turn EXCEPT ![t].phase = "finalizing"]
    BY <1>7 DEF TakeFollowUps
  <2>2. q \in Queues
    <3>1. queue \in Queues
      OBVIOUS
    <3>2. \A e \in Entry : EnqueueEntry(queue, "followUp", e) \in Queues
      BY <3>1, QueueOperators
    <3> HIDE DEF TypeOK
    <3> QED BY <2>1, <3>1, <3>2 DEF PolicyQueues, Fresh
  <2>3. TakenFollowUps(q) \subseteq Entry /\ AfterTakingFollowUps(q) \in Queues
    BY <2>2, TakenFromQueue, QueuedAreEntries
  <2>4. Moved(Queued(q), "queue") \in Ledgers
    BY MovedIsLedger DEF Places
  <2>5. queue' \in Queues /\ place' \in Ledgers
    BY <2>1, <2>3, <2>4 DEF Places
  <2>6. \/ turn' = [turn EXCEPT ![t] =
              [turn[t] EXCEPT !.phase = "executing",
                              !.holds = TakenFollowUps(q)]]
        \/ turn' = [turn EXCEPT ![t] =
              [turn[t] EXCEPT !.phase = "finalizing"]]
    BY <2>1
  <2>7. turn' \in [Slot -> Turns]
    <3>1. /\ [turn[t] EXCEPT !.phase = "executing",
                             !.holds = TakenFollowUps(q)] \in Turns
          /\ [turn[t] EXCEPT !.phase = "finalizing"] \in Turns
      BY <1>1, <1>2, <2>3 DEF Phases
    <3> QED BY <2>6, <3>1, UpdatedTurns
  <2> QED BY <1>7, <2>5, <2>7 DEF TakeFollowUps
<1>8. CASE Settle(t)
  <2>1. PICK r \in Results :
          LET pauses == r \notin {"completed", "handled"} /\ Queued(queue) # {}
          IN  frozen' = IF pauses THEN frozen \cup Queued(queue) ELSE frozen
    BY <1>8 DEF Settle
  <2>2. PICK q \in Queues, P \in Ledgers, s \in States,
             at \in {"released", "failed"} : FinishActiveTurn(t, q, P, s, at)
    BY <1>8, SettleFinishes
  <2>3. frozen' \subseteq Entry
    BY <2>1, QueuedAreEntries
  <2>4. orphan' \in {"none", "steering", "followUp"}
    BY <1>8 DEF Settle
  <2>5. behind' \subseteq Entry
    BY <1>8 DEF Settle
  <2> HIDE DEF Drains, CallMaps, Ledgers
  <2>6. /\ ControlTypeOK' /\ QueueTypeOK'
        /\ requested' \in BOOLEAN /\ waiters' \in SUBSET Caller
        /\ drain' \in Drains /\ call' \in CallMaps
    BY <2>2, <2>3, <2>4, <2>5, FinishTypes DEF Ledgers
  <2> QED BY <1>8, <2>6 DEF Settle, Drains, CallMaps
<1>9. CASE SettleOperation(t)
  <2>1. FinishActiveTurn(t, queue, Moved(turn[t].holds, "journal"), state,
                         "released")
    BY <1>9 DEF SettleOperation
  <2>2. Moved(turn[t].holds, "journal") \in Ledgers
    BY MovedIsLedger DEF Places
  <2>3. /\ turn' \in [Slot -> Turns]
        /\ activeTurn' \in Slot \cup {None}
        /\ state' \in States
        /\ activeOp' \in Entry \cup {None}
        /\ queue' \in Queues
        /\ place' \in Ledgers
        /\ requested' \in BOOLEAN /\ waiters' \in SUBSET Caller
        /\ drain' \in Drains /\ call' \in CallMaps
    <3>1. queue \in Queues /\ state \in States /\ TypeOK
      OBVIOUS
    <3> HIDE DEF TypeOK, Drains, CallMaps, Ledgers
    <3> QED BY <2>1, <2>2, <3>1, FinishTypes
  <2> QED BY <1>9, <2>3 DEF SettleOperation
<1> QED BY <1>3, <1>4, <1>5, <1>6, <1>7, <1>8, <1>9 DEF Advance

LEMMA ScheduledKeepsTypes ==
  ASSUME TypeOK, Scheduled
  PROVE  TypeOK'
<1> USE DEF TypeOK, ControlTypeOK, QueueTypeOK, CallTypeOK, CallMaps, Ledgers,
            Drains, turnVars, queueVars, contVars, writeVars
<1>1. CASE DrainResumes
  <2>1. call' \in CallMaps
    BY <1>1, CallOperators DEF DrainResumes
  <2>2. CASE StartContinuation(turn, waiters)
    <3>1. /\ turn' \in [Slot -> Turns]
          /\ activeTurn' \in Slot
          /\ state' = "running"
          /\ requested' \in BOOLEAN
          /\ waiters' \in SUBSET Caller
          /\ drain' \in Drains
      <4>1. turn \in [Slot -> Turns] /\ waiters \in SUBSET Caller
        OBVIOUS
      <4> HIDE DEF TypeOK, Drains
      <4> QED BY <2>2, <4>1, StartContinuationTypes
    <3> QED BY <1>1, <2>1, <3>1 DEF DrainResumes, States
  <2>3. CASE /\ drain' = [DrainOff EXCEPT !.at = "ending"]
             /\ UNCHANGED <<state, activeTurn, turn, requested, waiters>>
    BY <1>1, <2>1, <2>3 DEF DrainResumes, DrainOff
  <2> QED BY <1>1, <2>2, <2>3 DEF DrainResumes
<1>2. CASE DrainEnds
  <2>1. Schedule(turn, activeTurn, state, requested, waiters, DrainOff, call)
    BY <1>2 DEF DrainEnds
  <2>2. DrainOff \in Drains
    BY DEF DrainOff
  <2>3. /\ turn' \in [Slot -> Turns]
        /\ activeTurn' \in Slot \cup {None}
        /\ state' \in States
        /\ requested' \in BOOLEAN /\ waiters' \in SUBSET Caller
        /\ drain' \in Drains /\ call' \in CallMaps
    <3>1. /\ turn \in [Slot -> Turns] /\ activeTurn \in Slot \cup {None}
          /\ state \in States /\ requested \in BOOLEAN
          /\ waiters \in SUBSET Caller /\ call \in CallMaps
      OBVIOUS
    <3> HIDE DEF TypeOK, Drains, CallMaps
    <3> QED BY <2>1, <2>2, <3>1, ScheduleTypes
  <2> QED BY <1>2, <2>3 DEF DrainEnds
<1>3. CASE AfterOperation
  <2>1. CASE UNCHANGED <<state, activeTurn, activeOp, turn, queue, place,
                         contVars, call>>
    BY <1>3, <2>1 DEF AfterOperation
  <2>2. CASE /\ OperationDue(queue, state)
             /\ StartOperation(turn, queue, place)
             /\ UNCHANGED <<contVars, call>>
    BY <1>3, <2>2, StartOperationTypes DEF AfterOperation, OperationDue, States
  <2>3. CASE /\ \E e \in FollowUpHead(queue) : BeginQueued(queue, e)
             /\ UNCHANGED <<activeOp, contVars, call>>
    <3>1. PICK e \in FollowUpHead(queue) : BeginQueued(queue, e)
      BY <2>3
    <3>2. e \in Entry /\ KindOf[e] \in TurnKinds
      BY FollowUpHeadKinds
    <3> QED BY <1>3, <2>3, <3>1, <3>2, BeginQueuedTypes
            DEF AfterOperation, States
  <2>4. CASE /\ Schedule(turn, activeTurn, state, requested, waiters, drain,
                         call)
             /\ UNCHANGED <<activeOp, queue, place>>
    <3>1. /\ turn' \in [Slot -> Turns]
          /\ activeTurn' \in Slot \cup {None}
          /\ state' \in States
          /\ requested' \in BOOLEAN /\ waiters' \in SUBSET Caller
          /\ drain' \in Drains /\ call' \in CallMaps
      <4>1. /\ turn \in [Slot -> Turns] /\ activeTurn \in Slot \cup {None}
            /\ state \in States /\ requested \in BOOLEAN
            /\ waiters \in SUBSET Caller /\ call \in CallMaps
            /\ drain \in Drains
        OBVIOUS
      <4> HIDE DEF TypeOK, Drains, CallMaps
      <4> QED BY <2>4, <4>1, ScheduleTypes
    <3> QED BY <1>3, <2>4, <3>1 DEF AfterOperation
  <2> QED BY <1>3, <2>1, <2>2, <2>3, <2>4 DEF AfterOperation
<1> QED BY <1>1, <1>2, <1>3 DEF Scheduled

LEMMA InitTypes == Init => TypeOK
<1> SUFFICES ASSUME Init PROVE TypeOK
  OBVIOUS
<1>1. EmptyQueue \in Queues /\ <<>> \in Seq(Caller)
  BY EmptySeq DEF EmptyQueue, Queues
<1>2. FreeSlot \in Turns
  BY DEF FreeSlot, Turns, TurnKinds, Phases
<1>3. ControlTypeOK
  BY <1>2 DEF Init, ControlTypeOK, States
<1>4. QueueTypeOK
  BY <1>1 DEF Init, QueueTypeOK, Places
<1>5. CallTypeOK
  BY <1>1, ReadyIsCall, MaxCallsAssumption DEF Init, CallTypeOK, DrainOff
<1> QED BY <1>3, <1>4, <1>5 DEF TypeOK

LEMMA NextKeepsTypes == TypeOK /\ [Next]_vars => TypeOK'
<1> SUFFICES ASSUME TypeOK, [Next]_vars PROVE TypeOK'
  OBVIOUS
<1>1. ASSUME NEW c \in Caller, AbandonWaiting(c) PROVE TypeOK'
  <2>1. call' \in CallMaps /\ line' \in Seq(Caller)
    BY <1>1, CallOperators, RemoveFirstIsSeq
       DEF AbandonWaiting, TypeOK, CallTypeOK, CallMaps
  <2> QED BY <1>1, <2>1
          DEF AbandonWaiting, OnlyCallsChange, TypeOK, ControlTypeOK,
              QueueTypeOK, CallTypeOK, CallMaps, turnVars, queueVars, contVars
<1>2. ASSUME NEW t \in Slot, SignalAbort(t) PROVE TypeOK'
  <2>1. \A u \in Turns : [u EXCEPT !.aborted = TRUE, !.signal = FALSE] \in Turns
    BY DEF Turns
  <2>2. turn' = [turn EXCEPT ![t] =
                   [turn[t] EXCEPT !.aborted = TRUE, !.signal = FALSE]]
    BY <1>2 DEF SignalAbort, TypeOK, ControlTypeOK
  <2>3. turn' \in [Slot -> Turns]
    BY <2>1, <2>2 DEF TypeOK, ControlTypeOK
  <2> QED BY <1>2, <2>3
          DEF SignalAbort, TypeOK, ControlTypeOK, QueueTypeOK, CallTypeOK,
              States, queueVars, contVars, writeVars
<1>3. CASE OrphanTakes
  <2>1. queue' \in Queues /\ place' \in [Entry -> Places]
    BY <1>3, TakenFromQueue, MovedIsLedger
       DEF OrphanTakes, TypeOK, QueueTypeOK, Ledgers, Places
  <2> QED BY <1>3, <2>1
          DEF OrphanTakes, ControlUnchanged, TypeOK, ControlTypeOK,
              QueueTypeOK, CallTypeOK, contVars, writeVars
<1>4. CASE UNCHANGED vars
  BY <1>4 DEF vars, turnVars, queueVars, contVars, writeVars, TypeOK,
              ControlTypeOK, QueueTypeOK, CallTypeOK
<1> QED BY <1>1, <1>2, <1>3, <1>4, RequestKeepsTypes, ProceedKeepsTypes,
           AdvanceKeepsTypes, ScheduledKeepsTypes DEF Next

\* The session's variables keep their types; in particular, an entry that a
\* suspended sendQueuedNow holds can open a turn when the call resumes.
THEOREM TypeCorrect == Spec => []TypeOK
BY InitTypes, NextKeepsTypes, PTL DEF Spec

-----------------------------------------------------------------------------
(* Without sendQueuedNow, the live turn is the active turn.                *)
(*                                                                         *)
(* AtMostOneTurn is not inductive: a step that starts a turn looks at      *)
(* state and at nothing else.  What makes it hold is that an idle session  *)
(* has no active turn, that the active turn is the only live one, and that *)
(* the one call that starts a turn without looking at state is not used.   *)

AllFree(T) == \A u \in Slot : T[u] = FreeSlot

Sole(T, a, s) ==
  /\ \A u \in Slot : T[u].phase # "free" <=> u = a
  /\ \A u \in Slot : T[u].phase = "free" => T[u] = FreeSlot
  /\ s \in {"idle", "recovery_required"} => a = None

SoleTurn == Sole(turn, activeTurn, state)

NoSendNow(C) == \A c \in Caller : C[c].op # "sendQueuedNow"

SoleInv == TypeOK /\ SoleTurn /\ NoSendNow(call)

LEMMA NoneIsNoSlot == None \notin Slot /\ None \notin Entry
BY NoneAssumption

LEMMA SoleAllFree ==
  ASSUME NEW T, NEW s, Sole(T, None, s)
  PROVE  AllFree(T)
BY NoneIsNoSlot DEF Sole, AllFree

LEMMA AllFreeSole ==
  ASSUME NEW T, NEW s, AllFree(T)
  PROVE  Sole(T, None, s)
BY NoneIsNoSlot DEF Sole, AllFree, FreeSlot

LEMMA BeginSole ==
  ASSUME NEW T \in [Slot -> Turns], AllFree(T), NEW kind, NEW es, NEW signal,
         Begin(T, kind, es, signal)
  PROVE  SoleTurn'
<1>1. PICK t \in Slot :
        /\ turn' = [T EXCEPT ![t] = [kind |-> kind, phase |-> "admission",
                                     aborted |-> FALSE, signal |-> signal,
                                     holds |-> es]]
        /\ activeTurn' = t
        /\ state' = "running"
  BY DEF Begin
<1>2. turn'[t].phase = "admission"
  BY <1>1
<1>3. \A u \in Slot \ {t} : turn'[u] = FreeSlot /\ turn'[u].phase = "free"
  BY <1>1 DEF AllFree, FreeSlot
<1> QED BY <1>1, <1>2, <1>3 DEF SoleTurn, Sole

LEMMA StartIfHeadSole ==
  ASSUME TypeOK, SoleTurn, NEW q, NEW P, StartIfHead(q, P)
  PROVE  SoleTurn'
<1>1. turn \in [Slot -> Turns]
  BY DEF TypeOK, ControlTypeOK
<1>2. CASE OperationDue(q, state)
  <2>1. AllFree(turn)
    BY <1>2, SoleAllFree DEF OperationDue, SoleTurn, Sole
  <2> QED BY <1>1, <1>2, <2>1, BeginSole DEF StartIfHead, StartOperation
<1>3. CASE ~OperationDue(q, state)
  BY <1>3 DEF StartIfHead, SoleTurn
<1> QED BY <1>2, <1>3

LEMMA ScheduleSole ==
  ASSUME NEW T \in [Slot -> Turns], NEW a, NEW s, NEW asked, NEW ws, NEW D,
         NEW C, Sole(T, a, s), Schedule(T, a, s, asked, ws, D, C)
  PROVE  SoleTurn'
<1>1. CASE s = "idle" /\ StartContinuation(T, ws)
  <2>1. AllFree(T)
    BY <1>1, SoleAllFree DEF Sole
  <2> QED BY <1>1, <2>1, BeginSole DEF StartContinuation
<1>2. CASE turn' = T /\ activeTurn' = a /\ state' = s
  BY <1>2 DEF SoleTurn
<1> QED BY <1>1, <1>2 DEF Schedule

LEMMA FinishSole ==
  ASSUME TypeOK, SoleTurn, NEW t \in Slot, turn[t].phase # "free",
         NEW q, NEW P, NEW s, NEW at, FinishActiveTurn(t, q, P, s, at)
  PROVE  SoleTurn'
<1> DEFINE T == [turn EXCEPT ![t] = FreeSlot]
           next == StateAfterTurn(s)
<1>1. T \in [Slot -> Turns]
  BY UpdatedTurns
     DEF TypeOK, ControlTypeOK, FreeSlot, Turns, TurnKinds, Phases
<1>2. AllFree(T)
  BY DEF AllFree, SoleTurn, Sole, TypeOK, ControlTypeOK
<1>3. Sole(T, None, next)
  BY <1>2, AllFreeSole
<1>4. \/ StartOperation(T, q, P)
      \/ turn' = T /\ activeTurn' = None /\ state' = next
      \/ \E ws, D, C : Schedule(T, None, next, requested, ws, D, C)
  BY Zenon DEF FinishActiveTurn
<1> HIDE DEF T, next
<1>5. CASE StartOperation(T, q, P)
  BY <1>1, <1>2, <1>5, BeginSole DEF StartOperation
<1>6. CASE turn' = T /\ activeTurn' = None /\ state' = next
  BY <1>3, <1>6 DEF SoleTurn
<1>7. CASE \E ws, D, C : Schedule(T, None, next, requested, ws, D, C)
  BY <1>1, <1>3, <1>7, ScheduleSole
<1> QED BY <1>4, <1>5, <1>6, <1>7

\* Aborting the active turn, or changing a live turn without ending it.
LEMMA LiveUpdateSole ==
  ASSUME TypeOK, SoleTurn, NEW t \in Slot, turn[t].phase # "free",
         NEW u, u.phase # "free", turn' = [turn EXCEPT ![t] = u],
         activeTurn' = activeTurn,
         state' \notin {"idle", "recovery_required"} \/ state' = state
  PROVE  SoleTurn'
<1>1. turn'[t] = u /\ \A v \in Slot \ {t} : turn'[v] = turn[v]
  BY DEF TypeOK, ControlTypeOK
<1>2. \A v \in Slot : /\ turn'[v].phase # "free" <=> turn[v].phase # "free"
                      /\ turn'[v].phase = "free" => turn'[v] = turn[v]
  BY <1>1
<1>3. \A v \in Slot : /\ turn[v].phase # "free" <=> v = activeTurn
                      /\ turn[v].phase = "free" => turn[v] = FreeSlot
  BY DEF SoleTurn, Sole
<1>4. state' \in {"idle", "recovery_required"} => activeTurn' = None
  BY DEF SoleTurn, Sole
<1>5. \A v \in Slot : /\ turn'[v].phase # "free" <=> v = activeTurn'
                      /\ turn'[v].phase = "free" => turn'[v] = FreeSlot
  BY <1>2, <1>3
<1> QED BY <1>4, <1>5 DEF SoleTurn, Sole

LEMMA AbortSole ==
  ASSUME TypeOK, SoleTurn, turn' = [turn EXCEPT ![activeTurn].aborted = TRUE],
         activeTurn' = activeTurn, state' \in {"cancelling", "closing"}
  PROVE  SoleTurn'
<1>1. CASE activeTurn = None
  <2>1. turn' = turn
    BY <1>1, NoneIsNoSlot DEF TypeOK, ControlTypeOK
  <2> QED BY <2>1 DEF SoleTurn, Sole
<1>2. CASE activeTurn # None
  <2> DEFINE u == [turn[activeTurn] EXCEPT !.aborted = TRUE]
  <2>1. activeTurn \in Slot /\ turn[activeTurn] \in Turns
    BY <1>2 DEF TypeOK, ControlTypeOK
  <2>2. turn[activeTurn].phase # "free"
    BY <2>1 DEF SoleTurn, Sole
  <2>3. u.phase # "free"
    BY <2>1, <2>2 DEF Turns
  <2>4. turn' = [turn EXCEPT ![activeTurn] = u]
    BY <2>1
  <2> HIDE DEF u
  <2> QED BY <2>1, <2>2, <2>3, <2>4, LiveUpdateSole
<1> QED BY <1>1, <1>2

\* The operators on calls do not make anyone call sendQueuedNow.
LEMMA QuietCalls ==
  ASSUME NEW C \in CallMaps, NoSendNow(C), NEW t, NEW cs
  PROVE  /\ NoSendNow(Return(C, cs))
         /\ \A at : NoSendNow(Released(C, t, at))
         /\ \A c, op, e :
              c \in Caller /\ op # "sendQueuedNow" => NoSendNow(AwaitTurn(C, c, op, e))
<1>1. NoSendNow(Return(C, cs))
  BY DEF NoSendNow, Return, Ready
<1>2. \A at : NoSendNow(Released(C, t, at))
  <2> SUFFICES ASSUME NEW at, NEW c \in Caller
               PROVE  [C[c] EXCEPT !.at = at, !.turn = None].op # "sendQueuedNow"
    BY DEF NoSendNow, Released
  <2>1. C[c] \in CallRecords /\ C[c].op # "sendQueuedNow"
    BY DEF CallMaps, NoSendNow
  <2> QED BY <2>1 DEF CallRecords
<1>3. ASSUME NEW c \in Caller, NEW op, NEW e, op # "sendQueuedNow"
      PROVE  NoSendNow(AwaitTurn(C, c, op, e))
  BY <1>3 DEF NoSendNow, AwaitTurn, CallMaps
<1> QED BY <1>1, <1>2, <1>3

LEMMA QuietAwait ==
  ASSUME CallTypeOK, NoSendNow(call), NEW c \in Caller, NEW op, NEW e,
         op # "sendQueuedNow", AwaitWrites(c, op, e)
  PROVE  NoSendNow(call)'
BY DEF AwaitWrites, NoSendNow, CallTypeOK

LEMMA QuietSchedule ==
  ASSUME NEW T, NEW a, NEW s, NEW asked, NEW ws, NEW D,
         NEW C \in CallMaps, NoSendNow(C),
         Schedule(T, a, s, asked, ws, D, C)
  PROVE  NoSendNow(call)'
<1>1. call' = C \/ call' = Return(C, ws)
  BY DEF Schedule
<1>2. NoSendNow(Return(C, ws))
  BY QuietCalls
<1> QED BY <1>1, <1>2 DEF NoSendNow

LEMMA QuietFinish ==
  ASSUME TypeOK, NoSendNow(call), NEW t, NEW q, NEW P, NEW s,
         NEW at \in {"released", "failed"}, FinishActiveTurn(t, q, P, s, at)
  PROVE  NoSendNow(call)'
<1> DEFINE C == Released(call, t, at)
<1>1. C \in CallMaps /\ NoSendNow(C)
  BY CallOperators, QuietCalls DEF TypeOK, CallTypeOK, CallMaps
<1>2. \/ call' = C
      \/ \E T, next, D : Schedule(T, None, next, requested, waiters, D, C)
  BY Zenon DEF FinishActiveTurn
<1> HIDE DEF C
<1>3. CASE call' = C
  BY <1>1, <1>3 DEF NoSendNow
<1>4. CASE \E T, next, D : Schedule(T, None, next, requested, waiters, D, C)
  BY <1>1, <1>4, QuietSchedule
<1> QED BY <1>2, <1>3, <1>4

LEMMA RequestKeepsSole ==
  ASSUME "sendQueuedNow" \notin Calls, SoleInv, NEW c \in Caller, Request(c)
  PROVE  SoleTurn' /\ NoSendNow(call)'
<1> USE DEF SoleInv
<1>1. TypeOK /\ CallTypeOK /\ call \in CallMaps /\ NoSendNow(call) /\ SoleTurn
  BY DEF TypeOK, CallTypeOK, CallMaps
<1> USE DEF turnVars, queueVars, contVars, writeVars
<1>2. CASE CallSend(c)
  <2>1. PICK op : op # "sendQueuedNow" /\ Await(c, op)
    BY <1>2 DEF CallSend
  <2>2. NoSendNow(call)'
    BY <1>1, <2>1, QuietAwait DEF Await
  <2> QED BY <1>1, <2>1, <2>2 DEF Await, SoleTurn
<1>3. CASE \/ QueueInput(c) \/ QueueNextTurnContext(c) \/ ClearQueue(c)
           \/ RemoveQueued(c) \/ Reorder(c) \/ PromoteQueued(c)
  BY <1>1, <1>3 DEF QueueInput, QueueNextTurnContext, ClearQueue, RemoveQueued,
                    Reorder, PromoteQueued, SoleTurn, NoSendNow
<1>4. CASE RequestContinuation(c)
  <2> DEFINE C == [call EXCEPT ![c] = [Ready EXCEPT !.op = "requestContinuation",
                                                    !.at = "continuation"]]
  <2>1. C \in CallMaps
    BY <1>1 DEF CallMaps, Ready, CallRecords, APIs, Awaits
  <2>2. NoSendNow(C)
    BY <1>1 DEF NoSendNow, Ready, CallMaps
  <2>3. Schedule(turn, activeTurn, state, TRUE, waiters \cup {c}, drain, C)
    BY <1>4 DEF RequestContinuation
  <2> HIDE DEF C
  <2>4. turn \in [Slot -> Turns]
    BY <1>1 DEF TypeOK, ControlTypeOK
  <2> QED BY <1>1, <2>1, <2>2, <2>3, <2>4, ScheduleSole, QuietSchedule
          DEF SoleTurn
<1>5. CASE RecordContext(c)
  <2> DEFINE r == [Ready EXCEPT !.op = "recordContext", !.at = "recording",
                                !.ticket = writes.issued + 1]
  <2>1. r.op # "sendQueuedNow" /\ call' = [call EXCEPT ![c] = r]
    BY <1>5 DEF RecordContext, Ready
  <2> HIDE DEF r
  <2>2. NoSendNow(call)'
    BY <1>1, <2>1 DEF NoSendNow, CallMaps
  <2> QED BY <1>1, <1>5, <2>2 DEF RecordContext, SoleTurn
<1>6. CASE RestoreQueue(c)
  <2>1. SoleTurn'
    BY <1>1, <1>6, StartIfHeadSole DEF RestoreQueue
  <2> QED BY <1>1, <1>6, <2>1 DEF RestoreQueue, NoSendNow
<1>7. CASE QueueOperation(c)
  <2>1. SoleTurn'
    BY <1>1, <1>7, StartIfHeadSole DEF QueueOperation
  <2> QED BY <1>1, <1>7, <2>1 DEF QueueOperation, NoSendNow
<1>8. CASE Cancel(c)
  <2> DEFINE C == AwaitTurn(call, c, "cancel", None)
  <2>1. C \in CallMaps
    BY <1>1, AwaitTurnIsCall DEF APIs, TypeOK, ControlTypeOK
  <2>2. NoSendNow(C)
    BY <1>1, QuietCalls
  <2>3. AbortTurn(C)
    BY <1>8 DEF Cancel
  <2> HIDE DEF C
  <2>4. NoSendNow(call)'
    <3>1. NoSendNow(Return(C, waiters))
      BY <2>1, <2>2, QuietCalls
    <3> QED BY <2>3, <3>1 DEF AbortTurn, NoSendNow
  <2> QED BY <1>1, <2>3, <2>4, AbortSole DEF AbortTurn
<1>9. CASE Close(c)
  <2>1. CASE activeTurn = None
    <3>1. NoSendNow(call)'
      BY <1>1, <1>9, <2>1, QuietAwait DEF Close
    <3> QED BY <1>1, <1>9, <2>1, <3>1 DEF Close, SoleTurn
  <2>2. CASE activeTurn # None
    <3>1. NoSendNow(call)'
      <4>1. NoSendNow(AwaitTurn(call, c, "close", None))
        BY <1>1, QuietCalls
      <4> QED BY <1>9, <2>2, <4>1 DEF Close, NoSendNow
    <3> QED BY <1>1, <1>9, <2>2, <3>1, AbortSole DEF Close
  <2> QED BY <2>1, <2>2
<1>10. CASE SendQueuedNow(c)
  BY <1>10 DEF SendQueuedNow, Invoke
<1>11. CASE ResumeQueue(c)
  <2>1. NoSendNow(call)'
    <3>1. CASE AwaitWrites(c, "resumeQueue", None)
      BY <1>1, <3>1, QuietAwait
    <3>2. CASE UNCHANGED <<call, line>>
      BY <1>1, <3>2 DEF NoSendNow
    <3> QED BY <1>11, <3>1, <3>2 DEF ResumeQueue
  <2> QED BY <1>1, <1>11, <2>1 DEF ResumeQueue, SoleTurn
<1> QED BY <1>2, <1>3, <1>4, <1>5, <1>6, <1>7, <1>8, <1>9, <1>10, <1>11
        DEF Request

LEMMA ProceedKeepsSole ==
  ASSUME SoleInv, NEW c \in Caller, Proceed(c)
  PROVE  SoleTurn' /\ NoSendNow(call)'
<1>1. TypeOK /\ CallTypeOK /\ call \in CallMaps /\ NoSendNow(call) /\ SoleTurn
      /\ turn \in [Slot -> Turns]
  BY DEF SoleInv, TypeOK, CallTypeOK, ControlTypeOK, CallMaps
<1>2. \A cs : NoSendNow(Return(call, cs))
  BY <1>1, QuietCalls
<1>3. state = "idle" => AllFree(turn)
  BY <1>1, SoleAllFree DEF SoleTurn, Sole
<1>4. ASSUME NEW op, StartIdle(c, op) PROVE SoleTurn' /\ NoSendNow(call)'
  <2>1. SoleTurn'
    BY <1>1, <1>3, <1>4, BeginSole DEF StartIdle
  <2> QED BY <1>2, <1>4, <2>1 DEF StartIdle, NoSendNow
<1>5. ASSUME NEW op, QueueBusy(c, op) \/ Refuse(c, op)
      PROVE  SoleTurn' /\ NoSendNow(call)'
  BY <1>1, <1>2, <1>5 DEF QueueBusy, Refuse, OnlyCallsChange, turnVars,
                          SoleTurn, NoSendNow
<1>6. CASE WaitForRelease(c)
  <2>1. NoSendNow(AwaitTurn(call, c, "sendWhenAvailable", None))
    BY <1>1, QuietCalls
  <2> QED BY <1>1, <1>6, <2>1 DEF WaitForRelease, OnlyCallsChange, turnVars,
                                  SoleTurn, NoSendNow
<1>7. CASE LookAgain(c)
  <2>1. NoSendNow(call)'
    BY <1>1, <1>7, QuietAwait DEF LookAgain
  <2> QED BY <1>1, <1>7, <2>1 DEF LookAgain, OnlyCallsChange, turnVars, SoleTurn
<1>8. CASE BeginWrite(c)
  <2> DEFINE r == [call[c] EXCEPT !.at = "appending"]
  <2>1. r.op # "sendQueuedNow"
    <3>1. call[c] \in CallRecords /\ call[c].op # "sendQueuedNow"
      BY <1>1 DEF CallMaps, NoSendNow
    <3> QED BY <3>1 DEF CallRecords
  <2>2. call' = [call EXCEPT ![c] = r] \/ call' = Return(call, {c})
    BY <1>8 DEF BeginWrite
  <2> HIDE DEF r
  <2>3. NoSendNow(call)'
    BY <1>1, <1>2, <2>1, <2>2 DEF NoSendNow, CallMaps
  <2> QED BY <1>1, <1>8, <2>3 DEF BeginWrite, turnVars, SoleTurn
<1>9. CASE \/ EndWrite(c) \/ CancelReturns(c) \/ CloseFails(c)
  BY <1>1, <1>2, <1>9 DEF EndWrite, CancelReturns, CloseFails, OnlyCallsChange,
                          turnVars, SoleTurn, NoSendNow
<1>10. CASE CloseCompletes(c)
  <2>1. SoleTurn'
    BY <1>1, <1>10 DEF CloseCompletes, SoleTurn, Sole
  <2> QED BY <1>2, <1>10, <2>1 DEF CloseCompletes, NoSendNow
<1>11. CASE SendNowProceeds(c) \/ SendNowFails(c) \/ SendNowStarts(c)
  BY <1>1, <1>11 DEF SendNowProceeds, SendNowFails, SendNowStarts, Resumed,
                     NoSendNow
<1>12. CASE ResumeHead(c)
  <2>1. SoleTurn'
    <3>1. CASE UNCHANGED <<turnVars, queue, place, frozen>>
      BY <1>1, <3>1 DEF turnVars, SoleTurn
    <3>2. CASE OperationDue(queue, state) /\ StartOperation(turn, queue, place)
      BY <1>1, <1>3, <3>2, BeginSole DEF OperationDue, StartOperation
    <3>3. CASE state = "idle" /\ \E e \in FollowUpHead(queue) :
                                   BeginQueued(queue, e)
      BY <1>1, <1>3, <3>3, BeginSole DEF BeginQueued
    <3> QED BY <1>12, <3>1, <3>2, <3>3 DEF ResumeHead
  <2> QED BY <1>2, <1>12, <2>1 DEF ResumeHead, NoSendNow
<1> QED BY <1>4, <1>5, <1>6, <1>7, <1>8, <1>9, <1>10, <1>11, <1>12 DEF Proceed

\* What a turn does between its start and its end leaves it in a phase that
\* is not free.
LEMMA TurnPhases ==
  ASSUME turn \in [Slot -> Turns], NEW t \in Slot,
         \/ Execute(t) \/ TakeSteering(t) \/ Deliver(t) \/ NaturalStop(t)
         \/ TakeFollowUps(t)
  PROVE  /\ turn[t].phase # "free"
         /\ \E p \in Phases \ {"free"} : \E es :
              turn' = [turn EXCEPT ![t] = [turn[t] EXCEPT !.phase = p,
                                                          !.holds = es]]
<1>1. turn[t].phase # "free"
  BY DEF Execute, TakeSteering, Deliver, NaturalStop, TakeFollowUps
<1>2. turn[t] \in Turns /\ turn[t].phase \in Phases
  BY DEF Turns
<1>3. \A es : [turn[t] EXCEPT !.holds = es] =
              [turn[t] EXCEPT !.phase = turn[t].phase, !.holds = es]
  BY <1>2 DEF Turns
<1>4. \A p : [turn[t] EXCEPT !.phase = p] =
             [turn[t] EXCEPT !.phase = p, !.holds = turn[t].holds]
  BY <1>2 DEF Turns
<1>5. CASE Execute(t)
  BY <1>1, <1>5 DEF Execute, Phases
<1>6. CASE TakeSteering(t)
  BY <1>1, <1>2, <1>3, <1>6 DEF TakeSteering
<1>7. CASE Deliver(t)
  BY <1>1, <1>2, <1>3, <1>7 DEF Deliver
<1>8. CASE NaturalStop(t)
  BY <1>1, <1>4, <1>8 DEF NaturalStop, Phases
<1>9. CASE TakeFollowUps(t)
  <2>1. \/ \E h : turn' = [turn EXCEPT ![t].phase = "executing", ![t].holds = h]
        \/ turn' = [turn EXCEPT ![t].phase = "finalizing"]
    BY <1>9 DEF TakeFollowUps
  <2>2. \A h : [turn EXCEPT ![t].phase = "executing", ![t].holds = h] =
               [turn EXCEPT ![t] = [turn[t] EXCEPT !.phase = "executing",
                                                   !.holds = h]]
    BY <1>2
  <2>3. "executing" \in Phases \ {"free"} /\ "finalizing" \in Phases \ {"free"}
    BY DEF Phases
  <2>4. CASE \E h : turn' = [turn EXCEPT ![t].phase = "executing", ![t].holds = h]
    <3>1. PICK h : turn' = [turn EXCEPT ![t].phase = "executing", ![t].holds = h]
      BY <2>4
    <3>2. turn' = [turn EXCEPT ![t] = [turn[t] EXCEPT !.phase = "executing",
                                                      !.holds = h]]
      BY <2>2, <3>1
    <3> QED BY <1>1, <2>3, <3>2
  <2>5. CASE turn' = [turn EXCEPT ![t].phase = "finalizing"]
    BY <1>1, <1>4, <2>3, <2>5
  <2> QED BY <2>1, <2>4, <2>5
<1> QED BY <1>5, <1>6, <1>7, <1>8, <1>9

LEMMA AdvanceKeepsSole ==
  ASSUME SoleInv, NEW t \in Slot, Advance(t)
  PROVE  SoleTurn' /\ NoSendNow(call)'
<1>1. TypeOK /\ NoSendNow(call) /\ SoleTurn /\ turn \in [Slot -> Turns]
  BY DEF SoleInv, TypeOK, ControlTypeOK
<1>2. turn[t] \in Turns
  BY <1>1
<1>3. CASE \/ Execute(t) \/ TakeSteering(t) \/ Deliver(t) \/ NaturalStop(t)
           \/ TakeFollowUps(t)
  <2>1. turn[t].phase # "free"
    BY <1>1, <1>3, TurnPhases
  <2>2. PICK p \in Phases \ {"free"} : \E es :
          turn' = [turn EXCEPT ![t] = [turn[t] EXCEPT !.phase = p, !.holds = es]]
    BY <1>1, <1>3, TurnPhases
  <2>3. PICK es :
          turn' = [turn EXCEPT ![t] = [turn[t] EXCEPT !.phase = p, !.holds = es]]
    BY <2>2
  <2> DEFINE u == [turn[t] EXCEPT !.phase = p, !.holds = es]
  <2>4. u.phase # "free"
    BY <1>2 DEF Turns
  <2>5. UNCHANGED <<activeTurn, state, call>>
    BY <1>3 DEF Execute, TakeSteering, Deliver, NaturalStop, TakeFollowUps,
                ControlUnchanged
  <2>6. turn' = [turn EXCEPT ![t] = u]
    BY <2>3
  <2> HIDE DEF u
  <2>7. SoleTurn'
    BY <1>1, <2>1, <2>4, <2>5, <2>6, LiveUpdateSole
  <2> QED BY <1>1, <2>5, <2>7 DEF NoSendNow
<1>4. CASE Settle(t)
  <2>1. turn[t].phase # "free"
    BY <1>4 DEF Settle
  <2>2. PICK q \in Queues, P \in Ledgers, s \in States,
             at \in {"released", "failed"} : FinishActiveTurn(t, q, P, s, at)
    BY <1>1, <1>4, SettleFinishes
  <2> QED BY <1>1, <2>1, <2>2, FinishSole, QuietFinish
<1>5. CASE SettleOperation(t)
  <2>1. turn[t].phase # "free"
    BY <1>1, <1>5 DEF SettleOperation, SoleTurn, Sole, FreeSlot
  <2> QED BY <1>1, <1>5, <2>1, FinishSole, QuietFinish DEF SettleOperation
<1> QED BY <1>3, <1>4, <1>5 DEF Advance

LEMMA ScheduledKeepsSole ==
  ASSUME SoleInv, Scheduled
  PROVE  SoleTurn' /\ NoSendNow(call)'
<1>1. TypeOK /\ NoSendNow(call) /\ SoleTurn /\ turn \in [Slot -> Turns]
      /\ call \in CallMaps
  BY DEF SoleInv, TypeOK, ControlTypeOK, CallTypeOK, CallMaps
<1>2. state = "idle" => AllFree(turn)
  BY <1>1, SoleAllFree DEF SoleTurn, Sole
<1>3. CASE DrainResumes
  <2>1. NoSendNow(call)'
    BY <1>1, <1>3, QuietCalls DEF DrainResumes, NoSendNow
  <2>2. CASE state = "idle" /\ StartContinuation(turn, waiters)
    BY <1>1, <1>2, <2>1, <2>2, BeginSole DEF StartContinuation
  <2>3. CASE UNCHANGED <<state, activeTurn, turn, requested, waiters>>
    BY <1>1, <2>1, <2>3 DEF SoleTurn
  <2> QED BY <1>3, <2>2, <2>3 DEF DrainResumes
<1>4. CASE DrainEnds
  BY <1>1, <1>4, ScheduleSole, QuietSchedule DEF DrainEnds, SoleTurn
<1>5. CASE AfterOperation
  <2>1. CASE UNCHANGED <<state, activeTurn, activeOp, turn, queue, place,
                         contVars, call>>
    BY <1>1, <2>1 DEF SoleTurn, NoSendNow
  <2>2. CASE /\ OperationDue(queue, state)
             /\ StartOperation(turn, queue, place)
             /\ UNCHANGED <<contVars, call>>
    <3>1. SoleTurn'
      BY <1>1, <1>2, <2>2, BeginSole DEF OperationDue, StartOperation
    <3> QED BY <1>1, <2>2, <3>1 DEF NoSendNow
  <2>3. CASE /\ state = "idle"
             /\ \E e \in FollowUpHead(queue) : BeginQueued(queue, e)
             /\ UNCHANGED <<activeOp, contVars, call>>
    <3>1. SoleTurn'
      BY <1>1, <1>2, <2>3, BeginSole DEF BeginQueued
    <3> QED BY <1>1, <2>3, <3>1 DEF NoSendNow
  <2>4. CASE Schedule(turn, activeTurn, state, requested, waiters, drain, call)
    BY <1>1, <2>4, ScheduleSole, QuietSchedule DEF SoleTurn
  <2> QED BY <1>5, <2>1, <2>2, <2>3, <2>4 DEF AfterOperation
<1> QED BY <1>3, <1>4, <1>5 DEF Scheduled

LEMMA NextKeepsSole ==
  ASSUME "sendQueuedNow" \notin Calls
  PROVE  SoleInv /\ [Next]_vars => SoleInv'
<1> SUFFICES ASSUME SoleInv, [Next]_vars PROVE SoleTurn' /\ NoSendNow(call)'
  BY NextKeepsTypes DEF SoleInv
<1>1. TypeOK /\ NoSendNow(call) /\ SoleTurn
  BY DEF SoleInv
<1>2. ASSUME NEW c \in Caller, AbandonWaiting(c)
      PROVE  SoleTurn' /\ NoSendNow(call)'
  <2>1. NoSendNow(call)'
    BY <1>1, <1>2, QuietCalls
       DEF AbandonWaiting, TypeOK, CallTypeOK, CallMaps, NoSendNow
  <2> QED BY <1>1, <1>2, <2>1
          DEF AbandonWaiting, OnlyCallsChange, turnVars, SoleTurn
<1>3. ASSUME NEW t \in Slot, SignalAbort(t) PROVE SoleTurn' /\ NoSendNow(call)'
  <2> DEFINE u == [turn[t] EXCEPT !.aborted = TRUE, !.signal = FALSE]
  <2>1. turn[t] \in Turns /\ turn[t].phase # "free"
    BY <1>1, <1>3 DEF TypeOK, ControlTypeOK, SignalAbort, SoleTurn, Sole
  <2>2. turn' = [turn EXCEPT ![t] = u] /\ u.phase # "free"
    BY <1>1, <1>3, <2>1 DEF SignalAbort, TypeOK, ControlTypeOK, Turns
  <2> HIDE DEF u
  <2>3. SoleTurn'
    BY <1>1, <1>3, <2>1, <2>2, LiveUpdateSole DEF SignalAbort
  <2> QED BY <1>1, <1>3, <2>3 DEF SignalAbort, NoSendNow
<1>4. CASE OrphanTakes
  BY <1>1, <1>4 DEF OrphanTakes, ControlUnchanged, SoleTurn, NoSendNow
<1>5. CASE UNCHANGED vars
  BY <1>1, <1>5 DEF vars, turnVars, SoleTurn, NoSendNow
<1> QED BY <1>2, <1>3, <1>4, <1>5, RequestKeepsSole, ProceedKeepsSole,
           AdvanceKeepsSole, ScheduledKeepsSole DEF Next

LEMMA InitSole == Init => SoleInv
<1> SUFFICES ASSUME Init PROVE SoleTurn /\ NoSendNow(call)
  BY InitTypes DEF SoleInv
<1>1. AllFree(turn)
  BY DEF Init, AllFree
<1>2. activeTurn = None
  BY DEF Init
<1>3. SoleTurn
  BY <1>1, <1>2, AllFreeSole DEF SoleTurn
<1>4. NoSendNow(call)
  BY DEF Init, NoSendNow, Ready
<1> QED BY <1>3, <1>4

\* A session used without sendQueuedNow never runs two turns at once.
THEOREM OneTurnAtATime ==
  ASSUME "sendQueuedNow" \notin Calls
  PROVE  Spec => []AtMostOneTurn
<1>1. SoleInv => AtMostOneTurn
  BY DEF SoleInv, SoleTurn, Sole, AtMostOneTurn, Live
<1> QED BY <1>1, InitSole, NextKeepsSole, PTL DEF Spec

-----------------------------------------------------------------------------
(* A session in recovery_required has no live turn, so no step of a turn   *)
(* is left, and no step of a caller starts one.                            *)

LEMMA RecoveryStays ==
  ASSUME SoleInv, Next, state = "recovery_required"
  PROVE  state' \in {"recovery_required", "closed"} /\ activeTurn' = None
<1>1. activeTurn = None /\ AllFree(turn)
  BY SoleAllFree DEF SoleInv, SoleTurn, Sole
<1>2. ASSUME NEW T, NEW asked, NEW ws, NEW D, NEW C,
             Schedule(T, activeTurn, state, asked, ws, D, C)
      PROVE  state' = "recovery_required" /\ activeTurn' = None
  BY <1>1, <1>2 DEF Schedule
<1>3. \A q : ~OperationDue(q, state)
  BY DEF OperationDue
<1> USE DEF turnVars
<1>4. ASSUME NEW c \in Caller, Request(c)
      PROVE  state' = "recovery_required" /\ activeTurn' = None
  BY <1>1, <1>4
     DEF Request, CallSend, Await, QueueInput, Open, QueueNextTurnContext,
         RequestContinuation, RecordContext, ClearQueue, RemoveQueued, Reorder,
         PromoteQueued, RestoreQueue, StartIfHead, OperationDue,
         QueueOperation, Cancel, Close, SendQueuedNow, ResumeQueue
<1>5. ASSUME NEW c \in Caller, Proceed(c)
      PROVE  state' \in {"recovery_required", "closed"} /\ activeTurn' = None
  <2>1. ~SendNowStarts(c)
    BY DEF SendNowStarts, Resumed, SoleInv, NoSendNow
  <2> QED BY <1>1, <1>3, <1>5, <2>1
     DEF Proceed, StartIdle, QueueBusy, Refuse, OnlyCallsChange,
         WaitForRelease, LookAgain, BeginWrite, EndWrite, CancelReturns,
         CloseCompletes, CloseFails, SendNowProceeds, SendNowFails, ResumeHead
<1>6. ASSUME NEW t \in Slot PROVE ~Advance(t) /\ ~SignalAbort(t)
  BY <1>1 DEF AllFree, FreeSlot, Advance, Execute, TakeSteering, Deliver,
              NaturalStop, TakeFollowUps, Settle, SettleOperation, SignalAbort
<1>7. CASE Scheduled
  <2>1. CASE DrainResumes
    BY <1>1, <2>1 DEF DrainResumes
  <2>2. CASE DrainEnds
    BY <1>2, <2>2 DEF DrainEnds
  <2>3. CASE AfterOperation
    BY <1>1, <1>3, <2>3 DEF AfterOperation
  <2> QED BY <1>7, <2>1, <2>2, <2>3 DEF Scheduled
<1>8. ASSUME NEW c \in Caller, AbandonWaiting(c)
      PROVE  state' = "recovery_required" /\ activeTurn' = None
  BY <1>1, <1>8 DEF AbandonWaiting, OnlyCallsChange
<1>9. CASE OrphanTakes
  BY <1>1, <1>9 DEF OrphanTakes, ControlUnchanged
<1> QED BY <1>4, <1>5, <1>6, <1>7, <1>8, <1>9 DEF Next

\* A session that could not store how a turn ended runs no turn again.
THEOREM RecoveryRunsNothing ==
  ASSUME "sendQueuedNow" \notin Calls
  PROVE  Spec => RecoveryIsFinal
<1>1. ASSUME SoleInv, SoleInv', [Next]_vars
      PROVE  [state = "recovery_required" =>
                state' \in {"recovery_required", "closed"} /\ Live' = {}]_vars
  <2> SUFFICES ASSUME Next, state = "recovery_required"
               PROVE  /\ state' \in {"recovery_required", "closed"}
                      /\ Live' = {}
    BY <1>1
  <2>1. state' \in {"recovery_required", "closed"} /\ activeTurn' = None
    BY <1>1, RecoveryStays
  <2>2. SoleTurn'
    BY <1>1 DEF SoleInv
  <2>3. \A u \in Slot : turn'[u].phase = "free"
    BY <2>1, <2>2, NoneIsNoSlot DEF SoleTurn, Sole
  <2> QED BY <2>1, <2>3 DEF Live
<1> QED BY <1>1, InitSole, NextKeepsSole, PTL DEF Spec, RecoveryIsFinal

-----------------------------------------------------------------------------
(* What a cancelled or failed turn leaves behind stays queued.             *)
(*                                                                         *)
(* LeftoversStay alone is not inductive: a turn or an operation takes      *)
(* whatever is at the head of the queue.  It takes nothing from a paused   *)
(* queue, and a queue that holds leftovers is paused: every step that      *)
(* lifts the pause hands the leftovers to the user again.                  *)

Leftovers(q, f) == f \subseteq Queued(q) /\ (f # {} => q.paused)

LeftoverInv == TypeOK /\ Leftovers(queue, frozen)

LEMMA LeftoversGrow ==
  ASSUME NEW q, NEW r, NEW f, Leftovers(q, f),
         Queued(q) \subseteq Queued(r), r.paused = q.paused
  PROVE  Leftovers(r, f)
BY DEF Leftovers

LEMMA LeftoversDrop ==
  ASSUME NEW q, NEW r, NEW f, NEW e, Leftovers(q, f),
         Queued(q) \ {e} \subseteq Queued(r), r.paused = q.paused
  PROVE  Leftovers(r, f \ {e})
BY DEF Leftovers

LEMMA NoLeftovers == \A q : Leftovers(q, {})
BY DEF Leftovers

LEMMA UnpausedHasNone ==
  ASSUME NEW q, NEW f, Leftovers(q, f), ~q.paused
  PROVE  f = {}
BY DEF Leftovers

\* An operation starts from a queue without leftovers only.
LEMMA StartIfHeadLeftovers ==
  ASSUME NEW q, NEW P, NEW f, Leftovers(q, f), StartIfHead(q, P)
  PROVE  Leftovers(queue', f)
<1>1. CASE OperationDue(q, state)
  BY <1>1, UnpausedHasNone, NoLeftovers DEF OperationDue
<1>2. CASE ~OperationDue(q, state)
  BY <1>2 DEF StartIfHead
<1> QED BY <1>1, <1>2

LEMMA FinishLeftovers ==
  ASSUME NEW t, NEW q, NEW P, NEW s, NEW at, NEW f, Leftovers(q, f),
         FinishActiveTurn(t, q, P, s, at)
  PROVE  Leftovers(queue', f)
<1>1. OperationDue(q, StateAfterTurn(s)) \/ queue' = q
  BY Zenon DEF FinishActiveTurn
<1>2. CASE OperationDue(q, StateAfterTurn(s))
  BY <1>2, UnpausedHasNone, NoLeftovers DEF OperationDue
<1> QED BY <1>1, <1>2

\* What a turn or an orphan takes is no leftover.
LEMMA TakingKeepsLeftovers ==
  ASSUME NEW q \in Queues, NEW f, Leftovers(q, f)
  PROVE  /\ Leftovers(AfterTakingSteering(q), f)
         /\ Leftovers(AfterTakingFollowUps(q), f)
<1>1. CASE q.paused
  BY <1>1, PausedTakesNothing
<1>2. CASE ~q.paused
  BY <1>2, UnpausedHasNone, NoLeftovers
<1> QED BY <1>1, <1>2

LEMMA EnterKeepsLeftovers ==
  ASSUME LeftoverInv, NEW e \in Entry, NEW behavior, Enter(e, behavior)
  PROVE  Leftovers(queue', frozen')
<1>1. queue \in Queues /\ Leftovers(queue, frozen)
  BY DEF LeftoverInv, TypeOK, QueueTypeOK
<1>2. PICK b : queue' = EnqueueEntry(queue, b, e)
  BY DEF Enter
<1>3. frozen' = frozen
  BY DEF Enter
<1> QED BY <1>1, <1>2, <1>3, OperatorsKeepEntries, LeftoversGrow

LEMMA RequestKeepsLeftovers ==
  ASSUME LeftoverInv, NEW c \in Caller, Request(c)
  PROVE  Leftovers(queue', frozen')
<1> DEFINE Kept == Leftovers(queue', frozen')
<1>1. /\ queue \in Queues /\ Leftovers(queue, frozen)
      /\ Queued(queue) \subseteq Entry
  BY QueuedAreEntries DEF LeftoverInv, TypeOK, QueueTypeOK
<1>2. CASE UNCHANGED <<queue, frozen>>
  BY <1>1, <1>2
<1>3. CASE QueueInput(c)
  <2>1. PICK e \in Entry : \E behavior : Enter(e, behavior)
    BY <1>3 DEF QueueInput, Fresh
  <2> QED BY <2>1, EnterKeepsLeftovers
<1>4. CASE ClearQueue(c)
  BY <1>4, NoLeftovers DEF ClearQueue
<1>5. CASE RemoveQueued(c)
  <2>1. PICK e \in Queued(queue) : /\ queue' = RemoveEntry(queue, e)
                                   /\ frozen' = frozen \ {e}
    BY <1>5 DEF RemoveQueued
  <2> QED BY <1>1, <2>1, OperatorsKeepEntries, LeftoversDrop
<1>6. CASE Reorder(c)
  <2>1. PICK s \in Reorderings(queue) : /\ queue' = [queue EXCEPT !.followUp = s]
                                        /\ frozen' = frozen
    BY <1>6 DEF Reorder
  <2>2. queue'.paused = queue.paused
    BY <1>1, <2>1 DEF Queues
  <2>3. Queued(queue') = Queued(queue)
    BY <1>1, <2>1 DEF Reorderings, Queued, Queues
  <2> QED BY <1>1, <2>1, <2>2, <2>3, LeftoversGrow
<1>7. CASE PromoteQueued(c)
  <2>1. PICK e \in ToSet(queue.followUp) : /\ queue' = Promote(queue, e)
                                           /\ frozen' = frozen
    BY <1>7 DEF PromoteQueued
  <2>2. e \in Entry
    BY <1>1 DEF Queued
  <2> QED BY <1>1, <2>1, <2>2, OperatorsKeepEntries, LeftoversGrow
<1>8. CASE RestoreQueue(c)
  <2>1. PICK q \in Snapshots :
          /\ StartIfHead(q, Moved(Queued(q), "queue"))
          /\ frozen' = IF q.paused THEN Queued(q) ELSE {}
    BY <1>8 DEF RestoreQueue
  <2>2. Leftovers(q, frozen')
    BY <2>1 DEF Leftovers
  <2> QED BY <2>1, <2>2, StartIfHeadLeftovers
<1>9. CASE QueueOperation(c)
  <2>1. PICK P : \/ StartIfHead(queue, P)
                 \/ \E e \in Entry :
                      StartIfHead(EnqueueEntry(queue, "followUp", e), P)
    BY <1>9 DEF QueueOperation, Fresh
  <2>2. frozen' = frozen
    BY <1>9 DEF QueueOperation
  <2>3. CASE StartIfHead(queue, P)
    BY <1>1, <2>2, <2>3, StartIfHeadLeftovers
  <2>4. CASE \E e \in Entry : StartIfHead(EnqueueEntry(queue, "followUp", e), P)
    <3>1. PICK e \in Entry : StartIfHead(EnqueueEntry(queue, "followUp", e), P)
      BY <2>4
    <3>2. Leftovers(EnqueueEntry(queue, "followUp", e), frozen)
      BY <1>1, OperatorsKeepEntries, LeftoversGrow
    <3> QED BY <2>2, <3>1, <3>2, StartIfHeadLeftovers
  <2> QED BY <2>1, <2>3, <2>4
<1>10. CASE SendQueuedNow(c)
  <2>1. PICK e \in TakeableById(queue) : /\ queue' = RemoveEntry(queue, e)
                                         /\ frozen' = frozen \ {e}
    BY <1>10 DEF SendQueuedNow
  <2>2. e \in Entry
    BY <1>1, TakenByIdOrHead
  <2> QED BY <1>1, <2>1, <2>2, OperatorsKeepEntries, LeftoversDrop
<1>11. CASE ResumeQueue(c)
  BY <1>11, NoLeftovers DEF ResumeQueue
<1>12. CASE \/ CallSend(c) \/ QueueNextTurnContext(c) \/ RequestContinuation(c)
            \/ RecordContext(c) \/ Cancel(c) \/ Close(c)
  <2>1. UNCHANGED <<queue, frozen>>
    BY <1>12 DEF CallSend, Await, QueueNextTurnContext, RequestContinuation,
                 RecordContext, Cancel, Close, queueVars
  <2> QED BY <1>2, <2>1
<1> QED BY <1>3, <1>4, <1>5, <1>6, <1>7, <1>8, <1>9, <1>10, <1>11, <1>12
        DEF Request

LEMMA ProceedKeepsLeftovers ==
  ASSUME LeftoverInv, NEW c \in Caller, Proceed(c)
  PROVE  Leftovers(queue', frozen')
<1>1. queue \in Queues /\ Leftovers(queue, frozen)
  BY DEF LeftoverInv, TypeOK, QueueTypeOK
<1>2. CASE UNCHANGED <<queue, frozen>>
  BY <1>1, <1>2
<1>3. CASE \E op \in DOMAIN SendKind : QueueBusy(c, op)
  <2>1. PICK e \in Entry : \E behavior : Enter(e, behavior)
    BY <1>3 DEF QueueBusy, Fresh
  <2> QED BY <2>1, EnterKeepsLeftovers
<1>4. CASE CloseCompletes(c)
  BY <1>4, NoLeftovers DEF CloseCompletes
<1>5. CASE SendNowStarts(c)
  BY <1>5, NoLeftovers DEF SendNowStarts
<1>6. CASE ResumeHead(c)
  <2>1. CASE UNCHANGED <<turnVars, queue, place, frozen>>
    BY <1>1, <2>1
  <2>2. CASE OperationDue(queue, state) /\ UNCHANGED <<orphan, frozen>>
    BY <1>1, <2>2, UnpausedHasNone, NoLeftovers DEF OperationDue
  <2>3. CASE \E e \in FollowUpHead(queue) : /\ BeginQueued(queue, e)
                                            /\ frozen' = frozen \ {e}
    <3>1. PICK e \in FollowUpHead(queue) : /\ queue' = RemoveEntry(queue, e)
                                           /\ frozen' = frozen \ {e}
      BY <2>3 DEF BeginQueued
    <3>2. e \in Entry
      BY <1>1, FollowUpHeadKinds
    <3> QED BY <1>1, <3>1, <3>2, OperatorsKeepEntries, LeftoversDrop
  <2> QED BY <1>6, <2>1, <2>2, <2>3 DEF ResumeHead
<1>7. CASE \/ \E op \in DOMAIN SendKind : StartIdle(c, op) \/ Refuse(c, op)
           \/ WaitForRelease(c) \/ LookAgain(c) \/ BeginWrite(c) \/ EndWrite(c)
           \/ CancelReturns(c) \/ CloseFails(c) \/ SendNowProceeds(c)
           \/ SendNowFails(c)
  <2>1. UNCHANGED <<queue, frozen>>
    BY <1>7 DEF StartIdle, Refuse, WaitForRelease, LookAgain, BeginWrite,
                EndWrite, CancelReturns, CloseFails, SendNowProceeds,
                SendNowFails, OnlyCallsChange, queueVars
  <2> QED BY <1>2, <2>1
<1> QED BY <1>3, <1>4, <1>5, <1>6, <1>7 DEF Proceed

LEMMA AdvanceKeepsLeftovers ==
  ASSUME LeftoverInv, NEW t \in Slot, Advance(t)
  PROVE  Leftovers(queue', frozen')
<1>1. queue \in Queues /\ Leftovers(queue, frozen)
  BY DEF LeftoverInv, TypeOK, QueueTypeOK
<1>2. CASE Execute(t) \/ Deliver(t) \/ NaturalStop(t)
  BY <1>1, <1>2 DEF Execute, Deliver, NaturalStop, queueVars
<1>3. CASE TakeSteering(t)
  BY <1>1, <1>3, TakingKeepsLeftovers DEF TakeSteering
<1>4. CASE TakeFollowUps(t)
  <2>1. PICK q \in PolicyQueues : queue' = AfterTakingFollowUps(q)
    BY <1>4 DEF TakeFollowUps
  <2>2. q \in Queues /\ Leftovers(q, frozen)
    <3>1. CASE q = queue
      BY <1>1, <3>1
    <3>2. CASE \E e \in Entry : q = EnqueueEntry(queue, "followUp", e)
      BY <1>1, <3>2, QueueOperators, OperatorsKeepEntries, LeftoversGrow
    <3> QED BY <2>1, <3>1, <3>2 DEF PolicyQueues, Fresh
  <2>3. frozen' = frozen
    BY <1>4 DEF TakeFollowUps
  <2> QED BY <2>1, <2>2, <2>3, TakingKeepsLeftovers
<1>5. CASE Settle(t)
  <2>1. PICK r \in Results :
          LET pauses == r \notin {"completed", "handled"} /\ Queued(queue) # {}
          IN  /\ FinishActiveTurn(t,
                   IF pauses THEN Pause(queue) ELSE queue,
                   Moved(turn[t].holds,
                         IF r = "handled" THEN "journal" ELSE "lost"),
                   IF r = "persistence" THEN "recovery_required" ELSE state,
                   IF Rejects(t, r) THEN "failed" ELSE "released")
              /\ frozen' = IF pauses THEN frozen \cup Queued(queue) ELSE frozen
    BY <1>5 DEF Settle
  <2> DEFINE pauses == r \notin {"completed", "handled"} /\ Queued(queue) # {}
             q == IF pauses THEN Pause(queue) ELSE queue
  <2>2. Leftovers(q, frozen')
    <3>1. Queued(Pause(queue)) = Queued(queue) /\ Pause(queue).paused
      BY <1>1 DEF Pause, Queued, Queues
    <3> QED BY <1>1, <2>1, <3>1 DEF Leftovers
  <2>3. PICK P, s, at : FinishActiveTurn(t, q, P, s, at)
    BY <2>1
  <2> HIDE DEF q
  <2> QED BY <2>2, <2>3, FinishLeftovers
<1>6. CASE SettleOperation(t)
  BY <1>1, <1>6, FinishLeftovers DEF SettleOperation
<1> QED BY <1>2, <1>3, <1>4, <1>5, <1>6 DEF Advance

LEMMA ScheduledKeepsLeftovers ==
  ASSUME LeftoverInv, Scheduled
  PROVE  Leftovers(queue', frozen')
<1>1. Leftovers(queue, frozen)
  BY DEF LeftoverInv
<1>2. CASE DrainResumes \/ DrainEnds
  BY <1>1, <1>2 DEF DrainResumes, DrainEnds, queueVars
<1>3. CASE AfterOperation
  <2>1. CASE queue' = queue /\ frozen' = frozen
    BY <1>1, <2>1
  <2>2. CASE ~queue.paused /\ frozen' = frozen
    BY <1>1, <2>2, UnpausedHasNone, NoLeftovers
  <2>3. frozen' = frozen /\ (queue' = queue \/ ~queue.paused)
    BY <1>3 DEF AfterOperation, OperationDue
  <2> QED BY <2>1, <2>2, <2>3
<1> QED BY <1>2, <1>3 DEF Scheduled

LEMMA NextKeepsLeftovers == LeftoverInv /\ [Next]_vars => LeftoverInv'
<1> SUFFICES ASSUME LeftoverInv, [Next]_vars PROVE Leftovers(queue', frozen')
  BY NextKeepsTypes DEF LeftoverInv
<1>1. queue \in Queues /\ Leftovers(queue, frozen)
  BY DEF LeftoverInv, TypeOK, QueueTypeOK
<1>2. CASE OrphanTakes
  BY <1>1, <1>2, TakingKeepsLeftovers DEF OrphanTakes
<1>3. CASE \/ \E c \in Caller : AbandonWaiting(c)
           \/ \E t \in Slot : SignalAbort(t)
           \/ UNCHANGED vars
  BY <1>1, <1>3 DEF AbandonWaiting, SignalAbort, OnlyCallsChange, queueVars, vars
<1> QED BY <1>2, <1>3, RequestKeepsLeftovers, ProceedKeepsLeftovers,
           AdvanceKeepsLeftovers, ScheduledKeepsLeftovers DEF Next

\* Input that a cancelled or failed turn left in the queue is consumed by no
\* later turn, operation or continuation, whatever the session is asked to do,
\* until the user resumes, sends it, removes it or clears the queue.
THEOREM LeftoversAreTheUsers == Spec => []LeftoversStay
<1>1. Init => LeftoverInv
  BY InitTypes, NoLeftovers DEF Init, LeftoverInv
<1>2. LeftoverInv => LeftoversStay
  BY DEF LeftoverInv, Leftovers, LeftoversStay
<1> QED BY <1>1, <1>2, NextKeepsLeftovers, PTL DEF Spec

-----------------------------------------------------------------------------
(* One operation at a time.                                                *)
(*                                                                         *)
(* queueOperation looks for an operation in two places, the queue and      *)
(* activeQueueOperation, and OperationRunsAlone says that those two hold   *)
(* one between them.  The invariant adds that the operation leaves         *)
(* activeQueueOperation with its turn (it has no phase but admission), and *)
(* that restoreQueue, which asks neither, finds a session nobody used.     *)

SoleOperation(q, a) ==
  \A x, y \in (Queued(q) \cap Operations) \cup ({a} \ {None}) : x = y

OperationTurn(a, T, u) ==
  a # None => /\ u # None
              /\ T[u].kind = "operation"
              /\ a \in T[u].holds

OperationsStayAdmitted(T) ==
  \A t \in Slot : T[t].kind = "operation" => T[t].phase = "admission"

Alone(q, a, T, u) ==
  SoleOperation(q, a) /\ OperationTurn(a, T, u) /\ OperationsStayAdmitted(T)

Untouched ==
  /\ \A d \in Caller : budget[d] <= MaxCalls
  /\ (\A d \in Caller : budget[d] = MaxCalls) =>
       /\ \A d \in Caller : call[d] = Ready
       /\ activeTurn = None /\ AllFree(turn)
       /\ ~requested /\ Queued(queue) = {}

OperationInv ==
  SoleInv /\ Alone(queue, activeOp, turn, activeTurn) /\ Untouched

\* Only a call spends the budget.
LEMMA RequestSpends ==
  ASSUME TypeOK, NEW c \in Caller, Request(c), Untouched
  PROVE  Untouched' /\ budget'[c] # MaxCalls
<1>1. PICK op : Invoke(c, op)
  BY DEF Request, CallSend, Await, QueueInput, QueueNextTurnContext,
         RequestContinuation, RecordContext, ClearQueue, RemoveQueued, Reorder,
         PromoteQueued, RestoreQueue, QueueOperation, Cancel, Close,
         SendQueuedNow, ResumeQueue
<1>2. budget \in [Caller -> Nat] /\ budget' = [budget EXCEPT ![c] = @ - 1]
  BY <1>1 DEF Invoke, TypeOK, CallTypeOK
<1>3. \A d \in Caller : budget[d] <= MaxCalls
  BY DEF Untouched
<1>4. \A d \in Caller : budget'[d] <= MaxCalls
  BY <1>2, <1>3, MaxCallsAssumption
<1>5. budget'[c] # MaxCalls
  BY <1>2, <1>3, MaxCallsAssumption
<1> QED BY <1>4, <1>5 DEF Untouched

LEMMA OthersSpendNothing ==
  ASSUME Next, \A c \in Caller : ~Request(c)
  PROVE  budget' = budget
<1>1. ASSUME NEW c \in Caller, Proceed(c) PROVE budget' = budget
  BY <1>1 DEF Proceed, StartIdle, QueueBusy, Refuse, WaitForRelease,
     LookAgain, BeginWrite, EndWrite, CancelReturns, CloseCompletes,
     CloseFails, SendNowProceeds, SendNowFails, SendNowStarts, ResumeHead,
     OnlyCallsChange
<1>2. ASSUME NEW t \in Slot, Advance(t) PROVE budget' = budget
  BY <1>2 DEF Advance, Execute, TakeSteering, Deliver, NaturalStop,
     TakeFollowUps, Settle, SettleOperation, ControlUnchanged
<1>3. Scheduled => budget' = budget
  BY DEF Scheduled, DrainResumes, DrainEnds, AfterOperation
<1> QED BY <1>1, <1>2, <1>3
        DEF Next, AbandonWaiting, SignalAbort, OrphanTakes, OnlyCallsChange,
            ControlUnchanged

\* Nothing happens in a session nobody used.
LEMMA OthersKeepUntouched ==
  ASSUME TypeOK, Untouched, [Next]_vars, \A c \in Caller : ~Request(c)
  PROVE  Untouched'
<1>2. CASE UNCHANGED vars
  BY <1>2 DEF vars, turnVars, queueVars, contVars, Untouched, Queued, AllFree
<1>3. CASE Next
  <2>1. budget' = budget
    BY <1>3, OthersSpendNothing
  <2> SUFFICES ASSUME \A d \in Caller : budget[d] = MaxCalls
               PROVE  /\ \A d \in Caller : call'[d] = Ready
                      /\ UNCHANGED <<activeTurn, turn>>
                      /\ ~requested' /\ Queued(queue') = {}
    BY <2>1 DEF Untouched, AllFree
  <2>2. /\ \A d \in Caller : call[d] = Ready
        /\ activeTurn = None /\ AllFree(turn)
        /\ requested = FALSE /\ Queued(queue) = {}
    BY DEF Untouched, TypeOK, CallTypeOK
  <2>3. /\ queue \in Queues
        /\ \A t \in Slot : turn[t].phase = "free" /\ turn[t].kind = "none"
    BY <2>2 DEF AllFree, FreeSlot, TypeOK, QueueTypeOK
  <2>4. ASSUME NEW c \in Caller PROVE ~Proceed(c) /\ ~AbandonWaiting(c)
    <3>1. call[c].at = "ready" /\ call[c].op = "none"
      BY <2>2 DEF Ready
    <3> QED BY <3>1 DEF Proceed, StartIdle, QueueBusy, Refuse, WaitForRelease,
       LookAgain, BeginWrite, EndWrite, CancelReturns, CloseCompletes,
       CloseFails, SendNowProceeds, SendNowFails, SendNowStarts, ResumeHead,
       Resumed, AbandonWaiting
  <2>5. ASSUME NEW t \in Slot PROVE ~Advance(t) /\ ~SignalAbort(t)
    BY <2>2, <2>3, NoneIsNoSlot
       DEF Advance, Execute, TakeSteering, Deliver, NaturalStop, TakeFollowUps,
           Settle, SettleOperation, SignalAbort
  <2>6. CASE DrainResumes
    <3>1. \A d \in Caller : call'[d] = Ready
      BY <2>2, <2>6 DEF DrainResumes, Return
    <3> QED BY <2>2, <2>6, <3>1 DEF DrainResumes, queueVars
  <2>7. CASE DrainEnds
    BY <2>2, <2>7 DEF DrainEnds, Schedule, queueVars
  <2>8. CASE AfterOperation
    <3>1. ~OperationAtHead(queue) /\ FollowUpHead(queue) = {}
      BY <2>2, <2>3, OperationHead, TakenByIdOrHead
    <3>2. \/ UNCHANGED <<activeTurn, turn, queue, contVars, call>>
          \/ /\ Schedule(turn, activeTurn, state, requested, waiters, drain,
                         call)
             /\ queue' = queue
      BY <2>8, <3>1 DEF AfterOperation, OperationDue
    <3> QED BY <2>2, <3>2 DEF Schedule, contVars
  <2>9. CASE OrphanTakes
    <3>1. Queued(queue') \subseteq Queued(queue)
      BY <2>3, <2>9, TakingOnlyTakes DEF OrphanTakes
    <3> QED BY <2>2, <2>9, <3>1 DEF OrphanTakes, ControlUnchanged, contVars
  <2> QED BY <1>3, <2>4, <2>5, <2>6, <2>7, <2>8, <2>9 DEF Next, Scheduled
<1> QED BY <1>2, <1>3

LEMMA AloneShrinks ==
  ASSUME NEW q, NEW r, NEW a, NEW T, NEW u, Alone(q, a, T, u),
         Queued(r) \cap Operations \subseteq Queued(q)
  PROVE  Alone(r, a, T, u)
BY DEF Alone, SoleOperation

\* Begin, for anything but an operation, in a session that runs nothing.
LEMMA BeginAlone ==
  ASSUME NEW T \in [Slot -> Turns], AllFree(T), NEW kind, kind # "operation",
         NEW es, NEW signal, Begin(T, kind, es, signal),
         NEW q, SoleOperation(q, None)
  PROVE  Alone(q, None, turn', activeTurn')
<1>1. PICK t \in Slot :
        turn' = [T EXCEPT ![t] = [kind |-> kind, phase |-> "admission",
                                  aborted |-> FALSE, signal |-> signal,
                                  holds |-> es]]
  BY DEF Begin
<1>2. \A v \in Slot : turn'[v].kind # "operation"
  BY <1>1 DEF AllFree, FreeSlot
<1> QED BY <1>2 DEF Alone, OperationTurn, OperationsStayAdmitted

LEMMA StartOperationAlone ==
  ASSUME NEW T \in [Slot -> Turns], AllFree(T), NEW q \in Queues, NEW P,
         OperationAtHead(q), StartOperation(T, q, P), SoleOperation(q, None)
  PROVE  Alone(queue', activeOp', turn', activeTurn')
<1> DEFINE e == Head(q.followUp)
<1>1. e \in Queued(q) \cap Operations /\ Queued(DropHead(q)) \subseteq Queued(q)
  BY OperationHead, TakingOnlyTakes
<1>2. activeOp' = e /\ queue' = DropHead(q) /\ Begin(T, "operation", {e}, FALSE)
  BY DEF StartOperation
<1> HIDE DEF e
<1>3. SoleOperation(queue', e)
  BY <1>1, <1>2 DEF SoleOperation
<1>4. PICK t \in Slot :
        /\ turn' = [T EXCEPT ![t] = [kind |-> "operation", phase |-> "admission",
                                     aborted |-> FALSE, signal |-> FALSE,
                                     holds |-> {e}]]
        /\ activeTurn' = t
  BY <1>2 DEF Begin
<1>5. turn'[t].kind = "operation" /\ turn'[t].phase = "admission"
      /\ turn'[t].holds = {e}
  BY <1>4
<1>6. \A v \in Slot \ {t} : turn'[v].kind # "operation"
  BY <1>4 DEF AllFree, FreeSlot
<1> QED BY <1>2, <1>3, <1>4, <1>5, <1>6, NoneIsNoSlot
        DEF Alone, OperationTurn, OperationsStayAdmitted

\* An idle session runs no operation.
LEMMA IdleRunsNoOperation ==
  ASSUME NEW T, NEW s, NEW q, NEW a, Sole(T, None, s), Alone(q, a, T, None)
  PROVE  a = None /\ AllFree(T) /\ SoleOperation(q, None)
BY SoleAllFree DEF Alone, OperationTurn

LEMMA StartIfHeadAlone ==
  ASSUME SoleInv, NEW q \in Queues, NEW P, StartIfHead(q, P),
         Alone(q, activeOp, turn, activeTurn)
  PROVE  Alone(queue', activeOp', turn', activeTurn')
<1>1. turn \in [Slot -> Turns] /\ Sole(turn, activeTurn, state)
  BY DEF SoleInv, SoleTurn, TypeOK, ControlTypeOK
<1>2. CASE OperationDue(q, state)
  <2>1. activeTurn = None
    BY <1>1, <1>2 DEF OperationDue, Sole
  <2>2. AllFree(turn) /\ SoleOperation(q, None)
    BY <1>1, <2>1, IdleRunsNoOperation
  <2> QED BY <1>1, <1>2, <2>2, StartOperationAlone DEF StartIfHead, OperationDue
<1>3. CASE ~OperationDue(q, state)
  BY <1>3 DEF StartIfHead
<1> QED BY <1>2, <1>3

LEMMA ScheduleAlone ==
  ASSUME NEW T \in [Slot -> Turns], NEW u, NEW s, NEW asked, NEW ws, NEW D,
         NEW C, Schedule(T, u, s, asked, ws, D, C), Sole(T, u, s),
         NEW q, NEW a, Alone(q, a, T, u)
  PROVE  Alone(q, a, turn', activeTurn')
<1>1. CASE s = "idle" /\ StartContinuation(T, ws)
  <2>1. u = None
    BY <1>1 DEF Sole
  <2>2. a = None /\ AllFree(T) /\ SoleOperation(q, None)
    BY <2>1, IdleRunsNoOperation
  <2> QED BY <1>1, <2>2, BeginAlone DEF StartContinuation
<1>2. CASE turn' = T /\ activeTurn' = u
  BY <1>2
<1> QED BY <1>1, <1>2 DEF Schedule

\* A turn that goes on keeps its kind; an operation keeps its phase and entry.
LEMMA UpdateAlone ==
  ASSUME NEW T \in [Slot -> Turns], NEW t \in Slot, NEW v,
         v.kind = T[t].kind,
         \/ T[t].kind # "operation"
         \/ v.holds = T[t].holds /\ v.phase = T[t].phase,
         NEW q, NEW a, NEW u \in Slot \cup {None}, Alone(q, a, T, u)
  PROVE  Alone(q, a, [T EXCEPT ![t] = v], u)
<1> DEFINE R == [T EXCEPT ![t] = v]
<1>1. \A w \in Slot : /\ R[w].kind = T[w].kind
                      /\ T[w].kind = "operation" =>
                           R[w].holds = T[w].holds /\ R[w].phase = T[w].phase
  OBVIOUS
<1> HIDE DEF R
<1>2. OperationsStayAdmitted(R)
  BY <1>1 DEF Alone, OperationsStayAdmitted
<1>3. OperationTurn(a, R, u)
  BY <1>1 DEF Alone, OperationTurn
<1> QED BY <1>2, <1>3 DEF Alone, R

LEMMA AbortAlone ==
  ASSUME TypeOK, turn' = [turn EXCEPT ![activeTurn].aborted = TRUE],
         activeTurn' = activeTurn, NEW q, NEW a, Alone(q, a, turn, activeTurn)
  PROVE  Alone(q, a, turn', activeTurn')
<1>1. turn \in [Slot -> Turns] /\ activeTurn \in Slot \cup {None}
  BY DEF TypeOK, ControlTypeOK
<1>2. CASE activeTurn \in Slot
  <2> DEFINE v == [turn[activeTurn] EXCEPT !.aborted = TRUE]
  <2>1. turn' = [turn EXCEPT ![activeTurn] = v]
    BY <1>1
  <2>2. /\ v.kind = turn[activeTurn].kind /\ v.holds = turn[activeTurn].holds
        /\ v.phase = turn[activeTurn].phase
    BY <1>1, <1>2 DEF Turns
  <2> HIDE DEF v
  <2>3. Alone(q, a, [turn EXCEPT ![activeTurn] = v], activeTurn)
    BY <1>1, <1>2, <2>2, UpdateAlone
  <2> QED BY <2>1, <2>3
<1>3. CASE activeTurn = None
  <2>1. turn' = turn
    BY <1>1, <1>3, NoneIsNoSlot
  <2> QED BY <2>1
<1> QED BY <1>1, <1>2, <1>3

\* finishActiveTurn gives up the operation with its turn.
LEMMA FinishAlone ==
  ASSUME SoleInv, NEW t \in Slot, turn[t].phase # "free", NEW q \in Queues,
         NEW P, NEW s, NEW at, FinishActiveTurn(t, q, P, s, at),
         Alone(q, activeOp, turn, activeTurn)
  PROVE  Alone(queue', activeOp', turn', activeTurn')
<1> DEFINE T == [turn EXCEPT ![t] = FreeSlot]
           next == StateAfterTurn(s)
<1>1. turn \in [Slot -> Turns] /\ Sole(turn, activeTurn, state)
  BY DEF SoleInv, SoleTurn, TypeOK, ControlTypeOK
<1>2. t = activeTurn
  BY <1>1 DEF Sole
<1>3. T \in [Slot -> Turns] /\ AllFree(T)
  BY <1>1, <1>2, UpdatedTurns
     DEF AllFree, Sole, FreeSlot, Turns, TurnKinds, Phases
<1>4. Sole(T, None, next)
  BY <1>3, AllFreeSole
<1>5. SoleOperation(q, None)
  BY DEF Alone, SoleOperation
<1>6. Alone(q, None, T, None)
  BY <1>3, <1>5 DEF Alone, OperationTurn, OperationsStayAdmitted, AllFree, FreeSlot
<1>7. activeOp # None => turn[t].kind = "operation" /\ activeOp \in turn[t].holds
  BY <1>2 DEF Alone, OperationTurn
<1>8. \/ OperationDue(q, next) /\ StartOperation(T, q, P)
      \/ /\ queue' = q
         /\ activeOp' = IF turn[t].kind = "operation" /\ activeOp \in turn[t].holds
                          THEN None ELSE activeOp
         /\ \/ turn' = T /\ activeTurn' = None
            \/ \E ws, D, C : Schedule(T, None, next, requested, ws, D, C)
  BY Zenon DEF FinishActiveTurn
<1> HIDE DEF T, next
<1>9. CASE OperationDue(q, next) /\ StartOperation(T, q, P)
  BY <1>3, <1>5, <1>9, StartOperationAlone DEF OperationDue
<1>10. CASE /\ queue' = q
            /\ activeOp' = IF turn[t].kind = "operation" /\ activeOp \in turn[t].holds
                             THEN None ELSE activeOp
            /\ \/ turn' = T /\ activeTurn' = None
               \/ \E ws, D, C : Schedule(T, None, next, requested, ws, D, C)
  <2>1. activeOp' = None
    BY <1>7, <1>10
  <2> QED BY <1>3, <1>4, <1>6, <1>10, <2>1, ScheduleAlone
<1> QED BY <1>8, <1>9, <1>10

\* Input that is no operation may be queued at any time.
LEMMA EnterAlone ==
  ASSUME OperationInv, NEW e \in Entry, KindOf[e] # "operation", NEW behavior,
         Enter(e, behavior)
  PROVE  Alone(queue', activeOp, turn, activeTurn)
<1>1. queue \in Queues /\ Alone(queue, activeOp, turn, activeTurn)
  BY DEF OperationInv, SoleInv, TypeOK, QueueTypeOK
<1>2. PICK b : queue' = EnqueueEntry(queue, b, e)
  BY DEF Enter
<1>3. Queued(queue') = Queued(queue) \cup {e}
  BY <1>1, <1>2, OperatorsKeepEntries
<1>4. e \notin Operations
  BY DEF Operations
<1> QED BY <1>1, <1>3, <1>4, AloneShrinks

\* takeFollowUpHead opens a turn with something else than an operation.
LEMMA BeginQueuedAlone ==
  ASSUME turn \in [Slot -> Turns], AllFree(turn), NEW q \in Queues,
         NEW e \in FollowUpHead(q), BeginQueued(q, e), SoleOperation(q, None)
  PROVE  Alone(queue', None, turn', activeTurn')
<1>1. e \in Entry /\ KindOf[e] # "operation"
  BY FollowUpHeadKinds DEF FollowUpHead, Executables
<1>2. Begin(turn, KindOf[e], {e}, FALSE) /\ queue' = RemoveEntry(q, e)
  BY DEF BeginQueued
<1>3. Alone(q, None, turn', activeTurn')
  BY <1>1, <1>2, BeginAlone
<1>4. Queued(queue') \subseteq Queued(q)
  BY <1>1, <1>2, OperatorsKeepEntries
<1> QED BY <1>3, <1>4, AloneShrinks

\* A saved queue holds at most one operation.
LEMMA SnapshotsHoldOne ==
  ASSUME NEW q \in Snapshots
  PROVE  SoleOperation(q, None)
<1> DEFINE S == ToSet(q.followUp) \cap Operations
<1>1. q \in Queues /\ Queued(q) \cap Operations = S /\ Cardinality(S) <= 1
  BY SnapshotsAreQueues DEF Snapshots, Queued
<1>2. IsFiniteSet(S)
  <2>1. S \subseteq Entry
    BY DEF Operations
  <2> QED BY <2>1, EntryAssumption, FS_Subset
<1>3. ASSUME NEW x \in S, NEW y \in S, x # y PROVE FALSE
  <2>1. IsFiniteSet({x}) /\ Cardinality({x}) = 1
    BY FS_Singleton
  <2>2. Cardinality({x} \cup {y}) = 2
    <3>1. y \notin {x}
      BY <1>3
    <3>2. Cardinality({x} \cup {y}) =
            IF y \in {x} THEN Cardinality({x}) ELSE Cardinality({x}) + 1
      BY <2>1, FS_AddElement, Zenon
    <3> QED BY <2>1, <3>1, <3>2
  <2>3. {x} \cup {y} \subseteq S
    OBVIOUS
  <2>4. Cardinality({x} \cup {y}) <= Cardinality(S)
    BY <1>2, <2>3, FS_Subset
  <2>5. Cardinality(S) \in Nat
    BY <1>2, FS_CardinalityType
  <2> HIDE DEF S
  <2> QED BY <1>1, <2>2, <2>4, <2>5
<1> QED BY <1>1, <1>3 DEF SoleOperation

LEMMA RequestKeepsAlone ==
  ASSUME "sendQueuedNow" \notin Calls, OperationInv, NEW c \in Caller, Request(c)
  PROVE  Alone(queue', activeOp', turn', activeTurn')
<1>1. /\ SoleInv /\ TypeOK /\ queue \in Queues
      /\ Alone(queue, activeOp, turn, activeTurn)
      /\ turn \in [Slot -> Turns] /\ Sole(turn, activeTurn, state)
  BY DEF OperationInv, SoleInv, TypeOK, ControlTypeOK, QueueTypeOK, SoleTurn
<1>2. CASE \/ CallSend(c) \/ QueueNextTurnContext(c) \/ RecordContext(c)
  BY <1>1, <1>2 DEF CallSend, Await, QueueNextTurnContext, RecordContext,
                    queueVars, turnVars
<1>3. CASE QueueInput(c)
  <2>1. PICK e \in Entry : KindOf[e] # "operation" /\ \E b : Enter(e, b)
    BY <1>3 DEF QueueInput, Fresh
  <2>2. UNCHANGED <<activeOp, turn, activeTurn>>
    BY <1>3 DEF QueueInput, turnVars
  <2> QED BY <2>1, <2>2, EnterAlone
<1>4. CASE ClearQueue(c) \/ RemoveQueued(c) \/ Reorder(c) \/ PromoteQueued(c)
           \/ ResumeQueue(c)
  <2>1. UNCHANGED <<activeOp, turn, activeTurn>>
    BY <1>4 DEF ClearQueue, RemoveQueued, Reorder, PromoteQueued, ResumeQueue,
                turnVars
  <2>2. Queued(queue') \subseteq Queued(queue)
    <3>1. CASE ClearQueue(c)
      BY <3>1 DEF ClearQueue, EmptyQueue, Queued, ToSet
    <3>2. CASE RemoveQueued(c)
      BY <1>1, <3>2, OperatorsKeepEntries, QueuedAreEntries DEF RemoveQueued
    <3>3. CASE Reorder(c)
      <4>1. PICK s \in Reorderings(queue) : queue' = [queue EXCEPT !.followUp = s]
        BY <3>3 DEF Reorder
      <4> QED BY <1>1, <4>1 DEF Reorderings, Queued, Queues
    <3>4. CASE PromoteQueued(c)
      <4>1. PICK e \in ToSet(queue.followUp) : queue' = Promote(queue, e)
        BY <3>4 DEF PromoteQueued
      <4>2. e \in Queued(queue) /\ e \in Entry
        BY <1>1, QueuedAreEntries DEF Queued
      <4> QED BY <1>1, <4>1, <4>2, PromoteAddsNothing
    <3>5. CASE ResumeQueue(c)
      BY <1>1, <3>5 DEF ResumeQueue, Resume, Queued, Queues
    <3> QED BY <1>4, <3>1, <3>2, <3>3, <3>4, <3>5
  <2> QED BY <1>1, <2>1, <2>2, AloneShrinks
<1>5. CASE RequestContinuation(c)
  <2>1. PICK ws, C : Schedule(turn, activeTurn, state, TRUE, ws, drain, C)
    BY <1>5 DEF RequestContinuation
  <2>2. UNCHANGED <<queue, activeOp>>
    BY <1>5 DEF RequestContinuation, queueVars
  <2> QED BY <1>1, <2>1, <2>2, ScheduleAlone
<1>6. CASE RestoreQueue(c)
  <2>1. PICK q \in Snapshots : StartIfHead(q, Moved(Queued(q), "queue"))
    BY <1>6 DEF RestoreQueue
  <2>2. activeTurn = None
    BY <1>6 DEF RestoreQueue, OperationInv, Untouched
  <2>3. activeOp = None /\ AllFree(turn)
    BY <1>1, <2>2, IdleRunsNoOperation
  <2>4. q \in Queues /\ Alone(q, activeOp, turn, activeTurn)
    BY <1>1, <2>3, SnapshotsAreQueues, SnapshotsHoldOne DEF Alone
  <2> QED BY <1>1, <2>1, <2>4, StartIfHeadAlone
<1>7. CASE QueueOperation(c)
  <2>1. CASE \E P : StartIfHead(queue, P)
    BY <1>1, <2>1, StartIfHeadAlone
  <2>2. CASE /\ activeOp = None /\ ~HasOperation(queue)
             /\ \E e \in Entry : \E P :
                  StartIfHead(EnqueueEntry(queue, "followUp", e), P)
    <3>1. PICK e \in Entry : \E P : StartIfHead(EnqueueEntry(queue, "followUp", e), P)
      BY <2>2
    <3> DEFINE q == EnqueueEntry(queue, "followUp", e)
    <3>2. q \in Queues /\ Queued(q) = Queued(queue) \cup {e}
      BY <1>1, EnqueueAddsOne
    <3> HIDE DEF q
    <3>3. SoleOperation(q, activeOp)
      BY <2>2, <3>2 DEF HasOperation, SoleOperation
    <3>4. Alone(q, activeOp, turn, activeTurn)
      BY <1>1, <3>3 DEF Alone
    <3> QED BY <1>1, <3>1, <3>2, <3>4, StartIfHeadAlone DEF q
  <2> QED BY <1>7, <2>1, <2>2 DEF QueueOperation, Fresh
<1>8. CASE Cancel(c) \/ Close(c)
  <2>1. UNCHANGED <<queue, activeOp, activeTurn>>
    BY <1>8 DEF Cancel, Close, AbortTurn, queueVars
  <2>2. \/ turn' = turn
        \/ turn' = [turn EXCEPT ![activeTurn].aborted = TRUE]
    BY <1>8 DEF Cancel, Close, AbortTurn
  <2> QED BY <1>1, <2>1, <2>2, AbortAlone
<1>9. ~SendQueuedNow(c)
  BY DEF SendQueuedNow, Invoke
<1> QED BY <1>2, <1>3, <1>4, <1>5, <1>6, <1>7, <1>8, <1>9 DEF Request

LEMMA ProceedKeepsAlone ==
  ASSUME OperationInv, NEW c \in Caller, Proceed(c)
  PROVE  Alone(queue', activeOp', turn', activeTurn')
<1>1. /\ SoleInv /\ TypeOK /\ queue \in Queues
      /\ Alone(queue, activeOp, turn, activeTurn)
      /\ turn \in [Slot -> Turns] /\ Sole(turn, activeTurn, state)
  BY DEF OperationInv, SoleInv, TypeOK, ControlTypeOK, QueueTypeOK, SoleTurn
<1>2. ASSUME state = "idle"
      PROVE  activeOp = None /\ AllFree(turn) /\ SoleOperation(queue, None)
  <2>1. activeTurn = None
    BY <1>1, <1>2 DEF Sole
  <2> QED BY <1>1, <2>1, IdleRunsNoOperation
<1>3. ASSUME NEW op \in DOMAIN SendKind, StartIdle(c, op)
      PROVE  Alone(queue', activeOp', turn', activeTurn')
  <2>1. SendKind[op] # "operation"
    BY DEF SendKind
  <2>2. /\ state = "idle" /\ UNCHANGED <<activeOp, queue>>
        /\ Begin(turn, SendKind[op], {}, op = "sendWhenAvailable")
    BY <1>3 DEF StartIdle, queueVars
  <2> QED BY <1>1, <1>2, <2>1, <2>2, BeginAlone
<1>4. ASSUME NEW op \in DOMAIN SendKind, QueueBusy(c, op)
      PROVE  Alone(queue', activeOp', turn', activeTurn')
  <2>1. PICK e \in Entry : KindOf[e] # "operation" /\ \E b : Enter(e, b)
    BY <1>4 DEF QueueBusy, Fresh, SendKind
  <2>2. UNCHANGED <<activeOp, turn, activeTurn>>
    BY <1>4 DEF QueueBusy, turnVars
  <2> QED BY <2>1, <2>2, EnterAlone
<1>5. CASE \/ \E op \in DOMAIN SendKind : Refuse(c, op)
           \/ WaitForRelease(c) \/ LookAgain(c) \/ BeginWrite(c) \/ EndWrite(c)
           \/ CancelReturns(c) \/ CloseFails(c)
  BY <1>1, <1>5 DEF Refuse, WaitForRelease, LookAgain, BeginWrite, EndWrite,
                    CancelReturns, CloseFails, OnlyCallsChange, queueVars,
                    turnVars
<1>6. CASE CloseCompletes(c)
  <2>1. Queued(queue') = {} /\ UNCHANGED <<activeOp, turn, activeTurn>>
    BY <1>6 DEF CloseCompletes, EmptyQueue, Queued, ToSet
  <2> QED BY <1>1, <2>1, AloneShrinks
<1>7. CASE SendNowProceeds(c) \/ SendNowFails(c) \/ SendNowStarts(c)
  BY <1>1, <1>7 DEF SendNowProceeds, SendNowFails, SendNowStarts, Resumed,
                    SoleInv, NoSendNow
<1>8. CASE ResumeHead(c)
  <2>1. CASE UNCHANGED <<turnVars, queue, place, frozen>>
    BY <1>1, <2>1 DEF turnVars
  <2>2. CASE OperationDue(queue, state) /\ StartOperation(turn, queue, place)
    BY <1>1, <1>2, <2>2, StartOperationAlone DEF OperationDue
  <2>3. CASE /\ state = "idle" /\ activeOp' = activeOp
             /\ \E e \in FollowUpHead(queue) : BeginQueued(queue, e)
    BY <1>1, <1>2, <2>3, BeginQueuedAlone
  <2> QED BY <1>8, <2>1, <2>2, <2>3 DEF ResumeHead
<1> QED BY <1>3, <1>4, <1>5, <1>6, <1>7, <1>8 DEF Proceed

LEMMA AdvanceKeepsAlone ==
  ASSUME OperationInv, NEW t \in Slot, Advance(t)
  PROVE  Alone(queue', activeOp', turn', activeTurn')
<1>1. /\ SoleInv /\ TypeOK /\ queue \in Queues
      /\ Alone(queue, activeOp, turn, activeTurn)
      /\ turn \in [Slot -> Turns] /\ activeTurn \in Slot \cup {None}
  BY DEF OperationInv, SoleInv, TypeOK, ControlTypeOK, QueueTypeOK
<1>2. turn[t] \in Turns
  BY <1>1
<1>3. turn[t].kind = "operation" => turn[t].phase = "admission"
  BY <1>1 DEF Alone, OperationsStayAdmitted
<1>4. ASSUME turn[t].kind # "operation", NEW p, NEW es,
             UNCHANGED <<activeTurn, activeOp>>,
             turn' = [turn EXCEPT ![t] = [turn[t] EXCEPT !.phase = p, !.holds = es]],
             Queued(queue') \cap Operations \subseteq Queued(queue)
      PROVE  Alone(queue', activeOp', turn', activeTurn')
  <2> DEFINE v == [turn[t] EXCEPT !.phase = p, !.holds = es]
  <2>1. v.kind = turn[t].kind
    BY <1>2 DEF Turns
  <2> HIDE DEF v
  <2>2. Alone(queue, activeOp, [turn EXCEPT ![t] = v], activeTurn)
    BY <1>1, <1>4, <2>1, UpdateAlone
  <2>3. turn' = [turn EXCEPT ![t] = v]
    BY <1>4 DEF v
  <2>4. Alone(queue, activeOp, turn', activeTurn)
    BY <2>2, <2>3
  <2>5. Alone(queue', activeOp, turn', activeTurn)
    BY <1>4, <2>4, AloneShrinks, Zenon
  <2> QED BY <1>4, <2>5, Zenon
<1>5. \A es, p : /\ [turn[t] EXCEPT !.holds = es] =
                    [turn[t] EXCEPT !.phase = turn[t].phase, !.holds = es]
                 /\ [turn[t] EXCEPT !.phase = p] =
                    [turn[t] EXCEPT !.phase = p, !.holds = turn[t].holds]
  BY <1>2 DEF Turns
<1>6. CASE Execute(t)
  <2>1. turn' = [turn EXCEPT ![t] = [turn[t] EXCEPT !.phase = "executing",
                                                    !.holds = {}]]
    BY <1>1, <1>6 DEF Execute
  <2> QED BY <1>4, <1>6, <2>1 DEF Execute, ControlUnchanged
<1>7. CASE TakeSteering(t)
  <2>1. turn' = [turn EXCEPT ![t] = [turn[t] EXCEPT !.phase = turn[t].phase,
                                                    !.holds = TakenSteering(queue)]]
    BY <1>1, <1>5, <1>7 DEF TakeSteering
  <2>2. Queued(queue') \subseteq Queued(queue)
    BY <1>1, <1>7, TakingOnlyTakes DEF TakeSteering
  <2> QED BY <1>3, <1>4, <1>7, <2>1, <2>2 DEF TakeSteering, ControlUnchanged
<1>8. CASE Deliver(t)
  <2>1. turn' = [turn EXCEPT ![t] = [turn[t] EXCEPT !.phase = turn[t].phase,
                                                    !.holds = {}]]
    BY <1>1, <1>5, <1>8 DEF Deliver
  <2> QED BY <1>3, <1>4, <1>8, <2>1 DEF Deliver, ControlUnchanged
<1>9. CASE NaturalStop(t)
  <2>1. turn' = [turn EXCEPT ![t] = [turn[t] EXCEPT !.phase = "stopping",
                                                    !.holds = turn[t].holds]]
    BY <1>1, <1>5, <1>9 DEF NaturalStop
  <2> QED BY <1>3, <1>4, <1>9, <2>1 DEF NaturalStop, ControlUnchanged, queueVars
<1>10. CASE TakeFollowUps(t)
  <2>1. PICK q \in PolicyQueues :
          /\ queue' = AfterTakingFollowUps(q)
          /\ \/ \E h : turn' = [turn EXCEPT ![t].phase = "executing",
                                            ![t].holds = h]
             \/ turn' = [turn EXCEPT ![t].phase = "finalizing"]
    BY <1>10 DEF TakeFollowUps
  <2>2. q \in Queues /\ Queued(q) \cap Operations \subseteq Queued(queue)
    <3>1. CASE q = queue
      BY <1>1, <3>1
    <3>2. CASE \E e \in Entry : /\ KindOf[e] = "message"
                                /\ q = EnqueueEntry(queue, "followUp", e)
      <4>1. PICK e \in Entry : /\ KindOf[e] = "message"
                               /\ q = EnqueueEntry(queue, "followUp", e)
        BY <3>2
      <4>2. q \in Queues /\ Queued(q) = Queued(queue) \cup {e}
        BY <1>1, <4>1, EnqueueAddsOne
      <4> QED BY <4>1, <4>2 DEF Operations
    <3> QED BY <2>1, <3>1, <3>2 DEF PolicyQueues, Fresh
  <2>3. Queued(queue') \cap Operations \subseteq Queued(queue)
    BY <2>1, <2>2, TakingOnlyTakes
  <2>4. \E p, h : turn' = [turn EXCEPT ![t] = [turn[t] EXCEPT !.phase = p,
                                                              !.holds = h]]
    <3>1. CASE \E h : turn' = [turn EXCEPT ![t].phase = "executing",
                                           ![t].holds = h]
      <4>1. PICK h : turn' = [turn EXCEPT ![t].phase = "executing",
                                          ![t].holds = h]
        BY <3>1
      <4>2. turn' = [turn EXCEPT ![t] = [turn[t] EXCEPT !.phase = "executing",
                                                        !.holds = h]]
        BY <1>1, <1>2, <4>1
      <4> QED BY <4>2
    <3>2. CASE turn' = [turn EXCEPT ![t].phase = "finalizing"]
      <4>1. turn' = [turn EXCEPT ![t] = [turn[t] EXCEPT !.phase = "finalizing"]]
        BY <1>1, <3>2
      <4>2. [turn[t] EXCEPT !.phase = "finalizing"] =
              [turn[t] EXCEPT !.phase = "finalizing", !.holds = turn[t].holds]
        BY <1>5, Zenon
      <4> QED BY <4>1, <4>2, Zenon
    <3> QED BY <2>1, <3>1, <3>2
  <2> QED BY <1>3, <1>4, <1>10, <2>3, <2>4 DEF TakeFollowUps, ControlUnchanged
<1>11. CASE Settle(t)
  <2>1. PICK q \in {queue, Pause(queue)} :
               \E P, s, at : FinishActiveTurn(t, q, P, s, at)
    BY <1>11 DEF Settle
  <2>2. q \in Queues /\ Queued(q) = Queued(queue)
    BY <1>1, <2>1 DEF Pause, Queued, Queues
  <2>3. Alone(q, activeOp, turn, activeTurn)
    BY <1>1, <2>2, AloneShrinks
  <2> QED BY <1>1, <1>11, <2>1, <2>2, <2>3, FinishAlone DEF Settle
<1>12. CASE SettleOperation(t)
  <2>1. turn[t].phase # "free"
    BY <1>3, <1>12 DEF SettleOperation
  <2> QED BY <1>1, <1>12, <2>1, FinishAlone DEF SettleOperation
<1> QED BY <1>6, <1>7, <1>8, <1>9, <1>10, <1>11, <1>12 DEF Advance

LEMMA ScheduledKeepsAlone ==
  ASSUME OperationInv, Scheduled
  PROVE  Alone(queue', activeOp', turn', activeTurn')
<1>1. /\ SoleInv /\ TypeOK /\ queue \in Queues
      /\ Alone(queue, activeOp, turn, activeTurn)
      /\ turn \in [Slot -> Turns] /\ Sole(turn, activeTurn, state)
  BY DEF OperationInv, SoleInv, TypeOK, ControlTypeOK, QueueTypeOK, SoleTurn
<1>2. ASSUME state = "idle"
      PROVE  activeOp = None /\ AllFree(turn) /\ SoleOperation(queue, None)
  <2>1. activeTurn = None
    BY <1>1, <1>2 DEF Sole
  <2> QED BY <1>1, <2>1, IdleRunsNoOperation
<1>3. CASE DrainResumes
  <2>1. UNCHANGED <<queue, activeOp>>
    BY <1>3 DEF DrainResumes, queueVars
  <2>2. CASE state = "idle" /\ StartContinuation(turn, waiters)
    BY <1>1, <1>2, <2>1, <2>2, BeginAlone DEF StartContinuation
  <2>3. CASE UNCHANGED <<state, activeTurn, turn, requested, waiters>>
    BY <1>1, <2>1, <2>3
  <2> QED BY <1>3, <2>2, <2>3 DEF DrainResumes
<1>4. CASE DrainEnds
  <2>1. UNCHANGED <<queue, activeOp>>
    BY <1>4 DEF DrainEnds, queueVars
  <2>2. Schedule(turn, activeTurn, state, requested, waiters, DrainOff, call)
    BY <1>4 DEF DrainEnds
  <2> QED BY <1>1, <2>1, <2>2, ScheduleAlone
<1>5. CASE AfterOperation
  <2>1. CASE UNCHANGED <<activeTurn, activeOp, turn, queue>>
    BY <1>1, <2>1
  <2>2. CASE OperationDue(queue, state) /\ StartOperation(turn, queue, place)
    BY <1>1, <1>2, <2>2, StartOperationAlone DEF OperationDue
  <2>3. CASE /\ state = "idle" /\ activeOp' = activeOp
             /\ \E e \in FollowUpHead(queue) : BeginQueued(queue, e)
    BY <1>1, <1>2, <2>3, BeginQueuedAlone
  <2>4. CASE /\ Schedule(turn, activeTurn, state, requested, waiters, drain,
                         call)
             /\ UNCHANGED <<activeOp, queue>>
    BY <1>1, <2>4, ScheduleAlone
  <2> QED BY <1>5, <2>1, <2>2, <2>3, <2>4 DEF AfterOperation
<1> QED BY <1>3, <1>4, <1>5 DEF Scheduled

LEMMA NextKeepsOperations ==
  ASSUME "sendQueuedNow" \notin Calls
  PROVE  OperationInv /\ [Next]_vars => OperationInv'
<1> SUFFICES ASSUME OperationInv, [Next]_vars PROVE OperationInv'
  OBVIOUS
<1>1. /\ SoleInv /\ TypeOK /\ queue \in Queues /\ Untouched
      /\ Alone(queue, activeOp, turn, activeTurn)
      /\ turn \in [Slot -> Turns] /\ activeTurn \in Slot \cup {None}
  BY DEF OperationInv, SoleInv, TypeOK, ControlTypeOK, QueueTypeOK
<1>2. SoleInv'
  BY <1>1, NextKeepsSole
<1>3. Untouched'
  <2>1. CASE \E c \in Caller : Request(c)
    BY <1>1, <2>1, RequestSpends
  <2>2. CASE \A c \in Caller : ~Request(c)
    BY <1>1, <2>2, OthersKeepUntouched
  <2> QED BY <2>1, <2>2
<1>4. CASE OrphanTakes
  <2>1. Queued(queue') \subseteq Queued(queue)
    BY <1>1, <1>4, TakingOnlyTakes DEF OrphanTakes
  <2>2. UNCHANGED <<activeOp, turn, activeTurn>>
    BY <1>4 DEF OrphanTakes, ControlUnchanged
  <2>3. Alone(queue', activeOp', turn', activeTurn')
    BY <1>1, <2>1, <2>2, AloneShrinks
  <2> QED BY <1>2, <1>3, <2>3 DEF OperationInv
<1>5. ASSUME NEW t \in Slot, SignalAbort(t) PROVE OperationInv'
  <2> DEFINE v == [turn[t] EXCEPT !.aborted = TRUE, !.signal = FALSE]
  <2>1. /\ v.kind = turn[t].kind /\ v.holds = turn[t].holds
        /\ v.phase = turn[t].phase
    BY <1>1 DEF Turns
  <2>2. /\ turn' = [turn EXCEPT ![t] = v]
        /\ UNCHANGED <<queue, activeOp, activeTurn>>
    BY <1>1, <1>5 DEF SignalAbort, queueVars
  <2> HIDE DEF v
  <2>3. Alone(queue, activeOp, [turn EXCEPT ![t] = v], activeTurn)
    BY <1>1, <2>1, UpdateAlone
  <2> QED BY <1>2, <1>3, <2>2, <2>3 DEF OperationInv
<1>6. CASE \/ \E c \in Caller : AbandonWaiting(c)
           \/ UNCHANGED vars
  <2>1. UNCHANGED <<queue, activeOp, turn, activeTurn>>
    BY <1>6 DEF AbandonWaiting, OnlyCallsChange, queueVars, turnVars, vars
  <2> QED BY <1>1, <1>2, <1>3, <2>1 DEF OperationInv
<1>7. CASE \/ \E c \in Caller : Request(c) \/ Proceed(c)
           \/ \E t \in Slot : Advance(t)
           \/ Scheduled
  <2>1. Alone(queue', activeOp', turn', activeTurn')
    BY <1>7, RequestKeepsAlone, ProceedKeepsAlone, AdvanceKeepsAlone,
       ScheduledKeepsAlone
  <2> QED BY <1>2, <1>3, <2>1 DEF OperationInv
<1> QED BY <1>4, <1>5, <1>6, <1>7 DEF Next

LEMMA InitOperations == Init => OperationInv
<1> SUFFICES ASSUME Init PROVE OperationInv
  OBVIOUS
<1>1. SoleInv
  BY InitSole
<1>2. Queued(queue) = {} /\ activeOp = None /\ activeTurn = None /\ AllFree(turn)
  BY DEF Init, EmptyQueue, Queued, ToSet, AllFree
<1>3. Alone(queue, activeOp, turn, activeTurn)
  BY <1>2 DEF Alone, SoleOperation, OperationTurn, OperationsStayAdmitted,
              AllFree, FreeSlot
<1>4. Untouched
  BY <1>2, MaxCallsAssumption DEF Init, Untouched
<1> QED BY <1>1, <1>3, <1>4 DEF OperationInv

\* However often a compaction is asked for, one is pending or running at most,
\* and while it runs the turn that is active is the compaction.
THEOREM OneCompactionAtATime ==
  ASSUME "sendQueuedNow" \notin Calls
  PROVE  Spec => []OperationRunsAlone
<1>1. OperationInv => OperationRunsAlone
  <2> SUFFICES ASSUME OperationInv PROVE OperationRunsAlone
    OBVIOUS
  <2> DEFINE S == (Queued(queue) \cap Operations) \cup ({activeOp} \ {None})
  <2>1. \A x, y \in S : x = y
    BY DEF OperationInv, Alone, SoleOperation
  <2>2. S = {} \/ \E x : S = {x}
    <3> HIDE DEF S
    <3> QED BY <2>1
  <2>3. Cardinality(S) <= 1
    <3>1. Cardinality({}) = 0
      BY FS_EmptySet
    <3>2. \A x : Cardinality({x}) = 1
      BY FS_Singleton
    <3> HIDE DEF S
    <3>3. CASE S = {}
      <4>1. Cardinality(S) = 0
        BY <3>1, <3>3
      <4> QED BY <4>1
    <3>4. CASE \E x : S = {x}
      <4>1. Cardinality(S) = 1
        BY <3>2, <3>4
      <4> QED BY <4>1
    <3> QED BY <2>2, <3>3, <3>4
  <2> QED BY <2>3 DEF OperationRunsAlone, OperationInv, Alone, OperationTurn
<1> QED BY <1>1, InitOperations, NextKeepsOperations, PTL DEF Spec

-----------------------------------------------------------------------------
(* Nothing passes an operation.                                            *)
(*                                                                         *)
(* OperationIsBarrier says that what was queued behind an operation is     *)
(* still queued.  It holds because an operation keeps its place in front:  *)
(* while it waits, whatever is behind it in the ledger is behind it in     *)
(* followUpQueue, where take and takeFollowUpHead stop; while it runs, no  *)
(* other turn does.                                                        *)

Barrier(q, a, b) ==
  /\ a = None => \A x \in b : x \notin Operations /\ Follows(q.followUp, x)
  /\ a # None => b \subseteq ToSet(q.followUp)
  /\ ToSet(q.steering) \cap Operations = {}

BarrierInv == /\ OperationInv
              /\ Barrier(queue, activeOp, behind)
              /\ orphan = "none"

LEMMA BehindFollows ==
  ASSUME NEW q \in Queues
  PROVE  BehindOperation(q) = {x \in Entry \ Operations : Follows(q.followUp, x)}
<1>1. /\ Len(q.followUp) \in Nat /\ DOMAIN q.followUp = 1..Len(q.followUp)
      /\ \A i \in DOMAIN q.followUp : q.followUp[i] \in Entry
  BY LenProperties, QueuedAreEntries DEF Queues
<1>2. ASSUME NEW x \in BehindOperation(q)
      PROVE  x \in Entry \ Operations /\ Follows(q.followUp, x)
  <2>1. PICK i \in DOMAIN q.followUp \ BeforeOperation(q.followUp) : q.followUp[i] = x
    BY DEF BehindOperation
  <2>2. x \in Entry /\ x \notin Operations
    BY <1>1, <2>1 DEF BehindOperation
  <2>3. PICK j \in 1..i : q.followUp[j] \in Operations
    BY <2>1 DEF BeforeOperation
  <2>4. j # i
    BY <2>1, <2>2, <2>3
  <2>5. j \in 1..Len(q.followUp) /\ i \in 1..Len(q.followUp) /\ j < i
    BY <1>1, <2>1, <2>3, <2>4
  <2> QED BY <2>1, <2>2, <2>3, <2>5 DEF Follows
<1>3. ASSUME NEW x \in Entry \ Operations, Follows(q.followUp, x)
      PROVE  x \in BehindOperation(q)
  <2>1. PICK i \in 1..Len(q.followUp), j \in 1..Len(q.followUp) :
          j < i /\ q.followUp[j] \in Operations /\ q.followUp[i] = x
    BY <1>3 DEF Follows
  <2>2. j \in 1..i /\ i \in DOMAIN q.followUp
    BY <1>1, <2>1
  <2>3. i \notin BeforeOperation(q.followUp)
    BY <2>1, <2>2 DEF BeforeOperation
  <2> QED BY <2>1, <2>2, <2>3 DEF BehindOperation
<1> QED BY <1>2, <1>3

LEMMA BarrierGrows ==
  ASSUME NEW q, NEW r, NEW a, NEW b, Barrier(q, a, b),
         \A x \in b : x \notin Operations /\ Follows(q.followUp, x)
                        => Follows(r.followUp, x),
         b \cap ToSet(q.followUp) \subseteq ToSet(r.followUp),
         ToSet(r.steering) \cap Operations \subseteq ToSet(q.steering)
  PROVE  Barrier(r, a, b)
BY DEF Barrier

LEMMA BarrierForFewer ==
  ASSUME NEW q, NEW a, NEW b, NEW c, Barrier(q, a, b), c \subseteq b
  PROVE  Barrier(q, a, c)
BY DEF Barrier

\* Appending an entry; it may steer when it is no operation.
LEMMA AppendBarrier ==
  ASSUME NEW q \in Queues, NEW a, NEW b, Barrier(q, a, b), NEW e \in Entry
  PROVE  /\ Barrier(EnqueueEntry(q, "followUp", e), a, b)
         /\ e \notin Operations =>
              \A w : Barrier(EnqueueEntry(q, w, e), a, b)
<1>1. q.steering \in Seq(Entry) /\ q.followUp \in Seq(Entry)
  BY DEF Queues
<1>2. /\ ToSet(Append(q.steering, e)) = ToSet(q.steering) \cup {e}
      /\ ToSet(Append(q.followUp, e)) = ToSet(q.followUp) \cup {e}
  BY <1>1, AppendAdds
<1>3. \A x : Follows(q.followUp, x) => Follows(Append(q.followUp, e), x)
  BY <1>1, AppendKeepsFollows
<1>4. \A w : w # "steer" =>
        /\ EnqueueEntry(q, w, e).steering = q.steering
        /\ EnqueueEntry(q, w, e).followUp = Append(q.followUp, e)
  BY DEF EnqueueEntry, Queues
<1>5. \A w : w # "steer" => Barrier(EnqueueEntry(q, w, e), a, b)
  BY <1>2, <1>3, <1>4, BarrierGrows
<1>6. ASSUME e \notin Operations PROVE Barrier(EnqueueEntry(q, "steer", e), a, b)
  <2>1. /\ EnqueueEntry(q, "steer", e).steering = Append(q.steering, e)
        /\ EnqueueEntry(q, "steer", e).followUp = q.followUp
    BY DEF EnqueueEntry, Queues
  <2> QED BY <1>2, <1>6, <2>1, BarrierGrows
<1> QED BY <1>5, <1>6

\* Removing one: the ledger loses it too, or it is in front of the operation.
LEMMA RemoveBarrier ==
  ASSUME NEW q \in Queues, NEW a, NEW b, Barrier(q, a, b), NEW e \in Entry
  PROVE  /\ e \notin Operations => Barrier(RemoveEntry(q, e), a, b \ {e})
         /\ Barrier(RemoveEntry(q, e), a, {})
         /\ a = None /\ e \in FollowUpHead(q) => Barrier(RemoveEntry(q, e), a, b)
<1> DEFINE r == RemoveEntry(q, e)
<1>1. q.steering \in Seq(Entry) /\ q.followUp \in Seq(Entry)
      /\ r.steering = RemoveFirst(q.steering, e)
      /\ r.followUp = RemoveFirst(q.followUp, e)
  BY DEF Queues, RemoveEntry
<1>2. /\ ToSet(r.steering) \subseteq ToSet(q.steering)
      /\ ToSet(q.followUp) \ {e} \subseteq ToSet(r.followUp)
  BY <1>1, RemoveFirstKeeps
<1>3. ASSUME e \notin Operations PROVE Barrier(r, a, b \ {e})
  <2>1. \A x \in b \ {e} : Follows(q.followUp, x) => Follows(r.followUp, x)
    BY <1>1, <1>3, RemoveKeepsFollows
  <2>2. Barrier(q, a, b \ {e})
    BY BarrierForFewer
  <2> HIDE DEF r
  <2> QED BY <1>2, <2>1, <2>2, BarrierGrows
<1>4. Barrier(r, a, {})
  BY <1>2 DEF Barrier
<1>5. ASSUME a = None, e \in FollowUpHead(q) PROVE Barrier(r, a, b)
  <2>1. \E i \in BeforeOperation(q.followUp) : q.followUp[i] = e
    BY <1>5 DEF FollowUpHead
  <2>2. \A x : Follows(q.followUp, x) => Follows(r.followUp, x)
    BY <1>1, <2>1, RemoveKeepsFollows
  <2> HIDE DEF r
  <2> QED BY <1>2, <1>5, <2>2 DEF Barrier
<1> QED BY <1>3, <1>4, <1>5

\* The operation at the head starts: what was behind it is still queued.
LEMMA StartOperationBarrier ==
  ASSUME NEW q \in Queues, NEW b, Barrier(q, None, b), OperationAtHead(q),
         NEW T, NEW P, StartOperation(T, q, P)
  PROVE  Barrier(queue', activeOp', b)
<1>1. q.followUp \in Seq(Entry) /\ q.followUp # <<>>
  BY DEF Queues, OperationAtHead
<1>2. /\ activeOp' = Head(q.followUp) /\ queue' = DropHead(q)
      /\ Head(q.followUp) \in Entry
  BY OperationHead, QueuedAreEntries DEF StartOperation
<1>3. queue'.followUp = Tail(q.followUp) /\ queue'.steering = q.steering
  BY <1>2 DEF DropHead, Queues
<1>4. b \subseteq ToSet(Tail(q.followUp))
  BY <1>1, FollowsIsIn DEF Barrier
<1> QED BY <1>2, <1>3, <1>4, NoneIsNoSlot DEF Barrier

LEMMA StartIfHeadBarrier ==
  ASSUME OperationInv, NEW q \in Queues, NEW P, StartIfHead(q, P), NEW b,
         Barrier(q, activeOp, b)
  PROVE  Barrier(queue', activeOp', b)
<1>1. CASE OperationDue(q, state)
  <2>1. activeOp = None
    <3>1. activeTurn = None
      BY <1>1 DEF OperationInv, SoleInv, SoleTurn, Sole, OperationDue
    <3> QED BY <3>1 DEF OperationInv, Alone, OperationTurn
  <2> QED BY <1>1, <2>1, StartOperationBarrier DEF StartIfHead, OperationDue
<1>2. CASE ~OperationDue(q, state)
  BY <1>2 DEF StartIfHead
<1> QED BY <1>1, <1>2

\* queueBehaviorAfterOperations: input that comes while an operation is due
\* goes behind it.
LEMMA EnterBarrier ==
  ASSUME BarrierInv, NEW e \in Entry, KindOf[e] # "operation", NEW behavior,
         Enter(e, behavior)
  PROVE  Barrier(queue', activeOp, behind')
<1>1. queue \in Queues /\ Barrier(queue, activeOp, behind) /\ e \notin Operations
  BY DEF BarrierInv, OperationInv, SoleInv, TypeOK, QueueTypeOK, Operations
<1>2. CASE OperationPending
  <2>1. queue' = EnqueueEntry(queue, "followUp", e) /\ behind' = behind \cup {e}
    BY <1>2 DEF Enter
  <2>2. Barrier(queue', activeOp, behind)
    BY <1>1, <2>1, AppendBarrier
  <2>3. queue'.followUp = Append(queue.followUp, e) /\ queue.followUp \in Seq(Entry)
    BY <1>1, <2>1 DEF EnqueueEntry, Queues
  <2>4. CASE activeOp # None
    <3>1. e \in ToSet(queue'.followUp)
      BY <2>3, AppendAdds
    <3> QED BY <2>1, <2>2, <2>4, <3>1 DEF Barrier
  <2>5. CASE activeOp = None
    <3>1. ToSet(queue.followUp) \cap Operations # {}
      BY <1>1, <1>2, <2>5 DEF OperationPending, HasOperation, Queued, Barrier
    <3>2. Follows(queue'.followUp, e)
      BY <2>3, <3>1, AppendKeepsFollows
    <3> QED BY <1>1, <2>1, <2>2, <2>5, <3>2 DEF Barrier
  <2> QED BY <2>4, <2>5
<1>3. CASE ~OperationPending
  <2>1. behind' = behind /\ \E w : queue' = EnqueueEntry(queue, w, e)
    BY <1>3 DEF Enter
  <2> QED BY <1>1, <2>1, AppendBarrier
<1> QED BY <1>2, <1>3

LEMMA RequestKeepsBarrier ==
  ASSUME {"sendQueuedNow", "promote"} \cap Calls = {}, BarrierInv,
         NEW c \in Caller, Request(c)
  PROVE  Barrier(queue', activeOp', behind')
<1>1. /\ OperationInv /\ SoleInv /\ TypeOK /\ queue \in Queues
      /\ Barrier(queue, activeOp, behind)
  BY DEF BarrierInv, OperationInv, SoleInv, TypeOK, QueueTypeOK
<1>2. CASE UNCHANGED <<queue, activeOp, behind>>
  BY <1>1, <1>2
<1>3. CASE QueueInput(c)
  <2>1. PICK e \in Entry : KindOf[e] # "operation" /\ \E b : Enter(e, b)
    BY <1>3 DEF QueueInput, Fresh
  <2>2. activeOp' = activeOp
    BY <1>3 DEF QueueInput, turnVars
  <2> QED BY <2>1, <2>2, EnterBarrier
<1>4. CASE ClearQueue(c)
  BY <1>4 DEF ClearQueue, EmptyQueue, Barrier, ToSet
<1>5. CASE RemoveQueued(c)
  <2>1. PICK e \in Queued(queue) :
          /\ queue' = RemoveEntry(queue, e)
          /\ behind' = IF e \in Operations THEN {} ELSE behind \ {e}
    BY <1>5 DEF RemoveQueued
  <2>2. e \in Entry /\ activeOp' = activeOp
    BY <1>1, <1>5, QueuedAreEntries DEF RemoveQueued, turnVars
  <2> QED BY <1>1, <2>1, <2>2, RemoveBarrier
<1>6. CASE Reorder(c)
  <2>1. PICK s \in Reorderings(queue) : queue' = [queue EXCEPT !.followUp = s]
    BY <1>6 DEF Reorder
  <2>2. /\ queue' \in Queues /\ queue'.followUp = s
        /\ queue'.steering = queue.steering
        /\ ToSet(s) = ToSet(queue.followUp)
    BY <1>1, <2>1, ReorderingsAreQueues DEF Reorderings, Queues
  <2>3. /\ behind' = IF activeOp = None THEN behind \cap BehindOperation(queue')
                     ELSE behind
        /\ activeOp' = activeOp
    BY <1>6 DEF Reorder, turnVars
  <2>4. BehindOperation(queue') =
          {x \in Entry \ Operations : Follows(queue'.followUp, x)}
    BY <2>2, BehindFollows
  <2> QED BY <1>1, <2>2, <2>3, <2>4 DEF Barrier
<1>7. CASE RestoreQueue(c)
  <2>1. PICK q \in Snapshots : /\ StartIfHead(q, Moved(Queued(q), "queue"))
                               /\ behind' = BehindOperation(q)
    BY <1>7 DEF RestoreQueue
  <2>2. activeOp = None
    <3>1. activeTurn = None
      BY <1>1, <1>7 DEF RestoreQueue, OperationInv, Untouched
    <3> QED BY <1>1, <3>1 DEF OperationInv, Alone, OperationTurn
  <2>3. q \in Queues /\ ToSet(q.steering) \cap Operations = {}
    BY SnapshotsAreQueues DEF Snapshots
  <2>4. Barrier(q, activeOp, behind')
    BY <2>1, <2>2, <2>3, BehindFollows DEF Barrier
  <2> QED BY <1>1, <2>1, <2>3, <2>4, StartIfHeadBarrier
<1>8. CASE QueueOperation(c)
  <2>1. behind' = behind
    BY <1>8 DEF QueueOperation
  <2>2. CASE \E P : StartIfHead(queue, P)
    BY <1>1, <2>1, <2>2, StartIfHeadBarrier
  <2>3. CASE \E e \in Entry : \E P :
               StartIfHead(EnqueueEntry(queue, "followUp", e), P)
    <3>1. PICK e \in Entry : \E P :
            StartIfHead(EnqueueEntry(queue, "followUp", e), P)
      BY <2>3
    <3>2. /\ EnqueueEntry(queue, "followUp", e) \in Queues
          /\ Barrier(EnqueueEntry(queue, "followUp", e), activeOp, behind)
      BY <1>1, QueueOperators, AppendBarrier
    <3> QED BY <1>1, <2>1, <3>1, <3>2, StartIfHeadBarrier
  <2> QED BY <1>8, <2>2, <2>3 DEF QueueOperation, Fresh
<1>9. CASE ResumeQueue(c)
  <2>1. queue'.followUp = queue.followUp /\ queue'.steering = queue.steering
        /\ UNCHANGED <<activeOp, behind>>
    BY <1>1, <1>9 DEF ResumeQueue, Resume, Queues, turnVars
  <2> QED BY <1>1, <2>1 DEF Barrier
<1>10. ~SendQueuedNow(c) /\ ~PromoteQueued(c)
  BY DEF SendQueuedNow, PromoteQueued, Invoke
<1>11. CASE \/ CallSend(c) \/ QueueNextTurnContext(c) \/ RequestContinuation(c)
            \/ RecordContext(c) \/ Cancel(c) \/ Close(c)
  <2>1. UNCHANGED <<queue, activeOp, behind>>
    BY <1>11 DEF CallSend, Await, QueueNextTurnContext, RequestContinuation,
                 RecordContext, Cancel, Close, queueVars, turnVars
  <2> QED BY <1>2, <2>1
<1> QED BY <1>3, <1>4, <1>5, <1>6, <1>7, <1>8, <1>9, <1>10, <1>11 DEF Request

LEMMA ProceedKeepsBarrier ==
  ASSUME BarrierInv, NEW c \in Caller, Proceed(c)
  PROVE  Barrier(queue', activeOp', behind')
<1>1. /\ OperationInv /\ SoleInv /\ TypeOK /\ queue \in Queues
      /\ Barrier(queue, activeOp, behind)
  BY DEF BarrierInv, OperationInv, SoleInv, TypeOK, QueueTypeOK
<1>2. state = "idle" => activeOp = None
  <2>1. state = "idle" => activeTurn = None
    BY <1>1 DEF SoleInv, SoleTurn, Sole
  <2> QED BY <1>1, <2>1 DEF OperationInv, Alone, OperationTurn
<1>3. ASSUME NEW op \in DOMAIN SendKind, QueueBusy(c, op)
      PROVE  Barrier(queue', activeOp', behind')
  <2>1. PICK e \in Entry : KindOf[e] # "operation" /\ \E b : Enter(e, b)
    BY <1>3 DEF QueueBusy, Fresh, SendKind
  <2>2. activeOp' = activeOp
    BY <1>3 DEF QueueBusy, turnVars
  <2> QED BY <2>1, <2>2, EnterBarrier
<1>4. CASE CloseCompletes(c)
  BY <1>4 DEF CloseCompletes, EmptyQueue, Barrier, ToSet
<1>5. CASE ResumeHead(c)
  <2>1. behind' = behind
    BY <1>5 DEF ResumeHead
  <2>2. CASE UNCHANGED <<turnVars, queue, place, frozen>>
    BY <1>1, <2>1, <2>2 DEF turnVars
  <2>3. CASE OperationDue(queue, state) /\ StartOperation(turn, queue, place)
    BY <1>1, <1>2, <2>1, <2>3, StartOperationBarrier DEF OperationDue
  <2>4. CASE /\ state = "idle" /\ activeOp' = activeOp
             /\ \E e \in FollowUpHead(queue) : BeginQueued(queue, e)
    <3>1. PICK e \in FollowUpHead(queue) : queue' = RemoveEntry(queue, e)
      BY <2>4 DEF BeginQueued
    <3>2. e \in Entry
      BY <1>1, FollowUpHeadKinds
    <3> QED BY <1>1, <1>2, <2>1, <2>4, <3>1, <3>2, RemoveBarrier
  <2> QED BY <1>5, <2>2, <2>3, <2>4 DEF ResumeHead
<1>6. CASE SendNowProceeds(c) \/ SendNowFails(c) \/ SendNowStarts(c)
  BY <1>1, <1>6 DEF SendNowProceeds, SendNowFails, SendNowStarts, Resumed,
                    SoleInv, NoSendNow
<1>7. CASE \/ \E op \in DOMAIN SendKind : StartIdle(c, op) \/ Refuse(c, op)
           \/ WaitForRelease(c) \/ LookAgain(c) \/ BeginWrite(c) \/ EndWrite(c)
           \/ CancelReturns(c) \/ CloseFails(c)
  <2>1. UNCHANGED <<queue, activeOp, behind>>
    BY <1>7 DEF StartIdle, Refuse, WaitForRelease, LookAgain, BeginWrite,
                EndWrite, CancelReturns, CloseFails, OnlyCallsChange,
                queueVars, turnVars
  <2> QED BY <1>1, <2>1
<1> QED BY <1>3, <1>4, <1>5, <1>6, <1>7 DEF Proceed

LEMMA AdvanceKeepsBarrier ==
  ASSUME "orphan" \notin Faults, BarrierInv, NEW t \in Slot, Advance(t)
  PROVE  Barrier(queue', activeOp', behind') /\ orphan' = "none"
<1>1. /\ OperationInv /\ SoleInv /\ TypeOK /\ queue \in Queues
      /\ Barrier(queue, activeOp, behind) /\ orphan = "none"
      /\ Sole(turn, activeTurn, state)
      /\ Alone(queue, activeOp, turn, activeTurn)
  BY DEF BarrierInv, OperationInv, SoleInv, SoleTurn, TypeOK, QueueTypeOK
<1>2. ASSUME turn[t].phase # "free", turn[t].kind # "operation"
      PROVE  activeOp = None
  BY <1>1, <1>2 DEF Sole, Alone, OperationTurn
<1>3. turn[t].kind = "operation" => turn[t].phase = "admission"
  BY <1>1 DEF Alone, OperationsStayAdmitted
<1>4. CASE Execute(t) \/ Deliver(t) \/ NaturalStop(t)
  BY <1>1, <1>4 DEF Execute, Deliver, NaturalStop, ControlUnchanged, queueVars
<1>5. CASE TakeSteering(t)
  <2>1. /\ queue' = AfterTakingSteering(queue)
        /\ UNCHANGED <<activeOp, behind, orphan>>
    BY <1>5 DEF TakeSteering, ControlUnchanged
  <2>2. /\ queue'.followUp = queue.followUp
        /\ ToSet(queue'.steering) \subseteq ToSet(queue.steering)
    BY <1>1, <2>1, TakingOnlyTakes
  <2> QED BY <1>1, <2>1, <2>2 DEF Barrier
<1>6. CASE TakeFollowUps(t)
  <2>1. PICK q \in PolicyQueues : queue' = AfterTakingFollowUps(q)
    BY <1>6 DEF TakeFollowUps
  <2>2. activeOp = None /\ UNCHANGED <<activeOp, behind, orphan>>
    BY <1>2, <1>3, <1>6 DEF TakeFollowUps, ControlUnchanged
  <2>3. q \in Queues /\ Barrier(q, activeOp, behind)
    <3>1. CASE q = queue
      BY <1>1, <3>1
    <3>2. CASE \E e \in Entry : q = EnqueueEntry(queue, "followUp", e)
      BY <1>1, <3>2, QueueOperators, AppendBarrier
    <3> QED BY <2>1, <3>1, <3>2 DEF PolicyQueues, Fresh
  <2>4. \A x : Follows(q.followUp, x) => Follows(queue'.followUp, x)
    BY <2>1, <2>3, TakingKeepsFollows
  <2>5. queue'.steering = q.steering
    BY <2>1, <2>3, TakingOnlyTakes
  <2> QED BY <1>1, <2>2, <2>3, <2>4, <2>5 DEF Barrier
<1>7. CASE Settle(t)
  <2>1. PICK q \in {queue, Pause(queue)} :
               \E P, s, at : FinishActiveTurn(t, q, P, s, at)
    BY <1>7 DEF Settle
  <2>2. activeOp = None /\ behind' = behind /\ orphan' = "none"
    BY <1>1, <1>2, <1>7 DEF Settle
  <2>3. q \in Queues /\ q.followUp = queue.followUp /\ q.steering = queue.steering
    BY <1>1, <2>1 DEF Pause, Queues
  <2>4. Barrier(q, None, behind)
    BY <1>1, <2>2, <2>3 DEF Barrier
  <2>5. \/ \E T, P : OperationAtHead(q) /\ StartOperation(T, q, P)
        \/ queue' = q /\ activeOp' = None
    <3>1. PICK P, s, at : FinishActiveTurn(t, q, P, s, at)
      BY <2>1
    <3> DEFINE T == [turn EXCEPT ![t] = FreeSlot]
    <3>2. \/ OperationDue(q, StateAfterTurn(s)) /\ StartOperation(T, q, P)
          \/ /\ queue' = q
             /\ \/ activeOp' = None
                \/ activeOp' = activeOp
      BY <3>1, Zenon DEF FinishActiveTurn
    <3> HIDE DEF T
    <3> QED BY <2>2, <3>2 DEF OperationDue
  <2> QED BY <2>2, <2>3, <2>4, <2>5, StartOperationBarrier
<1>8. CASE SettleOperation(t)
  <2>1. behind' = {} /\ orphan' = "none"
    BY <1>1, <1>8 DEF SettleOperation
  <2>2. queue' = queue \/ (OperationAtHead(queue) /\ queue' = DropHead(queue))
    <3>1. PICK P, s, at : FinishActiveTurn(t, queue, P, s, at)
      BY <1>8 DEF SettleOperation
    <3>2. \/ /\ OperationDue(queue, StateAfterTurn(s))
             /\ StartOperation([turn EXCEPT ![t] = FreeSlot], queue, P)
          \/ queue' = queue
      BY <3>1, Zenon DEF FinishActiveTurn
    <3> QED BY <3>2 DEF OperationDue, StartOperation
  <2>3. queue'.steering = queue.steering
    BY <1>1, <2>2, TakingOnlyTakes
  <2> QED BY <1>1, <2>1, <2>3 DEF Barrier
<1> QED BY <1>4, <1>5, <1>6, <1>7, <1>8 DEF Advance

LEMMA ScheduledKeepsBarrier ==
  ASSUME BarrierInv, Scheduled
  PROVE  Barrier(queue', activeOp', behind')
<1>1. /\ OperationInv /\ SoleInv /\ queue \in Queues
      /\ Barrier(queue, activeOp, behind)
  BY DEF BarrierInv, OperationInv, SoleInv, TypeOK, QueueTypeOK
<1>2. state = "idle" => activeOp = None
  <2>1. state = "idle" => activeTurn = None
    BY <1>1 DEF SoleInv, SoleTurn, Sole
  <2> QED BY <1>1, <2>1 DEF OperationInv, Alone, OperationTurn
<1>3. CASE DrainResumes \/ DrainEnds
  BY <1>1, <1>3 DEF DrainResumes, DrainEnds, queueVars
<1>4. CASE AfterOperation
  <2>1. behind' = behind
    BY <1>4 DEF AfterOperation
  <2>2. CASE UNCHANGED <<activeOp, queue>>
    BY <1>1, <2>1, <2>2
  <2>3. CASE OperationDue(queue, state) /\ StartOperation(turn, queue, place)
    BY <1>1, <1>2, <2>1, <2>3, StartOperationBarrier DEF OperationDue
  <2>4. CASE /\ state = "idle" /\ activeOp' = activeOp
             /\ \E e \in FollowUpHead(queue) : BeginQueued(queue, e)
    <3>1. PICK e \in FollowUpHead(queue) : queue' = RemoveEntry(queue, e)
      BY <2>4 DEF BeginQueued
    <3>2. e \in Entry
      BY <1>1, FollowUpHeadKinds
    <3> QED BY <1>1, <1>2, <2>1, <2>4, <3>1, <3>2, RemoveBarrier
  <2> QED BY <1>4, <2>2, <2>3, <2>4 DEF AfterOperation
<1> QED BY <1>3, <1>4 DEF Scheduled

LEMMA NextKeepsBarrier ==
  ASSUME {"sendQueuedNow", "promote"} \cap Calls = {}, "orphan" \notin Faults
  PROVE  BarrierInv /\ [Next]_vars => BarrierInv'
<1> SUFFICES ASSUME BarrierInv, [Next]_vars PROVE BarrierInv'
  OBVIOUS
<1>1. /\ OperationInv /\ Barrier(queue, activeOp, behind) /\ orphan = "none"
  BY DEF BarrierInv
<1>2. OperationInv'
  BY <1>1, NextKeepsOperations
<1>3. orphan' = "none"
  <2>1. ASSUME NEW c \in Caller, Request(c) PROVE orphan' = orphan
    BY <2>1 DEF Request, CallSend, Await, QueueInput, QueueNextTurnContext,
       RequestContinuation, RecordContext, ClearQueue, RemoveQueued, Reorder,
       PromoteQueued, RestoreQueue, QueueOperation, Cancel, Close,
       SendQueuedNow, ResumeQueue, turnVars
  <2>2. ASSUME NEW c \in Caller, Proceed(c) PROVE orphan' = orphan
    BY <2>2 DEF Proceed, StartIdle, QueueBusy, Refuse, WaitForRelease,
       LookAgain, BeginWrite, EndWrite, CancelReturns, CloseCompletes,
       CloseFails, SendNowProceeds, SendNowFails, SendNowStarts, ResumeHead,
       OnlyCallsChange, turnVars
  <2>3. Scheduled => orphan' = orphan
    BY DEF Scheduled, DrainResumes, DrainEnds, AfterOperation
  <2>4. OrphanTakes => orphan' = "none"
    BY DEF OrphanTakes
  <2>5. ASSUME NEW t \in Slot, SignalAbort(t) PROVE orphan' = orphan
    BY <2>5 DEF SignalAbort
  <2>6. ASSUME NEW c \in Caller, AbandonWaiting(c) PROVE orphan' = orphan
    BY <2>6 DEF AbandonWaiting, OnlyCallsChange, turnVars
  <2>7. UNCHANGED vars => orphan' = orphan
    BY DEF vars, turnVars
  <2> QED BY <1>1, <2>1, <2>2, <2>3, <2>4, <2>5, <2>6, <2>7, AdvanceKeepsBarrier
          DEF Next
<1>4. CASE \/ \E c \in Caller : AbandonWaiting(c)
           \/ \E t \in Slot : SignalAbort(t)
           \/ UNCHANGED vars
  <2>1. UNCHANGED <<queue, activeOp, behind>>
    BY <1>4 DEF AbandonWaiting, SignalAbort, OnlyCallsChange, queueVars,
                turnVars, vars
  <2> QED BY <1>1, <1>2, <1>3, <2>1 DEF BarrierInv
<1>5. ~OrphanTakes
  BY <1>1 DEF OrphanTakes
<1>6. CASE \/ \E c \in Caller : Request(c) \/ Proceed(c)
           \/ \E t \in Slot : Advance(t)
           \/ Scheduled
  <2>1. Barrier(queue', activeOp', behind')
    BY <1>6, RequestKeepsBarrier, ProceedKeepsBarrier, AdvanceKeepsBarrier,
       ScheduledKeepsBarrier
  <2> QED BY <1>2, <1>3, <2>1 DEF BarrierInv
<1> QED BY <1>4, <1>5, <1>6 DEF Next

\* Nothing that was queued behind a compaction is consumed before it ended,
\* unless the user sends it now or promotes it, or a tool outlives its turn.
THEOREM CompactionIsABarrier ==
  ASSUME {"sendQueuedNow", "promote"} \cap Calls = {}, "orphan" \notin Faults
  PROVE  Spec => []OperationIsBarrier
<1>1. Init => BarrierInv
  BY InitOperations DEF Init, BarrierInv, Barrier, EmptyQueue, ToSet
<1>2. BarrierInv => OperationIsBarrier
  <2> SUFFICES ASSUME BarrierInv PROVE behind \subseteq Queued(queue)
    BY DEF OperationIsBarrier
  <2>1. queue.followUp \in Seq(Entry) /\ Barrier(queue, activeOp, behind)
    BY DEF BarrierInv, OperationInv, SoleInv, TypeOK, QueueTypeOK, Queues
  <2>2. behind \subseteq ToSet(queue.followUp)
    BY <2>1, FollowsIsIn DEF Barrier
  <2> QED BY <2>2 DEF Queued
<1>3. BarrierInv /\ [Next]_vars => BarrierInv'
  BY NextKeepsBarrier
<1> QED BY <1>1, <1>2, <1>3, PTL DEF Spec

-----------------------------------------------------------------------------
(* Every entry in its place.                                               *)
(*                                                                         *)
(* The ledger "place" is compared with the queue, with the turns and with  *)
(* the suspended calls, in a predicate each, so that a step is argued for  *)
(* the parts it touches.  The calls need most: that a sendQueuedNow cannot *)
(* be dropped with its entry because its caller is still on a list of      *)
(* continuation waiters, a caller must be on one list at most and wait for *)
(* a continuation as long as it is.                                        *)

QueueHolds(q, P) == Distinct(q) /\ Queued(q) = {e \in Entry : P[e] = "queue"}

FreeHoldsNothing(v) == v.phase = "free" => v.holds = {}

TurnsHold(T, P) ==
  /\ \A t \in Slot : FreeHoldsNothing(T[t])
  /\ \A e \in Entry : P[e] = "turn" <=> \E t \in Slot : e \in T[t].holds
  /\ \A t, u \in Slot : \A e \in Entry :
       e \in T[t].holds /\ e \in T[u].holds => t = u

Sends(C, c) == C[c].op = "sendQueuedNow"

CallsHold(C, P) ==
  /\ \A e \in Entry :
       P[e] = "call" <=> \E c \in Caller : Sends(C, c) /\ C[c].entry = e
  /\ \A c, d \in Caller :
       Sends(C, c) /\ Sends(C, d) /\ C[c].entry = C[d].entry => c = d
  /\ \A c \in Caller :
       Sends(C, c) => C[c].at \in {"contextWrite", "turn", "released", "failed"}

WaitersWait(C, ws, W) ==
  /\ ws \subseteq Caller /\ W \subseteq Caller /\ ws \cap W = {}
  /\ \A c \in ws \cup W :
       C[c].op = "requestContinuation" /\ C[c].at = "continuation"

CallsAgree(C, P, ws, W) == CallsHold(C, P) /\ WaitersWait(C, ws, W)

Placed ==
  /\ QueueHolds(queue, place)
  /\ TurnsHold(turn, place)
  /\ CallsAgree(call, place, waiters, drain.waiters)

PlaceInv == TypeOK /\ Untouched /\ Placed

\* What another place of the ledger does not show.
LEMMA SamePlaces ==
  ASSUME NEW P, NEW R
  PROVE  /\ \A q : /\ QueueHolds(q, P)
                   /\ \A e \in Entry : R[e] = "queue" <=> P[e] = "queue"
                   => QueueHolds(q, R)
         /\ \A T : /\ TurnsHold(T, P)
                   /\ \A e \in Entry : R[e] = "turn" <=> P[e] = "turn"
                   => TurnsHold(T, R)
         /\ \A C, ws, W : /\ CallsAgree(C, P, ws, W)
                          /\ \A e \in Entry : R[e] = "call" <=> P[e] = "call"
                          => CallsAgree(C, R, ws, W)
<1>1. ASSUME NEW q, QueueHolds(q, P),
             \A e \in Entry : R[e] = "queue" <=> P[e] = "queue"
      PROVE  QueueHolds(q, R)
  BY <1>1 DEF QueueHolds
<1>2. ASSUME NEW T, TurnsHold(T, P),
             \A e \in Entry : R[e] = "turn" <=> P[e] = "turn"
      PROVE  TurnsHold(T, R)
  BY <1>2, Zenon DEF TurnsHold
<1>3. ASSUME NEW C, NEW ws, NEW W, CallsAgree(C, P, ws, W),
             \A e \in Entry : R[e] = "call" <=> P[e] = "call"
      PROVE  CallsAgree(C, R, ws, W)
  BY <1>3, Zenon DEF CallsAgree, CallsHold
<1> QED BY <1>1, <1>2, <1>3, Zenon

\* From ledger P to ledger R a turn that held the entries in gone comes to hold
\* those in come.
Exchanged(P, R, gone, come) ==
  /\ \A e \in come : e \in gone \/ P[e] # "turn"
  /\ \A e \in Entry :
       R[e] = "turn" <=> e \in come \/ (P[e] = "turn" /\ e \notin gone)

\* Slot t gets the record v, with other entries or in another phase.
LEMMA UpdateHolds ==
  ASSUME NEW T \in [Slot -> Turns], NEW t \in Slot, NEW v \in Turns,
         NEW P, NEW R, TurnsHold(T, P),
         FreeHoldsNothing(v), Exchanged(P, R, T[t].holds, v.holds)
  PROVE  TurnsHold([T EXCEPT ![t] = v], R)
<1> DEFINE U == [T EXCEPT ![t] = v]
<1>1. U[t] = v /\ \A u \in Slot : u # t => U[u] = T[u]
  OBVIOUS
<1>2. v.holds \subseteq Entry
  BY DEF Turns
<1> HIDE DEF U
<1>3. \A u \in Slot : FreeHoldsNothing(U[u])
  BY <1>1 DEF TurnsHold
<1>4. ASSUME NEW e \in Entry, NEW u \in Slot, u # t, e \in T[u].holds
      PROVE  P[e] = "turn" /\ e \notin T[t].holds /\ e \notin v.holds
  BY <1>4 DEF TurnsHold, Exchanged
<1>5. ASSUME NEW e \in Entry
      PROVE  R[e] = "turn" <=> \E u \in Slot : e \in U[u].holds
  <2>1. ASSUME R[e] = "turn" PROVE \E u \in Slot : e \in U[u].holds
    <3>1. CASE e \in v.holds
      BY <1>1, <3>1
    <3>2. CASE P[e] = "turn" /\ e \notin T[t].holds
      BY <1>1, <3>2 DEF TurnsHold
    <3> QED BY <2>1, <3>1, <3>2 DEF Exchanged
  <2>2. ASSUME NEW u \in Slot, e \in U[u].holds PROVE R[e] = "turn"
    <3>1. CASE u = t
      BY <1>1, <2>2, <3>1 DEF Exchanged
    <3>2. CASE u # t
      BY <1>1, <1>4, <2>2, <3>2 DEF Exchanged
    <3> QED BY <3>1, <3>2
  <2> QED BY <2>1, <2>2
<1>6. ASSUME NEW u \in Slot, NEW w \in Slot, NEW e \in Entry,
             e \in U[u].holds, e \in U[w].holds
      PROVE  u = w
  <2>1. CASE u = t \/ w = t
    BY <1>1, <1>4, <1>6, <2>1
  <2>2. CASE u # t /\ w # t
    BY <1>1, <1>6, <2>2 DEF TurnsHold
  <2> QED BY <2>1, <2>2
<1>7. TurnsHold(U, R)
  BY <1>3, <1>5, <1>6 DEF TurnsHold
<1> QED BY <1>7 DEF U

\* What a turn holds is with a turn.
LEMMA HeldIsWithTurn ==
  ASSUME NEW T \in [Slot -> Turns], NEW P, TurnsHold(T, P), NEW t \in Slot
  PROVE  /\ T[t].holds \subseteq Entry
         /\ \A e \in T[t].holds : P[e] = "turn"
<1>1. T[t].holds \subseteq Entry
  BY DEF Turns
<1> QED BY <1>1 DEF TurnsHold

\* An abort takes nothing from a turn.
LEMMA AbortHolds ==
  ASSUME NEW T \in [Slot -> Turns], NEW P, TurnsHold(T, P), NEW u
  PROVE  TurnsHold([T EXCEPT ![u].aborted = TRUE], P)
<1>1. CASE u \notin Slot
  <2>1. [T EXCEPT ![u].aborted = TRUE] = T
    BY <1>1
  <2> QED BY <2>1
<1>2. CASE u \in Slot
  <2> DEFINE v == [T[u] EXCEPT !.aborted = TRUE]
  <2>1. v \in Turns /\ v.phase = T[u].phase /\ v.holds = T[u].holds
    BY <1>2 DEF Turns
  <2>2. [T EXCEPT ![u].aborted = TRUE] = [T EXCEPT ![u] = v]
    BY <1>2
  <2> HIDE DEF v
  <2>3. FreeHoldsNothing(v)
    BY <1>2, <2>1 DEF TurnsHold, FreeHoldsNothing
  <2>4. Exchanged(P, P, T[u].holds, v.holds)
    BY <1>2, <2>1, HeldIsWithTurn DEF Exchanged
  <2>5. TurnsHold([T EXCEPT ![u] = v], P)
    BY <1>2, <2>1, <2>3, <2>4, UpdateHolds
  <2> QED BY <2>2, <2>5
<1> QED BY <1>1, <1>2

\* A new turn holds what it is started for.
LEMMA BeginHolds ==
  ASSUME NEW T \in [Slot -> Turns], NEW kind \in TurnKinds,
         NEW es \in SUBSET Entry, NEW signal \in BOOLEAN,
         Begin(T, kind, es, signal),
         NEW P, NEW R, TurnsHold(T, P), Exchanged(P, R, {}, es)
  PROVE  TurnsHold(turn', R)
<1> DEFINE v == [kind |-> kind, phase |-> "admission", aborted |-> FALSE,
                 signal |-> signal, holds |-> es]
<1>1. PICK t \in Slot : T[t].phase = "free" /\ turn' = [T EXCEPT ![t] = v]
  BY DEF Begin
<1>2. v \in Turns /\ v.phase # "free" /\ v.holds = es
  BY DEF Turns, Phases
<1>3. T[t].holds = {}
  BY <1>1 DEF TurnsHold, FreeHoldsNothing
<1> HIDE DEF v
<1>4. FreeHoldsNothing(v) /\ Exchanged(P, R, T[t].holds, v.holds)
  BY <1>2, <1>3 DEF FreeHoldsNothing, Exchanged
<1>5. TurnsHold([T EXCEPT ![t] = v], R)
  BY <1>2, <1>4, UpdateHolds
<1> QED BY <1>1, <1>5

-----------------------------------------------------------------------------
(* Calls: whoever is on no list and sends nothing may do what it likes.    *)

LEMMA NotWaiting ==
  ASSUME NEW C, NEW ws, NEW W, WaitersWait(C, ws, W), NEW c,
         C[c].op # "requestContinuation" \/ C[c].at # "continuation"
  PROVE  c \notin ws \cup W
BY DEF WaitersWait

LEMMA OthersMove ==
  ASSUME NEW C, NEW D, NEW P, NEW ws, NEW W, CallsAgree(C, P, ws, W),
         \A c \in Caller :
           \/ D[c] = C[c]
           \/ ~Sends(C, c) /\ ~Sends(D, c) /\ c \notin ws \cup W
  PROVE  CallsAgree(D, P, ws, W)
<1>1. \A c \in Caller : /\ Sends(D, c) <=> Sends(C, c)
                        /\ Sends(C, c) => D[c] = C[c]
  BY DEF Sends
<1>2. CallsHold(D, P)
  BY <1>1 DEF CallsAgree, CallsHold
<1>3. \A c \in ws \cup W : c \in Caller /\ D[c] = C[c]
  BY DEF CallsAgree, WaitersWait
<1>4. WaitersWait(D, ws, W)
  BY <1>3 DEF CallsAgree, WaitersWait
<1> QED BY <1>2, <1>4 DEF CallsAgree

\* One caller that sends nothing goes on to what is no sendQueuedNow.
LEMMA OneMoves ==
  ASSUME NEW C \in CallMaps, NEW P, NEW ws, NEW W, CallsAgree(C, P, ws, W),
         NEW c \in Caller, ~Sends(C, c), c \notin ws \cup W,
         NEW r, r.op # "sendQueuedNow"
  PROVE  CallsAgree([C EXCEPT ![c] = r], P, ws, W)
<1> DEFINE D == [C EXCEPT ![c] = r]
<1>1. D[c] = r /\ \A d \in Caller : d # c => D[d] = C[d]
  BY DEF CallMaps
<1> HIDE DEF D
<1>2. \A d \in Caller : \/ D[d] = C[d]
                        \/ ~Sends(C, d) /\ ~Sends(D, d) /\ d \notin ws \cup W
  BY <1>1 DEF Sends
<1>3. CallsAgree(D, P, ws, W)
  BY <1>2, OthersMove
<1> QED BY <1>3 DEF D

\* The callers in R return; none of them has an entry.
LEMMA ReturnAgrees ==
  ASSUME NEW C, NEW P, NEW ws, NEW W, CallsAgree(C, P, ws, W),
         NEW R, \A c \in R : ~Sends(C, c)
  PROVE  CallsAgree(Return(C, R), P, ws \ R, W \ R)
<1> DEFINE D == Return(C, R)
<1>1. \A c \in Caller : D[c] = IF c \in R THEN Ready ELSE C[c]
  BY DEF Return
<1> HIDE DEF D
<1>2. \A c \in Caller : \/ D[c] = C[c]
                        \/ /\ ~Sends(C, c) /\ ~Sends(D, c)
                           /\ c \notin (ws \ R) \cup (W \ R)
  BY <1>1 DEF Sends, Ready
<1>3. CallsAgree(C, P, ws \ R, W \ R)
  BY DEF CallsAgree, WaitersWait
<1>4. CallsAgree(D, P, ws \ R, W \ R)
  BY <1>2, <1>3, OthersMove
<1> QED BY <1>4 DEF D

\* One caller that is on no list returns.
LEMMA OneReturns ==
  ASSUME NEW C, NEW P, NEW ws, NEW W, CallsAgree(C, P, ws, W),
         NEW c, ~Sends(C, c), c \notin ws \cup W
  PROVE  CallsAgree(Return(C, {c}), P, ws, W)
<1>1. ws \ {c} = ws /\ W \ {c} = W
  OBVIOUS
<1>2. CallsAgree(Return(C, {c}), P, ws \ {c}, W \ {c})
  BY ReturnAgrees
<1> QED BY <1>1, <1>2

\* The waiters of a list, and what may be done with the lists.
LEMMA WaitersSendNothing ==
  ASSUME NEW C, NEW P, NEW ws, NEW W, CallsAgree(C, P, ws, W)
  PROVE  /\ \A c \in ws \cup W : ~Sends(C, c)
         /\ CallsAgree(Return(C, ws), P, {}, W)
         /\ CallsAgree(Return(C, W), P, ws, {})
         /\ CallsAgree(C, P, {}, ws)
         /\ CallsAgree(C, P, {}, W)
<1>1. \A c \in ws \cup W : ~Sends(C, c)
  BY DEF CallsAgree, WaitersWait, Sends
<1>2. ws \cap W = {} /\ ws \ ws = {} /\ W \ W = {}
  BY DEF CallsAgree, WaitersWait
<1>3. W \ ws = W /\ ws \ W = ws
  BY <1>2
<1>4. /\ CallsAgree(Return(C, ws), P, ws \ ws, W \ ws)
      /\ CallsAgree(Return(C, W), P, ws \ W, W \ W)
  BY <1>1, ReturnAgrees
<1>5. CallsAgree(C, P, {}, ws) /\ CallsAgree(C, P, {}, W)
  BY DEF CallsAgree, WaitersWait
<1> QED BY <1>1, <1>2, <1>3, <1>4, <1>5

\* The turn a call awaits settles: the call keeps its entry.
LEMMA ReleasedAgrees ==
  ASSUME NEW C \in CallMaps, NEW P, NEW ws, NEW W, CallsAgree(C, P, ws, W),
         NEW t, NEW at \in {"released", "failed"}
  PROVE  CallsAgree(Released(C, t, at), P, ws, W)
<1> DEFINE D == Released(C, t, at)
<1>1. \A c \in Caller : /\ D[c].op = C[c].op /\ D[c].entry = C[c].entry
                        /\ \/ D[c] = C[c]
                           \/ C[c].at = "turn" /\ D[c].at = at
  BY DEF Released, CallMaps, CallRecords
<1> HIDE DEF D
<1>2. \A c \in Caller : Sends(D, c) <=> Sends(C, c)
  BY <1>1 DEF Sends
<1>3. CallsHold(D, P)
  <2>1. \A e \in Entry :
          P[e] = "call" <=> \E c \in Caller : Sends(D, c) /\ D[c].entry = e
    BY <1>1, <1>2 DEF CallsAgree, CallsHold
  <2>2. \A c, d \in Caller :
          Sends(D, c) /\ Sends(D, d) /\ D[c].entry = D[d].entry => c = d
    BY <1>1, <1>2 DEF CallsAgree, CallsHold
  <2>3. \A c \in Caller :
          Sends(D, c) => D[c].at \in {"contextWrite", "turn", "released", "failed"}
    BY <1>1, <1>2 DEF CallsAgree, CallsHold
  <2> QED BY <2>1, <2>2, <2>3 DEF CallsHold
<1>4. WaitersWait(D, ws, W)
  BY <1>1 DEF CallsAgree, WaitersWait
<1>5. CallsAgree(D, P, ws, W)
  BY <1>3, <1>4 DEF CallsAgree
<1> QED BY <1>5 DEF D

\* A caller joins the list of waiters.
LEMMA WaiterJoins ==
  ASSUME NEW C \in CallMaps, NEW P, NEW ws, NEW W, CallsAgree(C, P, ws, W),
         NEW c \in Caller, C[c] = Ready,
         NEW r, r.op = "requestContinuation", r.at = "continuation"
  PROVE  CallsAgree([C EXCEPT ![c] = r], P, ws \cup {c}, W)
<1> DEFINE D == [C EXCEPT ![c] = r]
<1>1. D[c] = r
  BY DEF CallMaps
<1>2. ~Sends(C, c) /\ c \notin ws \cup W
  BY NotWaiting DEF Sends, Ready, CallsAgree
<1>3. CallsAgree(D, P, ws, W)
  BY <1>2, OneMoves
<1> HIDE DEF D
<1>4. CallsAgree(D, P, ws \cup {c}, W)
  BY <1>1, <1>2, <1>3 DEF CallsAgree, WaitersWait
<1> QED BY <1>4 DEF D

\* From ledger P to ledger R entry e goes to a call; or leaves it.
IntoCall(P, R, e) == \A x \in Entry : R[x] = "call" <=> x = e \/ P[x] = "call"
OutOfCall(P, R, e) == \A x \in Entry : R[x] = "call" <=> P[x] = "call" /\ x # e

\* A call of sendQueuedNow takes entry e.
LEMMA SenderTakes ==
  ASSUME NEW C \in CallMaps, NEW P, NEW R, NEW ws, NEW W,
         CallsAgree(C, P, ws, W), NEW c \in Caller, C[c] = Ready,
         NEW e \in Entry, P[e] # "call",
         NEW r, r.op = "sendQueuedNow", r.entry = e,
         r.at \in {"contextWrite", "turn"}, IntoCall(P, R, e)
  PROVE  CallsAgree([C EXCEPT ![c] = r], R, ws, W)
<1> DEFINE D == [C EXCEPT ![c] = r]
<1>1. D[c] = r /\ \A d \in Caller : d # c => D[d] = C[d]
  BY DEF CallMaps
<1>2. ~Sends(C, c) /\ c \notin ws \cup W
  BY NotWaiting DEF Sends, Ready, CallsAgree
<1> HIDE DEF D
<1>3. /\ Sends(D, c)
      /\ \A d \in Caller : d # c => (Sends(D, d) <=> Sends(C, d))
  BY <1>1 DEF Sends
<1>4. \A d \in Caller : Sends(C, d) => C[d].entry # e
  BY DEF CallsAgree, CallsHold
<1>5. ASSUME NEW x \in Entry
      PROVE  R[x] = "call" <=> \E d \in Caller : Sends(D, d) /\ D[d].entry = x
  <2>1. CASE x = e
    BY <1>1, <1>3, <2>1 DEF IntoCall
  <2>2. CASE x # e
    <3>1. R[x] = "call" <=> \E d \in Caller : Sends(C, d) /\ C[d].entry = x
      BY <2>2 DEF CallsAgree, CallsHold, IntoCall
    <3> QED BY <1>1, <1>2, <1>3, <2>2, <3>1
  <2> QED BY <2>1, <2>2
<1>6. ASSUME NEW d \in Caller, NEW f \in Caller, Sends(D, d), Sends(D, f),
             D[d].entry = D[f].entry
      PROVE  d = f
  <2>1. CASE d = c \/ f = c
    BY <1>1, <1>3, <1>4, <1>6, <2>1
  <2>2. CASE d # c /\ f # c
    BY <1>1, <1>3, <1>6, <2>2 DEF CallsAgree, CallsHold
  <2> QED BY <2>1, <2>2
<1>7. \A d \in Caller :
        Sends(D, d) => D[d].at \in {"contextWrite", "turn", "released", "failed"}
  BY <1>1, <1>3 DEF CallsAgree, CallsHold
<1>8. CallsHold(D, R)
  BY <1>5, <1>6, <1>7 DEF CallsHold
<1>9. WaitersWait(D, ws, W)
  BY <1>1, <1>2 DEF CallsAgree, WaitersWait
<1>10. CallsAgree(D, R, ws, W)
  BY <1>8, <1>9 DEF CallsAgree
<1> QED BY <1>10 DEF D

\* A call of sendQueuedNow goes on with its entry.
LEMMA SenderGoesOn ==
  ASSUME NEW C \in CallMaps, NEW P, NEW ws, NEW W, CallsAgree(C, P, ws, W),
         NEW c \in Caller, Sends(C, c),
         NEW r, r.op = "sendQueuedNow", r.entry = C[c].entry,
         r.at \in {"contextWrite", "turn"}
  PROVE  CallsAgree([C EXCEPT ![c] = r], P, ws, W)
<1> DEFINE D == [C EXCEPT ![c] = r]
<1>1. D[c] = r /\ \A d \in Caller : d # c => D[d] = C[d]
  BY DEF CallMaps
<1> HIDE DEF D
<1>2. \A d \in Caller : /\ Sends(D, d) <=> Sends(C, d)
                        /\ D[d].entry = C[d].entry
  BY <1>1 DEF Sends
<1>3. \A d \in Caller :
        Sends(D, d) => D[d].at \in {"contextWrite", "turn", "released", "failed"}
  BY <1>1, <1>2 DEF CallsAgree, CallsHold
<1>4. CallsHold(D, P)
  BY <1>2, <1>3 DEF CallsAgree, CallsHold
<1>5. c \notin ws \cup W
  BY NotWaiting DEF Sends, CallsAgree
<1>6. WaitersWait(D, ws, W)
  BY <1>1, <1>5 DEF CallsAgree, WaitersWait
<1>7. CallsAgree(D, P, ws, W)
  BY <1>4, <1>6 DEF CallsAgree
<1> QED BY <1>7 DEF D

\* A call of sendQueuedNow returns, and its entry goes where ledger R says.
LEMMA SenderReturns ==
  ASSUME NEW C \in CallMaps, NEW P, NEW R, NEW ws, NEW W,
         CallsAgree(C, P, ws, W), NEW c \in Caller, Sends(C, c),
         OutOfCall(P, R, C[c].entry)
  PROVE  CallsAgree(Return(C, {c}), R, ws, W)
<1> DEFINE D == Return(C, {c})
<1>1. D[c] = Ready /\ \A d \in Caller : d # c => D[d] = C[d]
  BY DEF Return
<1> HIDE DEF D
<1>2. /\ ~Sends(D, c)
      /\ \A d \in Caller : d # c => (Sends(D, d) <=> Sends(C, d))
  BY <1>1 DEF Sends, Ready
<1>3. \A d \in Caller : d # c /\ Sends(C, d) => C[d].entry # C[c].entry
  BY DEF CallsAgree, CallsHold
<1>4. ASSUME NEW x \in Entry
      PROVE  R[x] = "call" <=> \E d \in Caller : Sends(D, d) /\ D[d].entry = x
  <2>1. P[x] = "call" <=> \E d \in Caller : Sends(C, d) /\ C[d].entry = x
    BY DEF CallsAgree, CallsHold
  <2> QED BY <1>1, <1>2, <1>3, <2>1 DEF OutOfCall
<1>5. \A d, f \in Caller :
        Sends(D, d) /\ Sends(D, f) /\ D[d].entry = D[f].entry => d = f
  BY <1>1, <1>2 DEF CallsAgree, CallsHold
<1>6. \A d \in Caller :
        Sends(D, d) => D[d].at \in {"contextWrite", "turn", "released", "failed"}
  BY <1>1, <1>2 DEF CallsAgree, CallsHold
<1>7. CallsHold(D, R)
  BY <1>4, <1>5, <1>6 DEF CallsHold
<1>8. c \notin ws \cup W
  BY NotWaiting DEF Sends, CallsAgree
<1>9. WaitersWait(D, ws, W)
  BY <1>1, <1>8 DEF CallsAgree, WaitersWait
<1>10. CallsAgree(D, R, ws, W)
  BY <1>7, <1>9 DEF CallsAgree
<1> QED BY <1>10 DEF D

-----------------------------------------------------------------------------
(* The operators that start and end turns. *)

\* A turn that is started for no entry.
LEMMA BeginEmptyHolds ==
  ASSUME NEW T \in [Slot -> Turns], NEW kind \in TurnKinds,
         NEW signal \in BOOLEAN, Begin(T, kind, {}, signal),
         NEW P, TurnsHold(T, P)
  PROVE  TurnsHold(turn', P)
<1>1. {} \in SUBSET Entry /\ Exchanged(P, P, {}, {})
  BY DEF Exchanged
<1> QED BY <1>1, BeginHolds

LEMMA StartContinuationHolds ==
  ASSUME NEW T \in [Slot -> Turns], NEW ws, NEW P, TurnsHold(T, P),
         NEW C, NEW W, CallsAgree(C, P, ws, W), StartContinuation(T, ws)
  PROVE  /\ TurnsHold(turn', P)
         /\ CallsAgree(C, P, waiters', drain'.waiters)
<1>1. Begin(T, "continuation", {}, FALSE) /\ "continuation" \in TurnKinds
  BY DEF StartContinuation, TurnKinds
<1>2. TurnsHold(turn', P)
  BY <1>1, BeginEmptyHolds
<1>3. waiters' = {} /\ drain'.waiters = ws
  BY DEF StartContinuation
<1>4. CallsAgree(C, P, {}, ws)
  BY WaitersSendNothing
<1> QED BY <1>2, <1>3, <1>4

LEMMA ScheduleHolds ==
  ASSUME NEW T \in [Slot -> Turns], NEW a, NEW s, NEW asked, NEW ws, NEW D,
         NEW C, NEW P, TurnsHold(T, P), CallsAgree(C, P, ws, D.waiters),
         Schedule(T, a, s, asked, ws, D, C)
  PROVE  /\ TurnsHold(turn', P)
         /\ CallsAgree(call', P, waiters', drain'.waiters)
<1>1. CASE StartContinuation(T, ws) /\ call' = C
  BY <1>1, StartContinuationHolds
<1>2. CASE turn' = T /\ waiters' = {} /\ drain' = D /\ call' = Return(C, ws)
  BY <1>2, WaitersSendNothing
<1>3. CASE turn' = T /\ waiters' = ws /\ drain' = D /\ call' = C
  BY <1>3
<1> QED BY <1>1, <1>2, <1>3 DEF Schedule

\* An operation is dropped from the head of the queue into its turn.
LEMMA StartOperationHolds ==
  ASSUME NEW T \in [Slot -> Turns], NEW q \in Queues, NEW P \in Ledgers,
         QueueHolds(q, P), TurnsHold(T, P), OperationAtHead(q),
         StartOperation(T, q, P)
  PROVE  /\ QueueHolds(queue', place') /\ TurnsHold(turn', place')
         /\ \A e \in Entry : place'[e] = "call" <=> P[e] = "call"
<1> DEFINE x == Head(q.followUp)
<1>1. x \in Queued(q)
  BY OperationHead
<1>2. x \in Entry /\ P[x] = "queue"
  BY <1>1 DEF QueueHolds
<1>3. /\ Begin(T, "operation", {x}, FALSE) /\ "operation" \in TurnKinds
      /\ queue' = DropHead(q) /\ place' = [P EXCEPT ![x] = "turn"]
  BY DEF StartOperation, TurnKinds
<1>4. Distinct(DropHead(q)) /\ Queued(DropHead(q)) = Queued(q) \ {x}
  BY TakingKeepsDistinct DEF QueueHolds
<1> HIDE DEF x
<1>5. \A e \in Entry : place'[e] = IF e = x THEN "turn" ELSE P[e]
  BY <1>2, <1>3 DEF Ledgers
<1>6. QueueHolds(queue', place')
  BY <1>1, <1>3, <1>4, <1>5 DEF QueueHolds
<1>7. TurnsHold(turn', place')
  <2>1. {x} \in SUBSET Entry /\ Exchanged(P, place', {}, {x})
    BY <1>2, <1>5 DEF Exchanged
  <2> QED BY <1>3, <2>1, BeginHolds
<1> QED BY <1>2, <1>5, <1>6, <1>7

LEMMA StartIfHeadHolds ==
  ASSUME TypeOK, NEW q \in Queues, NEW P \in Ledgers, StartIfHead(q, P),
         QueueHolds(q, P), TurnsHold(turn, P),
         CallsAgree(call, P, waiters, drain.waiters)
  PROVE  /\ QueueHolds(queue', place') /\ TurnsHold(turn', place')
         /\ CallsAgree(call, place', waiters, drain.waiters)
<1>1. CASE OperationDue(q, state)
  <2>1. /\ QueueHolds(queue', place') /\ TurnsHold(turn', place')
        /\ \A e \in Entry : place'[e] = "call" <=> P[e] = "call"
    <3>1. OperationAtHead(q) /\ StartOperation(turn, q, P)
      BY <1>1 DEF StartIfHead, OperationDue
    <3>2. turn \in [Slot -> Turns]
      BY DEF TypeOK, ControlTypeOK
    <3> QED BY <3>1, <3>2, StartOperationHolds
  <2> QED BY <2>1, SamePlaces
<1>2. CASE ~OperationDue(q, state)
  BY <1>2 DEF StartIfHead
<1> QED BY <1>1, <1>2

LEMMA FinishHolds ==
  ASSUME TypeOK, NEW t \in Slot, NEW q \in Queues, NEW P \in Ledgers, NEW s,
         NEW at \in {"released", "failed"}, FinishActiveTurn(t, q, P, s, at),
         QueueHolds(q, P), TurnsHold([turn EXCEPT ![t] = FreeSlot], P),
         CallsAgree(call, P, waiters, drain.waiters)
  PROVE  /\ QueueHolds(queue', place') /\ TurnsHold(turn', place')
         /\ CallsAgree(call', place', waiters', drain'.waiters)
<1> DEFINE T == [turn EXCEPT ![t] = FreeSlot]
           C == Released(call, t, at)
           D == IF drain.at = "running" /\ drain.turn = t
                  THEN [drain EXCEPT !.at = "resumed", !.turn = None]
                  ELSE drain
           next == StateAfterTurn(s)
<1>1. T \in [Slot -> Turns]
  BY DEF TypeOK, ControlTypeOK, FreeSlot, Turns, TurnKinds, Phases
<1>2. D.waiters = drain.waiters
  BY DEF TypeOK, CallTypeOK
<1>3. CallsAgree(C, P, waiters, drain.waiters)
  BY ReleasedAgrees DEF TypeOK, CallTypeOK, CallMaps
<1>4. \/ /\ OperationDue(q, next)
         /\ StartOperation(T, q, P)
         /\ call' = C /\ drain' = D /\ waiters' = waiters
      \/ /\ queue' = q /\ place' = P
         /\ \/ /\ turn' = T /\ call' = C /\ drain' = D /\ waiters' = waiters
            \/ Schedule(T, None, next, requested, waiters, D, C)
  BY Zenon DEF FinishActiveTurn
<1>5. TurnsHold(T, P)
  OBVIOUS
<1> HIDE DEF T, C, D, next
<1>6. CASE /\ OperationDue(q, next) /\ StartOperation(T, q, P)
           /\ call' = C /\ drain' = D /\ waiters' = waiters
  <2>1. OperationAtHead(q)
    BY <1>6 DEF OperationDue
  <2>2. /\ QueueHolds(queue', place') /\ TurnsHold(turn', place')
        /\ \A e \in Entry : place'[e] = "call" <=> P[e] = "call"
    BY <1>1, <1>5, <1>6, <2>1, StartOperationHolds
  <2>3. CallsAgree(C, place', waiters, drain.waiters)
    BY <1>3, <2>2, SamePlaces
  <2> QED BY <1>2, <1>6, <2>2, <2>3
<1>7. CASE /\ queue' = q /\ place' = P
           /\ turn' = T /\ call' = C /\ drain' = D /\ waiters' = waiters
  BY <1>2, <1>3, <1>5, <1>7
<1>8. CASE /\ queue' = q /\ place' = P
           /\ Schedule(T, None, next, requested, waiters, D, C)
  BY <1>1, <1>2, <1>3, <1>5, <1>8, ScheduleHolds
<1> QED BY <1>4, <1>6, <1>7, <1>8

\* An entry leaves queue q, if it is there, for a turn of its own.
LEMMA BeginQueuedHolds ==
  ASSUME TypeOK, NEW q \in Queues, NEW e \in Entry, BeginQueued(q, e),
         KindOf[e] \in TurnKinds, QueueHolds(q, place), TurnsHold(turn, place),
         place[e] # "turn"
  PROVE  /\ QueueHolds(queue', place') /\ TurnsHold(turn', place')
         /\ \A x \in Entry : place'[x] = IF x = e THEN "turn" ELSE place[x]
<1>1. /\ Begin(turn, KindOf[e], {e}, FALSE)
      /\ queue' = RemoveEntry(q, e)
  BY DEF BeginQueued
<1>2. \A x \in Entry : place'[x] = IF x = e THEN "turn" ELSE place[x]
  BY DEF BeginQueued, Moved
<1>3. /\ Distinct(RemoveEntry(q, e))
      /\ Queued(RemoveEntry(q, e)) = Queued(q) \ {e}
  BY OperatorsKeepDistinct DEF QueueHolds
<1>4. QueueHolds(queue', place')
  BY <1>1, <1>2, <1>3 DEF QueueHolds
<1>5. TurnsHold(turn', place')
  <2>1. {e} \in SUBSET Entry /\ Exchanged(place, place', {}, {e})
    BY <1>2 DEF Exchanged
  <2>2. turn \in [Slot -> Turns]
    BY DEF TypeOK, ControlTypeOK
  <2> QED BY <1>1, <2>1, <2>2, BeginHolds
<1> QED BY <1>2, <1>4, <1>5

\* A fresh entry enters the queue.
LEMMA EnterHolds ==
  ASSUME NEW e \in Entry, NEW behavior, queue \in Queues,
         place[e] = "new", QueueHolds(queue, place)
  PROVE  /\ QueueHolds(EnqueueEntry(queue, behavior, e), Moved({e}, "queue"))
         /\ \A T : TurnsHold(T, place) => TurnsHold(T, Moved({e}, "queue"))
         /\ \A C, ws, W :
              CallsAgree(C, place, ws, W) =>
                CallsAgree(C, Moved({e}, "queue"), ws, W)
<1> DEFINE P == Moved({e}, "queue")
<1>1. \A x \in Entry : P[x] = IF x = e THEN "queue" ELSE place[x]
  BY DEF Moved
<1> HIDE DEF P
<1>2. e \notin Queued(queue)
  BY DEF QueueHolds
<1>3. /\ Distinct(EnqueueEntry(queue, behavior, e))
      /\ Queued(EnqueueEntry(queue, behavior, e)) = Queued(queue) \cup {e}
  BY <1>2, OperatorsKeepDistinct, EnqueueAddsOne DEF QueueHolds
<1>4. QueueHolds(EnqueueEntry(queue, behavior, e), P)
  BY <1>1, <1>3 DEF QueueHolds
<1>5. \A x \in Entry : /\ P[x] = "turn" <=> place[x] = "turn"
                       /\ P[x] = "call" <=> place[x] = "call"
  BY <1>1
<1>6. /\ \A T : TurnsHold(T, place) => TurnsHold(T, P)
      /\ \A C, ws, W : CallsAgree(C, place, ws, W) => CallsAgree(C, P, ws, W)
  BY <1>5, SamePlaces
<1> QED BY <1>4, <1>6 DEF P

\* What cancel does before it awaits the turn.
LEMMA AbortTurnHolds ==
  ASSUME TypeOK, NEW P, NEW C, TurnsHold(turn, P),
         CallsAgree(C, P, waiters, drain.waiters), AbortTurn(C)
  PROVE  TurnsHold(turn', P) /\ CallsAgree(call', P, waiters', drain'.waiters)
<1>1. turn \in [Slot -> Turns]
  BY DEF TypeOK, ControlTypeOK
<1>2. TurnsHold(turn', P)
  BY <1>1, AbortHolds DEF AbortTurn
<1>3. CallsAgree(Return(C, waiters), P, {}, drain.waiters)
  BY WaitersSendNothing
<1> QED BY <1>2, <1>3 DEF AbortTurn

-----------------------------------------------------------------------------
(* Every action keeps every entry in its place. *)

LEMMA PlacedTypes ==
  ASSUME PlaceInv
  PROVE  /\ TypeOK /\ Untouched /\ QueueHolds(queue, place)
         /\ TurnsHold(turn, place)
         /\ CallsAgree(call, place, waiters, drain.waiters)
         /\ queue \in Queues /\ place \in Ledgers
         /\ turn \in [Slot -> Turns] /\ call \in CallMaps
BY DEF PlaceInv, Placed, TypeOK, ControlTypeOK, QueueTypeOK, CallTypeOK,
       Ledgers, CallMaps

\* The calls that change nothing but the queue and the ledger.
LEMMA QueueCallsKeepPlaces ==
  ASSUME PlaceInv, NEW c \in Caller,
         \/ QueueInput(c) \/ QueueNextTurnContext(c) \/ ClearQueue(c)
         \/ RemoveQueued(c) \/ Reorder(c) \/ PromoteQueued(c)
  PROVE  Placed'
<1>1. /\ QueueHolds(queue, place) /\ TurnsHold(turn, place)
      /\ CallsAgree(call, place, waiters, drain.waiters) /\ queue \in Queues
  BY PlacedTypes
<1>2. UNCHANGED <<turn, call, waiters, drain>>
  BY DEF QueueInput, QueueNextTurnContext, ClearQueue, RemoveQueued, Reorder,
         PromoteQueued, turnVars, contVars
<1>3. ASSUME QueueHolds(queue', place'),
             \A e \in Entry : /\ place'[e] = "turn" <=> place[e] = "turn"
                              /\ place'[e] = "call" <=> place[e] = "call"
      PROVE  Placed'
  <2>1. /\ TurnsHold(turn, place')
        /\ CallsAgree(call, place', waiters, drain.waiters)
    BY <1>1, <1>3, SamePlaces
  <2> QED BY <1>2, <1>3, <2>1 DEF Placed
<1>4. CASE QueueInput(c)
  <2>1. PICK e \in Entry : place[e] = "new" /\ \E behavior : Enter(e, behavior)
    BY <1>4 DEF QueueInput, Fresh
  <2>2. PICK b : queue' = EnqueueEntry(queue, b, e)
    BY <2>1 DEF Enter
  <2>3. place' = Moved({e}, "queue")
    BY <2>1 DEF Enter
  <2>4. QueueHolds(queue', place')
    BY <1>1, <2>1, <2>2, <2>3, EnterHolds
  <2>5. \A x \in Entry : place'[x] = IF x = e THEN "queue" ELSE place[x]
    BY <2>3 DEF Moved
  <2> QED BY <1>3, <2>1, <2>4, <2>5
<1>5. CASE QueueNextTurnContext(c)
  BY <1>1, <1>3, <1>5 DEF QueueNextTurnContext, queueVars
<1>6. CASE ClearQueue(c)
  <2>1. queue' = EmptyQueue
    BY <1>6 DEF ClearQueue
  <2>2. \A e \in Entry : place'[e] = IF e \in Queued(queue) THEN "removed"
                                     ELSE place[e]
    BY <1>6 DEF ClearQueue, Moved
  <2>3. QueueHolds(queue', place')
    BY <1>1, <2>1, <2>2, PauseKeepsDistinct DEF QueueHolds
  <2> QED BY <1>1, <1>3, <2>2, <2>3 DEF QueueHolds
<1>7. CASE RemoveQueued(c)
  <2>1. PICK e \in Queued(queue) : /\ queue' = RemoveEntry(queue, e)
                                   /\ place' = Moved({e}, "removed")
    BY <1>7 DEF RemoveQueued
  <2>2. e \in Entry /\ place[e] = "queue"
    BY <1>1 DEF QueueHolds
  <2>3. \A x \in Entry : place'[x] = IF x = e THEN "removed" ELSE place[x]
    BY <2>1 DEF Moved
  <2>4. /\ Distinct(RemoveEntry(queue, e))
        /\ Queued(RemoveEntry(queue, e)) = Queued(queue) \ {e}
    BY <1>1, <2>2, OperatorsKeepDistinct DEF QueueHolds
  <2>5. QueueHolds(queue', place')
    BY <1>1, <2>1, <2>3, <2>4 DEF QueueHolds
  <2> QED BY <1>3, <2>2, <2>3, <2>5
<1>8. CASE Reorder(c)
  <2>1. /\ place' = place
        /\ \E s \in Reorderings(queue) : queue' = [queue EXCEPT !.followUp = s]
    BY <1>8 DEF Reorder
  <2>2. Distinct(queue') /\ Queued(queue') = Queued(queue)
    BY <1>1, <2>1, ReorderKeepsDistinct DEF QueueHolds
  <2>3. QueueHolds(queue', place')
    BY <1>1, <2>1, <2>2 DEF QueueHolds
  <2> QED BY <1>3, <2>1, <2>3
<1>9. CASE PromoteQueued(c)
  <2>1. PICK e \in ToSet(queue.followUp) : queue' = Promote(queue, e)
    BY <1>9 DEF PromoteQueued
  <2>2. e \in Entry /\ place' = place
    BY <1>1, <1>9, <2>1, QueuedAreEntries DEF PromoteQueued, Queued
  <2>3. Distinct(queue') /\ Queued(queue') = Queued(queue)
    BY <1>1, <2>1, <2>2, OperatorsKeepDistinct DEF QueueHolds
  <2>4. QueueHolds(queue', place')
    BY <1>1, <2>2, <2>3 DEF QueueHolds
  <2> QED BY <1>3, <2>2, <2>4
<1> QED BY <1>4, <1>5, <1>6, <1>7, <1>8, <1>9

\* Before the first call nobody holds an entry.
NothingHeldAtFirst ==
  (\A d \in Caller : budget[d] = MaxCalls) =>
    \A e \in Entry : place[e] \notin {"queue", "turn", "call"}

LEMMA PlacedAtFirst == PlaceInv => NothingHeldAtFirst
<1> SUFFICES ASSUME PlaceInv, \A d \in Caller : budget[d] = MaxCalls
             PROVE  \A e \in Entry : place[e] \notin {"queue", "turn", "call"}
  BY DEF NothingHeldAtFirst
<1>1. /\ QueueHolds(queue, place) /\ TurnsHold(turn, place)
      /\ CallsAgree(call, place, waiters, drain.waiters)
  BY PlacedTypes
<1>2. /\ \A d \in Caller : call[d] = Ready
      /\ AllFree(turn) /\ Queued(queue) = {}
  BY PlacedTypes DEF Untouched
<1>3. \A t \in Slot : turn[t].holds = {}
  BY <1>2 DEF AllFree, FreeSlot
<1>4. \A d \in Caller : ~Sends(call, d)
  BY <1>2 DEF Sends, Ready
<1>5. \A e \in Entry : place[e] # "queue"
  BY <1>1, <1>2 DEF QueueHolds
<1>6. \A e \in Entry : place[e] # "turn"
  BY <1>1, <1>3 DEF TurnsHold
<1>7. \A e \in Entry : place[e] # "call"
  BY <1>1, <1>4 DEF CallsAgree, CallsHold
<1> QED BY <1>5, <1>6, <1>7

\* restoreQueue and queueOperation may start an operation.
LEMMA OperationCallsKeepPlaces ==
  ASSUME PlaceInv, NEW c \in Caller, RestoreQueue(c) \/ QueueOperation(c)
  PROVE  Placed'
<1>1. /\ TypeOK /\ QueueHolds(queue, place) /\ TurnsHold(turn, place)
      /\ CallsAgree(call, place, waiters, drain.waiters)
      /\ queue \in Queues /\ place \in Ledgers
  BY PlacedTypes
<1>2. UNCHANGED <<call, waiters, drain>>
  BY DEF RestoreQueue, QueueOperation, contVars
<1>3. ASSUME NEW q \in Queues, NEW P \in Ledgers, StartIfHead(q, P),
             QueueHolds(q, P), TurnsHold(turn, P),
             CallsAgree(call, P, waiters, drain.waiters)
      PROVE  Placed'
  <2>1. /\ QueueHolds(queue', place') /\ TurnsHold(turn', place')
        /\ CallsAgree(call, place', waiters, drain.waiters)
    BY <1>1, <1>3, StartIfHeadHolds
  <2> QED BY <1>2, <2>1 DEF Placed
<1>4. CASE RestoreQueue(c)
  <2>1. PICK q \in Snapshots : StartIfHead(q, Moved(Queued(q), "queue"))
    BY <1>4 DEF RestoreQueue
  <2> DEFINE P == Moved(Queued(q), "queue")
  <2>2. P \in Ledgers /\ \A e \in Entry : P[e] = IF e \in Queued(q) THEN "queue"
                                                 ELSE place[e]
    <3>1. P \in Ledgers
      BY <1>1, MovedIsLedger DEF Places
    <3> QED BY <3>1 DEF Moved
  <2>3. StartIfHead(q, P)
    BY <2>1
  <2> HIDE DEF P
  <2>4. \A e \in Entry : place[e] \notin {"queue", "turn", "call"}
    BY <1>4, PlacedAtFirst DEF RestoreQueue, NothingHeldAtFirst
  <2>5. q \in Queues /\ Queued(q) \subseteq Entry /\ Distinct(q)
    <3>1. q \in Queues /\ IsInjective(q.steering \o q.followUp)
      BY SnapshotsAreQueues DEF Snapshots
    <3> QED BY <3>1, QueuedAreEntries, DistinctLists
  <2>6. QueueHolds(q, P)
    BY <2>2, <2>4, <2>5 DEF QueueHolds
  <2>7. TurnsHold(turn, P) /\ CallsAgree(call, P, waiters, drain.waiters)
    <3>1. \A e \in Entry : /\ P[e] = "turn" <=> place[e] = "turn"
                           /\ P[e] = "call" <=> place[e] = "call"
      BY <2>2, <2>4
    <3> QED BY <1>1, <3>1, SamePlaces
  <2> QED BY <1>3, <2>2, <2>3, <2>5, <2>6, <2>7
<1>5. CASE QueueOperation(c)
  <2>1. CASE StartIfHead(queue, place)
    BY <1>1, <1>3, <2>1
  <2>2. CASE \E e \in Fresh({"operation"}) :
               StartIfHead(EnqueueEntry(queue, "followUp", e),
                           Moved({e}, "queue"))
    <3>1. PICK e \in Entry : /\ place[e] = "new"
                             /\ StartIfHead(EnqueueEntry(queue, "followUp", e),
                                            Moved({e}, "queue"))
      BY <2>2 DEF Fresh
    <3> DEFINE q == EnqueueEntry(queue, "followUp", e)
               P == Moved({e}, "queue")
    <3>2. /\ QueueHolds(q, P) /\ TurnsHold(turn, P)
          /\ CallsAgree(call, P, waiters, drain.waiters)
      BY <1>1, <3>1, EnterHolds
    <3>3. q \in Queues /\ P \in Ledgers
      BY <1>1, EnqueueAddsOne, MovedIsLedger DEF Places
    <3>4. StartIfHead(q, P)
      BY <3>1
    <3> HIDE DEF q, P
    <3> QED BY <1>3, <3>2, <3>3, <3>4
  <2> QED BY <1>5, <2>1, <2>2 DEF QueueOperation
<1> QED BY <1>4, <1>5

\* A caller that makes a call was on no list.
LEMMA CallersAreReady ==
  ASSUME PlaceInv, NEW c \in Caller, NEW op, Invoke(c, op)
  PROVE  /\ call[c] = Ready /\ ~Sends(call, c)
         /\ c \notin waiters \cup drain.waiters
         /\ \A r : r.op # "sendQueuedNow" =>
              CallsAgree([call EXCEPT ![c] = r], place, waiters, drain.waiters)
<1>1. call[c] = Ready /\ call \in CallMaps
      /\ CallsAgree(call, place, waiters, drain.waiters)
  BY PlacedTypes DEF Invoke
<1>2. ~Sends(call, c) /\ c \notin waiters \cup drain.waiters
  BY <1>1, NotWaiting DEF Sends, Ready, CallsAgree
<1>3. ASSUME NEW r, r.op # "sendQueuedNow"
      PROVE  CallsAgree([call EXCEPT ![c] = r], place, waiters, drain.waiters)
  BY <1>1, <1>2, <1>3, OneMoves
<1> QED BY <1>1, <1>2, <1>3

LEMMA SendQueuedNowKeepsPlaces ==
  ASSUME PlaceInv, NEW c \in Caller, SendQueuedNow(c)
  PROVE  Placed'
<1>1. /\ TypeOK /\ QueueHolds(queue, place) /\ TurnsHold(turn, place)
      /\ CallsAgree(call, place, waiters, drain.waiters)
      /\ queue \in Queues /\ call \in CallMaps
  BY PlacedTypes
<1>2. Invoke(c, "sendQueuedNow")
  BY DEF SendQueuedNow
<1>3. call[c] = Ready
  BY <1>2, CallersAreReady
<1>4. PICK e \in TakeableById(queue) :
        /\ queue' = RemoveEntry(queue, e)
        /\ place' = Moved({e}, "call")
        /\ \/ /\ AwaitWrites(c, "sendQueuedNow", e)
              /\ UNCHANGED <<turn, contVars>>
           \/ AbortTurn(AwaitTurn(call, c, "sendQueuedNow", e))
  BY DEF SendQueuedNow
<1>5. e \in Queued(queue) /\ e \in Entry /\ place[e] = "queue"
  BY <1>1, TakenByIdOrHead DEF QueueHolds
<1>6. \A x \in Entry : place'[x] = IF x = e THEN "call" ELSE place[x]
  BY <1>4 DEF Moved
<1>7. QueueHolds(queue', place')
  <2>1. /\ Distinct(RemoveEntry(queue, e))
        /\ Queued(RemoveEntry(queue, e)) = Queued(queue) \ {e}
    BY <1>1, <1>5, OperatorsKeepDistinct DEF QueueHolds
  <2> QED BY <1>1, <1>4, <1>6, <2>1 DEF QueueHolds
<1>8. TurnsHold(turn, place')
  BY <1>1, <1>5, <1>6, SamePlaces
<1>9. ASSUME NEW r, r.op = "sendQueuedNow", r.entry = e,
             r.at \in {"contextWrite", "turn"}
      PROVE  CallsAgree([call EXCEPT ![c] = r], place', waiters, drain.waiters)
  <2>1. IntoCall(place, place', e)
    BY <1>5, <1>6 DEF IntoCall
  <2> QED BY <1>1, <1>3, <1>5, <1>9, <2>1, SenderTakes
<1>10. CASE AwaitWrites(c, "sendQueuedNow", e) /\ UNCHANGED <<turn, contVars>>
  <2>1. CallsAgree(call', place', waiters, drain.waiters)
    BY <1>9, <1>10 DEF AwaitWrites
  <2> QED BY <1>7, <1>8, <1>10, <2>1 DEF Placed, contVars
<1>11. CASE AbortTurn(AwaitTurn(call, c, "sendQueuedNow", e))
  <2>1. CallsAgree(AwaitTurn(call, c, "sendQueuedNow", e), place', waiters,
                   drain.waiters)
    BY <1>9 DEF AwaitTurn
  <2>2. TurnsHold(turn', place') /\ CallsAgree(call', place', waiters', drain'.waiters)
    BY <1>1, <1>8, <1>11, <2>1, AbortTurnHolds
  <2> QED BY <1>7, <2>2 DEF Placed
<1> QED BY <1>4, <1>10, <1>11

LEMMA RequestKeepsPlaces ==
  ASSUME PlaceInv, NEW c \in Caller, Request(c)
  PROVE  Placed'
<1>1. /\ TypeOK /\ QueueHolds(queue, place) /\ TurnsHold(turn, place)
      /\ CallsAgree(call, place, waiters, drain.waiters)
      /\ queue \in Queues /\ turn \in [Slot -> Turns] /\ call \in CallMaps
  BY PlacedTypes
<1>2. \E op : Invoke(c, op)
  BY DEF Request, CallSend, Await, QueueInput, QueueNextTurnContext,
         RequestContinuation, RecordContext, ClearQueue, RemoveQueued, Reorder,
         PromoteQueued, RestoreQueue, QueueOperation, Cancel, Close,
         SendQueuedNow, ResumeQueue
<1>3. /\ call[c] = Ready
      /\ \A r : r.op # "sendQueuedNow" =>
           CallsAgree([call EXCEPT ![c] = r], place, waiters, drain.waiters)
  BY <1>2, CallersAreReady
<1>4. /\ \A op, e : op # "sendQueuedNow" /\ AwaitWrites(c, op, e) =>
           CallsAgree(call', place, waiters, drain.waiters)
      /\ \A op : op # "sendQueuedNow" =>
           CallsAgree(AwaitTurn(call, c, op, None), place, waiters, drain.waiters)
  BY <1>3 DEF AwaitWrites, AwaitTurn
<1>5. CASE CallSend(c)
  <2>1. PICK op : op # "sendQueuedNow" /\ Await(c, op)
    BY <1>5 DEF CallSend
  <2>2. CallsAgree(call', place, waiters, drain.waiters)
    BY <1>4, <2>1 DEF Await
  <2> QED BY <1>1, <2>1, <2>2 DEF Await, turnVars, queueVars, contVars, Placed
<1>6. CASE RequestContinuation(c)
  <2> DEFINE r == [Ready EXCEPT !.op = "requestContinuation",
                                !.at = "continuation"]
             C == [call EXCEPT ![c] = r]
  <2>1. r.op = "requestContinuation" /\ r.at = "continuation"
    BY DEF Ready
  <2>2. CallsAgree(C, place, waiters \cup {c}, drain.waiters)
    <3> HIDE DEF r
    <3> QED BY <1>1, <1>3, <2>1, WaiterJoins
  <2>3. /\ Schedule(turn, activeTurn, state, TRUE, waiters \cup {c}, drain, C)
        /\ UNCHANGED <<queue, place>>
    BY <1>6 DEF RequestContinuation, queueVars
  <2> HIDE DEF C
  <2>4. TurnsHold(turn', place) /\ CallsAgree(call', place, waiters', drain'.waiters)
    BY <1>1, <2>2, <2>3, ScheduleHolds
  <2> QED BY <1>1, <2>3, <2>4 DEF Placed
<1>7. CASE RecordContext(c)
  <2>1. PICK r : r.op = "recordContext" /\ call' = [call EXCEPT ![c] = r]
    BY <1>7 DEF RecordContext, Ready
  <2>2. CallsAgree(call', place, waiters, drain.waiters)
    BY <1>3, <2>1
  <2> QED BY <1>1, <1>7, <2>2
          DEF RecordContext, turnVars, queueVars, contVars, Placed
<1>8. CASE Cancel(c)
  <2>1. AbortTurn(AwaitTurn(call, c, "cancel", None)) /\ UNCHANGED <<queue, place>>
    BY <1>8 DEF Cancel, queueVars
  <2>2. CallsAgree(AwaitTurn(call, c, "cancel", None), place, waiters, drain.waiters)
    BY <1>4
  <2>3. TurnsHold(turn', place) /\ CallsAgree(call', place, waiters', drain'.waiters)
    BY <1>1, <2>1, <2>2, AbortTurnHolds
  <2> QED BY <1>1, <2>1, <2>3 DEF Placed
<1>9. CASE Close(c)
  <2>1. TurnsHold(turn', place)
    BY <1>1, <1>9, AbortHolds DEF Close
  <2>2. CallsAgree(call', place, waiters, drain.waiters)
    BY <1>4, <1>9 DEF Close
  <2> QED BY <1>1, <1>9, <2>1, <2>2 DEF Close, queueVars, contVars, Placed
<1>10. CASE ResumeQueue(c)
  <2>1. queue' = Resume(queue) /\ UNCHANGED <<turn, place, waiters, drain>>
    BY <1>10 DEF ResumeQueue, turnVars, contVars
  <2>2. QueueHolds(queue', place')
    BY <1>1, <2>1, PauseKeepsDistinct, OperatorsKeepEntries
       DEF QueueHolds, Resume, Queued, Queues
  <2>3. CallsAgree(call', place, waiters, drain.waiters)
    BY <1>1, <1>4, <1>10 DEF ResumeQueue
  <2> QED BY <1>1, <2>1, <2>2, <2>3 DEF Placed
<1> QED BY <1>5, <1>6, <1>7, <1>8, <1>9, <1>10, QueueCallsKeepPlaces,
           OperationCallsKeepPlaces, SendQueuedNowKeepsPlaces DEF Request

\* A call that goes on without an entry and off the lists.
LEMMA CallGoesOn ==
  ASSUME PlaceInv, NEW c \in Caller, call[c].op # "sendQueuedNow",
         \/ call[c].op # "requestContinuation"
         \/ call[c].at # "continuation"
  PROVE  /\ ~Sends(call, c) /\ c \notin waiters \cup drain.waiters
         /\ CallsAgree(Return(call, {c}), place, waiters, drain.waiters)
         /\ \A r : r.op # "sendQueuedNow" =>
              CallsAgree([call EXCEPT ![c] = r], place, waiters, drain.waiters)
<1>1. call \in CallMaps /\ CallsAgree(call, place, waiters, drain.waiters)
  BY PlacedTypes
<1>2. ~Sends(call, c) /\ c \notin waiters \cup drain.waiters
  BY <1>1, NotWaiting DEF Sends, CallsAgree
<1>3. ASSUME NEW r, r.op # "sendQueuedNow"
      PROVE  CallsAgree([call EXCEPT ![c] = r], place, waiters, drain.waiters)
  BY <1>1, <1>2, <1>3, OneMoves
<1> QED BY <1>1, <1>2, <1>3, OneReturns

\* The requests behind their await, and recordContext.
LEMMA SendsKeepPlaces ==
  ASSUME PlaceInv, NEW c \in Caller,
         \/ \E op \in DOMAIN SendKind :
              StartIdle(c, op) \/ QueueBusy(c, op) \/ Refuse(c, op)
         \/ WaitForRelease(c) \/ LookAgain(c) \/ BeginWrite(c) \/ EndWrite(c)
         \/ CancelReturns(c) \/ CloseFails(c)
  PROVE  Placed'
<1>1. /\ TypeOK /\ QueueHolds(queue, place) /\ TurnsHold(turn, place)
      /\ CallsAgree(call, place, waiters, drain.waiters)
      /\ queue \in Queues /\ turn \in [Slot -> Turns] /\ call \in CallMaps
  BY PlacedTypes
<1>2. ASSUME CallsAgree(call', place, waiters, drain.waiters),
             UNCHANGED <<turn, queue, place, waiters, drain>>
      PROVE  Placed'
  BY <1>1, <1>2 DEF Placed
<1>3. ASSUME call[c].op # "sendQueuedNow",
             \/ call[c].op # "requestContinuation"
             \/ call[c].at # "continuation"
      PROVE  /\ CallsAgree(Return(call, {c}), place, waiters, drain.waiters)
             /\ \A r : r.op # "sendQueuedNow" =>
                  CallsAgree([call EXCEPT ![c] = r], place, waiters,
                             drain.waiters)
  BY <1>3, CallGoesOn
<1>4. ASSUME NEW op \in DOMAIN SendKind, Resumed(c, op)
      PROVE  CallsAgree(Return(call, {c}), place, waiters, drain.waiters)
  BY <1>3, <1>4 DEF Resumed, SendKind
<1>5. ASSUME NEW op \in DOMAIN SendKind, StartIdle(c, op) PROVE Placed'
  <2>1. SendKind[op] \in TurnKinds
    BY <1>5 DEF SendKind, TurnKinds
  <2>2. TurnsHold(turn', place)
    <3>1. Begin(turn, SendKind[op], {}, op = "sendWhenAvailable")
      BY <1>5 DEF StartIdle
    <3> QED BY <1>1, <2>1, <3>1, BeginEmptyHolds
  <2>3. CallsAgree(call', place, waiters, drain.waiters)
    BY <1>4, <1>5 DEF StartIdle
  <2> QED BY <1>1, <1>5, <2>2, <2>3 DEF StartIdle, queueVars, contVars, Placed
<1>6. ASSUME NEW op \in DOMAIN SendKind, QueueBusy(c, op) PROVE Placed'
  <2>1. PICK e \in Entry : place[e] = "new" /\ \E behavior : Enter(e, behavior)
    BY <1>6 DEF QueueBusy, Fresh
  <2>2. PICK b : queue' = EnqueueEntry(queue, b, e)
    BY <2>1 DEF Enter
  <2>3. place' = Moved({e}, "queue")
    BY <2>1 DEF Enter
  <2>4. CallsAgree(call', place, waiters, drain.waiters)
    BY <1>4, <1>6 DEF QueueBusy
  <2>5. /\ QueueHolds(queue', place') /\ TurnsHold(turn, place')
        /\ CallsAgree(call', place', waiters, drain.waiters)
    BY <1>1, <2>1, <2>2, <2>3, <2>4, EnterHolds
  <2> QED BY <1>6, <2>5 DEF QueueBusy, turnVars, contVars, Placed
<1>7. ASSUME NEW op \in DOMAIN SendKind, Refuse(c, op) PROVE Placed'
  <2>1. CallsAgree(call', place, waiters, drain.waiters)
    BY <1>4, <1>7 DEF Refuse
  <2> QED BY <1>2, <1>7, <2>1
          DEF Refuse, OnlyCallsChange, turnVars, queueVars, contVars
<1>8. CASE WaitForRelease(c) \/ LookAgain(c)
  <2>1. call[c].op = "sendWhenAvailable"
    BY <1>8 DEF WaitForRelease, Resumed, LookAgain
  <2>2. CallsAgree(call', place, waiters, drain.waiters)
    BY <1>3, <1>8, <2>1 DEF WaitForRelease, LookAgain, AwaitTurn, AwaitWrites
  <2> QED BY <1>2, <1>8, <2>2
          DEF WaitForRelease, LookAgain, OnlyCallsChange, turnVars, queueVars,
              contVars
<1>9. CASE BeginWrite(c) \/ EndWrite(c)
  <2>1. call[c].at \in {"recording", "appending"}
    BY <1>9 DEF BeginWrite, EndWrite
  <2>2. call[c].op # "sendQueuedNow"
    BY <1>1, <2>1 DEF CallsAgree, CallsHold, Sends
  <2>3. CallsAgree(call', place, waiters, drain.waiters)
    <3>1. CASE call' = Return(call, {c})
      BY <1>3, <2>1, <2>2, <3>1
    <3>2. CASE call' = [call EXCEPT ![c].at = "appending"]
      <4> DEFINE r == [call[c] EXCEPT !.at = "appending"]
      <4>1. call' = [call EXCEPT ![c] = r] /\ r.op = call[c].op
        BY <1>1, <3>2 DEF CallMaps, CallRecords
      <4> HIDE DEF r
      <4> QED BY <1>3, <2>1, <2>2, <4>1
    <3> QED BY <1>9, <3>1, <3>2 DEF BeginWrite, EndWrite
  <2> QED BY <1>2, <1>9, <2>3
          DEF BeginWrite, EndWrite, turnVars, queueVars, contVars
<1>10. CASE CancelReturns(c) \/ CloseFails(c)
  <2>1. CallsAgree(call', place, waiters, drain.waiters)
    BY <1>3, <1>10 DEF CancelReturns, CloseFails
  <2> QED BY <1>2, <1>10, <2>1
          DEF CancelReturns, CloseFails, OnlyCallsChange, turnVars, queueVars,
              contVars
<1> QED BY <1>5, <1>6, <1>7, <1>8, <1>9, <1>10

\* close() empties the queue and answers whoever waits for a continuation.
LEMMA CloseKeepsPlaces ==
  ASSUME PlaceInv, NEW c \in Caller, CloseCompletes(c)
  PROVE  Placed'
<1>1. /\ QueueHolds(queue, place) /\ TurnsHold(turn, place)
      /\ CallsAgree(call, place, waiters, drain.waiters)
  BY PlacedTypes
<1>2. /\ queue' = EmptyQueue /\ waiters' = {} /\ UNCHANGED <<turn, drain>>
      /\ call' = Return(call, waiters \cup {c}) /\ call[c].op = "close"
  BY DEF CloseCompletes, Resumed
<1>3. \A e \in Entry : place'[e] = IF e \in Queued(queue) THEN "removed"
                                   ELSE place[e]
  BY DEF CloseCompletes, Moved
<1>4. QueueHolds(queue', place')
  BY <1>1, <1>2, <1>3, PauseKeepsDistinct DEF QueueHolds
<1>5. \A e \in Queued(queue) : place[e] = "queue"
  BY <1>1 DEF QueueHolds
<1>6. /\ TurnsHold(turn, place')
      /\ CallsAgree(call, place', waiters, drain.waiters)
  BY <1>1, <1>3, <1>5, SamePlaces
<1>7. CallsAgree(call', place', {}, drain.waiters)
  <2> DEFINE R == waiters \cup {c}
  <2>1. c \notin waiters \cup drain.waiters /\ ~Sends(call, c)
    BY <1>2, CallGoesOn
  <2>2. \A d \in R : ~Sends(call, d)
    BY <1>6, <2>1, WaitersSendNothing
  <2>3. waiters \ R = {} /\ drain.waiters \ R = drain.waiters
    BY <1>6, <2>1 DEF CallsAgree, WaitersWait
  <2> HIDE DEF R
  <2>4. CallsAgree(Return(call, R), place', waiters \ R, drain.waiters \ R)
    BY <1>6, <2>2, ReturnAgrees
  <2> QED BY <1>2, <2>3, <2>4 DEF R
<1> QED BY <1>2, <1>4, <1>6, <1>7 DEF Placed

\* sendQueuedNow behind its awaits: the entry goes on, or is lost, or opens
\* a turn.
LEMMA SendNowKeepsPlaces ==
  ASSUME PlaceInv, NEW c \in Caller,
         SendNowProceeds(c) \/ SendNowFails(c) \/ SendNowStarts(c)
  PROVE  Placed'
<1>1. /\ TypeOK /\ QueueHolds(queue, place) /\ TurnsHold(turn, place)
      /\ CallsAgree(call, place, waiters, drain.waiters)
      /\ queue \in Queues /\ call \in CallMaps
  BY PlacedTypes
<1>2. Sends(call, c)
  BY DEF SendNowProceeds, SendNowFails, SendNowStarts, Resumed, Sends
<1> DEFINE e == call[c].entry
<1>3. e \in Executables /\ e \in Entry
  BY <1>1, <1>2 DEF CallMaps, CallRecords, Sends, Executables
<1>4. place[e] = "call"
  BY <1>1, <1>2, <1>3 DEF CallsAgree, CallsHold
<1> HIDE DEF e
<1>5. CASE SendNowProceeds(c)
  <2>1. AwaitWrites(c, "sendQueuedNow", e)
    BY <1>5 DEF SendNowProceeds, e
  <2>2. PICK r : /\ r.op = "sendQueuedNow" /\ r.entry = e
                 /\ r.at \in {"contextWrite", "turn"}
                 /\ call' = [call EXCEPT ![c] = r]
    BY <2>1 DEF AwaitWrites
  <2>3. CallsAgree(call', place, waiters, drain.waiters)
    BY <1>1, <1>2, <2>2, SenderGoesOn DEF e
  <2> QED BY <1>1, <1>5, <2>3
          DEF SendNowProceeds, OnlyCallsChange, turnVars, queueVars, contVars,
              Placed
<1>6. CASE SendNowFails(c)
  <2>1. \A x \in Entry : place'[x] = IF x = e THEN "lost" ELSE place[x]
    BY <1>6 DEF SendNowFails, Moved, e
  <2>2. UNCHANGED <<turn, queue, waiters, drain>> /\ call' = Return(call, {c})
    BY <1>6 DEF SendNowFails, turnVars, contVars
  <2>3. QueueHolds(queue, place') /\ TurnsHold(turn, place')
    BY <1>1, <1>4, <2>1, SamePlaces
  <2>4. OutOfCall(place, place', call[c].entry)
    BY <2>1 DEF OutOfCall, e
  <2>5. CallsAgree(call', place', waiters, drain.waiters)
    BY <1>1, <1>2, <2>2, <2>4, SenderReturns
  <2> QED BY <2>2, <2>3, <2>5 DEF Placed
<1>7. CASE SendNowStarts(c)
  <2>1. /\ BeginQueued(Resume(queue), e) /\ call' = Return(call, {c})
        /\ UNCHANGED <<waiters, drain>>
    BY <1>7 DEF SendNowStarts, contVars, e
  <2>2. Resume(queue) \in Queues /\ QueueHolds(Resume(queue), place)
    BY <1>1, PauseKeepsDistinct DEF QueueHolds, Resume, Queued, Queues
  <2>3. KindOf[e] \in TurnKinds
    BY <1>3 DEF Executables, TurnKinds
  <2>4. /\ QueueHolds(queue', place') /\ TurnsHold(turn', place')
        /\ \A x \in Entry : place'[x] = IF x = e THEN "turn" ELSE place[x]
    BY <1>1, <1>3, <1>4, <2>1, <2>2, <2>3, BeginQueuedHolds
  <2>5. OutOfCall(place, place', call[c].entry)
    BY <2>4 DEF OutOfCall, e
  <2>6. CallsAgree(call', place', waiters, drain.waiters)
    BY <1>1, <1>2, <2>1, <2>5, SenderReturns
  <2> QED BY <2>1, <2>4, <2>6 DEF Placed
<1> QED BY <1>5, <1>6, <1>7

LEMMA ResumeHeadKeepsPlaces ==
  ASSUME PlaceInv, NEW c \in Caller, ResumeHead(c)
  PROVE  Placed'
<1>1. /\ TypeOK /\ QueueHolds(queue, place) /\ TurnsHold(turn, place)
      /\ queue \in Queues /\ place \in Ledgers /\ turn \in [Slot -> Turns]
  BY PlacedTypes
<1>2. /\ call' = Return(call, {c}) /\ call[c].op = "resumeQueue"
      /\ UNCHANGED <<waiters, drain>>
  BY DEF ResumeHead, Resumed, contVars
<1>3. CallsAgree(call', place, waiters, drain.waiters)
  BY <1>2, CallGoesOn
<1>4. ASSUME QueueHolds(queue', place'), TurnsHold(turn', place'),
             \A e \in Entry : place'[e] = "call" <=> place[e] = "call"
      PROVE  Placed'
  <2>1. CallsAgree(call', place', waiters, drain.waiters)
    BY <1>3, <1>4, SamePlaces
  <2> QED BY <1>2, <1>4, <2>1 DEF Placed
<1>5. CASE UNCHANGED <<turnVars, queue, place>>
  BY <1>1, <1>2, <1>3, <1>5 DEF turnVars, Placed
<1>6. CASE OperationDue(queue, state) /\ StartOperation(turn, queue, place)
  <2>1. OperationAtHead(queue)
    BY <1>6 DEF OperationDue
  <2> QED BY <1>1, <1>4, <1>6, <2>1, StartOperationHolds
<1>7. CASE \E e \in FollowUpHead(queue) : BeginQueued(queue, e)
  <2>1. PICK e \in FollowUpHead(queue) : BeginQueued(queue, e)
    BY <1>7
  <2>2. e \in Entry /\ KindOf[e] \in TurnKinds
    BY <1>1, FollowUpHeadKinds
  <2>3. place[e] = "queue"
    BY <1>1, TakenByIdOrHead DEF QueueHolds
  <2>4. /\ QueueHolds(queue', place') /\ TurnsHold(turn', place')
        /\ \A x \in Entry : place'[x] = IF x = e THEN "turn" ELSE place[x]
    BY <1>1, <2>1, <2>2, <2>3, BeginQueuedHolds
  <2> QED BY <1>4, <2>3, <2>4
<1> QED BY <1>5, <1>6, <1>7 DEF ResumeHead

LEMMA ProceedKeepsPlaces ==
  ASSUME PlaceInv, NEW c \in Caller, Proceed(c)
  PROVE  Placed'
BY SendsKeepPlaces, CloseKeepsPlaces, SendNowKeepsPlaces, ResumeHeadKeepsPlaces
   DEF Proceed

-----------------------------------------------------------------------------

\* A turn takes entries, stores them or goes on to another phase.
LEMMA TurnGoesOn ==
  ASSUME PlaceInv, TypeOK', NEW t \in Slot, NEW v,
         turn' = [turn EXCEPT ![t] = v], FreeHoldsNothing(v),
         Exchanged(place, place', turn[t].holds, v.holds),
         QueueHolds(queue', place'),
         \A e \in Entry : place'[e] = "call" <=> place[e] = "call",
         UNCHANGED <<call, waiters, drain>>
  PROVE  Placed'
<1>1. /\ TurnsHold(turn, place) /\ turn \in [Slot -> Turns]
      /\ CallsAgree(call, place, waiters, drain.waiters)
  BY PlacedTypes
<1>2. v \in Turns
  <2>1. turn' \in [Slot -> Turns]
    BY DEF TypeOK, ControlTypeOK
  <2>2. turn'[t] = v
    BY <1>1
  <2> QED BY <2>1, <2>2
<1>3. TurnsHold(turn', place')
  BY <1>1, <1>2, UpdateHolds
<1>4. CallsAgree(call, place', waiters, drain.waiters)
  BY <1>1, SamePlaces
<1> QED BY <1>3, <1>4 DEF Placed

\* A turn settles: what it held goes where its result says.
LEMMA SettlingKeepsPlaces ==
  ASSUME PlaceInv, NEW t \in Slot, NEW q \in {queue, Pause(queue)},
         NEW where \in {"journal", "lost"}, NEW s,
         NEW at \in {"released", "failed"},
         FinishActiveTurn(t, q, Moved(turn[t].holds, where), s, at)
  PROVE  Placed'
<1>1. /\ TypeOK /\ QueueHolds(queue, place) /\ TurnsHold(turn, place)
      /\ CallsAgree(call, place, waiters, drain.waiters)
      /\ queue \in Queues /\ place \in Ledgers /\ turn \in [Slot -> Turns]
  BY PlacedTypes
<1> DEFINE P == Moved(turn[t].holds, where)
<1>2. P \in Ledgers /\ \A e \in Entry : P[e] = IF e \in turn[t].holds THEN where
                                               ELSE place[e]
  <2>1. P \in Ledgers
    BY <1>1, MovedIsLedger DEF Places
  <2> QED BY <2>1 DEF Moved
<1>3. FinishActiveTurn(t, q, P, s, at)
  OBVIOUS
<1> HIDE DEF P
<1>4. \A e \in turn[t].holds : e \in Entry /\ place[e] = "turn"
  BY <1>1, HeldIsWithTurn
<1>5. q \in Queues /\ QueueHolds(q, P)
  <2>1. q \in Queues /\ Distinct(q) /\ Queued(q) = Queued(queue)
    BY <1>1, PauseKeepsDistinct DEF Pause, Queued, Queues, QueueHolds
  <2> QED BY <1>1, <1>2, <1>4, <2>1 DEF QueueHolds
<1>6. TurnsHold([turn EXCEPT ![t] = FreeSlot], P)
  <2>1. FreeSlot \in Turns /\ FreeHoldsNothing(FreeSlot) /\ FreeSlot.holds = {}
    BY DEF FreeSlot, Turns, TurnKinds, Phases, FreeHoldsNothing
  <2>2. Exchanged(place, P, turn[t].holds, FreeSlot.holds)
    BY <1>2, <1>4, <2>1 DEF Exchanged
  <2> QED BY <1>1, <2>1, <2>2, UpdateHolds
<1>7. CallsAgree(call, P, waiters, drain.waiters)
  BY <1>1, <1>2, <1>4, SamePlaces
<1>8. /\ QueueHolds(queue', place') /\ TurnsHold(turn', place')
      /\ CallsAgree(call', place', waiters', drain'.waiters)
  BY <1>1, <1>2, <1>3, <1>5, <1>6, <1>7, FinishHolds
<1> QED BY <1>8 DEF Placed

LEMMA AdvanceKeepsPlaces ==
  ASSUME PlaceInv, NEW t \in Slot, Advance(t)
  PROVE  Placed'
<1>1. /\ TypeOK /\ QueueHolds(queue, place) /\ queue \in Queues
      /\ turn \in [Slot -> Turns] /\ TurnsHold(turn, place)
  BY PlacedTypes
<1>2. TypeOK'
  BY <1>1, AdvanceKeepsTypes
<1>3. turn[t] \in Turns /\ \A e \in turn[t].holds : e \in Entry /\ place[e] = "turn"
  BY <1>1, HeldIsWithTurn
<1>4. CASE Execute(t)
  <2> DEFINE v == [turn[t] EXCEPT !.phase = "executing", !.holds = {}]
  <2>1. FreeHoldsNothing(v) /\ v.holds = {}
    BY <1>3 DEF FreeHoldsNothing, Turns
  <2>2. turn' = [turn EXCEPT ![t] = v] /\ UNCHANGED <<queue, call, waiters, drain>>
    BY <1>1, <1>4 DEF Execute, ControlUnchanged, contVars
  <2> HIDE DEF v
  <2>3. \A e \in Entry : place'[e] = IF e \in turn[t].holds THEN "journal"
                                     ELSE place[e]
    BY <1>4 DEF Execute, Moved
  <2>4. Exchanged(place, place', turn[t].holds, v.holds)
    BY <2>1, <2>3 DEF Exchanged
  <2>5. QueueHolds(queue', place')
    BY <1>1, <1>3, <2>2, <2>3, SamePlaces
  <2> QED BY <1>2, <1>3, <2>1, <2>2, <2>3, <2>4, <2>5, TurnGoesOn
<1>5. CASE TakeSteering(t)
  <2> DEFINE v == [turn[t] EXCEPT !.holds = TakenSteering(queue)]
  <2>1. FreeHoldsNothing(v) /\ v.holds = TakenSteering(queue)
    BY <1>3, <1>5 DEF FreeHoldsNothing, Turns, TakeSteering
  <2>2. /\ turn' = [turn EXCEPT ![t] = v] /\ UNCHANGED <<call, waiters, drain>>
        /\ queue' = AfterTakingSteering(queue) /\ turn[t].holds = {}
    BY <1>1, <1>5 DEF TakeSteering, ControlUnchanged, contVars
  <2> HIDE DEF v
  <2>3. \A e \in Entry : place'[e] = IF e \in TakenSteering(queue) THEN "turn"
                                     ELSE place[e]
    BY <1>5 DEF TakeSteering, Moved
  <2>4. \A e \in TakenSteering(queue) : e \in Entry /\ place[e] = "queue"
    BY <1>1, TakenFromQueue DEF QueueHolds
  <2>5. Exchanged(place, place', turn[t].holds, v.holds)
    BY <2>1, <2>2, <2>3, <2>4 DEF Exchanged
  <2>6. QueueHolds(queue', place')
    BY <1>1, <2>2, <2>3, <2>4, TakingKeepsDistinct DEF QueueHolds
  <2> QED BY <1>2, <2>1, <2>2, <2>3, <2>4, <2>5, <2>6, TurnGoesOn
<1>6. CASE Deliver(t)
  <2> DEFINE v == [turn[t] EXCEPT !.holds = {}]
  <2>1. FreeHoldsNothing(v) /\ v.holds = {}
    BY <1>3 DEF FreeHoldsNothing, Turns
  <2>2. turn' = [turn EXCEPT ![t] = v] /\ UNCHANGED <<queue, call, waiters, drain>>
    BY <1>1, <1>6 DEF Deliver, ControlUnchanged, contVars
  <2> HIDE DEF v
  <2>3. \A e \in Entry : IF e \in turn[t].holds
                           THEN place'[e] \in {"journal", "lost"}
                           ELSE place'[e] = place[e]
    BY <1>6 DEF Deliver
  <2>4. Exchanged(place, place', turn[t].holds, v.holds)
    BY <2>1, <2>3 DEF Exchanged
  <2>5. \A e \in Entry : /\ place'[e] = "queue" <=> place[e] = "queue"
                         /\ place'[e] = "call" <=> place[e] = "call"
    BY <1>3, <2>3
  <2>6. QueueHolds(queue', place')
    BY <1>1, <2>2, <2>5, SamePlaces
  <2> QED BY <1>2, <2>1, <2>2, <2>4, <2>5, <2>6, TurnGoesOn
<1>7. CASE NaturalStop(t)
  <2> DEFINE v == [turn[t] EXCEPT !.phase = "stopping"]
  <2>1. FreeHoldsNothing(v) /\ v.holds = turn[t].holds
    BY <1>3 DEF FreeHoldsNothing, Turns
  <2>2. /\ turn' = [turn EXCEPT ![t] = v]
        /\ UNCHANGED <<queue, place, call, waiters, drain>>
    BY <1>1, <1>7 DEF NaturalStop, ControlUnchanged, contVars, queueVars
  <2> HIDE DEF v
  <2>3. Exchanged(place, place', turn[t].holds, v.holds)
    BY <1>3, <2>1, <2>2 DEF Exchanged
  <2>4. QueueHolds(queue', place')
    BY <1>1, <2>2
  <2> QED BY <1>2, <2>1, <2>2, <2>3, <2>4, TurnGoesOn
<1>8. CASE TakeFollowUps(t)
  <2>1. PICK q \in PolicyQueues :
          /\ queue' = AfterTakingFollowUps(q)
          /\ place' = [e \in Entry |-> IF e \in TakenFollowUps(q) THEN "turn"
                                       ELSE Moved(Queued(q), "queue")[e]]
          /\ \/ turn' = [turn EXCEPT ![t].phase = "executing",
                                     ![t].holds = TakenFollowUps(q)]
             \/ /\ TakenFollowUps(q) = {}
                /\ turn' = [turn EXCEPT ![t].phase = "finalizing"]
    BY <1>8 DEF TakeFollowUps
  <2>2. turn[t].holds = {} /\ UNCHANGED <<call, waiters, drain>>
    BY <1>8 DEF TakeFollowUps, ControlUnchanged, contVars
  <2>3. /\ q \in Queues /\ Distinct(q) /\ Queued(q) \subseteq Entry
        /\ \A e \in Entry : place[e] = "queue" => e \in Queued(q)
        /\ \A e \in Queued(q) : place[e] \in {"queue", "new"}
    <3>1. CASE q = queue
      BY <1>1, <3>1, QueuedAreEntries DEF QueueHolds
    <3>2. CASE \E e \in Fresh({"message"}) : q = EnqueueEntry(queue, "followUp", e)
      <4>1. PICK e \in Entry : /\ place[e] = "new"
                               /\ q = EnqueueEntry(queue, "followUp", e)
        BY <3>2 DEF Fresh
      <4>2. q \in Queues /\ Queued(q) = Queued(queue) \cup {e}
        BY <1>1, <4>1, EnqueueAddsOne
      <4>3. e \notin Queued(queue)
        BY <1>1, <4>1 DEF QueueHolds
      <4>4. Distinct(q)
        BY <1>1, <4>1, <4>3, OperatorsKeepDistinct DEF QueueHolds
      <4> QED BY <1>1, <4>1, <4>2, <4>4 DEF QueueHolds
    <3> QED BY <2>1, <3>1, <3>2 DEF PolicyQueues
  <2>4. TakenFollowUps(q) \subseteq Queued(q)
    BY <2>3, TakenFromQueue
  <2>5. \A e \in Entry : place'[e] = IF e \in TakenFollowUps(q) THEN "turn"
                                     ELSE IF e \in Queued(q) THEN "queue"
                                     ELSE place[e]
    BY <2>1 DEF Moved
  <2>6. QueueHolds(queue', place')
    <3>1. /\ Distinct(queue')
          /\ Queued(queue') = Queued(q) \ TakenFollowUps(q)
      BY <2>1, <2>3, TakingKeepsDistinct
    <3> QED BY <2>3, <2>5, <3>1 DEF QueueHolds
  <2>7. /\ \A e \in Entry : place'[e] = "call" <=> place[e] = "call"
        /\ Exchanged(place, place', turn[t].holds, TakenFollowUps(q))
    BY <2>2, <2>3, <2>4, <2>5 DEF Exchanged
  <2>8. PICK v : /\ turn' = [turn EXCEPT ![t] = v]
                 /\ FreeHoldsNothing(v) /\ v.holds = TakenFollowUps(q)
    <3>1. CASE turn' = [turn EXCEPT ![t].phase = "executing",
                                    ![t].holds = TakenFollowUps(q)]
      <4> DEFINE w == [turn[t] EXCEPT !.phase = "executing",
                                      !.holds = TakenFollowUps(q)]
      <4>1. turn' = [turn EXCEPT ![t] = w]
        BY <1>1, <3>1
      <4>2. FreeHoldsNothing(w) /\ w.holds = TakenFollowUps(q)
        BY <1>3 DEF FreeHoldsNothing, Turns
      <4> HIDE DEF w
      <4> QED BY <4>1, <4>2
    <3>2. CASE /\ TakenFollowUps(q) = {}
               /\ turn' = [turn EXCEPT ![t].phase = "finalizing"]
      <4> DEFINE w == [turn[t] EXCEPT !.phase = "finalizing"]
      <4>1. turn' = [turn EXCEPT ![t] = w]
        BY <1>1, <3>2
      <4>2. FreeHoldsNothing(w) /\ w.holds = TakenFollowUps(q)
        BY <1>3, <2>2, <3>2 DEF FreeHoldsNothing, Turns
      <4> HIDE DEF w
      <4> QED BY <4>1, <4>2
    <3> QED BY <2>1, <3>1, <3>2
  <2> QED BY <1>2, <2>2, <2>6, <2>7, <2>8, TurnGoesOn
<1>9. CASE Settle(t)
  <2>1. PICK q \in {queue, Pause(queue)}, where \in {"journal", "lost"},
             at \in {"released", "failed"} :
               \E s : FinishActiveTurn(t, q, Moved(turn[t].holds, where), s, at)
    BY <1>9 DEF Settle
  <2> QED BY <2>1, SettlingKeepsPlaces
<1>10. CASE SettleOperation(t)
  <2>1. FinishActiveTurn(t, queue, Moved(turn[t].holds, "journal"), state,
                         "released")
    BY <1>10 DEF SettleOperation
  <2> QED BY <2>1, SettlingKeepsPlaces
<1> QED BY <1>4, <1>5, <1>6, <1>7, <1>8, <1>9, <1>10 DEF Advance

\* The drain's next round, and the microtask behind an operation.
LEMMA ScheduledKeepsPlaces ==
  ASSUME PlaceInv, Scheduled
  PROVE  Placed'
<1>1. /\ TypeOK /\ QueueHolds(queue, place) /\ TurnsHold(turn, place)
      /\ CallsAgree(call, place, waiters, drain.waiters)
      /\ queue \in Queues /\ place \in Ledgers /\ turn \in [Slot -> Turns]
  BY PlacedTypes
<1>2. DrainOff.waiters = {} /\ [DrainOff EXCEPT !.at = "ending"].waiters = {}
  BY DEF DrainOff
<1>3. CASE DrainResumes
  <2>1. UNCHANGED <<queue, place>> /\ call' = Return(call, drain.waiters)
    BY <1>3 DEF DrainResumes, queueVars
  <2>2. CallsAgree(call', place, waiters, {})
    BY <1>1, <2>1, WaitersSendNothing
  <2>3. CASE StartContinuation(turn, waiters)
    <3>1. TurnsHold(turn', place) /\ CallsAgree(call', place, waiters', drain'.waiters)
      BY <1>1, <2>2, <2>3, StartContinuationHolds
    <3> QED BY <1>1, <2>1, <3>1 DEF Placed
  <2>4. CASE /\ drain' = [DrainOff EXCEPT !.at = "ending"]
             /\ UNCHANGED <<turn, waiters>>
    BY <1>1, <1>2, <2>1, <2>2, <2>4 DEF Placed
  <2> QED BY <1>3, <2>3, <2>4 DEF DrainResumes
<1>4. CASE DrainEnds
  <2>1. /\ UNCHANGED <<queue, place>>
        /\ Schedule(turn, activeTurn, state, requested, waiters, DrainOff, call)
    BY <1>4 DEF DrainEnds, queueVars
  <2>2. CallsAgree(call, place, waiters, DrainOff.waiters)
    BY <1>1, <1>2 DEF CallsAgree, WaitersWait
  <2>3. TurnsHold(turn', place) /\ CallsAgree(call', place, waiters', drain'.waiters)
    BY <1>1, <2>1, <2>2, ScheduleHolds
  <2> QED BY <1>1, <2>1, <2>3 DEF Placed
<1>5. CASE AfterOperation
  <2>1. ASSUME QueueHolds(queue', place'), TurnsHold(turn', place'),
               \A e \in Entry : place'[e] = "call" <=> place[e] = "call",
               UNCHANGED <<contVars, call>>
        PROVE  Placed'
    <3>1. CallsAgree(call, place', waiters, drain.waiters)
      BY <1>1, <2>1, SamePlaces
    <3> QED BY <2>1, <3>1 DEF Placed, contVars
  <2>2. CASE UNCHANGED <<turn, queue, place, contVars, call>>
    BY <1>1, <2>1, <2>2
  <2>3. CASE /\ OperationDue(queue, state) /\ StartOperation(turn, queue, place)
             /\ UNCHANGED <<contVars, call>>
    <3>1. OperationAtHead(queue)
      BY <2>3 DEF OperationDue
    <3> QED BY <1>1, <2>1, <2>3, <3>1, StartOperationHolds
  <2>4. CASE /\ \E e \in FollowUpHead(queue) : BeginQueued(queue, e)
             /\ UNCHANGED <<contVars, call>>
    <3>1. PICK e \in FollowUpHead(queue) : BeginQueued(queue, e)
      BY <2>4
    <3>2. e \in Entry /\ KindOf[e] \in TurnKinds
      BY <1>1, FollowUpHeadKinds
    <3>3. place[e] = "queue"
      BY <1>1, TakenByIdOrHead DEF QueueHolds
    <3>4. /\ QueueHolds(queue', place') /\ TurnsHold(turn', place')
          /\ \A x \in Entry : place'[x] = IF x = e THEN "turn" ELSE place[x]
      BY <1>1, <3>1, <3>2, <3>3, BeginQueuedHolds
    <3> QED BY <2>1, <2>4, <3>3, <3>4
  <2>5. CASE /\ Schedule(turn, activeTurn, state, requested, waiters, drain,
                         call)
             /\ UNCHANGED <<queue, place>>
    <3>1. /\ TurnsHold(turn', place)
          /\ CallsAgree(call', place, waiters', drain'.waiters)
      BY <1>1, <2>5, ScheduleHolds
    <3> QED BY <1>1, <2>5, <3>1 DEF Placed
  <2> QED BY <1>5, <2>2, <2>3, <2>4, <2>5 DEF AfterOperation
<1> QED BY <1>3, <1>4, <1>5 DEF Scheduled

\* What a tool or a collector takes for a turn that is gone is lost.
LEMMA OrphanKeepsPlaces ==
  ASSUME PlaceInv, OrphanTakes
  PROVE  Placed'
<1>1. /\ QueueHolds(queue, place) /\ TurnsHold(turn, place)
      /\ CallsAgree(call, place, waiters, drain.waiters) /\ queue \in Queues
  BY PlacedTypes
<1>2. UNCHANGED <<turn, call, waiters, drain>>
  BY DEF OrphanTakes, ControlUnchanged, contVars
<1>3. PICK taken \in {TakenSteering(queue), TakenFollowUps(queue)} :
        /\ place' = Moved(taken, "lost") /\ Distinct(queue')
        /\ Queued(queue') = Queued(queue) \ taken
  BY <1>1, TakingKeepsDistinct DEF OrphanTakes, QueueHolds
<1>4. \A e \in Entry : place'[e] = IF e \in taken THEN "lost" ELSE place[e]
  BY <1>3 DEF Moved
<1>5. \A e \in taken : place[e] = "queue"
  BY <1>1, TakenFromQueue DEF QueueHolds
<1>6. QueueHolds(queue', place')
  BY <1>1, <1>3, <1>4 DEF QueueHolds
<1>7. /\ TurnsHold(turn, place')
      /\ CallsAgree(call, place', waiters, drain.waiters)
  BY <1>1, <1>4, <1>5, SamePlaces
<1> QED BY <1>2, <1>6, <1>7 DEF Placed

LEMMA NextKeepsPlaces == PlaceInv /\ [Next]_vars => PlaceInv'
<1> SUFFICES ASSUME PlaceInv, [Next]_vars PROVE PlaceInv'
  OBVIOUS
<1>1. /\ TypeOK /\ Untouched /\ QueueHolds(queue, place)
      /\ TurnsHold(turn, place)
      /\ CallsAgree(call, place, waiters, drain.waiters)
      /\ turn \in [Slot -> Turns]
  BY PlacedTypes
<1>2. TypeOK'
  BY <1>1, NextKeepsTypes
<1>3. Untouched'
  <2>1. CASE \E c \in Caller : Request(c)
    BY <1>1, <2>1, RequestSpends
  <2>2. CASE \A c \in Caller : ~Request(c)
    BY <1>1, <2>2, OthersKeepUntouched
  <2> QED BY <2>1, <2>2
<1>4. ASSUME NEW c \in Caller, AbandonWaiting(c) PROVE Placed'
  <2>1. call[c].op = "sendWhenAvailable" /\ call' = Return(call, {c})
    BY <1>4 DEF AbandonWaiting
  <2>2. CallsAgree(call', place, waiters, drain.waiters)
    BY <2>1, CallGoesOn
  <2> QED BY <1>1, <1>4, <2>2
          DEF AbandonWaiting, OnlyCallsChange, turnVars, queueVars, contVars,
              Placed
<1>5. ASSUME NEW t \in Slot, SignalAbort(t) PROVE Placed'
  <2> DEFINE v == [turn[t] EXCEPT !.aborted = TRUE, !.signal = FALSE]
  <2>1. v.holds = turn[t].holds /\ v.phase = turn[t].phase
    BY <1>1 DEF Turns
  <2>2. turn' = [turn EXCEPT ![t] = v]
    BY <1>1, <1>5 DEF SignalAbort
  <2>3. UNCHANGED <<queue, place, call, waiters, drain>>
    BY <1>5 DEF SignalAbort, queueVars, contVars
  <2> HIDE DEF v
  <2>4. FreeHoldsNothing(v)
    BY <1>1, <2>1 DEF TurnsHold, FreeHoldsNothing
  <2>5. Exchanged(place, place', turn[t].holds, v.holds)
    BY <1>1, <2>1, <2>3, HeldIsWithTurn DEF Exchanged
  <2>6. QueueHolds(queue', place')
    BY <1>1, <2>3
  <2> QED BY <1>2, <2>2, <2>3, <2>4, <2>5, <2>6, TurnGoesOn
<1>6. ASSUME UNCHANGED vars PROVE Placed'
  <2>1. UNCHANGED <<turn, queue, place, call, waiters, drain>>
    BY <1>6 DEF vars, turnVars, queueVars, contVars
  <2> QED BY <1>1, <2>1 DEF Placed
<1>7. Placed'
  <2>1. ASSUME NEW c \in Caller, Request(c) \/ Proceed(c) PROVE Placed'
    BY <2>1, RequestKeepsPlaces, ProceedKeepsPlaces
  <2>2. ASSUME NEW t \in Slot, Advance(t) PROVE Placed'
    BY <2>2, AdvanceKeepsPlaces
  <2>3. CASE Scheduled \/ OrphanTakes
    BY <2>3, ScheduledKeepsPlaces, OrphanKeepsPlaces
  <2> QED BY <1>4, <1>5, <1>6, <2>1, <2>2, <2>3, Zenon DEF Next
<1> QED BY <1>2, <1>3, <1>7 DEF PlaceInv

LEMMA InitPlaces == Init => PlaceInv
<1> SUFFICES ASSUME Init PROVE PlaceInv
  OBVIOUS
<1>1. TypeOK
  BY InitTypes
<1>2. Untouched
  BY InitOperations DEF OperationInv
<1>3. \A e \in Entry : place[e] = "new"
  BY DEF Init
<1>4. QueueHolds(queue, place)
  BY <1>3, PauseKeepsDistinct DEF Init, QueueHolds
<1>5. TurnsHold(turn, place)
  BY <1>3 DEF Init, TurnsHold, FreeHoldsNothing, FreeSlot
<1>6. CallsAgree(call, place, waiters, drain.waiters)
  <2>1. \A c \in Caller : ~Sends(call, c)
    BY DEF Init, Sends, Ready
  <2>2. waiters = {} /\ drain.waiters = {}
    BY DEF Init, DrainOff
  <2> QED BY <1>3, <2>1, <2>2 DEF CallsAgree, CallsHold, WaitersWait
<1> QED BY <1>1, <1>2, <1>4, <1>5, <1>6 DEF PlaceInv, Placed

\* An input is never in two places and never twice in the queue, whichever
\* calls overlap and whatever fails: what a turn, a sendQueuedNow, a removal,
\* close() or a late collector takes out of the queue, one of them takes, and
\* the turn or call it is with is still there.  All calls, all faults.
THEOREM EntriesHaveOnePlace == Spec => []EntriesInOnePlace
<1>1. PlaceInv => EntriesInOnePlace
  <2> SUFFICES ASSUME PlaceInv PROVE EntriesInOnePlace
    OBVIOUS
  <2>1. /\ QueueHolds(queue, place) /\ TurnsHold(turn, place)
        /\ CallsAgree(call, place, waiters, drain.waiters) /\ queue \in Queues
    BY PlacedTypes
  <2>2. /\ IsInjective(queue.steering \o queue.followUp)
        /\ ToSet(queue.steering \o queue.followUp)
             = {e \in Entry : place[e] = "queue"}
    BY <2>1, DistinctLists DEF QueueHolds
  <2>3. ASSUME NEW e \in Entry, place[e] = "turn"
        PROVE  \E t \in Live : e \in turn[t].holds /\
                 \A u \in Live \ {t} : e \notin turn[u].holds
    <3>1. PICK t \in Slot : e \in turn[t].holds
      BY <2>1, <2>3 DEF TurnsHold
    <3>2. t \in Live
      BY <2>1, <3>1 DEF TurnsHold, FreeHoldsNothing, Live
    <3>3. \A u \in Live \ {t} : e \notin turn[u].holds
      BY <2>1, <3>1 DEF TurnsHold, Live
    <3> QED BY <3>1, <3>2, <3>3
  <2>4. ASSUME NEW e \in Entry, place[e] = "call"
        PROVE  \E c \in Caller : /\ call[c].op = "sendQueuedNow"
                                 /\ call[c].entry = e
    BY <2>1, <2>4 DEF CallsAgree, CallsHold, Sends
  <2> QED BY <2>2, <2>3, <2>4 DEF EntriesInOnePlace
<1> QED BY <1>1, InitPlaces, NextKeepsPlaces, PTL DEF Spec

-----------------------------------------------------------------------------
(* Every entry goes one way.                                               *)
(*                                                                         *)
(* The ledger of a step is compared with the one before it.  That what is  *)
(* taken from the queue was there, and that what a turn or a call gives up *)
(* was with it, is what PlaceInv knows.                                    *)

AllNewAtFirst ==
  (\A d \in Caller : budget[d] = MaxCalls) => \A e \in Entry : place[e] = "new"

Goes(P, R) == \A e \in Entry : R[e] # P[e] => R[e] \in Fates[P[e]]

\* From ledger P to ledger R the entries in es go to where.
Sent(P, R, es, where) ==
  \A e \in Entry : R[e] = IF e \in es THEN where ELSE P[e]

LEMMA MovedSent == \A es, where : Sent(place, Moved(es, where), es, where)
BY DEF Moved, Sent

LEMMA FatesAre ==
  /\ Fates["new"] = {"queue", "turn"}
  /\ Fates["queue"] = {"call", "turn", "removed", "lost"}
  /\ Fates["call"] = {"turn", "lost"}
  /\ Fates["turn"] = {"journal", "lost"}
BY DEF Fates

\* Entries that leave the queue, a call or a turn.
LEMMA QueuedGo ==
  ASSUME NEW q, NEW P, NEW R, QueueHolds(q, P),
         NEW where \in {"removed", "lost", "turn", "call"},
         NEW es, es \subseteq Queued(q), Sent(P, R, es, where)
  PROVE  Goes(P, R)
BY FatesAre DEF Goes, Sent, QueueHolds

LEMMA HeldGo ==
  ASSUME NEW T \in [Slot -> Turns], NEW P, NEW R, TurnsHold(T, P), NEW t \in Slot,
         \A x \in Entry : IF x \in T[t].holds THEN R[x] \in {"journal", "lost"}
                          ELSE R[x] = P[x]
  PROVE  Goes(P, R)
<1>1. \A x \in T[t].holds : P[x] = "turn"
  BY HeldIsWithTurn
<1> QED BY <1>1, FatesAre DEF Goes

\* An operation that starts came from queue q, or into it with this step.
LEMMA OperationGoes ==
  ASSUME NEW T, NEW q \in Queues, NEW P \in Ledgers, OperationAtHead(q),
         StartOperation(T, q, P), NEW R, Goes(R, P),
         \A e \in Queued(q) : R[e] \in {"new", "queue"}
  PROVE  Goes(R, place')
<1> DEFINE x == Head(q.followUp)
<1>1. x \in Queued(q)
  BY OperationHead
<1>2. place' = [P EXCEPT ![x] = "turn"]
  BY DEF StartOperation
<1> HIDE DEF x
<1>3. \A e \in Entry : place'[e] = IF e = x THEN "turn" ELSE P[e]
  BY <1>2 DEF Ledgers
<1> QED BY <1>1, <1>3, FatesAre DEF Goes

LEMMA StartIfHeadGoes ==
  ASSUME NEW q \in Queues, NEW P \in Ledgers, StartIfHead(q, P), Goes(place, P),
         \A e \in Queued(q) : place[e] \in {"new", "queue"}
  PROVE  Goes(place, place')
<1>1. CASE OperationDue(q, state) /\ StartOperation(turn, q, P)
  BY <1>1, OperationGoes DEF OperationDue
<1>2. CASE place' = P
  BY <1>2
<1> QED BY <1>1, <1>2 DEF StartIfHead

LEMMA HeadGoes ==
  ASSUME PlaceInv, NEW e \in FollowUpHead(queue), BeginQueued(queue, e)
  PROVE  Goes(place, place')
<1>1. e \in Queued(queue) /\ QueueHolds(queue, place)
  BY PlacedTypes, TakenByIdOrHead
<1>2. Sent(place, place', {e}, "turn")
  BY MovedSent DEF BeginQueued
<1>3. {e} \subseteq Queued(queue)
  BY <1>1
<1> QED BY <1>1, <1>2, <1>3, QueuedGo

LEMMA EnterGoes ==
  ASSUME NEW e \in Entry, place[e] = "new",
         NEW P, P = Moved({e}, "queue")
  PROVE  Goes(place, P)
BY FatesAre DEF Goes, Moved

LEMMA RequestGoes ==
  ASSUME PlaceInv, AllNewAtFirst, NEW c \in Caller, Request(c)
  PROVE  Goes(place, place')
<1>1. /\ QueueHolds(queue, place) /\ queue \in Queues /\ place \in Ledgers
      /\ Untouched /\ TurnsHold(turn, place)
      /\ CallsAgree(call, place, waiters, drain.waiters)
  BY PlacedTypes
<1>2. CASE place' = place
  BY <1>2 DEF Goes
<1>3. ASSUME NEW e \in Entry, NEW b, place[e] = "new", Enter(e, b)
      PROVE  Goes(place, place')
  BY <1>3, EnterGoes DEF Enter
<1>4. CASE QueueInput(c)
  BY <1>3, <1>4 DEF QueueInput, Fresh
<1>5. CASE ClearQueue(c)
  <2>1. Sent(place, place', Queued(queue), "removed")
    BY <1>5, MovedSent DEF ClearQueue
  <2> QED BY <1>1, <2>1, QueuedGo
<1>6. CASE RemoveQueued(c)
  <2>1. PICK e \in Queued(queue) : place' = Moved({e}, "removed")
    BY <1>6 DEF RemoveQueued
  <2>2. Sent(place, place', {e}, "removed") /\ {e} \subseteq Queued(queue)
    BY <2>1, MovedSent
  <2> QED BY <1>1, <2>2, QueuedGo
<1>7. CASE SendQueuedNow(c)
  <2>1. PICK e \in TakeableById(queue) : place' = Moved({e}, "call")
    BY <1>7 DEF SendQueuedNow
  <2>2. Sent(place, place', {e}, "call") /\ {e} \subseteq Queued(queue)
    BY <1>1, <2>1, MovedSent, TakenByIdOrHead
  <2> QED BY <1>1, <2>2, QueuedGo
<1>8. CASE QueueOperation(c)
  <2>1. CASE StartIfHead(queue, place)
    <3>1. Goes(place, place) /\ \A e \in Queued(queue) : place[e] \in {"new", "queue"}
      BY <1>1 DEF Goes, QueueHolds
    <3> QED BY <1>1, <2>1, <3>1, StartIfHeadGoes
  <2>2. ASSUME NEW e \in Entry, place[e] = "new",
               StartIfHead(EnqueueEntry(queue, "followUp", e), Moved({e}, "queue"))
        PROVE  Goes(place, place')
    <3>1. /\ EnqueueEntry(queue, "followUp", e) \in Queues
          /\ Queued(EnqueueEntry(queue, "followUp", e)) = Queued(queue) \cup {e}
      BY <1>1, EnqueueAddsOne
    <3>2. Goes(place, Moved({e}, "queue")) /\ Moved({e}, "queue") \in Ledgers
      BY <1>1, <2>2, EnterGoes, MovedIsLedger DEF Places
    <3>3. \A x \in Queued(queue) \cup {e} : place[x] \in {"new", "queue"}
      BY <1>1, <2>2 DEF QueueHolds
    <3> QED BY <2>2, <3>1, <3>2, <3>3, StartIfHeadGoes
  <2> QED BY <1>8, <2>1, <2>2 DEF QueueOperation, Fresh
<1>9. CASE RestoreQueue(c)
  <2>1. PICK q \in Snapshots : StartIfHead(q, Moved(Queued(q), "queue"))
    BY <1>9 DEF RestoreQueue
  <2>2. q \in Queues /\ Queued(q) \subseteq Entry
    BY SnapshotsAreQueues, QueuedAreEntries
  <2>3. \A e \in Entry : place[e] = "new"
    BY <1>9 DEF RestoreQueue, AllNewAtFirst
  <2>4. Goes(place, Moved(Queued(q), "queue"))
    BY <2>3, FatesAre DEF Goes, Moved
  <2>5. Moved(Queued(q), "queue") \in Ledgers
    BY <1>1, MovedIsLedger DEF Places
  <2>6. \A e \in Queued(q) : place[e] \in {"new", "queue"}
    BY <2>2, <2>3
  <2> QED BY <2>1, <2>2, <2>4, <2>5, <2>6, StartIfHeadGoes
<1> QED BY <1>2, <1>4, <1>5, <1>6, <1>7, <1>8, <1>9
        DEF Request, CallSend, Await, QueueNextTurnContext,
            RequestContinuation, RecordContext, Reorder, PromoteQueued, Cancel,
            Close, ResumeQueue, queueVars

LEMMA ProceedGoes ==
  ASSUME PlaceInv, NEW c \in Caller, Proceed(c)
  PROVE  Goes(place, place')
<1>1. /\ QueueHolds(queue, place) /\ queue \in Queues /\ place \in Ledgers
      /\ call \in CallMaps /\ CallsAgree(call, place, waiters, drain.waiters)
  BY PlacedTypes
<1>2. CASE place' = place
  BY <1>2 DEF Goes
<1>3. ASSUME NEW op \in DOMAIN SendKind, QueueBusy(c, op)
      PROVE  Goes(place, place')
  <2>1. PICK e \in Entry : place[e] = "new" /\ \E b : Enter(e, b)
    BY <1>3 DEF QueueBusy, Fresh
  <2> QED BY <2>1, EnterGoes DEF Enter
<1>4. CASE CloseCompletes(c)
  <2>1. Sent(place, place', Queued(queue), "removed")
    BY <1>4, MovedSent DEF CloseCompletes
  <2> QED BY <1>1, <2>1, QueuedGo
<1>5. CASE SendNowFails(c) \/ SendNowStarts(c)
  <2> DEFINE e == call[c].entry
  <2>1. Sends(call, c)
    BY <1>5 DEF SendNowFails, SendNowStarts, Resumed, Sends
  <2>2. e \in Entry
    BY <1>1, <2>1 DEF CallMaps, CallRecords, Sends, Executables
  <2>3. place[e] = "call"
    BY <1>1, <2>1, <2>2 DEF CallsAgree, CallsHold
  <2>4. PICK where \in {"lost", "turn"} : place' = Moved({e}, where)
    BY <1>5 DEF SendNowFails, SendNowStarts, BeginQueued
  <2> HIDE DEF e
  <2> QED BY <2>3, <2>4, FatesAre DEF Moved, Goes
<1>6. CASE ResumeHead(c)
  <2>1. CASE OperationDue(queue, state) /\ StartOperation(turn, queue, place)
    <3>1. Goes(place, place) /\ \A e \in Queued(queue) : place[e] \in {"new", "queue"}
      BY <1>1 DEF Goes, QueueHolds
    <3> QED BY <1>1, <2>1, <3>1, OperationGoes DEF OperationDue
  <2>2. CASE \E e \in FollowUpHead(queue) : BeginQueued(queue, e)
    BY <2>2, HeadGoes
  <2> QED BY <1>2, <1>6, <2>1, <2>2 DEF ResumeHead
<1> QED BY <1>2, <1>3, <1>4, <1>5, <1>6
        DEF Proceed, StartIdle, Refuse, WaitForRelease, LookAgain, BeginWrite,
            EndWrite, CancelReturns, CloseFails, SendNowProceeds,
            OnlyCallsChange, queueVars

\* A turn settles: what it held is stored or lost, and an operation may start.
LEMMA SettlingGoes ==
  ASSUME PlaceInv, NEW t \in Slot, NEW q \in {queue, Pause(queue)},
         NEW where \in {"journal", "lost"}, NEW s, NEW at,
         FinishActiveTurn(t, q, Moved(turn[t].holds, where), s, at)
  PROVE  Goes(place, place')
<1>1. /\ QueueHolds(queue, place) /\ queue \in Queues /\ place \in Ledgers
      /\ turn \in [Slot -> Turns] /\ TurnsHold(turn, place)
  BY PlacedTypes
<1> DEFINE P == Moved(turn[t].holds, where)
<1>2. P \in Ledgers
  BY <1>1, MovedIsLedger DEF Places
<1>3. Goes(place, P)
  <2>1. \A e \in Entry : IF e \in turn[t].holds THEN P[e] \in {"journal", "lost"}
                         ELSE P[e] = place[e]
    BY DEF Moved
  <2> HIDE DEF P
  <2> QED BY <1>1, <2>1, HeldGo
<1>4. \/ place' = P
      \/ OperationDue(q, StateAfterTurn(s)) /\ \E T : StartOperation(T, q, P)
  BY Zenon DEF FinishActiveTurn
<1> HIDE DEF P
<1>5. q \in Queues /\ \A e \in Queued(q) : place[e] \in {"new", "queue"}
  BY <1>1 DEF Pause, Queued, Queues, QueueHolds
<1> QED BY <1>2, <1>3, <1>4, <1>5, OperationGoes DEF OperationDue

LEMMA AdvanceGoes ==
  ASSUME PlaceInv, NEW t \in Slot, Advance(t)
  PROVE  Goes(place, place')
<1>1. /\ QueueHolds(queue, place) /\ queue \in Queues
      /\ turn \in [Slot -> Turns] /\ TurnsHold(turn, place)
  BY PlacedTypes
<1>2. CASE Execute(t)
  <2>1. \A e \in Entry : IF e \in turn[t].holds THEN place'[e] \in {"journal", "lost"}
                         ELSE place'[e] = place[e]
    BY <1>2 DEF Execute, Moved
  <2> QED BY <1>1, <2>1, HeldGo
<1>3. CASE Deliver(t)
  <2>1. \A e \in Entry : IF e \in turn[t].holds THEN place'[e] \in {"journal", "lost"}
                         ELSE place'[e] = place[e]
    BY <1>3 DEF Deliver
  <2> QED BY <1>1, <2>1, HeldGo
<1>4. CASE TakeSteering(t)
  <2>1. Sent(place, place', TakenSteering(queue), "turn")
    BY <1>4, MovedSent DEF TakeSteering
  <2> QED BY <1>1, <2>1, QueuedGo, TakenFromQueue
<1>5. CASE NaturalStop(t)
  BY <1>5 DEF NaturalStop, queueVars, Goes
<1>6. CASE TakeFollowUps(t)
  <2>1. PICK q \in PolicyQueues :
          place' = [e \in Entry |-> IF e \in TakenFollowUps(q) THEN "turn"
                                   ELSE Moved(Queued(q), "queue")[e]]
    BY <1>6 DEF TakeFollowUps
  <2>2. q \in Queues /\ \A e \in Queued(q) : place[e] \in {"queue", "new"}
    <3>1. CASE q = queue
      BY <1>1, <3>1 DEF QueueHolds
    <3>2. ASSUME NEW e \in Entry, place[e] = "new",
                 q = EnqueueEntry(queue, "followUp", e)
          PROVE  q \in Queues /\ \A x \in Queued(q) : place[x] \in {"queue", "new"}
      <4>1. q \in Queues /\ Queued(q) = Queued(queue) \cup {e}
        BY <1>1, <3>2, EnqueueAddsOne
      <4> QED BY <1>1, <3>2, <4>1 DEF QueueHolds
    <3> QED BY <2>1, <3>1, <3>2 DEF PolicyQueues, Fresh
  <2>3. TakenFollowUps(q) \subseteq Queued(q)
    BY <2>2, TakenFromQueue
  <2>4. \A e \in Entry : place'[e] = IF e \in TakenFollowUps(q) THEN "turn"
                                     ELSE IF e \in Queued(q) THEN "queue"
                                     ELSE place[e]
    BY <2>1 DEF Moved
  <2> QED BY <2>2, <2>3, <2>4, FatesAre DEF Goes
<1>7. CASE Settle(t)
  <2>1. PICK q \in {queue, Pause(queue)}, where \in {"journal", "lost"},
             at \in {"released", "failed"} :
               \E s : FinishActiveTurn(t, q, Moved(turn[t].holds, where), s, at)
    BY <1>7 DEF Settle
  <2> QED BY <2>1, SettlingGoes
<1>8. CASE SettleOperation(t)
  <2>1. FinishActiveTurn(t, queue, Moved(turn[t].holds, "journal"), state,
                         "released")
    BY <1>8 DEF SettleOperation
  <2> QED BY <2>1, SettlingGoes
<1> QED BY <1>2, <1>3, <1>4, <1>5, <1>6, <1>7, <1>8 DEF Advance

LEMMA ScheduledGoes ==
  ASSUME PlaceInv, Scheduled
  PROVE  Goes(place, place')
<1>1. QueueHolds(queue, place) /\ queue \in Queues /\ place \in Ledgers
  BY PlacedTypes
<1>2. CASE place' = place
  BY <1>2 DEF Goes
<1>3. CASE OperationDue(queue, state) /\ StartOperation(turn, queue, place)
  <2>1. Goes(place, place) /\ \A e \in Queued(queue) : place[e] \in {"new", "queue"}
    BY <1>1 DEF Goes, QueueHolds
  <2> QED BY <1>1, <1>3, <2>1, OperationGoes DEF OperationDue
<1>4. CASE \E e \in FollowUpHead(queue) : BeginQueued(queue, e)
  BY <1>4, HeadGoes
<1> QED BY <1>2, <1>3, <1>4
        DEF Scheduled, DrainResumes, DrainEnds, AfterOperation, queueVars

LEMMA OrphanGoes ==
  ASSUME PlaceInv, OrphanTakes
  PROVE  Goes(place, place')
<1>1. QueueHolds(queue, place) /\ queue \in Queues
  BY PlacedTypes
<1>2. \/ Sent(place, place', TakenSteering(queue), "lost")
      \/ Sent(place, place', TakenFollowUps(queue), "lost")
  BY MovedSent DEF OrphanTakes
<1> QED BY <1>1, <1>2, QueuedGo, TakenFromQueue

LEMMA NextGoes ==
  ASSUME PlaceInv, AllNewAtFirst, [Next]_vars
  PROVE  Goes(place, place')
<1>1. CASE place' = place
  BY <1>1 DEF Goes
<1>2. CASE UNCHANGED vars
  BY <1>1, <1>2 DEF vars, queueVars
<1>3. ASSUME NEW c \in Caller, Request(c) \/ Proceed(c) PROVE Goes(place, place')
  BY <1>3, RequestGoes, ProceedGoes
<1>4. ASSUME NEW c \in Caller, AbandonWaiting(c) PROVE Goes(place, place')
  BY <1>1, <1>4 DEF AbandonWaiting, OnlyCallsChange, queueVars
<1>5. ASSUME NEW t \in Slot, SignalAbort(t) PROVE Goes(place, place')
  BY <1>1, <1>5 DEF SignalAbort, queueVars
<1> QED BY <1>2, <1>3, <1>4, <1>5, AdvanceGoes, ScheduledGoes, OrphanGoes, Zenon
        DEF Next

LEMMA NextKeepsNew ==
  ASSUME PlaceInv, AllNewAtFirst, [Next]_vars, NothingHeldAtFirst'
  PROVE  AllNewAtFirst'
<1> SUFFICES ASSUME \A d \in Caller : budget'[d] = MaxCalls, NEW e \in Entry
             PROVE  place'[e] = "new"
  BY DEF AllNewAtFirst
<1>1. \A c \in Caller : ~Request(c)
  BY RequestSpends, PlacedTypes
<1>2. budget' = budget
  <2>1. CASE UNCHANGED vars
    BY <2>1 DEF vars
  <2>2. CASE Next
    BY <1>1, <2>2, OthersSpendNothing
  <2> QED BY <2>1, <2>2
<1>3. place[e] = "new"
  BY <1>2 DEF AllNewAtFirst
<1>4. place'[e] \in {"new", "queue", "turn"}
  BY <1>3, NextGoes, FatesAre DEF Goes
<1>5. place'[e] \notin {"queue", "turn", "call"}
  BY DEF NothingHeldAtFirst
<1> QED BY <1>4, <1>5

\* No input is handled twice, in whatever order the calls, turns, aborts and
\* failures of a session come: an entry that left the queue never returns to
\* it, nor does what a turn or a sendQueuedNow held go to another turn.
THEOREM EntriesAreHandledOnce == Spec => EntriesGoOneWay
<1>1. Init => PlaceInv /\ AllNewAtFirst
  BY InitPlaces DEF Init, AllNewAtFirst
<1>2. PlaceInv /\ AllNewAtFirst /\ [Next]_vars /\ NothingHeldAtFirst'
        => AllNewAtFirst'
  BY NextKeepsNew
<1>3. PlaceInv /\ AllNewAtFirst /\ [Next]_vars =>
        [\A e \in Entry : place'[e] # place[e] => place'[e] \in Fates[place[e]]]_vars
  BY NextGoes DEF Goes
<1> QED BY <1>1, <1>2, <1>3, PlacedAtFirst, NextKeepsPlaces, PTL
        DEF Spec, EntriesGoOneWay
-----------------------------------------------------------------------------
(* Nobody waits for what will not happen.                                  *)
(*                                                                         *)
(* A turn leaves its slot in the step that wakes whoever awaits it, and    *)
(* the lists of waiters are emptied by the steps that answer their         *)
(* callers.  The parts that change together are argued together: calls,    *)
(* turns, lists and drain in Held, the active turn and the state in        *)
(* ActiveRuns.                                                             *)

Runs(T, t) == t \in Slot /\ T[t].phase # "free"

Keeps(T, U) == \A t \in Slot : Runs(T, t) => Runs(U, t)

AwaitsHeld(C, T, ws, W) ==
  \A c \in Caller : /\ C[c].at = "turn" => Runs(T, C[c].turn)
                    /\ C[c].at = "continuation" => c \in ws \cup W

DrainHeld(D, T) ==
  /\ D.waiters # {} => D.at \in {"running", "resumed"}
  /\ D.at = "running" => Runs(T, D.turn)

ActiveRuns(T, a, s) ==
  /\ a # None => Runs(T, a)
  /\ s \in {"running", "cancelling", "closing"} => a # None

Held(C, T, ws, D, asked) ==
  /\ AwaitsHeld(C, T, ws, D.waiters)
  /\ DrainHeld(D, T)
  /\ ws # {} => asked

HeldInv ==
  /\ TypeOK
  /\ Held(call, turn, waiters, drain, requested)
  /\ ActiveRuns(turn, activeTurn, state)

LEMMA HeldTypes ==
  ASSUME HeldInv
  PROVE  /\ TypeOK /\ turn \in [Slot -> Turns] /\ call \in CallMaps
         /\ requested \in BOOLEAN
         /\ Held(call, turn, waiters, drain, requested)
         /\ AwaitsHeld(call, turn, waiters, drain.waiters)
         /\ ActiveRuns(turn, activeTurn, state)
BY DEF HeldInv, Held, TypeOK, ControlTypeOK, CallTypeOK, CallMaps

\* The turns that run go on running.
LEMMA KeepsHeld ==
  ASSUME NEW C, NEW T, NEW U, NEW ws, NEW D, NEW asked, Keeps(T, U),
         Held(C, T, ws, D, asked)
  PROVE  Held(C, U, ws, D, asked)
BY DEF Keeps, Held, AwaitsHeld, DrainHeld, Runs

LEMMA KeepsActive ==
  ASSUME NEW T, NEW U, NEW a, NEW s, Keeps(T, U), ActiveRuns(T, a, s)
  PROVE  ActiveRuns(U, a, s)
BY DEF Keeps, ActiveRuns, Runs

LEMMA UpdateKeeps ==
  ASSUME NEW T \in [Slot -> Turns], NEW t \in Slot, NEW v,
         T[t].phase # "free" => v.phase # "free"
  PROVE  Keeps(T, [T EXCEPT ![t] = v])
BY DEF Keeps, Runs

LEMMA AbortKeeps ==
  ASSUME NEW T \in [Slot -> Turns], NEW t \in Slot
  PROVE  Keeps(T, [T EXCEPT ![t].aborted = TRUE])
<1> DEFINE v == [T[t] EXCEPT !.aborted = TRUE]
<1>1. v.phase = T[t].phase
  BY DEF Turns
<1>2. [T EXCEPT ![t].aborted = TRUE] = [T EXCEPT ![t] = v]
  OBVIOUS
<1> HIDE DEF v
<1> QED BY <1>1, <1>2, UpdateKeeps

LEMMA BeginKeeps ==
  ASSUME NEW T \in [Slot -> Turns], NEW kind, NEW es, NEW signal,
         Begin(T, kind, es, signal)
  PROVE  /\ Keeps(T, turn') /\ Runs(turn', activeTurn') /\ activeTurn' # None
         /\ ActiveRuns(turn', activeTurn', state')
<1>1. PICK t \in Slot :
        /\ T[t].phase = "free"
        /\ turn' = [T EXCEPT ![t] = [kind |-> kind, phase |-> "admission",
                                     aborted |-> FALSE, signal |-> signal,
                                     holds |-> es]]
        /\ activeTurn' = t
  BY DEF Begin
<1>2. turn'[t].phase = "admission" /\ \A u \in Slot \ {t} : turn'[u] = T[u]
  BY <1>1
<1>3. Keeps(T, turn') /\ Runs(turn', t)
  BY <1>1, <1>2 DEF Keeps, Runs
<1>4. t # None
  BY NoneIsNoSlot
<1> QED BY <1>1, <1>3, <1>4 DEF ActiveRuns

\* One call goes on; calls return.
LEMMA OneAwaits ==
  ASSUME NEW C \in CallMaps, NEW T, NEW ws, NEW W, AwaitsHeld(C, T, ws, W),
         NEW c \in Caller, NEW r,
         r.at = "turn" => Runs(T, r.turn), r.at = "continuation" => c \in ws \cup W
  PROVE  AwaitsHeld([C EXCEPT ![c] = r], T, ws, W)
BY DEF AwaitsHeld, CallMaps

LEMMA ReturnAwaits ==
  ASSUME NEW C, NEW T, NEW ws, NEW W, AwaitsHeld(C, T, ws, W), NEW cs
  PROVE  AwaitsHeld(Return(C, cs), T, ws \ cs, W \ cs)
BY DEF AwaitsHeld, Return, Ready

LEMMA ReturnKeeps ==
  ASSUME NEW C, NEW T, NEW ws, NEW W, AwaitsHeld(C, T, ws, W), NEW cs
  PROVE  AwaitsHeld(Return(C, cs), T, ws, W)
BY DEF AwaitsHeld, Return, Ready

\* One caller changes nothing but its call.
LEMMA CallHeld ==
  ASSUME HeldInv, UNCHANGED <<waiters, drain, requested>>, Keeps(turn, turn'),
         AwaitsHeld(call', turn, waiters, drain.waiters)
  PROVE  Held(call', turn', waiters', drain', requested')
<1>1. Held(call', turn, waiters, drain, requested)
  BY DEF HeldInv, Held
<1>2. Held(call', turn', waiters, drain, requested)
  BY <1>1, KeepsHeld
<1> QED BY <1>2

LEMMA KeepsItself == \A T : Keeps(T, T)
BY DEF Keeps

LEMMA ScheduleHeld ==
  ASSUME NEW T \in [Slot -> Turns], NEW a, NEW s, NEW asked \in BOOLEAN, NEW ws,
         NEW D, NEW C, Held(C, T, ws, D, asked), ActiveRuns(T, a, s),
         Schedule(T, a, s, asked, ws, D, C)
  PROVE  /\ Held(call', turn', waiters', drain', requested')
         /\ ActiveRuns(turn', activeTurn', state')
<1>1. CASE D.at = "off" /\ StartContinuation(T, ws) /\ call' = C
  <2>1. Begin(T, "continuation", {}, FALSE)
    BY <1>1 DEF StartContinuation
  <2>2. /\ Keeps(T, turn') /\ Runs(turn', activeTurn')
        /\ ActiveRuns(turn', activeTurn', state')
    BY <2>1, BeginKeeps
  <2>3. /\ waiters' = {}
        /\ drain' = [at |-> "running", turn |-> activeTurn', waiters |-> ws]
    BY <1>1 DEF StartContinuation
  <2>4. D.waiters = {}
    BY <1>1 DEF Held, DrainHeld
  <2>5. AwaitsHeld(C, turn', {}, ws)
    BY <2>2, <2>4 DEF Held, AwaitsHeld, Keeps, Runs
  <2> QED BY <1>1, <2>2, <2>3, <2>5 DEF Held, DrainHeld
<1>2. CASE /\ turn' = T /\ activeTurn' = a /\ state' = s
           /\ waiters' = {} /\ drain' = D /\ call' = Return(C, ws)
  <2>1. AwaitsHeld(Return(C, ws), T, {}, D.waiters)
    BY DEF Held, AwaitsHeld, Return, Ready
  <2> QED BY <1>2, <2>1 DEF Held
<1>3. CASE /\ turn' = T /\ activeTurn' = a /\ state' = s /\ requested' = asked
           /\ waiters' = ws /\ drain' = D /\ call' = C
  BY <1>3
<1> QED BY <1>1, <1>2, <1>3 DEF Schedule

LEMMA FinishHeld ==
  ASSUME HeldInv, NEW t \in Slot, NEW q, NEW P, NEW s,
         NEW at \in {"released", "failed"}, FinishActiveTurn(t, q, P, s, at)
  PROVE  /\ Held(call', turn', waiters', drain', requested')
         /\ ActiveRuns(turn', activeTurn', state')
<1> DEFINE T == [turn EXCEPT ![t] = FreeSlot]
           C == Released(call, t, at)
           D == IF drain.at = "running" /\ drain.turn = t
                  THEN [drain EXCEPT !.at = "resumed", !.turn = None] ELSE drain
           next == StateAfterTurn(s)
<1>1. /\ turn \in [Slot -> Turns] /\ requested \in BOOLEAN
      /\ AwaitsHeld(call, turn, waiters, drain.waiters) /\ DrainHeld(drain, turn)
      /\ waiters # {} => requested
      /\ call \in CallMaps /\ drain \in Drains
  BY HeldTypes DEF HeldInv, Held, TypeOK, CallTypeOK, Drains
<1>2. T \in [Slot -> Turns]
  BY <1>1 DEF FreeSlot, Turns, TurnKinds, Phases
<1>3. \A u \in Slot \ {t} : T[u] = turn[u]
  BY <1>1
<1>4. D.waiters = drain.waiters /\ DrainHeld(D, T)
  BY <1>1, <1>3 DEF DrainHeld, Drains, Runs
<1>5. AwaitsHeld(C, T, waiters, D.waiters)
  <2> SUFFICES ASSUME NEW c \in Caller
               PROVE  /\ C[c].at = "turn" => Runs(T, C[c].turn)
                      /\ C[c].at = "continuation" => c \in waiters \cup drain.waiters
    BY <1>4 DEF AwaitsHeld
  <2>1. CASE call[c].at = "turn" /\ call[c].turn = t
    <3>1. C[c].at = at
      BY <1>1, <2>1 DEF Released, CallMaps, CallRecords
    <3> QED BY <3>1
  <2>2. CASE ~(call[c].at = "turn" /\ call[c].turn = t)
    <3>1. C[c] = call[c]
      BY <2>2 DEF Released
    <3> QED BY <1>1, <1>3, <2>2, <3>1 DEF AwaitsHeld, Runs
  <2> QED BY <2>1, <2>2
<1>6. Held(C, T, waiters, D, requested)
  BY <1>1, <1>4, <1>5 DEF Held
<1>7. ActiveRuns(T, None, next)
  BY DEF ActiveRuns, StateAfterTurn
<1>8. \/ StartOperation(T, q, P) /\ call' = C /\ drain' = D
           /\ UNCHANGED <<requested, waiters>>
      \/ /\ turn' = T /\ activeTurn' = None /\ state' = next
         /\ call' = C /\ drain' = D /\ UNCHANGED <<requested, waiters>>
      \/ Schedule(T, None, next, requested, waiters, D, C)
  BY Zenon DEF FinishActiveTurn
<1> HIDE DEF T, C, D, next
<1>9. CASE StartOperation(T, q, P) /\ call' = C /\ drain' = D
             /\ UNCHANGED <<requested, waiters>>
  <2>1. Keeps(T, turn') /\ ActiveRuns(turn', activeTurn', state')
    BY <1>2, <1>9, BeginKeeps DEF StartOperation
  <2> QED BY <1>6, <1>9, <2>1, KeepsHeld
<1>10. CASE /\ turn' = T /\ activeTurn' = None /\ state' = next
            /\ call' = C /\ drain' = D /\ UNCHANGED <<requested, waiters>>
  BY <1>6, <1>7, <1>10
<1>11. CASE Schedule(T, None, next, requested, waiters, D, C)
  BY <1>1, <1>2, <1>6, <1>7, <1>11, ScheduleHeld
<1> QED BY <1>8, <1>9, <1>10, <1>11

\* The lists lose whom they answered.
LEMMA AnswerAwaits ==
  ASSUME NEW C, NEW T, NEW ws, NEW W, AwaitsHeld(C, T, ws, W),
         NEW cs, ws \subseteq cs
  PROVE  AwaitsHeld(Return(C, cs), T, {}, W)
BY DEF AwaitsHeld, Return, Ready

LEMMA StartHeld ==
  ASSUME HeldInv, \E q, P : StartIfHead(q, P)
  PROVE  Keeps(turn, turn') /\ ActiveRuns(turn', activeTurn', state')
<1>1. turn \in [Slot -> Turns] /\ ActiveRuns(turn, activeTurn, state)
  BY HeldTypes
<1>2. CASE \E q, P : StartOperation(turn, q, P)
  BY <1>1, <1>2, BeginKeeps DEF StartOperation
<1>3. CASE UNCHANGED <<state, activeTurn, turn>>
  BY <1>1, <1>3, KeepsItself
<1> QED BY <1>2, <1>3 DEF StartIfHead

LEMMA AbortHeld ==
  ASSUME HeldInv, activeTurn # None, NEW C, AbortTurn(C),
         AwaitsHeld(C, turn, waiters, drain.waiters)
  PROVE  /\ Held(call', turn', waiters', drain', requested')
         /\ ActiveRuns(turn', activeTurn', state')
<1>1. /\ turn \in [Slot -> Turns] /\ activeTurn \in Slot
      /\ Runs(turn, activeTurn) /\ DrainHeld(drain, turn)
  BY HeldTypes DEF ActiveRuns, Runs, Held
<1>2. Keeps(turn, turn')
  BY <1>1, AbortKeeps DEF AbortTurn
<1>3. ActiveRuns(turn', activeTurn', state')
  BY <1>1, <1>2 DEF AbortTurn, ActiveRuns, Keeps, Runs
<1>4. AwaitsHeld(Return(C, waiters), turn, {}, drain.waiters)
  BY AnswerAwaits
<1>5. Held(call', turn, waiters', drain', requested')
  BY <1>1, <1>4 DEF AbortTurn, Held
<1> QED BY <1>2, <1>3, <1>5, KeepsHeld

\* A caller goes to await the turn that is active, or the writes.
LEMMA GoesToAwait ==
  ASSUME HeldInv, NEW c \in Caller, NEW op, NEW e
  PROVE  /\ activeTurn # None =>
              AwaitsHeld(AwaitTurn(call, c, op, e), turn, waiters, drain.waiters)
         /\ AwaitWrites(c, op, e) =>
              AwaitsHeld(call', turn, waiters, drain.waiters)
<1>1. /\ call \in CallMaps /\ AwaitsHeld(call, turn, waiters, drain.waiters)
      /\ ActiveRuns(turn, activeTurn, state)
  BY HeldTypes
<1>2. ASSUME activeTurn # None
      PROVE  AwaitsHeld(AwaitTurn(call, c, op, e), turn, waiters, drain.waiters)
  <2> DEFINE r == [op |-> op, at |-> "turn", turn |-> activeTurn, ticket |-> 0,
                   entry |-> e]
  <2>1. Runs(turn, r.turn) /\ r.at # "continuation"
    BY <1>1, <1>2 DEF ActiveRuns
  <2> HIDE DEF r
  <2>2. AwaitsHeld([call EXCEPT ![c] = r], turn, waiters, drain.waiters)
    BY <1>1, <2>1, OneAwaits
  <2> QED BY <2>2 DEF AwaitTurn, r
<1>3. ASSUME AwaitWrites(c, op, e)
      PROVE  AwaitsHeld(call', turn, waiters, drain.waiters)
  <2> DEFINE r == [op |-> op, at |-> "contextWrite", turn |-> None,
                   ticket |-> writes.issued, entry |-> e]
  <2>1. r.at \notin {"turn", "continuation"}
    OBVIOUS
  <2> HIDE DEF r
  <2>2. AwaitsHeld([call EXCEPT ![c] = r], turn, waiters, drain.waiters)
    BY <1>1, <2>1, OneAwaits
  <2> QED BY <1>3, <2>2 DEF AwaitWrites, r
<1> QED BY <1>2, <1>3

\* Only calls change, or nothing that matters here.
LEMMA TurnsStayHeld ==
  ASSUME HeldInv, UNCHANGED <<state, activeTurn, turn, contVars>>,
         AwaitsHeld(call', turn, waiters, drain.waiters)
  PROVE  /\ Held(call', turn', waiters', drain', requested')
         /\ ActiveRuns(turn', activeTurn', state')
BY CallHeld, KeepsItself DEF HeldInv, contVars

\* A turn starts, and the calls do not go to wait.
LEMMA StartedHeld ==
  ASSUME HeldInv, NEW kind, NEW es, NEW signal, Begin(turn, kind, es, signal),
         UNCHANGED contVars, AwaitsHeld(call', turn, waiters, drain.waiters)
  PROVE  /\ Held(call', turn', waiters', drain', requested')
         /\ ActiveRuns(turn', activeTurn', state')
<1>1. turn \in [Slot -> Turns]
  BY HeldTypes
<1>2. Keeps(turn, turn') /\ ActiveRuns(turn', activeTurn', state')
  BY <1>1, BeginKeeps
<1> QED BY <1>2, CallHeld DEF contVars

LEMMA RequestHeld ==
  ASSUME HeldInv, NEW c \in Caller, Request(c)
  PROVE  /\ Held(call', turn', waiters', drain', requested')
         /\ ActiveRuns(turn', activeTurn', state')
<1>1. /\ call \in CallMaps /\ turn \in [Slot -> Turns] /\ requested \in BOOLEAN
      /\ AwaitsHeld(call, turn, waiters, drain.waiters)
      /\ Held(call, turn, waiters, drain, requested)
      /\ ActiveRuns(turn, activeTurn, state)
      /\ TypeOK
  BY HeldTypes
<1>2. CASE UNCHANGED <<state, activeTurn, turn, contVars, call>>
  BY <1>1, <1>2, TurnsStayHeld
<1>3. CASE UNCHANGED <<state, activeTurn, turn, contVars>>
           /\ \E op, e : AwaitWrites(c, op, e)
  BY <1>3, GoesToAwait, TurnsStayHeld
<1>4. CASE RequestContinuation(c)
  <2> DEFINE r == [Ready EXCEPT !.op = "requestContinuation",
                                !.at = "continuation"]
             C == [call EXCEPT ![c] = r]
  <2>1. r.at = "continuation"
    BY DEF Ready
  <2>2. AwaitsHeld(call, turn, waiters \cup {c}, drain.waiters)
    BY <1>1 DEF AwaitsHeld
  <2> HIDE DEF r
  <2>3. AwaitsHeld(C, turn, waiters \cup {c}, drain.waiters)
    BY <1>1, <2>1, <2>2, OneAwaits
  <2> HIDE DEF C
  <2>4. Held(C, turn, waiters \cup {c}, drain, TRUE)
    BY <1>1, <2>3 DEF Held
  <2>5. Schedule(turn, activeTurn, state, TRUE, waiters \cup {c}, drain, C)
    BY <1>4 DEF RequestContinuation, C, r
  <2> QED BY <1>1, <2>4, <2>5, ScheduleHeld
<1>5. CASE RecordContext(c)
  <2> DEFINE r == [Ready EXCEPT !.op = "recordContext", !.at = "recording",
                                !.ticket = writes.issued + 1]
  <2>1. r.at = "recording"
    BY DEF Ready
  <2> HIDE DEF r
  <2>2. AwaitsHeld([call EXCEPT ![c] = r], turn, waiters, drain.waiters)
    BY <1>1, <2>1, OneAwaits
  <2> QED BY <1>5, <2>2, TurnsStayHeld DEF RecordContext, turnVars, r
<1>6. CASE RestoreQueue(c) \/ QueueOperation(c)
  <2>1. UNCHANGED <<contVars, call>> /\ \E q, P : StartIfHead(q, P)
    BY <1>6 DEF RestoreQueue, QueueOperation
  <2> QED BY <1>1, <2>1, StartHeld, CallHeld DEF contVars
<1>7. CASE Cancel(c)
  <2>1. activeTurn # None /\ AbortTurn(AwaitTurn(call, c, "cancel", None))
    BY <1>1, <1>7 DEF Cancel, ActiveRuns
  <2> QED BY <2>1, AbortHeld, GoesToAwait
<1>8. CASE /\ activeTurn # None
           /\ \E e : AbortTurn(AwaitTurn(call, c, "sendQueuedNow", e))
  BY <1>8, AbortHeld, GoesToAwait
<1>9. CASE SendQueuedNow(c)
  <2>1. state # "idle" => activeTurn # None
    BY <1>1, <1>9 DEF SendQueuedNow, Open, ActiveRuns
  <2> QED BY <1>3, <1>8, <1>9, <2>1 DEF SendQueuedNow
<1>10. CASE Close(c)
  <2>1. CASE activeTurn = None
    BY <1>3, <1>10, <2>1 DEF Close
  <2>2. CASE activeTurn # None
    <3>1. /\ turn' = [turn EXCEPT ![activeTurn].aborted = TRUE]
          /\ UNCHANGED <<contVars, activeTurn>>
          /\ call' = AwaitTurn(call, c, "close", None)
      BY <1>10, <2>2 DEF Close
    <3>2. activeTurn \in Slot
      BY <1>1, <2>2 DEF ActiveRuns, Runs
    <3>3. Keeps(turn, turn')
      BY <1>1, <3>1, <3>2, AbortKeeps
    <3>4. ActiveRuns(turn', activeTurn', state')
      BY <1>1, <2>2, <3>1, <3>3 DEF ActiveRuns, Keeps, Runs
    <3> QED BY <2>2, <3>1, <3>3, <3>4, GoesToAwait, CallHeld DEF contVars
  <2> QED BY <2>1, <2>2
<1>11. CASE \/ CallSend(c) \/ ResumeQueue(c)
  BY <1>2, <1>3, <1>11 DEF CallSend, Await, ResumeQueue, turnVars
<1>12. CASE \/ QueueInput(c) \/ QueueNextTurnContext(c) \/ ClearQueue(c)
            \/ RemoveQueued(c) \/ Reorder(c) \/ PromoteQueued(c)
  BY <1>2, <1>12 DEF QueueInput, QueueNextTurnContext, ClearQueue, RemoveQueued,
                     Reorder, PromoteQueued, turnVars
<1> QED BY <1>4, <1>5, <1>6, <1>7, <1>9, <1>10, <1>11, <1>12 DEF Request

LEMMA ProceedHeld ==
  ASSUME HeldInv, NEW c \in Caller, Proceed(c)
  PROVE  /\ Held(call', turn', waiters', drain', requested')
         /\ ActiveRuns(turn', activeTurn', state')
<1>1. /\ call \in CallMaps /\ turn \in [Slot -> Turns]
      /\ AwaitsHeld(call, turn, waiters, drain.waiters)
      /\ Held(call, turn, waiters, drain, requested)
      /\ ActiveRuns(turn, activeTurn, state)
  BY HeldTypes
<1>2. AwaitsHeld(Return(call, {c}), turn, waiters, drain.waiters)
  BY <1>1, ReturnKeeps
<1>3. CASE UNCHANGED <<state, activeTurn, turn, contVars>> /\ call' = Return(call, {c})
  BY <1>2, <1>3, TurnsStayHeld
<1>4. CASE UNCHANGED <<state, activeTurn, turn, contVars>>
           /\ \E op, e : AwaitWrites(c, op, e)
  BY <1>4, GoesToAwait, TurnsStayHeld
<1>5. CASE /\ \E kind, es, signal : Begin(turn, kind, es, signal)
           /\ UNCHANGED contVars /\ call' = Return(call, {c})
  BY <1>2, <1>5, StartedHeld
<1>6. CASE \E op \in DOMAIN SendKind :
             StartIdle(c, op) \/ QueueBusy(c, op) \/ Refuse(c, op)
  BY <1>3, <1>5, <1>6 DEF StartIdle, QueueBusy, Refuse, OnlyCallsChange, turnVars
<1>7. CASE WaitForRelease(c)
  BY <1>7, GoesToAwait, TurnsStayHeld
     DEF WaitForRelease, OnlyCallsChange, turnVars
<1>8. CASE BeginWrite(c)
  <2>1. CASE call' = [call EXCEPT ![c].at = "appending"]
    <3> DEFINE r == [call[c] EXCEPT !.at = "appending"]
    <3>1. r.at = "appending"
      BY <1>1 DEF CallMaps, CallRecords
    <3>2. call' = [call EXCEPT ![c] = r]
      BY <2>1
    <3> HIDE DEF r
    <3>3. AwaitsHeld(call', turn, waiters, drain.waiters)
      BY <1>1, <3>1, <3>2, OneAwaits
    <3> QED BY <1>8, <3>3, TurnsStayHeld DEF BeginWrite, turnVars
  <2>2. CASE call' = Return(call, {c})
    BY <1>3, <1>8, <2>2 DEF BeginWrite, turnVars
  <2> QED BY <1>8, <2>1, <2>2 DEF BeginWrite
<1>9. CASE CloseCompletes(c)
  <2>1. /\ state' = "closed" /\ requested' = FALSE /\ waiters' = {}
        /\ call' = Return(call, waiters \cup {c})
        /\ UNCHANGED <<activeTurn, turn, drain>>
    BY <1>9 DEF CloseCompletes
  <2>2. AwaitsHeld(Return(call, waiters \cup {c}), turn, {}, drain.waiters)
    BY <1>1, AnswerAwaits
  <2>3. ActiveRuns(turn, activeTurn, "closed")
    BY <1>1 DEF ActiveRuns
  <2> QED BY <1>1, <2>1, <2>2, <2>3 DEF Held
<1>10. CASE SendNowStarts(c)
  BY <1>5, <1>10 DEF SendNowStarts, BeginQueued
<1>11. CASE ResumeHead(c)
  BY <1>3, <1>5, <1>11 DEF ResumeHead, BeginQueued, StartOperation, turnVars
<1>12. CASE LookAgain(c) \/ SendNowProceeds(c)
  BY <1>4, <1>12 DEF LookAgain, SendNowProceeds, OnlyCallsChange, turnVars
<1>13. CASE \/ EndWrite(c) \/ CancelReturns(c) \/ CloseFails(c) \/ SendNowFails(c)
  BY <1>3, <1>13 DEF EndWrite, CancelReturns, CloseFails, SendNowFails,
                     OnlyCallsChange, turnVars
<1> QED BY <1>6, <1>7, <1>8, <1>9, <1>10, <1>11, <1>12, <1>13 DEF Proceed

LEMMA AdvanceHeld ==
  ASSUME HeldInv, NEW t \in Slot, Advance(t)
  PROVE  /\ Held(call', turn', waiters', drain', requested')
         /\ ActiveRuns(turn', activeTurn', state')
<1>1. /\ TypeOK /\ turn \in [Slot -> Turns] /\ turn[t] \in Turns
      /\ AwaitsHeld(call, turn, waiters, drain.waiters)
      /\ ActiveRuns(turn, activeTurn, state)
  BY HeldTypes
<1>2. CASE \/ Execute(t) \/ TakeSteering(t) \/ Deliver(t) \/ NaturalStop(t)
           \/ TakeFollowUps(t)
  <2>1. PICK p \in Phases \ {"free"} : \E es :
          turn' = [turn EXCEPT ![t] = [turn[t] EXCEPT !.phase = p, !.holds = es]]
    BY <1>1, <1>2, TurnPhases
  <2>2. PICK es :
          turn' = [turn EXCEPT ![t] = [turn[t] EXCEPT !.phase = p, !.holds = es]]
    BY <2>1
  <2> DEFINE u == [turn[t] EXCEPT !.phase = p, !.holds = es]
  <2>3. u.phase # "free"
    BY <1>1 DEF Turns
  <2> HIDE DEF u
  <2>4. Keeps(turn, turn')
    BY <1>1, <2>2, <2>3, UpdateKeeps DEF u
  <2>5. UNCHANGED <<activeTurn, state, call, contVars>>
    BY <1>2 DEF Execute, TakeSteering, Deliver, NaturalStop, TakeFollowUps,
                ControlUnchanged
  <2>6. ActiveRuns(turn', activeTurn', state')
    BY <1>1, <2>4, <2>5, KeepsActive
  <2> QED BY <1>1, <2>4, <2>5, <2>6, CallHeld DEF contVars
<1>3. CASE Settle(t)
  BY <1>1, <1>3, SettleFinishes, FinishHeld
<1>4. CASE SettleOperation(t)
  BY <1>4, FinishHeld DEF SettleOperation
<1> QED BY <1>2, <1>3, <1>4 DEF Advance

LEMMA ScheduledHeld ==
  ASSUME HeldInv, Scheduled
  PROVE  /\ Held(call', turn', waiters', drain', requested')
         /\ ActiveRuns(turn', activeTurn', state')
<1>1. /\ call \in CallMaps /\ turn \in [Slot -> Turns] /\ requested \in BOOLEAN
      /\ AwaitsHeld(call, turn, waiters, drain.waiters)
      /\ Held(call, turn, waiters, drain, requested)
      /\ ActiveRuns(turn, activeTurn, state)
      /\ TypeOK
  BY HeldTypes
<1>2. CASE DrainResumes
  <2> DEFINE C == Return(call, drain.waiters)
  <2>1. AwaitsHeld(C, turn, waiters, {})
    BY <1>1 DEF AwaitsHeld, Return, Ready
  <2> HIDE DEF C
  <2>2. call' = C
    BY <1>2 DEF DrainResumes, C
  <2>3. CASE StartContinuation(turn, waiters)
    <3>1. Begin(turn, "continuation", {}, FALSE)
      BY <2>3 DEF StartContinuation
    <3>2. /\ Keeps(turn, turn') /\ Runs(turn', activeTurn')
          /\ ActiveRuns(turn', activeTurn', state')
      BY <1>1, <3>1, BeginKeeps
    <3>3. /\ waiters' = {}
          /\ drain' = [at |-> "running", turn |-> activeTurn', waiters |-> waiters]
      BY <2>3 DEF StartContinuation
    <3>4. AwaitsHeld(C, turn', {}, waiters)
      BY <2>1, <3>2 DEF AwaitsHeld, Keeps, Runs
    <3> QED BY <2>2, <3>2, <3>3, <3>4 DEF Held, DrainHeld
  <2>4. CASE /\ drain' = [DrainOff EXCEPT !.at = "ending"]
             /\ UNCHANGED <<state, activeTurn, turn, requested, waiters>>
    <3>1. drain'.at = "ending" /\ drain'.waiters = {}
      BY <2>4 DEF DrainOff
    <3> QED BY <1>1, <2>1, <2>2, <2>4, <3>1 DEF Held, DrainHeld
  <2> QED BY <1>2, <2>3, <2>4 DEF DrainResumes
<1>3. CASE DrainEnds
  <2>1. drain.waiters = {}
    BY <1>1, <1>3 DEF DrainEnds, Held, DrainHeld
  <2>2. Held(call, turn, waiters, DrainOff, requested)
    BY <1>1, <2>1 DEF Held, DrainHeld, DrainOff
  <2> QED BY <1>1, <1>3, <2>2, ScheduleHeld DEF DrainEnds
<1>4. CASE AfterOperation
  <2>1. CASE UNCHANGED <<state, activeTurn, turn, contVars, call>>
    BY <1>1, <2>1, TurnsStayHeld
  <2>2. CASE /\ \E kind, es, signal : Begin(turn, kind, es, signal)
             /\ UNCHANGED <<contVars, call>>
    BY <1>1, <2>2, StartedHeld
  <2>3. CASE Schedule(turn, activeTurn, state, requested, waiters, drain, call)
    BY <1>1, <2>3, ScheduleHeld
  <2> QED BY <1>4, <2>1, <2>2, <2>3
          DEF AfterOperation, StartOperation, BeginQueued
<1> QED BY <1>2, <1>3, <1>4 DEF Scheduled

LEMMA NextHeld ==
  HeldInv /\ TypeOK' /\ [Next]_vars => HeldInv'
<1> SUFFICES ASSUME HeldInv, [Next]_vars
             PROVE  /\ Held(call', turn', waiters', drain', requested')
                    /\ ActiveRuns(turn', activeTurn', state')
  BY DEF HeldInv
<1>1. /\ call \in CallMaps /\ turn \in [Slot -> Turns]
      /\ AwaitsHeld(call, turn, waiters, drain.waiters)
      /\ ActiveRuns(turn, activeTurn, state)
  BY HeldTypes
<1>2. CASE UNCHANGED vars
  BY <1>1, <1>2, TurnsStayHeld DEF vars, turnVars
<1>3. ASSUME NEW c \in Caller, AbandonWaiting(c)
      PROVE  /\ Held(call', turn', waiters', drain', requested')
             /\ ActiveRuns(turn', activeTurn', state')
  <2>1. AwaitsHeld(Return(call, {c}), turn, waiters, drain.waiters)
    BY <1>1, ReturnKeeps
  <2> QED BY <1>3, <2>1, TurnsStayHeld DEF AbandonWaiting, OnlyCallsChange, turnVars
<1>4. ASSUME NEW t \in Slot, SignalAbort(t)
      PROVE  /\ Held(call', turn', waiters', drain', requested')
             /\ ActiveRuns(turn', activeTurn', state')
  <2> DEFINE u == [turn[t] EXCEPT !.aborted = TRUE, !.signal = FALSE]
  <2>1. u.phase = turn[t].phase
    BY <1>1 DEF Turns
  <2>2. turn' = [turn EXCEPT ![t] = u]
    BY <1>4 DEF SignalAbort
  <2> HIDE DEF u
  <2>3. Keeps(turn, turn')
    BY <1>1, <2>1, <2>2, UpdateKeeps
  <2>4. /\ UNCHANGED <<activeTurn, call, contVars>> /\ activeTurn = t
        /\ state' = "cancelling"
    BY <1>4 DEF SignalAbort
  <2>5. activeTurn # None
    BY <2>4, NoneIsNoSlot
  <2>6. ActiveRuns(turn', activeTurn', state')
    BY <1>1, <2>3, <2>4, <2>5 DEF ActiveRuns, Keeps, Runs
  <2> QED BY <1>1, <2>3, <2>4, <2>6, CallHeld DEF contVars
<1>5. CASE OrphanTakes
  BY <1>1, <1>5, TurnsStayHeld DEF OrphanTakes, ControlUnchanged
<1> QED BY <1>2, <1>3, <1>4, <1>5, RequestHeld, ProceedHeld, AdvanceHeld,
           ScheduledHeld, Zenon DEF Next

LEMMA InitHeld == Init => HeldInv
<1> SUFFICES ASSUME Init PROVE HeldInv
  OBVIOUS
<1>1. TypeOK
  BY InitTypes
<1>2. Held(call, turn, waiters, drain, requested)
  BY DEF Init, Held, AwaitsHeld, DrainHeld, Ready, DrainOff
<1>3. ActiveRuns(turn, activeTurn, state)
  BY DEF Init, ActiveRuns
<1> QED BY <1>1, <1>2, <1>3 DEF HeldInv

\* Nobody waits for what will not happen: in every reachable state the turn a
\* call or the drain awaits is running, and who asked for a continuation is on
\* a list that is due.
THEOREM WaitsAreForWhatHappens == Spec => []NobodyIsForgotten
<1>1. HeldInv => NobodyIsForgotten
  <2> SUFFICES ASSUME HeldInv PROVE NobodyIsForgotten
    OBVIOUS
  <2> QED BY HeldTypes, NoneIsNoSlot
          DEF HeldInv, Held, AwaitsHeld, DrainHeld, ActiveRuns, Runs, Live,
              NobodyIsForgotten
<1> QED BY <1>1, InitHeld, NextHeld, TypeCorrect, PTL DEF Spec

-----------------------------------------------------------------------------
(* Context is written in order.                                            *)
(*                                                                         *)
(* Who awaits the writes stands in line (InLine); who writes, or waits to, *)
(* has a ticket of his own (AtPen).  Most steps disturb neither: the calls *)
(* they change were and are elsewhere.                                     *)

WriteAwaits == {"contextWrite", "recording", "appending"}

Writers(C) == {c \in Caller : C[c].at \in {"recording", "appending"}}

InLine(C, L, issued) ==
  /\ IsInjective(L)
  /\ ToSet(L) = {c \in Caller : C[c].at = "contextWrite"}
  /\ \A i, j \in DOMAIN L : i < j => C[L[i]].ticket <= C[L[j]].ticket
  /\ \A i \in DOMAIN L : C[L[i]].ticket <= issued

AtPen(C, w) ==
  /\ w.settled <= w.issued
  /\ \A c \in Writers(C) : /\ C[c].op = "recordContext"
                           /\ C[c].ticket \in (w.settled + 1)..w.issued
  /\ \A n \in (w.settled + 1)..w.issued : \E c \in Writers(C) : C[c].ticket = n
  /\ \A c, d \in Writers(C) : C[c].ticket = C[d].ticket => c = d
  /\ \A c \in Caller : C[c].at = "appending" => C[c].ticket = w.settled + 1

\* From calls C to calls D nobody outside K goes to the writes or leaves them.
Elsewhere(C, D, K) ==
  \A c \in Caller \ K :
    D[c] = C[c] \/ {C[c].at, D[c].at} \cap WriteAwaits = {}

WriteInv == /\ PlaceInv
            /\ InLine(call, line, writes.issued)
            /\ AtPen(call, writes)

LEMMA WriteTypes ==
  ASSUME WriteInv
  PROVE  /\ call \in CallMaps /\ line \in Seq(Caller) /\ TypeOK
         /\ writes \in [issued : Nat, settled : Nat]
         /\ \A c \in waiters \cup drain.waiters :
              c \in Caller /\ call[c].at = "continuation"
         /\ \A c \in Caller : call[c] \in CallRecords /\ call[c].ticket \in Nat
<1>1. /\ call \in CallMaps /\ TypeOK
      /\ CallsAgree(call, place, waiters, drain.waiters)
  BY PlacedTypes DEF WriteInv
<1>2. \A c \in Caller : call[c] \in CallRecords /\ call[c].ticket \in Nat
  BY <1>1 DEF CallMaps, CallRecords
<1> QED BY <1>1, <1>2 DEF TypeOK, CallTypeOK, CallsAgree, WaitersWait

\* Calls that return, and calls a turn releases, were not at the writes.
LEMMA ReturnElsewhere ==
  ASSUME NEW C, NEW D, NEW K, Elsewhere(C, D, K), NEW cs,
         \A c \in cs : D[c].at \notin WriteAwaits
  PROVE  Elsewhere(C, Return(D, cs), K)
BY DEF Elsewhere, Return, Ready, WriteAwaits

LEMMA SameElsewhere == \A C, K : Elsewhere(C, C, K)
BY DEF Elsewhere

LEMMA OneElsewhere ==
  ASSUME NEW C \in CallMaps, NEW c \in Caller, NEW r
  PROVE  /\ Elsewhere(C, [C EXCEPT ![c] = r], {c})
         /\ C[c].at \notin WriteAwaits /\ r.at \notin WriteAwaits
              => Elsewhere(C, [C EXCEPT ![c] = r], {})
BY DEF Elsewhere, CallMaps

LEMMA ReleasedElsewhere ==
  ASSUME NEW C \in CallMaps, NEW t, NEW at \in {"released", "failed"}
  PROVE  Elsewhere(C, Released(C, t, at), {})
<1> SUFFICES ASSUME NEW c \in Caller, C[c].at = "turn"
             PROVE  {C[c].at, [C[c] EXCEPT !.at = at, !.turn = None].at}
                      \cap WriteAwaits = {}
  BY DEF Elsewhere, Released
<1>1. C[c] \in CallRecords
  BY DEF CallMaps
<1>2. [C[c] EXCEPT !.at = at, !.turn = None].at = at
  BY <1>1 DEF CallRecords
<1> QED BY <1>2 DEF WriteAwaits

\* The line and the tickets, when the calls that change are elsewhere.
LEMMA LineStays ==
  ASSUME NEW C, NEW D, NEW L, NEW n, InLine(C, L, n), Elsewhere(C, D, {})
  PROVE  InLine(D, L, n)
<1>1. \A c \in Caller : /\ D[c].at = "contextWrite" <=> C[c].at = "contextWrite"
                        /\ C[c].at = "contextWrite" => D[c] = C[c]
  BY DEF Elsewhere, WriteAwaits
<1>2. \A i \in DOMAIN L : D[L[i]] = C[L[i]]
  BY <1>1 DEF InLine, ToSet
<1> QED BY <1>1, <1>2 DEF InLine

LEMMA PenStays ==
  ASSUME NEW C, NEW D, NEW w, AtPen(C, w), NEW K, Elsewhere(C, D, K),
         \A c \in K : {C[c].at, D[c].at} \cap {"recording", "appending"} = {}
  PROVE  AtPen(D, w)
<1>1. \A c \in Caller : /\ c \in Writers(D) <=> c \in Writers(C)
                        /\ c \in Writers(C) => D[c] = C[c]
                        /\ D[c].at = "appending" => c \in Writers(C)
  BY DEF Elsewhere, WriteAwaits, Writers
<1>2. Writers(D) = Writers(C)
  BY <1>1 DEF Writers
<1>3. \A c \in Writers(C) : D[c] = C[c] /\ c \in Caller
  BY <1>1 DEF Writers
<1> QED BY <1>1, <1>2, <1>3 DEF AtPen

\* A caller joins the line behind everybody.
LEMMA LineGrows ==
  ASSUME NEW C, NEW D, NEW L \in Seq(Caller), NEW n \in Nat, InLine(C, L, n),
         NEW c \in Caller, Elsewhere(C, D, {c}), C[c].at # "contextWrite",
         D[c].at = "contextWrite", D[c].ticket = n
  PROVE  InLine(D, Append(L, c), n)
<1> DEFINE M == Append(L, c)
<1>1. /\ Len(L) \in Nat /\ DOMAIN L = 1..Len(L)
      /\ DOMAIN M = 1..(Len(L) + 1)
      /\ \A i \in 1..Len(L) : M[i] = L[i]
      /\ M[Len(L) + 1] = c
  BY LenProperties, AppendProperties
<1>2. \A d \in Caller \ {c} :
        /\ D[d].at = "contextWrite" <=> C[d].at = "contextWrite"
        /\ C[d].at = "contextWrite" => D[d] = C[d]
  BY DEF Elsewhere, WriteAwaits
<1>3. c \notin ToSet(L)
  BY DEF InLine
<1>4. IsInjective(M) /\ ToSet(M) = ToSet(L) \cup {c}
  BY <1>3, AppendDistinct, AppendAdds DEF InLine
<1>5. \A i \in 1..Len(L) : L[i] # c /\ L[i] \in Caller /\ C[L[i]].at = "contextWrite"
  BY <1>1, <1>3 DEF InLine, ToSet
<1>6. \A i \in 1..Len(L) : D[M[i]] = C[L[i]]
  BY <1>1, <1>2, <1>5
<1>7. \A i \in DOMAIN M : i \in 1..Len(L) \/ i = Len(L) + 1
  BY <1>1
<1> HIDE DEF M
<1>8. \A i \in DOMAIN M : D[M[i]].ticket <= n
  BY <1>1, <1>6, <1>7 DEF InLine
<1>9. ASSUME NEW i \in DOMAIN M, NEW j \in DOMAIN M, i < j
      PROVE  D[M[i]].ticket <= D[M[j]].ticket
  <2>1. i \in 1..Len(L)
    BY <1>1, <1>9
  <2>2. CASE j \in 1..Len(L)
    BY <1>1, <1>6, <1>9, <2>1, <2>2 DEF InLine
  <2>3. CASE j = Len(L) + 1
    BY <1>1, <1>8, <2>3
  <2> QED BY <1>7, <2>2, <2>3
<1>10. ToSet(M) = {d \in Caller : D[d].at = "contextWrite"}
  BY <1>2, <1>4 DEF InLine
<1> QED BY <1>4, <1>8, <1>9, <1>10 DEF InLine, M

\* M is L without c: f says where its elements were.
Without(L, c, M, f) ==
  /\ IsInjective(M)
  /\ ToSet(M) = ToSet(L) \ {c}
  /\ \A i \in DOMAIN M : f[i] \in DOMAIN L /\ M[i] = L[f[i]]
  /\ \A i, j \in DOMAIN M : i < j => f[i] < f[j]

\* One caller leaves the line, which keeps its order.
LEMMA LineLoses ==
  ASSUME NEW C, NEW D, NEW L \in Seq(Caller), NEW n, InLine(C, L, n),
         NEW c, Elsewhere(C, D, {c}), D[c].at # "contextWrite",
         NEW M, NEW f, Without(L, c, M, f)
  PROVE  InLine(D, M, n)
<1>1. \A d \in Caller \ {c} :
        /\ D[d].at = "contextWrite" <=> C[d].at = "contextWrite"
        /\ C[d].at = "contextWrite" => D[d] = C[d]
  BY DEF Elsewhere, WriteAwaits
<1>2. \A d \in ToSet(M) : d \in Caller /\ D[d] = C[d]
  BY <1>1 DEF InLine, Without
<1>3. \A i \in DOMAIN M : M[i] \in ToSet(M)
  BY DEF ToSet
<1>4. \A i \in DOMAIN M : D[M[i]] = C[L[f[i]]]
  BY <1>2, <1>3 DEF Without
<1>5. ToSet(M) = {d \in Caller : D[d].at = "contextWrite"}
  BY <1>1 DEF InLine, Without
<1> QED BY <1>4, <1>5 DEF InLine, Without

LEMMA LineMoves ==
  ASSUME NEW C, NEW D, NEW L \in Seq(Caller), NEW n, InLine(C, L, n), L # <<>>,
         NEW c, c = Head(L), Elsewhere(C, D, {c}), D[c].at # "contextWrite"
  PROVE  InLine(D, Tail(L), n)
<1> DEFINE M == Tail(L)
           f == [i \in DOMAIN M |-> i + 1]
<1>1. /\ Len(L) \in Nat /\ 1 <= Len(L) /\ DOMAIN L = 1..Len(L)
      /\ M \in Seq(Caller) /\ Len(M) = Len(L) - 1
      /\ \A i \in 1..(Len(L) - 1) : M[i] = L[i + 1]
      /\ Head(L) = L[1]
  BY LenProperties, EmptySeq, HeadTailProperties
<1>2. DOMAIN M = 1..(Len(L) - 1)
  BY <1>1, LenProperties
<1> HIDE DEF M
<1>3. IsInjective(M) /\ ToSet(M) = ToSet(L) \ {L[i] : i \in 1..1}
  <2>1. 1 \in 0..Len(L) /\ \A i \in 1..(Len(L) - 1) : i + 1 = 1 + i
    BY <1>1
  <2>2. \A i \in 1..(Len(L) - 1) : M[i] = L[1 + i]
    BY <1>1, <2>1
  <2> QED BY <1>1, <2>1, <2>2, RestDistinct DEF InLine
<1>4. {L[i] : i \in 1..1} = {c}
  BY <1>1
<1>5. \A i \in DOMAIN M : f[i] \in DOMAIN L /\ M[i] = L[f[i]]
  BY <1>1, <1>2
<1>6. \A i, j \in DOMAIN M : i < j => f[i] < f[j]
  BY <1>2
<1>7. IsInjective(M) /\ ToSet(M) = ToSet(L) \ {c}
  BY <1>3, <1>4
<1>8. Without(L, c, M, f)
  BY <1>5, <1>6, <1>7 DEF Without
<1> HIDE DEF f
<1>9. InLine(D, M, n)
  BY <1>8, LineLoses
<1> QED BY <1>9 DEF M

LEMMA LineDrops ==
  ASSUME NEW C, NEW D, NEW L \in Seq(Caller), NEW n, InLine(C, L, n),
         NEW c, Elsewhere(C, D, {c}), D[c].at # "contextWrite"
  PROVE  InLine(D, RemoveFirst(L, c), n)
<1> DEFINE M == RemoveFirst(L, c)
<1>1. IsInjective(M) /\ ToSet(M) = ToSet(L) \ {c}
  BY RemoveFirstKeeps DEF InLine
<1>2. CASE c \notin ToSet(L) /\ M = L
  <2> DEFINE f == [i \in DOMAIN L |-> i]
  <2>1. \A i \in DOMAIN M : f[i] \in DOMAIN L /\ M[i] = L[f[i]]
    BY <1>2
  <2>2. \A i, j \in DOMAIN M : i < j => f[i] < f[j]
    BY <1>2
  <2>3. Without(L, c, M, f)
    BY <1>1, <2>1, <2>2 DEF Without
  <2> HIDE DEF f, M
  <2> QED BY <2>3, LineLoses DEF M
<1>3. ASSUME NEW k \in 1..Len(L), M \in Seq(Caller), Len(M) = Len(L) - 1,
             \A i \in 1..(Len(L) - 1) : M[i] = L[IF i < k THEN i ELSE i + 1]
      PROVE  InLine(D, M, n)
  <2> DEFINE f == [i \in DOMAIN M |-> IF i < k THEN i ELSE i + 1]
  <2> HIDE DEF M
  <2>1. Len(L) \in Nat /\ DOMAIN L = 1..Len(L) /\ DOMAIN M = 1..(Len(L) - 1)
    BY <1>3, LenProperties
  <2>2. \A i \in DOMAIN M : f[i] \in DOMAIN L /\ M[i] = L[f[i]]
    BY <1>3, <2>1
  <2>3. \A i, j \in DOMAIN M : i < j => f[i] < f[j]
    BY <2>1
  <2>4. Without(L, c, M, f)
    BY <1>1, <2>2, <2>3 DEF Without, M
  <2> HIDE DEF f
  <2> QED BY <2>4, LineLoses
<1> QED BY <1>2, <1>3, RemoveFirstGap

-----------------------------------------------------------------------------
\* The steps, by what they do to the line and the tickets.
WritesKept == InLine(call', line', writes'.issued) /\ AtPen(call', writes')

LEMMA NobodyWrites ==
  ASSUME WriteInv, UNCHANGED writeVars, Elsewhere(call, call', {})
  PROVE  WritesKept
BY LineStays, PenStays DEF WriteInv, WritesKept, writeVars

LEMMA CallerJoins ==
  ASSUME WriteInv, UNCHANGED writes, NEW c \in Caller, NEW op, NEW e,
         AwaitWrites(c, op, e), call[c].at \notin WriteAwaits
  PROVE  WritesKept
<1>1. /\ call \in CallMaps /\ line \in Seq(Caller) /\ writes.issued \in Nat
  BY WriteTypes
<1> DEFINE r == [op |-> op, at |-> "contextWrite", turn |-> None,
                 ticket |-> writes.issued, entry |-> e]
<1>2. r.at = "contextWrite" /\ r.ticket = writes.issued
  OBVIOUS
<1>3. call' = [call EXCEPT ![c] = r] /\ line' = Append(line, c)
  BY DEF AwaitWrites
<1> HIDE DEF r
<1>4. call'[c] = r /\ Elsewhere(call, call', {c})
  BY <1>1, <1>3, OneElsewhere DEF CallMaps
<1>5. InLine(call', Append(line, c), writes.issued)
  BY <1>1, <1>2, <1>4, LineGrows DEF WriteInv, WriteAwaits
<1>6. AtPen(call', writes)
  BY <1>2, <1>4, PenStays DEF WriteInv, WriteAwaits
<1> QED BY <1>3, <1>5, <1>6 DEF WritesKept

LEMMA CallerResumes ==
  ASSUME WriteInv, UNCHANGED writes, NEW c \in Caller, NEW op, Resumed(c, op),
         Elsewhere(call, call', {c}), call'[c].at \notin WriteAwaits
  PROVE  WritesKept
<1>1. line \in Seq(Caller)
  BY WriteTypes
<1>2. InLine(call', Tail(line), writes.issued)
  BY <1>1, LineMoves DEF Resumed, WriteInv, WriteAwaits
<1>3. AtPen(call', writes)
  BY PenStays DEF Resumed, WriteInv, WriteAwaits
<1> QED BY <1>2, <1>3 DEF WritesKept, Resumed

\* Schedule leaves the calls as it found them, or lets the waiters return.
LEMMA ScheduleElsewhere ==
  ASSUME NEW K, NEW C, Elsewhere(call, C, K), NEW ws,
         \A d \in ws : C[d].at = "continuation",
         call' = C \/ call' = Return(C, ws)
  PROVE  Elsewhere(call, call', K)
BY ReturnElsewhere DEF WriteAwaits

\* A call of a ready caller that does not go to the writes.
LEMMA ReadyElsewhere ==
  ASSUME WriteInv, NEW c \in Caller, call[c] = Ready, NEW op, NEW e
  PROVE  Elsewhere(call, AwaitTurn(call, c, op, e), {})
<1>1. call \in CallMaps /\ call[c].at \notin WriteAwaits
  BY WriteTypes DEF Ready, WriteAwaits
<1>2. [op |-> op, at |-> "turn", turn |-> activeTurn, ticket |-> 0,
       entry |-> e].at \notin WriteAwaits
  BY DEF WriteAwaits
<1> QED BY <1>1, <1>2, OneElsewhere DEF AwaitTurn

LEMMA AbortElsewhere ==
  ASSUME WriteInv, NEW c \in Caller, call[c] = Ready, NEW op, NEW e,
         AbortTurn(AwaitTurn(call, c, op, e))
  PROVE  Elsewhere(call, call', {})
<1> DEFINE C == AwaitTurn(call, c, op, e)
<1>1. call \in CallMaps /\ \A d \in waiters : call[d].at = "continuation"
  BY WriteTypes
<1>2. Elsewhere(call, C, {})
  BY ReadyElsewhere
<1>3. \A d \in waiters : C[d].at \notin WriteAwaits
  BY <1>1 DEF AwaitTurn, Ready, WriteAwaits, CallMaps
<1>4. call' = Return(C, waiters)
  BY DEF AbortTurn
<1> HIDE DEF C
<1>5. Elsewhere(call, Return(C, waiters), {})
  BY <1>2, <1>3, ReturnElsewhere
<1> QED BY <1>4, <1>5

LEMMA RequestWrites ==
  ASSUME WriteInv, NEW c \in Caller, Request(c)
  PROVE  WritesKept
<1>1. /\ call \in CallMaps /\ line \in Seq(Caller)
      /\ writes \in [issued : Nat, settled : Nat]
      /\ \A d \in waiters \cup drain.waiters :
           d \in Caller /\ call[d].at = "continuation"
  BY WriteTypes
<1>2. call[c] = Ready
  BY DEF Request, CallSend, Await, QueueInput, QueueNextTurnContext,
         RequestContinuation, RecordContext, ClearQueue, RemoveQueued, Reorder,
         PromoteQueued, RestoreQueue, QueueOperation, Cancel, Close,
         SendQueuedNow, ResumeQueue, Invoke
<1>3. call[c].at = "ready" /\ call[c].at \notin WriteAwaits
  BY <1>2 DEF Ready, WriteAwaits
<1>4. CASE UNCHANGED writeVars /\ Elsewhere(call, call', {})
  BY <1>4, NobodyWrites
<1>5. CASE UNCHANGED writes /\ \E op, e : AwaitWrites(c, op, e)
  BY <1>3, <1>5, CallerJoins
<1>6. CASE UNCHANGED <<writes, line, call>>
  BY <1>4, <1>6, SameElsewhere DEF writeVars
<1>7. CASE RequestContinuation(c)
  <2> DEFINE r == [Ready EXCEPT !.op = "requestContinuation",
                                !.at = "continuation"]
             C == [call EXCEPT ![c] = r]
  <2>1. r.at = "continuation" /\ r.at \notin WriteAwaits
    BY DEF Ready, WriteAwaits
  <2> HIDE DEF r
  <2>2. Elsewhere(call, C, {})
    BY <1>1, <1>3, <2>1, OneElsewhere
  <2>3. \A d \in waiters \cup {c} : C[d].at = "continuation"
    BY <1>1, <2>1 DEF CallMaps
  <2>4. /\ UNCHANGED writeVars
        /\ call' = C \/ call' = Return(C, waiters \cup {c})
    BY <1>7 DEF RequestContinuation, Schedule, C, r
  <2> HIDE DEF C
  <2> QED BY <1>4, <2>2, <2>3, <2>4, ScheduleElsewhere
<1>8. CASE RecordContext(c)
  <2> DEFINE r == [Ready EXCEPT !.op = "recordContext", !.at = "recording",
                                !.ticket = writes.issued + 1]
  <2>1. r.at = "recording" /\ r.op = "recordContext" /\ r.ticket = writes.issued + 1
    BY DEF Ready
  <2>2. /\ call' = [call EXCEPT ![c] = r] /\ UNCHANGED line
        /\ writes' = [writes EXCEPT !.issued = @ + 1]
    BY <1>8 DEF RecordContext
  <2> HIDE DEF r
  <2>3. call'[c] = r /\ \A d \in Caller \ {c} : call'[d] = call[d]
    BY <1>1, <2>2 DEF CallMaps
  <2>4. /\ writes'.issued = writes.issued + 1 /\ writes'.settled = writes.settled
        /\ writes.issued \in Nat /\ writes.settled \in Nat
    BY <1>1, <2>2
  <2>5. \A d \in Caller : /\ call'[d].at = "contextWrite" <=>
                               call[d].at = "contextWrite"
                          /\ call[d].at = "contextWrite" => call'[d] = call[d]
    BY <1>3, <2>1, <2>3
  <2>6. \A i \in DOMAIN line : call'[line[i]] = call[line[i]]
    BY <2>5 DEF WriteInv, InLine, ToSet
  <2>7. \A i \in DOMAIN line : call[line[i]].ticket \in Nat
    BY WriteTypes DEF WriteInv, InLine, ToSet
  <2>8. InLine(call', line', writes'.issued)
    BY <2>2, <2>4, <2>5, <2>6, <2>7 DEF WriteInv, InLine
  <2>9. Writers(call') = Writers(call) \cup {c} /\ c \notin Writers(call)
    BY <1>3, <2>1, <2>3 DEF Writers
  <2>10. \A d \in Writers(call) : call'[d] = call[d] /\ d \in Caller
    BY <2>3, <2>9 DEF Writers
  <2>11. AtPen(call', writes')
    <3>1. \A d \in Writers(call') :
            /\ call'[d].op = "recordContext"
            /\ call'[d].ticket \in (writes'.settled + 1)..writes'.issued
      BY <2>1, <2>3, <2>4, <2>9, <2>10 DEF WriteInv, AtPen
    <3>2. ASSUME NEW n \in (writes'.settled + 1)..writes'.issued
          PROVE  \E d \in Writers(call') : call'[d].ticket = n
      <4>1. CASE n = writes.issued + 1
        BY <2>1, <2>3, <2>9, <4>1
      <4>2. CASE n # writes.issued + 1
        <5>1. n \in (writes.settled + 1)..writes.issued
          BY <2>4, <4>2
        <5> QED BY <2>9, <2>10, <5>1 DEF WriteInv, AtPen
      <4> QED BY <4>1, <4>2
    <3>3. \A d \in Writers(call) : call'[d].ticket # writes.issued + 1
      BY <2>4, <2>10 DEF WriteInv, AtPen
    <3>4. \A d, f \in Writers(call') : call'[d].ticket = call'[f].ticket => d = f
      BY <2>1, <2>3, <2>9, <2>10, <3>3 DEF WriteInv, AtPen
    <3>5. \A d \in Caller : call'[d].at = "appending" =>
            call'[d].ticket = writes'.settled + 1
      BY <2>1, <2>3, <2>4 DEF WriteInv, AtPen
    <3>6. writes'.settled <= writes'.issued
      BY <2>4 DEF WriteInv, AtPen
    <3> QED BY <3>1, <3>2, <3>4, <3>5, <3>6 DEF AtPen
  <2> QED BY <2>8, <2>11 DEF WritesKept
<1>9. CASE Cancel(c)
  BY <1>2, <1>4, <1>9, AbortElsewhere DEF Cancel
<1>10. CASE SendQueuedNow(c)
  <2>1. \/ UNCHANGED writes /\ \E e : AwaitWrites(c, "sendQueuedNow", e)
        \/ UNCHANGED writeVars
           /\ \E e : AbortTurn(AwaitTurn(call, c, "sendQueuedNow", e))
    BY <1>10 DEF SendQueuedNow, writeVars
  <2> QED BY <1>2, <1>4, <1>5, <2>1, AbortElsewhere
<1>11. CASE Close(c)
  <2>1. \/ UNCHANGED writes /\ AwaitWrites(c, "close", None)
        \/ UNCHANGED writeVars /\ call' = AwaitTurn(call, c, "close", None)
    BY <1>11 DEF Close, writeVars
  <2> QED BY <1>2, <1>4, <1>5, <2>1, ReadyElsewhere
<1>12. CASE CallSend(c) \/ ResumeQueue(c)
  BY <1>5, <1>6, <1>12 DEF CallSend, Await, ResumeQueue
<1>13. CASE \/ QueueInput(c) \/ QueueNextTurnContext(c) \/ ClearQueue(c)
            \/ RemoveQueued(c) \/ Reorder(c) \/ PromoteQueued(c)
            \/ RestoreQueue(c) \/ QueueOperation(c)
  BY <1>6, <1>13 DEF QueueInput, QueueNextTurnContext, ClearQueue, RemoveQueued,
                     Reorder, PromoteQueued, RestoreQueue, QueueOperation,
                     writeVars
<1> QED BY <1>7, <1>8, <1>9, <1>10, <1>11, <1>12, <1>13 DEF Request

\* A write that has begun goes on; one that is over frees the next ticket.
LEMMA WriterLeaves ==
  ASSUME WriteInv, NEW c \in Writers(call), UNCHANGED line,
         call[c].ticket = writes.settled + 1, call' = Return(call, {c}),
         writes' = [writes EXCEPT !.settled = call[c].ticket]
  PROVE  WritesKept
<1>1. writes \in [issued : Nat, settled : Nat]
  BY WriteTypes
<1>2. /\ writes'.issued = writes.issued /\ writes'.settled = writes.settled + 1
      /\ writes.issued \in Nat /\ writes.settled \in Nat
  BY <1>1
<1>3. c \in Caller /\ call[c].at # "contextWrite"
  BY DEF Writers
<1>4. call'[c].at = "ready" /\ \A d \in Caller \ {c} : call'[d] = call[d]
  BY <1>3 DEF Return, Ready
<1>5. \A d \in Caller : /\ call'[d].at = "contextWrite" <=>
                             call[d].at = "contextWrite"
                        /\ call[d].at = "contextWrite" => call'[d] = call[d]
  BY <1>3, <1>4
<1>6. \A i \in DOMAIN line : call'[line[i]] = call[line[i]]
  BY <1>5 DEF WriteInv, InLine, ToSet
<1>7. InLine(call', line', writes'.issued)
  BY <1>2, <1>5, <1>6 DEF WriteInv, InLine
<1>8. Writers(call') = Writers(call) \ {c}
  BY <1>4 DEF Writers
<1>9. \A d \in Writers(call') : call'[d] = call[d] /\ d \in Writers(call) \ {c}
  BY <1>4, <1>8 DEF Writers
<1>10. \A d \in Writers(call') : call[d].ticket # writes.settled + 1
  BY <1>9 DEF WriteInv, AtPen
<1>11. AtPen(call', writes')
  <2>1. ASSUME NEW d \in Writers(call')
        PROVE  /\ call'[d].op = "recordContext"
               /\ call'[d].ticket \in (writes'.settled + 1)..writes'.issued
    <3>1. /\ call'[d] = call[d] /\ call[d].op = "recordContext"
          /\ call[d].ticket \in (writes.settled + 1)..writes.issued
      BY <1>9 DEF WriteInv, AtPen
    <3>2. call[d].ticket # writes.settled + 1
      BY <1>10
    <3> QED BY <1>2, <3>1, <3>2
  <2>2. ASSUME NEW n \in (writes'.settled + 1)..writes'.issued
        PROVE  \E d \in Writers(call') : call'[d].ticket = n
    <3>1. n \in (writes.settled + 1)..writes.issued /\ n # writes.settled + 1
      BY <1>2
    <3>2. PICK d \in Writers(call) : call[d].ticket = n
      BY <3>1 DEF WriteInv, AtPen
    <3> QED BY <1>8, <1>9, <3>1, <3>2
  <2>3. \A d, f \in Writers(call') : call'[d].ticket = call'[f].ticket => d = f
    <3>1. \A d, f \in Writers(call) : call[d].ticket = call[f].ticket => d = f
      BY DEF WriteInv, AtPen
    <3>2. \A d \in Writers(call') :
            d \in Writers(call) /\ call'[d].ticket = call[d].ticket
      BY <1>9
    <3> QED BY <3>1, <3>2, Zenon
  <2>4. \A d \in Caller : call'[d].at # "appending"
    <3> SUFFICES ASSUME NEW d \in Caller, call'[d].at = "appending" PROVE FALSE
      OBVIOUS
    <3>1. d \in Writers(call')
      BY DEF Writers
    <3>2. call[d].at = "appending"
      BY <1>9, <3>1
    <3> QED BY <1>10, <3>1, <3>2 DEF WriteInv, AtPen
  <2>5. writes'.settled <= writes'.issued
    BY <1>2 DEF WriteInv, AtPen
  <2> QED BY <2>1, <2>2, <2>3, <2>4, <2>5 DEF AtPen
<1> QED BY <1>7, <1>11 DEF WritesKept

LEMMA WriterBegins ==
  ASSUME WriteInv, NEW c \in Caller, call[c].at = "recording",
         call[c].ticket = writes.settled + 1, UNCHANGED writeVars,
         call' = [call EXCEPT ![c].at = "appending"]
  PROVE  WritesKept
<1>1. call \in CallMaps /\ call[c] \in CallRecords
  BY WriteTypes
<1>2. /\ call'[c].at = "appending" /\ call'[c].ticket = call[c].ticket
      /\ call'[c].op = call[c].op
      /\ \A d \in Caller \ {c} : call'[d] = call[d]
  BY <1>1 DEF CallMaps, CallRecords
<1>3. \A d \in Caller : /\ call'[d].at = "contextWrite" <=>
                             call[d].at = "contextWrite"
                        /\ call[d].at = "contextWrite" => call'[d] = call[d]
  BY <1>2
<1>4. \A i \in DOMAIN line : call'[line[i]] = call[line[i]]
  BY <1>3 DEF WriteInv, InLine, ToSet
<1>5. InLine(call', line, writes.issued)
  BY <1>3, <1>4 DEF WriteInv, InLine
<1>6. Writers(call') = Writers(call)
  BY <1>2 DEF Writers
<1>7. \A d \in Caller : call'[d].ticket = call[d].ticket /\ call'[d].op = call[d].op
  BY <1>2
<1>8. \A d \in Writers(call) : d \in Caller
  BY DEF Writers
<1>9. /\ \A d \in Writers(call') :
           /\ call'[d].op = "recordContext"
           /\ call'[d].ticket \in (writes.settled + 1)..writes.issued
      /\ \A n \in (writes.settled + 1)..writes.issued :
           \E d \in Writers(call') : call'[d].ticket = n
  <2>1. /\ \A d \in Writers(call) :
             /\ call[d].op = "recordContext"
             /\ call[d].ticket \in (writes.settled + 1)..writes.issued
        /\ \A n \in (writes.settled + 1)..writes.issued :
             \E d \in Writers(call) : call[d].ticket = n
    BY DEF WriteInv, AtPen
  <2> QED BY <1>6, <1>7, <1>8, <2>1
<1>10. \A d, f \in Writers(call') : call'[d].ticket = call'[f].ticket => d = f
  BY <1>6, <1>7, <1>8 DEF WriteInv, AtPen
<1>11. \A d \in Caller : call'[d].at = "appending" =>
                            call'[d].ticket = writes.settled + 1
  BY <1>2 DEF WriteInv, AtPen
<1>12. AtPen(call', writes)
  BY <1>9, <1>10, <1>11 DEF WriteInv, AtPen
<1> QED BY <1>5, <1>12 DEF WritesKept, writeVars

LEMMA ProceedWrites ==
  ASSUME WriteInv, NEW c \in Caller, Proceed(c)
  PROVE  WritesKept
<1>1. /\ call \in CallMaps /\ writes \in [issued : Nat, settled : Nat]
      /\ \A d \in waiters : call[d].at = "continuation"
      /\ call[c].ticket \in Nat
  BY WriteTypes
<1>2. ASSUME NEW cs, c \in cs, \A d \in cs \ {c} : call[d].at \notin WriteAwaits,
             call' = Return(call, cs), UNCHANGED writes
      PROVE  /\ call[c].at \notin WriteAwaits /\ UNCHANGED line => WritesKept
             /\ \A op : Resumed(c, op) => WritesKept
  <2>1. call[c].at \notin WriteAwaits /\ UNCHANGED line => WritesKept
    BY <1>2, SameElsewhere, ReturnElsewhere, NobodyWrites DEF writeVars
  <2>2. Elsewhere(call, call', {c}) /\ call'[c].at \notin WriteAwaits
    BY <1>2 DEF Elsewhere, Return, Ready, WriteAwaits
  <2> QED BY <1>2, <2>1, <2>2, CallerResumes
<1>3. ASSUME call' = Return(call, {c}), UNCHANGED writes
      PROVE  /\ call[c].at \notin WriteAwaits /\ UNCHANGED line => WritesKept
             /\ \A op : Resumed(c, op) => WritesKept
  BY <1>2, <1>3
<1>4. CASE \E op \in DOMAIN SendKind :
             StartIdle(c, op) \/ QueueBusy(c, op) \/ Refuse(c, op)
  BY <1>3, <1>4 DEF StartIdle, QueueBusy, Refuse, OnlyCallsChange
<1>5. CASE WaitForRelease(c)
  <2> DEFINE r == [op |-> "sendWhenAvailable", at |-> "turn",
                   turn |-> activeTurn, ticket |-> 0, entry |-> None]
  <2>1. r.at \notin WriteAwaits
    BY DEF WriteAwaits
  <2>2. call' = [call EXCEPT ![c] = r]
    BY <1>5 DEF WaitForRelease, AwaitTurn
  <2> HIDE DEF r
  <2>3. Elsewhere(call, call', {c}) /\ call'[c].at \notin WriteAwaits
    BY <1>1, <2>1, <2>2, OneElsewhere DEF CallMaps
  <2> QED BY <1>5, <2>3, CallerResumes DEF WaitForRelease, OnlyCallsChange
<1>6. CASE LookAgain(c) \/ SendNowProceeds(c)
  <2>1. call[c].at \notin WriteAwaits
    BY <1>6 DEF LookAgain, SendNowProceeds, WriteAwaits
  <2> QED BY <1>6, <2>1, CallerJoins DEF LookAgain, SendNowProceeds, OnlyCallsChange
<1>7. CASE BeginWrite(c)
  <2>1. call[c].at = "recording" /\ c \in Writers(call)
    BY <1>7 DEF BeginWrite, Writers
  <2>2. call[c].ticket = writes.settled + 1
    BY <1>1, <1>7 DEF BeginWrite
  <2> QED BY <1>7, <2>1, <2>2, WriterBegins, WriterLeaves DEF BeginWrite, writeVars
<1>8. CASE EndWrite(c)
  <2>1. c \in Writers(call)
    BY <1>8 DEF EndWrite, Writers
  <2>2. call[c].ticket = writes.settled + 1
    BY <1>8 DEF EndWrite, WriteInv, AtPen
  <2> QED BY <1>8, <2>1, <2>2, WriterLeaves DEF EndWrite
<1>9. CASE CloseCompletes(c)
  <2>1. /\ \A d \in waiters : call[d].at \notin WriteAwaits
        /\ call' = Return(call, waiters \cup {c}) /\ UNCHANGED writes
    BY <1>1, <1>9 DEF CloseCompletes, WriteAwaits
  <2>2. \/ call[c].at \notin WriteAwaits /\ UNCHANGED line
        \/ Resumed(c, "close")
    BY <1>9 DEF CloseCompletes, WriteAwaits
  <2> QED BY <1>2, <2>1, <2>2
<1>10. CASE SendNowStarts(c) \/ ResumeHead(c)
  BY <1>3, <1>10 DEF SendNowStarts, ResumeHead
<1>11. CASE CancelReturns(c) \/ CloseFails(c) \/ SendNowFails(c)
  <2>1. call[c].at \notin WriteAwaits
    BY <1>11 DEF CancelReturns, CloseFails, SendNowFails, WriteAwaits
  <2> QED BY <1>3, <1>11, <2>1
          DEF CancelReturns, CloseFails, SendNowFails, OnlyCallsChange, writeVars
<1> QED BY <1>4, <1>5, <1>6, <1>7, <1>8, <1>9, <1>10, <1>11 DEF Proceed

LEMMA FinishElsewhere ==
  ASSUME WriteInv, NEW t \in Slot, NEW q, NEW P, NEW s,
         NEW at \in {"released", "failed"}, FinishActiveTurn(t, q, P, s, at)
  PROVE  Elsewhere(call, call', {})
<1> DEFINE C == Released(call, t, at)
<1>1. /\ call \in CallMaps
      /\ \A d \in waiters : d \in Caller /\ call[d].at = "continuation"
  BY WriteTypes
<1>2. Elsewhere(call, C, {})
  BY <1>1, ReleasedElsewhere
<1>3. \A d \in waiters : C[d].at = "continuation"
  BY <1>1 DEF Released
<1>4. \/ call' = C
      \/ \E T, next, D : Schedule(T, None, next, requested, waiters, D, C)
  BY Zenon DEF FinishActiveTurn
<1> HIDE DEF C
<1>5. call' = C \/ call' = Return(C, waiters)
  BY <1>4 DEF Schedule
<1> QED BY <1>2, <1>3, <1>5, ScheduleElsewhere

LEMMA AdvanceWrites ==
  ASSUME WriteInv, NEW t \in Slot, Advance(t)
  PROVE  WritesKept
<1>1. CASE UNCHANGED <<writeVars, call>>
  BY <1>1, SameElsewhere, NobodyWrites
<1>2. TypeOK
  BY WriteTypes
<1>3. CASE Settle(t)
  BY <1>2, <1>3, SettleFinishes, FinishElsewhere, NobodyWrites DEF Settle
<1>4. CASE SettleOperation(t)
  BY <1>4, FinishElsewhere, NobodyWrites DEF SettleOperation
<1> QED BY <1>1, <1>3, <1>4
        DEF Advance, Execute, TakeSteering, Deliver, NaturalStop, TakeFollowUps,
            ControlUnchanged

LEMMA ScheduledWrites ==
  ASSUME WriteInv, Scheduled
  PROVE  WritesKept
<1>1. \A d \in waiters \cup drain.waiters :
        d \in Caller /\ call[d].at = "continuation"
  BY WriteTypes
<1>2. UNCHANGED writeVars
  BY DEF Scheduled, DrainResumes, DrainEnds, AfterOperation
<1>3. \/ call' = call
      \/ call' = Return(call, waiters) \/ call' = Return(call, drain.waiters)
  BY DEF Scheduled, DrainResumes, DrainEnds, AfterOperation, Schedule
<1>4. Elsewhere(call, call', {})
  BY <1>1, <1>3, SameElsewhere, ScheduleElsewhere
<1> QED BY <1>2, <1>4, NobodyWrites

LEMMA NextWrites == WriteInv /\ [Next]_vars => WritesKept
<1> SUFFICES ASSUME WriteInv, [Next]_vars PROVE WritesKept
  OBVIOUS
<1>1. CASE UNCHANGED <<writeVars, call>>
  BY <1>1, SameElsewhere, NobodyWrites
<1>2. CASE UNCHANGED vars
  BY <1>1, <1>2 DEF vars
<1>3. ASSUME NEW c \in Caller, AbandonWaiting(c)
      PROVE  WritesKept
  <2>1. /\ call' = Return(call, {c}) /\ line' = RemoveFirst(line, c)
        /\ UNCHANGED writes /\ call[c].op = "sendWhenAvailable"
    BY <1>3 DEF AbandonWaiting, OnlyCallsChange
  <2>2. Elsewhere(call, call', {c}) /\ call'[c].at = "ready"
    BY <2>1 DEF Elsewhere, Return, Ready
  <2>3. line \in Seq(Caller)
    BY WriteTypes
  <2>4. InLine(call', line', writes.issued)
    BY <2>1, <2>2, <2>3, LineDrops DEF WriteInv
  <2>5. call[c].at \notin {"recording", "appending"}
    BY <2>1 DEF WriteInv, AtPen, Writers
  <2>6. AtPen(call', writes)
    BY <2>2, <2>5, PenStays DEF WriteInv
  <2> QED BY <2>1, <2>4, <2>6 DEF WritesKept
<1>4. ASSUME NEW t \in Slot, SignalAbort(t) PROVE WritesKept
  BY <1>1, <1>4 DEF SignalAbort
<1>5. CASE OrphanTakes
  BY <1>1, <1>5 DEF OrphanTakes, ControlUnchanged
<1> QED BY <1>2, <1>3, <1>4, <1>5, RequestWrites, ProceedWrites, AdvanceWrites,
           ScheduledWrites, Zenon DEF Next

LEMMA InitWrites ==
  ASSUME Init
  PROVE  InLine(call, line, writes.issued) /\ AtPen(call, writes)
<1>1. \A c \in Caller : call[c].at = "ready"
  BY DEF Init, Ready
<1>2. line = <<>> /\ writes.issued = 0 /\ writes.settled = 0
  BY DEF Init
<1>3. DOMAIN line = {} /\ ToSet(line) = {}
  BY <1>2 DEF ToSet
<1>4. InLine(call, line, writes.issued)
  BY <1>1, <1>3 DEF InLine, IsInjective
<1>5. Writers(call) = {}
  BY <1>1 DEF Writers
<1>6. AtPen(call, writes)
  BY <1>1, <1>2, <1>5 DEF AtPen
<1> QED BY <1>4, <1>6

\* Context is written one record at a time and in the order of the calls; no
\* write that others await is without a caller to make it.
THEOREM ContextIsWrittenInOrder == Spec => []WritesInOrder
<1>1. WriteInv => WritesInOrder
  <2> SUFFICES ASSUME WriteInv PROVE WritesInOrder
    OBVIOUS
  <2>1. Writing = Writers(call)
    BY DEF Writing, Writers
  <2>2. {call[c].ticket : c \in Writing} = (writes.settled + 1)..writes.issued
    BY <2>1 DEF WriteInv, AtPen
  <2> QED BY <2>1, <2>2 DEF WriteInv, InLine, AtPen, WritesInOrder
<1>2. Init => WriteInv
  BY InitPlaces, InitWrites DEF WriteInv
<1>3. WriteInv /\ PlaceInv' /\ [Next]_vars => WriteInv'
  BY NextWrites DEF WritesKept, WriteInv
<1> QED BY <1>1, <1>2, <1>3, InitPlaces, NextKeepsPlaces, PTL DEF Spec

-----------------------------------------------------------------------------
(* A continuation that was asked for is due.                               *)
(*                                                                         *)
(* Two things have to be known besides the turn that runs: an operation    *)
(* runs in a queue that is not paused (Calm), so that the microtask behind *)
(* it looks for continuations, and a session that is closing is awaited by *)
(* a close call (Closer), which refuses them.                              *)

Closing(C, c) == C[c].op = "close" /\ C[c].at \in {"turn", "released"}

KeepsClosers(C, D) == \A c \in Caller : Closing(C, c) => D[c] = C[c]

Calm(a, T, q) == a # None /\ T[a].kind = "operation" => ~q.paused

Closer(a, s, C) ==
  s = "closing" => \E c \in Caller : /\ C[c].op = "close" /\ C[c].at = "turn"
                                     /\ C[c].turn = a

Due == /\ RequestsAreHeld
       /\ Calm(activeTurn, turn, queue)
       /\ Closer(activeTurn, state, call)

DueInv == SoleInv /\ PlaceInv /\ HeldInv /\ Due

LEMMA DueTypes ==
  ASSUME DueInv
  PROVE  /\ TypeOK /\ SoleTurn /\ Untouched
         /\ turn \in [Slot -> Turns] /\ call \in CallMaps
         /\ queue \in Queues /\ state \in States
         /\ \A c \in waiters \cup drain.waiters :
              c \in Caller /\ call[c].at = "continuation"
         /\ ActiveRuns(turn, activeTurn, state)
         /\ DrainHeld(drain, turn)
<1>1. /\ TypeOK /\ turn \in [Slot -> Turns] /\ call \in CallMaps
      /\ queue \in Queues /\ Untouched
      /\ CallsAgree(call, place, waiters, drain.waiters)
  BY PlacedTypes DEF DueInv
<1>2. state \in States
  BY <1>1 DEF TypeOK, ControlTypeOK
<1> QED BY <1>1, <1>2
        DEF DueInv, SoleInv, HeldInv, Held, CallsAgree, WaitersWait

\* Nothing happens that matters here.
LEMMA QuietDue ==
  ASSUME DueInv, UNCHANGED <<state, activeTurn, drain, afterOp>>,
         requested' => requested, queue'.paused => queue.paused,
         activeTurn # None => turn'[activeTurn].kind = turn[activeTurn].kind,
         KeepsClosers(call, call')
  PROVE  Due'
<1>1. RequestsAreHeld'
  BY DEF DueInv, Due, RequestsAreHeld, KeepsClosers, Closing
<1>2. Calm(activeTurn, turn, queue)'
  BY DEF DueInv, Due, Calm
<1>3. Closer(activeTurn, state, call)'
  BY DEF DueInv, Due, Closer, KeepsClosers, Closing
<1> QED BY <1>1, <1>2, <1>3 DEF Due

\* A turn starts.
LEMMA BeginDue ==
  ASSUME NEW T \in [Slot -> Turns], NEW kind, NEW es, NEW signal,
         Begin(T, kind, es, signal), kind # "operation" \/ ~queue'.paused
  PROVE  Due'
<1>1. PICK t \in Slot :
        /\ turn' = [T EXCEPT ![t] = [kind |-> kind, phase |-> "admission",
                                     aborted |-> FALSE, signal |-> signal,
                                     holds |-> es]]
        /\ activeTurn' = t /\ state' = "running"
  BY DEF Begin
<1>2. turn'[t].kind = kind /\ t # None
  BY <1>1, NoneIsNoSlot
<1>3. RequestsAreHeld'
  BY <1>1, <1>2 DEF RequestsAreHeld
<1> QED BY <1>1, <1>2, <1>3 DEF Due, Calm, Closer

LEMMA OperationBeginsDue ==
  ASSUME NEW T \in [Slot -> Turns], NEW q \in Queues, NEW P,
         StartOperation(T, q, P), ~q.paused
  PROVE  Due'
<1>1. ~queue'.paused
  BY DEF StartOperation, DropHead, Queues
<1> QED BY <1>1, BeginDue DEF StartOperation

\* A head of the queue that opens a turn is no operation.
LEMMA HeadBeginsDue ==
  ASSUME DueInv, NEW q, NEW e \in FollowUpHead(queue), BeginQueued(q, e)
  PROVE  Due'
<1>1. turn \in [Slot -> Turns] /\ queue \in Queues
  BY DueTypes
<1>2. KindOf[e] # "operation"
  BY DEF FollowUpHead, Executables
<1> QED BY <1>1, <1>2, BeginDue DEF BeginQueued

LEMMA StartIfHeadDue ==
  ASSUME DueInv, NEW q \in Queues, NEW P, StartIfHead(q, P),
         UNCHANGED <<requested, drain, afterOp, call>>,
         (requested \/ activeTurn # None) /\ q.paused => queue.paused
  PROVE  Due'
<1>1. turn \in [Slot -> Turns]
  BY DueTypes
<1>2. CASE OperationDue(q, state)
  BY <1>1, <1>2, OperationBeginsDue DEF StartIfHead, OperationDue
<1>3. CASE ~OperationDue(q, state)
  <2>1. UNCHANGED <<state, activeTurn, turn>> /\ queue' = q
    BY <1>3 DEF StartIfHead
  <2> QED BY <2>1 DEF DueInv, Due, RequestsAreHeld, Calm, Closer
<1> QED BY <1>2, <1>3

\* scheduleRequestedContinuations leaves a request to the drain, or to the turn
\* that runs, or refuses it.
LEMMA ScheduleDue ==
  ASSUME NEW T \in [Slot -> Turns], NEW a, NEW s \in States, NEW asked, NEW ws,
         NEW D, NEW C, ActiveRuns(T, a, s), Schedule(T, a, s, asked, ws, D, C),
         Calm(a, T, queue'), Closer(a, s, C), \A c \in ws : ~Closing(C, c)
  PROVE  Due'
<1>1. CASE StartContinuation(T, ws)
  BY <1>1, BeginDue DEF StartContinuation
<1>2. CASE /\ turn' = T /\ activeTurn' = a /\ state' = s
           /\ requested' = FALSE /\ call' = Return(C, ws)
  <2>1. Closer(a, s, Return(C, ws))
    BY DEF Closer, Return, Closing
  <2> QED BY <1>2, <2>1 DEF Due, RequestsAreHeld
<1>3. CASE /\ (asked /\ D.at = "off") => s \notin {"idle", "closed", "closing"}
           /\ turn' = T /\ activeTurn' = a /\ state' = s
           /\ requested' = asked /\ drain' = D /\ call' = C
  <2>1. s \in {"running", "cancelling"} => a # None
    BY DEF ActiveRuns
  <2>2. RequestsAreHeld'
    BY <1>3, <2>1 DEF RequestsAreHeld, States
  <2> QED BY <1>3, <2>2 DEF Due
<1> QED BY <1>1, <1>2, <1>3 DEF Schedule

LEMMA FinishDue ==
  ASSUME DueInv, NEW t \in Slot, turn[t].kind # "operation", NEW q \in Queues,
         NEW P, NEW s \in States, NEW at, FinishActiveTurn(t, q, P, s, at)
  PROVE  Due'
<1> DEFINE T == [turn EXCEPT ![t] = FreeSlot]
           C == Released(call, t, at)
           next == StateAfterTurn(s)
<1>1. /\ turn \in [Slot -> Turns] /\ call \in CallMaps
      /\ \A c \in waiters : c \in Caller /\ call[c].at = "continuation"
  BY DueTypes
<1>2. T \in [Slot -> Turns]
  BY <1>1 DEF FreeSlot, Turns, TurnKinds, Phases
<1>3. next \in States /\ next # "closing" /\ ActiveRuns(T, None, next)
  BY DEF StateAfterTurn, States, ActiveRuns
<1>4. \A c \in waiters : ~Closing(C, c)
  BY <1>1 DEF Closing, Released
<1>5. \/ OperationDue(q, next) /\ StartOperation(T, q, P)
      \/ \E D : Schedule(T, None, next, requested, waiters, D, C)
  BY Zenon DEF FinishActiveTurn
<1> HIDE DEF T, C, next
<1>6. CASE OperationDue(q, next) /\ StartOperation(T, q, P)
  BY <1>2, <1>6, OperationBeginsDue DEF OperationDue
<1>7. CASE \E D : Schedule(T, None, next, requested, waiters, D, C)
  <2>1. Calm(None, T, queue') /\ Closer(None, next, C)
    BY <1>3 DEF Calm, Closer
  <2> QED BY <1>2, <1>3, <1>4, <1>7, <2>1, ScheduleDue
<1> QED BY <1>5, <1>6, <1>7

LEMMA OperationEndsDue ==
  ASSUME DueInv, NEW t \in Slot, SettleOperation(t)
  PROVE  Due'
<1> DEFINE P == Moved(turn[t].holds, "journal")
           T == [turn EXCEPT ![t] = FreeSlot]
           next == StateAfterTurn(state)
<1>1. /\ turn \in [Slot -> Turns] /\ call \in CallMaps /\ SoleTurn
      /\ queue \in Queues /\ state \in States
  BY DueTypes
<1>2. turn[t].kind = "operation" /\ afterOp' = TRUE
  BY DEF SettleOperation
<1>3. activeTurn = t /\ t # None
  BY <1>1, <1>2, NoneIsNoSlot DEF SoleTurn, Sole, FreeSlot
<1>4. T \in [Slot -> Turns]
  BY <1>1 DEF FreeSlot, Turns, TurnKinds, Phases
<1>5. \/ OperationDue(queue, next) /\ StartOperation(T, queue, P)
      \/ /\ queue' = queue /\ activeTurn' = None /\ state' = next
         /\ call' = Released(call, t, "released")
  BY <1>2, Zenon DEF SettleOperation, FinishActiveTurn
<1>6. CASE OperationDue(queue, next) /\ StartOperation(T, queue, P)
  <2> HIDE DEF T, P
  <2> QED BY <1>1, <1>4, <1>6, OperationBeginsDue DEF OperationDue
<1>7. CASE /\ queue' = queue /\ activeTurn' = None /\ state' = next
           /\ call' = Released(call, t, "released")
  <2>1. ~queue.paused
    BY <1>2, <1>3 DEF DueInv, Due, Calm
  <2>2. next \in {"idle", "closed", "recovery_required"}
        /\ (next = "closed" => state = "closing")
    BY DEF StateAfterTurn
  <2>3. CASE state = "closing"
    <3>1. PICK c \in Caller : /\ call[c].op = "close" /\ call[c].at = "turn"
                              /\ call[c].turn = t
      BY <1>3, <2>3 DEF DueInv, Due, Closer
    <3>2. call[c] \in CallRecords
      BY <1>1 DEF CallMaps
    <3>3. call'[c].op = "close" /\ call'[c].at = "released"
      BY <1>7, <3>1, <3>2 DEF Released, CallRecords
    <3>4. RequestsAreHeld'
      BY <3>3 DEF RequestsAreHeld
    <3> QED BY <1>7, <2>2, <3>4 DEF Due, Calm, Closer
  <2>4. CASE state # "closing"
    <3>1. RequestsAreHeld'
      BY <1>2, <1>7, <2>1, <2>2, <2>4 DEF RequestsAreHeld
    <3> QED BY <1>7, <2>2, <3>1 DEF Due, Calm, Closer
  <2> QED BY <2>3, <2>4
<1> QED BY <1>5, <1>6, <1>7

LEMMA ReadyKeepsClosers ==
  ASSUME NEW C \in CallMaps, NEW c \in Caller, ~Closing(C, c), NEW r
  PROVE  KeepsClosers(C, [C EXCEPT ![c] = r])
BY DEF KeepsClosers, Closing, CallMaps

LEMMA ReturnKeepsClosers ==
  ASSUME NEW C, NEW cs, \A c \in cs : ~Closing(C, c)
  PROVE  KeepsClosers(C, Return(C, cs))
BY DEF KeepsClosers, Return

LEMMA SameKeepsClosers == \A C : KeepsClosers(C, C)
BY DEF KeepsClosers

LEMMA PausedIsKept ==
  ASSUME NEW q \in Queues
  PROVE  /\ ~Resume(q).paused
         /\ AfterTakingSteering(q).paused = q.paused
         /\ AfterTakingFollowUps(q).paused = q.paused
BY DEF Queues, Resume, AfterTakingSteering, AfterTakingFollowUps

LEMMA EnqueueKeepsPaused ==
  ASSUME NEW q \in Queues, NEW e \in Entry, NEW b
  PROVE  /\ EnqueueEntry(q, b, e) \in Queues
         /\ EnqueueEntry(q, b, e).paused = q.paused
BY AppendProperties DEF Queues, EnqueueEntry

LEMMA EnterKeepsPaused ==
  ASSUME queue \in Queues, NEW e \in Entry, NEW b, Enter(e, b)
  PROVE  queue'.paused = queue.paused
BY EnqueueKeepsPaused DEF Enter

LEMMA RequestDue ==
  ASSUME "sendQueuedNow" \notin Calls, DueInv, NEW c \in Caller, Request(c)
  PROVE  Due'
<1>1. /\ turn \in [Slot -> Turns] /\ call \in CallMaps /\ queue \in Queues
      /\ \A d \in waiters : d \in Caller /\ call[d].at = "continuation"
      /\ ActiveRuns(turn, activeTurn, state) /\ Untouched /\ state \in States
      /\ SoleTurn
  BY DueTypes
<1>2. PICK op : Invoke(c, op)
  BY DEF Request, CallSend, Await, QueueInput, QueueNextTurnContext,
         RequestContinuation, RecordContext, ClearQueue, RemoveQueued, Reorder,
         PromoteQueued, RestoreQueue, QueueOperation, Cancel, Close,
         SendQueuedNow, ResumeQueue
<1>3. call[c] = Ready /\ ~Closing(call, c)
  BY <1>2 DEF Invoke, Closing, Ready
<1>4. ASSUME UNCHANGED <<turnVars, contVars, afterOp>>,
             queue'.paused => queue.paused,
             call' = call \/ \E r : call' = [call EXCEPT ![c] = r]
      PROVE  Due'
  <2>1. KeepsClosers(call, call')
    BY <1>1, <1>3, <1>4, ReadyKeepsClosers, SameKeepsClosers
  <2> QED BY <1>4, <2>1, QuietDue DEF turnVars, contVars
<1>5. CASE CallSend(c) \/ RecordContext(c) \/ QueueNextTurnContext(c)
  BY <1>4, <1>5 DEF CallSend, Await, AwaitWrites, RecordContext,
                    QueueNextTurnContext, queueVars
<1>6. CASE QueueInput(c) \/ ClearQueue(c) \/ RemoveQueued(c) \/ Reorder(c)
           \/ PromoteQueued(c)
  <2>1. ~queue'.paused \/ queue'.paused = queue.paused
    <3>1. CASE QueueInput(c)
      BY <1>1, <3>1, EnterKeepsPaused DEF QueueInput, Fresh
    <3>2. CASE ClearQueue(c)
      BY <3>2 DEF ClearQueue, EmptyQueue
    <3>3. CASE RemoveQueued(c)
      <4>1. PICK e : queue' = RemoveEntry(queue, e)
        BY <3>3 DEF RemoveQueued
      <4> QED BY <1>1, <4>1 DEF RemoveEntry, Queues
    <3>4. CASE Reorder(c) \/ PromoteQueued(c)
      BY <1>1, <3>4 DEF Reorder, PromoteQueued, Promote, Queues
    <3> QED BY <1>6, <3>1, <3>2, <3>3, <3>4
  <2> QED BY <1>4, <1>6, <2>1
          DEF QueueInput, ClearQueue, RemoveQueued, Reorder, PromoteQueued
<1>7. CASE ResumeQueue(c)
  <2>1. ~queue'.paused
    BY <1>1, <1>7, PausedIsKept DEF ResumeQueue
  <2> QED BY <1>4, <1>7, <2>1 DEF ResumeQueue, AwaitWrites
<1>8. CASE RequestContinuation(c)
  <2> DEFINE C == [call EXCEPT ![c] = [Ready EXCEPT !.op = "requestContinuation",
                                                    !.at = "continuation"]]
  <2>1. \A d \in waiters \cup {c} : ~Closing(C, d)
    BY <1>1 DEF Closing, Ready, CallMaps
  <2>2. Schedule(turn, activeTurn, state, TRUE, waiters \cup {c}, drain, C)
    BY <1>8 DEF RequestContinuation
  <2> HIDE DEF C
  <2>3. Calm(activeTurn, turn, queue') /\ Closer(activeTurn, state, C)
    BY <1>8 DEF RequestContinuation, queueVars, DueInv, Due, Closer
  <2> QED BY <1>1, <2>1, <2>2, <2>3, ScheduleDue
<1>9. CASE RestoreQueue(c)
  <2>1. PICK q \in Snapshots : StartIfHead(q, Moved(Queued(q), "queue"))
    BY <1>9 DEF RestoreQueue
  <2>2. q \in Queues
    BY SnapshotsAreQueues
  <2>3. ~requested /\ activeTurn = None
    BY <1>1, <1>9 DEF RestoreQueue, Untouched
  <2>4. UNCHANGED <<requested, drain, afterOp, call>>
    BY <1>9 DEF RestoreQueue, contVars
  <2> QED BY <2>1, <2>2, <2>3, <2>4, StartIfHeadDue
<1>10. CASE QueueOperation(c)
  <2>1. PICK q \in Queues : /\ q.paused = queue.paused
                            /\ \E P : StartIfHead(q, P)
    BY <1>1, <1>10, EnqueueKeepsPaused DEF QueueOperation, Fresh
  <2>2. UNCHANGED <<requested, drain, afterOp, call>>
    BY <1>10 DEF QueueOperation, contVars
  <2> QED BY <2>1, <2>2, StartIfHeadDue
<1>11. CASE Cancel(c)
  <2>1. /\ requested' = FALSE /\ state' = "cancelling"
        /\ UNCHANGED <<activeTurn, queue>>
        /\ turn' = [turn EXCEPT ![activeTurn].aborted = TRUE]
    BY <1>11 DEF Cancel, AbortTurn, queueVars
  <2>2. activeTurn # None => turn'[activeTurn].kind = turn[activeTurn].kind
    BY <1>1, <2>1 DEF ActiveRuns, Runs, Turns
  <2> QED BY <2>1, <2>2 DEF DueInv, Due, Calm, Closer, RequestsAreHeld
<1>12. CASE Close(c)
  <2>1. CASE activeTurn = None
    BY <1>4, <1>12, <2>1 DEF Close, AwaitWrites, turnVars, queueVars
  <2>2. CASE activeTurn # None
    <3>1. /\ turn' = [turn EXCEPT ![activeTurn].aborted = TRUE]
          /\ UNCHANGED <<activeTurn, queue>> /\ activeTurn \in Slot
          /\ call' = [call EXCEPT ![c] = [op |-> "close", at |-> "turn",
                        turn |-> activeTurn, ticket |-> 0, entry |-> None]]
      BY <1>1, <1>12, <2>2 DEF Close, AwaitTurn, queueVars, ActiveRuns, Runs
    <3>2. turn'[activeTurn].kind = turn[activeTurn].kind
      BY <1>1, <3>1 DEF Turns
    <3>3. /\ call'[c].op = "close" /\ call'[c].at = "turn"
          /\ call'[c].turn = activeTurn
      BY <1>1, <3>1 DEF CallMaps
    <3> QED BY <2>2, <3>1, <3>2, <3>3
            DEF DueInv, Due, Calm, Closer, RequestsAreHeld
  <2> QED BY <2>1, <2>2
<1>13. CASE SendQueuedNow(c)
  BY <1>13 DEF SendQueuedNow, Invoke
<1> QED BY <1>5, <1>6, <1>7, <1>8, <1>9, <1>10, <1>11, <1>12, <1>13 DEF Request

LEMMA ProceedDue ==
  ASSUME DueInv, NEW c \in Caller, Proceed(c)
  PROVE  Due'
<1>1. /\ turn \in [Slot -> Turns] /\ call \in CallMaps /\ queue \in Queues
      /\ NoSendNow(call)
  BY DueTypes DEF DueInv, SoleInv
<1>2. ASSUME UNCHANGED <<turnVars, contVars, afterOp>>,
             queue'.paused => queue.paused, ~Closing(call, c),
             call' = Return(call, {c}) \/ \E r : call' = [call EXCEPT ![c] = r]
      PROVE  Due'
  <2>1. KeepsClosers(call, call')
    BY <1>1, <1>2, ReadyKeepsClosers, ReturnKeepsClosers
  <2> QED BY <1>2, <2>1, QuietDue DEF turnVars, contVars
<1>3. \A op : Resumed(c, op) => ~Closing(call, c)
  BY DEF Resumed, Closing
<1>4. CASE \E op \in DOMAIN SendKind : StartIdle(c, op)
  <2>1. PICK op \in DOMAIN SendKind :
          Begin(turn, SendKind[op], {}, op = "sendWhenAvailable")
    BY <1>4 DEF StartIdle
  <2>2. SendKind[op] # "operation"
    BY DEF SendKind
  <2> QED BY <1>1, <2>1, <2>2, BeginDue
<1>5. CASE \E op : QueueBusy(c, op)
  <2>1. queue'.paused = queue.paused
    BY <1>1, <1>5, EnterKeepsPaused DEF QueueBusy, Fresh
  <2> QED BY <1>2, <1>3, <1>5, <2>1 DEF QueueBusy
<1>6. CASE \E op : Refuse(c, op)
  BY <1>2, <1>3, <1>6 DEF Refuse, OnlyCallsChange, queueVars
<1>7. CASE WaitForRelease(c)
  BY <1>2, <1>3, <1>7 DEF WaitForRelease, OnlyCallsChange, queueVars, AwaitTurn
<1>8. CASE LookAgain(c)
  BY <1>2, <1>8 DEF LookAgain, OnlyCallsChange, queueVars, AwaitWrites, Closing
<1>9. CASE BeginWrite(c) \/ EndWrite(c)
  <2>1. /\ UNCHANGED <<turnVars, contVars, afterOp, queue>>
        /\ ~Closing(call, c)
        /\ call' = Return(call, {c}) \/ call' = [call EXCEPT ![c].at = "appending"]
    BY <1>9 DEF BeginWrite, EndWrite, queueVars, Closing
  <2> QED BY <1>2, <2>1
<1>10. CASE CancelReturns(c) \/ CloseFails(c)
  BY <1>2, <1>10 DEF CancelReturns, CloseFails, OnlyCallsChange, queueVars, Closing
<1>11. CASE CloseCompletes(c)
  <2>1. /\ state' = "closed" /\ requested' = FALSE /\ queue' = EmptyQueue
    BY <1>11 DEF CloseCompletes
  <2> QED BY <2>1 DEF Due, RequestsAreHeld, Calm, Closer, EmptyQueue
<1>12. CASE SendNowProceeds(c) \/ SendNowFails(c) \/ SendNowStarts(c)
  BY <1>1, <1>12 DEF SendNowProceeds, SendNowFails, SendNowStarts, Resumed,
                     NoSendNow
<1>13. CASE ResumeHead(c)
  <2>1. CASE UNCHANGED <<turnVars, queue, place, frozen>>
    BY <1>2, <1>3, <1>13, <2>1 DEF ResumeHead
  <2>2. CASE OperationDue(queue, state) /\ StartOperation(turn, queue, place)
    BY <1>1, <2>2, OperationBeginsDue DEF OperationDue
  <2>3. CASE \E e \in FollowUpHead(queue) : BeginQueued(queue, e)
    BY <2>3, HeadBeginsDue
  <2> QED BY <1>13, <2>1, <2>2, <2>3 DEF ResumeHead
<1> QED BY <1>4, <1>5, <1>6, <1>7, <1>8, <1>9, <1>10, <1>11, <1>12, <1>13
        DEF Proceed

LEMMA AdvanceDue ==
  ASSUME DueInv, NEW t \in Slot, Advance(t)
  PROVE  Due'
<1>1. /\ TypeOK /\ turn \in [Slot -> Turns] /\ queue \in Queues
      /\ activeTurn \in Slot \cup {None}
  BY DueTypes DEF TypeOK, ControlTypeOK
<1>2. CASE \/ Execute(t) \/ TakeSteering(t) \/ Deliver(t) \/ NaturalStop(t)
           \/ TakeFollowUps(t)
  <2>1. PICK p \in Phases \ {"free"} : \E es :
          turn' = [turn EXCEPT ![t] = [turn[t] EXCEPT !.phase = p, !.holds = es]]
    BY <1>1, <1>2, TurnPhases
  <2>2. PICK es :
          turn' = [turn EXCEPT ![t] = [turn[t] EXCEPT !.phase = p, !.holds = es]]
    BY <2>1
  <2>3. [turn[t] EXCEPT !.phase = p, !.holds = es].kind = turn[t].kind
    BY <1>1 DEF Turns
  <2>4. \A u \in Slot : turn'[u].kind = turn[u].kind
    BY <1>1, <2>2, <2>3
  <2>5. \A q \in PolicyQueues : q \in Queues /\ q.paused = queue.paused
    BY <1>1, EnqueueKeepsPaused DEF PolicyQueues, Fresh
  <2>6. queue'.paused = queue.paused
    BY <1>1, <1>2, <2>5, PausedIsKept
       DEF Execute, TakeSteering, Deliver, NaturalStop, TakeFollowUps, queueVars
  <2>7. UNCHANGED <<state, activeTurn, drain, afterOp, requested, call>>
    BY <1>2 DEF Execute, TakeSteering, Deliver, NaturalStop, TakeFollowUps,
                ControlUnchanged, contVars
  <2> QED BY <1>1, <2>4, <2>6, <2>7, QuietDue, SameKeepsClosers
<1>3. CASE Settle(t)
  <2>1. turn[t].kind # "operation"
    BY <1>3 DEF Settle
  <2> QED BY <1>1, <1>3, <2>1, SettleFinishes, FinishDue
<1>4. CASE SettleOperation(t)
  BY <1>4, OperationEndsDue
<1> QED BY <1>2, <1>3, <1>4 DEF Advance

LEMMA ScheduledDue ==
  ASSUME DueInv, Scheduled
  PROVE  Due'
<1>1. /\ turn \in [Slot -> Turns] /\ call \in CallMaps /\ queue \in Queues
      /\ ActiveRuns(turn, activeTurn, state) /\ state \in States
      /\ \A c \in waiters \cup drain.waiters :
           c \in Caller /\ call[c].at = "continuation"
      /\ Calm(activeTurn, turn, queue) /\ Closer(activeTurn, state, call)
  BY DueTypes DEF DueInv, Due
<1>2. \A c \in waiters \cup drain.waiters : ~Closing(call, c)
  BY <1>1 DEF Closing
<1>3. CASE DrainResumes
  <2>1. CASE StartContinuation(turn, waiters)
    BY <1>1, <2>1, BeginDue DEF StartContinuation
  <2>2. CASE /\ drain' = [DrainOff EXCEPT !.at = "ending"]
             /\ UNCHANGED <<state, activeTurn, turn, requested, waiters>>
    <3>1. drain'.at = "ending"
      BY <2>2 DEF DrainOff
    <3>2. RequestsAreHeld'
      BY <3>1 DEF RequestsAreHeld
    <3>3. KeepsClosers(call, call')
      BY <1>2, <1>3, ReturnKeepsClosers DEF DrainResumes
    <3>4. Closer(activeTurn, state, call)'
      BY <1>1, <2>2, <3>3 DEF Closer, KeepsClosers, Closing
    <3>5. queue' = queue
      BY <1>3 DEF DrainResumes, queueVars
    <3> QED BY <1>1, <2>2, <3>2, <3>4, <3>5 DEF Due, Calm
  <2> QED BY <1>3, <2>1, <2>2 DEF DrainResumes
<1>4. CASE DrainEnds
  <2>1. queue' = queue
    BY <1>4 DEF DrainEnds, queueVars
  <2> QED BY <1>1, <1>2, <1>4, <2>1, ScheduleDue DEF DrainEnds
<1>5. CASE AfterOperation
  <2>1. CASE /\ state # "idle" \/ queue.paused
             /\ UNCHANGED <<state, activeTurn, activeOp, turn, queue, place,
                            contVars, call>>
    <3>1. RequestsAreHeld'
      BY <2>1 DEF DueInv, Due, RequestsAreHeld, contVars
    <3> QED BY <1>1, <2>1, <3>1 DEF Due
  <2>2. CASE OperationDue(queue, state) /\ StartOperation(turn, queue, place)
    BY <1>1, <2>2, OperationBeginsDue DEF OperationDue
  <2>3. CASE \E e \in FollowUpHead(queue) : BeginQueued(queue, e)
    BY <2>3, HeadBeginsDue
  <2>4. CASE /\ Schedule(turn, activeTurn, state, requested, waiters, drain, call)
             /\ UNCHANGED queue
    BY <1>1, <1>2, <2>4, ScheduleDue
  <2> QED BY <1>5, <2>1, <2>2, <2>3, <2>4 DEF AfterOperation
<1> QED BY <1>3, <1>4, <1>5 DEF Scheduled

LEMMA NextDue ==
  ASSUME "sendQueuedNow" \notin Calls
  PROVE  DueInv /\ [Next]_vars => Due'
<1> SUFFICES ASSUME DueInv, [Next]_vars PROVE Due'
  OBVIOUS
<1>1. turn \in [Slot -> Turns] /\ call \in CallMaps /\ queue \in Queues
  BY DueTypes
<1>2. ASSUME UNCHANGED <<state, activeTurn, turn, contVars, afterOp>>,
             queue'.paused => queue.paused, KeepsClosers(call, call')
      PROVE  Due'
  BY <1>2, QuietDue DEF contVars
<1>3. CASE UNCHANGED vars
  BY <1>2, <1>3, SameKeepsClosers DEF vars, turnVars, queueVars
<1>4. ASSUME NEW c \in Caller, AbandonWaiting(c) PROVE Due'
  <2>1. ~Closing(call, c)
    BY <1>4 DEF AbandonWaiting, Closing
  <2> QED BY <1>2, <1>4, <2>1, ReturnKeepsClosers
          DEF AbandonWaiting, OnlyCallsChange, turnVars, queueVars
<1>5. ASSUME NEW t \in Slot, SignalAbort(t) PROVE Due'
  <2>1. /\ turn' = [turn EXCEPT ![t].aborted = TRUE, ![t].signal = FALSE]
        /\ activeTurn' = t /\ activeTurn = t /\ state' = "cancelling"
        /\ queue' = queue
    BY <1>5 DEF SignalAbort, queueVars
  <2>2. turn'[t].kind = turn[t].kind /\ t # None
    BY <1>1, <2>1, NoneIsNoSlot DEF Turns
  <2> QED BY <2>1, <2>2 DEF DueInv, Due, RequestsAreHeld, Calm, Closer
<1>6. CASE OrphanTakes
  <2>1. queue'.paused = queue.paused
    BY <1>1, <1>6, PausedIsKept DEF OrphanTakes
  <2> QED BY <1>2, <1>6, <2>1, SameKeepsClosers
          DEF OrphanTakes, ControlUnchanged
<1> QED BY <1>3, <1>4, <1>5, <1>6, RequestDue, ProceedDue, AdvanceDue,
           ScheduledDue, Zenon DEF Next

LEMMA InitDue == Init => Due
<1> SUFFICES ASSUME Init PROVE Due
  OBVIOUS
<1> QED BY DEF Init, Due, RequestsAreHeld, Calm, Closer

\* A continuation that was asked for is due until it runs, is cancelled or is
\* refused.  sendQueuedNow starts a turn without asking whether one runs; the
\* older of the two leaves the session idle when it ends.
THEOREM RequestedIsDue ==
  ASSUME "sendQueuedNow" \notin Calls
  PROVE  Spec => []RequestsAreHeld
<1>1. Init => DueInv
  BY InitSole, InitPlaces, InitHeld, InitDue DEF DueInv
<1>2. DueInv /\ [Next]_vars => DueInv'
  BY NextKeepsSole, NextKeepsPlaces, NextHeld, NextDue DEF DueInv, SoleInv
<1>3. DueInv => RequestsAreHeld
  BY DEF DueInv, Due
<1> QED BY <1>1, <1>2, <1>3, PTL DEF Spec
=============================================================================
