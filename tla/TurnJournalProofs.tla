-------------------------- MODULE TurnJournalProofs --------------------------
(***************************************************************************)
(* Theorems about TurnJournal.                                             *)
(*                                                                         *)
(* Shape says who awaits what: it holds whatever fails.  JournalInv says   *)
(* what the conversation and the turns know of each other.  Its heart is   *)
(* Fresh: an append that is still to be served and would be accepted is    *)
(* legal.  Whatever is stored raises the version, so every other append    *)
(* that waits turns stale at that moment, and none has to be looked at     *)
(* again.  JournalInv needs that no append of a start is stored and        *)
(* reported as failed, and that no collector appends behind the end of its *)
(* turn: with either fault it does not hold, and neither does what the     *)
(* code promises.                                                          *)
(*                                                                         *)
(* RetryInv adds what the second attempt to store a terminal counts on.    *)
(***************************************************************************)
EXTENDS TurnJournal, TLAPS

\* The faults under which the conversation keeps what is promised of it.
Bearable == {"refused", "lostReply", "crash", "orphan"}

Unstarted == {"admitted", "loading", "reading", "starting"}
Caught == {"ending", "draining", "drained", "checking", "closing"}
Awaiting == {"loading", "reading", "starting", "writing", "flushing",
             "completing", "draining", "checking", "closing"}

-----------------------------------------------------------------------------
(* Shape: requests and stages, whatever fails. *)

\* What a turn that stands as x says asks the repository for.
EventOf(t, x, e) ==
  /\ x.at \in {"loading", "reading", "checking"} => e = None
  /\ x.at = "starting" => e = Event("turn.started", t)
  /\ x.at \in {"writing", "flushing", "draining"} => e = Entry(t)
  /\ x.at = "completing" => e = Event("turn.completed", t)
  /\ x.at = "closing" => e = Event(TerminalOf[x.verdict], t)

ByTurn(r, rn) ==
  r.by = "turn" =>
    r.turn \in Turn /\ rn[r.turn].at \in Awaiting
                    /\ EventOf(r.turn, rn[r.turn], r.event)

ByOrphan(r, rn) ==
  r.by = "orphan" =>
    r.turn \in Turn /\ rn[r.turn].started
                    /\ r.event = Event("context.appended", r.turn)

ByRecorder(r) ==
  r.by = "recorder" =>
    r.turn = None /\ r.event \in {None, Event("context.recorded", None)}

ByResume(r, ss) ==
  r.by = "resume" =>
    /\ r.turn = None /\ ss = "resuming"
    /\ r.event = None \/ \E t \in Turn : r.event = Event("turn.failed", t)

RequestOK(r, rn, ss) ==
  ByTurn(r, rn) /\ ByOrphan(r, rn) /\ ByRecorder(r) /\ ByResume(r, ss)

\* All callers but the collectors await one operation at a time.
OneEach(q) ==
  \A i, j \in 1..Len(q) :
    q[i].by = q[j].by /\ q[i].by # "orphan" => i = j

QueueOK(q, rn, ss) ==
  /\ q \in Seq(Requests)
  /\ \A i \in 1..Len(q) : RequestOK(q[i], rn, ss)
  /\ OneEach(q)

\* Where a turn stands tells whether it has started and how it is to end.
Stage(x) ==
  /\ x.at \in {"new"} \cup Unstarted => ~x.started
  /\ x.at \in InFlight \ Unstarted => x.started
  /\ x.at \in Caught => x.verdict \in Verdicts
  /\ x.attempt = 1 => x.at \in {"checking", "closing"} \cup Settled

Stages(rn, ss) ==
  /\ \A t \in Turn : Stage(rn[t])
  /\ \A t, u \in Turn : rn[t].at \in InFlight /\ rn[u].at \in InFlight => t = u
  /\ \A t \in Turn : rn[t].at \in InFlight => ss = "running"

Shape ==
  /\ TypeOK
  /\ QueueOK(pending, run, session)
  /\ Stages(run, session)
  /\ orphan # None => run[orphan].started

-----------------------------------------------------------------------------
(* JournalInv: what the conversation and the turns know of each other. *)

\* An append that would be accepted is legal.
Fresh(r, J) ==
  r.event # None =>
    /\ r.expected <= J.version
    /\ r.expected = J.version => Legal(J.plan, r.event)

FreshQueue(q, J) == \A i \in 1..Len(q) : Fresh(q[i], J)

\* The plan is the open turn.
JournalOK(J) ==
  /\ J.plan # Throws
  /\ \A t \in Turn :
       /\ (t \in J.opened /\ J.terminal[t] = None) <=> J.plan = Interrupt(t)
       /\ t \notin J.opened => J.terminal[t] = None

\* A turn that runs has the open turn, unless its terminal is stored and the
\* answer was lost; then whatever it appends is stale.
Known(t, x, J, kinds) ==
  /\ x.at \in {"new"} \cup Unstarted => t \notin J.opened
  /\ x.at \in Unstarted => J.plan = Ready
  /\ x.at \in {"reading", "starting"} => x.version <= J.version
  /\ x.at \in InFlight \ Unstarted =>
       \/ J.plan = Interrupt(t) /\ x.version <= J.version
       \/ /\ J.plan = Ready /\ J.terminal[t] # None
          /\ x.version < J.version /\ "lostReply" \in kinds

\* A record that is still to be loaded was begun before any turn that runs, and
\* no turn gets to its start before that load.
RecordFirst(q, rn, J) ==
  \A i \in 1..Len(q) :
    q[i].by = "recorder" /\ q[i].event = None =>
      /\ J.plan = Ready
      /\ \A t \in Turn :
           rn[t].at \in InFlight => rn[t].at \in {"admitted", "loading"}
      /\ \A j \in 1..(i - 1) : q[j].by # "turn"

NoRecord(q, ss) ==
  ss \in {"down", "resuming"} => \A i \in 1..Len(q) : q[i].by # "recorder"

JournalInv ==
  /\ Shape
  /\ FreshQueue(pending, journal)
  /\ JournalOK(journal)
  /\ \A t \in Turn : Known(t, run[t], journal, faults.kinds)
  /\ RecordFirst(pending, run, journal)
  /\ NoRecord(pending, session)
  /\ IdleIsClosed
  /\ AnswerIsStored

-----------------------------------------------------------------------------
(* RetryInv: what the second attempt to store a terminal can count on. *)

\* A collector of t is still to append, or its append is still to be served;
\* there is one at most.
Waits(r, t) == r.by = "orphan" /\ r.turn = t

NoneWaits(t, q) == \A i \in 1..Len(q) : ~Waits(q[i], t)

OneLeft(t, q, o) ==
  /\ o = t => NoneWaits(t, q)
  /\ \A i, j \in 1..Len(q) : Waits(q[i], t) /\ Waits(q[j], t) => i = j

NoneLeft(t, q, o) == o # t /\ NoneWaits(t, q)

Collecting(t, x, q, o, kinds) ==
  /\ OneLeft(t, q, o)
  /\ NoneLeft(t, q, o) \/ ("orphan" \in kinds /\ x.at \in Caught \cup Settled)

\* The version moves under a terminal that is still to be served only by the
\* append of the turn's collector, which is the only one.
Stale(t, x, q, o, J, kinds) ==
  x.at = "closing" =>
    /\ J.plan = Interrupt(t)
    /\ \A i \in 1..Len(q) :
         q[i].by = "turn" /\ q[i].expected # J.version =>
           NoneLeft(t, q, o) /\ "orphan" \in kinds /\ x.attempt = 0

\* There is a second attempt while the turn is open only because of a collector
\* that is done by then.
SecondAttempt(t, x, q, o, J, kinds) ==
  x.attempt = 1 /\ x.at \in {"checking", "closing"} /\ J.plan = Interrupt(t) =>
    NoneLeft(t, q, o) /\ "orphan" \in kinds

RetryOf(t, x, q, o, J, kinds) ==
  /\ Collecting(t, x, q, o, kinds)
  /\ \/ "refused" \in kinds
     \/ Stale(t, x, q, o, J, kinds) /\ SecondAttempt(t, x, q, o, J, kinds)

Retries ==
  /\ \A t \in Turn : RetryOf(t, run[t], pending, orphan, journal, faults.kinds)
  /\ NotStrandedLightly

RetryInv == JournalInv /\ Retries

-----------------------------------------------------------------------------
(* Queues. *)

LEMMA TailFacts ==
  ASSUME NEW S, NEW q \in Seq(S), q # <<>>
  PROVE  /\ Tail(q) \in Seq(S) /\ Head(q) = q[1] /\ q[1] \in S
         /\ Len(q) \in Nat /\ Len(q) >= 1 /\ Len(Tail(q)) = Len(q) - 1
         /\ \A i \in 1..(Len(q) - 1) : Tail(q)[i] = q[i + 1]
  OBVIOUS

LEMMA AppendFacts ==
  ASSUME NEW S, NEW q \in Seq(S), NEW r \in S
  PROVE  /\ Append(q, r) \in Seq(S) /\ Len(Append(q, r)) = Len(q) + 1
         /\ Len(q) \in Nat
         /\ \A i \in 1..Len(q) : Append(q, r)[i] = q[i]
         /\ Append(q, r)[Len(q) + 1] = r
  OBVIOUS

LEMMA ConcatFacts ==
  ASSUME NEW S, NEW q \in Seq(S), NEW r \in S
  PROVE  q \o <<>> = q /\ q \o <<r>> = Append(q, r)
  OBVIOUS

\* The operation that is served was its caller's only one.
LEMMA QueueServed ==
  ASSUME NEW rn, NEW ss, NEW q, QueueOK(q, rn, ss), q # <<>>
  PROVE  /\ QueueOK(Tail(q), rn, ss)
         /\ Head(q) \in Requests /\ RequestOK(Head(q), rn, ss)
         /\ Head(q).by # "orphan" =>
              \A i \in 1..Len(Tail(q)) : Tail(q)[i].by # Head(q).by
  <1>1. q \in Seq(Requests) /\ OneEach(q)
        /\ \A i \in 1..Len(q) : RequestOK(q[i], rn, ss)
    BY DEF QueueOK
  <1>2. /\ Tail(q) \in Seq(Requests) /\ Head(q) = q[1] /\ q[1] \in Requests
        /\ Len(q) \in Nat /\ Len(q) >= 1 /\ Len(Tail(q)) = Len(q) - 1
        /\ \A i \in 1..(Len(q) - 1) : Tail(q)[i] = q[i + 1]
    BY <1>1, TailFacts
  <1>3. \A i \in 1..Len(Tail(q)) : i + 1 \in 1..Len(q) /\ Tail(q)[i] = q[i + 1]
    BY <1>2
  <1>4. \A i \in 1..Len(Tail(q)) : RequestOK(Tail(q)[i], rn, ss)
    BY <1>1, <1>3
  <1>5. OneEach(Tail(q))
    <2>1. SUFFICES ASSUME NEW i \in 1..Len(Tail(q)), NEW j \in 1..Len(Tail(q)),
                          Tail(q)[i].by = Tail(q)[j].by, Tail(q)[i].by # "orphan"
                   PROVE  i = j
      BY DEF OneEach
    <2>2. i + 1 = j + 1
      BY <1>1, <1>3, <2>1 DEF OneEach
    <2>3. i \in Nat /\ j \in Nat
      BY <1>2
    <2>. QED BY <2>2, <2>3
  <1>6. 1 \in 1..Len(q)
    BY <1>2
  <1>7. ASSUME Head(q).by # "orphan", NEW i \in 1..Len(Tail(q))
        PROVE  Tail(q)[i].by # Head(q).by
    <2>1. i + 1 \in 1..Len(q) /\ i + 1 # 1 /\ Tail(q)[i] = q[i + 1]
      BY <1>2, <1>3
    <2>. QED BY <1>1, <1>2, <1>6, <1>7, <2>1 DEF OneEach
  <1>. QED BY <1>1, <1>2, <1>4, <1>5, <1>6, <1>7 DEF QueueOK

LEMMA QueueAsked ==
  ASSUME NEW rn, NEW ss, NEW q, QueueOK(q, rn, ss),
         NEW r \in Requests, RequestOK(r, rn, ss),
         r.by # "orphan" => \A i \in 1..Len(q) : q[i].by # r.by
  PROVE  QueueOK(Append(q, r), rn, ss)
  <1>1. q \in Seq(Requests) /\ OneEach(q)
        /\ \A i \in 1..Len(q) : RequestOK(q[i], rn, ss)
    BY DEF QueueOK
  <1>. DEFINE p == Append(q, r)
  <1>2. /\ p \in Seq(Requests) /\ Len(p) = Len(q) + 1 /\ Len(q) \in Nat
        /\ \A i \in 1..Len(q) : p[i] = q[i]
        /\ p[Len(q) + 1] = r
    BY <1>1, AppendFacts
  <1>. HIDE DEF p
  <1>3. \A i \in 1..Len(p) : i \in 1..Len(q) \/ i = Len(q) + 1
    BY <1>2
  <1>4. \A i \in 1..Len(p) : RequestOK(p[i], rn, ss)
    BY <1>1, <1>2, <1>3
  <1>5. OneEach(p)
    BY <1>1, <1>2, <1>3 DEF OneEach
  <1>. QED BY <1>2, <1>4, <1>5 DEF QueueOK, p

\* What the requests in a queue say stays true when turn t moves that awaits none
\* of them, and when the session changes while it awaits none of them.
LEMMA QueueMoved ==
  ASSUME NEW rn, NEW ss, NEW rn2, NEW ss2, NEW q, QueueOK(q, rn, ss), NEW t \in Turn,
         \A u \in Turn \ {t} : rn2[u] = rn[u],
         rn[t].started => rn2[t].started,
         \/ \A i \in 1..Len(q) : q[i].by = "turn" => q[i].turn # t
         \/ rn2[t].at = rn[t].at /\ rn2[t].verdict = rn[t].verdict,
         ss2 = ss \/ \A i \in 1..Len(q) : q[i].by # "resume"
  PROVE  QueueOK(q, rn2, ss2)
  <1>1. q \in Seq(Requests) /\ OneEach(q)
        /\ \A i \in 1..Len(q) : RequestOK(q[i], rn, ss)
    BY DEF QueueOK
  <1>2. ASSUME NEW i \in 1..Len(q)
        PROVE  RequestOK(q[i], rn2, ss2)
    <2>1. RequestOK(q[i], rn, ss)
      BY <1>1
    <2>2. ByTurn(q[i], rn2)
      BY <2>1 DEF RequestOK, ByTurn, EventOf
    <2>3. ByOrphan(q[i], rn2)
      BY <2>1 DEF RequestOK, ByOrphan
    <2>4. ByResume(q[i], ss2)
      <3>1. CASE ss2 = ss
        BY <2>1, <3>1 DEF RequestOK
      <3>2. CASE q[i].by # "resume"
        BY <3>2 DEF ByResume
      <3>. QED BY <3>1, <3>2
    <2>. QED BY <2>1, <2>2, <2>3, <2>4 DEF RequestOK
  <1>. QED BY <1>1, <1>2 DEF QueueOK

-----------------------------------------------------------------------------
(* How a turn moves, and what an operation stores. *)

\* Turn t, and no other, moves: to stage a, version v, ...
Sets(t, a, v, s, d, n) ==
  /\ run' \in [Turn -> Runs]
  /\ \A u \in Turn \ {t} : run'[u] = run[u]
  /\ run'[t].at = a /\ run'[t].version = v /\ run'[t].started = s
  /\ run'[t].verdict = d /\ run'[t].attempt = n

Places == {"new"} \cup InFlight \cup Settled

LEMMA RunsAt ==
  ASSUME NEW x \in Runs, NEW a \in Places
  PROVE  LET y == [x EXCEPT !.at = a] IN
         /\ y \in Runs /\ y.at = a /\ y.version = x.version
         /\ y.started = x.started /\ y.verdict = x.verdict
         /\ y.attempt = x.attempt
  BY DEF Runs, Places

LEMMA RunsVersion ==
  ASSUME NEW x \in Runs, NEW v \in Nat
  PROVE  LET y == [x EXCEPT !.version = v] IN
         /\ y \in Runs /\ y.at = x.at /\ y.version = v
         /\ y.started = x.started /\ y.verdict = x.verdict
         /\ y.attempt = x.attempt
  BY DEF Runs

LEMMA RunsStarted ==
  ASSUME NEW x \in Runs
  PROVE  LET y == [x EXCEPT !.started = TRUE] IN
         /\ y \in Runs /\ y.at = x.at /\ y.version = x.version
         /\ y.started = TRUE /\ y.verdict = x.verdict
         /\ y.attempt = x.attempt
  BY DEF Runs

LEMMA RunsVerdict ==
  ASSUME NEW x \in Runs, NEW d \in Verdicts
  PROVE  LET y == [x EXCEPT !.verdict = d] IN
         /\ y \in Runs /\ y.at = x.at /\ y.version = x.version
         /\ y.started = x.started /\ y.verdict = d
         /\ y.attempt = x.attempt
  BY DEF Runs

LEMMA RunsAttempt ==
  ASSUME NEW x \in Runs
  PROVE  LET y == [x EXCEPT !.attempt = 1] IN
         /\ y \in Runs /\ y.at = x.at /\ y.version = x.version
         /\ y.started = x.started /\ y.verdict = x.verdict
         /\ y.attempt = 1
  BY DEF Runs

LEMMA RunsAborted ==
  ASSUME NEW x \in Runs
  PROVE  LET y == [x EXCEPT !.aborted = TRUE] IN
         /\ y \in Runs /\ y.at = x.at /\ y.version = x.version
         /\ y.started = x.started /\ y.verdict = x.verdict
         /\ y.attempt = x.attempt
  BY DEF Runs

LEMMA RunPut ==
  ASSUME run \in [Turn -> Runs], NEW t \in Turn, NEW y \in Runs,
         run' = [run EXCEPT ![t] = y]
  PROVE  Sets(t, y.at, y.version, y.started, y.verdict, y.attempt)
  BY DEF Sets

LEMMA GoesSets ==
  ASSUME run \in [Turn -> Runs], NEW t \in Turn, NEW a \in Places, Goes(t, a)
  PROVE  Sets(t, a, run[t].version, run[t].started, run[t].verdict, run[t].attempt)
  <1>. DEFINE y == [run[t] EXCEPT !.at = a]
  <1>1. run[t] \in Runs
    OBVIOUS
  <1>2. run' = [run EXCEPT ![t] = y]
    BY DEF Goes
  <1>3. /\ y \in Runs /\ y.at = a /\ y.version = run[t].version
        /\ y.started = run[t].started /\ y.verdict = run[t].verdict
        /\ y.attempt = run[t].attempt
    BY <1>1, RunsAt
  <1>. HIDE DEF y
  <1>. QED BY <1>2, <1>3, RunPut DEF Sets

\* The version an append returns is the one after the version it expected.
LEMMA AtVersionSets ==
  ASSUME run \in [Turn -> Runs], NEW t \in Turn, NEW a \in Places, NEW v \in Nat,
         run' = [run EXCEPT ![t].at = a, ![t].version = v]
  PROVE  Sets(t, a, v, run[t].started, run[t].verdict, run[t].attempt)
  <1>. DEFINE x == [run[t] EXCEPT !.at = a]
              y == [x EXCEPT !.version = v]
  <1>1. run[t] \in Runs
    OBVIOUS
  <1>2. run' = [run EXCEPT ![t] = y]
    OBVIOUS
  <1>3. /\ x \in Runs /\ x.at = a
        /\ x.started = run[t].started /\ x.verdict = run[t].verdict
        /\ x.attempt = run[t].attempt
    BY <1>1, RunsAt
  <1>. HIDE DEF x
  <1>4. /\ y \in Runs /\ y.at = a /\ y.version = v
        /\ y.started = run[t].started /\ y.verdict = run[t].verdict
        /\ y.attempt = run[t].attempt
    BY <1>3, RunsVersion
  <1>. HIDE DEF y
  <1>. QED BY <1>2, <1>4, RunPut DEF Sets

LEMMA StartedSets ==
  ASSUME run \in [Turn -> Runs], NEW t \in Turn, NEW a \in Places, NEW v \in Nat,
         run' = [run EXCEPT ![t].at = a, ![t].started = TRUE, ![t].version = v]
  PROVE  Sets(t, a, v, TRUE, run[t].verdict, run[t].attempt)
  <1>. DEFINE x == [run[t] EXCEPT !.at = a]
              z == [x EXCEPT !.started = TRUE]
              y == [z EXCEPT !.version = v]
  <1>1. run[t] \in Runs
    OBVIOUS
  <1>2. run' = [run EXCEPT ![t] = y]
    OBVIOUS
  <1>3. /\ x \in Runs /\ x.at = a
        /\ x.verdict = run[t].verdict /\ x.attempt = run[t].attempt
    BY <1>1, RunsAt
  <1>. HIDE DEF x
  <1>4. /\ z \in Runs /\ z.at = a /\ z.started = TRUE
        /\ z.verdict = run[t].verdict /\ z.attempt = run[t].attempt
    BY <1>3, RunsStarted
  <1>. HIDE DEF z
  <1>5. /\ y \in Runs /\ y.at = a /\ y.version = v /\ y.started = TRUE
        /\ y.verdict = run[t].verdict /\ y.attempt = run[t].attempt
    BY <1>4, RunsVersion
  <1>. HIDE DEF y
  <1>. QED BY <1>2, <1>5, RunPut DEF Sets

LEMMA VerdictSets ==
  ASSUME run \in [Turn -> Runs], NEW t \in Turn, NEW d \in Verdicts,
         run' = [run EXCEPT ![t].at = "ending", ![t].verdict = d]
  PROVE  Sets(t, "ending", run[t].version, run[t].started, d, run[t].attempt)
  <1>. DEFINE x == [run[t] EXCEPT !.at = "ending"]
              y == [x EXCEPT !.verdict = d]
  <1>1. run[t] \in Runs /\ "ending" \in Places
    BY DEF Places, InFlight
  <1>2. run' = [run EXCEPT ![t] = y]
    OBVIOUS
  <1>3. /\ x \in Runs /\ x.at = "ending" /\ x.version = run[t].version
        /\ x.started = run[t].started /\ x.attempt = run[t].attempt
    BY <1>1, RunsAt
  <1>. HIDE DEF x
  <1>4. /\ y \in Runs /\ y.at = "ending" /\ y.version = run[t].version
        /\ y.started = run[t].started /\ y.verdict = d
        /\ y.attempt = run[t].attempt
    BY <1>3, RunsVerdict
  <1>. HIDE DEF y
  <1>. QED BY <1>2, <1>4, RunPut DEF Sets

LEMMA AgainSets ==
  ASSUME run \in [Turn -> Runs], NEW t \in Turn,
         run' = [run EXCEPT ![t].at = "checking", ![t].attempt = 1]
  PROVE  Sets(t, "checking", run[t].version, run[t].started, run[t].verdict, 1)
  <1>. DEFINE x == [run[t] EXCEPT !.at = "checking"]
              y == [x EXCEPT !.attempt = 1]
  <1>1. run[t] \in Runs /\ "checking" \in Places
    BY DEF Places, InFlight
  <1>2. run' = [run EXCEPT ![t] = y]
    OBVIOUS
  <1>3. /\ x \in Runs /\ x.at = "checking" /\ x.version = run[t].version
        /\ x.started = run[t].started /\ x.verdict = run[t].verdict
    BY <1>1, RunsAt
  <1>. HIDE DEF x
  <1>4. /\ y \in Runs /\ y.at = "checking" /\ y.version = run[t].version
        /\ y.started = run[t].started /\ y.verdict = run[t].verdict
        /\ y.attempt = 1
    BY <1>3, RunsAttempt
  <1>. HIDE DEF y
  <1>. QED BY <1>2, <1>4, RunPut DEF Sets

LEMMA AbortedSets ==
  ASSUME run \in [Turn -> Runs], NEW t \in Turn,
         run' = [run EXCEPT ![t].aborted = TRUE]
  PROVE  Sets(t, run[t].at, run[t].version, run[t].started, run[t].verdict,
              run[t].attempt)
  <1>. DEFINE y == [run[t] EXCEPT !.aborted = TRUE]
  <1>1. run[t] \in Runs
    OBVIOUS
  <1>2. run' = [run EXCEPT ![t] = y]
    OBVIOUS
  <1>3. /\ y \in Runs /\ y.at = run[t].at /\ y.version = run[t].version
        /\ y.started = run[t].started /\ y.verdict = run[t].verdict
        /\ y.attempt = run[t].attempt
    BY <1>1, RunsAborted
  <1>. HIDE DEF y
  <1>. QED BY <1>2, <1>3, RunPut DEF Sets

LEMMA StoredTyped ==
  ASSUME NEW J \in Journals, NEW e \in OwnEvents,
         e.type \in Opening => e.turn \in Turn
  PROVE  Stored(J, e) \in Journals
  <1>1. /\ J.version \in Nat /\ J.plan \in Plans /\ J.opened \in SUBSET Turn
        /\ J.entries \in [Turn -> Nat] /\ J.records \in Nat
        /\ J.terminal \in [Turn -> Closing \cup {None}]
    BY DEF Journals
  <1>2. PlanStep(J.plan, e) \in Plans
    BY <1>1 DEF PlanStep, Plans, Interrupt, Ready, Throws
  <1>3. ASSUME NEW t \in Turn
        PROVE  J.entries[t] + (IF e.type \in Inside /\ e.turn = t THEN 1 ELSE 0) \in Nat
    BY <1>1
  <1>4. J.records + (IF e.type \in Outside THEN 1 ELSE 0) \in Nat
    BY <1>1
  <1>5. (IF e.type \in Opening THEN J.opened \cup {e.turn} ELSE J.opened) \in SUBSET Turn
    BY <1>1
  <1>. QED BY <1>1, <1>2, <1>3, <1>4, <1>5 DEF Stored, Journals

\* An operation that is served is answered one way or another.
Answers ==
  \/ UNCHANGED journal
  \/ Accepted(Head(pending)) /\ journal' = Stored(journal, Head(pending).event)

\* What a turn asks to store is an event, and it opens its own turn if any.
LEMMA TurnEvents ==
  ASSUME NEW t \in Turn, NEW x, NEW e, x.at \in Awaiting, EventOf(t, x, e),
         x.at \in Caught => x.verdict \in Verdicts
  PROVE  /\ x.at \notin {"loading", "reading", "checking"} =>
              e \in OwnEvents /\ e.turn = t
         /\ e \in OwnEvents /\ e.type \in Opening => e.turn = t /\ x.at = "starting"
  <1>1. CASE x.at \in {"loading", "reading", "checking"}
    BY <1>1, NothingAssumption DEF EventOf
  <1>2. CASE x.at \in {"starting", "writing", "flushing", "draining", "completing"}
    <2>1. \E type \in {"turn.started", "message.appended", "turn.completed"} :
            e = Event(type, t) /\ (type = "turn.started" => x.at = "starting")
      BY <1>2 DEF EventOf, Entry
    <2>. QED BY <1>2, <2>1, NoTurnAssumption
             DEF Event, OwnEvents, Events, Opening, Inside, Closing
  <1>3. CASE x.at = "closing"
    <2>1. x.verdict \in Verdicts /\ e = Event(TerminalOf[x.verdict], t)
      BY <1>3 DEF EventOf, Caught
    <2>2. TerminalOf[x.verdict] \in Closing
      BY <2>1 DEF Verdicts, TerminalOf, Closing
    <2>. QED BY <1>3, <2>1, <2>2, NoTurnAssumption DEF Event, OwnEvents, Events, Opening, Closing
  <1>. QED BY <1>1, <1>2, <1>3 DEF Awaiting

LEMMA FaultTyped ==
  ASSUME TypeOK
  PROVE  /\ UNCHANGED faults =>
              faults' \in [count : 0..MaxFaults, kinds : SUBSET FaultKinds]
         /\ \A kind : Fault(kind) =>
              faults' \in [count : 0..MaxFaults, kinds : SUBSET FaultKinds]
  BY FaultsAssumption, BoundsAssumption DEF TypeOK, Fault

LEMMA HeadEvent ==
  ASSUME Shape, pending # <<>>
  PROVE  /\ Head(pending) \in Requests
         /\ RequestOK(Head(pending), run, session)
         /\ Head(pending).expected \in Nat
  BY QueueServed DEF Shape, Requests

LEMMA HeadOpens ==
  ASSUME Shape, pending # <<>>, Head(pending).event \in OwnEvents
  PROVE  Head(pending).event.type \in Opening =>
           /\ Head(pending).event.turn \in Turn
           /\ run[Head(pending).event.turn].at = "starting"
  <1>. DEFINE r == Head(pending)
  <1>1. r \in Requests /\ RequestOK(r, run, session)
    BY HeadEvent
  <1>2. r.event.type \in Opening =>
          r.event.turn \in Turn /\ run[r.event.turn].at = "starting"
    <2>1. CASE r.by = "turn"
      <3>1. r.turn \in Turn /\ run[r.turn].at \in Awaiting
            /\ EventOf(r.turn, run[r.turn], r.event)
        BY <1>1, <2>1 DEF RequestOK, ByTurn
      <3>2. run[r.turn].at \in Caught => run[r.turn].verdict \in Verdicts
        BY <3>1 DEF Shape, Stages, Stage
      <3>3. r.event \in OwnEvents
        OBVIOUS
      <3>. HIDE DEF r
      <3>. QED BY <3>1, <3>2, <3>3, TurnEvents
    <2>2. CASE r.by = "orphan"
      BY <1>1, <2>2 DEF RequestOK, ByOrphan, Event, Opening
    <2>3. CASE r.by = "recorder"
      BY <1>1, <2>3, NothingAssumption DEF RequestOK, ByRecorder, Event, Opening
    <2>4. CASE r.by = "resume"
      <3>1. r.event # None
        BY NothingAssumption
      <3>2. PICK u \in Turn : r.event = Event("turn.failed", u)
        BY <1>1, <2>4, <3>1 DEF RequestOK, ByResume
      <3>. QED BY <3>2 DEF Event, Opening
    <2>. QED BY <1>1, <2>1, <2>2, <2>3, <2>4 DEF Requests
  <1>. QED BY <1>2

LEMMA AppendAnswers ==
  ASSUME Shape, pending # <<>>, Head(pending).event \in OwnEvents,
         AppendResolves \/ AppendRejects
  PROVE  /\ journal' \in Journals
         /\ faults' \in [count : 0..MaxFaults, kinds : SUBSET FaultKinds]
         /\ Answers
  <1>. DEFINE r == Head(pending)
  <1>1. r \in Requests /\ RequestOK(r, run, session)
    BY HeadEvent
  <1>2. r.event.type \in Opening => r.event.turn \in Turn
    BY HeadOpens
  <1>. HIDE DEF r
  <1>3. journal \in Journals /\ faults \in [count : 0..MaxFaults, kinds : SUBSET FaultKinds]
    BY DEF Shape, TypeOK
  <1>4. Stored(journal, Head(pending).event) \in Journals
    BY <1>2, <1>3, StoredTyped DEF r
  <1>5. Answers
    BY DEF AppendResolves, AppendRejects, Answers
  <1>6. journal' \in Journals
    BY <1>3, <1>4, <1>5 DEF Answers
  <1>. QED BY <1>5, <1>6, FaultTyped DEF AppendResolves, AppendRejects, Shape

LEMMA LoadAnswers ==
  ASSUME TypeOK, LoadResolves \/ LoadRejects
  PROVE  /\ journal' = journal /\ journal' \in Journals
         /\ faults' \in [count : 0..MaxFaults, kinds : SUBSET FaultKinds]
  BY FaultTyped DEF TypeOK, LoadResolves, LoadRejects

-----------------------------------------------------------------------------
(* A turn's step keeps Shape. *)

\* A turn that runs moves on, or settles and leaves the session.
TurnMoves(t) ==
  /\ run' \in [Turn -> Runs]
  /\ \A u \in Turn \ {t} : run'[u] = run[u]
  /\ run[t].at \in InFlight
  /\ run[t].started => run'[t].started
  /\ Stage(run'[t])
  /\ \/ run'[t].at \in InFlight /\ session' = session
     \/ run'[t].at \in Settled /\ session' \in {"idle", "recovery_required"}

LEMMA Places3 ==
  /\ Awaiting \subseteq InFlight /\ Unstarted \subseteq InFlight
  /\ Caught \subseteq InFlight /\ Verdicts \subseteq Settled
  /\ "new" \notin InFlight \cup Settled
  /\ \A a \in Settled : a \notin InFlight
  BY DEF Awaiting, InFlight, Unstarted, Caught, Verdicts, Settled

LEMMA MovedStages ==
  ASSUME Shape, NEW t \in Turn, TurnMoves(t)
  PROVE  session = "running" /\ Stages(run', session')
  BY Places3 DEF Shape, Stages, TurnMoves

\* While turn t runs, what turns have asked for was asked by t.
LEMMA TurnAsks ==
  ASSUME Shape, NEW t \in Turn, run[t].at \in InFlight, NEW i \in 1..Len(pending),
         pending[i].by = "turn"
  PROVE  pending[i].turn = t /\ run[t].at \in Awaiting
  <1>1. RequestOK(pending[i], run, session)
    BY DEF Shape, QueueOK
  <1>. QED BY <1>1, Places3 DEF RequestOK, ByTurn, Shape, Stages

LEMMA NoResume ==
  ASSUME Shape, session # "resuming", NEW i \in 1..Len(pending)
  PROVE  pending[i].by # "resume"
  <1>1. RequestOK(pending[i], run, session)
    BY DEF Shape, QueueOK
  <1>. QED BY <1>1 DEF RequestOK, ByResume

\* What others have asked for stays in order, and so does what t asks for now.
LEMMA MovedQueue ==
  ASSUME Shape, NEW t \in Turn, TurnMoves(t), NEW q, QueueOK(q, run, session),
         \A i \in 1..Len(q) : q[i].by # "turn",
         \A i \in 1..Len(q) : q[i].by # "resume"
  PROVE  /\ QueueOK(q, run', session')
         /\ \A r \in Requests : r.by = "turn" /\ r.turn = t /\ run'[t].at \in Awaiting
                                /\ EventOf(t, run'[t], r.event)
              => QueueOK(Append(q, r), run', session')
  <1>1. QueueOK(q, run', session')
    BY QueueMoved DEF TurnMoves
  <1>2. ASSUME NEW r \in Requests, r.by = "turn", r.turn = t, run'[t].at \in Awaiting,
               EventOf(t, run'[t], r.event)
        PROVE  QueueOK(Append(q, r), run', session')
    <2>1. RequestOK(r, run', session')
      BY <1>2 DEF RequestOK, ByTurn, ByOrphan, ByRecorder, ByResume
    <2>. QED BY <1>1, <1>2, <2>1, QueueAsked
  <1>. QED BY <1>1, <1>2

LEMMA AskQueue ==
  ASSUME Shape, NEW t \in Turn, TurnMoves(t), run[t].at \notin Awaiting
  PROVE  /\ UNCHANGED pending => QueueOK(pending', run', session')
         /\ \A r \in Requests : r.by = "turn" /\ r.turn = t /\ run'[t].at \in Awaiting
                                /\ EventOf(t, run'[t], r.event) /\ Ask(r)
              => QueueOK(pending', run', session')
  <1>1. session = "running"
    BY MovedStages
  <1>2. \A i \in 1..Len(pending) : pending[i].by # "turn"
    BY TurnAsks DEF TurnMoves
  <1>3. \A i \in 1..Len(pending) : pending[i].by # "resume"
    BY <1>1, NoResume
  <1>4. QueueOK(pending, run, session)
    BY DEF Shape
  <1>. QED BY <1>2, <1>3, <1>4, MovedQueue DEF Ask

LEMMA ServeQueue ==
  ASSUME Shape, NEW t \in Turn, TurnMoves(t), Serving("turn", t)
  PROVE  /\ Answered(<<>>) => QueueOK(pending', run', session')
         /\ \A r \in Requests : r.by = "turn" /\ r.turn = t /\ run'[t].at \in Awaiting
                                /\ EventOf(t, run'[t], r.event) /\ Answered(<<r>>)
              => QueueOK(pending', run', session')
  <1>1. session = "running"
    BY MovedStages
  <1>2. pending # <<>> /\ Head(pending).by = "turn"
    BY DEF Serving
  <1>. DEFINE q == Tail(pending)
  <1>3. /\ QueueOK(q, run, session)
        /\ \A i \in 1..Len(q) : q[i].by # "turn"
    BY <1>2, QueueServed DEF Shape
  <1>4. \A i \in 1..Len(q) : q[i].by # "resume"
    BY <1>1, <1>3 DEF QueueOK, RequestOK, ByResume
  <1>5. q \in Seq(Requests)
    BY <1>3 DEF QueueOK
  <1>. HIDE DEF q
  <1>6. q \o <<>> = q /\ \A r \in Requests : q \o <<r>> = Append(q, r)
    BY <1>5, ConcatFacts
  <1>7. Answered(<<>>) => pending' = q
    BY <1>6 DEF Answered, q
  <1>8. \A r \in Requests : Answered(<<r>>) => pending' = Append(q, r)
    BY <1>6 DEF Answered, q
  <1>. QED BY <1>3, <1>4, <1>7, <1>8, MovedQueue

LEMMA TurnShape ==
  ASSUME Shape, NEW t \in Turn, TurnMoves(t), QueueOK(pending', run', session'),
         journal' \in Journals,
         faults' \in [count : 0..MaxFaults, kinds : SUBSET FaultKinds],
         orphan' = orphan \/ (orphan' = t /\ run'[t].started)
  PROVE  Shape'
  <1>1. Stages(run', session') /\ session' \in Sessions
    BY MovedStages DEF TurnMoves, Sessions
  <1>2. orphan' \in Turn \cup {None} /\ pending' \in Seq(Requests)
    BY DEF Shape, TypeOK, QueueOK
  <1>3. orphan' # None => run'[orphan'].started
    BY DEF Shape, TurnMoves, TypeOK
  <1>4. TypeOK'
    BY <1>1, <1>2 DEF TypeOK, TurnMoves
  <1>. QED BY <1>1, <1>3, <1>4 DEF Shape

\* What the turn's operation says of its stage and of the run's version.
LEMMA TurnServed ==
  ASSUME Shape, NEW t \in Turn, Serving("turn", t)
  PROVE  /\ pending # <<>> /\ run[t].at \in Awaiting /\ run[t].at \in InFlight
         /\ EventOf(t, run[t], Head(pending).event)
         /\ Head(pending).expected + 1 \in Nat
         /\ run[t].at \notin {"loading", "reading", "checking"} =>
              Head(pending).event \in OwnEvents /\ Head(pending).event.turn = t
  <1>. DEFINE r == Head(pending)
  <1>1. pending # <<>> /\ r.by = "turn" /\ r.turn = t
    BY DEF Serving
  <1>2. RequestOK(r, run, session) /\ r.expected \in Nat
    BY <1>1, HeadEvent
  <1>3. run[t].at \in Awaiting /\ EventOf(t, run[t], r.event)
    BY <1>1, <1>2 DEF RequestOK, ByTurn
  <1>4. run[t].at \in Caught => run[t].verdict \in Verdicts
    BY DEF Shape, Stages, Stage
  <1>. HIDE DEF r
  <1>5. run[t].at \notin {"loading", "reading", "checking"} =>
          r.event \in OwnEvents /\ r.event.turn = t
    BY <1>3, <1>4, TurnEvents
  <1>. QED BY <1>1, <1>2, <1>3, <1>5, Places3 DEF r

LEMMA TurnAppends ==
  ASSUME Shape, NEW t \in Turn, Serving("turn", t),
         run[t].at \notin {"loading", "reading", "checking"},
         AppendResolves \/ AppendRejects
  PROVE  /\ journal' \in Journals
         /\ faults' \in [count : 0..MaxFaults, kinds : SUBSET FaultKinds]
  BY TurnServed, AppendAnswers

LEMMA TurnLoads ==
  ASSUME Shape, LoadResolves \/ LoadRejects
  PROVE  /\ journal' \in Journals
         /\ faults' \in [count : 0..MaxFaults, kinds : SUBSET FaultKinds]
  BY LoadAnswers DEF Shape

-----------------------------------------------------------------------------
(* The steps of a turn. *)

LEMMA RequestsAsked ==
  ASSUME NEW t \in Turn
  PROVE  /\ Load("turn", t) \in Requests /\ Load("turn", t).by = "turn"
         /\ Load("turn", t).turn = t /\ Load("turn", t).event = None
         /\ \A v \in Nat, e \in OwnEvents :
              LET r == AppendOf("turn", t, v, e) IN
              /\ r \in Requests /\ r.by = "turn" /\ r.turn = t
              /\ r.event = e /\ r.expected = v
  BY DEF Load, AppendOf, Requests

LEMMA EventsAsked ==
  ASSUME NEW t \in Turn
  PROVE  /\ Entry(t) \in OwnEvents
         /\ Event("turn.started", t) \in OwnEvents
         /\ Event("turn.completed", t) \in OwnEvents
         /\ \A v \in Verdicts : Event(TerminalOf[v], t) \in OwnEvents
         /\ Event("context.appended", t) \in OwnEvents
         /\ Event("turn.failed", t) \in OwnEvents
  BY NoTurnAssumption
     DEF Entry, Event, OwnEvents, Events, Opening, Inside, Closing, Verdicts, TerminalOf

\* Where turn t goes, with an answer or without one, whatever it stood for.
LEMMA SetsMoves ==
  ASSUME Shape, NEW t \in Turn, run[t].at \in InFlight,
         NEW a, NEW v, NEW s, NEW d, NEW n, Sets(t, a, v, s, d, n),
         run[t].started => s,
         a \in Unstarted => ~s,
         a \in InFlight \ Unstarted => s,
         a \in Caught => d \in Verdicts,
         n = 1 => a \in {"checking", "closing"} \cup Settled,
         \/ a \in InFlight /\ session' = session
         \/ a \in Settled /\ session' \in {"idle", "recovery_required"}
  PROVE  TurnMoves(t)
  BY Places3 DEF Sets, TurnMoves, Stage

LEMMA CatchDoes ==
  ASSUME Shape, NEW t \in Turn, run[t].at \in InFlight \ {"checking", "closing"},
         NEW verdict \in Verdicts, Catch(t, verdict)
  PROVE  /\ TurnMoves(t) /\ run'[t].at \notin Awaiting
         /\ run[t].started =>
              /\ Sets(t, "ending", run[t].version, TRUE, verdict, 0)
              /\ session' = session
         /\ ~run[t].started =>
              /\ Sets(t, verdict, run[t].version, FALSE, run[t].verdict, 0)
              /\ session' = "idle"
  <1>1. run \in [Turn -> Runs] /\ run[t] \in Runs /\ Stage(run[t])
    BY DEF Shape, TypeOK, Stages
  <1>2. run[t].started \in BOOLEAN /\ run[t].attempt = 0
    BY <1>1, Places3 DEF Runs, Stage
  <1>3. CASE run[t].started
    <2>1. Sets(t, "ending", run[t].version, run[t].started, verdict, run[t].attempt)
          /\ session' = session
      BY <1>1, <1>3, VerdictSets DEF Catch
    <2>2. Sets(t, "ending", run[t].version, TRUE, verdict, 0)
      BY <1>2, <1>3, <2>1 DEF Sets
    <2>3. TurnMoves(t)
      <3>1. "ending" \in InFlight /\ "ending" \notin Unstarted
        BY DEF InFlight, Unstarted
      <3>2. run[t].started = TRUE /\ run[t].attempt = 0
        BY <1>2, <1>3
      <3>. QED BY <1>1, <1>3, <2>1, <2>2, <3>1, <3>2 DEF Sets, TurnMoves, Stage
    <2>. QED BY <1>3, <2>1, <2>2, <2>3 DEF Sets, Awaiting
  <1>4. CASE ~run[t].started
    <2>1. verdict \in Places /\ Goes(t, verdict) /\ session' = "idle"
      BY <1>4 DEF Catch, Ends, Verdicts, Places, Settled
    <2>2. Sets(t, verdict, run[t].version, run[t].started, run[t].verdict, run[t].attempt)
      BY <1>1, <2>1, GoesSets
    <2>3. Sets(t, verdict, run[t].version, FALSE, run[t].verdict, 0)
      BY <1>2, <1>4, <2>2 DEF Sets
    <2>4. verdict \in Settled /\ verdict \notin InFlight
      BY Places3
    <2>5. TurnMoves(t)
      BY <1>4, <2>1, <2>3, <2>4, Places3, SetsMoves
    <2>. QED BY <1>4, <2>1, <2>3, <2>4, <2>5, Places3 DEF Sets
  <1>. QED BY <1>3, <1>4

LEMMA FailureVerdict ==
  ASSUME NEW t
  PROVE  Failure(t) \in Verdicts
  BY DEF Failure, Verdicts

\* A stage's step to another one.
LEMMA GoesDoes ==
  ASSUME Shape, NEW t \in Turn, run[t].at \in InFlight, NEW a \in InFlight, Goes(t, a),
         a \in Unstarted => run[t].at \in Unstarted,
         run[t].at \in Unstarted => a \in Unstarted,
         a \in Caught => run[t].at \in Caught,
         run[t].attempt = 1 => a \in {"checking", "closing"},
         session' = session
  PROVE  /\ TurnMoves(t)
         /\ Sets(t, a, run[t].version, run[t].started, run[t].verdict, run[t].attempt)
  <1>1. run \in [Turn -> Runs] /\ run[t] \in Runs /\ Stage(run[t]) /\ a \in Places
    BY DEF Shape, TypeOK, Stages, Places
  <1>2. Sets(t, a, run[t].version, run[t].started, run[t].verdict, run[t].attempt)
    BY <1>1, GoesSets
  <1>3. TurnMoves(t)
    BY <1>1, <1>2, SetsMoves DEF Stage
  <1>. QED BY <1>2, <1>3

LEMMA GoesOnDoes ==
  ASSUME Shape, NEW t \in Turn, run[t].at \in InFlight, NEW a \in InFlight, GoesOn(t, a),
         Serving("turn", t),
         a \notin Unstarted, run[t].at \notin Unstarted,
         a \in Caught => run[t].at \in Caught,
         run[t].attempt = 1 => a \in {"checking", "closing"},
         session' = session
  PROVE  /\ TurnMoves(t)
         /\ Sets(t, a, Head(pending).expected + 1, run[t].started, run[t].verdict,
                 run[t].attempt)
  <1>1. run \in [Turn -> Runs] /\ run[t] \in Runs /\ Stage(run[t]) /\ a \in Places
    BY DEF Shape, TypeOK, Stages, Places
  <1>. DEFINE v == Head(pending).expected + 1
  <1>2. v \in Nat
    BY TurnServed
  <1>3. run' = [run EXCEPT ![t].at = a, ![t].version = v]
    BY DEF GoesOn
  <1>. HIDE DEF v
  <1>4. Sets(t, a, v, run[t].started, run[t].verdict, run[t].attempt)
    BY <1>1, <1>2, <1>3, AtVersionSets
  <1>5. TurnMoves(t)
    BY <1>1, <1>4, SetsMoves DEF Stage
  <1>. QED BY <1>4, <1>5 DEF v

LEMMA EndsDoes ==
  ASSUME Shape, NEW t \in Turn, run[t].at \in InFlight, NEW how \in Verdicts \cup {"persistence"},
         Ends(t, how)
  PROVE  /\ TurnMoves(t)
         /\ Sets(t, how, run[t].version, run[t].started, run[t].verdict, run[t].attempt)
  <1>1. run \in [Turn -> Runs] /\ run[t] \in Runs /\ Stage(run[t])
    BY DEF Shape, TypeOK, Stages
  <1>2. how \in Settled /\ how \in Places /\ how \notin InFlight
    BY Places3 DEF Places, Settled
  <1>3. Sets(t, how, run[t].version, run[t].started, run[t].verdict, run[t].attempt)
    BY <1>1, <1>2, GoesSets DEF Ends
  <1>4. session' \in {"idle", "recovery_required"}
    BY DEF Ends
  <1>5. TurnMoves(t)
    BY <1>2, <1>3, <1>4, Places3, SetsMoves
  <1>. QED BY <1>3, <1>5

LEMMA StageOf ==
  ASSUME Shape, NEW t \in Turn
  PROVE  /\ run \in [Turn -> Runs] /\ run[t] \in Runs /\ Stage(run[t])
         /\ run[t].version \in Nat /\ journal.version \in Nat
         /\ journal \in Journals
  BY DEF Shape, TypeOK, Stages, Runs, Journals

\* A step to a stage that asks for an operation.
LEMMA AsksShape ==
  ASSUME Shape, NEW t \in Turn, run[t].at \in InFlight \ Awaiting,
         NEW a \in Awaiting, Goes(t, a),
         a \in Unstarted <=> run[t].at \in Unstarted,
         a \in Caught => run[t].at \in Caught,
         NEW r \in Requests, r.by = "turn", r.turn = t, Ask(r),
         EventOf(t, run'[t], r.event),
         UNCHANGED <<journal, session, orphan, faults>>
  PROVE  Shape'
  <1>1. run[t].attempt # 1
    BY StageOf, Places3 DEF Stage, Awaiting, InFlight
  <1>2. a \in InFlight
    BY Places3
  <1>3. TurnMoves(t) /\ run'[t].at = a
    BY <1>1, <1>2, GoesDoes DEF Sets
  <1>4. QueueOK(pending', run', session')
    BY <1>3, AskQueue
  <1>. QED BY <1>3, <1>4, TurnShape DEF Shape, TypeOK

LEMMA EventKept ==
  ASSUME NEW t, NEW x, NEW e
  PROVE  /\ x.at \in {"loading", "reading", "checking"} /\ e = None => EventOf(t, x, e)
         /\ x.at = "starting" /\ e = Event("turn.started", t) => EventOf(t, x, e)
         /\ x.at \in {"writing", "flushing", "draining"} /\ e = Entry(t) => EventOf(t, x, e)
         /\ x.at = "completing" /\ e = Event("turn.completed", t) => EventOf(t, x, e)
         /\ x.at = "closing" /\ e = Event(TerminalOf[x.verdict], t) => EventOf(t, x, e)
  BY DEF EventOf

LEMMA GoesAt ==
  ASSUME Shape, NEW t \in Turn, NEW a \in InFlight, Goes(t, a)
  PROVE  run'[t].at = a
  BY StageOf, GoesSets DEF Sets, Places

LEMMA StartTurnShape ==
  ASSUME Shape, NEW t \in Turn, StartTurn(t)
  PROVE  Shape'
  <1>1. run[t].at = "new" /\ session = "idle" /\ session' = "running" /\ Goes(t, "admitted")
        /\ UNCHANGED <<journal, pending, orphan, faults>>
    BY DEF StartTurn
  <1>2. "admitted" \in Unstarted /\ "admitted" \in InFlight /\ "admitted" \notin Caught
        /\ "admitted" \in Places
    BY DEF Unstarted, InFlight, Caught, Places
  <1>3. Sets(t, "admitted", run[t].version, run[t].started, run[t].verdict, run[t].attempt)
    BY <1>1, <1>2, StageOf, GoesSets
  <1>4. Stage(run'[t])
    <2>1. ~run[t].started /\ run[t].attempt # 1
      BY <1>1, StageOf, Places3 DEF Stage
    <2>. QED BY <1>2, <1>3, <2>1 DEF Sets, Stage
  <1>5. \A u \in Turn : run[u].at \notin InFlight
    BY <1>1 DEF Shape, Stages
  <1>6. Stages(run', session')
    BY <1>1, <1>3, <1>4, <1>5 DEF Sets, Stages, Shape
  <1>7. \A i \in 1..Len(pending) : pending[i].by # "turn" /\ pending[i].by # "resume"
    BY <1>1, <1>5, Places3 DEF Shape, QueueOK, RequestOK, ByTurn, ByResume
  <1>8. QueueOK(pending', run', session')
    BY <1>1, <1>3, <1>7, QueueMoved DEF Sets, Shape
  <1>9. orphan' # None => run'[orphan'].started
    BY <1>1, <1>3 DEF Shape, TypeOK, Sets
  <1>10. TypeOK'
    BY <1>1, <1>3 DEF Shape, TypeOK, Sets, Sessions
  <1>. QED BY <1>6, <1>8, <1>9, <1>10 DEF Shape

LEMMA AbortShape ==
  ASSUME Shape, NEW t \in Turn, Abort(t)
  PROVE  Shape'
  <1>1. run[t].at \in InFlight /\ run' = [run EXCEPT ![t].aborted = TRUE]
        /\ UNCHANGED <<journal, pending, session, orphan, faults>>
    BY DEF Abort
  <1>2. Sets(t, run[t].at, run[t].version, run[t].started, run[t].verdict, run[t].attempt)
    BY <1>1, StageOf, AbortedSets
  <1>3. TurnMoves(t)
    BY <1>1, <1>2, StageOf DEF Sets, TurnMoves, Stage
  <1>4. QueueOK(pending', run', session')
    BY <1>1, <1>2, QueueMoved DEF Sets, Shape
  <1>. QED BY <1>1, <1>3, <1>4, TurnShape DEF Shape, TypeOK

LEMMA LoadConversationShape ==
  ASSUME Shape, NEW t \in Turn, LoadConversation(t)
  PROVE  Shape'
  <1>1. run[t].at = "admitted" /\ Goes(t, "loading") /\ Ask(Load("turn", t))
        /\ UNCHANGED <<journal, session, orphan, faults>>
    BY DEF LoadConversation
  <1>2. run'[t].at = "loading"
    BY <1>1, GoesAt DEF InFlight
  <1>3. EventOf(t, run'[t], Load("turn", t).event)
    BY <1>2, RequestsAsked, EventKept
  <1>. QED BY <1>1, <1>3, RequestsAsked, AsksShape DEF InFlight, Awaiting, Unstarted, Caught

LEMMA AppendEntryShape ==
  ASSUME Shape, NEW t \in Turn, AppendEntry(t)
  PROVE  Shape'
  <1>. DEFINE r == AppendOf("turn", t, run[t].version, Entry(t))
  <1>1. /\ r \in Requests /\ r.by = "turn" /\ r.turn = t /\ r.event = Entry(t)
    BY StageOf, RequestsAsked, EventsAsked
  <1>2. Ask(r) /\ UNCHANGED <<journal, session, orphan, faults>>
    BY DEF AppendEntry
  <1>. HIDE DEF r
  <1>3. CASE run[t].at = "running" /\ Goes(t, "writing")
    <2>1. run'[t].at = "writing"
      BY <1>3, GoesAt DEF InFlight
    <2>2. EventOf(t, run'[t], r.event)
      BY <1>1, <2>1, EventKept
    <2>. QED BY <1>1, <1>2, <1>3, <2>2, AsksShape DEF InFlight, Awaiting, Unstarted, Caught
  <1>4. CASE run[t].at = "finalizing" /\ Goes(t, "flushing")
    <2>1. run'[t].at = "flushing"
      BY <1>4, GoesAt DEF InFlight
    <2>2. EventOf(t, run'[t], r.event)
      BY <1>1, <2>1, EventKept
    <2>. QED BY <1>1, <1>2, <1>4, <2>2, AsksShape DEF InFlight, Awaiting, Unstarted, Caught
  <1>. QED BY <1>3, <1>4 DEF AppendEntry

LEMMA AppendCompletedShape ==
  ASSUME Shape, NEW t \in Turn, AppendCompleted(t)
  PROVE  Shape'
  <1>. DEFINE e == Event("turn.completed", t)
              r == AppendOf("turn", t, run[t].version, e)
  <1>1. /\ r \in Requests /\ r.by = "turn" /\ r.turn = t /\ r.event = e
    BY StageOf, RequestsAsked, EventsAsked
  <1>2. run[t].at = "finalizing" /\ Goes(t, "completing") /\ Ask(r)
        /\ UNCHANGED <<journal, session, orphan, faults>>
    BY DEF AppendCompleted
  <1>3. run'[t].at = "completing"
    BY <1>2, GoesAt DEF InFlight
  <1>4. EventOf(t, run'[t], r.event)
    BY <1>1, <1>3, EventKept
  <1>. HIDE DEF r
  <1>. QED BY <1>1, <1>2, <1>4, AsksShape DEF InFlight, Awaiting, Unstarted, Caught

LEMMA FlushContextShape ==
  ASSUME Shape, NEW t \in Turn, FlushContext(t)
  PROVE  Shape'
  <1>. DEFINE r == AppendOf("turn", t, run[t].version, Entry(t))
  <1>1. /\ r \in Requests /\ r.by = "turn" /\ r.turn = t /\ r.event = Entry(t)
    BY StageOf, RequestsAsked, EventsAsked
  <1>2. run[t].at = "ending" /\ Goes(t, "draining") /\ Ask(r)
        /\ UNCHANGED <<journal, session, orphan, faults>>
    BY DEF FlushContext
  <1>3. run'[t].at = "draining"
    BY <1>2, GoesAt DEF InFlight
  <1>4. EventOf(t, run'[t], r.event)
    BY <1>1, <1>3, EventKept
  <1>. HIDE DEF r
  <1>. QED BY <1>1, <1>2, <1>4, AsksShape DEF InFlight, Awaiting, Unstarted, Caught

LEMMA LoadForTerminalShape ==
  ASSUME Shape, NEW t \in Turn, LoadForTerminal(t)
  PROVE  Shape'
  <1>1. run[t].at \in {"ending", "drained"} /\ Goes(t, "checking") /\ Ask(Load("turn", t))
        /\ UNCHANGED <<journal, session, orphan, faults>>
    BY DEF LoadForTerminal
  <1>2. run'[t].at = "checking"
    BY <1>1, GoesAt DEF InFlight
  <1>3. EventOf(t, run'[t], Load("turn", t).event)
    BY <1>2, RequestsAsked, EventKept
  <1>. QED BY <1>1, <1>3, RequestsAsked, AsksShape DEF InFlight, Awaiting, Unstarted, Caught

LEMMA RunCompletesShape ==
  ASSUME Shape, NEW t \in Turn, RunCompletes(t)
  PROVE  Shape'
  <1>1. run[t].at = "running" /\ Goes(t, "finalizing")
        /\ UNCHANGED <<journal, pending, session, orphan, faults>>
    BY DEF RunCompletes
  <1>2. run[t].attempt # 1
    BY <1>1, StageOf DEF Stage, Settled, Verdicts
  <1>3. TurnMoves(t)
    BY <1>1, <1>2, GoesDoes DEF InFlight, Unstarted, Caught
  <1>4. QueueOK(pending', run', session')
    BY <1>1, <1>3, AskQueue DEF Awaiting
  <1>. QED BY <1>1, <1>3, <1>4, TurnShape DEF Shape, TypeOK

LEMMA InterruptedShape ==
  ASSUME Shape, NEW t \in Turn, Interrupted(t)
  PROVE  Shape'
  <1>1. run[t].at \in {"admitted", "running"} /\ UNCHANGED <<journal, pending>>
    BY DEF Interrupted
  <1>2. PICK verdict \in Verdicts : Catch(t, verdict)
    BY DEF Interrupted, Verdicts
  <1>3. TurnMoves(t)
    BY <1>1, <1>2, CatchDoes DEF InFlight
  <1>4. QueueOK(pending', run', session')
    BY <1>1, <1>3, AskQueue DEF Awaiting
  <1>5. orphan' = orphan \/ (orphan' = t /\ run'[t].started)
    <2>1. run[t].at = "running" => run[t].started
      BY StageOf DEF Stage, InFlight, Unstarted
    <2>. QED BY <1>3, <2>1 DEF Interrupted, TurnMoves
  <1>6. faults' \in [count : 0..MaxFaults, kinds : SUBSET FaultKinds]
    <2>1. faults \in [count : 0..MaxFaults, kinds : SUBSET FaultKinds]
      BY DEF Shape, TypeOK
    <2>2. "orphan" \in FaultKinds
      BY DEF FaultKinds
    <2>. QED BY <2>1, <2>2 DEF Interrupted
  <1>. QED BY <1>1, <1>3, <1>4, <1>5, <1>6, TurnShape DEF Shape, TypeOK

\* A step in which turn t gets an answer and asks for nothing.
LEMMA AnsweredShape ==
  ASSUME Shape, NEW t \in Turn, Serving("turn", t), TurnMoves(t), Answered(<<>>),
         journal' \in Journals,
         faults' \in [count : 0..MaxFaults, kinds : SUBSET FaultKinds],
         UNCHANGED orphan
  PROVE  Shape'
  BY ServeQueue, TurnShape

\* ... and in which it asks for the next operation at once.
LEMMA AsksAgainShape ==
  ASSUME Shape, NEW t \in Turn, Serving("turn", t), TurnMoves(t),
         NEW r \in Requests, r.by = "turn", r.turn = t, Answered(<<r>>),
         run'[t].at \in Awaiting, EventOf(t, run'[t], r.event),
         journal' \in Journals,
         faults' \in [count : 0..MaxFaults, kinds : SUBSET FaultKinds],
         UNCHANGED orphan
  PROVE  Shape'
  BY ServeQueue, TurnShape

LEMMA LoadedShape ==
  ASSUME Shape, NEW t \in Turn, Loaded(t)
  PROVE  Shape'
  <1>1. Serving("turn", t) /\ run[t].at = "loading" /\ UNCHANGED orphan
    BY DEF Loaded
  <1>2. CASE /\ LoadResolves
             /\ run' = [run EXCEPT ![t].at = "reading", ![t].version = journal.version]
             /\ Answered(<<Load("turn", t)>>)
             /\ UNCHANGED session
    <2>1. Sets(t, "reading", journal.version, run[t].started, run[t].verdict, run[t].attempt)
      BY <1>2, StageOf, AtVersionSets DEF Places, InFlight
    <2>2. TurnMoves(t)
      <3>1. ~run[t].started /\ run[t].attempt # 1
        BY <1>1, StageOf, Places3 DEF Stage, Unstarted
      <3>. QED BY <1>1, <1>2, <2>1, <3>1, SetsMoves DEF InFlight, Unstarted, Caught
    <2>3. run'[t].at = "reading" /\ EventOf(t, run'[t], Load("turn", t).event)
      BY <2>1, RequestsAsked, EventKept DEF Sets
    <2>. QED BY <1>1, <1>2, <2>2, <2>3, RequestsAsked, TurnLoads, AsksAgainShape DEF Awaiting
  <1>3. CASE LoadRejects /\ Catch(t, Failure(t)) /\ Answered(<<>>)
    <2>1. TurnMoves(t)
      BY <1>1, <1>3, FailureVerdict, CatchDoes DEF InFlight
    <2>. QED BY <1>1, <1>3, <2>1, TurnLoads, AnsweredShape
  <1>. QED BY <1>2, <1>3 DEF Loaded

LEMMA AppendStartShape ==
  ASSUME Shape, NEW t \in Turn, AppendStart(t)
  PROVE  Shape'
  <1>1. Serving("turn", t) /\ run[t].at = "reading" /\ UNCHANGED orphan
    BY DEF AppendStart
  <1>. DEFINE r == AppendOf("turn", t, run[t].version, Event("turn.started", t))
  <1>2. /\ r \in Requests /\ r.by = "turn" /\ r.turn = t /\ r.event = Event("turn.started", t)
    BY StageOf, RequestsAsked, EventsAsked
  <1>3. \/ LoadResolves /\ Goes(t, "starting") /\ Answered(<<r>>) /\ UNCHANGED session
        \/ (LoadResolves \/ LoadRejects) /\ Catch(t, Failure(t)) /\ Answered(<<>>)
    BY DEF AppendStart
  <1>. HIDE DEF r
  <1>4. CASE LoadResolves /\ Goes(t, "starting") /\ Answered(<<r>>) /\ UNCHANGED session
    <2>1. run[t].attempt # 1
      BY <1>1, StageOf DEF Stage, Settled, Verdicts
    <2>2. TurnMoves(t)
      BY <1>1, <1>4, <2>1, GoesDoes DEF InFlight, Unstarted, Caught
    <2>3. run'[t].at = "starting"
      BY <1>4, GoesAt DEF InFlight
    <2>4. EventOf(t, run'[t], r.event)
      BY <1>2, <2>3, EventKept
    <2>. QED BY <1>1, <1>2, <1>4, <2>2, <2>3, <2>4, TurnLoads, AsksAgainShape DEF Awaiting
  <1>5. CASE (LoadResolves \/ LoadRejects) /\ Catch(t, Failure(t)) /\ Answered(<<>>)
    <2>1. TurnMoves(t)
      BY <1>1, <1>5, FailureVerdict, CatchDoes DEF InFlight
    <2>. QED BY <1>1, <1>5, <2>1, TurnLoads, AnsweredShape
  <1>. QED BY <1>3, <1>4, <1>5

LEMMA StartedDoes ==
  ASSUME Shape, NEW t \in Turn, Serving("turn", t), run[t].at = "starting",
         run' = [run EXCEPT ![t].at = "running", ![t].started = TRUE,
                            ![t].version = Head(pending).expected + 1],
         UNCHANGED session
  PROVE  /\ TurnMoves(t)
         /\ Sets(t, "running", Head(pending).expected + 1, TRUE, run[t].verdict, run[t].attempt)
  <1>1. Sets(t, "running", Head(pending).expected + 1, TRUE, run[t].verdict, run[t].attempt)
    BY StageOf, TurnServed, StartedSets DEF Places, InFlight
  <1>2. run[t].attempt # 1
    BY StageOf DEF Stage, Settled, Verdicts
  <1>3. TurnMoves(t)
    BY <1>1, <1>2 DEF Sets, TurnMoves, Stage, InFlight, Unstarted, Caught
  <1>. QED BY <1>1, <1>3

LEMMA StartedShape ==
  ASSUME Shape, NEW t \in Turn, Started(t)
  PROVE  Shape'
  <1>1. Serving("turn", t) /\ run[t].at = "starting" /\ Answered(<<>>) /\ UNCHANGED orphan
        /\ (AppendResolves \/ AppendRejects)
    BY DEF Started
  <1>2. TurnMoves(t)
    <2>1. CASE Catch(t, Failure(t))
      BY <1>1, <2>1, FailureVerdict, CatchDoes DEF InFlight
    <2>. QED BY <1>1, <2>1, StartedDoes DEF Started
  <1>. QED BY <1>1, <1>2, TurnAppends, AnsweredShape

LEMMA EntryAppendedShape ==
  ASSUME Shape, NEW t \in Turn, EntryAppended(t)
  PROVE  Shape'
  <1>1. /\ Serving("turn", t) /\ run[t].at \in {"writing", "flushing"} /\ Answered(<<>>)
        /\ UNCHANGED orphan /\ (AppendResolves \/ AppendRejects)
    BY DEF EntryAppended
  <1>2. TurnMoves(t)
    <2>1. CASE Catch(t, Failure(t))
      BY <1>1, <2>1, FailureVerdict, CatchDoes DEF InFlight
    <2>2. run[t].attempt # 1
      BY <1>1, StageOf DEF Stage, Settled, Verdicts
    <2>3. CASE run[t].at = "writing" /\ GoesOn(t, "running") /\ UNCHANGED session
      BY <1>1, <2>2, <2>3, GoesOnDoes DEF InFlight, Unstarted, Caught
    <2>4. CASE run[t].at = "flushing" /\ GoesOn(t, "finalizing") /\ UNCHANGED session
      BY <1>1, <2>2, <2>4, GoesOnDoes DEF InFlight, Unstarted, Caught
    <2>. QED BY <1>1, <2>1, <2>3, <2>4 DEF EntryAppended
  <1>. QED BY <1>1, <1>2, TurnAppends, AnsweredShape

LEMMA CompletedShape ==
  ASSUME Shape, NEW t \in Turn, Completed(t)
  PROVE  Shape'
  <1>1. /\ Serving("turn", t) /\ run[t].at = "completing" /\ Answered(<<>>)
        /\ UNCHANGED orphan /\ (AppendResolves \/ AppendRejects)
    BY DEF Completed
  <1>2. TurnMoves(t)
    <2>1. CASE Catch(t, Failure(t))
      BY <1>1, <2>1, FailureVerdict, CatchDoes DEF InFlight
    <2>2. CASE Ends(t, "completed")
      BY <1>1, <2>2, EndsDoes DEF InFlight, Verdicts
    <2>. QED BY <2>1, <2>2 DEF Completed
  <1>. QED BY <1>1, <1>2, TurnAppends, AnsweredShape

LEMMA ContextFlushedShape ==
  ASSUME Shape, NEW t \in Turn, ContextFlushed(t)
  PROVE  Shape'
  <1>1. /\ Serving("turn", t) /\ run[t].at = "draining" /\ Answered(<<>>)
        /\ UNCHANGED <<session, orphan>> /\ (AppendResolves \/ AppendRejects)
    BY DEF ContextFlushed
  <1>2. TurnMoves(t)
    <2>1. run[t].attempt # 1
      BY <1>1, StageOf DEF Stage, Settled, Verdicts
    <2>2. CASE GoesOn(t, "drained")
      BY <1>1, <2>1, <2>2, GoesOnDoes DEF InFlight, Unstarted, Caught
    <2>3. CASE Goes(t, "drained")
      BY <1>1, <2>1, <2>3, GoesDoes DEF InFlight, Unstarted, Caught
    <2>. QED BY <2>2, <2>3 DEF ContextFlushed
  <1>. QED BY <1>1, <1>2, TurnAppends, AnsweredShape

LEMMA VerdictOf ==
  ASSUME Shape, NEW t \in Turn, run[t].at \in Caught
  PROVE  run[t].verdict \in Verdicts /\ run[t].started
  BY StageOf DEF Stage, Caught, InFlight, Unstarted

LEMMA AppendTerminalShape ==
  ASSUME Shape, NEW t \in Turn, AppendTerminal(t)
  PROVE  Shape'
  <1>1. Serving("turn", t) /\ run[t].at = "checking" /\ UNCHANGED orphan
    BY DEF AppendTerminal
  <1>2. run[t].verdict \in Verdicts /\ run[t].at \in InFlight
    BY <1>1, VerdictOf DEF Caught, InFlight
  <1>. DEFINE e == Event(TerminalOf[run[t].verdict], t)
              r == AppendOf("turn", t, journal.version, e)
  <1>3. /\ r \in Requests /\ r.by = "turn" /\ r.turn = t /\ r.event = e
    BY <1>2, StageOf, RequestsAsked, EventsAsked
  <1>4. \/ LoadResolves /\ Ends(t, run[t].verdict) /\ Answered(<<>>)
        \/ LoadResolves /\ Goes(t, "closing") /\ Answered(<<r>>) /\ UNCHANGED session
        \/ (LoadResolves \/ LoadRejects) /\ Ends(t, "persistence") /\ Answered(<<>>)
    BY DEF AppendTerminal
  <1>. HIDE DEF r
  <1>5. CASE Ends(t, run[t].verdict) \/ Ends(t, "persistence")
    <2>1. TurnMoves(t)
      BY <1>2, <1>5, EndsDoes
    <2>2. Answered(<<>>)
      <3>1. run'[t].at \in Settled
        BY <1>2, <1>5, EndsDoes, Places3 DEF Sets, Settled
      <3>2. CASE Goes(t, "closing")
        <4>1. run'[t].at = "closing"
          BY <3>2, GoesAt DEF InFlight
        <4>. QED BY <3>1, <4>1 DEF Settled, Verdicts
      <3>. QED BY <1>4, <3>2
    <2>. QED BY <1>1, <1>4, <2>1, <2>2, TurnLoads, AnsweredShape
  <1>6. CASE LoadResolves /\ Goes(t, "closing") /\ Answered(<<r>>) /\ UNCHANGED session
    <2>1. TurnMoves(t)
          /\ Sets(t, "closing", run[t].version, run[t].started, run[t].verdict, run[t].attempt)
      BY <1>1, <1>2, <1>6, GoesDoes DEF InFlight, Unstarted, Caught
    <2>2. run'[t].at = "closing" /\ run'[t].verdict = run[t].verdict
      BY <2>1 DEF Sets
    <2>3. EventOf(t, run'[t], r.event)
      BY <1>3, <2>2, EventKept
    <2>. QED BY <1>1, <1>3, <1>6, <2>1, <2>2, <2>3, TurnLoads, AsksAgainShape DEF Awaiting
  <1>. QED BY <1>4, <1>5, <1>6

\* The terminal is stored: the turn settles as it was to.
LEMMA ClosedDoes ==
  ASSUME Shape, NEW t \in Turn, Serving("turn", t), run[t].at = "closing",
         run' = [run EXCEPT ![t].at = run[t].verdict,
                            ![t].version = Head(pending).expected + 1],
         session' = "idle"
  PROVE  /\ TurnMoves(t) /\ run[t].verdict \in Verdicts
         /\ Sets(t, run[t].verdict, Head(pending).expected + 1, run[t].started,
                 run[t].verdict, run[t].attempt)
  <1>1. run[t].verdict \in Verdicts
    BY VerdictOf DEF Caught
  <1>2. run[t].verdict \in Settled /\ run[t].verdict \in Places /\ run[t].verdict \notin InFlight
    BY <1>1, Places3 DEF Places
  <1>3. Sets(t, run[t].verdict, Head(pending).expected + 1, run[t].started,
             run[t].verdict, run[t].attempt)
    BY <1>2, StageOf, TurnServed, AtVersionSets
  <1>4. TurnMoves(t)
    BY <1>2, <1>3, Places3, SetsMoves DEF InFlight
  <1>. QED BY <1>1, <1>3, <1>4

LEMMA AgainDoes ==
  ASSUME Shape, NEW t \in Turn, run[t].at = "closing",
         run' = [run EXCEPT ![t].at = "checking", ![t].attempt = 1],
         UNCHANGED session
  PROVE  /\ TurnMoves(t)
         /\ Sets(t, "checking", run[t].version, run[t].started, run[t].verdict, 1)
  <1>1. Sets(t, "checking", run[t].version, run[t].started, run[t].verdict, 1)
    BY StageOf, AgainSets
  <1>2. run[t].verdict \in Verdicts /\ run[t].started
    BY VerdictOf DEF Caught
  <1>3. TurnMoves(t)
    BY <1>1, <1>2, SetsMoves DEF InFlight, Unstarted, Caught
  <1>. QED BY <1>1, <1>3

LEMMA TerminalAppendedShape ==
  ASSUME Shape, NEW t \in Turn, TerminalAppended(t)
  PROVE  Shape'
  <1>1. /\ Serving("turn", t) /\ run[t].at = "closing" /\ UNCHANGED orphan
        /\ (AppendResolves \/ AppendRejects)
    BY DEF TerminalAppended
  <1>2. CASE /\ run' = [run EXCEPT ![t].at = run[t].verdict,
                                   ![t].version = Head(pending).expected + 1]
             /\ session' = "idle" /\ Answered(<<>>)
    BY <1>1, <1>2, ClosedDoes, TurnAppends, AnsweredShape
  <1>3. CASE /\ run' = [run EXCEPT ![t].at = "checking", ![t].attempt = 1]
             /\ Answered(<<Load("turn", t)>>) /\ UNCHANGED session
    <2>1. TurnMoves(t) /\ run'[t].at = "checking"
      BY <1>1, <1>3, AgainDoes DEF Sets
    <2>2. EventOf(t, run'[t], Load("turn", t).event)
      BY <2>1, RequestsAsked, EventKept
    <2>. QED BY <1>1, <1>3, <2>1, <2>2, RequestsAsked, TurnAppends, AsksAgainShape DEF Awaiting
  <1>4. CASE Ends(t, "persistence") /\ Answered(<<>>)
    <2>1. TurnMoves(t)
      BY <1>1, <1>4, EndsDoes DEF InFlight
    <2>. QED BY <1>1, <1>4, <2>1, TurnAppends, AnsweredShape
  <1>. QED BY <1>2, <1>3, <1>4 DEF TerminalAppended

-----------------------------------------------------------------------------
(* The collectors, the records and the session keep Shape. *)

LEMMA OthersShape ==
  ASSUME Shape, UNCHANGED run, orphan' = orphan \/ orphan' = None,
         QueueOK(pending', run, session'), session' \in Sessions,
         session' = session \/ session # "running",
         journal' \in Journals,
         faults' \in [count : 0..MaxFaults, kinds : SUBSET FaultKinds]
  PROVE  Shape'
  <1>1. Stages(run', session')
    BY DEF Shape, Stages
  <1>2. TypeOK'
    BY DEF Shape, TypeOK, QueueOK
  <1>. QED BY <1>1, <1>2 DEF Shape

LEMMA OrphanAppendsShape ==
  ASSUME Shape, OrphanAppends
  PROVE  Shape'
  <1>1. orphan # None /\ orphan \in Turn /\ run[orphan].started /\ run[orphan].version \in Nat
    BY StageOf DEF OrphanAppends, Shape, TypeOK
  <1>. DEFINE r == AppendOf("orphan", orphan, run[orphan].version,
                            Event("context.appended", orphan))
  <1>2. r \in Requests /\ r.by = "orphan" /\ r.turn = orphan
        /\ r.event = Event("context.appended", orphan)
    BY <1>1, EventsAsked DEF AppendOf, Requests
  <1>3. pending' = Append(pending, r) /\ orphan' = None
        /\ UNCHANGED <<journal, session, run, faults>>
    BY DEF OrphanAppends, Ask
  <1>. HIDE DEF r
  <1>4. RequestOK(r, run, session)
    BY <1>1, <1>2 DEF RequestOK, ByTurn, ByOrphan, ByRecorder, ByResume
  <1>5. QueueOK(pending', run, session)
    BY <1>2, <1>3, <1>4, QueueAsked DEF Shape
  <1>. QED BY <1>3, <1>5, OthersShape DEF Shape, TypeOK

\* What is left in the queue when an operation has been served.
LEMMA ServedRest ==
  ASSUME Shape, pending # <<>>
  PROVE  /\ QueueOK(Tail(pending), run, session)
         /\ Tail(pending) \o <<>> = Tail(pending)
         /\ \A r \in Requests : Tail(pending) \o <<r>> = Append(Tail(pending), r)
  <1>. DEFINE q == Tail(pending)
  <1>1. QueueOK(q, run, session)
    BY QueueServed DEF Shape
  <1>2. q \in Seq(Requests)
    BY <1>1 DEF QueueOK
  <1>. HIDE DEF q
  <1>3. q \o <<>> = q /\ \A r \in Requests : q \o <<r>> = Append(q, r)
    BY <1>2, ConcatFacts
  <1>. QED BY <1>1, <1>3 DEF q

LEMMA OrphanServed ==
  ASSUME Shape, NEW t \in Turn, Serving("orphan", t)
  PROVE  /\ pending # <<>> /\ run[t].started
         /\ Head(pending).event = Event("context.appended", t)
         /\ Head(pending).event \in OwnEvents
         /\ Head(pending).expected + 1 \in Nat
  BY HeadEvent, EventsAsked DEF Serving, RequestOK, ByOrphan

\* A collector's append that is accepted tells its turn the new version.
LEMMA OrphanSets ==
  ASSUME Shape, NEW t \in Turn, Serving("orphan", t), GoesOn(t, run[t].at)
  PROVE  Sets(t, run[t].at, Head(pending).expected + 1, run[t].started, run[t].verdict,
              run[t].attempt)
  <1>. DEFINE v == Head(pending).expected + 1
  <1>1. v \in Nat
    BY OrphanServed
  <1>2. run' = [run EXCEPT ![t].at = run[t].at, ![t].version = v]
    BY DEF GoesOn
  <1>3. run[t].at \in Places
    BY StageOf DEF Runs, Places
  <1>. HIDE DEF v
  <1>4. Sets(t, run[t].at, v, run[t].started, run[t].verdict, run[t].attempt)
    BY <1>1, <1>2, <1>3, StageOf, AtVersionSets
  <1>. QED BY <1>4 DEF v

LEMMA OrphanAnsweredShape ==
  ASSUME Shape, NEW t \in Turn, OrphanAnswered(t)
  PROVE  Shape'
  <1>1. /\ Serving("orphan", t) /\ Answered(<<>>) /\ UNCHANGED <<session, orphan>>
        /\ (AppendResolves \/ AppendRejects)
    BY DEF OrphanAnswered
  <1>2. /\ journal' \in Journals
        /\ faults' \in [count : 0..MaxFaults, kinds : SUBSET FaultKinds]
    BY <1>1, OrphanServed, AppendAnswers
  <1>3. QueueOK(pending', run, session)
    BY <1>1, OrphanServed, ServedRest DEF Answered
  <1>4. CASE UNCHANGED run
    BY <1>1, <1>2, <1>3, <1>4, OthersShape DEF Shape, TypeOK
  <1>5. CASE GoesOn(t, run[t].at)
    <2>1. Sets(t, run[t].at, Head(pending).expected + 1, run[t].started, run[t].verdict,
               run[t].attempt)
      BY <1>1, <1>5, OrphanSets
    <2>2. Stages(run', session')
      BY <1>1, <2>1 DEF Sets, Stages, Stage, Shape
    <2>3. QueueOK(pending', run', session')
      BY <1>1, <1>3, <2>1, QueueMoved DEF Sets
    <2>4. orphan' # None => run'[orphan'].started
      BY <1>1, <2>1 DEF Sets, Shape, TypeOK
    <2>5. TypeOK'
      BY <1>1, <1>2, <2>1, <2>3 DEF Sets, QueueOK, Shape, TypeOK
    <2>. QED BY <2>2, <2>3, <2>4, <2>5 DEF Shape
  <1>. QED BY <1>1, <1>4, <1>5 DEF OrphanAnswered

LEMMA RecordRequests ==
  /\ Load("recorder", None) \in Requests
  /\ \A ss : RequestOK(Load("recorder", None), run, ss)
  /\ Load("recorder", None).by = "recorder" /\ Load("recorder", None).event = None
  /\ Event("context.recorded", None) \in OwnEvents
  /\ \A v \in Nat :
       LET r == AppendOf("recorder", None, v, Event("context.recorded", None)) IN
       /\ r \in Requests /\ r.by = "recorder" /\ r.expected = v
       /\ r.event = Event("context.recorded", None)
       /\ \A ss : RequestOK(r, run, ss)
  BY DEF Load, AppendOf, Requests, RequestOK, ByTurn, ByOrphan, ByRecorder, ByResume,
         Event, OwnEvents, Events, Outside

LEMMA RecordShape ==
  ASSUME Shape, Record
  PROVE  Shape'
  <1>1. /\ pending' = Append(pending, Load("recorder", None)) /\ ~Recording
        /\ UNCHANGED <<journal, session, run, orphan, faults>>
    BY DEF Record, Ask
  <1>2. \A i \in 1..Len(pending) : pending[i].by # "recorder"
    BY <1>1 DEF Recording, Shape, TypeOK
  <1>3. QueueOK(pending', run, session)
    BY <1>1, <1>2, RecordRequests, QueueAsked DEF Shape
  <1>. QED BY <1>1, <1>3, OthersShape DEF Shape, TypeOK

LEMMA RecordLoadedShape ==
  ASSUME Shape, RecordLoaded
  PROVE  Shape'
  <1>. DEFINE r == AppendOf("recorder", None, journal.version, Event("context.recorded", None))
              q == Tail(pending)
  <1>1. /\ pending # <<>> /\ Head(pending).by = "recorder"
        /\ UNCHANGED <<session, run, orphan>>
        /\ \/ LoadResolves /\ Answered(<<r>>)
           \/ LoadRejects /\ Answered(<<>>)
    BY DEF RecordLoaded, Serving
  <1>2. /\ journal' \in Journals
        /\ faults' \in [count : 0..MaxFaults, kinds : SUBSET FaultKinds]
    BY <1>1, TurnLoads
  <1>3. r \in Requests /\ r.by = "recorder" /\ RequestOK(r, run, session)
    BY RecordRequests, StageOf DEF Shape, TypeOK, Journals
  <1>4. /\ QueueOK(q, run, session) /\ \A i \in 1..Len(q) : q[i].by # "recorder"
        /\ q \o <<>> = q /\ q \o <<r>> = Append(q, r)
    BY <1>1, <1>3, QueueServed, ServedRest DEF Shape
  <1>5. pending' = q \/ pending' = Append(q, r)
    BY <1>1, <1>4 DEF Answered
  <1>. HIDE DEF q, r
  <1>6. QueueOK(Append(q, r), run, session)
    BY <1>3, <1>4, QueueAsked
  <1>. QED BY <1>1, <1>2, <1>4, <1>5, <1>6, OthersShape DEF Shape, TypeOK

LEMMA RecorderServed ==
  ASSUME Shape, Serving("recorder", None), Head(pending).event # None
  PROVE  /\ pending # <<>> /\ Head(pending).event = Event("context.recorded", None)
         /\ Head(pending).event \in OwnEvents
  BY HeadEvent, RecordRequests DEF Serving, RequestOK, ByRecorder

LEMMA RecordedShape ==
  ASSUME Shape, Recorded
  PROVE  Shape'
  <1>1. /\ Serving("recorder", None) /\ Head(pending).event # None
        /\ Answered(<<>>) /\ UNCHANGED <<session, run, orphan>>
        /\ (AppendResolves \/ AppendRejects)
    BY DEF Recorded
  <1>2. /\ journal' \in Journals
        /\ faults' \in [count : 0..MaxFaults, kinds : SUBSET FaultKinds]
    BY <1>1, RecorderServed, AppendAnswers
  <1>3. QueueOK(pending', run, session)
    BY <1>1, RecorderServed, ServedRest DEF Answered
  <1>. QED BY <1>1, <1>2, <1>3, OthersShape DEF Shape, TypeOK

\* While the session is not resuming its queue does not care how it stands.
LEMMA SessionQueue ==
  ASSUME NEW q, NEW rn, NEW ss, NEW ss2, QueueOK(q, rn, ss),
         \A i \in 1..Len(q) : q[i].by # "resume"
  PROVE  QueueOK(q, rn, ss2)
  BY DEF QueueOK, RequestOK, ByResume

LEMMA CloseSessionShape ==
  ASSUME Shape, CloseSession
  PROVE  Shape'
  <1>1. /\ session \in {"idle", "recovery_required"} /\ session' = "down"
        /\ UNCHANGED <<journal, pending, run, orphan, faults>>
    BY DEF CloseSession
  <1>2. QueueOK(pending', run, session')
    BY <1>1, NoResume, SessionQueue DEF Shape
  <1>. QED BY <1>1, <1>2, OthersShape DEF Shape, TypeOK, Sessions

LEMMA ResumeRequests ==
  /\ Load("resume", None) \in Requests
  /\ RequestOK(Load("resume", None), run, "resuming")
  /\ Load("resume", None).by = "resume" /\ Load("resume", None).event = None
  /\ \A t \in Turn, v \in Nat :
       LET r == AppendOf("resume", None, v, Event("turn.failed", t)) IN
       /\ r \in Requests /\ r.by = "resume" /\ r.expected = v
       /\ r.event = Event("turn.failed", t)
       /\ RequestOK(r, run, "resuming")
  <1>1. \A t \in Turn : Event("turn.failed", t) \in OwnEvents
    BY EventsAsked
  <1>. QED BY <1>1 DEF Load, AppendOf, Requests, RequestOK, ByTurn, ByOrphan, ByRecorder,
                       ByResume

LEMMA ResumeShape ==
  ASSUME Shape, Resume
  PROVE  Shape'
  <1>1. /\ session = "down" /\ session' = "resuming"
        /\ pending' = Append(pending, Load("resume", None))
        /\ UNCHANGED <<journal, run, orphan, faults>>
    BY DEF Resume, Ask
  <1>2. \A i \in 1..Len(pending) : pending[i].by # "resume"
    BY <1>1, NoResume
  <1>3. QueueOK(pending, run, "resuming")
    BY <1>2, SessionQueue DEF Shape
  <1>4. QueueOK(pending', run, session')
    BY <1>1, <1>2, <1>3, ResumeRequests, QueueAsked
  <1>. QED BY <1>1, <1>4, OthersShape DEF Shape, TypeOK, Sessions

LEMMA ResumeServed ==
  ASSUME Shape, Serving("resume", None)
  PROVE  /\ pending # <<>> /\ session = "resuming" /\ Head(pending) \in Requests
         /\ Head(pending).event # None =>
              /\ \E t \in Turn : Head(pending).event = Event("turn.failed", t)
              /\ Head(pending).event \in OwnEvents
         /\ QueueOK(Tail(pending), run, session)
         /\ \A i \in 1..Len(Tail(pending)) : Tail(pending)[i].by # "resume"
  <1>1. pending # <<>> /\ Head(pending).by = "resume"
    BY DEF Serving
  <1>2. session = "resuming" /\ Head(pending) \in Requests
        /\ (Head(pending).event # None =>
              \E t \in Turn : Head(pending).event = Event("turn.failed", t))
    BY <1>1, HeadEvent DEF RequestOK, ByResume
  <1>. QED BY <1>1, <1>2, EventsAsked, QueueServed DEF Shape

LEMMA ResumeLoadedShape ==
  ASSUME Shape, ResumeLoaded
  PROVE  Shape'
  <1>. DEFINE q == Tail(pending)
  <1>1. Serving("resume", None) /\ UNCHANGED <<run, orphan>>
    BY DEF ResumeLoaded
  <1>2. /\ pending # <<>> /\ session = "resuming" /\ QueueOK(q, run, session)
        /\ \A i \in 1..Len(q) : q[i].by # "resume"
    BY <1>1, ResumeServed
  <1>3. /\ journal' \in Journals
        /\ faults' \in [count : 0..MaxFaults, kinds : SUBSET FaultKinds]
    BY TurnLoads DEF ResumeLoaded
  <1>4. q \o <<>> = q /\ \A r \in Requests : q \o <<r>> = Append(q, r)
    BY <1>2, ServedRest
  <1>5. CASE session' \in {"idle", "down"} /\ Answered(<<>>)
    <2>1. pending' = q
      BY <1>4, <1>5 DEF Answered
    <2>. HIDE DEF q
    <2>2. QueueOK(pending', run, session')
      BY <1>2, <2>1, SessionQueue
    <2>. QED BY <1>1, <1>2, <1>3, <1>5, <2>2, OthersShape DEF Sessions
  <1>6. CASE /\ journal.plan.status = "interrupt" /\ UNCHANGED session
             /\ Answered(<<AppendOf("resume", None, journal.version,
                                    Event("turn.failed", journal.plan.turn))>>)
    <2>1. journal.plan.turn \in Turn /\ journal.version \in Nat
      BY <1>6 DEF Shape, TypeOK, Journals, Plans, Ready, Throws, Interrupt
    <2>. DEFINE r == AppendOf("resume", None, journal.version,
                              Event("turn.failed", journal.plan.turn))
    <2>2. r \in Requests /\ r.by = "resume" /\ RequestOK(r, run, "resuming")
      BY <2>1, ResumeRequests
    <2>3. pending' = Append(q, r)
      BY <1>4, <1>6, <2>2 DEF Answered
    <2>. HIDE DEF q, r
    <2>4. QueueOK(pending', run, session)
      BY <1>2, <2>2, <2>3, QueueAsked
    <2>. QED BY <1>1, <1>3, <1>6, <2>4, OthersShape DEF Shape, TypeOK
  <1>. QED BY <1>5, <1>6 DEF ResumeLoaded

LEMMA ResumedShape ==
  ASSUME Shape, Resumed
  PROVE  Shape'
  <1>. DEFINE q == Tail(pending)
  <1>1. /\ Serving("resume", None) /\ Head(pending).event # None
        /\ Answered(<<>>) /\ UNCHANGED <<run, orphan>>
        /\ session' \in {"idle", "down"} /\ (AppendResolves \/ AppendRejects)
    BY DEF Resumed
  <1>2. /\ pending # <<>> /\ session = "resuming" /\ QueueOK(q, run, session)
        /\ \A i \in 1..Len(q) : q[i].by # "resume"
        /\ Head(pending).event \in OwnEvents
    BY <1>1, ResumeServed
  <1>3. pending' = q
    BY <1>1, <1>2, ServedRest DEF Answered
  <1>4. /\ journal' \in Journals
        /\ faults' \in [count : 0..MaxFaults, kinds : SUBSET FaultKinds]
    BY <1>1, <1>2, AppendAnswers
  <1>. HIDE DEF q
  <1>5. QueueOK(pending', run, session')
    BY <1>2, <1>3, SessionQueue
  <1>. QED BY <1>1, <1>2, <1>4, <1>5, OthersShape DEF Sessions

LEMMA CrashRuns ==
  ASSUME Shape, Crash
  PROVE  /\ run' \in [Turn -> Runs]
         /\ \A t \in Turn :
              /\ run'[t].started = run[t].started
              /\ IF run[t].at \in InFlight THEN run'[t].at = "dead"
                 ELSE run'[t] = run[t]
  <1>1. run' = [t \in Turn |-> IF run[t].at \in InFlight
                                 THEN [run[t] EXCEPT !.at = "dead"] ELSE run[t]]
    BY DEF Crash
  <1>2. ASSUME NEW t \in Turn
        PROVE  /\ [run[t] EXCEPT !.at = "dead"] \in Runs
               /\ [run[t] EXCEPT !.at = "dead"].at = "dead"
               /\ [run[t] EXCEPT !.at = "dead"].started = run[t].started
    BY StageOf, RunsAt DEF Places, Settled
  <1>. QED BY <1>1, <1>2, StageOf

LEMMA CrashShape ==
  ASSUME Shape, Crash
  PROVE  Shape'
  <1>1. session' = "down" /\ pending' = <<>> /\ orphan' = None
    BY DEF Crash
  <1>2. faults' \in [count : 0..MaxFaults, kinds : SUBSET FaultKinds]
    BY FaultTyped DEF Crash, Shape
  <1>3. journal' \in Journals
    <2>1. CASE UNCHANGED journal
      BY <2>1 DEF Shape, TypeOK
    <2>2. CASE /\ pending # <<>> /\ Head(pending).event # None
               /\ journal' = Stored(journal, Head(pending).event)
      <3>1. Head(pending).event \in OwnEvents
        BY <2>2, HeadEvent DEF Requests
      <3>. QED BY <2>2, <3>1, HeadOpens, StoredTyped DEF Shape, TypeOK
    <2>. QED BY <2>1, <2>2 DEF Crash
  <1>4. QueueOK(pending', run', session')
    BY <1>1 DEF QueueOK, OneEach
  <1>5. Stages(run', session')
    <2>1. ASSUME NEW t \in Turn
          PROVE  Stage(run'[t]) /\ run'[t].at \notin InFlight
      <3>1. CASE run[t].at \in InFlight
        BY <3>1, CrashRuns DEF Stage, Unstarted, InFlight, Caught, Settled
      <3>2. CASE run[t].at \notin InFlight
        BY <3>2, CrashRuns, StageOf
      <3>. QED BY <3>1, <3>2
    <2>. QED BY <2>1 DEF Stages
  <1>6. TypeOK'
    BY <1>1, <1>2, <1>3, <1>4, CrashRuns DEF TypeOK, QueueOK, Sessions
  <1>. QED BY <1>1, <1>4, <1>5, <1>6 DEF Shape

LEMMA InitShape ==
  ASSUME Init
  PROVE  Shape
  <1>1. TypeOK
    <2>1. journal \in Journals
      BY DEF Init, EmptyJournal, Journals, Plans
    <2>2. NewRun \in Runs
      BY DEF NewRun, Runs
    <2>3. run \in [Turn -> Runs]
      BY <2>2 DEF Init
    <2>4. faults \in [count : 0..MaxFaults, kinds : SUBSET FaultKinds]
      BY BoundsAssumption DEF Init
    <2>. QED BY <2>1, <2>3, <2>4 DEF Init, TypeOK, Sessions
  <1>2. QueueOK(pending, run, session)
    BY DEF Init, QueueOK, OneEach
  <1>3. Stages(run, session)
    <2>1. \A t \in Turn : run[t] = NewRun
      BY DEF Init
    <2>. QED BY <2>1 DEF NewRun, Stages, Stage, InFlight, Unstarted, Caught
  <1>. QED BY <1>1, <1>2, <1>3 DEF Shape, Init

LEMMA NextShape ==
  ASSUME Shape, Next
  PROVE  Shape'
  <1>1. ASSUME NEW t \in Turn, StartTurn(t) \/ Abort(t) \/ Step(t)
        PROVE  Shape'
    BY <1>1, StartTurnShape, AbortShape, LoadConversationShape, InterruptedShape,
       AppendEntryShape, RunCompletesShape, AppendCompletedShape, FlushContextShape,
       LoadForTerminalShape DEF Step
  <1>2. ASSUME Serve
        PROVE  Shape'
    BY <1>2, LoadedShape, AppendStartShape, StartedShape, EntryAppendedShape,
       CompletedShape, ContextFlushedShape, AppendTerminalShape, TerminalAppendedShape,
       OrphanAnsweredShape, RecordLoadedShape, RecordedShape, ResumeLoadedShape,
       ResumedShape DEF Serve
  <1>. QED BY <1>1, <1>2, OrphanAppendsShape, RecordShape, CloseSessionShape, CrashShape,
              ResumeShape DEF Next

LEMMA StutterShape ==
  ASSUME Shape, UNCHANGED vars
  PROVE  Shape'
  BY DEF Shape, TypeOK, Stages, vars

\* What turns and others await is what they asked for, whatever fails.
THEOREM Shaped == Spec => []Shape
  <1>1. Init => Shape
    BY InitShape
  <1>2. Shape /\ [Next]_vars => Shape'
    BY NextShape, StutterShape
  <1>. QED BY <1>1, <1>2, PTL DEF Spec

\* Every variable keeps its type, whatever fails.
THEOREM TypeCorrect == Spec => []TypeOK
  <1>1. Shape => TypeOK
    BY DEF Shape
  <1>. QED BY <1>1, Shaped, PTL

-----------------------------------------------------------------------------
(* What is stored, and what it does to what is known. *)

LEMMA PlanValues ==
  /\ Ready # Throws
  /\ \A t \in Turn : Interrupt(t) # Ready /\ Interrupt(t) # Throws
  /\ \A t, u \in Turn : Interrupt(t) = Interrupt(u) => t = u
  /\ \A p \in Plans : \A u : p = Interrupt(u) => u \in Turn
  BY NoTurnAssumption DEF Ready, Throws, Interrupt, Plans

LEMMA EventTypes ==
  /\ \A e \in OwnEvents :
       e.own /\ e.type \in Opening \cup Inside \cup Outside \cup Closing
  /\ \A a \in Opening : a \notin Inside /\ a \notin Outside /\ a \notin Closing
  /\ \A a \in Inside : a \notin Opening /\ a \notin Outside /\ a \notin Closing
  /\ \A a \in Outside : a \notin Opening /\ a \notin Inside /\ a \notin Closing
  /\ \A a \in Closing : a \notin Opening /\ a \notin Inside /\ a \notin Outside
  BY DEF OwnEvents, Events, Opening, Inside, Outside, Closing

LEMMA JournalFields ==
  ASSUME NEW J \in Journals
  PROVE  /\ J.version \in Nat /\ J.plan \in Plans /\ J.opened \in SUBSET Turn
         /\ J.entries \in [Turn -> Nat] /\ J.terminal \in [Turn -> Closing \cup {None}]
  BY DEF Journals

LEMMA StoredVersion ==
  ASSUME NEW J, NEW e
  PROVE  Stored(J, e).version = J.version + 1
  BY DEF Stored

LEMMA StoredPlan ==
  ASSUME NEW J, NEW e
  PROVE  /\ Stored(J, e).plan = PlanStep(J.plan, e)
         /\ Stored(J, e).opened = IF e.type \in Opening THEN J.opened \cup {e.turn}
                                  ELSE J.opened
  BY DEF Stored

LEMMA StoredTerminal ==
  ASSUME NEW J, NEW e, NEW t \in Turn
  PROVE  Stored(J, e).terminal[t] =
           IF e.type \in Closing /\ e.turn = t /\ J.terminal[t] = None
             THEN e.type ELSE J.terminal[t]
  BY DEF Stored

LEMMA StoredEntries ==
  ASSUME NEW J, NEW e
  PROVE  Stored(J, e).entries =
           [t \in Turn |-> J.entries[t] + IF e.type \in Inside /\ e.turn = t THEN 1 ELSE 0]
  BY DEF Stored

\* How a turn was closed stays what was stored first.
LEMMA TerminalsStay ==
  ASSUME NEW J, NEW e, NEW t \in Turn, J.terminal[t] # None
  PROVE  Stored(J, e).terminal[t] = J.terminal[t]
  BY StoredTerminal

\* What a legal event makes of the open turn.
LEMMA StoredDoes ==
  ASSUME NEW J \in Journals, JournalOK(J), NEW e \in OwnEvents, Legal(J.plan, e),
         e.type \in Opening => e.turn \in Turn \ J.opened
  PROVE  LET K == Stored(J, e) IN
         /\ e.type \in Opening =>
              /\ K.plan = Interrupt(e.turn) /\ K.opened = J.opened \cup {e.turn}
              /\ \A t \in Turn : K.terminal[t] = J.terminal[t]
         /\ e.type \in Inside =>
              /\ e.turn \in Turn /\ J.plan = Interrupt(e.turn)
              /\ K.plan = J.plan /\ K.opened = J.opened
              /\ \A t \in Turn : K.terminal[t] = J.terminal[t]
         /\ e.type \in Outside =>
              /\ J.plan = Ready /\ K.plan = Ready /\ K.opened = J.opened
              /\ \A t \in Turn : K.terminal[t] = J.terminal[t]
         /\ e.type \in Closing =>
              /\ e.turn \in Turn /\ J.plan = Interrupt(e.turn) /\ J.terminal[e.turn] = None
              /\ K.plan = Ready /\ K.opened = J.opened /\ K.terminal[e.turn] = e.type
              /\ \A t \in Turn \ {e.turn} : K.terminal[t] = J.terminal[t]
  <1>. DEFINE K == Stored(J, e)
  <1>1. /\ K.plan = PlanStep(J.plan, e)
        /\ K.opened = IF e.type \in Opening THEN J.opened \cup {e.turn} ELSE J.opened
        /\ \A t \in Turn :
             K.terminal[t] = IF e.type \in Closing /\ e.turn = t /\ J.terminal[t] = None
                               THEN e.type ELSE J.terminal[t]
    BY StoredPlan, StoredTerminal
  <1>. HIDE DEF K
  <1>2. J.plan \in Plans
    BY DEF Journals
  <1>3. ASSUME e.type \in Opening
        PROVE  /\ K.plan = Interrupt(e.turn) /\ K.opened = J.opened \cup {e.turn}
               /\ \A t \in Turn : K.terminal[t] = J.terminal[t]
    BY <1>1, <1>3, EventTypes DEF PlanStep
  <1>4. ASSUME e.type \in Inside
        PROVE  /\ e.turn \in Turn /\ J.plan = Interrupt(e.turn)
               /\ K.plan = J.plan /\ K.opened = J.opened
               /\ \A t \in Turn : K.terminal[t] = J.terminal[t]
    BY <1>1, <1>2, <1>4, EventTypes, PlanValues DEF PlanStep, Legal, Sessionwide
  <1>5. ASSUME e.type \in Outside
        PROVE  /\ J.plan = Ready /\ K.plan = Ready /\ K.opened = J.opened
               /\ \A t \in Turn : K.terminal[t] = J.terminal[t]
    BY <1>1, <1>5, EventTypes DEF PlanStep, Legal, Sessionwide
  <1>6. ASSUME e.type \in Closing
        PROVE  /\ e.turn \in Turn /\ J.plan = Interrupt(e.turn) /\ J.terminal[e.turn] = None
               /\ K.plan = Ready /\ K.opened = J.opened /\ K.terminal[e.turn] = e.type
               /\ \A t \in Turn \ {e.turn} : K.terminal[t] = J.terminal[t]
    <2>1. e.turn \in Turn /\ J.plan = Interrupt(e.turn)
      BY <1>2, <1>6, EventTypes, PlanValues DEF Legal, Sessionwide
    <2>2. J.terminal[e.turn] = None
      BY <2>1 DEF JournalOK
    <2>3. K.plan = Ready /\ K.opened = J.opened
      BY <1>1, <1>6, EventTypes DEF PlanStep
    <2>4. K.terminal[e.turn] = e.type
      BY <1>1, <1>6, <2>1, <2>2
    <2>5. \A t \in Turn \ {e.turn} : K.terminal[t] = J.terminal[t]
      BY <1>1
    <2>. QED BY <2>1, <2>2, <2>3, <2>4, <2>5
  <1>. QED BY <1>3, <1>4, <1>5, <1>6 DEF K

LEMMA StoredOK ==
  ASSUME NEW J \in Journals, JournalOK(J), NEW e \in OwnEvents, Legal(J.plan, e),
         e.type \in Opening => e.turn \in Turn \ J.opened
  PROVE  JournalOK(Stored(J, e))
  <1>. DEFINE K == Stored(J, e)
  <1>1. CASE e.type \in Opening
    <2>1. /\ K.plan = Interrupt(e.turn) /\ K.opened = J.opened \cup {e.turn}
          /\ \A t \in Turn : K.terminal[t] = J.terminal[t]
      BY <1>1, StoredDoes
    <2>. HIDE DEF K
    <2>2. J.plan = Ready
      BY <1>1, EventTypes DEF Legal
    <2>. QED BY <1>1, <2>1, <2>2, PlanValues DEF JournalOK, K
  <1>2. CASE e.type \in Inside \cup Outside
    <2>1. /\ K.plan = J.plan /\ K.opened = J.opened
          /\ \A t \in Turn : K.terminal[t] = J.terminal[t]
      BY <1>2, StoredDoes
    <2>. HIDE DEF K
    <2>. QED BY <2>1 DEF JournalOK, K
  <1>3. CASE e.type \in Closing
    <2>1. /\ e.turn \in Turn /\ J.plan = Interrupt(e.turn)
          /\ K.plan = Ready /\ K.opened = J.opened /\ K.terminal[e.turn] = e.type
          /\ \A t \in Turn \ {e.turn} : K.terminal[t] = J.terminal[t]
      BY <1>3, StoredDoes
    <2>2. e.type # None
      BY <1>3, NothingAssumption
    <2>. HIDE DEF K
    <2>3. e.turn \in J.opened
      BY <2>1 DEF JournalOK
    <2>4. ASSUME NEW t \in Turn
          PROVE  /\ ~(t \in K.opened /\ K.terminal[t] = None)
                 /\ t \notin K.opened => K.terminal[t] = None
      BY <2>1, <2>2, <2>3, <2>4, PlanValues DEF JournalOK
    <2>. QED BY <2>1, <2>4, PlanValues DEF JournalOK, K
  <1>. QED BY <1>1, <1>2, <1>3, EventTypes

\* Whatever is stored makes every append that waits stale.
LEMMA StoredFresh ==
  ASSUME NEW J \in Journals, NEW e, NEW q \in Seq(Requests), FreshQueue(q, J)
  PROVE  FreshQueue(q, Stored(J, e))
  <1>1. Stored(J, e).version = J.version + 1 /\ J.version \in Nat
    BY StoredVersion, JournalFields
  <1>2. ASSUME NEW i \in 1..Len(q)
        PROVE  q[i].expected \in Nat
    <2>1. q[i] \in Requests
      OBVIOUS
    <2>. QED BY <2>1 DEF Requests
  <1>. QED BY <1>1, <1>2 DEF FreshQueue, Fresh

LEMMA FreshTail ==
  ASSUME NEW J, NEW q \in Seq(Requests), q # <<>>, FreshQueue(q, J)
  PROVE  FreshQueue(Tail(q), J) /\ Fresh(Head(q), J)
  <1>1. /\ Head(q) = q[1] /\ Len(q) \in Nat /\ Len(q) >= 1 /\ Len(Tail(q)) = Len(q) - 1
        /\ \A i \in 1..(Len(q) - 1) : Tail(q)[i] = q[i + 1]
    BY TailFacts
  <1>2. 1 \in 1..Len(q) /\ \A i \in 1..Len(Tail(q)) : i + 1 \in 1..Len(q) /\ Tail(q)[i] = q[i + 1]
    BY <1>1
  <1>. QED BY <1>1, <1>2 DEF FreshQueue

LEMMA FreshAppend ==
  ASSUME NEW J, NEW q \in Seq(Requests), NEW r \in Requests, FreshQueue(q, J), Fresh(r, J)
  PROVE  FreshQueue(Append(q, r), J)
  <1>. DEFINE p == Append(q, r)
  <1>1. /\ Len(p) = Len(q) + 1 /\ Len(q) \in Nat
        /\ \A i \in 1..Len(q) : p[i] = q[i]
        /\ p[Len(q) + 1] = r
    BY AppendFacts
  <1>. HIDE DEF p
  <1>2. \A i \in 1..Len(p) : i \in 1..Len(q) \/ i = Len(q) + 1
    BY <1>1
  <1>. QED BY <1>1, <1>2 DEF FreshQueue, p

\* An append that is reported as failed, and may be stored all the same.
Rejected(e) ==
  \/ journal' = journal
  \/ /\ journal' = Stored(journal, e) /\ Legal(journal.plan, e)
     /\ e.type \notin Opening /\ "lostReply" \in faults'.kinds

LEMMA KindsGrow ==
  ASSUME Shape
  PROVE  /\ UNCHANGED faults => faults.kinds \subseteq faults'.kinds
         /\ \A k : Fault(k) => /\ faults.kinds \subseteq faults'.kinds
                               /\ k \in faults'.kinds /\ k \in Faults
  BY DEF Shape, TypeOK, Fault

LEMMA AcceptedLegal ==
  ASSUME JournalInv, pending # <<>>, Head(pending).event \in OwnEvents,
         Accepted(Head(pending))
  PROVE  Legal(journal.plan, Head(pending).event)
         /\ Head(pending).expected = journal.version
  <1>1. pending \in Seq(Requests) /\ FreshQueue(pending, journal)
    BY DEF JournalInv, Shape, TypeOK
  <1>. QED BY <1>1, FreshTail, NothingAssumption DEF Fresh, Accepted

LEMMA AppendStored ==
  ASSUME JournalInv, pending # <<>>, Head(pending).event \in OwnEvents, AppendResolves
  PROVE  /\ journal' = Stored(journal, Head(pending).event)
         /\ Legal(journal.plan, Head(pending).event)
         /\ Head(pending).expected = journal.version /\ UNCHANGED faults
  BY AcceptedLegal DEF AppendResolves

LEMMA AppendFailed ==
  ASSUME JournalInv, Faults \subseteq Bearable, pending # <<>>,
         Head(pending).event \in OwnEvents, AppendRejects
  PROVE  Rejected(Head(pending).event) /\ faults.kinds \subseteq faults'.kinds
  <1>. DEFINE e == Head(pending).event
  <1>1. Shape
    BY DEF JournalInv
  <1>2. faults.kinds \subseteq faults'.kinds
    BY <1>1, KindsGrow DEF AppendRejects
  <1>3. CASE journal' # journal
    <2>1. /\ Accepted(Head(pending)) /\ journal' = Stored(journal, e)
          /\ Fault(IF e.type \in Opening THEN "lostStart" ELSE "lostReply")
      BY <1>3 DEF AppendRejects
    <2>2. "lostStart" \notin Faults
      BY DEF Bearable
    <2>3. e.type \notin Opening /\ "lostReply" \in faults'.kinds
      BY <1>1, <2>1, <2>2, KindsGrow
    <2>. QED BY <1>2, <2>1, <2>3, AcceptedLegal DEF Rejected
  <1>4. CASE journal' = journal
    BY <1>2, <1>4 DEF Rejected
  <1>. QED BY <1>3, <1>4

-----------------------------------------------------------------------------
(* A turn's step keeps JournalInv. *)

\* What is stored for turn t leaves what is stored for others.
StoresFor(t) ==
  /\ JournalOK(journal')
  /\ journal'.opened \subseteq journal.opened \cup {t}
  /\ \A u \in Turn : journal.terminal[u] # None =>
       journal'.terminal[u] = journal.terminal[u]

LEMMA JournalNow ==
  ASSUME JournalInv
  PROVE  /\ Shape /\ journal \in Journals /\ JournalOK(journal) /\ pending \in Seq(Requests)
         /\ FreshQueue(pending, journal)
         /\ \A t \in Turn : Known(t, run[t], journal, faults.kinds)
         /\ faults.kinds \in SUBSET FaultKinds
  BY DEF JournalInv, Shape, TypeOK

LEMMA NothingStored ==
  ASSUME JournalInv, UNCHANGED journal, NEW t
  PROVE  StoresFor(t) /\ \A q : FreshQueue(q, journal) => FreshQueue(q, journal')
  BY JournalNow DEF StoresFor

LEMMA EventStored ==
  ASSUME JournalInv, NEW e \in OwnEvents, journal' = Stored(journal, e),
         Legal(journal.plan, e), NEW t,
         e.type \in Opening => e.turn = t /\ t \in Turn \ journal.opened
  PROVE  /\ StoresFor(t)
         /\ \A q \in Seq(Requests) : FreshQueue(q, journal) => FreshQueue(q, journal')
  <1>1. JournalOK(journal')
    BY JournalNow, StoredOK
  <1>2. journal'.opened \subseteq journal.opened \cup {t}
    BY StoredPlan
  <1>3. \A u \in Turn : journal.terminal[u] # None =>
          journal'.terminal[u] = journal.terminal[u]
    BY TerminalsStay
  <1>4. \A q \in Seq(Requests) : FreshQueue(q, journal) => FreshQueue(q, journal')
    BY JournalNow, StoredFresh
  <1>. QED BY <1>1, <1>2, <1>3, <1>4 DEF StoresFor

\* No record is waiting to be loaded.
NoLoads(q) == \A i \in 1..Len(q) : ~(q[i].by = "recorder" /\ q[i].event = None)

LEMMA NoLoadsFirst ==
  ASSUME NEW q, NEW rn, NEW J, NoLoads(q)
  PROVE  RecordFirst(q, rn, J)
  BY DEF NoLoads, RecordFirst

LEMMA NoLoadsRunning ==
  ASSUME JournalInv, NEW t \in Turn, run[t].at \in InFlight \ {"admitted", "loading"}
  PROVE  NoLoads(pending)
  BY DEF JournalInv, RecordFirst, NoLoads

LEMMA NoLoadsServing ==
  ASSUME JournalInv, NEW t, Serving("turn", t)
  PROVE  NoLoads(pending)
  <1>1. pending # <<>> /\ Head(pending).by = "turn"
    BY DEF Serving
  <1>2. pending \in Seq(Requests)
    BY JournalNow
  <1>3. Head(pending) = pending[1] /\ Len(pending) \in Nat
    BY <1>1, <1>2, TailFacts
  <1>4. ASSUME NEW i \in 1..Len(pending), pending[i].by = "recorder", pending[i].event = None
        PROVE  FALSE
    <2>1. i # 1
      BY <1>1, <1>3, <1>4
    <2>2. 1 \in 1..(i - 1)
      BY <1>3, <2>1
    <2>. QED BY <1>1, <1>3, <1>4, <2>2 DEF JournalInv, RecordFirst
  <1>. QED BY <1>4 DEF NoLoads

LEMMA NoLoadsTail ==
  ASSUME NEW q \in Seq(Requests), q # <<>>, NoLoads(q)
  PROVE  NoLoads(Tail(q))
  <1>1. \A i \in 1..Len(Tail(q)) : i + 1 \in 1..Len(q) /\ Tail(q)[i] = q[i + 1]
    BY TailFacts
  <1>. QED BY <1>1 DEF NoLoads

LEMMA NoLoadsAppend ==
  ASSUME NEW q \in Seq(Requests), NEW r \in Requests, NoLoads(q),
         ~(r.by = "recorder" /\ r.event = None)
  PROVE  NoLoads(Append(q, r))
  <1>. DEFINE p == Append(q, r)
  <1>1. /\ Len(p) = Len(q) + 1 /\ Len(q) \in Nat
        /\ \A i \in 1..Len(q) : p[i] = q[i]
        /\ p[Len(q) + 1] = r
    BY AppendFacts
  <1>. HIDE DEF p
  <1>2. \A i \in 1..Len(p) : i \in 1..Len(q) \/ i = Len(q) + 1
    BY <1>1
  <1>. QED BY <1>1, <1>2 DEF NoLoads, p

LEMMA TurnKeepsJournal ==
  ASSUME JournalInv, Shape', NEW t \in Turn, TurnMoves(t), StoresFor(t),
         FreshQueue(pending', journal'), RecordFirst(pending', run', journal'),
         faults.kinds \subseteq faults'.kinds,
         Known(t, run'[t], journal', faults'.kinds),
         session' = "idle" => journal'.plan = Ready,
         "lostReply" \notin faults'.kinds /\ run'[t].at \in Verdicts /\ run'[t].started =>
           journal'.terminal[t] = TerminalOf[run'[t].at]
  PROVE  JournalInv'
  <1>1. ASSUME NEW u \in Turn
        PROVE  Known(u, run'[u], journal', faults'.kinds)
    <2>1. CASE u = t
      BY <2>1
    <2>2. CASE u # t
      <3>1. run'[u] = run[u] /\ run[u].at \notin InFlight
        BY <2>2, JournalNow DEF TurnMoves, Shape, Stages
      <3>2. run[u].at = "new" => u \notin journal'.opened
        BY <2>2, JournalNow DEF StoresFor, Known
      <3>. QED BY <3>1, <3>2, Places3 DEF Known, InFlight
    <2>. QED BY <2>1, <2>2
  <1>2. NoRecord(pending', session')
    BY MovedStages, JournalNow DEF TurnMoves, NoRecord
  <1>3. IdleIsClosed'
    BY DEF IdleIsClosed
  <1>4. AnswerIsStored'
    <2>1. ASSUME "lostReply" \notin faults'.kinds, NEW u \in Turn,
                 run'[u].at \in Verdicts, run'[u].started
          PROVE  journal'.terminal[u] = TerminalOf[run'[u].at]
      <3>1. CASE u = t
        BY <2>1, <3>1
      <3>2. CASE u # t
        <4>1. run'[u] = run[u] /\ "lostReply" \notin faults.kinds
          BY <2>1, <3>2 DEF TurnMoves
        <4>2. journal.terminal[u] = TerminalOf[run[u].at]
          BY <2>1, <4>1 DEF JournalInv, AnswerIsStored
        <4>3. TerminalOf[run[u].at] # None
          BY <2>1, <4>1, NothingAssumption DEF Verdicts, TerminalOf, Closing
        <4>. QED BY <4>1, <4>2, <4>3 DEF StoresFor
      <3>. QED BY <3>1, <3>2
    <2>. QED BY <2>1 DEF AnswerIsStored
  <1>. QED BY <1>1, <1>2, <1>3, <1>4 DEF JournalInv, StoresFor

\* What a turn appends is stale unless the turn is open.
LEMMA TurnFresh ==
  ASSUME JournalInv, NEW t \in Turn, run[t].at \in InFlight \ Unstarted,
         NEW e, e.own, e.turn = t, e.type \in Inside \cup Closing
  PROVE  /\ Fresh(AppendOf("turn", t, run[t].version, e), journal)
         /\ Fresh(AppendOf("orphan", t, run[t].version, e), journal)
  <1>1. /\ run[t].version <= journal.version
        /\ run[t].version = journal.version => journal.plan = Interrupt(t)
    BY JournalNow, StageOf DEF Known
  <1>2. journal.plan = Interrupt(t) => Legal(journal.plan, e)
    BY DEF Legal
  <1>. QED BY <1>1, <1>2 DEF Fresh, AppendOf

LEMMA KnownGoes ==
  ASSUME NEW t, NEW x, NEW y, NEW J, NEW k, NEW k2, Known(t, x, J, k),
         x.at \in InFlight \ Unstarted, y.at \in InFlight \ Unstarted,
         y.version = x.version, k \subseteq k2
  PROVE  Known(t, y, J, k2)
  BY DEF Known, InFlight, Unstarted

LEMMA KnownSettled ==
  ASSUME NEW t, NEW x, NEW J, NEW k, x.at \in Settled
  PROVE  Known(t, x, J, k)
  BY DEF Known, InFlight, Unstarted, Settled, Verdicts

\* A turn goes on although what it appended was stored and reported as failed.
LEMMA KnownLost ==
  ASSUME JournalInv, NEW t \in Turn, run[t].at \in InFlight \ Unstarted,
         NEW e \in OwnEvents, e.turn = t, e.type \in Inside \cup Closing,
         Legal(journal.plan, e), journal' = Stored(journal, e), NEW k, "lostReply" \in k,
         NEW y, y.at \in InFlight \ Unstarted, y.version = run[t].version
  PROVE  Known(t, y, journal', k)
  <1>1. /\ journal.version \in Nat /\ run[t].version \in Nat
        /\ run[t].version <= journal.version
        /\ journal'.version = journal.version + 1
    BY JournalNow, StageOf, StoredVersion DEF Known
  <1>2. CASE e.type \in Inside
    <2>1. journal'.plan = Interrupt(t)
      BY <1>2, EventTypes, JournalNow, StoredDoes
    <2>. QED BY <1>1, <2>1 DEF Known, InFlight, Unstarted
  <1>3. CASE e.type \in Closing
    <2>1. journal'.plan = Ready /\ journal'.terminal[t] = e.type
      BY <1>3, EventTypes, JournalNow, StoredDoes
    <2>2. e.type # None
      BY <1>3, NothingAssumption
    <2>. QED BY <1>1, <2>1, <2>2 DEF Known, InFlight, Unstarted
  <1>. QED BY <1>2, <1>3

\* A turn whose append is stored knows the new version.
LEMMA KnownStored ==
  ASSUME JournalInv, NEW t \in Turn, NEW e \in OwnEvents, e.turn = t,
         e.type \in Opening \cup Inside, e.type \in Opening => t \notin journal.opened,
         Legal(journal.plan, e), journal' = Stored(journal, e), NEW k,
         NEW y, y.at \in InFlight \ Unstarted, y.version = journal.version + 1
  PROVE  Known(t, y, journal', k)
  <1>1. journal'.plan = Interrupt(t) /\ journal'.version = journal.version + 1
    BY EventTypes, JournalNow, StoredDoes, StoredVersion
  <1>2. journal.version \in Nat
    BY JournalNow, StageOf
  <1>. QED BY <1>1, <1>2 DEF Known, InFlight, Unstarted

\* What a turn's failed step leaves.
LEMMA CatchJournal ==
  ASSUME JournalInv, Shape', NEW t \in Turn, run[t].at \in InFlight \ {"checking", "closing"},
         NEW verdict \in Verdicts, Catch(t, verdict), StoresFor(t),
         FreshQueue(pending', journal'), RecordFirst(pending', run', journal'),
         faults.kinds \subseteq faults'.kinds,
         \/ journal' = journal
         \/ \E e \in OwnEvents :
              /\ e.turn = t /\ e.type \in Inside \cup Closing /\ Legal(journal.plan, e)
              /\ journal' = Stored(journal, e) /\ "lostReply" \in faults'.kinds
  PROVE  JournalInv'
  <1>1. Shape /\ Stage(run[t])
    BY JournalNow, StageOf
  <1>2. TurnMoves(t)
    BY <1>1, CatchDoes
  <1>3. CASE run[t].started
    <2>1. Sets(t, "ending", run[t].version, TRUE, verdict, 0) /\ session' = "running"
      BY <1>1, <1>2, <1>3, CatchDoes, MovedStages
    <2>2. run'[t].at = "ending" /\ run'[t].version = run[t].version
      BY <2>1 DEF Sets
    <2>3. run[t].at \in InFlight \ Unstarted
      BY <1>1, <1>3 DEF Stage
    <2>4. "ending" \in InFlight \ Unstarted /\ "ending" \notin Verdicts
      BY DEF InFlight, Unstarted, Verdicts
    <2>5. Known(t, run'[t], journal', faults'.kinds)
      <3>1. CASE journal' = journal
        BY <2>2, <2>3, <2>4, <3>1, JournalNow, KnownGoes
      <3>2. CASE journal' # journal
        BY <2>2, <2>3, <2>4, <3>2, KnownLost
      <3>. QED BY <3>1, <3>2
    <2>. QED BY <1>2, <2>1, <2>2, <2>4, <2>5, TurnKeepsJournal
  <1>4. CASE ~run[t].started
    <2>1. Sets(t, verdict, run[t].version, FALSE, run[t].verdict, 0) /\ session' = "idle"
      BY <1>1, <1>4, CatchDoes
    <2>2. run[t].at \in Unstarted
      BY <1>1, <1>4 DEF Stage
    <2>3. journal.plan = Ready
      BY <2>2, JournalNow DEF Known
    <2>4. journal' = journal
      BY <2>3, EventTypes, PlanValues DEF Legal, Sessionwide
    <2>5. Known(t, run'[t], journal', faults'.kinds) /\ ~run'[t].started
      BY <2>1, Places3, KnownSettled DEF Sets
    <2>. QED BY <1>2, <2>1, <2>3, <2>4, <2>5, TurnKeepsJournal
  <1>. QED BY <1>3, <1>4

\* A step to another stage that stores nothing.
LEMMA GoesJournal ==
  ASSUME JournalInv, Shape', NEW t \in Turn, TurnMoves(t), UNCHANGED journal,
         FreshQueue(pending', journal), RecordFirst(pending', run', journal),
         faults.kinds \subseteq faults'.kinds,
         run[t].at \in InFlight \ Unstarted, run'[t].at \in InFlight \ Unstarted,
         run'[t].version = run[t].version
  PROVE  JournalInv'
  <1>1. Known(t, run'[t], journal', faults'.kinds)
    BY JournalNow, KnownGoes
  <1>2. session' # "idle" /\ run'[t].at \notin Verdicts
    BY Places3, JournalNow, MovedStages DEF TurnMoves
  <1>. QED BY <1>1, <1>2, NothingStored, TurnKeepsJournal

LEMMA StartTurnJournal ==
  ASSUME JournalInv, NEW t \in Turn, StartTurn(t)
  PROVE  JournalInv'
  <1>1. run[t].at = "new" /\ session = "idle" /\ session' = "running" /\ Goes(t, "admitted")
        /\ UNCHANGED <<journal, pending, orphan, faults>>
    BY DEF StartTurn
  <1>2. Shape /\ Shape'
    BY JournalNow, StartTurnShape
  <1>3. Sets(t, "admitted", run[t].version, run[t].started, run[t].verdict, run[t].attempt)
    BY <1>1, <1>2, StageOf, GoesSets DEF Places, InFlight
  <1>4. journal.plan = Ready /\ t \notin journal.opened
    BY <1>1, JournalNow DEF JournalInv, IdleIsClosed, Known
  <1>5. \A u \in Turn : run[u].at \notin InFlight
    BY <1>1, <1>2 DEF Shape, Stages
  <1>6. ASSUME NEW u \in Turn
        PROVE  Known(u, run'[u], journal', faults'.kinds)
    <2>1. CASE u = t
      BY <1>1, <1>3, <1>4, <2>1 DEF Sets, Known, InFlight, Unstarted
    <2>2. CASE u # t
      BY <1>1, <1>3, <2>2, JournalNow DEF Sets
    <2>. QED BY <2>1, <2>2
  <1>7. RecordFirst(pending', run', journal')
    <2>1. \A u \in Turn : run'[u].at \in InFlight => run'[u].at = "admitted"
      BY <1>3, <1>5 DEF Sets
    <2>. QED BY <1>1, <2>1 DEF JournalInv, RecordFirst
  <1>8. AnswerIsStored'
    <2>1. \A u \in Turn : run'[u].at \in Verdicts => run'[u] = run[u]
      BY <1>3 DEF Sets, Verdicts
    <2>. QED BY <1>1, <2>1 DEF JournalInv, AnswerIsStored
  <1>9. NoRecord(pending', session') /\ IdleIsClosed'
    BY <1>1 DEF NoRecord, IdleIsClosed
  <1>. QED BY <1>1, <1>2, <1>6, <1>7, <1>8, <1>9, JournalNow DEF JournalInv

LEMMA AbortJournal ==
  ASSUME JournalInv, NEW t \in Turn, Abort(t)
  PROVE  JournalInv'
  <1>1. run[t].at \in InFlight /\ run' = [run EXCEPT ![t].aborted = TRUE]
        /\ UNCHANGED <<journal, pending, session, orphan, faults>>
    BY DEF Abort
  <1>2. Shape /\ Shape'
    BY JournalNow, AbortShape
  <1>3. Sets(t, run[t].at, run[t].version, run[t].started, run[t].verdict, run[t].attempt)
    BY <1>1, <1>2, StageOf, AbortedSets
  <1>4. \A u \in Turn : /\ run'[u].at = run[u].at /\ run'[u].version = run[u].version
                        /\ run'[u].started = run[u].started
    BY <1>3 DEF Sets
  <1>5. \A u \in Turn : Known(u, run'[u], journal', faults'.kinds)
    BY <1>1, <1>4, JournalNow DEF Known
  <1>6. RecordFirst(pending', run', journal')
    BY <1>1, <1>4 DEF JournalInv, RecordFirst
  <1>7. AnswerIsStored'
    BY <1>1, <1>4 DEF JournalInv, AnswerIsStored
  <1>8. NoRecord(pending', session') /\ IdleIsClosed'
    BY <1>1 DEF JournalInv, NoRecord, IdleIsClosed
  <1>. QED BY <1>1, <1>2, <1>5, <1>6, <1>7, <1>8, JournalNow DEF JournalInv

\* An operation that is asked for while no record waits to be loaded.
LEMMA AsksFirst ==
  ASSUME JournalInv, NEW t \in Turn, run[t].at \in InFlight \ {"admitted", "loading"},
         NEW rn, NEW J
  PROVE  /\ UNCHANGED pending => RecordFirst(pending', rn, J)
         /\ \A r \in Requests : r.by = "turn" /\ Ask(r) => RecordFirst(pending', rn, J)
  <1>1. NoLoads(pending) /\ pending \in Seq(Requests)
    BY JournalNow, NoLoadsRunning
  <1>2. ASSUME NEW r \in Requests, r.by = "turn", Ask(r)
        PROVE  RecordFirst(pending', rn, J)
    <2>1. NoLoads(Append(pending, r))
      BY <1>1, <1>2, NoLoadsAppend
    <2>. QED BY <1>2, <2>1, NoLoadsFirst DEF Ask
  <1>. QED BY <1>1, <1>2, NoLoadsFirst

LEMMA AsksJournal ==
  ASSUME JournalInv, Shape', NEW t \in Turn, NEW a \in InFlight \ Unstarted, Goes(t, a),
         run[t].at \in InFlight \ Unstarted,
         a \in Caught => run[t].at \in Caught,
         run[t].attempt = 1 => a \in {"checking", "closing"},
         NEW r \in Requests, r.by = "turn", Ask(r), Fresh(r, journal),
         UNCHANGED <<journal, session, orphan, faults>>
  PROVE  JournalInv'
  <1>1. Shape /\ pending \in Seq(Requests) /\ FreshQueue(pending, journal)
    BY JournalNow
  <1>2. TurnMoves(t)
        /\ Sets(t, a, run[t].version, run[t].started, run[t].verdict, run[t].attempt)
    BY <1>1, GoesDoes
  <1>3. run'[t].at = a /\ run'[t].version = run[t].version
    BY <1>2 DEF Sets
  <1>4. FreshQueue(pending', journal)
    BY <1>1, FreshAppend DEF Ask
  <1>5. RecordFirst(pending', run', journal)
    BY AsksFirst DEF Unstarted
  <1>. QED BY <1>2, <1>3, <1>4, <1>5, GoesJournal

LEMMA LoadFresh ==
  ASSUME NEW by, NEW t, NEW J
  PROVE  Fresh(Load(by, t), J)
  BY DEF Fresh, Load

LEMMA EntryType ==
  ASSUME NEW t
  PROVE  /\ Entry(t).own /\ \A type : Event(type, t).own
         /\ Entry(t).type \in Inside /\ Entry(t).turn = t
         /\ Event("turn.started", t).type \in Opening /\ Event("turn.started", t).turn = t
         /\ Event("context.appended", t).type \in Inside
         /\ Event("context.appended", t).turn = t
         /\ Event("turn.completed", t).type \in Closing /\ Event("turn.completed", t).turn = t
         /\ Event("turn.completed", t).type = TerminalOf["completed"]
         /\ Event("turn.failed", t).type \in Closing /\ Event("turn.failed", t).turn = t
         /\ \A v \in Verdicts : /\ Event(TerminalOf[v], t).type \in Closing
                                /\ Event(TerminalOf[v], t).type = TerminalOf[v]
                                /\ Event(TerminalOf[v], t).turn = t
  BY DEF Entry, Event, Inside, Opening, Closing, TerminalOf, Verdicts

LEMMA LoadConversationJournal ==
  ASSUME JournalInv, NEW t \in Turn, LoadConversation(t)
  PROVE  JournalInv'
  <1>. DEFINE r == Load("turn", t)
  <1>1. run[t].at = "admitted" /\ Goes(t, "loading") /\ pending' = Append(pending, r)
        /\ UNCHANGED <<journal, session, orphan, faults>>
    BY DEF LoadConversation, Ask
  <1>2. Shape /\ Shape' /\ pending \in Seq(Requests) /\ FreshQueue(pending, journal)
    BY JournalNow, LoadConversationShape
  <1>3. TurnMoves(t) /\ run'[t].at = "loading"
    <2>1. run[t].attempt # 1
      BY <1>1, <1>2, StageOf DEF Stage, Settled, Verdicts
    <2>. QED BY <1>1, <1>2, <2>1, GoesDoes DEF InFlight, Unstarted, Caught, Sets
  <1>4. r \in Requests /\ r.by = "turn" /\ Fresh(r, journal)
    BY RequestsAsked, LoadFresh
  <1>. HIDE DEF r
  <1>5. FreshQueue(pending', journal')
    BY <1>1, <1>2, <1>4, FreshAppend
  <1>6. Known(t, run'[t], journal', faults'.kinds)
    BY <1>1, <1>3, JournalNow DEF Known, InFlight, Unstarted
  <1>7. RecordFirst(pending', run', journal')
    <2>1. \A u \in Turn : run'[u].at \in InFlight => u = t
      <3>1. run'[t].at \in InFlight
        BY <1>3 DEF InFlight
      <3>. QED BY <1>2, <3>1 DEF Shape, Stages
    <2>2. /\ Len(pending') = Len(pending) + 1 /\ Len(pending) \in Nat
          /\ \A i \in 1..Len(pending) : pending'[i] = pending[i]
          /\ pending'[Len(pending) + 1] = r
      BY <1>1, <1>2, <1>4, AppendFacts
    <2>3. ASSUME NEW i \in 1..Len(pending'), pending'[i].by = "recorder", pending'[i].event = None
          PROVE  /\ journal'.plan = Ready
                 /\ \A j \in 1..(i - 1) : pending'[j].by # "turn"
      <3>1. i \in 1..Len(pending) /\ pending'[i] = pending[i]
        BY <1>4, <2>2, <2>3
      <3>2. \A j \in 1..(i - 1) : j \in 1..Len(pending) /\ pending'[j] = pending[j]
        BY <2>2, <3>1
      <3>. QED BY <1>1, <2>3, <3>1, <3>2 DEF JournalInv, RecordFirst
    <2>. QED BY <1>3, <2>1, <2>3 DEF RecordFirst
  <1>8. session' # "idle" /\ run'[t].at \notin Verdicts
    BY <1>1, <1>2, <1>3, MovedStages DEF Verdicts
  <1>. QED BY <1>1, <1>2, <1>3, <1>5, <1>6, <1>7, <1>8, NothingStored, TurnKeepsJournal

LEMMA AppendEntryJournal ==
  ASSUME JournalInv, NEW t \in Turn, AppendEntry(t)
  PROVE  JournalInv'
  <1>. DEFINE r == AppendOf("turn", t, run[t].version, Entry(t))
  <1>0. Shape /\ Shape' /\ run[t].attempt \in 0..1 /\ Stage(run[t])
    BY JournalNow, AppendEntryShape, StageOf DEF Runs
  <1>1. r \in Requests /\ r.by = "turn"
    BY <1>0, StageOf, RequestsAsked, EventsAsked
  <1>2. run[t].at \in {"running", "finalizing"} /\ Ask(r)
        /\ UNCHANGED <<journal, session, orphan, faults>>
    BY DEF AppendEntry
  <1>3. run[t].at \in InFlight \ Unstarted /\ run[t].attempt # 1
    BY <1>0, <1>2 DEF Stage, InFlight, Unstarted, Settled, Verdicts
  <1>4. Fresh(r, journal)
    BY <1>3, EntryType, TurnFresh
  <1>5. \E a \in {"writing", "flushing"} : Goes(t, a)
    BY DEF AppendEntry
  <1>. HIDE DEF r
  <1>6. \A a \in {"writing", "flushing"} : a \in InFlight \ Unstarted /\ a \notin Caught
    BY DEF InFlight, Unstarted, Caught
  <1>. QED BY <1>0, <1>1, <1>2, <1>3, <1>4, <1>5, <1>6, AsksJournal

LEMMA AppendCompletedJournal ==
  ASSUME JournalInv, NEW t \in Turn, AppendCompleted(t)
  PROVE  JournalInv'
  <1>. DEFINE r == AppendOf("turn", t, run[t].version, Event("turn.completed", t))
  <1>0. Shape /\ Shape' /\ Stage(run[t])
    BY JournalNow, AppendCompletedShape, StageOf
  <1>1. r \in Requests /\ r.by = "turn"
    BY <1>0, StageOf, RequestsAsked, EventsAsked
  <1>2. run[t].at = "finalizing" /\ Goes(t, "completing") /\ Ask(r)
        /\ UNCHANGED <<journal, session, orphan, faults>>
    BY DEF AppendCompleted
  <1>3. run[t].at \in InFlight \ Unstarted /\ run[t].attempt # 1
    BY <1>0, <1>2 DEF Stage, InFlight, Unstarted, Settled, Verdicts
  <1>4. Fresh(r, journal)
    BY <1>3, EntryType, TurnFresh
  <1>. HIDE DEF r
  <1>5. "completing" \in InFlight \ Unstarted /\ "completing" \notin Caught
    BY DEF InFlight, Unstarted, Caught
  <1>. QED BY <1>0, <1>1, <1>2, <1>3, <1>4, <1>5, AsksJournal

LEMMA FlushContextJournal ==
  ASSUME JournalInv, NEW t \in Turn, FlushContext(t)
  PROVE  JournalInv'
  <1>. DEFINE r == AppendOf("turn", t, run[t].version, Entry(t))
  <1>0. Shape /\ Shape' /\ Stage(run[t])
    BY JournalNow, FlushContextShape, StageOf
  <1>1. r \in Requests /\ r.by = "turn"
    BY <1>0, StageOf, RequestsAsked, EventsAsked
  <1>2. run[t].at = "ending" /\ Goes(t, "draining") /\ Ask(r)
        /\ UNCHANGED <<journal, session, orphan, faults>>
    BY DEF FlushContext
  <1>3. run[t].at \in InFlight \ Unstarted /\ run[t].attempt # 1 /\ run[t].at \in Caught
    BY <1>0, <1>2 DEF Stage, InFlight, Unstarted, Settled, Verdicts, Caught
  <1>4. Fresh(r, journal)
    BY <1>3, EntryType, TurnFresh
  <1>. HIDE DEF r
  <1>5. "draining" \in InFlight \ Unstarted
    BY DEF InFlight, Unstarted
  <1>. QED BY <1>0, <1>1, <1>2, <1>3, <1>4, <1>5, AsksJournal

LEMMA LoadForTerminalJournal ==
  ASSUME JournalInv, NEW t \in Turn, LoadForTerminal(t)
  PROVE  JournalInv'
  <1>0. Shape /\ Shape'
    BY JournalNow, LoadForTerminalShape
  <1>1. Load("turn", t) \in Requests /\ Load("turn", t).by = "turn"
        /\ Fresh(Load("turn", t), journal)
    BY RequestsAsked, LoadFresh
  <1>2. run[t].at \in {"ending", "drained"} /\ Goes(t, "checking") /\ Ask(Load("turn", t))
        /\ UNCHANGED <<journal, session, orphan, faults>>
    BY DEF LoadForTerminal
  <1>3. run[t].at \in InFlight \ Unstarted /\ run[t].at \in Caught
        /\ "checking" \in InFlight \ Unstarted
    BY <1>2 DEF InFlight, Unstarted, Caught
  <1>. QED BY <1>0, <1>1, <1>2, <1>3, AsksJournal

LEMMA RunCompletesJournal ==
  ASSUME JournalInv, NEW t \in Turn, RunCompletes(t)
  PROVE  JournalInv'
  <1>0. Shape /\ Shape' /\ Stage(run[t])
    BY JournalNow, RunCompletesShape, StageOf
  <1>1. run[t].at = "running" /\ Goes(t, "finalizing")
        /\ UNCHANGED <<journal, pending, session, orphan, faults>>
    BY DEF RunCompletes
  <1>2. run[t].attempt # 1
    BY <1>0, <1>1 DEF Stage, Settled, Verdicts
  <1>3. TurnMoves(t)
        /\ Sets(t, "finalizing", run[t].version, run[t].started, run[t].verdict, run[t].attempt)
    BY <1>0, <1>1, <1>2, GoesDoes DEF InFlight, Unstarted, Caught
  <1>4. run[t].at \in InFlight \ Unstarted /\ run'[t].at \in InFlight \ Unstarted
        /\ run'[t].version = run[t].version
    BY <1>1, <1>3 DEF Sets, InFlight, Unstarted
  <1>5. FreshQueue(pending', journal) /\ RecordFirst(pending', run', journal)
    BY <1>1, <1>4, JournalNow, AsksFirst DEF Unstarted
  <1>. QED BY <1>0, <1>1, <1>3, <1>4, <1>5, GoesJournal

LEMMA InterruptedJournal ==
  ASSUME JournalInv, NEW t \in Turn, Interrupted(t)
  PROVE  JournalInv'
  <1>0. Shape /\ Shape'
    BY JournalNow, InterruptedShape
  <1>1. run[t].at \in {"admitted", "running"} /\ UNCHANGED <<journal, pending>>
    BY DEF Interrupted
  <1>2. PICK verdict \in Verdicts : Catch(t, verdict)
    BY DEF Interrupted, Verdicts
  <1>3. run[t].at \in InFlight \ {"checking", "closing"}
    BY <1>1 DEF InFlight
  <1>4. faults.kinds \subseteq faults'.kinds
    <2>1. faults' = faults \/ faults' = [faults EXCEPT !.kinds = @ \cup {"orphan"}]
      BY DEF Interrupted
    <2>. QED BY <1>0, <2>1 DEF Shape, TypeOK
  <1>5. RecordFirst(pending', run', journal')
    <2>1. CASE run[t].at = "running"
      BY <1>1, <2>1, AsksFirst DEF InFlight
    <2>2. CASE run[t].at = "admitted"
      <3>1. run'[t].at \notin InFlight
        <4>1. ~run[t].started
          BY <1>0, <2>2, StageOf DEF Stage, Unstarted
        <4>2. Sets(t, verdict, run[t].version, FALSE, run[t].verdict, 0)
          BY <1>0, <1>2, <1>3, <4>1, CatchDoes
        <4>. QED BY <4>2, Places3 DEF Sets
      <3>2. \A u \in Turn : run'[u].at \notin InFlight
        BY <1>0, <1>2, <1>3, <3>1, CatchDoes DEF TurnMoves, Shape, Stages
      <3>. QED BY <1>1, <3>2 DEF JournalInv, RecordFirst
    <2>. QED BY <1>1, <2>1, <2>2
  <1>6. StoresFor(t) /\ FreshQueue(pending', journal')
    BY <1>1, JournalNow, NothingStored
  <1>. QED BY <1>0, <1>1, <1>2, <1>3, <1>4, <1>5, <1>6, CatchJournal

-----------------------------------------------------------------------------
(* The answers a turn gets. *)

LEMMA ServesFirst ==
  ASSUME JournalInv, NEW t, Serving("turn", t), NEW rn, NEW J
  PROVE  /\ Answered(<<>>) => RecordFirst(pending', rn, J)
         /\ \A r \in Requests : r.by = "turn" /\ Answered(<<r>>) => RecordFirst(pending', rn, J)
  <1>. DEFINE q == Tail(pending)
  <1>1. Shape /\ pending # <<>> /\ pending \in Seq(Requests)
    BY JournalNow DEF Serving
  <1>2. /\ q \in Seq(Requests) /\ q \o <<>> = q
        /\ \A r \in Requests : q \o <<r>> = Append(q, r)
    BY <1>1, TailFacts, ServedRest
  <1>3. NoLoads(q)
    BY <1>1, NoLoadsServing, NoLoadsTail
  <1>4. Answered(<<>>) => pending' = q
    BY <1>2 DEF Answered
  <1>5. \A r \in Requests : Answered(<<r>>) => pending' = Append(q, r)
    BY <1>2 DEF Answered
  <1>. HIDE DEF q
  <1>6. \A r \in Requests : r.by = "turn" => NoLoads(Append(q, r))
    BY <1>2, <1>3, NoLoadsAppend
  <1>. QED BY <1>3, <1>4, <1>5, <1>6, NoLoadsFirst

LEMMA ServesFresh ==
  ASSUME JournalInv, pending # <<>>,
         \A q \in Seq(Requests) : FreshQueue(q, journal) => FreshQueue(q, journal')
  PROVE  /\ Answered(<<>>) => FreshQueue(pending', journal')
         /\ \A r \in Requests :
              Fresh(r, journal') /\ Answered(<<r>>) => FreshQueue(pending', journal')
  <1>. DEFINE q == Tail(pending)
  <1>1. Shape /\ pending \in Seq(Requests) /\ FreshQueue(pending, journal)
    BY JournalNow
  <1>2. /\ q \in Seq(Requests) /\ q \o <<>> = q
        /\ \A r \in Requests : q \o <<r>> = Append(q, r)
    BY <1>1, TailFacts, ServedRest
  <1>3. FreshQueue(q, journal)
    BY <1>1, FreshTail
  <1>4. Answered(<<>>) => pending' = q
    BY <1>2 DEF Answered
  <1>5. \A r \in Requests : Answered(<<r>>) => pending' = Append(q, r)
    BY <1>2 DEF Answered
  <1>. HIDE DEF q
  <1>6. FreshQueue(q, journal')
    BY <1>2, <1>3
  <1>7. \A r \in Requests : Fresh(r, journal') => FreshQueue(Append(q, r), journal')
    BY <1>2, <1>6, FreshAppend
  <1>. QED BY <1>4, <1>5, <1>6, <1>7

LEMMA LoadKinds ==
  ASSUME JournalInv, LoadResolves \/ LoadRejects
  PROVE  journal' = journal /\ faults.kinds \subseteq faults'.kinds
  BY JournalNow, KindsGrow DEF LoadResolves, LoadRejects

\* A load failed, or the turn was found aborted.
LEMMA LoadFailsJournal ==
  ASSUME JournalInv, Shape', NEW t \in Turn, Serving("turn", t), run[t].at \in {"loading", "reading"},
         LoadResolves \/ LoadRejects, Catch(t, Failure(t)), Answered(<<>>)
  PROVE  JournalInv'
  <1>1. pending # <<>> /\ journal' = journal /\ faults.kinds \subseteq faults'.kinds
    BY LoadKinds DEF Serving
  <1>2. StoresFor(t) /\ \A q : FreshQueue(q, journal) => FreshQueue(q, journal')
    BY <1>1, NothingStored
  <1>3. FreshQueue(pending', journal') /\ RecordFirst(pending', run', journal')
    BY <1>1, <1>2, ServesFresh, ServesFirst
  <1>4. run[t].at \in InFlight \ {"checking", "closing"} /\ Failure(t) \in Verdicts
    BY FailureVerdict DEF InFlight
  <1>. QED BY <1>1, <1>2, <1>3, <1>4, CatchJournal

LEMMA LoadedJournal ==
  ASSUME JournalInv, NEW t \in Turn, Loaded(t)
  PROVE  JournalInv'
  <1>1. Serving("turn", t) /\ run[t].at = "loading"
    BY DEF Loaded
  <1>2. Shape /\ Shape'
    BY JournalNow, LoadedShape
  <1>3. CASE LoadRejects /\ Catch(t, Failure(t)) /\ Answered(<<>>)
    BY <1>1, <1>2, <1>3, LoadFailsJournal
  <1>4. CASE /\ LoadResolves
             /\ run' = [run EXCEPT ![t].at = "reading", ![t].version = journal.version]
             /\ Answered(<<Load("turn", t)>>)
             /\ UNCHANGED session
    <2>1. Sets(t, "reading", journal.version, run[t].started, run[t].verdict, run[t].attempt)
      BY <1>2, <1>4, StageOf, AtVersionSets DEF Places, InFlight
    <2>2. TurnMoves(t)
      <3>1. ~run[t].started /\ run[t].attempt # 1
        BY <1>1, <1>2, StageOf, Places3 DEF Stage, Unstarted
      <3>. QED BY <1>1, <1>2, <1>4, <2>1, <3>1, SetsMoves DEF InFlight, Unstarted, Caught
    <2>3. pending # <<>> /\ journal' = journal /\ faults.kinds \subseteq faults'.kinds
      BY <1>1, <1>4, LoadKinds DEF Serving
    <2>4. StoresFor(t) /\ \A q : FreshQueue(q, journal) => FreshQueue(q, journal')
      BY <2>3, NothingStored
    <2>5. FreshQueue(pending', journal') /\ RecordFirst(pending', run', journal')
      BY <1>1, <1>4, <2>3, <2>4, RequestsAsked, LoadFresh, ServesFresh, ServesFirst
    <2>6. run'[t].at = "reading" /\ run'[t].version = journal.version /\ journal.version \in Nat
      BY <1>2, <2>1, StageOf DEF Sets
    <2>7. Known(t, run'[t], journal', faults'.kinds)
      BY <1>1, <2>3, <2>6, JournalNow DEF Known, InFlight, Unstarted
    <2>8. session' # "idle" /\ run'[t].at \notin Verdicts
      BY <1>2, <1>4, <2>2, <2>6, MovedStages DEF Verdicts
    <2>. QED BY <1>2, <2>2, <2>3, <2>4, <2>5, <2>7, <2>8, TurnKeepsJournal
  <1>. QED BY <1>3, <1>4 DEF Loaded

LEMMA AppendStartJournal ==
  ASSUME JournalInv, NEW t \in Turn, AppendStart(t)
  PROVE  JournalInv'
  <1>. DEFINE e == Event("turn.started", t)
              r == AppendOf("turn", t, run[t].version, e)
  <1>1. Serving("turn", t) /\ run[t].at = "reading"
    BY DEF AppendStart
  <1>2. Shape /\ Shape'
    BY JournalNow, AppendStartShape
  <1>3. CASE (LoadResolves \/ LoadRejects) /\ Catch(t, Failure(t)) /\ Answered(<<>>)
    BY <1>1, <1>2, <1>3, LoadFailsJournal
  <1>4. CASE LoadResolves /\ Goes(t, "starting") /\ Answered(<<r>>) /\ UNCHANGED session
    <2>0. run[t].attempt # 1
      BY <1>1, <1>2, StageOf DEF Stage, Settled, Verdicts
    <2>1. /\ TurnMoves(t)
          /\ Sets(t, "starting", run[t].version, run[t].started, run[t].verdict, run[t].attempt)
      BY <1>1, <1>2, <1>4, <2>0, GoesDoes DEF InFlight, Unstarted, Caught
    <2>2. /\ r \in Requests /\ r.by = "turn" /\ r.event = e /\ r.expected = run[t].version
          /\ e.own /\ e.type \in Opening
      BY <1>2, StageOf, RequestsAsked, EventsAsked, EntryType
    <2>3. pending # <<>> /\ journal' = journal /\ faults.kinds \subseteq faults'.kinds
      BY <1>1, <1>4, LoadKinds DEF Serving
    <2>4. StoresFor(t) /\ \A q : FreshQueue(q, journal) => FreshQueue(q, journal')
      BY <2>3, NothingStored
    <2>5. journal.plan = Ready /\ run[t].version <= journal.version
      BY <1>1, JournalNow DEF Known, Unstarted
    <2>6. Fresh(r, journal')
      BY <2>2, <2>3, <2>5 DEF Fresh, Legal
    <2>. HIDE DEF r, e
    <2>7. FreshQueue(pending', journal') /\ RecordFirst(pending', run', journal')
      BY <1>1, <1>4, <2>2, <2>3, <2>4, <2>6, ServesFresh, ServesFirst
    <2>8. run'[t].at = "starting" /\ run'[t].version = run[t].version
      BY <2>1 DEF Sets
    <2>9. Known(t, run'[t], journal', faults'.kinds)
      BY <1>1, <2>3, <2>5, <2>8, JournalNow DEF Known, InFlight, Unstarted
    <2>10. session' # "idle" /\ run'[t].at \notin Verdicts
      BY <1>2, <1>4, <2>1, <2>8, MovedStages DEF Verdicts
    <2>. QED BY <1>2, <2>1, <2>3, <2>4, <2>7, <2>9, <2>10, TurnKeepsJournal
  <1>. QED BY <1>3, <1>4 DEF AppendStart

\* What a turn appends is its own, and it opens nothing but itself.
LEMMA TurnEvent ==
  ASSUME JournalInv, NEW t \in Turn, Serving("turn", t),
         run[t].at \notin {"loading", "reading", "checking"}
  PROVE  /\ pending # <<>> /\ Head(pending).event \in OwnEvents /\ Head(pending).event.turn = t
         /\ run[t].at = "starting" => Head(pending).event.type \in Opening
         /\ run[t].at \in {"writing", "flushing", "draining"} =>
              Head(pending).event.type \in Inside
         /\ run[t].at = "completing" =>
              Head(pending).event.type = TerminalOf["completed"]
         /\ run[t].at = "closing" =>
              Head(pending).event.type = TerminalOf[run[t].verdict]
         /\ run[t].at \in {"completing", "closing"} => Head(pending).event.type \in Closing
         /\ Head(pending).event.type \in Opening => t \in Turn \ journal.opened
         /\ run[t].at # "starting" => Head(pending).event.type \in Inside \cup Closing
  <1>. DEFINE e == Head(pending).event
  <1>1. /\ Shape /\ pending # <<>> /\ run[t].at \in Awaiting /\ EventOf(t, run[t], e)
        /\ e \in OwnEvents /\ e.turn = t
    BY JournalNow, TurnServed
  <1>. HIDE DEF e
  <1>2. run[t].at = "closing" => run[t].verdict \in Verdicts
    BY <1>1, VerdictOf DEF Caught
  <1>3. CASE run[t].at = "starting"
    <2>1. t \notin journal.opened
      BY <1>3, JournalNow DEF Known, Unstarted
    <2>2. e.type \in Opening
      BY <1>1, <1>3, EntryType DEF EventOf
    <2>. QED BY <1>1, <1>3, <2>1, <2>2, EventTypes DEF e
  <1>4. CASE run[t].at \in {"writing", "flushing", "draining"}
    <2>1. e.type \in Inside
      BY <1>1, <1>4, EntryType DEF EventOf
    <2>. QED BY <1>1, <1>4, <2>1, EventTypes DEF e
  <1>5. CASE run[t].at = "completing"
    <2>1. e.type \in Closing /\ e.type = TerminalOf["completed"]
      BY <1>1, <1>5, EntryType DEF EventOf
    <2>. QED BY <1>1, <1>5, <2>1, EventTypes DEF e
  <1>6. CASE run[t].at = "closing"
    <2>1. e.type \in Closing /\ e.type = TerminalOf[run[t].verdict]
      <3>1. e = Event(TerminalOf[run[t].verdict], t)
        BY <1>1, <1>6 DEF EventOf
      <3>. QED BY <1>2, <1>6, <3>1, EntryType
    <2>. QED BY <1>1, <1>6, <2>1, EventTypes DEF e
  <1>. QED BY <1>1, <1>3, <1>4, <1>5, <1>6 DEF Awaiting

\* The append resolved.
LEMMA TurnStores ==
  ASSUME JournalInv, NEW t \in Turn, Serving("turn", t), Answered(<<>>), AppendResolves,
         run[t].at \notin {"loading", "reading", "checking"}
  PROVE  /\ journal' = Stored(journal, Head(pending).event) /\ UNCHANGED faults
         /\ Legal(journal.plan, Head(pending).event)
         /\ Head(pending).expected = journal.version
         /\ StoresFor(t)
         /\ FreshQueue(pending', journal') /\ RecordFirst(pending', run', journal')
         /\ faults.kinds \subseteq faults'.kinds
  <1>1. /\ journal' = Stored(journal, Head(pending).event)
        /\ Legal(journal.plan, Head(pending).event)
        /\ Head(pending).expected = journal.version /\ UNCHANGED faults
    BY TurnEvent, AppendStored
  <1>2. StoresFor(t) /\ \A q \in Seq(Requests) : FreshQueue(q, journal) => FreshQueue(q, journal')
    BY <1>1, TurnEvent, EventStored
  <1>3. FreshQueue(pending', journal') /\ RecordFirst(pending', run', journal')
    BY <1>2, TurnEvent, ServesFresh, ServesFirst
  <1>. QED BY <1>1, <1>2, <1>3

\* The append rejected.
LEMMA TurnFails ==
  ASSUME JournalInv, Faults \subseteq Bearable, NEW t \in Turn, Serving("turn", t), AppendRejects,
         run[t].at \notin {"loading", "reading", "checking"}
  PROVE  /\ StoresFor(t)
         /\ Answered(<<>>) => FreshQueue(pending', journal') /\ RecordFirst(pending', run', journal')
         /\ Answered(<<Load("turn", t)>>) =>
              FreshQueue(pending', journal') /\ RecordFirst(pending', run', journal')
         /\ faults.kinds \subseteq faults'.kinds
         /\ \/ journal' = journal
            \/ \E e \in OwnEvents :
                 /\ e.turn = t /\ e.type \in Inside \cup Closing /\ Legal(journal.plan, e)
                 /\ journal' = Stored(journal, e) /\ "lostReply" \in faults'.kinds
  <1>. DEFINE e == Head(pending).event
  <1>1. pending # <<>> /\ e \in OwnEvents /\ e.turn = t /\ (e.type \in Opening => t \in Turn \ journal.opened)
        /\ (e.type \notin Opening => e.type \in Inside \cup Closing)
    BY TurnEvent
  <1>2. Rejected(e) /\ faults.kinds \subseteq faults'.kinds
    BY <1>1, AppendFailed
  <1>. HIDE DEF e
  <1>3. StoresFor(t) /\ \A q \in Seq(Requests) : FreshQueue(q, journal) => FreshQueue(q, journal')
    BY <1>1, <1>2, EventStored, NothingStored DEF Rejected
  <1>4. /\ Answered(<<>>) => FreshQueue(pending', journal') /\ RecordFirst(pending', run', journal')
        /\ Answered(<<Load("turn", t)>>) =>
             FreshQueue(pending', journal') /\ RecordFirst(pending', run', journal')
    BY <1>1, <1>3, RequestsAsked, LoadFresh, ServesFresh, ServesFirst
  <1>. QED BY <1>1, <1>2, <1>3, <1>4 DEF Rejected

LEMMA FailsCaught ==
  ASSUME JournalInv, Faults \subseteq Bearable, Shape', NEW t \in Turn, Serving("turn", t),
         AppendRejects, Answered(<<>>), Catch(t, Failure(t)),
         run[t].at \in InFlight \ {"loading", "reading", "checking", "closing"}
  PROVE  JournalInv'
  BY TurnFails, FailureVerdict, CatchJournal

LEMMA StartedJournal ==
  ASSUME JournalInv, Faults \subseteq Bearable, NEW t \in Turn, Started(t)
  PROVE  JournalInv'
  <1>1. Serving("turn", t) /\ run[t].at = "starting" /\ Answered(<<>>)
    BY DEF Started
  <1>2. Shape /\ Shape'
    BY JournalNow, StartedShape
  <1>3. CASE AppendRejects /\ Catch(t, Failure(t))
    BY <1>1, <1>2, <1>3, FailsCaught DEF InFlight
  <1>4. CASE /\ AppendResolves
             /\ run' = [run EXCEPT ![t].at = "running", ![t].started = TRUE,
                                   ![t].version = Head(pending).expected + 1]
             /\ UNCHANGED session
    <2>1. /\ TurnMoves(t)
          /\ Sets(t, "running", Head(pending).expected + 1, TRUE, run[t].verdict, run[t].attempt)
      BY <1>1, <1>2, <1>4, StartedDoes
    <2>. DEFINE e == Head(pending).event
    <2>2. /\ journal' = Stored(journal, e) /\ Legal(journal.plan, e) /\ StoresFor(t)
          /\ Head(pending).expected = journal.version
          /\ FreshQueue(pending', journal') /\ RecordFirst(pending', run', journal')
          /\ faults.kinds \subseteq faults'.kinds
      BY <1>1, <1>4, TurnStores
    <2>3. e \in OwnEvents /\ e.turn = t /\ e.type \in Opening /\ t \notin journal.opened
      BY <1>1, TurnEvent
    <2>4. run'[t].at = "running" /\ run'[t].version = journal.version + 1
      BY <2>1, <2>2 DEF Sets
    <2>. HIDE DEF e
    <2>5. Known(t, run'[t], journal', faults'.kinds)
      BY <2>2, <2>3, <2>4, KnownStored DEF InFlight, Unstarted
    <2>6. session' # "idle" /\ run'[t].at \notin Verdicts
      BY <1>2, <1>4, <2>1, <2>4, MovedStages DEF Verdicts
    <2>. QED BY <1>2, <2>1, <2>2, <2>5, <2>6, TurnKeepsJournal
  <1>. QED BY <1>3, <1>4 DEF Started

\* An entry is stored, and the turn goes on.
LEMMA EntryStored ==
  ASSUME JournalInv, Shape', NEW t \in Turn, Serving("turn", t), Answered(<<>>), AppendResolves,
         run[t].at \in {"writing", "flushing", "draining"}, UNCHANGED session,
         NEW a \in InFlight \ Unstarted, GoesOn(t, a),
         a \in Caught => run[t].at = "draining"
  PROVE  JournalInv'
  <1>1. Shape /\ run[t].attempt # 1 /\ run[t].at \in InFlight \ Unstarted
    BY JournalNow, StageOf DEF Stage, InFlight, Unstarted, Settled, Verdicts
  <1>2. /\ TurnMoves(t)
        /\ Sets(t, a, Head(pending).expected + 1, run[t].started, run[t].verdict, run[t].attempt)
    BY <1>1, GoesOnDoes DEF Caught
  <1>. DEFINE e == Head(pending).event
  <1>3. /\ journal' = Stored(journal, e) /\ Legal(journal.plan, e) /\ StoresFor(t)
        /\ Head(pending).expected = journal.version
        /\ FreshQueue(pending', journal') /\ RecordFirst(pending', run', journal')
        /\ faults.kinds \subseteq faults'.kinds
    BY TurnStores
  <1>4. e \in OwnEvents /\ e.turn = t /\ e.type \in Inside
    BY TurnEvent
  <1>5. run'[t].at = a /\ run'[t].version = journal.version + 1
    BY <1>2, <1>3 DEF Sets
  <1>. HIDE DEF e
  <1>6. Known(t, run'[t], journal', faults'.kinds)
    BY <1>3, <1>4, <1>5, EventTypes, KnownStored
  <1>7. session' # "idle" /\ run'[t].at \notin Verdicts
    BY <1>1, <1>2, <1>5, Places3, MovedStages
  <1>. QED BY <1>2, <1>3, <1>6, <1>7, TurnKeepsJournal

LEMMA EntryAppendedJournal ==
  ASSUME JournalInv, Faults \subseteq Bearable, NEW t \in Turn, EntryAppended(t)
  PROVE  JournalInv'
  <1>1. Serving("turn", t) /\ run[t].at \in {"writing", "flushing"} /\ Answered(<<>>)
    BY DEF EntryAppended
  <1>2. Shape'
    BY JournalNow, EntryAppendedShape
  <1>3. CASE AppendRejects /\ Catch(t, Failure(t))
    BY <1>1, <1>2, <1>3, FailsCaught DEF InFlight
  <1>4. CASE AppendResolves /\ UNCHANGED session
             /\ GoesOn(t, IF run[t].at = "writing" THEN "running" ELSE "finalizing")
    <2>. DEFINE a == IF run[t].at = "writing" THEN "running" ELSE "finalizing"
    <2>1. a \in InFlight \ Unstarted /\ a \notin Caught
      BY DEF InFlight, Unstarted, Caught
    <2>2. GoesOn(t, a)
      BY <1>4
    <2>. HIDE DEF a
    <2>. QED BY <1>1, <1>2, <1>4, <2>1, <2>2, EntryStored
  <1>. QED BY <1>3, <1>4 DEF EntryAppended

LEMMA ContextFlushedJournal ==
  ASSUME JournalInv, Faults \subseteq Bearable, NEW t \in Turn, ContextFlushed(t)
  PROVE  JournalInv'
  <1>1. Serving("turn", t) /\ run[t].at = "draining" /\ Answered(<<>>)
        /\ UNCHANGED <<session, orphan>>
    BY DEF ContextFlushed
  <1>2. Shape /\ Shape'
    BY JournalNow, ContextFlushedShape
  <1>3. CASE AppendResolves /\ GoesOn(t, "drained")
    BY <1>1, <1>2, <1>3, EntryStored DEF InFlight, Unstarted
  <1>4. CASE AppendRejects /\ Goes(t, "drained")
    <2>0. run[t].attempt # 1 /\ run[t].at \in InFlight \ Unstarted
      BY <1>1, <1>2, StageOf DEF Stage, Settled, Verdicts, InFlight, Unstarted
    <2>1. /\ TurnMoves(t)
          /\ Sets(t, "drained", run[t].version, run[t].started, run[t].verdict, run[t].attempt)
      BY <1>1, <1>2, <1>4, <2>0, GoesDoes DEF InFlight, Unstarted, Caught
    <2>2. run'[t].at = "drained" /\ run'[t].version = run[t].version
      BY <2>1 DEF Sets
    <2>3. run'[t].at \in InFlight \ Unstarted
      BY <2>2 DEF InFlight, Unstarted
    <2>4. /\ StoresFor(t) /\ FreshQueue(pending', journal') /\ RecordFirst(pending', run', journal')
          /\ faults.kinds \subseteq faults'.kinds
      BY <1>1, <1>4, TurnFails
    <2>5. Known(t, run'[t], journal', faults'.kinds)
      <3>1. CASE journal' = journal
        BY <2>0, <2>2, <2>3, <2>4, <3>1, JournalNow, KnownGoes
      <3>2. CASE journal' # journal
        <4>1. PICK e \in OwnEvents :
                /\ e.turn = t /\ e.type \in Inside \cup Closing /\ Legal(journal.plan, e)
                /\ journal' = Stored(journal, e) /\ "lostReply" \in faults'.kinds
          BY <1>1, <1>4, <3>2, TurnFails
        <4>. QED BY <2>0, <2>2, <2>3, <4>1, KnownLost
      <3>. QED BY <3>1, <3>2
    <2>6. session' # "idle" /\ run'[t].at \notin Verdicts
      BY <1>1, <1>2, <2>1, <2>2, MovedStages DEF Verdicts
    <2>. QED BY <1>2, <2>1, <2>4, <2>5, <2>6, TurnKeepsJournal
  <1>. QED BY <1>3, <1>4 DEF ContextFlushed

\* The terminal is stored as the turn settles.
LEMMA SettlesStored ==
  ASSUME JournalInv, Shape', NEW t \in Turn, TurnMoves(t), Serving("turn", t), Answered(<<>>),
         AppendResolves, run[t].at \in {"completing", "closing"}, run'[t].at \in Verdicts,
         Head(pending).event.type = TerminalOf[run'[t].at]
  PROVE  JournalInv'
  <1>. DEFINE e == Head(pending).event
  <1>1. /\ journal' = Stored(journal, e) /\ Legal(journal.plan, e) /\ StoresFor(t)
        /\ FreshQueue(pending', journal') /\ RecordFirst(pending', run', journal')
        /\ faults.kinds \subseteq faults'.kinds
    BY TurnStores
  <1>2. e \in OwnEvents /\ e.turn = t /\ e.type \in Closing
    BY TurnEvent
  <1>. HIDE DEF e
  <1>3. journal'.plan = Ready /\ journal'.terminal[t] = e.type
    BY <1>1, <1>2, EventTypes, JournalNow, StoredDoes
  <1>4. Known(t, run'[t], journal', faults'.kinds)
    BY Places3, KnownSettled
  <1>5. journal'.terminal[t] = TerminalOf[run'[t].at]
    BY <1>3 DEF e
  <1>. QED BY <1>1, <1>3, <1>4, <1>5, TurnKeepsJournal

LEMMA CompletedJournal ==
  ASSUME JournalInv, Faults \subseteq Bearable, NEW t \in Turn, Completed(t)
  PROVE  JournalInv'
  <1>1. Serving("turn", t) /\ run[t].at = "completing" /\ Answered(<<>>)
    BY DEF Completed
  <1>2. Shape /\ Shape'
    BY JournalNow, CompletedShape
  <1>3. CASE AppendRejects /\ Catch(t, Failure(t))
    BY <1>1, <1>2, <1>3, FailsCaught DEF InFlight
  <1>4. CASE AppendResolves /\ Ends(t, "completed")
    <2>1. TurnMoves(t) /\ run'[t].at = "completed"
      BY <1>1, <1>2, <1>4, EndsDoes DEF Verdicts, InFlight, Sets
    <2>2. Head(pending).event.type = TerminalOf[run'[t].at] /\ run'[t].at \in Verdicts
      BY <1>1, <2>1, TurnEvent DEF Verdicts
    <2>. QED BY <1>1, <1>2, <1>4, <2>1, <2>2, SettlesStored
  <1>. QED BY <1>3, <1>4 DEF Completed

\* The turn settles and stores nothing.
LEMMA SettlesJournal ==
  ASSUME JournalInv, Shape', NEW t \in Turn, run[t].at \in InFlight,
         NEW how \in Verdicts \cup {"persistence"}, Ends(t, how), StoresFor(t),
         FreshQueue(pending', journal'), RecordFirst(pending', run', journal'),
         faults.kinds \subseteq faults'.kinds,
         how # "persistence" =>
           /\ journal'.plan = Ready
           /\ "lostReply" \in faults'.kinds
  PROVE  JournalInv'
  <1>1. Shape
    BY JournalNow
  <1>2. TurnMoves(t) /\ run'[t].at = how
    BY <1>1, EndsDoes DEF Sets
  <1>3. how \in Settled
    BY DEF Settled
  <1>4. Known(t, run'[t], journal', faults'.kinds)
    BY <1>2, <1>3, KnownSettled
  <1>5. session' = "idle" => how # "persistence"
    BY DEF Ends
  <1>6. "persistence" \notin Verdicts
    BY DEF Verdicts
  <1>. QED BY <1>2, <1>4, <1>5, <1>6, TurnKeepsJournal

LEMMA AppendTerminalJournal ==
  ASSUME JournalInv, NEW t \in Turn, AppendTerminal(t)
  PROVE  JournalInv'
  <1>. DEFINE e == Event(TerminalOf[run[t].verdict], t)
              r == AppendOf("turn", t, journal.version, e)
  <1>1. Serving("turn", t) /\ run[t].at = "checking" /\ (LoadResolves \/ LoadRejects)
    BY DEF AppendTerminal
  <1>2. Shape /\ Shape'
    BY JournalNow, AppendTerminalShape
  <1>3. /\ pending # <<>> /\ journal' = journal /\ faults.kinds \subseteq faults'.kinds
        /\ run[t].at \in InFlight \ Unstarted
    BY <1>1, LoadKinds DEF Serving, InFlight, Unstarted
  <1>4. StoresFor(t) /\ \A q : FreshQueue(q, journal) => FreshQueue(q, journal')
    BY <1>3, NothingStored
  <1>5. run[t].verdict \in Verdicts /\ run[t].started
    BY <1>1, <1>2, VerdictOf DEF Caught
  <1>6. CASE Terminated(t) /\ Ends(t, run[t].verdict) /\ Answered(<<>>)
    <2>1. FreshQueue(pending', journal') /\ RecordFirst(pending', run', journal')
      BY <1>1, <1>3, <1>4, <1>6, ServesFresh, ServesFirst
    <2>2. journal.plan # Interrupt(t)
      BY <1>6, JournalNow DEF Terminated, JournalOK
    <2>3. journal.plan = Ready /\ "lostReply" \in faults.kinds
      BY <1>3, <2>2, JournalNow DEF Known
    <2>. QED BY <1>2, <1>3, <1>4, <1>5, <1>6, <2>1, <2>3, SettlesJournal
  <1>7. CASE Ends(t, "persistence") /\ Answered(<<>>)
    <2>1. FreshQueue(pending', journal') /\ RecordFirst(pending', run', journal')
      BY <1>1, <1>3, <1>4, <1>7, ServesFresh, ServesFirst
    <2>. QED BY <1>2, <1>3, <1>4, <1>7, <2>1, SettlesJournal
  <1>8. CASE /\ journal.plan = Interrupt(t) /\ Goes(t, "closing") /\ Answered(<<r>>)
             /\ UNCHANGED session
    <2>1. /\ TurnMoves(t)
          /\ Sets(t, "closing", run[t].version, run[t].started, run[t].verdict, run[t].attempt)
      BY <1>1, <1>2, <1>3, <1>8, GoesDoes DEF InFlight, Unstarted, Caught
    <2>2. run'[t].at \in InFlight \ Unstarted /\ run'[t].version = run[t].version
      BY <2>1 DEF Sets, InFlight, Unstarted
    <2>3. /\ r \in Requests /\ r.by = "turn" /\ r.event = e /\ r.expected = journal.version
          /\ e.own /\ e.type \in Closing /\ e.turn = t
      BY <1>2, <1>5, StageOf, RequestsAsked, EventsAsked, EntryType
    <2>4. journal.version \in Nat
      BY <1>2, StageOf
    <2>5. Fresh(r, journal)
      BY <1>8, <2>3, <2>4 DEF Fresh, Legal
    <2>. HIDE DEF r, e
    <2>6. FreshQueue(pending', journal) /\ RecordFirst(pending', run', journal)
      BY <1>1, <1>3, <1>4, <1>8, <2>3, <2>5, ServesFresh, ServesFirst
    <2>. QED BY <1>2, <1>3, <2>1, <2>2, <2>6, GoesJournal
  <1>. QED BY <1>1, <1>6, <1>7, <1>8 DEF AppendTerminal

LEMMA TerminalAppendedJournal ==
  ASSUME JournalInv, Faults \subseteq Bearable, NEW t \in Turn, TerminalAppended(t)
  PROVE  JournalInv'
  <1>1. Serving("turn", t) /\ run[t].at = "closing" /\ run[t].at \in InFlight \ Unstarted
    BY DEF TerminalAppended, InFlight, Unstarted
  <1>2. Shape /\ Shape'
    BY JournalNow, TerminalAppendedShape
  <1>3. CASE /\ AppendResolves
             /\ run' = [run EXCEPT ![t].at = run[t].verdict,
                                   ![t].version = Head(pending).expected + 1]
             /\ session' = "idle" /\ Answered(<<>>)
    <2>1. TurnMoves(t) /\ run[t].verdict \in Verdicts /\ run'[t].at = run[t].verdict
      BY <1>1, <1>2, <1>3, ClosedDoes DEF Sets
    <2>2. Head(pending).event.type = TerminalOf[run'[t].at]
      BY <1>1, <2>1, TurnEvent
    <2>. QED BY <1>1, <1>2, <1>3, <2>1, <2>2, SettlesStored
  <1>4. CASE /\ AppendRejects
             /\ run' = [run EXCEPT ![t].at = "checking", ![t].attempt = 1]
             /\ Answered(<<Load("turn", t)>>) /\ UNCHANGED session
    <2>1. TurnMoves(t) /\ run'[t].at = "checking" /\ run'[t].version = run[t].version
      BY <1>1, <1>2, <1>4, AgainDoes DEF Sets
    <2>2. run'[t].at \in InFlight \ Unstarted
      BY <2>1 DEF InFlight, Unstarted
    <2>3. /\ StoresFor(t) /\ FreshQueue(pending', journal') /\ RecordFirst(pending', run', journal')
          /\ faults.kinds \subseteq faults'.kinds
      BY <1>1, <1>4, TurnFails
    <2>4. Known(t, run'[t], journal', faults'.kinds)
      <3>1. CASE journal' = journal
        BY <1>1, <2>1, <2>2, <2>3, <3>1, JournalNow, KnownGoes
      <3>2. CASE journal' # journal
        <4>1. PICK e \in OwnEvents :
                /\ e.turn = t /\ e.type \in Inside \cup Closing /\ Legal(journal.plan, e)
                /\ journal' = Stored(journal, e) /\ "lostReply" \in faults'.kinds
          BY <1>1, <1>4, <3>2, TurnFails
        <4>. QED BY <1>1, <2>1, <2>2, <4>1, KnownLost
      <3>. QED BY <3>1, <3>2
    <2>5. session' # "idle" /\ run'[t].at \notin Verdicts
      BY <1>2, <1>4, <2>1, MovedStages DEF Verdicts
    <2>. QED BY <1>2, <2>1, <2>3, <2>4, <2>5, TurnKeepsJournal
  <1>5. CASE AppendRejects /\ Ends(t, "persistence") /\ Answered(<<>>)
    <2>1. /\ StoresFor(t) /\ FreshQueue(pending', journal') /\ RecordFirst(pending', run', journal')
          /\ faults.kinds \subseteq faults'.kinds
      BY <1>1, <1>5, TurnFails
    <2>. QED BY <1>1, <1>2, <1>5, <2>1, SettlesJournal
  <1>. QED BY <1>3, <1>4, <1>5 DEF TerminalAppended

-----------------------------------------------------------------------------
(* The collectors, the records and the session keep JournalInv. *)

LEMMA FirstTail ==
  ASSUME NEW q \in Seq(Requests), q # <<>>, NEW rn, NEW J, RecordFirst(q, rn, J)
  PROVE  RecordFirst(Tail(q), rn, J)
  <1>1. /\ Len(q) \in Nat /\ Len(Tail(q)) = Len(q) - 1
        /\ \A i \in 1..(Len(q) - 1) : Tail(q)[i] = q[i + 1]
    BY TailFacts
  <1>2. ASSUME NEW i \in 1..Len(Tail(q)), Tail(q)[i].by = "recorder", Tail(q)[i].event = None
        PROVE  /\ J.plan = Ready
               /\ \A t \in Turn : rn[t].at \in InFlight => rn[t].at \in {"admitted", "loading"}
               /\ \A j \in 1..(i - 1) : Tail(q)[j].by # "turn"
    <2>1. i + 1 \in 1..Len(q) /\ Tail(q)[i] = q[i + 1]
      BY <1>1
    <2>2. \A j \in 1..(i - 1) : j + 1 \in 1..((i + 1) - 1) /\ Tail(q)[j] = q[j + 1]
      BY <1>1
    <2>. QED BY <1>2, <2>1, <2>2 DEF RecordFirst
  <1>. QED BY <1>2 DEF RecordFirst

LEMMA FirstAppend ==
  ASSUME NEW q \in Seq(Requests), NEW r \in Requests, NEW rn, NEW J, RecordFirst(q, rn, J),
         ~(r.by = "recorder" /\ r.event = None)
  PROVE  RecordFirst(Append(q, r), rn, J)
  <1>. DEFINE p == Append(q, r)
  <1>1. /\ Len(p) = Len(q) + 1 /\ Len(q) \in Nat
        /\ \A i \in 1..Len(q) : p[i] = q[i]
        /\ p[Len(q) + 1] = r
    BY AppendFacts
  <1>. HIDE DEF p
  <1>2. ASSUME NEW i \in 1..Len(p), p[i].by = "recorder", p[i].event = None
        PROVE  /\ J.plan = Ready
               /\ \A t \in Turn : rn[t].at \in InFlight => rn[t].at \in {"admitted", "loading"}
               /\ \A j \in 1..(i - 1) : p[j].by # "turn"
    <2>1. i \in 1..Len(q) /\ p[i] = q[i]
      BY <1>1, <1>2
    <2>2. \A j \in 1..(i - 1) : p[j] = q[j]
      BY <1>1, <2>1
    <2>. QED BY <1>2, <2>1, <2>2 DEF RecordFirst
  <1>. QED BY <1>2 DEF RecordFirst, p

LEMMA OthersJournal ==
  ASSUME JournalInv, Shape', NEW t0, StoresFor(t0),
         \A t \in Turn : run'[t].at = run[t].at /\ run'[t].started = run[t].started,
         \A t \in Turn : Known(t, run'[t], journal', faults'.kinds),
         FreshQueue(pending', journal'), RecordFirst(pending', run', journal'),
         NoRecord(pending', session'), faults.kinds \subseteq faults'.kinds,
         session' = "idle" => journal'.plan = Ready
  PROVE  JournalInv'
  <1>1. AnswerIsStored'
    <2>1. ASSUME "lostReply" \notin faults'.kinds, NEW u \in Turn,
                 run'[u].at \in Verdicts, run'[u].started
          PROVE  journal'.terminal[u] = TerminalOf[run'[u].at]
      <3>1. journal.terminal[u] = TerminalOf[run[u].at] /\ run'[u].at = run[u].at
        BY <2>1 DEF JournalInv, AnswerIsStored
      <3>2. TerminalOf[run[u].at] # None
        BY <2>1, <3>1, NothingAssumption DEF Verdicts, TerminalOf, Closing
      <3>. QED BY <3>1, <3>2 DEF StoresFor
    <2>. QED BY <2>1 DEF AnswerIsStored
  <1>. QED BY <1>1 DEF JournalInv, StoresFor, IdleIsClosed

\* Nothing is stored, and no turn moves.
LEMMA OthersAskJournal ==
  ASSUME JournalInv, Shape', UNCHANGED <<journal, run>>,
         FreshQueue(pending', journal), RecordFirst(pending', run, journal),
         NoRecord(pending', session'), faults.kinds \subseteq faults'.kinds,
         session' = "idle" => journal.plan = Ready
  PROVE  JournalInv'
  <1>1. ASSUME NEW t \in Turn
        PROVE  Known(t, run'[t], journal', faults'.kinds)
    BY JournalNow DEF Known
  <1>. QED BY <1>1, NothingStored, OthersJournal

LEMMA NoRecordTail ==
  ASSUME NEW q \in Seq(Requests), q # <<>>, NEW ss, NoRecord(q, ss)
  PROVE  NoRecord(Tail(q), ss)
  <1>1. \A i \in 1..Len(Tail(q)) : i + 1 \in 1..Len(q) /\ Tail(q)[i] = q[i + 1]
    BY TailFacts
  <1>. QED BY <1>1 DEF NoRecord

LEMMA NoRecordAppend ==
  ASSUME NEW q \in Seq(Requests), NEW r \in Requests, NEW ss, NoRecord(q, ss),
         r.by # "recorder" \/ ss \notin {"down", "resuming"}
  PROVE  NoRecord(Append(q, r), ss)
  <1>. DEFINE p == Append(q, r)
  <1>1. /\ Len(p) = Len(q) + 1 /\ Len(q) \in Nat
        /\ \A i \in 1..Len(q) : p[i] = q[i]
        /\ p[Len(q) + 1] = r
    BY AppendFacts
  <1>. HIDE DEF p
  <1>2. \A i \in 1..Len(p) : i \in 1..Len(q) \/ i = Len(q) + 1
    BY <1>1
  <1>. QED BY <1>1, <1>2 DEF NoRecord, p

\* What is left when an operation has been served and nothing was stored.
LEMMA RestJournal ==
  ASSUME JournalInv, pending # <<>>
  PROVE  /\ Tail(pending) \in Seq(Requests) /\ Tail(pending) \o <<>> = Tail(pending)
         /\ \A r \in Requests : Tail(pending) \o <<r>> = Append(Tail(pending), r)
         /\ FreshQueue(Tail(pending), journal)
         /\ RecordFirst(Tail(pending), run, journal)
         /\ NoRecord(Tail(pending), session)
  BY JournalNow, TailFacts, ServedRest, FreshTail, FirstTail, NoRecordTail DEF JournalInv

\* When the open turn's collector stores something no record is to be loaded.
LEMMA OpenNoLoads ==
  ASSUME JournalInv, journal.plan # Ready
  PROVE  NoLoads(pending)
  BY DEF JournalInv, RecordFirst, NoLoads

LEMMA OrphanAppendsJournal ==
  ASSUME JournalInv, Faults \subseteq Bearable, OrphanAppends
  PROVE  JournalInv'
  <1>. DEFINE e == Event("context.appended", orphan)
              r == AppendOf("orphan", orphan, run[orphan].version, e)
  <1>1. Shape /\ Shape' /\ pending \in Seq(Requests) /\ FreshQueue(pending, journal)
    BY JournalNow, OrphanAppendsShape
  <1>2. orphan \in Turn /\ run[orphan].at \notin Settled /\ pending' = Append(pending, r)
        /\ UNCHANGED <<journal, session, run, faults>>
    BY <1>1 DEF OrphanAppends, Ask, Bearable, Shape, TypeOK
  <1>3. run[orphan].started
    BY <1>1 DEF OrphanAppends, Shape
  <1>4. run[orphan].at \in InFlight \ Unstarted
    BY <1>1, <1>2, <1>3, StageOf DEF Stage, Runs
  <1>5. Fresh(r, journal)
    BY <1>2, <1>4, EntryType, TurnFresh
  <1>6. r \in Requests /\ r.by = "orphan"
    BY <1>1, <1>2, StageOf, EventsAsked DEF AppendOf, Requests
  <1>. HIDE DEF r
  <1>7. FreshQueue(pending', journal)
    BY <1>1, <1>2, <1>5, <1>6, FreshAppend
  <1>8. RecordFirst(pending', run, journal)
    BY <1>1, <1>2, <1>6, FirstAppend DEF JournalInv
  <1>9. NoRecord(pending', session')
    BY <1>1, <1>2, <1>6, NoRecordAppend DEF JournalInv
  <1>. QED BY <1>1, <1>2, <1>7, <1>8, <1>9, OthersAskJournal DEF JournalInv, IdleIsClosed

LEMMA OrphanAnsweredJournal ==
  ASSUME JournalInv, Faults \subseteq Bearable, NEW t \in Turn, OrphanAnswered(t)
  PROVE  JournalInv'
  <1>. DEFINE e == Head(pending).event
              q == Tail(pending)
  <1>1. Shape /\ Shape'
    BY JournalNow, OrphanAnsweredShape
  <1>2. /\ Serving("orphan", t) /\ Answered(<<>>) /\ UNCHANGED <<session, orphan>>
        /\ \/ AppendResolves /\ GoesOn(t, run[t].at)
           \/ AppendRejects /\ UNCHANGED run
    BY DEF OrphanAnswered
  <1>3. /\ pending # <<>> /\ e = Event("context.appended", t) /\ e \in OwnEvents
        /\ run[t].started /\ e.type \in Inside /\ e.turn = t /\ e.type \notin Opening
    BY <1>1, <1>2, OrphanServed, EntryType, EventTypes
  <1>4. /\ pending' = q /\ q \in Seq(Requests) /\ FreshQueue(q, journal)
        /\ RecordFirst(q, run, journal) /\ NoRecord(q, session)
    BY <1>2, <1>3, RestJournal DEF Answered
  <1>5. CASE UNCHANGED <<journal, run>> /\ AppendRejects
    <2>1. faults.kinds \subseteq faults'.kinds
      BY <1>3, <1>5, AppendFailed
    <2>. QED BY <1>1, <1>2, <1>4, <1>5, <2>1, OthersAskJournal DEF JournalInv, IdleIsClosed
  <1>6. ASSUME journal' = Stored(journal, e), Legal(journal.plan, e),
               \A u \in Turn \ {t} : run'[u] = run[u],
               run'[t].at = run[t].at, run'[t].started = run[t].started,
               \/ run'[t].version = run[t].version
               \/ run'[t].version = journal.version + 1,
               faults.kinds \subseteq faults'.kinds
        PROVE  JournalInv'
    <2>. HIDE DEF e
    <2>1. journal.plan = Interrupt(t) /\ journal'.plan = Interrupt(t)
          /\ journal'.opened = journal.opened
      BY <1>3, <1>6, JournalNow, StoredDoes
    <2>2. journal.plan # Ready /\ session' # "idle"
      BY <1>2, <2>1, PlanValues DEF JournalInv, IdleIsClosed
    <2>3. StoresFor(t) /\ FreshQueue(q, journal')
      BY <1>3, <1>4, <1>6, EventStored
    <2>4. RecordFirst(pending', run', journal')
      BY <1>1, <1>3, <1>4, <2>2, JournalNow, OpenNoLoads, NoLoadsTail, NoLoadsFirst
    <2>5. ASSUME NEW u \in Turn
          PROVE  Known(u, run'[u], journal', faults'.kinds)
      <3>1. CASE u = t
        <4>1. journal'.version = journal.version + 1 /\ journal.version \in Nat
              /\ run[t].version \in Nat
          BY <1>1, <1>6, StageOf, StoredVersion
        <4>2. run[t].at \notin Unstarted /\ run[t].at # "new"
          BY <1>1, <1>3, StageOf DEF Stage
        <4>3. run[t].at \in InFlight => run[t].version <= journal.version
          BY <4>1, <4>2, JournalNow DEF Known
        <4>4. run[t].at \in InFlight => run'[t].version <= journal'.version
          BY <1>6, <4>1, <4>3
        <4>. QED BY <1>6, <2>1, <3>1, <4>2, <4>4 DEF Known, Unstarted
      <3>2. CASE u # t
        <4>1. run'[u] = run[u] /\ journal.plan # Interrupt(u)
          BY <1>6, <2>1, <3>2, PlanValues
        <4>2. run[u].at \notin InFlight
          BY <2>2, <4>1, JournalNow DEF Known
        <4>3. run[u].at = "new" => u \notin journal'.opened
          BY <2>1, JournalNow DEF Known
        <4>. QED BY <4>1, <4>2, <4>3, Places3 DEF Known, InFlight
      <3>. QED BY <3>1, <3>2
    <2>6. \A u \in Turn : run'[u].at = run[u].at /\ run'[u].started = run[u].started
      BY <1>6
    <2>. QED BY <1>1, <1>2, <1>4, <1>6, <2>2, <2>3, <2>4, <2>5, <2>6, OthersJournal
  <1>7. CASE AppendRejects /\ UNCHANGED run /\ journal' # journal
    <2>1. /\ journal' = Stored(journal, e) /\ Legal(journal.plan, e)
          /\ faults.kinds \subseteq faults'.kinds
      BY <1>3, <1>7, AppendFailed DEF Rejected
    <2>. HIDE DEF e
    <2>. QED BY <1>6, <1>7, <2>1
  <1>8. CASE AppendResolves /\ GoesOn(t, run[t].at)
    <2>1. /\ journal' = Stored(journal, e) /\ Legal(journal.plan, e)
          /\ Head(pending).expected = journal.version /\ UNCHANGED faults
      BY <1>3, <1>8, AppendStored
    <2>2. Sets(t, run[t].at, journal.version + 1, run[t].started, run[t].verdict, run[t].attempt)
      BY <1>1, <1>2, <1>8, <2>1, OrphanSets
    <2>. HIDE DEF e
    <2>. QED BY <1>6, <2>1, <2>2 DEF Sets
  <1>. QED BY <1>2, <1>5, <1>7, <1>8

LEMMA RecordJournal ==
  ASSUME JournalInv, Record
  PROVE  JournalInv'
  <1>. DEFINE r == Load("recorder", None)
  <1>1. Shape /\ Shape' /\ pending \in Seq(Requests) /\ FreshQueue(pending, journal)
    BY JournalNow, RecordShape
  <1>2. session = "idle" /\ pending' = Append(pending, r)
        /\ UNCHANGED <<journal, session, run, orphan, faults>>
    BY DEF Record, Ask
  <1>3. r \in Requests /\ Fresh(r, journal)
    BY RecordRequests, LoadFresh
  <1>. HIDE DEF r
  <1>4. FreshQueue(pending', journal)
    BY <1>1, <1>2, <1>3, FreshAppend
  <1>5. \A t \in Turn : run[t].at \notin InFlight
    BY <1>1, <1>2 DEF Shape, Stages
  <1>6. RecordFirst(pending', run, journal)
    <2>1. journal.plan = Ready
      BY <1>2 DEF JournalInv, IdleIsClosed
    <2>2. \A j \in 1..Len(pending) : pending[j].by # "turn"
      BY <1>1, <1>5, Places3 DEF Shape, QueueOK, RequestOK, ByTurn
    <2>3. /\ Len(pending') = Len(pending) + 1 /\ Len(pending) \in Nat
          /\ \A i \in 1..Len(pending) : pending'[i] = pending[i]
      BY <1>1, <1>2, <1>3, AppendFacts
    <2>4. \A i \in 1..Len(pending') : \A j \in 1..(i - 1) : pending'[j].by # "turn"
      BY <2>2, <2>3
    <2>. QED BY <1>5, <2>1, <2>4 DEF RecordFirst
  <1>7. NoRecord(pending', session')
    BY <1>2 DEF NoRecord
  <1>. QED BY <1>1, <1>2, <1>4, <1>6, <1>7, OthersAskJournal DEF JournalInv, IdleIsClosed

LEMMA RecordLoadedJournal ==
  ASSUME JournalInv, RecordLoaded
  PROVE  JournalInv'
  <1>. DEFINE e == Event("context.recorded", None)
              r == AppendOf("recorder", None, journal.version, e)
              q == Tail(pending)
  <1>1. Shape /\ Shape' /\ pending \in Seq(Requests)
    BY JournalNow, RecordLoadedShape
  <1>2. /\ pending # <<>> /\ Head(pending).by = "recorder" /\ Head(pending).event = None
        /\ UNCHANGED <<session, run, orphan>>
        /\ \/ LoadResolves /\ Answered(<<r>>)
           \/ LoadRejects /\ Answered(<<>>)
    BY DEF RecordLoaded, Serving
  <1>3. journal' = journal /\ faults.kinds \subseteq faults'.kinds
    BY <1>2, LoadKinds
  <1>4. journal.plan = Ready /\ session \notin {"down", "resuming"}
    <2>1. Head(pending) = pending[1] /\ 1 \in 1..Len(pending)
      BY <1>1, <1>2, TailFacts
    <2>. QED BY <1>2, <2>1 DEF JournalInv, RecordFirst, NoRecord
  <1>5. /\ r \in Requests /\ r.by = "recorder" /\ r.event = e /\ r.expected = journal.version
        /\ journal.version \in Nat
    <2>1. journal.version \in Nat
      BY JournalNow, JournalFields
    <2>. QED BY <2>1, RecordRequests
  <1>6. Fresh(r, journal) /\ r.event # None
    <2>1. Legal(Ready, e)
      BY DEF Legal, Sessionwide, Event, Outside
    <2>2. e # None
      BY RecordRequests, NothingAssumption
    <2>. QED BY <1>4, <1>5, <2>1, <2>2 DEF Fresh
  <1>7. /\ q \in Seq(Requests) /\ q \o <<>> = q /\ q \o <<r>> = Append(q, r)
        /\ FreshQueue(q, journal) /\ RecordFirst(q, run, journal) /\ NoRecord(q, session)
    BY <1>2, <1>5, RestJournal
  <1>8. pending' = q \/ pending' = Append(q, r)
    BY <1>2, <1>7 DEF Answered
  <1>. HIDE DEF q, r, e
  <1>9. FreshQueue(pending', journal) /\ RecordFirst(pending', run, journal)
    BY <1>5, <1>6, <1>7, <1>8, FreshAppend, FirstAppend
  <1>10. NoRecord(pending', session')
    BY <1>2, <1>4 DEF NoRecord
  <1>. QED BY <1>1, <1>2, <1>3, <1>4, <1>9, <1>10, OthersAskJournal

LEMMA RecordedJournal ==
  ASSUME JournalInv, Faults \subseteq Bearable, Recorded
  PROVE  JournalInv'
  <1>. DEFINE e == Head(pending).event
              q == Tail(pending)
  <1>1. Shape /\ Shape'
    BY JournalNow, RecordedShape
  <1>2. /\ Serving("recorder", None) /\ e # None /\ Answered(<<>>)
        /\ UNCHANGED <<session, run, orphan>> /\ (AppendResolves \/ AppendRejects)
        /\ Head(pending).by = "recorder"
    BY DEF Recorded, Serving
  <1>3. /\ pending # <<>> /\ e = Event("context.recorded", None) /\ e \in OwnEvents
    BY <1>1, <1>2, RecorderServed
  <1>4. e.type \in Outside /\ e.type \notin Opening
    <2>1. Event("context.recorded", None).type = "context.recorded"
      BY DEF Event
    <2>. QED BY <1>3, <2>1 DEF Outside, Opening
  <1>5. /\ pending' = q /\ q \in Seq(Requests) /\ FreshQueue(q, journal)
        /\ RecordFirst(q, run, journal) /\ NoRecord(q, session)
    BY <1>2, <1>3, RestJournal DEF Answered
  <1>6. /\ faults.kinds \subseteq faults'.kinds
        /\ \/ journal' = journal
           \/ journal' = Stored(journal, e) /\ Legal(journal.plan, e)
    BY <1>2, <1>3, AppendStored, AppendFailed DEF Rejected
  <1>7. CASE journal' = journal
    BY <1>1, <1>2, <1>5, <1>6, <1>7, OthersAskJournal DEF JournalInv, IdleIsClosed
  <1>8. CASE journal' = Stored(journal, e) /\ Legal(journal.plan, e)
    <2>1. NoLoads(q)
      <3>1. \A i \in 1..Len(q) : q[i].by # "recorder"
        BY <1>1, <1>2, <1>3, QueueServed DEF Shape
      <3>. QED BY <3>1 DEF NoLoads
    <2>. HIDE DEF e, q
    <2>2. /\ journal.plan = Ready /\ journal'.plan = Ready /\ journal'.opened = journal.opened
          /\ \A t \in Turn : journal'.terminal[t] = journal.terminal[t]
      BY <1>3, <1>4, <1>8, JournalNow, StoredDoes
    <2>3. StoresFor(None) /\ FreshQueue(q, journal')
      BY <1>3, <1>4, <1>5, <1>8, EventStored
    <2>4. journal'.version = journal.version + 1 /\ journal.version \in Nat
      BY <1>8, JournalNow, JournalFields, StoredVersion
    <2>5. ASSUME NEW t \in Turn
          PROVE  Known(t, run'[t], journal', faults'.kinds)
      <3>1. run[t].version \in Nat /\ Known(t, run[t], journal, faults.kinds) /\ run'[t] = run[t]
        BY <1>1, <1>2, StageOf, JournalNow
      <3>2. journal.plan # Interrupt(t)
        BY <2>2, PlanValues
      <3>. QED BY <1>6, <2>2, <2>4, <3>1, <3>2 DEF Known
    <2>6. RecordFirst(pending', run', journal')
      BY <1>5, <2>1, NoLoadsFirst
    <2>. QED BY <1>1, <1>2, <1>5, <1>6, <2>2, <2>3, <2>5, <2>6, OthersJournal
  <1>. QED BY <1>6, <1>7, <1>8

LEMMA CloseSessionJournal ==
  ASSUME JournalInv, CloseSession
  PROVE  JournalInv'
  <1>1. ~Recording /\ session' = "down" /\ UNCHANGED <<journal, pending, run, orphan, faults>>
    BY DEF CloseSession
  <1>2. Shape'
    BY JournalNow, CloseSessionShape
  <1>3. NoRecord(pending', session')
    BY <1>1, JournalNow DEF Recording, NoRecord
  <1>. QED BY <1>1, <1>2, <1>3, JournalNow, OthersAskJournal DEF JournalInv

LEMMA ResumeJournal ==
  ASSUME JournalInv, Resume
  PROVE  JournalInv'
  <1>. DEFINE r == Load("resume", None)
  <1>1. Shape /\ Shape' /\ pending \in Seq(Requests) /\ FreshQueue(pending, journal)
    BY JournalNow, ResumeShape
  <1>2. session = "down" /\ session' = "resuming" /\ pending' = Append(pending, r)
        /\ UNCHANGED <<journal, run, orphan, faults>>
    BY DEF Resume, Ask
  <1>3. r \in Requests /\ r.by = "resume" /\ Fresh(r, journal)
    BY ResumeRequests, LoadFresh
  <1>. HIDE DEF r
  <1>4. FreshQueue(pending', journal) /\ RecordFirst(pending', run, journal)
    BY <1>1, <1>2, <1>3, FreshAppend, FirstAppend DEF JournalInv
  <1>5. NoRecord(pending', session')
    <2>1. NoRecord(pending, "resuming")
      BY <1>2 DEF JournalInv, NoRecord
    <2>. QED BY <1>1, <1>2, <1>3, <2>1, NoRecordAppend
  <1>. QED BY <1>1, <1>2, <1>4, <1>5, OthersAskJournal

LEMMA ResumeLoadedJournal ==
  ASSUME JournalInv, ResumeLoaded
  PROVE  JournalInv'
  <1>. DEFINE q == Tail(pending)
  <1>1. Shape /\ Shape'
    BY JournalNow, ResumeLoadedShape
  <1>2. Serving("resume", None) /\ UNCHANGED <<run, orphan>> /\ (LoadResolves \/ LoadRejects)
    BY DEF ResumeLoaded
  <1>3. pending # <<>> /\ session = "resuming"
    BY <1>1, <1>2, ResumeServed
  <1>4. journal' = journal /\ faults.kinds \subseteq faults'.kinds
    BY <1>2, LoadKinds
  <1>5. /\ q \in Seq(Requests) /\ q \o <<>> = q
        /\ \A r \in Requests : q \o <<r>> = Append(q, r)
        /\ FreshQueue(q, journal) /\ RecordFirst(q, run, journal) /\ NoRecord(q, "resuming")
    BY <1>3, RestJournal
  <1>6. CASE /\ session' \in {"idle", "down"} /\ Answered(<<>>)
             /\ session' = "idle" => journal.plan = Ready
    <2>1. pending' = q
      BY <1>5, <1>6 DEF Answered
    <2>. HIDE DEF q
    <2>2. NoRecord(pending', session')
      BY <1>5, <2>1 DEF NoRecord
    <2>. QED BY <1>1, <1>2, <1>4, <1>5, <1>6, <2>1, <2>2, OthersAskJournal
  <1>7. CASE /\ journal.plan.status = "interrupt" /\ UNCHANGED session
             /\ Answered(<<AppendOf("resume", None, journal.version,
                                    Event("turn.failed", journal.plan.turn))>>)
    <2>1. /\ journal.plan.turn \in Turn /\ journal.plan = Interrupt(journal.plan.turn)
          /\ journal.version \in Nat
      <3>1. journal.plan \in Plans /\ journal.version \in Nat
        BY JournalNow, JournalFields
      <3>2. journal.plan # Ready /\ journal.plan # Throws
        BY <1>7 DEF Ready, Throws
      <3>3. PICK u \in Turn : journal.plan = Interrupt(u)
        BY <3>1, <3>2 DEF Plans
      <3>. QED BY <3>1, <3>3 DEF Interrupt
    <2>. DEFINE e == Event("turn.failed", journal.plan.turn)
                r == AppendOf("resume", None, journal.version, e)
    <2>2. /\ r \in Requests /\ r.by = "resume" /\ r.expected = journal.version /\ r.event = e
          /\ e.own /\ e.type \in Closing /\ e.turn = journal.plan.turn
      BY <2>1, ResumeRequests, EntryType
    <2>3. Fresh(r, journal)
      BY <2>1, <2>2 DEF Fresh, Legal
    <2>4. pending' = Append(q, r)
      BY <1>5, <1>7, <2>2 DEF Answered
    <2>. HIDE DEF q, r, e
    <2>5. /\ FreshQueue(pending', journal) /\ RecordFirst(pending', run, journal)
          /\ NoRecord(pending', session')
      BY <1>3, <1>5, <1>7, <2>2, <2>3, <2>4, FreshAppend, FirstAppend, NoRecordAppend
    <2>. QED BY <1>1, <1>2, <1>3, <1>4, <1>7, <2>5, OthersAskJournal
  <1>. QED BY <1>6, <1>7 DEF ResumeLoaded

LEMMA ResumedJournal ==
  ASSUME JournalInv, Faults \subseteq Bearable, Resumed
  PROVE  JournalInv'
  <1>. DEFINE e == Head(pending).event
              q == Tail(pending)
  <1>1. Shape /\ Shape'
    BY JournalNow, ResumedShape
  <1>2. /\ Serving("resume", None) /\ e # None /\ Answered(<<>>) /\ UNCHANGED <<run, orphan>>
        /\ \/ AppendResolves /\ session' = "idle"
           \/ AppendRejects /\ session' = "down"
    BY DEF Resumed
  <1>3. /\ pending # <<>> /\ session = "resuming" /\ e \in OwnEvents
        /\ \E t \in Turn : e = Event("turn.failed", t)
    BY <1>1, <1>2, ResumeServed
  <1>4. e.type \in Closing /\ e.type \notin Opening
    BY <1>3 DEF Event, Closing, Opening
  <1>5. /\ pending' = q /\ q \in Seq(Requests) /\ FreshQueue(q, journal)
        /\ RecordFirst(q, run, journal) /\ NoRecord(q, "resuming")
    BY <1>2, <1>3, RestJournal DEF Answered
  <1>6. NoRecord(pending', session')
    BY <1>2, <1>5 DEF NoRecord
  <1>7. /\ faults.kinds \subseteq faults'.kinds
        /\ \/ journal' = journal /\ session' = "down"
           \/ journal' = Stored(journal, e) /\ Legal(journal.plan, e)
    BY <1>2, <1>3, AppendStored, AppendFailed DEF Rejected
  <1>8. CASE journal' = journal /\ session' = "down"
    BY <1>1, <1>2, <1>5, <1>6, <1>7, <1>8, OthersAskJournal
  <1>9. CASE journal' = Stored(journal, e) /\ Legal(journal.plan, e)
    <2>. HIDE DEF e, q
    <2>1. journal'.plan = Ready /\ journal'.opened = journal.opened
      BY <1>3, <1>4, <1>9, JournalNow, StoredDoes
    <2>2. StoresFor(None) /\ FreshQueue(q, journal')
      BY <1>3, <1>4, <1>5, <1>9, EventStored
    <2>3. \A t \in Turn : run[t].at \notin InFlight
      BY <1>1, <1>3 DEF Shape, Stages
    <2>4. \A t \in Turn : Known(t, run'[t], journal', faults'.kinds)
      BY <1>2, <2>1, <2>3, Places3, JournalNow DEF Known, InFlight
    <2>5. RecordFirst(pending', run', journal')
      <3>1. \A i \in 1..Len(q) : q[i].by # "recorder"
        BY <1>5 DEF NoRecord
      <3>. QED BY <1>5, <3>1 DEF RecordFirst
    <2>. QED BY <1>1, <1>2, <1>5, <1>6, <1>7, <2>1, <2>2, <2>4, <2>5, OthersJournal
  <1>. QED BY <1>7, <1>8, <1>9


\* A crash may store the append that is served.
LEMMA CrashJournal ==
  ASSUME JournalInv, Crash
  PROVE  JournalInv'
  <1>. DEFINE e == Head(pending).event
  <1>1. Shape /\ Shape'
    BY JournalNow, CrashShape
  <1>2. session' = "down" /\ pending' = <<>> /\ faults.kinds \subseteq faults'.kinds
    BY <1>1, KindsGrow DEF Crash
  <1>3. \/ journal' = journal
        \/ /\ pending # <<>> /\ e # None /\ Accepted(Head(pending))
           /\ journal' = Stored(journal, e)
    BY DEF Crash
  <1>4. /\ JournalOK(journal')
        /\ \A t \in Turn : t \in journal'.opened =>
             t \in journal.opened \/ run[t].at \in InFlight
        /\ \A t \in Turn : journal.terminal[t] # None =>
             journal'.terminal[t] = journal.terminal[t]
    <2>1. CASE journal' = journal
      BY <2>1, JournalNow
    <2>2. CASE /\ pending # <<>> /\ e # None /\ Accepted(Head(pending))
               /\ journal' = Stored(journal, e)
      <3>1. e \in OwnEvents
        BY <1>1, <2>2, HeadEvent DEF Requests
      <3>2. Legal(journal.plan, e)
        BY <2>2, <3>1, AcceptedLegal
      <3>3. e.type \in Opening => e.turn \in Turn /\ run[e.turn].at = "starting"
        BY <1>1, <2>2, <3>1, HeadOpens
      <3>. HIDE DEF e
      <3>4. e.type \in Opening => e.turn \notin journal.opened
        BY <3>3, JournalNow DEF Known, Unstarted
      <3>5. JournalOK(journal')
        BY <2>2, <3>1, <3>2, <3>3, <3>4, JournalNow, StoredOK
      <3>6. journal'.opened = IF e.type \in Opening THEN journal.opened \cup {e.turn}
                              ELSE journal.opened
        BY <2>2, StoredPlan
      <3>7. \A t \in Turn : journal.terminal[t] # None =>
              journal'.terminal[t] = journal.terminal[t]
        BY <2>2, TerminalsStay
      <3>8. "starting" \in InFlight
        BY DEF InFlight
      <3>. QED BY <3>3, <3>5, <3>6, <3>7, <3>8
    <2>. QED BY <1>3, <2>1, <2>2
  <1>5. ASSUME NEW t \in Turn
        PROVE  Known(t, run'[t], journal', faults'.kinds)
    <2>1. CASE run[t].at \in InFlight
      <3>1. run'[t].at \in Settled
        BY <1>1, <2>1, CrashRuns DEF Settled
      <3>. QED BY <3>1, KnownSettled
    <2>2. CASE run[t].at \notin InFlight
      <3>1. run'[t] = run[t]
        BY <1>1, <2>2, CrashRuns
      <3>2. run[t].at = "new" => t \notin journal'.opened
        BY <1>4, <2>2, JournalNow DEF Known
      <3>. QED BY <2>2, <3>1, <3>2, Places3 DEF Known, InFlight
    <2>. QED BY <2>1, <2>2
  <1>6. AnswerIsStored'
    <2>1. ASSUME "lostReply" \notin faults'.kinds, NEW u \in Turn,
                 run'[u].at \in Verdicts, run'[u].started
          PROVE  journal'.terminal[u] = TerminalOf[run'[u].at]
      <3>1. run'[u] = run[u]
        BY <1>1, <2>1, CrashRuns DEF Verdicts
      <3>2. journal.terminal[u] = TerminalOf[run[u].at]
        BY <1>2, <2>1, <3>1 DEF JournalInv, AnswerIsStored
      <3>3. TerminalOf[run[u].at] # None
        BY <2>1, <3>1, NothingAssumption DEF Verdicts, TerminalOf, Closing
      <3>. QED BY <1>4, <3>1, <3>2, <3>3
    <2>. QED BY <2>1 DEF AnswerIsStored
  <1>7. FreshQueue(pending', journal') /\ RecordFirst(pending', run', journal')
        /\ NoRecord(pending', session')
    BY <1>2 DEF FreshQueue, RecordFirst, NoRecord
  <1>. QED BY <1>1, <1>2, <1>4, <1>5, <1>6, <1>7 DEF JournalInv, IdleIsClosed

LEMMA InitJournal ==
  ASSUME Init
  PROVE  JournalInv
  <1>1. Shape
    BY InitShape
  <1>2. journal = EmptyJournal /\ pending = <<>> /\ session = "idle"
        /\ \A t \in Turn : run[t] = NewRun
    BY DEF Init
  <1>3. /\ journal.plan = Ready /\ journal.opened = {}
        /\ \A t \in Turn : journal.terminal[t] = None
    BY <1>2 DEF EmptyJournal
  <1>4. JournalOK(journal)
    BY <1>3, PlanValues DEF JournalOK
  <1>5. \A t \in Turn : run[t].at = "new" /\ ~run[t].started
    <2>1. NewRun.at = "new" /\ ~NewRun.started
      BY DEF NewRun
    <2>. QED BY <1>2, <2>1
  <1>6. \A t \in Turn : Known(t, run[t], journal, faults.kinds)
    BY <1>3, <1>5, Places3 DEF Known, Unstarted, InFlight
  <1>7. FreshQueue(pending, journal) /\ RecordFirst(pending, run, journal)
        /\ NoRecord(pending, session)
    BY <1>2 DEF FreshQueue, RecordFirst, NoRecord
  <1>8. IdleIsClosed /\ AnswerIsStored
    BY <1>3, <1>5 DEF IdleIsClosed, AnswerIsStored
  <1>. QED BY <1>1, <1>4, <1>6, <1>7, <1>8 DEF JournalInv

LEMMA NextJournal ==
  ASSUME JournalInv, Faults \subseteq Bearable, Next
  PROVE  JournalInv'
  <1>1. ASSUME NEW t \in Turn, StartTurn(t) \/ Abort(t) \/ Step(t)
        PROVE  JournalInv'
    BY <1>1, StartTurnJournal, AbortJournal, LoadConversationJournal, InterruptedJournal,
       AppendEntryJournal, RunCompletesJournal, AppendCompletedJournal,
       FlushContextJournal, LoadForTerminalJournal DEF Step
  <1>2. ASSUME Serve
        PROVE  JournalInv'
    <2>1. ASSUME NEW t \in Turn,
                 Loaded(t) \/ AppendStart(t) \/ Started(t) \/ EntryAppended(t)
          PROVE  JournalInv'
      BY <2>1, LoadedJournal, AppendStartJournal, StartedJournal, EntryAppendedJournal
    <2>2. ASSUME NEW t \in Turn,
                 Completed(t) \/ ContextFlushed(t) \/ AppendTerminal(t)
                   \/ TerminalAppended(t) \/ OrphanAnswered(t)
          PROVE  JournalInv'
      BY <2>2, CompletedJournal, ContextFlushedJournal, AppendTerminalJournal,
         TerminalAppendedJournal, OrphanAnsweredJournal
    <2>. QED BY <1>2, <2>1, <2>2, RecordLoadedJournal, RecordedJournal,
                ResumeLoadedJournal, ResumedJournal DEF Serve
  <1>. QED BY <1>1, <1>2, OrphanAppendsJournal, RecordJournal, CloseSessionJournal,
              CrashJournal, ResumeJournal DEF Next

LEMMA StutterJournal ==
  ASSUME JournalInv, UNCHANGED vars
  PROVE  JournalInv'
  <1>1. UNCHANGED <<journal, run, pending, session, faults>>
    BY DEF vars
  <1>. QED BY <1>1, JournalNow, StutterShape, OthersAskJournal DEF JournalInv, IdleIsClosed

\* Unless the append of a turn's start is stored and reported as failed, or a
\* collector appends behind the end of its turn, JournalInv always holds.
THEOREM Journaled ==
  ASSUME Faults \subseteq Bearable
  PROVE  Spec => []JournalInv
  <1>1. Init => JournalInv
    BY InitJournal
  <1>2. JournalInv /\ [Next]_vars => JournalInv'
    BY NextJournal, StutterJournal
  <1>. QED BY <1>1, <1>2, PTL DEF Spec

\* However many turns run, operations fail and processes die: plan() never
\* meets a stored history it refuses.
THEOREM JournalsAreRecoverable ==
  ASSUME Faults \subseteq Bearable
  PROVE  Spec => []JournalIsRecoverable
  <1>1. JournalInv => JournalIsRecoverable
    BY DEF JournalInv, JournalOK, JournalIsRecoverable
  <1>. QED BY <1>1, Journaled, PTL

\* A session that takes new turns has no open turn in its conversation.
THEOREM IdleSessionsAreClosed ==
  ASSUME Faults \subseteq Bearable
  PROVE  Spec => []IdleIsClosed
  <1>1. JournalInv => IdleIsClosed
    BY DEF JournalInv
  <1>. QED BY <1>1, Journaled, PTL

\* What the caller of a turn is told is what is stored of it, unless an answer
\* of the repository gets lost.
THEOREM AnswersAreStored ==
  ASSUME Faults \subseteq Bearable
  PROVE  Spec => []AnswerIsStored
  <1>1. JournalInv => AnswerIsStored
    BY DEF JournalInv
  <1>. QED BY <1>1, Journaled, PTL

-----------------------------------------------------------------------------
(* The conversation implements TurnLifecycle. *)

\* What a step may do to the conversation.
StoresOne ==
  \/ UNCHANGED journal
  \/ \E e \in OwnEvents :
       /\ journal' = Stored(journal, e) /\ Legal(journal.plan, e)
       /\ e.type \in Opening => e.turn \in Turn \ journal.opened

LEMMA HeadStoresOne ==
  ASSUME JournalInv, pending # <<>>, Head(pending).event \in OwnEvents,
         \/ journal' = journal
         \/ /\ Accepted(Head(pending))
            /\ journal' = Stored(journal, Head(pending).event)
  PROVE  StoresOne
  <1>. DEFINE e == Head(pending).event
  <1>1. CASE Accepted(Head(pending)) /\ journal' = Stored(journal, e)
    <2>1. Legal(journal.plan, e) /\ e \in OwnEvents
      BY <1>1, AcceptedLegal
    <2>2. e.type \in Opening => e.turn \in Turn /\ run[e.turn].at = "starting"
      BY JournalNow, HeadOpens
    <2>. HIDE DEF e
    <2>3. e.type \in Opening => e.turn \notin journal.opened
      BY <2>2, JournalNow DEF Known, Unstarted
    <2>. QED BY <1>1, <2>1, <2>2, <2>3 DEF StoresOne
  <1>. QED BY <1>1 DEF StoresOne

LEMMA AnswerStoresOne ==
  ASSUME JournalInv, pending # <<>>, Head(pending).event \in OwnEvents,
         AppendResolves \/ AppendRejects
  PROVE  StoresOne
  <1>1. \/ journal' = journal
        \/ /\ Accepted(Head(pending))
           /\ journal' = Stored(journal, Head(pending).event)
    BY DEF AppendResolves, AppendRejects
  <1>. QED BY <1>1, HeadStoresOne

LEMMA TurnStoresOne ==
  ASSUME JournalInv, NEW t \in Turn, Serving("turn", t),
         run[t].at \notin {"loading", "reading", "checking"},
         AppendResolves \/ AppendRejects
  PROVE  StoresOne
  BY JournalNow, TurnServed, AnswerStoresOne

LEMMA LoadStoresNothing ==
  ASSUME LoadResolves \/ LoadRejects
  PROVE  StoresOne
  BY DEF LoadResolves, LoadRejects, StoresOne

LEMMA NextStoresOne ==
  ASSUME JournalInv, Next
  PROVE  StoresOne
  <1>1. ASSUME NEW t \in Turn, StartTurn(t) \/ Abort(t) \/ Step(t)
        PROVE  StoresOne
    <2>1. UNCHANGED journal
      BY <1>1 DEF StartTurn, Abort, Step, LoadConversation, Interrupted, AppendEntry,
         RunCompletes, AppendCompleted, FlushContext, LoadForTerminal
    <2>. QED BY <2>1 DEF StoresOne
  <1>2. ASSUME NEW t \in Turn, Loaded(t) \/ AppendStart(t) \/ AppendTerminal(t)
        PROVE  StoresOne
    <2>1. LoadResolves \/ LoadRejects
      BY <1>2 DEF Loaded, AppendStart, AppendTerminal
    <2>. QED BY <2>1, LoadStoresNothing
  <1>3. ASSUME NEW t \in Turn,
               Started(t) \/ EntryAppended(t) \/ Completed(t) \/ ContextFlushed(t)
                 \/ TerminalAppended(t)
        PROVE  StoresOne
    <2>1. /\ Serving("turn", t) /\ (AppendResolves \/ AppendRejects)
          /\ run[t].at \in {"starting", "writing", "flushing", "completing",
                            "draining", "closing"}
      BY <1>3 DEF Started, EntryAppended, Completed, ContextFlushed, TerminalAppended
    <2>. QED BY <2>1, TurnStoresOne
  <1>4. ASSUME NEW t \in Turn, OrphanAnswered(t)
        PROVE  StoresOne
    <2>1. Serving("orphan", t) /\ (AppendResolves \/ AppendRejects)
      BY <1>4 DEF OrphanAnswered
    <2>2. pending # <<>> /\ Head(pending).event = Event("context.appended", t)
      BY <2>1, JournalNow, OrphanServed
    <2>3. Head(pending).event \in OwnEvents
      BY <2>2, EventsAsked
    <2>. QED BY <2>1, <2>2, <2>3, AnswerStoresOne
  <1>5. ASSUME RecordLoaded \/ ResumeLoaded
        PROVE  StoresOne
    <2>1. LoadResolves \/ LoadRejects
      BY <1>5 DEF RecordLoaded, ResumeLoaded
    <2>. QED BY <2>1, LoadStoresNothing
  <1>6. CASE Recorded
    <2>1. /\ Serving("recorder", None) /\ (AppendResolves \/ AppendRejects)
          /\ Head(pending).event # None
      BY <1>6 DEF Recorded
    <2>. QED BY <2>1, JournalNow, RecorderServed, AnswerStoresOne
  <1>7. CASE Resumed
    <2>1. /\ Serving("resume", None) /\ (AppendResolves \/ AppendRejects)
          /\ Head(pending).event # None
      BY <1>7 DEF Resumed
    <2>. QED BY <2>1, JournalNow, ResumeServed, AnswerStoresOne
  <1>8. CASE Crash
    <2>1. \/ journal' = journal
          \/ /\ pending # <<>> /\ Head(pending).event # None /\ Accepted(Head(pending))
             /\ journal' = Stored(journal, Head(pending).event)
      BY <1>8 DEF Crash
    <2>2. pending # <<>> /\ Head(pending).event # None => Head(pending).event \in OwnEvents
      BY JournalNow, HeadEvent DEF Requests
    <2>3. CASE journal' = journal
      BY <2>3 DEF StoresOne
    <2>. QED BY <2>1, <2>2, <2>3, HeadStoresOne
  <1>9. CASE OrphanAppends \/ Record \/ CloseSession \/ Resume
    <2>1. UNCHANGED journal
      BY <1>9 DEF OrphanAppends, Record, CloseSession, Resume
    <2>. QED BY <2>1 DEF StoresOne
  <1>. QED BY <1>1, <1>2, <1>3, <1>4, <1>5, <1>6, <1>7, <1>8, <1>9 DEF Next, Serve

LEMMA LifeIs ==
  /\ \A t \in Turn : Life[t] = IF t \notin journal.opened THEN "new"
                               ELSE IF journal.terminal[t] = None THEN "open"
                               ELSE "closed"
  /\ \A t \in Turn : Life'[t] = IF t \notin journal'.opened THEN "new"
                                ELSE IF journal'.terminal[t] = None THEN "open"
                                ELSE "closed"
  BY DEF Life

\* Only the turn the plan names is open.
LEMMA LifeOpen ==
  ASSUME JournalOK(journal), NEW t \in Turn
  PROVE  Life[t] = "open" <=> journal.plan = Interrupt(t)
  BY LifeIs DEF JournalOK

\* A turn's life goes on by one step, and the lives of others do not.
LEMMA LifeGoes ==
  ASSUME NEW t \in Turn, NEW x, Life'[t] = x,
         \A u \in Turn \ {t} : Life'[u] = Life[u]
  PROVE  Life' = [Life EXCEPT ![t] = x]
  <1>1. Life' = [u \in Turn |-> Life'[u]] /\ Life = [u \in Turn |-> Life[u]]
    BY DEF Life
  <1>. QED BY <1>1

LEMMA LifeStays ==
  ASSUME \A u \in Turn : Life'[u] = Life[u]
  PROVE  Life' = Life
  <1>1. Life' = [u \in Turn |-> Life'[u]] /\ Life = [u \in Turn |-> Life[u]]
    BY DEF Life
  <1>. QED BY <1>1

LEMMA EntriesAt ==
  ASSUME NEW J \in Journals, NEW e, NEW t \in Turn
  PROVE  /\ J.entries[t] \in Nat
         /\ e.type \in Inside /\ e.turn = t =>
              Stored(J, e).entries[t] = J.entries[t] + 1
         /\ ~(e.type \in Inside /\ e.turn = t) =>
              Stored(J, e).entries[t] = J.entries[t]
  <1>1. J.entries[t] \in Nat
    BY JournalFields
  <1>2. Stored(J, e).entries[t] =
          J.entries[t] + IF e.type \in Inside /\ e.turn = t THEN 1 ELSE 0
    BY DEF Stored
  <1>. QED BY <1>1, <1>2

LEMMA EntriesAll ==
  ASSUME NEW J \in Journals, NEW e
  PROVE  /\ Stored(J, e).entries = [t \in Turn |-> Stored(J, e).entries[t]]
         /\ J.entries = [t \in Turn |-> J.entries[t]]
  <1>1. J.entries = [t \in Turn |-> J.entries[t]]
    BY JournalFields
  <1>2. Stored(J, e).entries = [t \in Turn |-> Stored(J, e).entries[t]]
    BY DEF Stored
  <1>. QED BY <1>1, <1>2

LEMMA EntriesStay ==
  ASSUME NEW J \in Journals, NEW e, e.type \notin Inside
  PROVE  Stored(J, e).entries = J.entries
  <1>. DEFINE f == J.entries
              g == Stored(J, e).entries
  <1>1. g = [t \in Turn |-> g[t]] /\ f = [t \in Turn |-> f[t]]
    BY EntriesAll
  <1>2. ASSUME NEW t \in Turn
        PROVE  g[t] = f[t]
    BY EntriesAt
  <1>. HIDE DEF f, g
  <1>3. g = f
    BY <1>1, <1>2
  <1>. QED BY <1>3 DEF f, g

LEMMA EntriesGrow ==
  ASSUME NEW J \in Journals, NEW e, e.type \in Inside, e.turn \in Turn
  PROVE  Stored(J, e).entries = [J.entries EXCEPT ![e.turn] = @ + 1]
  <1>. DEFINE f == J.entries
              g == Stored(J, e).entries
              u == e.turn
  <1>1. g = [t \in Turn |-> g[t]] /\ f = [t \in Turn |-> f[t]]
    BY EntriesAll
  <1>2. g[u] = f[u] + 1 /\ u \in Turn
    BY EntriesAt
  <1>3. ASSUME NEW t \in Turn \ {u}
        PROVE  g[t] = f[t]
    BY EntriesAt
  <1>. HIDE DEF f, g, u
  <1>4. g = [f EXCEPT ![u] = f[u] + 1]
    BY <1>1, <1>2, <1>3
  <1>. QED BY <1>4 DEF f, g, u

LEMMA StoredLife ==
  ASSUME JournalInv, NEW e \in OwnEvents, journal' = Stored(journal, e),
         Legal(journal.plan, e),
         e.type \in Opening => e.turn \in Turn \ journal.opened
  PROVE  Lifecycle!Next \/ UNCHANGED <<Life, journal.entries>>
  <1>1. journal \in Journals /\ JournalOK(journal)
    BY JournalNow
  <1>2. CASE e.type \in Opening
    <2>1. /\ e.turn \in Turn /\ e.turn \notin journal.opened
          /\ journal'.opened = journal.opened \cup {e.turn}
          /\ \A t \in Turn : journal'.terminal[t] = journal.terminal[t]
      BY <1>1, <1>2, StoredDoes
    <2>2. journal.plan = Ready
      BY <1>2, EventTypes DEF Legal
    <2>3. journal.terminal[e.turn] = None
      BY <1>1, <2>1 DEF JournalOK
    <2>4. Life' = [Life EXCEPT ![e.turn] = "open"]
      <3>1. Life'[e.turn] = "open" /\ \A u \in Turn \ {e.turn} : Life'[u] = Life[u]
        BY <2>1, <2>3, LifeIs
      <3>. QED BY <2>1, <3>1, LifeGoes
    <2>5. Life[e.turn] = "new" /\ \A u \in Turn : Life[u] # "open"
      BY <1>1, <2>1, <2>2, LifeIs, LifeOpen, PlanValues
    <2>6. journal'.entries = journal.entries
      BY <1>1, <1>2, EventTypes, EntriesStay
    <2>. QED BY <2>1, <2>4, <2>5, <2>6 DEF Lifecycle!Next, Lifecycle!Open
  <1>3. CASE e.type \in Inside
    <2>1. /\ e.turn \in Turn /\ journal.plan = Interrupt(e.turn)
          /\ journal'.opened = journal.opened
          /\ \A t \in Turn : journal'.terminal[t] = journal.terminal[t]
      BY <1>1, <1>3, StoredDoes
    <2>2. Life[e.turn] = "open"
      BY <1>1, <2>1, LifeOpen
    <2>3. Life' = Life
      <3>1. \A u \in Turn : Life'[u] = Life[u]
        BY <2>1, LifeIs
      <3>. QED BY <3>1, LifeStays
    <2>4. journal'.entries = [journal.entries EXCEPT ![e.turn] = @ + 1]
      BY <1>1, <1>3, <2>1, EntriesGrow
    <2>. QED BY <2>1, <2>2, <2>3, <2>4 DEF Lifecycle!Next, Lifecycle!Store
  <1>4. CASE e.type \in Outside
    <2>1. /\ journal'.opened = journal.opened
          /\ \A t \in Turn : journal'.terminal[t] = journal.terminal[t]
      BY <1>1, <1>4, StoredDoes
    <2>2. Life' = Life
      <3>1. \A u \in Turn : Life'[u] = Life[u]
        BY <2>1, LifeIs
      <3>. QED BY <3>1, LifeStays
    <2>3. journal'.entries = journal.entries
      BY <1>1, <1>4, EventTypes, EntriesStay
    <2>. QED BY <2>2, <2>3
  <1>5. CASE e.type \in Closing
    <2>1. /\ e.turn \in Turn /\ journal.plan = Interrupt(e.turn)
          /\ journal'.opened = journal.opened /\ journal'.terminal[e.turn] = e.type
          /\ \A t \in Turn \ {e.turn} : journal'.terminal[t] = journal.terminal[t]
      BY <1>1, <1>5, StoredDoes
    <2>2. Life[e.turn] = "open"
      BY <1>1, <2>1, LifeOpen
    <2>3. e.type # None
      BY <1>5, NothingAssumption
    <2>4. Life' = [Life EXCEPT ![e.turn] = "closed"]
      <3>1. Life'[e.turn] = "closed" /\ \A u \in Turn \ {e.turn} : Life'[u] = Life[u]
        BY <2>1, <2>2, <2>3, LifeIs
      <3>. QED BY <2>1, <3>1, LifeGoes
    <2>5. journal'.entries = journal.entries
      BY <1>1, <1>5, EventTypes, EntriesStay
    <2>. QED BY <2>1, <2>2, <2>4, <2>5 DEF Lifecycle!Next, Lifecycle!Close
  <1>. QED BY <1>2, <1>3, <1>4, <1>5, EventTypes

LEMMA StepIsLife ==
  ASSUME JournalInv, [Next]_vars
  PROVE  [Lifecycle!Next]_<<Life, journal.entries>>
  <1>1. StoresOne
    <2>1. CASE UNCHANGED vars
      BY <2>1 DEF vars, StoresOne
    <2>. QED BY <2>1, NextStoresOne
  <1>2. CASE UNCHANGED journal
    BY <1>2 DEF Life
  <1>. QED BY <1>1, <1>2, StoredLife DEF StoresOne

LEMMA InitIsLife ==
  ASSUME Init
  PROVE  Lifecycle!Init
  <1>1. journal.opened = {} /\ journal.entries = [t \in Turn |-> 0]
    BY DEF Init, EmptyJournal
  <1>2. Life = [t \in Turn |-> "new"]
    BY <1>1 DEF Life
  <1>. QED BY <1>1, <1>2 DEF Lifecycle!Init

\* The stored conversation implements the abstract life of turns: whatever is
\* stored opens a turn while no turn is open, adds to the open turn or closes it,
\* once.
THEOREM ConversationsAreSerial ==
  ASSUME Faults \subseteq Bearable
  PROVE  Spec => TurnsAreSerial
  <1>1. Init => Lifecycle!Init
    BY InitIsLife
  <1>2. JournalInv /\ [Next]_vars => [Lifecycle!Next]_<<Life, journal.entries>>
    BY StepIsLife
  <1>. QED BY <1>1, <1>2, Journaled, PTL DEF Spec, TurnsAreSerial, Lifecycle!Spec
-----------------------------------------------------------------------------
(* What a turn's second attempt counts on stays true. *)

\* No collector comes to work for t, and none asks again.
SameLeft(t, q, o, q2, o2) ==
  /\ OneLeft(t, q, o) => OneLeft(t, q2, o2)
  /\ NoneLeft(t, q, o) => NoneLeft(t, q2, o2)

\* What turns ask for in q2 they asked for in q.
FromTurns(q2, q) ==
  \A i \in 1..Len(q2) : q2[i].by = "turn" => \E j \in 1..Len(q) : q[j] = q2[i]

LEMMA LeftTail ==
  ASSUME NEW t, NEW o, NEW q \in Seq(Requests), q # <<>>
  PROVE  SameLeft(t, q, o, Tail(q), o) /\ FromTurns(Tail(q), q)
  <1>. DEFINE p == Tail(q)
  <1>1. \A i \in 1..Len(p) : i + 1 \in 1..Len(q) /\ p[i] = q[i + 1] /\ i \in Nat
    BY TailFacts
  <1>. HIDE DEF p
  <1>2. NoneWaits(t, q) => NoneWaits(t, p)
    BY <1>1 DEF NoneWaits
  <1>3. ASSUME \A i, j \in 1..Len(q) : Waits(q[i], t) /\ Waits(q[j], t) => i = j,
               NEW i \in 1..Len(p), NEW j \in 1..Len(p), Waits(p[i], t), Waits(p[j], t)
        PROVE  i = j
    <2>1. i + 1 = j + 1 /\ i \in Nat /\ j \in Nat
      BY <1>1, <1>3
    <2>. QED BY <2>1
  <1>4. FromTurns(p, q)
    BY <1>1 DEF FromTurns
  <1>. QED BY <1>2, <1>3, <1>4 DEF SameLeft, OneLeft, NoneLeft, p

LEMMA LeftAppend ==
  ASSUME NEW t, NEW o, NEW q \in Seq(Requests), NEW r \in Requests, r.by # "orphan"
  PROVE  /\ SameLeft(t, q, o, Append(q, r), o)
         /\ r.by # "turn" => FromTurns(Append(q, r), q)
  <1>. DEFINE p == Append(q, r)
  <1>1. /\ Len(p) = Len(q) + 1 /\ Len(q) \in Nat
        /\ \A i \in 1..Len(q) : p[i] = q[i]
        /\ p[Len(q) + 1] = r
    BY AppendFacts
  <1>. HIDE DEF p
  <1>2. \A i \in 1..Len(p) : i \in 1..Len(q) \/ i = Len(q) + 1
    BY <1>1
  <1>3. \A i \in 1..Len(p) : Waits(p[i], t) => i \in 1..Len(q) /\ p[i] = q[i]
    BY <1>1, <1>2 DEF Waits
  <1>4. NoneWaits(t, q) => NoneWaits(t, p)
    BY <1>3 DEF NoneWaits
  <1>5. (\A i, j \in 1..Len(q) : Waits(q[i], t) /\ Waits(q[j], t) => i = j)
          => \A i, j \in 1..Len(p) : Waits(p[i], t) /\ Waits(p[j], t) => i = j
    BY <1>3
  <1>6. r.by # "turn" => FromTurns(p, q)
    BY <1>1, <1>2 DEF FromTurns
  <1>. QED BY <1>4, <1>5, <1>6 DEF SameLeft, OneLeft, NoneLeft, p

LEMMA LeftTrans ==
  ASSUME NEW t, NEW o, NEW q, NEW p, NEW r, SameLeft(t, q, o, p, o), SameLeft(t, p, o, r, o)
  PROVE  SameLeft(t, q, o, r, o)
  BY DEF SameLeft

LEMMA FromTrans ==
  ASSUME NEW q, NEW p, NEW r, FromTurns(p, q), FromTurns(r, p)
  PROVE  FromTurns(r, q)
  BY DEF FromTurns

\* The operations that are asked for and answered, as every step that leaves the
\* collectors alone does it.
Lefts == orphan' = orphan /\ \A t \in Turn : SameLeft(t, pending, orphan, pending', orphan')

LEMMA LeftsKept ==
  ASSUME Shape, orphan' = orphan
  PROVE  /\ UNCHANGED pending => Lefts /\ FromTurns(pending', pending)
         /\ \A r \in Requests : r.by # "orphan" /\ Ask(r) =>
              Lefts /\ (r.by # "turn" => FromTurns(pending', pending))
         /\ pending # <<>> /\ Answered(<<>>) => Lefts /\ FromTurns(pending', pending)
         /\ \A r \in Requests : pending # <<>> /\ r.by # "orphan" /\ Answered(<<r>>) =>
              Lefts /\ (r.by # "turn" => FromTurns(pending', pending))
  <1>1. pending \in Seq(Requests)
    BY DEF Shape, TypeOK
  <1>2. ASSUME UNCHANGED pending
        PROVE  Lefts /\ FromTurns(pending', pending)
    BY <1>2 DEF Lefts, SameLeft, FromTurns
  <1>3. ASSUME NEW r \in Requests, r.by # "orphan", Ask(r)
        PROVE  Lefts /\ (r.by # "turn" => FromTurns(pending', pending))
    BY <1>1, <1>3, LeftAppend DEF Lefts, Ask
  <1>4. ASSUME pending # <<>>
        PROVE  /\ Answered(<<>>) => Lefts /\ FromTurns(pending', pending)
               /\ \A r \in Requests : r.by # "orphan" /\ Answered(<<r>>) =>
                    Lefts /\ (r.by # "turn" => FromTurns(pending', pending))
    <2>. DEFINE q == Tail(pending)
    <2>1. /\ q \in Seq(Requests) /\ q \o <<>> = q
          /\ \A r \in Requests : q \o <<r>> = Append(q, r)
      BY <1>1, <1>4, TailFacts, ServedRest
    <2>2. /\ Answered(<<>>) => pending' = q
          /\ \A r \in Requests : Answered(<<r>>) => pending' = Append(q, r)
      BY <2>1 DEF Answered
    <2>3. FromTurns(q, pending) /\ \A t \in Turn : SameLeft(t, pending, orphan, q, orphan)
      BY <1>1, <1>4, LeftTail
    <2>. HIDE DEF q
    <2>4. Answered(<<>>) => Lefts /\ FromTurns(pending', pending)
      BY <2>2, <2>3 DEF Lefts
    <2>5. ASSUME NEW r \in Requests, r.by # "orphan", Answered(<<r>>)
          PROVE  Lefts /\ (r.by # "turn" => FromTurns(pending', pending))
      <3>1. pending' = Append(q, r)
        BY <2>2, <2>5
      <3>2. \A t \in Turn : SameLeft(t, q, orphan, pending', orphan)
        BY <2>1, <2>5, <3>1, LeftAppend
      <3>3. \A t \in Turn : SameLeft(t, pending, orphan, pending', orphan)
        BY <2>3, <3>2, LeftTrans
      <3>4. r.by # "turn" => FromTurns(pending', pending)
        BY <2>1, <2>3, <2>5, <3>1, LeftAppend, FromTrans
      <3>. QED BY <3>3, <3>4 DEF Lefts
    <2>. QED BY <2>4, <2>5
  <1>. QED BY <1>2, <1>3, <1>4

LEMMA CollectingGoes ==
  ASSUME NEW t, NEW x, NEW y, NEW q, NEW o, NEW q2, NEW o2, NEW K, NEW K2,
         Collecting(t, x, q, o, K), SameLeft(t, q, o, q2, o2), K \subseteq K2,
         x.at \in Caught \cup Settled => y.at \in Caught \cup Settled
  PROVE  Collecting(t, y, q2, o2, K2)
  BY DEF Collecting, SameLeft

\* A turn that is not about to store its terminal counts on nothing.
LEMMA RetryCalm ==
  ASSUME NEW t, NEW x, NEW y, NEW q, NEW o, NEW q2, NEW o2, NEW J, NEW J2, NEW K, NEW K2,
         RetryOf(t, x, q, o, J, K), SameLeft(t, q, o, q2, o2), K \subseteq K2,
         x.at \in Caught \cup Settled => y.at \in Caught \cup Settled,
         y.at # "closing", ~(y.at = "checking" /\ y.attempt = 1)
  PROVE  RetryOf(t, y, q2, o2, J2, K2)
  <1>1. Collecting(t, y, q2, o2, K2)
    BY CollectingGoes DEF RetryOf
  <1>2. Stale(t, y, q2, o2, J2, K2) /\ SecondAttempt(t, y, q2, o2, J2, K2)
    BY DEF Stale, SecondAttempt
  <1>. QED BY <1>1, <1>2 DEF RetryOf

\* Nor does one that is not the open turn.
LEMMA RetryOther ==
  ASSUME NEW t, NEW x, NEW y, NEW q, NEW o, NEW q2, NEW o2, NEW J, NEW J2, NEW K, NEW K2,
         RetryOf(t, x, q, o, J, K), SameLeft(t, q, o, q2, o2), K \subseteq K2,
         y.at = x.at, J.plan # Interrupt(t), J2.plan # Interrupt(t)
  PROVE  RetryOf(t, y, q2, o2, J2, K2)
  <1>1. Collecting(t, y, q2, o2, K2)
    BY CollectingGoes DEF RetryOf
  <1>2. CASE "refused" \in K
    BY <1>1, <1>2 DEF RetryOf
  <1>3. CASE "refused" \notin K
    <2>1. x.at # "closing"
      BY <1>3 DEF RetryOf, Stale
    <2>2. Stale(t, y, q2, o2, J2, K2) /\ SecondAttempt(t, y, q2, o2, J2, K2)
      BY <2>1 DEF Stale, SecondAttempt
    <2>. QED BY <1>1, <2>2 DEF RetryOf
  <1>. QED BY <1>2, <1>3

\* Nothing is stored, and the turn asks for nothing and gets no answer.
LEMMA RetrySame ==
  ASSUME NEW t, NEW x, NEW y, NEW q, NEW o, NEW q2, NEW o2, NEW J, NEW J2, NEW K, NEW K2,
         RetryOf(t, x, q, o, J, K), SameLeft(t, q, o, q2, o2), K \subseteq K2,
         y.at = x.at, y.attempt = x.attempt,
         J2.plan = J.plan, J2.version = J.version, FromTurns(q2, q)
  PROVE  RetryOf(t, y, q2, o2, J2, K2)
  <1>1. Collecting(t, y, q2, o2, K2)
    BY CollectingGoes DEF RetryOf
  <1>2. CASE "refused" \in K
    BY <1>1, <1>2 DEF RetryOf
  <1>3. CASE "refused" \notin K
    <2>1. Stale(t, x, q, o, J, K) /\ SecondAttempt(t, x, q, o, J, K)
      BY <1>3 DEF RetryOf
    <2>2. ASSUME y.at = "closing"
          PROVE  /\ J2.plan = Interrupt(t)
                 /\ \A i \in 1..Len(q2) :
                      q2[i].by = "turn" /\ q2[i].expected # J2.version =>
                        NoneLeft(t, q2, o2) /\ "orphan" \in K2 /\ y.attempt = 0
      BY <2>1, <2>2 DEF Stale, SameLeft, FromTurns
    <2>3. Stale(t, y, q2, o2, J2, K2)
      BY <2>2 DEF Stale
    <2>4. SecondAttempt(t, y, q2, o2, J2, K2)
      BY <2>1 DEF SecondAttempt, SameLeft
    <2>. QED BY <1>1, <2>3, <2>4 DEF RetryOf
  <1>. QED BY <1>2, <1>3

LEMMA RetryNow ==
  ASSUME RetryInv
  PROVE  /\ JournalInv /\ Shape /\ NotStrandedLightly
         /\ \A t \in Turn : RetryOf(t, run[t], pending, orphan, journal, faults.kinds)
         /\ faults.kinds \in SUBSET FaultKinds
  BY JournalNow DEF RetryInv, Retries

\* Retries holds after a step if it holds of each turn, and if the session does
\* not come to need recovery.
LEMMA RetriesAll ==
  ASSUME RetryInv, faults.kinds \subseteq faults'.kinds,
         session' = "recovery_required" => session = "recovery_required",
         \A u \in Turn : RetryOf(u, run'[u], pending', orphan', journal', faults'.kinds)
  PROVE  Retries'
  <1>1. NotStrandedLightly'
    BY RetryNow DEF NotStrandedLightly
  <1>. QED BY <1>1 DEF Retries

\* A step after which no turn stores its terminal or tries to once more.
LEMMA AllCalm ==
  ASSUME RetryInv, faults.kinds \subseteq faults'.kinds,
         session' = "recovery_required" => session = "recovery_required",
         \A u \in Turn : SameLeft(u, pending, orphan, pending', orphan'),
         \A u \in Turn : run[u].at \in Caught \cup Settled => run'[u].at \in Caught \cup Settled,
         \A u \in Turn : run'[u].at \notin {"checking", "closing"}
  PROVE  Retries'
  <1>1. ASSUME NEW u \in Turn
        PROVE  RetryOf(u, run'[u], pending', orphan', journal', faults'.kinds)
    BY RetryNow, RetryCalm
  <1>. QED BY <1>1, RetriesAll

\* A step that stores nothing and moves no turn.
LEMMA AllSame ==
  ASSUME RetryInv, faults.kinds \subseteq faults'.kinds,
         session' = "recovery_required" => session = "recovery_required",
         \A u \in Turn : SameLeft(u, pending, orphan, pending', orphan'),
         \A u \in Turn : run'[u].at = run[u].at /\ run'[u].attempt = run[u].attempt,
         UNCHANGED journal, FromTurns(pending', pending)
  PROVE  Retries'
  <1>1. ASSUME NEW u \in Turn
        PROVE  RetryOf(u, run'[u], pending', orphan', journal', faults'.kinds)
    BY RetryNow, RetrySame
  <1>. QED BY <1>1, RetriesAll

\* A turn moves; the others are not in flight.
LEMMA TurnRetries ==
  ASSUME RetryInv, NEW t \in Turn, TurnMoves(t), faults.kinds \subseteq faults'.kinds,
         \A u \in Turn \ {t} : SameLeft(u, pending, orphan, pending', orphan'),
         RetryOf(t, run'[t], pending', orphan', journal', faults'.kinds),
         NotStrandedLightly'
  PROVE  Retries'
  <1>1. ASSUME NEW u \in Turn \ {t}
        PROVE  RetryOf(u, run'[u], pending', orphan', journal', faults'.kinds)
    <2>1. run'[u] = run[u] /\ run[u].at \notin InFlight
      BY RetryNow DEF TurnMoves, Shape, Stages
    <2>2. run'[u].at # "closing" /\ run'[u].at # "checking"
      BY <2>1 DEF InFlight
    <2>. QED BY <2>1, <2>2, RetryNow, RetryCalm
  <1>. QED BY <1>1 DEF Retries

LEMMA TurnCalm ==
  ASSUME RetryInv, NEW t \in Turn, TurnMoves(t), faults.kinds \subseteq faults'.kinds, Lefts,
         run[t].at \in Caught => run'[t].at \in Caught \cup Settled,
         run'[t].at # "closing", ~(run'[t].at = "checking" /\ run'[t].attempt = 1),
         session' # "recovery_required"
  PROVE  Retries'
  <1>1. run[t].at \notin Settled
    BY Places3 DEF TurnMoves
  <1>2. RetryOf(t, run'[t], pending', orphan', journal', faults'.kinds)
    BY <1>1, RetryNow, RetryCalm DEF Lefts
  <1>3. NotStrandedLightly'
    BY DEF NotStrandedLightly
  <1>. QED BY <1>2, <1>3, TurnRetries DEF Lefts

LEMMA GoesRetries ==
  ASSUME RetryInv, NEW t \in Turn, run[t].at \in InFlight, NEW a \in InFlight \ {"closing"},
         Goes(t, a),
         a \in Unstarted <=> run[t].at \in Unstarted, a \in Caught <=> run[t].at \in Caught,
         run[t].at \notin {"checking", "closing"},
         faults.kinds \subseteq faults'.kinds, Lefts, session' = session
  PROVE  Retries'
  <1>1. Shape /\ run[t].attempt # 1
    BY RetryNow, StageOf, Places3 DEF Stage
  <1>2. /\ TurnMoves(t)
        /\ Sets(t, a, run[t].version, run[t].started, run[t].verdict, run[t].attempt)
    BY <1>1, GoesDoes
  <1>3. session' # "recovery_required"
    BY <1>1, <1>2, MovedStages
  <1>. QED BY <1>1, <1>2, <1>3, TurnCalm DEF Sets

LEMMA GoesOnRetries ==
  ASSUME RetryInv, NEW t \in Turn, run[t].at \in InFlight \ Unstarted,
         NEW a \in InFlight \ (Unstarted \cup {"closing"}), GoesOn(t, a), Serving("turn", t),
         a \in Caught <=> run[t].at \in Caught,
         run[t].at \notin {"checking", "closing"},
         faults.kinds \subseteq faults'.kinds, Lefts, session' = session
  PROVE  Retries'
  <1>1. Shape /\ run[t].attempt # 1
    BY RetryNow, StageOf, Places3 DEF Stage
  <1>2. /\ TurnMoves(t)
        /\ Sets(t, a, Head(pending).expected + 1, run[t].started, run[t].verdict, run[t].attempt)
    BY <1>1, GoesOnDoes
  <1>3. session' # "recovery_required"
    BY <1>1, <1>2, MovedStages
  <1>. QED BY <1>1, <1>2, <1>3, TurnCalm DEF Sets

LEMMA CatchRetries ==
  ASSUME RetryInv, NEW t \in Turn, run[t].at \in InFlight \ {"checking", "closing"},
         NEW verdict \in Verdicts, Catch(t, verdict),
         faults.kinds \subseteq faults'.kinds, Lefts
  PROVE  Retries'
  <1>1. Shape
    BY RetryNow
  <1>2. /\ TurnMoves(t) /\ session = "running"
        /\ \/ run'[t].at = "ending" /\ session' = session
           \/ run'[t].at = verdict /\ session' = "idle"
    BY <1>1, CatchDoes, MovedStages DEF Sets
  <1>3. run'[t].at \in Caught \cup Settled /\ run'[t].at \notin {"checking", "closing"}
    BY <1>2 DEF Caught, Settled, Verdicts
  <1>. QED BY <1>2, <1>3, TurnCalm

LEMMA EndsRetries ==
  ASSUME RetryInv, NEW t \in Turn, run[t].at \in InFlight, NEW verdict \in Verdicts,
         Ends(t, verdict), faults.kinds \subseteq faults'.kinds, Lefts
  PROVE  Retries'
  <1>1. TurnMoves(t) /\ run'[t].at = verdict /\ session' = "idle"
    <2>1. verdict # "persistence"
      BY DEF Verdicts
    <2>. QED BY <2>1, RetryNow, EndsDoes DEF Sets, Ends
  <1>2. run'[t].at \in Settled /\ run'[t].at \notin {"checking", "closing"}
    BY <1>1 DEF Settled, Verdicts
  <1>. QED BY <1>1, <1>2, TurnCalm

LEMMA StartTurnRetries ==
  ASSUME RetryInv, NEW t \in Turn, StartTurn(t)
  PROVE  Retries'
  <1>1. /\ Shape /\ Goes(t, "admitted") /\ run[t].at = "new" /\ session = "idle"
        /\ session' = "running" /\ UNCHANGED <<journal, pending, orphan, faults>>
    BY RetryNow DEF StartTurn
  <1>2. Sets(t, "admitted", run[t].version, run[t].started, run[t].verdict, run[t].attempt)
    BY <1>1, StageOf, GoesSets DEF Places, InFlight
  <1>3. \A u \in Turn : SameLeft(u, pending, orphan, pending', orphan')
    BY <1>1, LeftsKept DEF Lefts
  <1>4. \A u \in Turn : run[u].at \notin InFlight
    BY <1>1 DEF Shape, Stages
  <1>5. ASSUME NEW u \in Turn
        PROVE  /\ run[u].at \in Caught \cup Settled => run'[u].at \in Caught \cup Settled
               /\ run'[u].at \notin {"checking", "closing"}
    <2>1. CASE u = t
      BY <1>1, <1>2, <2>1 DEF Sets, Caught, Settled, Verdicts
    <2>2. CASE u # t
      BY <1>2, <1>4, <2>2 DEF Sets, InFlight
    <2>. QED BY <2>1, <2>2
  <1>. QED BY <1>1, <1>3, <1>5, AllCalm

LEMMA AbortRetries ==
  ASSUME RetryInv, NEW t \in Turn, Abort(t)
  PROVE  Retries'
  <1>1. Shape /\ UNCHANGED <<journal, pending, session, orphan, faults>>
        /\ run' = [run EXCEPT ![t].aborted = TRUE]
    BY RetryNow DEF Abort
  <1>2. Sets(t, run[t].at, run[t].version, run[t].started, run[t].verdict, run[t].attempt)
    BY <1>1, StageOf, AbortedSets
  <1>3. \A u \in Turn : run'[u].at = run[u].at /\ run'[u].attempt = run[u].attempt
    BY <1>2 DEF Sets
  <1>4. FromTurns(pending', pending)
        /\ \A u \in Turn : SameLeft(u, pending, orphan, pending', orphan')
    BY <1>1, LeftsKept DEF Lefts
  <1>. QED BY <1>1, <1>3, <1>4, AllSame

\* A turn asks for an operation.
LEMMA AsksRetries ==
  ASSUME RetryInv, NEW t \in Turn, run[t].at \in InFlight, NEW a \in InFlight \ {"closing"},
         Goes(t, a),
         a \in Unstarted <=> run[t].at \in Unstarted, a \in Caught <=> run[t].at \in Caught,
         run[t].at \notin {"checking", "closing"},
         NEW r \in Requests, r.by = "turn", Ask(r), UNCHANGED <<session, orphan, faults>>
  PROVE  Retries'
  <1>1. Lefts
    BY RetryNow, LeftsKept
  <1>. QED BY <1>1, GoesRetries

LEMMA LoadConversationRetries ==
  ASSUME RetryInv, NEW t \in Turn, LoadConversation(t)
  PROVE  Retries'
  BY RequestsAsked, AsksRetries DEF LoadConversation, InFlight, Unstarted, Caught

LEMMA AppendEntryRetries ==
  ASSUME RetryInv, NEW t \in Turn, AppendEntry(t)
  PROVE  Retries'
  <1>1. run[t].version \in Nat
    BY RetryNow, StageOf
  <1>2. AppendOf("turn", t, run[t].version, Entry(t)) \in Requests
        /\ AppendOf("turn", t, run[t].version, Entry(t)).by = "turn"
    BY <1>1, RequestsAsked, EventsAsked
  <1>3. CASE run[t].at = "running" /\ Goes(t, "writing")
    BY <1>2, <1>3, AsksRetries DEF AppendEntry, InFlight, Unstarted, Caught
  <1>4. CASE run[t].at = "finalizing" /\ Goes(t, "flushing")
    BY <1>2, <1>4, AsksRetries DEF AppendEntry, InFlight, Unstarted, Caught
  <1>. QED BY <1>3, <1>4 DEF AppendEntry

LEMMA AppendCompletedRetries ==
  ASSUME RetryInv, NEW t \in Turn, AppendCompleted(t)
  PROVE  Retries'
  <1>1. run[t].version \in Nat
    BY RetryNow, StageOf
  <1>2. AppendOf("turn", t, run[t].version, Event("turn.completed", t)) \in Requests
        /\ AppendOf("turn", t, run[t].version, Event("turn.completed", t)).by = "turn"
    BY <1>1, RequestsAsked, EventsAsked
  <1>. QED BY <1>2, AsksRetries DEF AppendCompleted, InFlight, Unstarted, Caught

LEMMA FlushContextRetries ==
  ASSUME RetryInv, NEW t \in Turn, FlushContext(t)
  PROVE  Retries'
  <1>1. run[t].version \in Nat
    BY RetryNow, StageOf
  <1>2. AppendOf("turn", t, run[t].version, Entry(t)) \in Requests
        /\ AppendOf("turn", t, run[t].version, Entry(t)).by = "turn"
    BY <1>1, RequestsAsked, EventsAsked
  <1>. QED BY <1>2, AsksRetries DEF FlushContext, InFlight, Unstarted, Caught

LEMMA LoadForTerminalRetries ==
  ASSUME RetryInv, NEW t \in Turn, LoadForTerminal(t)
  PROVE  Retries'
  <1>1. run[t].at \in InFlight /\ run[t].at \notin Unstarted /\ run[t].at \in Caught
        /\ run[t].at \notin {"checking", "closing"}
    BY DEF LoadForTerminal, InFlight, Unstarted, Caught
  <1>2. "checking" \in InFlight \ {"closing"} /\ "checking" \notin Unstarted
        /\ "checking" \in Caught
    BY DEF InFlight, Unstarted, Caught
  <1>. QED BY <1>1, <1>2, RequestsAsked, AsksRetries DEF LoadForTerminal

LEMMA RunCompletesRetries ==
  ASSUME RetryInv, NEW t \in Turn, RunCompletes(t)
  PROVE  Retries'
  <1>1. Lefts
    BY RetryNow, LeftsKept DEF RunCompletes
  <1>. QED BY <1>1, GoesRetries DEF RunCompletes, InFlight, Unstarted, Caught

\* A collector outlives the abort of its turn: no other was at work for the turn.
LEMMA OrphanedRetries ==
  ASSUME RetryInv, NEW t \in Turn, NEW verdict \in Verdicts, Catch(t, verdict),
         run[t].at = "running", orphan = None, orphan' = t, UNCHANGED pending,
         faults.kinds \subseteq faults'.kinds, "orphan" \in faults'.kinds
  PROVE  Retries'
  <1>1. Shape /\ run[t].started /\ run[t].at \in InFlight \ {"checking", "closing"}
        /\ run[t].at \notin Caught \cup Settled
    BY RetryNow, StageOf DEF Stage, InFlight, Unstarted, Caught, Settled, Verdicts
  <1>2. TurnMoves(t) /\ run'[t].at = "ending" /\ session' = session /\ session = "running"
    BY <1>1, CatchDoes, MovedStages DEF Sets
  <1>3. \A u \in Turn \ {t} : SameLeft(u, pending, orphan, pending', orphan')
    BY DEF SameLeft, OneLeft, NoneLeft
  <1>4. NoneWaits(t, pending)
    BY <1>1, RetryNow DEF RetryOf, Collecting, NoneLeft
  <1>5. OneLeft(t, pending', orphan')
    BY <1>4 DEF OneLeft, NoneWaits
  <1>6. Collecting(t, run'[t], pending', orphan', faults'.kinds)
    BY <1>2, <1>5 DEF Collecting, Caught
  <1>7. RetryOf(t, run'[t], pending', orphan', journal', faults'.kinds)
    BY <1>2, <1>6 DEF RetryOf, Stale, SecondAttempt
  <1>8. NotStrandedLightly'
    BY <1>2 DEF NotStrandedLightly
  <1>. QED BY <1>2, <1>3, <1>7, <1>8, TurnRetries

LEMMA InterruptedRetries ==
  ASSUME RetryInv, NEW t \in Turn, Interrupted(t)
  PROVE  Retries'
  <1>1. PICK verdict \in Verdicts : Catch(t, verdict)
    BY DEF Interrupted, Verdicts
  <1>2. UNCHANGED pending /\ run[t].at \in InFlight \ {"checking", "closing"} /\ Shape
    BY RetryNow DEF Interrupted, InFlight
  <1>3. CASE UNCHANGED <<orphan, faults>>
    <2>1. Lefts
      BY <1>2, <1>3, LeftsKept
    <2>. QED BY <1>1, <1>2, <1>3, <2>1, CatchRetries
  <1>4. CASE /\ run[t].at = "running" /\ orphan = None /\ orphan' = t
             /\ faults' = [faults EXCEPT !.kinds = @ \cup {"orphan"}]
    <2>1. faults'.kinds = faults.kinds \cup {"orphan"}
      BY <1>2, <1>4 DEF Shape, TypeOK
    <2>. QED BY <1>1, <1>2, <1>4, <2>1, OrphanedRetries
  <1>. QED BY <1>3, <1>4 DEF Interrupted

\* An operation of a turn is answered.
LEMMA ServedLefts ==
  ASSUME RetryInv, NEW t, Serving("turn", t), UNCHANGED orphan
  PROVE  /\ Answered(<<>>) => Lefts
         /\ \A r \in Requests : r.by = "turn" /\ Answered(<<r>>) => Lefts
  BY RetryNow, LeftsKept DEF Serving

LEMMA ResolvesKinds ==
  ASSUME AppendResolves \/ LoadResolves
  PROVE  faults.kinds \subseteq faults'.kinds
  BY DEF AppendResolves, LoadResolves

LEMMA LoadedRetries ==
  ASSUME RetryInv, NEW t \in Turn, Loaded(t)
  PROVE  Retries'
  <1>1. /\ Serving("turn", t) /\ run[t].at = "loading" /\ UNCHANGED orphan
        /\ run[t].at \in InFlight \ {"checking", "closing"} /\ run[t].at \notin Caught
        /\ Shape
    BY RetryNow DEF Loaded, InFlight, Caught
  <1>2. CASE /\ LoadResolves
             /\ run' = [run EXCEPT ![t].at = "reading", ![t].version = journal.version]
             /\ Answered(<<Load("turn", t)>>) /\ UNCHANGED session
    <2>1. Sets(t, "reading", journal.version, run[t].started, run[t].verdict, run[t].attempt)
      BY <1>1, <1>2, StageOf, AtVersionSets DEF Places, InFlight
    <2>2. run[t].attempt # 1 /\ ~run[t].started
      BY <1>1, StageOf DEF Stage, Unstarted, Settled, Verdicts
    <2>3. TurnMoves(t)
      BY <1>1, <1>2, <2>1, <2>2, SetsMoves DEF InFlight, Unstarted, Caught
    <2>4. session' # "recovery_required"
      BY <1>1, <1>2, <2>3, MovedStages
    <2>5. Lefts
      BY <1>1, <1>2, RequestsAsked, ServedLefts
    <2>. QED BY <1>1, <1>2, <2>1, <2>3, <2>4, <2>5, ResolvesKinds, TurnCalm DEF Sets
  <1>3. CASE LoadRejects /\ Catch(t, Failure(t)) /\ Answered(<<>>)
    BY <1>1, <1>3, RetryNow, LoadKinds, ServedLefts, FailureVerdict, CatchRetries
  <1>. QED BY <1>2, <1>3 DEF Loaded

LEMMA AppendStartRetries ==
  ASSUME RetryInv, NEW t \in Turn, AppendStart(t)
  PROVE  Retries'
  <1>. DEFINE r == AppendOf("turn", t, run[t].version, Event("turn.started", t))
  <1>1. /\ Serving("turn", t) /\ run[t].at = "reading" /\ UNCHANGED orphan
        /\ run[t].at \in InFlight \ {"checking", "closing"}
        /\ Shape /\ run[t].version \in Nat
    BY RetryNow, StageOf DEF AppendStart, InFlight
  <1>2. r \in Requests /\ r.by = "turn"
    BY <1>1, RequestsAsked, EventsAsked
  <1>. HIDE DEF r
  <1>3. CASE LoadResolves /\ Goes(t, "starting") /\ Answered(<<r>>) /\ UNCHANGED session
    <2>1. Lefts
      BY <1>1, <1>2, <1>3, ServedLefts
    <2>. QED BY <1>1, <1>3, <2>1, ResolvesKinds, GoesRetries DEF InFlight, Unstarted, Caught
  <1>4. CASE (LoadResolves \/ LoadRejects) /\ Catch(t, Failure(t)) /\ Answered(<<>>)
    BY <1>1, <1>4, RetryNow, LoadKinds, ServedLefts, FailureVerdict, CatchRetries
  <1>. QED BY <1>3, <1>4 DEF AppendStart, r

\* An append of a turn rejects, and the turn is to end.
LEMMA FailsRetries ==
  ASSUME RetryInv, Faults \subseteq Bearable, NEW t \in Turn, Serving("turn", t),
         AppendRejects, Answered(<<>>), Catch(t, Failure(t)), UNCHANGED orphan,
         run[t].at \in InFlight \ {"loading", "reading", "checking", "closing"}
  PROVE  Retries'
  <1>1. faults.kinds \subseteq faults'.kinds
    BY RetryNow, TurnFails
  <1>. QED BY <1>1, ServedLefts, FailureVerdict, CatchRetries

LEMMA StartedRetries ==
  ASSUME RetryInv, Faults \subseteq Bearable, NEW t \in Turn, Started(t)
  PROVE  Retries'
  <1>1. /\ Serving("turn", t) /\ run[t].at = "starting" /\ Answered(<<>>) /\ UNCHANGED orphan
        /\ Shape
    BY RetryNow DEF Started
  <1>2. CASE AppendRejects /\ Catch(t, Failure(t))
    BY <1>1, <1>2, FailsRetries DEF InFlight
  <1>3. CASE /\ AppendResolves
             /\ run' = [run EXCEPT ![t].at = "running", ![t].started = TRUE,
                                   ![t].version = Head(pending).expected + 1]
             /\ UNCHANGED session
    <2>1. TurnMoves(t) /\ run'[t].at = "running"
      BY <1>1, <1>3, StartedDoes DEF Sets
    <2>2. session' # "recovery_required"
      BY <1>1, <1>3, <2>1, MovedStages
    <2>3. Lefts /\ faults.kinds \subseteq faults'.kinds
      BY <1>1, <1>3, ServedLefts, ResolvesKinds
    <2>. QED BY <1>1, <2>1, <2>2, <2>3, TurnCalm DEF Caught
  <1>. QED BY <1>2, <1>3 DEF Started

LEMMA EntryAppendedRetries ==
  ASSUME RetryInv, Faults \subseteq Bearable, NEW t \in Turn, EntryAppended(t)
  PROVE  Retries'
  <1>1. /\ Serving("turn", t) /\ run[t].at \in {"writing", "flushing"} /\ Answered(<<>>)
        /\ UNCHANGED orphan
    BY DEF EntryAppended
  <1>2. CASE AppendRejects /\ Catch(t, Failure(t))
    BY <1>1, <1>2, FailsRetries DEF InFlight
  <1>3. CASE AppendResolves /\ UNCHANGED session
             /\ GoesOn(t, IF run[t].at = "writing" THEN "running" ELSE "finalizing")
    <2>. DEFINE a == IF run[t].at = "writing" THEN "running" ELSE "finalizing"
    <2>1. a \in InFlight \ (Unstarted \cup {"closing"}) /\ a \notin Caught
      BY DEF InFlight, Unstarted, Caught
    <2>2. GoesOn(t, a)
      BY <1>3
    <2>3. run[t].at \in InFlight \ Unstarted /\ run[t].at \notin Caught
          /\ run[t].at \notin {"checking", "closing"}
      BY <1>1 DEF InFlight, Unstarted, Caught
    <2>4. Lefts /\ faults.kinds \subseteq faults'.kinds
      BY <1>1, <1>3, ServedLefts, ResolvesKinds
    <2>. HIDE DEF a
    <2>. QED BY <1>1, <1>3, <2>1, <2>2, <2>3, <2>4, GoesOnRetries
  <1>. QED BY <1>2, <1>3 DEF EntryAppended

LEMMA CompletedRetries ==
  ASSUME RetryInv, Faults \subseteq Bearable, NEW t \in Turn, Completed(t)
  PROVE  Retries'
  <1>1. /\ Serving("turn", t) /\ run[t].at = "completing" /\ Answered(<<>>) /\ UNCHANGED orphan
    BY DEF Completed
  <1>2. CASE AppendRejects /\ Catch(t, Failure(t))
    BY <1>1, <1>2, FailsRetries DEF InFlight
  <1>3. CASE AppendResolves /\ Ends(t, "completed")
    BY <1>1, <1>3, ServedLefts, ResolvesKinds, EndsRetries DEF InFlight, Verdicts
  <1>. QED BY <1>2, <1>3 DEF Completed

LEMMA ContextFlushedRetries ==
  ASSUME RetryInv, Faults \subseteq Bearable, NEW t \in Turn, ContextFlushed(t)
  PROVE  Retries'
  <1>1. /\ Serving("turn", t) /\ run[t].at = "draining" /\ Answered(<<>>)
        /\ UNCHANGED <<session, orphan>>
        /\ run[t].at \in InFlight \ Unstarted /\ run[t].at \in Caught
        /\ run[t].at \notin {"loading", "reading", "checking", "closing"}
        /\ "drained" \in InFlight \ (Unstarted \cup {"closing"}) /\ "drained" \in Caught
    BY DEF ContextFlushed, InFlight, Unstarted, Caught
  <1>2. Lefts
    BY <1>1, ServedLefts
  <1>3. CASE AppendResolves /\ GoesOn(t, "drained")
    BY <1>1, <1>2, <1>3, ResolvesKinds, GoesOnRetries
  <1>4. CASE AppendRejects /\ Goes(t, "drained")
    <2>1. faults.kinds \subseteq faults'.kinds
      BY <1>1, <1>4, RetryNow, TurnFails
    <2>. QED BY <1>1, <1>2, <1>4, <2>1, GoesRetries
  <1>. QED BY <1>3, <1>4 DEF ContextFlushed

\* The load tells the turn how to close: at the version it has seen.
LEMMA ClosingRetries ==
  ASSUME RetryInv, NEW t \in Turn, Serving("turn", t), run[t].at = "checking",
         LoadResolves, journal.plan = Interrupt(t), Goes(t, "closing"),
         NEW r \in Requests, r.by = "turn", r.expected = journal.version,
         Answered(<<r>>), UNCHANGED <<session, orphan>>
  PROVE  Retries'
  <1>1. /\ Shape /\ pending # <<>> /\ Head(pending).by = "turn"
        /\ UNCHANGED <<journal, faults>> /\ run[t].at \in InFlight
    BY RetryNow DEF Serving, LoadResolves, InFlight
  <1>2. /\ TurnMoves(t)
        /\ Sets(t, "closing", run[t].version, run[t].started, run[t].verdict, run[t].attempt)
    BY <1>1, GoesDoes DEF InFlight, Unstarted, Caught
  <1>3. Lefts
    BY ServedLefts
  <1>4. run'[t].at = "closing" /\ run'[t].attempt = run[t].attempt
    BY <1>2 DEF Sets
  <1>5. Collecting(t, run'[t], pending', orphan', faults'.kinds)
    BY <1>1, <1>3, <1>4, RetryNow, CollectingGoes DEF RetryOf, Lefts, Caught
  <1>6. \A i \in 1..Len(pending') : pending'[i].by = "turn" => pending'[i] = r
    <2>. DEFINE q == Tail(pending)
    <2>1. q \in Seq(Requests) /\ pending' = Append(q, r)
      BY <1>1, ServedRest, TailFacts DEF Answered, Shape, TypeOK
    <2>2. \A i \in 1..Len(q) : q[i].by # "turn"
      BY <1>1, QueueServed DEF Shape
    <2>. HIDE DEF q
    <2>3. /\ Len(pending') = Len(q) + 1 /\ Len(q) \in Nat
          /\ \A i \in 1..Len(q) : pending'[i] = q[i]
          /\ pending'[Len(q) + 1] = r
      BY <2>1, AppendFacts
    <2>4. \A i \in 1..Len(pending') : i \in 1..Len(q) \/ i = Len(q) + 1
      BY <2>3
    <2>. QED BY <2>2, <2>3, <2>4
  <1>7. Stale(t, run'[t], pending', orphan', journal', faults'.kinds)
    BY <1>1, <1>6 DEF Stale
  <1>8. \/ "refused" \in faults'.kinds
        \/ SecondAttempt(t, run'[t], pending', orphan', journal', faults'.kinds)
    BY <1>1, <1>3, <1>4, RetryNow DEF RetryOf, SecondAttempt, Lefts, SameLeft
  <1>9. RetryOf(t, run'[t], pending', orphan', journal', faults'.kinds)
    BY <1>5, <1>7, <1>8 DEF RetryOf
  <1>10. NotStrandedLightly'
    BY <1>1, RetryNow DEF NotStrandedLightly
  <1>. QED BY <1>1, <1>2, <1>3, <1>9, <1>10, TurnRetries DEF Lefts

\* A turn that cannot store its terminal leaves the session to be recovered:
\* more than one operation, or a load, has failed.
LEMMA StrandsRetries ==
  ASSUME RetryInv, NEW t \in Turn, run[t].at \in InFlight, Ends(t, "persistence"),
         faults.kinds \subseteq faults'.kinds, Lefts,
         "refused" \in faults'.kinds \/ {"lostReply", "orphan"} \subseteq faults'.kinds
  PROVE  Retries'
  <1>1. TurnMoves(t) /\ run'[t].at = "persistence"
    BY RetryNow, EndsDoes DEF Sets
  <1>2. run'[t].at \in Settled /\ run'[t].at \notin {"checking", "closing"}
    BY <1>1 DEF Settled
  <1>3. run[t].at \notin Settled
    BY Places3
  <1>4. RetryOf(t, run'[t], pending', orphan', journal', faults'.kinds)
    BY <1>2, <1>3, RetryNow, RetryCalm DEF Lefts
  <1>5. NotStrandedLightly'
    BY DEF NotStrandedLightly
  <1>. QED BY <1>1, <1>4, <1>5, TurnRetries DEF Lefts

LEMMA AppendTerminalRetries ==
  ASSUME RetryInv, NEW t \in Turn, AppendTerminal(t)
  PROVE  Retries'
  <1>1. /\ Serving("turn", t) /\ run[t].at = "checking" /\ UNCHANGED orphan
        /\ run[t].at \in InFlight \ Unstarted /\ Shape
        /\ run[t].verdict \in Verdicts /\ journal.version \in Nat
    BY RetryNow, VerdictOf, StageOf DEF AppendTerminal, InFlight, Unstarted, Caught
  <1>2. CASE LoadResolves /\ Ends(t, run[t].verdict) /\ Answered(<<>>)
    BY <1>1, <1>2, ServedLefts, ResolvesKinds, EndsRetries
  <1>3. CASE /\ LoadResolves /\ journal.plan = Interrupt(t) /\ Goes(t, "closing")
             /\ Answered(<<AppendOf("turn", t, journal.version,
                                    Event(TerminalOf[run[t].verdict], t))>>)
             /\ UNCHANGED session
    <2>. DEFINE r == AppendOf("turn", t, journal.version, Event(TerminalOf[run[t].verdict], t))
    <2>1. r \in Requests /\ r.by = "turn" /\ r.expected = journal.version
      BY <1>1, RequestsAsked, EventsAsked
    <2>. HIDE DEF r
    <2>2. Answered(<<r>>)
      BY <1>3 DEF r
    <2>. QED BY <1>1, <1>3, <2>1, <2>2, ClosingRetries
  <1>4. CASE LoadRejects /\ Ends(t, "persistence") /\ Answered(<<>>)
    <2>1. faults.kinds \subseteq faults'.kinds /\ "refused" \in faults'.kinds
      BY <1>1, <1>4, KindsGrow DEF LoadRejects
    <2>. QED BY <1>1, <1>4, <2>1, ServedLefts, StrandsRetries
  <1>5. CASE ~Terminated(t) /\ journal.plan # Interrupt(t)
    BY <1>1, <1>5, RetryNow, JournalNow DEF Known, Terminated
  <1>. QED BY <1>2, <1>3, <1>4, <1>5 DEF AppendTerminal

\* How a terminal can fail to be stored.
LEMMA TerminalFails ==
  ASSUME RetryInv, Faults \subseteq Bearable, NEW t \in Turn, Serving("turn", t),
         run[t].at = "closing", AppendRejects
  PROVE  /\ faults.kinds \subseteq faults'.kinds
         /\ \/ "refused" \in faults'.kinds
            \/ /\ NoneLeft(t, pending, orphan) /\ "orphan" \in faults'.kinds
               /\ run[t].attempt = 0
            \/ /\ "lostReply" \in faults'.kinds /\ journal'.plan = Ready
               /\ run[t].attempt = 1 => "orphan" \in faults'.kinds
  <1>. DEFINE e == Head(pending).event
  <1>1. /\ pending # <<>> /\ e \in OwnEvents /\ e.type \in Closing /\ e.turn = t
        /\ e.type \notin Opening
    BY RetryNow, TurnEvent, EventTypes
  <1>2. faults.kinds \subseteq faults'.kinds
    BY RetryNow, TurnFails
  <1>3. CASE "refused" \in faults.kinds
    BY <1>2, <1>3
  <1>4. CASE Fault("refused")
    BY <1>2, <1>4, RetryNow, KindsGrow
  <1>5. CASE "refused" \notin faults.kinds /\ ~Accepted(Head(pending))
    <2>1. Stale(t, run[t], pending, orphan, journal, faults.kinds)
      BY <1>5, RetryNow DEF RetryOf
    <2>2. Head(pending) = pending[1] /\ 1 \in 1..Len(pending)
      BY <1>1, RetryNow, JournalNow, TailFacts
    <2>3. pending[1].by = "turn" /\ pending[1].expected # journal.version
      BY <1>5, <2>2 DEF Serving, Accepted
    <2>. QED BY <1>2, <2>1, <2>2, <2>3 DEF Stale
  <1>6. CASE /\ "refused" \notin faults.kinds /\ Accepted(Head(pending))
             /\ Fault("lostReply") /\ journal' = Stored(journal, e)
    <2>1. Stale(t, run[t], pending, orphan, journal, faults.kinds)
          /\ SecondAttempt(t, run[t], pending, orphan, journal, faults.kinds)
      BY <1>6, RetryNow DEF RetryOf
    <2>2. run[t].attempt = 1 => "orphan" \in faults.kinds
      BY <2>1 DEF Stale, SecondAttempt
    <2>3. Legal(journal.plan, e)
      BY <1>1, <1>6, RetryNow, AcceptedLegal
    <2>. HIDE DEF e
    <2>4. journal'.plan = Ready
      BY <1>1, <1>6, <2>3, RetryNow, JournalNow, StoredDoes
    <2>5. "lostReply" \in faults'.kinds
      BY <1>6, RetryNow, KindsGrow
    <2>. QED BY <1>2, <2>2, <2>4, <2>5
  <1>. QED BY <1>1, <1>3, <1>4, <1>5, <1>6 DEF AppendRejects

LEMMA TerminalAppendedRetries ==
  ASSUME RetryInv, Faults \subseteq Bearable, NEW t \in Turn, TerminalAppended(t)
  PROVE  Retries'
  <1>1. /\ Serving("turn", t) /\ run[t].at = "closing" /\ UNCHANGED orphan
        /\ run[t].at \in InFlight /\ Shape
    BY RetryNow DEF TerminalAppended, InFlight
  <1>2. CASE /\ AppendResolves
             /\ run' = [run EXCEPT ![t].at = run[t].verdict,
                                   ![t].version = Head(pending).expected + 1]
             /\ session' = "idle" /\ Answered(<<>>)
    <2>1. TurnMoves(t) /\ run[t].verdict \in Verdicts /\ run'[t].at = run[t].verdict
      BY <1>1, <1>2, ClosedDoes DEF Sets
    <2>2. run'[t].at \in Settled /\ run'[t].at \notin {"checking", "closing"}
      BY <2>1 DEF Settled, Verdicts
    <2>. QED BY <1>1, <1>2, <2>1, <2>2, ServedLefts, ResolvesKinds, TurnCalm
  <1>3. CASE /\ AppendRejects /\ run[t].attempt = 0
             /\ run' = [run EXCEPT ![t].at = "checking", ![t].attempt = 1]
             /\ Answered(<<Load("turn", t)>>) /\ UNCHANGED session
    <2>1. TurnMoves(t) /\ run'[t].at = "checking"
      BY <1>1, <1>3, AgainDoes DEF Sets
    <2>2. Lefts
      BY <1>1, <1>3, RequestsAsked, ServedLefts
    <2>3. faults.kinds \subseteq faults'.kinds
      BY <1>1, <1>3, TerminalFails
    <2>4. Collecting(t, run'[t], pending', orphan', faults'.kinds)
      BY <2>1, <2>2, <2>3, RetryNow, CollectingGoes DEF RetryOf, Lefts, Caught
    <2>5. \/ "refused" \in faults'.kinds
          \/ NoneLeft(t, pending', orphan') /\ "orphan" \in faults'.kinds
          \/ journal'.plan = Ready
      BY <1>1, <1>3, <2>2, TerminalFails DEF Lefts, SameLeft
    <2>6. RetryOf(t, run'[t], pending', orphan', journal', faults'.kinds)
      BY <2>1, <2>4, <2>5, PlanValues DEF RetryOf, Stale, SecondAttempt
    <2>7. NotStrandedLightly'
      BY <1>1, <1>3, <2>1, MovedStages DEF NotStrandedLightly
    <2>. QED BY <2>1, <2>2, <2>3, <2>6, <2>7, TurnRetries DEF Lefts
  <1>4. CASE /\ AppendRejects /\ run[t].attempt = 1
             /\ Ends(t, "persistence") /\ Answered(<<>>)
    <2>1. /\ faults.kinds \subseteq faults'.kinds
          /\ "refused" \in faults'.kinds \/ {"lostReply", "orphan"} \subseteq faults'.kinds
      BY <1>1, <1>4, TerminalFails
    <2>. QED BY <1>1, <1>4, <2>1, ServedLefts, StrandsRetries
  <1>. QED BY <1>2, <1>3, <1>4 DEF TerminalAppended

LEMMA OrphanAppendsRetries ==
  ASSUME RetryInv, OrphanAppends
  PROVE  Retries'
  <1>. DEFINE r == AppendOf("orphan", orphan, run[orphan].version,
                            Event("context.appended", orphan))
  <1>1. /\ Shape /\ pending \in Seq(Requests) /\ orphan \in Turn /\ orphan' = None
        /\ pending' = Append(pending, r) /\ UNCHANGED <<journal, session, run, faults>>
    BY RetryNow DEF OrphanAppends, Ask, Shape, TypeOK
  <1>2. r \in Requests /\ r.by = "orphan" /\ r.turn = orphan
    BY <1>1, StageOf, EventsAsked DEF AppendOf, Requests
  <1>. HIDE DEF r
  <1>3. /\ Len(pending') = Len(pending) + 1 /\ Len(pending) \in Nat
        /\ \A i \in 1..Len(pending) : pending'[i] = pending[i]
        /\ pending'[Len(pending) + 1] = r
    BY <1>1, <1>2, AppendFacts
  <1>4. \A i \in 1..Len(pending') : i \in 1..Len(pending) \/ i = Len(pending) + 1
    BY <1>3
  <1>5. FromTurns(pending', pending)
    BY <1>2, <1>3, <1>4 DEF FromTurns
  <1>6. ASSUME NEW u \in Turn
        PROVE  SameLeft(u, pending, orphan, pending', orphan')
    <2>1. u # None
      BY NoTurnAssumption
    <2>2. CASE u = orphan
      <3>1. ASSUME NoneWaits(u, pending), NEW i \in 1..Len(pending'), Waits(pending'[i], u)
            PROVE  i = Len(pending) + 1
        BY <1>3, <1>4, <3>1 DEF NoneWaits
      <3>2. NoneWaits(u, pending) => OneLeft(u, pending', orphan')
        BY <1>1, <2>1, <3>1 DEF OneLeft
      <3>. QED BY <2>2, <3>2 DEF SameLeft, OneLeft, NoneLeft
    <2>3. CASE u # orphan
      <3>1. \A i \in 1..Len(pending') :
              Waits(pending'[i], u) => i \in 1..Len(pending) /\ pending'[i] = pending[i]
        BY <1>2, <1>3, <1>4, <2>3 DEF Waits
      <3>2. NoneWaits(u, pending) => NoneWaits(u, pending')
        BY <3>1 DEF NoneWaits
      <3>3. OneLeft(u, pending, orphan) => OneLeft(u, pending', orphan')
        BY <1>1, <2>1, <3>1 DEF OneLeft
      <3>. QED BY <1>1, <2>1, <3>2, <3>3 DEF SameLeft, NoneLeft
    <2>. QED BY <2>2, <2>3
  <1>. QED BY <1>1, <1>5, <1>6, AllSame

\* What a collector stores moves the version under its turn's terminal: then no
\* collector is left.
LEMMA OrphanStoredRetries ==
  ASSUME RetryInv, NEW t \in Turn, Serving("orphan", t), Answered(<<>>),
         UNCHANGED <<session, orphan>>, NEW e \in OwnEvents, e.type \in Inside, e.turn = t,
         Legal(journal.plan, e), journal' = Stored(journal, e),
         \A u \in Turn : run'[u].at = run[u].at /\ run'[u].attempt = run[u].attempt,
         faults.kinds \subseteq faults'.kinds
  PROVE  Retries'
  <1>1. /\ Shape /\ journal \in Journals /\ JournalOK(journal)
        /\ pending \in Seq(Requests) /\ pending # <<>> /\ Waits(Head(pending), t)
    BY RetryNow, JournalNow DEF Serving, Waits
  <1>2. journal.plan = Interrupt(t) /\ journal'.plan = Interrupt(t)
        /\ journal'.version = journal.version + 1
    BY <1>1, EventTypes, StoredDoes, StoredVersion
  <1>3. Lefts /\ FromTurns(pending', pending)
    BY <1>1, LeftsKept
  <1>4. ASSUME NEW u \in Turn \ {t}
        PROVE  RetryOf(u, run'[u], pending', orphan', journal', faults'.kinds)
    <2>1. journal.plan # Interrupt(u) /\ journal'.plan # Interrupt(u)
      BY <1>2, PlanValues
    <2>. QED BY <1>3, <2>1, RetryNow, RetryOther DEF Lefts
  <1>5. RetryOf(t, run'[t], pending', orphan', journal', faults'.kinds)
    <2>. DEFINE q == Tail(pending)
    <2>1. /\ Collecting(t, run[t], pending, orphan, faults.kinds)
          /\ \/ "refused" \in faults.kinds
             \/ SecondAttempt(t, run[t], pending, orphan, journal, faults.kinds)
      BY RetryNow DEF RetryOf
    <2>2. Collecting(t, run'[t], pending', orphan', faults'.kinds)
      BY <1>3, <2>1, CollectingGoes DEF Lefts
    <2>3. Head(pending) = pending[1] /\ 1 \in 1..Len(pending) /\ Len(pending) \in Nat
          /\ \A i \in 1..Len(q) : i + 1 \in 1..Len(pending) /\ q[i] = pending[i + 1]
                                  /\ i + 1 # 1
      BY <1>1, TailFacts
    <2>4. pending' = q
      BY <1>1, ServedRest DEF Answered
    <2>. HIDE DEF q
    <2>5. ~NoneWaits(t, pending)
      BY <1>1, <2>3 DEF NoneWaits
    <2>6. NoneWaits(t, q)
      BY <1>1, <2>1, <2>3 DEF Collecting, OneLeft, NoneWaits
    <2>7. NoneLeft(t, pending', orphan') /\ "orphan" \in faults'.kinds
      BY <2>1, <2>4, <2>5, <2>6 DEF Collecting, OneLeft, NoneLeft
    <2>8. CASE "refused" \in faults.kinds
      BY <2>2, <2>8 DEF RetryOf
    <2>9. CASE "refused" \notin faults.kinds
      <3>1. run[t].at \in {"checking", "closing"} => run[t].attempt # 1
        BY <1>2, <2>1, <2>5, <2>9 DEF SecondAttempt, NoneLeft
      <3>2. run[t].attempt \in 0..1
        BY <1>1, StageOf DEF Runs
      <3>3. run'[t].at = "closing" => run'[t].attempt = 0
        BY <3>1, <3>2
      <3>4. Stale(t, run'[t], pending', orphan', journal', faults'.kinds)
        BY <1>2, <2>7, <3>3 DEF Stale
      <3>5. SecondAttempt(t, run'[t], pending', orphan', journal', faults'.kinds)
        BY <3>1 DEF SecondAttempt
      <3>. QED BY <2>2, <3>4, <3>5 DEF RetryOf
    <2>. QED BY <2>8, <2>9
  <1>. QED BY <1>4, <1>5, RetriesAll

LEMMA OrphanAnsweredRetries ==
  ASSUME RetryInv, Faults \subseteq Bearable, NEW t \in Turn, OrphanAnswered(t)
  PROVE  Retries'
  <1>. DEFINE e == Head(pending).event
  <1>1. /\ Shape /\ Serving("orphan", t) /\ Answered(<<>>) /\ UNCHANGED <<session, orphan>>
        /\ \/ AppendResolves /\ GoesOn(t, run[t].at)
           \/ AppendRejects /\ UNCHANGED run
    BY RetryNow DEF OrphanAnswered
  <1>2. /\ pending # <<>> /\ e \in OwnEvents /\ e.type \in Inside /\ e.turn = t
    BY <1>1, OrphanServed, EntryType
  <1>3. \A u \in Turn : run'[u].at = run[u].at /\ run'[u].attempt = run[u].attempt
    <2>1. CASE UNCHANGED run
      BY <2>1
    <2>2. CASE GoesOn(t, run[t].at)
      BY <1>1, <2>2, OrphanSets DEF Sets
    <2>. QED BY <1>1, <2>1, <2>2
  <1>4. /\ faults.kinds \subseteq faults'.kinds
        /\ \/ journal' = journal
           \/ journal' = Stored(journal, e) /\ Legal(journal.plan, e)
    BY <1>1, <1>2, RetryNow, AppendStored, AppendFailed DEF Rejected
  <1>. HIDE DEF e
  <1>5. CASE journal' = journal
    <2>1. Lefts /\ FromTurns(pending', pending)
      BY <1>1, <1>2, LeftsKept
    <2>. QED BY <1>1, <1>3, <1>4, <1>5, <2>1, AllSame DEF Lefts
  <1>6. CASE journal' = Stored(journal, e) /\ Legal(journal.plan, e)
    BY <1>1, <1>2, <1>3, <1>4, <1>6, OrphanStoredRetries
  <1>. QED BY <1>4, <1>5, <1>6

\* Nothing is stored and no turn moves, as operations are asked for and answered.
LEMMA QuietRetries ==
  ASSUME RetryInv, Lefts, FromTurns(pending', pending), UNCHANGED <<journal, run>>,
         faults.kinds \subseteq faults'.kinds,
         session' = "recovery_required" => session = "recovery_required"
  PROVE  Retries'
  BY AllSame DEF Lefts

LEMMA RecordRetries ==
  ASSUME RetryInv, Record
  PROVE  Retries'
  <1>1. Lefts /\ FromTurns(pending', pending)
    BY RetryNow, RecordRequests, LeftsKept DEF Record
  <1>. QED BY <1>1, QuietRetries DEF Record

LEMMA RecordLoadedRetries ==
  ASSUME RetryInv, RecordLoaded
  PROVE  Retries'
  <1>. DEFINE r == AppendOf("recorder", None, journal.version,
                            Event("context.recorded", None))
  <1>1. /\ Shape /\ pending # <<>> /\ UNCHANGED <<session, run, orphan>>
        /\ (LoadResolves \/ LoadRejects) /\ (Answered(<<r>>) \/ Answered(<<>>))
    BY RetryNow DEF RecordLoaded, Serving
  <1>2. r \in Requests /\ r.by = "recorder"
    BY <1>1, StageOf, JournalNow, RetryNow, JournalFields, RecordRequests
  <1>. HIDE DEF r
  <1>3. Lefts /\ FromTurns(pending', pending)
    BY <1>1, <1>2, LeftsKept
  <1>4. journal' = journal /\ faults.kinds \subseteq faults'.kinds
    BY <1>1, RetryNow, LoadKinds
  <1>. QED BY <1>1, <1>3, <1>4, QuietRetries

LEMMA RecordedRetries ==
  ASSUME RetryInv, Faults \subseteq Bearable, Recorded
  PROVE  Retries'
  <1>. DEFINE e == Head(pending).event
  <1>1. /\ Shape /\ Serving("recorder", None) /\ e # None /\ Answered(<<>>)
        /\ UNCHANGED <<session, run, orphan>> /\ (AppendResolves \/ AppendRejects)
    BY RetryNow DEF Recorded
  <1>2. pending # <<>> /\ e = Event("context.recorded", None) /\ e \in OwnEvents
    BY <1>1, RecorderServed
  <1>3. e.type \in Outside /\ e.type \notin Opening
    <2>1. Event("context.recorded", None).type = "context.recorded"
      BY DEF Event
    <2>. QED BY <1>2, <2>1 DEF Outside, Opening
  <1>4. /\ faults.kinds \subseteq faults'.kinds
        /\ \/ journal' = journal
           \/ journal' = Stored(journal, e) /\ Legal(journal.plan, e)
    BY <1>1, <1>2, RetryNow, AppendStored, AppendFailed DEF Rejected
  <1>. HIDE DEF e
  <1>5. Lefts /\ FromTurns(pending', pending)
    BY <1>1, <1>2, LeftsKept
  <1>6. CASE journal' = journal
    BY <1>1, <1>4, <1>5, <1>6, QuietRetries
  <1>7. CASE journal' = Stored(journal, e) /\ Legal(journal.plan, e)
    <2>1. journal.plan = Ready /\ journal'.plan = Ready
      BY <1>2, <1>3, <1>7, RetryNow, JournalNow, StoredDoes
    <2>2. ASSUME NEW u \in Turn
          PROVE  RetryOf(u, run'[u], pending', orphan', journal', faults'.kinds)
      <3>1. journal.plan # Interrupt(u) /\ journal'.plan # Interrupt(u)
        BY <2>1, PlanValues
      <3>. QED BY <1>1, <1>4, <1>5, <3>1, RetryNow, RetryOther DEF Lefts
    <2>. QED BY <1>1, <1>4, <2>2, RetriesAll
  <1>. QED BY <1>4, <1>6, <1>7

LEMMA CloseSessionRetries ==
  ASSUME RetryInv, CloseSession
  PROVE  Retries'
  <1>1. Lefts /\ FromTurns(pending', pending)
    BY RetryNow, LeftsKept DEF CloseSession
  <1>. QED BY <1>1, QuietRetries DEF CloseSession

LEMMA ResumeRetries ==
  ASSUME RetryInv, Resume
  PROVE  Retries'
  <1>1. Lefts /\ FromTurns(pending', pending)
    BY RetryNow, ResumeRequests, LeftsKept DEF Resume
  <1>. QED BY <1>1, QuietRetries DEF Resume

LEMMA ResumeLoadedRetries ==
  ASSUME RetryInv, ResumeLoaded
  PROVE  Retries'
  <1>1. /\ Shape /\ Serving("resume", None) /\ UNCHANGED <<run, orphan>>
        /\ (LoadResolves \/ LoadRejects)
        /\ session' \in {"idle", "down", session}
    BY RetryNow DEF ResumeLoaded
  <1>2. pending # <<>>
    BY <1>1, ResumeServed
  <1>3. Lefts /\ FromTurns(pending', pending)
    <2>1. CASE Answered(<<>>)
      BY <1>1, <1>2, <2>1, LeftsKept
    <2>2. CASE /\ journal.plan.status = "interrupt"
               /\ Answered(<<AppendOf("resume", None, journal.version,
                                      Event("turn.failed", journal.plan.turn))>>)
      <3>1. journal.plan.turn \in Turn /\ journal.version \in Nat
        <4>1. journal.plan \in Plans /\ journal.version \in Nat
          BY RetryNow, JournalNow, JournalFields
        <4>2. journal.plan # Ready /\ journal.plan # Throws
          BY <2>2 DEF Ready, Throws
        <4>3. PICK u \in Turn : journal.plan = Interrupt(u)
          BY <4>1, <4>2 DEF Plans
        <4>. QED BY <4>1, <4>3 DEF Interrupt
      <3>. DEFINE r == AppendOf("resume", None, journal.version,
                                Event("turn.failed", journal.plan.turn))
      <3>2. r \in Requests /\ r.by = "resume"
        BY <3>1, ResumeRequests
      <3>. HIDE DEF r
      <3>3. Answered(<<r>>)
        BY <2>2 DEF r
      <3>. QED BY <1>1, <1>2, <3>2, <3>3, LeftsKept
    <2>. QED BY <2>1, <2>2 DEF ResumeLoaded
  <1>4. journal' = journal /\ faults.kinds \subseteq faults'.kinds
    BY <1>1, RetryNow, LoadKinds
  <1>. QED BY <1>1, <1>3, <1>4, QuietRetries

LEMMA ResumedRetries ==
  ASSUME RetryInv, Faults \subseteq Bearable, Resumed
  PROVE  Retries'
  <1>1. /\ Shape /\ Serving("resume", None) /\ Head(pending).event # None
        /\ Answered(<<>>) /\ UNCHANGED <<run, orphan>> /\ (AppendResolves \/ AppendRejects)
        /\ session' \in {"idle", "down"}
    BY RetryNow DEF Resumed
  <1>2. pending # <<>> /\ session = "resuming" /\ Head(pending).event \in OwnEvents
    BY <1>1, ResumeServed
  <1>3. faults.kinds \subseteq faults'.kinds
    BY <1>1, <1>2, RetryNow, AppendStored, AppendFailed
  <1>4. Lefts
    BY <1>1, <1>2, LeftsKept
  <1>5. \A u \in Turn : run[u].at \notin InFlight
    BY <1>1, <1>2 DEF Shape, Stages
  <1>6. \A u \in Turn : run'[u].at \notin {"checking", "closing"}
    BY <1>1, <1>5 DEF InFlight
  <1>. QED BY <1>1, <1>3, <1>4, <1>6, AllCalm DEF Lefts

LEMMA CrashRetries ==
  ASSUME RetryInv, Crash
  PROVE  Retries'
  <1>1. /\ Shape /\ session' = "down" /\ pending' = <<>> /\ orphan' = None
        /\ faults.kinds \subseteq faults'.kinds
    BY RetryNow, KindsGrow DEF Crash
  <1>2. \A u \in Turn : SameLeft(u, pending, orphan, pending', orphan')
    BY <1>1, NoTurnAssumption DEF SameLeft, OneLeft, NoneLeft, NoneWaits
  <1>3. ASSUME NEW u \in Turn
        PROVE  /\ run[u].at \in Caught \cup Settled => run'[u].at \in Caught \cup Settled
               /\ run'[u].at \notin {"checking", "closing"}
    <2>1. CASE run[u].at \in InFlight
      BY <1>1, <2>1, CrashRuns DEF Settled
    <2>2. CASE run[u].at \notin InFlight
      BY <1>1, <2>2, CrashRuns DEF InFlight
    <2>. QED BY <2>1, <2>2
  <1>. QED BY <1>1, <1>2, <1>3, AllCalm

LEMMA InitRetries ==
  ASSUME Init
  PROVE  RetryInv
  <1>1. JournalInv
    BY InitJournal
  <1>2. pending = <<>> /\ orphan = None /\ session = "idle"
        /\ \A t \in Turn : run[t].at = "new"
    BY DEF Init, NewRun
  <1>3. ASSUME NEW t \in Turn
        PROVE  RetryOf(t, run[t], pending, orphan, journal, faults.kinds)
    <2>1. OneLeft(t, pending, orphan) /\ NoneLeft(t, pending, orphan)
      BY <1>2, NoTurnAssumption DEF OneLeft, NoneLeft, NoneWaits
    <2>. QED BY <1>2, <2>1 DEF RetryOf, Collecting, Stale, SecondAttempt
  <1>4. NotStrandedLightly
    BY <1>2 DEF NotStrandedLightly
  <1>. QED BY <1>1, <1>3, <1>4 DEF RetryInv, Retries

LEMMA NextRetries ==
  ASSUME RetryInv, Faults \subseteq Bearable, Next
  PROVE  Retries'
  <1>1. ASSUME NEW t \in Turn, StartTurn(t) \/ Abort(t) \/ Step(t)
        PROVE  Retries'
    BY <1>1, StartTurnRetries, AbortRetries, LoadConversationRetries, InterruptedRetries,
       AppendEntryRetries, RunCompletesRetries, AppendCompletedRetries,
       FlushContextRetries, LoadForTerminalRetries DEF Step
  <1>2. ASSUME Serve
        PROVE  Retries'
    <2>1. ASSUME NEW t \in Turn,
                 Loaded(t) \/ AppendStart(t) \/ Started(t) \/ EntryAppended(t)
          PROVE  Retries'
      BY <2>1, LoadedRetries, AppendStartRetries, StartedRetries, EntryAppendedRetries
    <2>2. ASSUME NEW t \in Turn,
                 Completed(t) \/ ContextFlushed(t) \/ AppendTerminal(t)
                   \/ TerminalAppended(t) \/ OrphanAnswered(t)
          PROVE  Retries'
      BY <2>2, CompletedRetries, ContextFlushedRetries, AppendTerminalRetries,
         TerminalAppendedRetries, OrphanAnsweredRetries
    <2>. QED BY <1>2, <2>1, <2>2, RecordLoadedRetries, RecordedRetries,
                ResumeLoadedRetries, ResumedRetries DEF Serve
  <1>. QED BY <1>1, <1>2, OrphanAppendsRetries, RecordRetries, CloseSessionRetries,
              CrashRetries, ResumeRetries DEF Next

LEMMA StutterRetries ==
  ASSUME RetryInv, UNCHANGED vars
  PROVE  Retries'
  <1>1. UNCHANGED <<journal, run, pending, session, orphan, faults>>
    BY DEF vars
  <1>2. Lefts /\ FromTurns(pending', pending)
    BY <1>1, RetryNow, LeftsKept
  <1>. QED BY <1>1, <1>2, QuietRetries

\* A session is put out of use only after a refused operation, or after a lost
\* answer and a collector's late append: the second attempt to store a terminal
\* makes up for any number of the one, and for the other.
THEOREM NotStrandedByOneFault ==
  ASSUME Faults \subseteq Bearable
  PROVE  Spec => []NotStrandedLightly
  <1>1. Init => RetryInv
    BY InitRetries
  <1>2. RetryInv /\ [Next]_vars => RetryInv'
    BY RetryNow, NextRetries, StutterRetries, NextJournal, StutterJournal DEF RetryInv
  <1>3. RetryInv => NotStrandedLightly
    BY RetryNow
  <1>. QED BY <1>1, <1>2, <1>3, PTL DEF Spec
=============================================================================
