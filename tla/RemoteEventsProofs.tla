-------------------------- MODULE RemoteEventsProofs --------------------------
(***************************************************************************)
(* Proofs about RemoteEvents, for any number of links, channels, events,   *)
(* connections and restarts, and for a journal of any capacity: the phone  *)
(* is served as EventFeed promises.                                        *)
(*                                                                         *)
(* The strengthening bounds every number that is under way by the last one *)
(* of the journal, and the number every link resumes from by what the      *)
(* application has.                                                        *)
(***************************************************************************)
EXTENDS RemoteEvents, SequenceTheorems, TLAPS

-----------------------------------------------------------------------------
(* Frames and replays of a journal that numbered up to n *)

Sent(n) == {f \in DownFrame : f.type = "event" => f.n \in 1..n}

Asked(n) == {f \in UpFrame : f.type = "ack" => f.n \in 0..n}

Stretch(n) == {r \in Nat \X Nat : r[1] \in 1..r[2] /\ r[2] \in 0..n}

JournalTyped ==
  /\ sequence \in Nat /\ oldest \in 0..sequence /\ resyncs \in SUBSET Nat
  /\ online \in BOOLEAN
  /\ desk \in [Link -> {"off", "acking", "online"}]

PhoneTyped ==
  /\ phone \in [Link -> Candidate]
  /\ active \in Link \cup {None}

AppTyped ==
  /\ position \in Nat /\ saved \in Nat /\ covered \in Nat
  /\ handed \in Handed

Carried ==
  /\ replays \in [Link -> Seq(Stretch(sequence))]
  /\ down \in [Link -> Seq(Sent(sequence))]
  /\ up \in [Link -> Seq(Asked(sequence))]

BoundsTyped == connects \in Nat /\ restarts \in Nat /\ renumbered \in BOOLEAN

\* No link, and nothing a phone would resume from, is ahead of the application,
\* before a desktop numbers its events anew.
NotAhead == renumbered \/ InStep

IInv == JournalTyped /\ PhoneTyped /\ AppTyped /\ Carried /\ BoundsTyped /\ NotAhead

-----------------------------------------------------------------------------
(* Lemmas about frames *)

LEMMA SeqGrows ==
  ASSUME NEW S, NEW T, S \subseteq T
  PROVE  Seq(S) \subseteq Seq(T)
  OBVIOUS

\* What is under way stays in range when the journal numbers on.
LEMMA CarriedGrows ==
  ASSUME Carried, NEW n \in Nat, sequence \in Nat, sequence <= n
  PROVE  /\ replays \in [Link -> Seq(Stretch(n))]
         /\ down \in [Link -> Seq(Sent(n))]
         /\ up \in [Link -> Seq(Asked(n))]
  <1>1. /\ Stretch(sequence) \subseteq Stretch(n)
        /\ Sent(sequence) \subseteq Sent(n)
        /\ Asked(sequence) \subseteq Asked(n)
    BY DEF Stretch, Sent, Asked
  <1>2. /\ Seq(Stretch(sequence)) \subseteq Seq(Stretch(n))
        /\ Seq(Sent(sequence)) \subseteq Seq(Sent(n))
        /\ Seq(Asked(sequence)) \subseteq Seq(Asked(n))
    BY <1>1, SeqGrows
  <1> QED BY <1>2, Zenon DEF Carried

LEMMA AppendTo ==
  ASSUME NEW S, NEW f \in [Link -> Seq(S)], NEW k \in Link, NEW x \in S
  PROVE  [f EXCEPT ![k] = Append(@, x)] \in [Link -> Seq(S)]
  BY AppendProperties

LEMMA TailOf ==
  ASSUME NEW S, NEW f \in [Link -> Seq(S)], NEW k \in Link, f[k] # <<>>
  PROVE  /\ [f EXCEPT ![k] = Tail(@)] \in [Link -> Seq(S)]
         /\ Head(f[k]) \in S
  BY HeadTailProperties

LEMMA ClearOf ==
  ASSUME NEW S, NEW f \in [Link -> Seq(S)], NEW k \in Link
  PROVE  [f EXCEPT ![k] = <<>>] \in [Link -> Seq(S)]
  OBVIOUS

LEMMA NothingIn ==
  ASSUME NEW S
  PROVE  [k \in Link |-> <<>>] \in [Link -> Seq(S)]
  OBVIOUS

LEMMA EventIsSent ==
  ASSUME NEW m \in Nat, NEW n \in 1..m, NEW b \in BOOLEAN
  PROVE  Event(n, b) \in Sent(m)
  BY DEF Event, Sent, DownFrame

LEMMA AskedFrames ==
  ASSUME NEW m \in Nat, NEW n \in Nat
  PROVE  /\ [type |-> "hello", n |-> 0] \in Asked(m)
         /\ [type |-> "resume", n |-> n] \in Asked(m)
         /\ n <= m => [type |-> "ack", n |-> n] \in Asked(m)
  BY DEF Asked, UpFrame

LEMMA HigherOf ==
  ASSUME NEW m \in Nat, NEW n \in Nat
  PROVE  /\ Higher(m, n) \in Nat
         /\ Higher(m, n) >= m /\ Higher(m, n) >= n
         /\ Higher(m, n) \in {m, n}
  BY DEF Higher

LEMMA Recorded ==
  ASSUME JournalTyped, NEW b \in BOOLEAN, Record(b)
  PROVE  /\ sequence' = sequence + 1
         /\ sequence' \in Nat
         /\ oldest' \in 0..sequence'
         /\ resyncs' \in SUBSET Nat
  BY CapacityAssumption DEF JournalTyped, Record, Higher

-----------------------------------------------------------------------------
(* The desktop's steps *)

LEMMA InitIInv == Init => IInv
  <1> SUFFICES ASSUME Init PROVE IInv
    OBVIOUS
  <1>1. Carried
    BY NothingIn, Zenon DEF Init, Carried
  <1>2. Off \in Candidate
    BY DEF Off, Candidate
  <1>3. JournalTyped /\ AppTyped /\ BoundsTyped
    <2>1. desk \in [Link -> {"off", "acking", "online"}]
      BY Zenon DEF Init
    <2>2. sequence = 0 /\ oldest = 0 /\ resyncs = {} /\ online = FALSE
      BY Zenon DEF Init
    <2>3. AppTyped /\ BoundsTyped
      BY DEF Init, AppTyped, BoundsTyped, Handed, Nothing
    <2>4. 0 \in Nat /\ 0 \in 0..0
      OBVIOUS
    <2>5. resyncs \in SUBSET Nat /\ online \in BOOLEAN /\ sequence \in Nat /\ oldest \in 0..sequence
      BY <2>2, <2>4, Zenon
    <2> QED BY <2>1, <2>3, <2>5, Zenon DEF JournalTyped
  <1>4. PhoneTyped
    BY <1>2, Zenon DEF Init, PhoneTyped
  <1>5. NotAhead
    BY DEF Init, NotAhead, InStep, Off
  <1> QED BY <1>1, <1>3, <1>4, <1>5 DEF IInv

LEMMA PublishIInv ==
  ASSUME IInv, Publish
  PROVE  IInv'
  <1>1. JournalTyped' /\ sequence' = sequence + 1
    BY Recorded DEF IInv, JournalTyped, Publish, deskVars
  <1>2. PhoneTyped' /\ AppTyped' /\ BoundsTyped' /\ NotAhead'
    BY DEF IInv, PhoneTyped, AppTyped, BoundsTyped, NotAhead, InStep, Publish, phoneVars, appVars, bounds
  <1>3. /\ replays' \in [Link -> Seq(Stretch(sequence'))]
        /\ up' \in [Link -> Seq(Asked(sequence'))]
    BY CarriedGrows, <1>1 DEF IInv, JournalTyped, Publish, deskVars
  <1>4. down' \in [Link -> Seq(Sent(sequence'))]
    <2>1. down \in [Link -> Seq(Sent(sequence'))]
      BY CarriedGrows, <1>1 DEF IInv, JournalTyped
    <2>2. Event(sequence + 1, FALSE) \in Sent(sequence')
      <3>1. sequence' \in Nat /\ sequence + 1 \in 1..sequence'
        BY <1>1 DEF IInv, JournalTyped
      <3> QED BY <3>1, EventIsSent
    <2>3. \A k \in Link :
            [down EXCEPT ![k] = Append(@, Event(sequence + 1, FALSE))] \in [Link -> Seq(Sent(sequence'))]
      BY AppendTo, <2>1, <2>2
    <2> QED BY <2>1, <2>3, Zenon DEF Publish, Preferred, Live
  <1> QED BY <1>1, <1>2, <1>3, <1>4 DEF IInv, Carried

LEMMA GraceEndsIInv ==
  ASSUME IInv, GraceEnds
  PROVE  IInv'
  BY DEF GraceEnds, IInv, JournalTyped, PhoneTyped, AppTyped, Carried, BoundsTyped, NotAhead, InStep,
    journalVars, phoneVars, appVars, bounds

LEMMA HelloIInv ==
  ASSUME IInv, NEW k \in Link, Hello(k)
  PROVE  IInv'
  <1>1. JournalTyped'
    BY DEF IInv, JournalTyped, Hello, journalVars
  <1>2. PhoneTyped' /\ AppTyped' /\ BoundsTyped' /\ NotAhead'
    BY DEF IInv, PhoneTyped, AppTyped, BoundsTyped, NotAhead, InStep, Hello, phoneVars, appVars, bounds
  <1>3. up' \in [Link -> Seq(Asked(sequence))]
    BY TailOf DEF IInv, Carried, Hello, Takes
  <1>4. down' \in [Link -> Seq(Sent(sequence))]
    <2>1. [type |-> "hello_ack", n |-> 0, resync |-> FALSE] \in Sent(sequence)
      BY DEF Sent, DownFrame
    <2> QED BY <2>1, AppendTo DEF IInv, Carried, Hello
  <1> QED BY <1>1, <1>2, <1>3, <1>4 DEF IInv, Carried, Hello, journalVars

LEMMA GoOnlineIInv ==
  ASSUME IInv, NEW k \in Link, GoOnline(k)
  PROVE  IInv'
  BY DEF GoOnline, IInv, JournalTyped, PhoneTyped, AppTyped, Carried, BoundsTyped, NotAhead, InStep,
    journalVars, phoneVars, appVars, bounds

LEMMA ReplayIInv ==
  ASSUME IInv, NEW k \in Link, Replay(k)
  PROVE  IInv'
  <1> DEFINE n == Head(up[k]).n
  <1>1. up' \in [Link -> Seq(Asked(sequence))] /\ n \in Nat
    <2>1. up' = [up EXCEPT ![k] = Tail(@)] /\ up[k] # <<>>
      BY DEF Replay, Takes
    <2>2. up' \in [Link -> Seq(Asked(sequence))] /\ Head(up[k]) \in Asked(sequence)
      BY <2>1, TailOf DEF IInv, Carried
    <2> QED BY <2>2 DEF Asked, UpFrame
  <1>2. PhoneTyped' /\ AppTyped' /\ BoundsTyped' /\ NotAhead'
    BY DEF IInv, PhoneTyped, AppTyped, BoundsTyped, NotAhead, InStep, Replay, phoneVars, appVars, bounds
  <1>3. online' = online /\ desk' = desk
    BY DEF Replay
  <1>4. PICK dropped \in oldest..sequence :
          \/ /\ Known(n, dropped)
             /\ oldest' = dropped
             /\ replays' = IF n = sequence THEN replays
                            ELSE [replays EXCEPT ![k] = Append(@, <<Higher(n, dropped) + 1, sequence>>)]
             /\ UNCHANGED <<sequence, resyncs, down>>
          \/ /\ ~Known(n, dropped)
             /\ Record(TRUE)
             /\ down' = IF desk[k] = "online"
                           THEN [down EXCEPT ![k] = Append(@, Event(sequence + 1, TRUE))]
                           ELSE down
             /\ UNCHANGED replays
    BY DEF Replay
  <1> HIDE DEF n
  <1>5. CASE Known(n, dropped) /\ UNCHANGED sequence
    <2>1. JournalTyped'
      <3>1. oldest' = dropped /\ resyncs' = resyncs
        BY <1>4, <1>5
      <3>2. oldest' \in 0..sequence'
        BY <1>5, <3>1 DEF IInv, JournalTyped
      <3> QED BY <1>3, <1>5, <3>1, <3>2 DEF IInv, JournalTyped
    <2>2. replays' \in [Link -> Seq(Stretch(sequence))]
      <3>1. CASE n = sequence
        BY <1>4, <1>5, <3>1 DEF IInv, Carried
      <3>2. CASE n # sequence
        <4>1. <<Higher(n, dropped) + 1, sequence>> \in Stretch(sequence)
          BY <1>1, <1>4, <1>5, <3>2 DEF IInv, JournalTyped, Known, Higher, Stretch
        <4>2. [replays EXCEPT ![k] = Append(@, <<Higher(n, dropped) + 1, sequence>>)]
                \in [Link -> Seq(Stretch(sequence))]
          BY <4>1, AppendTo DEF IInv, Carried
        <4> QED BY <4>2, <1>4, <1>5, <3>2
      <3> QED BY <3>1, <3>2
    <2> QED BY <1>1, <1>2, <1>4, <1>5, <2>1, <2>2 DEF IInv, Carried
  <1>6. CASE Record(TRUE) /\ ~Known(n, dropped)
    <2>1. JournalTyped' /\ sequence' = sequence + 1
      BY <1>3, <1>6, Recorded DEF IInv, JournalTyped
    <2>2. /\ replays' \in [Link -> Seq(Stretch(sequence'))]
          /\ down \in [Link -> Seq(Sent(sequence'))]
      <3>1. sequence \in Nat /\ sequence' \in Nat /\ sequence <= sequence'
        BY <2>1 DEF IInv, JournalTyped
      <3>2. replays' = replays
        BY <1>4, <1>6
      <3> QED BY <3>1, <3>2, CarriedGrows DEF IInv
    <2>3. up' \in [Link -> Seq(Asked(sequence'))]
      <3>1. Seq(Asked(sequence)) \subseteq Seq(Asked(sequence'))
        <4>1. Asked(sequence) \subseteq Asked(sequence')
          BY <2>1 DEF Asked, IInv, JournalTyped
        <4> QED BY <4>1, SeqGrows
      <3> QED BY <1>1, <3>1
    <2>4. down' \in [Link -> Seq(Sent(sequence'))]
      <3>1. Event(sequence + 1, TRUE) \in Sent(sequence')
        <4>1. sequence' \in Nat /\ sequence + 1 \in 1..sequence'
          BY <2>1 DEF IInv, JournalTyped
        <4> QED BY <4>1, EventIsSent
      <3>2. [down EXCEPT ![k] = Append(@, Event(sequence + 1, TRUE))] \in [Link -> Seq(Sent(sequence'))]
        BY <3>1, <2>2, AppendTo
      <3> QED BY <3>2, <2>2, <1>4, <1>6
    <2> QED BY <1>2, <2>1, <2>2, <2>3, <2>4 DEF IInv, Carried
  <1> QED BY <1>4, <1>5, <1>6

LEMMA SendReplayIInv ==
  ASSUME IInv, NEW k \in Link, SendReplay(k)
  PROVE  IInv'
  <1>1. PICK i \in DOMAIN replays[k] :
          /\ down' = [down EXCEPT ![k] = Append(@, Event(replays[k][i][1], replays[k][i][1] \in resyncs))]
          /\ replays' = [replays EXCEPT ![k] =
               IF replays[k][i][1] < replays[k][i][2]
                 THEN [@ EXCEPT ![i] = <<replays[k][i][1] + 1, replays[k][i][2]>>]
                 ELSE [j \in 1..(Len(@) - 1) |-> IF j < i THEN @[j] ELSE @[j + 1]]]
    BY DEF SendReplay
  <1> DEFINE q == replays[k]
             r == q[i]
  <1>2. q \in Seq(Stretch(sequence)) /\ i \in 1..Len(q) /\ r \in Stretch(sequence)
    BY DEF IInv, Carried
  <1>3. r[1] \in Nat /\ r[2] \in Nat /\ r[1] \in 1..r[2] /\ r[2] \in 0..sequence
    BY <1>2 DEF Stretch
  <1>4. down' \in [Link -> Seq(Sent(sequence))]
    <2>1. Event(r[1], r[1] \in resyncs) \in Sent(sequence)
      <3>1. sequence \in Nat /\ r[1] \in 1..sequence /\ (r[1] \in resyncs) \in BOOLEAN
        BY <1>3 DEF IInv, JournalTyped
      <3> QED BY <3>1, EventIsSent
    <2> QED BY <1>1, <2>1, AppendTo DEF IInv, Carried
  <1>5. replays' \in [Link -> Seq(Stretch(sequence))]
    <2>1. CASE r[1] < r[2]
      <3>1. <<r[1] + 1, r[2]>> \in Stretch(sequence)
        BY <1>3, <2>1 DEF Stretch
      <3>2. [q EXCEPT ![i] = <<r[1] + 1, r[2]>>] \in Seq(Stretch(sequence))
        BY <1>2, <3>1, ExceptSeq
      <3>3. replays' = [replays EXCEPT ![k] = [q EXCEPT ![i] = <<r[1] + 1, r[2]>>]]
        BY <1>1, <2>1
      <3> QED BY <3>2, <3>3 DEF IInv, Carried
    <2>2. CASE ~(r[1] < r[2])
      <3> DEFINE rest == [j \in 1..(Len(q) - 1) |-> IF j < i THEN q[j] ELSE q[j + 1]]
      <3>1. rest \in Seq(Stretch(sequence))
        <4>1. \A j \in 1..(Len(q) - 1) : rest[j] \in Stretch(sequence)
          BY <1>2
        <4>2. Len(q) - 1 \in Nat
          BY <1>2
        <4> HIDE DEF q, r
        <4> QED BY <4>1, <4>2
      <3>2. replays' = [replays EXCEPT ![k] = rest]
        BY <1>1, <2>2
      <3> HIDE DEF rest
      <3> QED BY <3>1, <3>2 DEF IInv, Carried
    <2> QED BY <2>1, <2>2
  <1>6. UNCHANGED <<journalVars, online, desk, phoneVars, appVars, up, bounds>>
    BY DEF SendReplay
  <1> HIDE DEF q, r
  <1> QED BY <1>4, <1>5, <1>6 DEF IInv, JournalTyped, PhoneTyped, AppTyped, Carried, BoundsTyped,
    NotAhead, InStep, journalVars, phoneVars, appVars, bounds

LEMMA AcknowledgedIInv ==
  ASSUME IInv, NEW k \in Link, Acknowledged(k)
  PROVE  IInv'
  <1>1. /\ up' \in [Link -> Seq(Asked(sequence))]
        /\ Head(up[k]) \in Asked(sequence) /\ Head(up[k]).type = "ack"
    BY TailOf DEF IInv, Carried, Acknowledged, Takes
  <1>2. Head(up[k]).n \in 0..sequence
    BY <1>1 DEF Asked
  <1>3. oldest' \in 0..sequence
    BY <1>2 DEF Acknowledged, Higher, IInv, JournalTyped
  <1> QED BY <1>1, <1>3 DEF Acknowledged, IInv, JournalTyped, PhoneTyped, AppTyped, Carried,
    BoundsTyped, NotAhead, InStep, deskVars, phoneVars, appVars, bounds

LEMMA DeskDropsIInv ==
  ASSUME IInv, NEW k \in Link, DeskDrops(k)
  PROVE  IInv'
  <1>1. /\ replays' \in [Link -> Seq(Stretch(sequence))]
        /\ up' \in [Link -> Seq(Asked(sequence))]
    BY ClearOf DEF DeskDrops, IInv, Carried
  <1> QED BY <1>1 DEF DeskDrops, IInv, JournalTyped, PhoneTyped, AppTyped, Carried,
    BoundsTyped, NotAhead, InStep, journalVars, phoneVars, appVars, bounds

-----------------------------------------------------------------------------
(* The phone's steps *)

LEMMA ConnectIInv ==
  ASSUME IInv, NEW k \in Link, Connect(k)
  PROVE  IInv'
  <1> DEFINE c == [at |-> "connecting", last |-> position, disposed |-> FALSE]
  <1>1. phone' = [phone EXCEPT ![k] = c]
    BY DEF Connect
  <1>2. c \in Candidate /\ c.last = position
    BY DEF IInv, AppTyped, Candidate
  <1> HIDE DEF c
  <1>3. PhoneTyped'
    BY <1>1, <1>2 DEF IInv, PhoneTyped, Connect
  <1>4. NotAhead'
    BY <1>1, <1>2 DEF IInv, PhoneTyped, NotAhead, InStep, Connect, appVars
  <1>5. up' \in [Link -> Seq(Asked(sequence))]
    <2>1. [type |-> "hello", n |-> 0] \in Asked(sequence)
      BY AskedFrames DEF IInv, JournalTyped
    <2>2. <<[type |-> "hello", n |-> 0]>> \in Seq(Asked(sequence))
      BY <2>1
    <2> QED BY <2>2, Zenon DEF Connect, IInv, Carried
  <1> QED BY <1>3, <1>4, <1>5 DEF Connect, IInv, JournalTyped, AppTyped, Carried, BoundsTyped,
    journalVars, deskVars, appVars

\* A connection that sends a resume.
LEMMA AskFrom ==
  ASSUME IInv, NEW k \in Link,
         up' = [up EXCEPT ![k] = Append(@, [type |-> "resume", n |-> phone[k].last])]
  PROVE  up' \in [Link -> Seq(Asked(sequence))]
  <1>1. phone[k].last \in Nat /\ sequence \in Nat
    BY DEF IInv, PhoneTyped, JournalTyped, Candidate
  <1>2. [type |-> "resume", n |-> phone[k].last] \in Asked(sequence)
    BY <1>1, AskedFrames
  <1> QED BY <1>2, AppendTo DEF IInv, Carried

\* A connection of the phone that changes its state only.
LEMMA MovesTo ==
  ASSUME IInv, NEW k \in Link, NEW s \in {"online", "recovering"},
         phone' = [phone EXCEPT ![k].at = s]
  PROVE  /\ phone' \in [Link -> Candidate]
         /\ \A l \in Link : phone'[l].last = phone[l].last /\ phone'[l].disposed = phone[l].disposed
  <1> DEFINE c == [phone[k] EXCEPT !.at = s]
  <1>1. phone' = [phone EXCEPT ![k] = c]
    OBVIOUS
  <1>2. phone[k] \in Candidate
    BY DEF IInv, PhoneTyped
  <1>3. c \in Candidate /\ c.last = phone[k].last /\ c.disposed = phone[k].disposed
    BY <1>2 DEF Candidate
  <1> HIDE DEF c
  <1> QED BY <1>1, <1>3 DEF IInv, PhoneTyped

LEMMA HelloAckIInv ==
  ASSUME IInv, NEW k \in Link, HelloAck(k)
  PROVE  IInv'
  <1>1. phone' = [phone EXCEPT ![k].at = "online"]
    BY DEF HelloAck
  <1>2. PhoneTyped'
    BY <1>1, MovesTo DEF IInv, PhoneTyped, HelloAck
  <1>3. NotAhead'
    <2>1. InStep => InStep'
      BY <1>1, MovesTo DEF InStep, HelloAck, appVars
    <2>2. renumbered' = renumbered
      BY DEF HelloAck, bounds
    <2> QED BY <2>1, <2>2 DEF IInv, NotAhead
  <1>4. up' \in [Link -> Seq(Asked(sequence))]
    BY AskFrom DEF HelloAck
  <1>5. down' \in [Link -> Seq(Sent(sequence))]
    BY TailOf DEF HelloAck, Receives, IInv, Carried
  <1> QED BY <1>2, <1>3, <1>4, <1>5 DEF HelloAck, IInv, JournalTyped, AppTyped, Carried, BoundsTyped,
    journalVars, deskVars, appVars, bounds

LEMMA AdoptIInv ==
  ASSUME IInv, NEW k \in Link, Adopt(k)
  PROVE  IInv'
  <1>1. /\ phone' \in [Link -> Candidate]
        /\ \A l \in Link : /\ phone'[l].last = phone[l].last
                           /\ ~phone'[l].disposed => ~phone[l].disposed
    <2>1. CASE active = None
      BY <2>1 DEF Adopt, IInv, PhoneTyped
    <2>2. CASE active # None
      <3> DEFINE c == [phone[active] EXCEPT !.disposed = TRUE]
      <3>1. active \in Link /\ phone[active] \in Candidate
        BY <2>2 DEF IInv, PhoneTyped
      <3>2. c \in Candidate /\ c.last = phone[active].last /\ c.disposed
        BY <3>1 DEF Candidate
      <3>3. phone' = [phone EXCEPT ![active] = c]
        BY <2>2 DEF Adopt
      <3> HIDE DEF c
      <3> QED BY <3>1, <3>2, <3>3 DEF IInv, PhoneTyped
    <2> QED BY <2>1, <2>2
  <1>2. PhoneTyped'
    BY <1>1 DEF Adopt, PhoneTyped
  <1>3. NotAhead'
    <2>1. InStep => InStep'
      BY <1>1 DEF Adopt, InStep, appVars
    <2>2. renumbered' = renumbered
      BY DEF Adopt, bounds
    <2> QED BY <2>1, <2>2 DEF IInv, NotAhead
  <1> QED BY <1>2, <1>3 DEF Adopt, IInv, JournalTyped, AppTyped, Carried, BoundsTyped,
    journalVars, deskVars, appVars, bounds

\* The frame a link brings is one of the journal's.
LEMMA ReceivedIsSent ==
  ASSUME IInv, NEW k \in Link, Receives(k, "event"),
         down' = [down EXCEPT ![k] = Tail(@)]
  PROVE  /\ down' \in [Link -> Seq(Sent(sequence))]
         /\ Head(down[k]).n \in 1..sequence
         /\ Head(down[k]).resync \in BOOLEAN
  <1>1. down' \in [Link -> Seq(Sent(sequence))] /\ Head(down[k]) \in Sent(sequence)
    BY TailOf DEF Receives, IInv, Carried
  <1>2. Head(down[k]).type = "event"
    BY DEF Receives
  <1> QED BY <1>1, <1>2 DEF Sent, DownFrame

\* deliver() does not take the application back behind a number it was handed, and
\* what is due leaves no gap.
LEMMA Delivered ==
  ASSUME AppTyped, NEW e, e.n \in Nat, e.resync \in BOOLEAN, Deliver(e)
  PROVE  /\ position' \in Nat /\ covered' \in Nat /\ handed' \in Handed
         /\ covered <= covered'
         /\ position <= covered /\ (e.resync \/ e.n <= covered + 1) =>
              position' <= covered' /\ e.n <= covered'
  <1>1. covered \in Nat /\ position \in Nat /\ handed \in Handed
    BY DEF AppTyped
  <1>2. CASE e.resync \/ e.n > position
    <2>1. position' = e.n /\ covered' = Covers(e)
      BY <1>2 DEF Deliver
    <2>2. handed' \in Handed
      BY <1>2 DEF Deliver, Handed
    <2>3. Covers(e) \in Nat /\ covered <= Covers(e)
      BY <1>1 DEF Covers, Higher
    <2>4. e.resync \/ e.n <= covered + 1 => e.n <= Covers(e)
      BY <1>1 DEF Covers, Higher
    <2> QED BY <2>1, <2>2, <2>3, <2>4
  <1>3. CASE ~(e.resync \/ e.n > position)
    <2>1. UNCHANGED <<position, handed, covered>>
      BY <1>3 DEF Deliver
    <2> QED BY <1>1, <1>3, <2>1
  <1> QED BY <1>2, <1>3

LEMMA TakeIInv ==
  ASSUME IInv, NEW k \in Link, HandleEvent(k), Due(k, Head(down[k])), Take(k, Head(down[k]))
  PROVE  IInv'
  <1> DEFINE e == Head(down[k])
             c == [phone[k] EXCEPT !.last = e.n, !.at = "online"]
  <1>1. /\ down' \in [Link -> Seq(Sent(sequence))]
        /\ e.n \in 1..sequence /\ e.resync \in BOOLEAN
    BY ReceivedIsSent DEF HandleEvent
  <1>2. phone[k] \in Candidate /\ sequence \in Nat /\ phone[k].last \in Nat
    BY DEF IInv, PhoneTyped, JournalTyped, Candidate
  <1>3. c \in Candidate /\ c.last = e.n /\ c.disposed = phone[k].disposed
    <2> HIDE DEF e
    <2>1. e.n \in Nat
      BY <1>1, <1>2
    <2> QED BY <1>2, <2>1 DEF Candidate
  <1>4. /\ phone' = [phone EXCEPT ![k] = c]
        /\ up' = [up EXCEPT ![k] = Append(@, [type |-> "ack", n |-> e.n])]
        /\ IF phone[k].disposed THEN UNCHANGED <<position, handed, covered>> ELSE Deliver(e)
        /\ e.resync \/ e.n = phone[k].last + 1
    BY DEF Take, Due
  <1> HIDE DEF c, e
  <1>5. PhoneTyped'
    BY <1>3, <1>4 DEF IInv, PhoneTyped, HandleEvent
  <1>6. up' \in [Link -> Seq(Asked(sequence))]
    <2>1. e.n \in Nat /\ e.n <= sequence
      BY <1>1, <1>2
    <2>2. [type |-> "ack", n |-> e.n] \in Asked(sequence)
      BY <1>2, <2>1, AskedFrames
    <2> QED BY <1>4, <2>2, AppendTo DEF IInv, Carried
  <1>7. /\ AppTyped' /\ covered <= covered'
        /\ InStep => position' <= covered'
        /\ InStep /\ ~phone[k].disposed => e.n <= covered'
    <2>1. saved' = saved
      BY DEF HandleEvent
    <2>2. CASE phone[k].disposed
      BY <1>4, <2>1, <2>2 DEF IInv, AppTyped, InStep
    <2>3. CASE ~phone[k].disposed
      <3>1. AppTyped /\ e.n \in Nat /\ e.resync \in BOOLEAN /\ Deliver(e) /\ covered \in Nat
        BY <1>1, <1>2, <1>4, <2>3 DEF IInv, AppTyped
      <3>2. InStep => position <= covered /\ (e.resync \/ e.n <= covered + 1)
        BY <1>2, <1>4, <2>3, <3>1 DEF InStep
      <3> QED BY <2>1, <3>1, <3>2, Delivered DEF AppTyped
    <2> QED BY <2>2, <2>3
  <1>8. InStep => InStep'
    <2> SUFFICES ASSUME InStep PROVE InStep'
      OBVIOUS
    <2>1. saved' <= covered'
      BY <1>7 DEF IInv, InStep, AppTyped, HandleEvent
    <2>2. ASSUME NEW l \in Link, ~phone'[l].disposed
          PROVE  phone'[l].last <= covered'
      <3>1. CASE l = k
        BY <1>3, <1>4, <1>7, <2>2, <3>1 DEF IInv, PhoneTyped
      <3>2. CASE l # k
        <4>1. phone'[l] = phone[l]
          BY <1>4, <3>2 DEF IInv, PhoneTyped
        <4>2. phone[l].last <= covered /\ phone[l].last \in Nat
          BY <2>2, <4>1 DEF IInv, InStep, PhoneTyped, Candidate
        <4> QED BY <1>7, <4>1, <4>2 DEF IInv, AppTyped
      <3> QED BY <3>1, <3>2
    <2> QED BY <1>7, <2>1, <2>2 DEF InStep
  <1>9. NotAhead'
    BY <1>8 DEF IInv, NotAhead, HandleEvent, bounds
  <1> QED BY <1>1, <1>5, <1>6, <1>7, <1>9 DEF HandleEvent, IInv, JournalTyped, Carried, BoundsTyped,
    journalVars, deskVars, bounds

LEMMA HandleEventIInv ==
  ASSUME IInv, NEW k \in Link, HandleEvent(k)
  PROVE  IInv'
  <1>1. CASE Due(k, Head(down[k])) /\ Take(k, Head(down[k]))
    BY <1>1, TakeIInv
  <1>2. CASE ~(Due(k, Head(down[k])) /\ Take(k, Head(down[k])))
    <2>1. down' \in [Link -> Seq(Sent(sequence))]
      BY ReceivedIsSent DEF HandleEvent
    <2>2. UNCHANGED <<position, handed, covered>>
      BY <1>2 DEF HandleEvent, Miss
    <2>3. Miss(k) \/ UNCHANGED <<phone, up>>
      BY <1>2 DEF HandleEvent
    <2>4. /\ phone' \in [Link -> Candidate]
          /\ \A l \in Link : phone'[l].last = phone[l].last /\ phone'[l].disposed = phone[l].disposed
      BY <2>3, MovesTo DEF Miss, IInv, PhoneTyped
    <2>5. up' \in [Link -> Seq(Asked(sequence))]
      BY <2>3, AskFrom DEF Miss, IInv, Carried
    <2>6. NotAhead'
      <3>1. InStep => InStep'
        BY <2>2, <2>4 DEF HandleEvent, InStep
      <3>2. renumbered' = renumbered
        BY DEF HandleEvent, bounds
      <3> QED BY <3>1, <3>2 DEF IInv, NotAhead
    <2> QED BY <2>1, <2>2, <2>4, <2>5, <2>6 DEF HandleEvent, IInv, JournalTyped, PhoneTyped, AppTyped,
      Carried, BoundsTyped, journalVars, deskVars, bounds
  <1> QED BY <1>1, <1>2

LEMMA BreakIInv ==
  ASSUME IInv, NEW k \in Link, Break(k)
  PROVE  IInv'
  <1>1. PICK gone \in SUBSET Link :
          /\ phone' = [l \in Link |-> IF l \in gone THEN Off ELSE phone[l]]
          /\ down' = [l \in Link |-> IF l \in gone THEN <<>> ELSE down[l]]
    <2>1. {k} \cup {l \in Link : active = k /\ ~phone[l].disposed} \in SUBSET Link
      OBVIOUS
    <2> QED BY <2>1, Zenon DEF Break
  <1>2. Off \in Candidate /\ Off.last = 0
    BY DEF Off, Candidate
  <1>3. PhoneTyped'
    BY <1>1, <1>2 DEF Break, IInv, PhoneTyped
  <1>4. down' \in [Link -> Seq(Sent(sequence))]
    BY <1>1 DEF IInv, Carried
  <1>5. NotAhead'
    <2>1. UNCHANGED <<position, saved, covered>> /\ covered \in Nat
      BY DEF Break, appVars, IInv, AppTyped
    <2>2. \A l \in Link : phone'[l] = Off \/ phone'[l] = phone[l]
      BY <1>1
    <2>3. InStep => InStep'
      BY <1>2, <2>1, <2>2 DEF InStep
    <2>4. renumbered' = renumbered
      BY DEF Break, bounds
    <2> QED BY <2>3, <2>4 DEF IInv, NotAhead
  <1> QED BY <1>3, <1>4, <1>5 DEF Break, IInv, JournalTyped, AppTyped, Carried, BoundsTyped,
    journalVars, deskVars, appVars, bounds

LEMMA SaveIInv ==
  ASSUME IInv, Save
  PROVE  IInv'
  BY DEF Save, IInv, JournalTyped, PhoneTyped, AppTyped, Carried, BoundsTyped, NotAhead, InStep,
    journalVars, deskVars, phoneVars, bounds

LEMMA PhoneRestartsIInv ==
  ASSUME IInv, PhoneRestarts
  PROVE  IInv'
  <1>1. Off \in Candidate /\ Off.last = 0
    BY DEF Off, Candidate
  <1>2. PhoneTyped'
    BY <1>1, Zenon DEF PhoneRestarts, PhoneTyped
  <1>3. NotAhead' /\ AppTyped'
    <2>1. /\ position' = saved /\ saved' = saved /\ handed' = Nothing
          /\ covered' = IF saved < covered THEN saved ELSE covered
          /\ renumbered' = renumbered
          /\ \A k \in Link : phone'[k] = Off
      BY DEF PhoneRestarts
    <2>2. saved \in Nat /\ covered \in Nat /\ Nothing \in Handed
      BY DEF IInv, AppTyped, Nothing, Handed
    <2>3. AppTyped'
      BY <2>1, <2>2 DEF AppTyped
    <2>4. InStep => InStep'
      BY <1>1, <2>1, <2>2 DEF InStep
    <2> QED BY <2>1, <2>3, <2>4 DEF IInv, NotAhead
  <1>4. down' \in [Link -> Seq(Sent(sequence))]
    BY NothingIn, Zenon DEF PhoneRestarts
  <1> QED BY <1>2, <1>3, <1>4 DEF PhoneRestarts, IInv, JournalTyped, Carried, BoundsTyped,
    journalVars, deskVars

LEMMA DeskRestartsIInv ==
  ASSUME IInv, DeskRestarts
  PROVE  IInv'
  <1>1. JournalTyped'
    <2>1. desk' \in [Link -> {"off", "acking", "online"}]
      BY Zenon DEF DeskRestarts
    <2>2. sequence' = 0 /\ oldest' = 0 /\ resyncs' = {} /\ online' = FALSE
      BY Zenon DEF DeskRestarts
    <2>3. 0 \in Nat /\ 0 \in 0..0
      OBVIOUS
    <2>4. /\ resyncs' \in SUBSET Nat /\ online' \in BOOLEAN
          /\ sequence' \in Nat /\ oldest' \in 0..sequence'
      BY <2>2, <2>3, Zenon
    <2> QED BY <2>1, <2>4, Zenon DEF JournalTyped
  <1>2. Carried'
    BY NothingIn, Zenon DEF DeskRestarts, Carried
  <1> QED BY <1>1, <1>2 DEF DeskRestarts, IInv, PhoneTyped, AppTyped, BoundsTyped, NotAhead, InStep,
    phoneVars, appVars

-----------------------------------------------------------------------------
(* The invariant *)

LEMMA NextIInv == IInv /\ Next => IInv'
  <1> SUFFICES ASSUME IInv, Next PROVE IInv'
    OBVIOUS
  <1>1. CASE Publish
    BY <1>1, PublishIInv
  <1>2. CASE GraceEnds
    BY <1>2, GraceEndsIInv
  <1>3. ASSUME NEW k \in Link, Answers(k) \/ SendReplay(k) \/ DeskDrops(k)
        PROVE  IInv'
    BY <1>3, HelloIInv, GoOnlineIInv, ReplayIInv, AcknowledgedIInv, SendReplayIInv, DeskDropsIInv
      DEF Answers
  <1>4. ASSUME NEW k \in Link,
               Connect(k) \/ HelloAck(k) \/ Adopt(k) \/ HandleEvent(k) \/ Break(k)
        PROVE  IInv'
    BY <1>4, ConnectIInv, HelloAckIInv, AdoptIInv, HandleEventIInv, BreakIInv
  <1>5. CASE Save
    BY <1>5, SaveIInv
  <1>6. CASE PhoneRestarts
    BY <1>6, PhoneRestartsIInv
  <1>7. CASE DeskRestarts
    BY <1>7, DeskRestartsIInv
  <1> QED BY <1>1, <1>2, <1>3, <1>4, <1>5, <1>6, <1>7 DEF Next

\* The application has nothing that was not numbered.
Numbered == covered <= sequence

LEMMA NumberedStays ==
  ASSUME IInv, Numbered, Next
  PROVE  Numbered'
  <1>1. sequence \in Nat /\ covered \in Nat
    BY DEF IInv, JournalTyped, AppTyped
  <1>2. ASSUME UNCHANGED covered, sequence' = sequence \/ sequence' = sequence + 1
        PROVE  Numbered'
    BY <1>1, <1>2 DEF Numbered
  <1>3. CASE Publish \/ GraceEnds \/ Save
    BY <1>2, <1>3 DEF Publish, GraceEnds, Save, Record, journalVars, appVars
  <1>4. ASSUME NEW k \in Link, Answers(k) \/ SendReplay(k) \/ DeskDrops(k)
        PROVE  Numbered'
    BY <1>2, <1>4 DEF Answers, Hello, GoOnline, Replay, Acknowledged, SendReplay, DeskDrops, Record,
      journalVars, appVars
  <1>5. ASSUME NEW k \in Link, Connect(k) \/ HelloAck(k) \/ Adopt(k) \/ Break(k)
        PROVE  Numbered'
    BY <1>2, <1>5 DEF Connect, HelloAck, Adopt, Break, journalVars, appVars
  <1>6. ASSUME NEW k \in Link, HandleEvent(k)
        PROVE  Numbered'
    <2>1. sequence' = sequence
      BY <1>6 DEF HandleEvent, journalVars
    <2>2. Head(down[k]).n \in 1..sequence
      BY <1>6, ReceivedIsSent DEF HandleEvent
    <2>3. covered' = covered \/ covered' = Covers(Head(down[k]))
      BY <1>6 DEF HandleEvent, Take, Miss, Deliver
    <2> QED BY <1>1, <2>1, <2>2, <2>3 DEF Numbered, Covers, Higher
  <1>7. CASE PhoneRestarts
    <2>1. sequence' = sequence /\ covered' = IF saved < covered THEN saved ELSE covered
      BY <1>7 DEF PhoneRestarts, journalVars
    <2>2. saved \in Nat
      BY DEF IInv, AppTyped
    <2> QED BY <1>1, <2>1, <2>2 DEF Numbered
  <1>8. CASE DeskRestarts
    BY <1>8 DEF DeskRestarts, Numbered
  <1> QED BY <1>3, <1>4, <1>5, <1>6, <1>7, <1>8 DEF Next

LEMMA StutterIInv == IInv /\ UNCHANGED vars => IInv'
  BY DEF IInv, JournalTyped, PhoneTyped, AppTyped, Carried, BoundsTyped, NotAhead, InStep, vars,
    journalVars, deskVars, phoneVars, appVars, bounds

\* The numbers of journal, frames, links and phone stay in step: whatever the phone
\* has, was numbered, and whatever is on its way to it is covered or comes next.
THEOREM Inductive == Spec => [](IInv /\ Numbered)
  <1>1. Init => Numbered
    BY DEF Init, Numbered
  <1>2. Numbered /\ UNCHANGED vars => Numbered'
    BY DEF Numbered, vars, journalVars, appVars
  <1>3. IInv /\ Numbered /\ [Next]_vars => (IInv /\ Numbered)'
    BY <1>2, NextIInv, StutterIInv, NumberedStays
  <1> QED BY InitIInv, <1>1, <1>3, PTL DEF Spec

LEMMA IInvTypes == IInv => TypeOK
  <1> SUFFICES ASSUME IInv PROVE TypeOK
    OBVIOUS
  <1>1. /\ Stretch(sequence) \subseteq Nat \X Nat
        /\ Sent(sequence) \subseteq DownFrame
        /\ Asked(sequence) \subseteq UpFrame
    BY DEF Stretch, Sent, Asked
  <1>2. /\ Seq(Stretch(sequence)) \subseteq Seq(Nat \X Nat)
        /\ Seq(Sent(sequence)) \subseteq Seq(DownFrame)
        /\ Seq(Asked(sequence)) \subseteq Seq(UpFrame)
    BY <1>1, SeqGrows
  <1>3. /\ replays \in [Link -> Seq(Nat \X Nat)]
        /\ down \in [Link -> Seq(DownFrame)]
        /\ up \in [Link -> Seq(UpFrame)]
    BY <1>2, Zenon DEF IInv, Carried
  <1> QED BY <1>3 DEF IInv, JournalTyped, PhoneTyped, AppTyped, BoundsTyped, TypeOK

\* Every variable keeps its type, and the journal never drops more than it numbered.
THEOREM TypeCorrect == Spec => []TypeOK
  BY Inductive, IInvTypes, PTL

-----------------------------------------------------------------------------
(* Refinement *)

Still == UNCHANGED <<sequence, covered, handed>>

LEMMA FeedInitially == Init => Feed!FeedInit
  BY DEF Init, Feed!FeedInit, Nothing

LEMMA PublishFeeds ==
  ASSUME Record(TRUE) \/ Record(FALSE), UNCHANGED <<covered, handed>>
  PROVE  Feed!FeedNext
  BY DEF Record, Feed!FeedNext, Feed!PublishNext

LEMMA HandleEventFeeds ==
  ASSUME IInv, Numbered, InStep, NEW k \in Link, HandleEvent(k)
  PROVE  Feed!FeedNext \/ Still
  <1> DEFINE e == Head(down[k])
  <1>1. /\ e.n \in 1..sequence /\ e.resync \in BOOLEAN
        /\ sequence \in Nat /\ covered \in Nat /\ position \in Nat /\ position <= covered
        /\ phone[k].last \in Nat
        /\ ~phone[k].disposed => phone[k].last <= covered
        /\ covered <= sequence
    BY ReceivedIsSent
      DEF HandleEvent, IInv, JournalTyped, AppTyped, InStep, PhoneTyped, Candidate, Numbered
  <1>2. sequence' = sequence
    BY DEF HandleEvent, journalVars
  <1>3. \/ Due(k, e) /\ ~phone[k].disposed /\ Deliver(e)
        \/ UNCHANGED <<position, handed, covered>>
    BY DEF HandleEvent, Take, Miss
  <1> HIDE DEF e
  <1>4. CASE UNCHANGED <<position, handed, covered>>
    BY <1>2, <1>4 DEF Still
  <1>5. CASE Due(k, e) /\ ~phone[k].disposed /\ Deliver(e)
    <2>1. CASE e.resync
      <3>1. covered' = Higher(covered, e.n) /\ handed' = [what |-> "reload", n |-> e.n]
        BY <1>5, <2>1 DEF Deliver, Covers
      <3>2. covered' \in covered..sequence
        BY <1>1, <3>1 DEF Higher
      <3>3. e.n \in 1..covered'
        BY <1>1, <3>1 DEF Higher
      <3> QED BY <1>2, <3>1, <3>2, <3>3 DEF Feed!FeedNext, Feed!Reload
    <2>2. CASE ~e.resync /\ e.n > position
      <3>1. covered' = Covers(e) /\ handed' = [what |-> "event", n |-> e.n]
        BY <1>5, <2>2 DEF Deliver
      <3>2. e.n <= covered + 1 /\ e.n <= sequence
        BY <1>1, <1>5, <2>2 DEF Due
      <3>3. CASE e.n = covered + 1
        <4>1. covered' = covered + 1 /\ covered < sequence
          BY <1>1, <3>1, <3>2, <3>3 DEF Covers, Higher
        <4> QED BY <1>2, <3>1, <3>3, <4>1 DEF Feed!FeedNext, Feed!HandNext
      <3>4. CASE e.n # covered + 1
        <4>1. covered' = covered /\ e.n \in 1..covered
          BY <1>1, <2>2, <3>1, <3>2, <3>4 DEF Covers
        <4> QED BY <1>2, <3>1, <4>1 DEF Feed!FeedNext, Feed!HandAgain
      <3> QED BY <3>3, <3>4
    <2>3. CASE ~e.resync /\ ~(e.n > position)
      BY <1>2, <1>5, <2>3 DEF Deliver, Still
    <2> QED BY <2>1, <2>2, <2>3
  <1> QED BY <1>3, <1>4, <1>5

LEMMA PhoneRestartsFeeds ==
  ASSUME IInv, PhoneRestarts
  PROVE  Feed!FeedNext
  <1>1. /\ covered' = IF saved < covered THEN saved ELSE covered
        /\ handed' = Nothing /\ sequence' = sequence
    BY Zenon DEF PhoneRestarts, journalVars
  <1>2. covered' <= covered
    BY <1>1 DEF IInv, AppTyped
  <1> QED BY <1>1, <1>2 DEF Feed!FeedNext, Feed!Forget, Nothing

LEMMA DeskRestartsFeeds ==
  ASSUME DeskRestarts
  PROVE  Feed!FeedNext
  BY Zenon DEF DeskRestarts, Feed!FeedNext, Feed!Renumber

LEMMA NextFeeds == IInv /\ Numbered /\ InStep /\ Next => Feed!FeedNext \/ Still
  <1> SUFFICES ASSUME IInv, Numbered, InStep, Next PROVE Feed!FeedNext \/ Still
    OBVIOUS
  <1>1. CASE Publish
    <2>1. Record(FALSE) /\ UNCHANGED <<covered, handed>>
      BY <1>1 DEF Publish, appVars
    <2> QED BY <2>1, PublishFeeds
  <1>2. CASE GraceEnds \/ Save
    BY <1>2 DEF GraceEnds, Save, journalVars, appVars, Still
  <1>3. ASSUME NEW k \in Link, Replay(k)
        PROVE  Feed!FeedNext \/ Still
    <2>1. UNCHANGED <<covered, handed>>
      BY <1>3 DEF Replay, appVars
    <2>2. Record(TRUE) \/ sequence' = sequence
      BY <1>3 DEF Replay
    <2> QED BY <2>1, <2>2, PublishFeeds DEF Still
  <1>4. ASSUME NEW k \in Link,
               \/ Hello(k) \/ GoOnline(k) \/ Acknowledged(k) \/ SendReplay(k) \/ DeskDrops(k)
               \/ Connect(k) \/ HelloAck(k) \/ Adopt(k) \/ Break(k)
        PROVE  Still
    BY <1>4 DEF Hello, GoOnline, Acknowledged, SendReplay, DeskDrops, Connect, HelloAck, Adopt, Break,
      journalVars, appVars, Still
  <1>5. ASSUME NEW k \in Link, HandleEvent(k)
        PROVE  Feed!FeedNext \/ Still
    BY <1>5, HandleEventFeeds
  <1>6. CASE PhoneRestarts
    BY <1>6, PhoneRestartsFeeds
  <1>7. CASE DeskRestarts
    BY <1>7, DeskRestartsFeeds
  <1> QED BY <1>1, <1>2, <1>3, <1>4, <1>5, <1>6, <1>7 DEF Next, Answers

\* The links, journal and phone together give the application every event in
\* turn, or tell it to load everything anew: always when the desktop was never
\* started again, and after that whenever neither the application's position nor
\* a link's is a number of before.  While one is, events may be lost.
THEOREM Feeds == Spec => ImplementsFeed
  <1> DEFINE Step == (~renumbered \/ InStep) => Feed!FeedNext
  <1>1. IInv /\ Numbered /\ [Next]_vars => [Step]_<<sequence, covered, handed>>
    <2>1. UNCHANGED vars => Still
      BY DEF vars, journalVars, appVars, Still
    <2>2. IInv /\ ~renumbered => InStep
      BY DEF IInv, NotAhead
    <2> QED BY <2>1, <2>2, NextFeeds DEF Still
  <1>2. [Step]_<<sequence, covered, handed>> => [Step]_(Feed!feedVars)
    BY DEF Feed!feedVars
  <1>3. Init => Feed!FeedInit
    BY FeedInitially
  <1> QED BY Inductive, <1>1, <1>2, <1>3, PTL DEF Spec, ImplementsFeed

=============================================================================
