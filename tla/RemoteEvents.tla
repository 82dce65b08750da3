----------------------------- MODULE RemoteEvents -----------------------------
(***************************************************************************)
(* The events a desktop publishes to a paired phone: the journal of one    *)
(* device (RemoteEventJournal), the hub that sends an event on the best    *)
(* live link (DesktopRemoteDeviceHub), both ends of a link                 *)
(* (RemoteConnection), and the phone's links, which race, replace one      *)
(* another and fail (DesktopLink).                                         *)
(*                                                                         *)
(* A link carries frames in order and loses those under way when it        *)
(* breaks; the ends find out one after the other.  Every handshake makes a *)
(* link of its own.  Requests, keys, pairing and approval are left out.    *)
(* The entries a journal keeps are those between the oldest it dropped and *)
(* the last it numbered, so two numbers stand for them.                    *)
(***************************************************************************)
EXTENDS Naturals, Sequences

CONSTANTS
  Link,        \* the links there can be
  Rank,        \* the channel of each, the best first: P2P, LAN, relay
  None,
  Capacity,    \* entries the journal keeps
  MaxEvents,   \* bound: numbers below which events are published
  MaxConnects, \* bound: connections the phone tries
  MaxRestarts  \* bound: processes that are started again

ASSUME RankAssumption == Rank \in [Link -> Nat]
ASSUME CapacityAssumption == Capacity \in Nat \ {0}
ASSUME NoneAssumption == None \notin Link

VARIABLES
  sequence,  \* the journal: the last number
  oldest,    \* the last number dropped or acknowledged
  resyncs,   \* the numbers of resync events
  online,    \* whether the desktop takes the phone to be there
  desk,      \* the desktop's end of each link
  replays,   \* the replays under way on it: what is still to be sent
  down,      \* frames to the phone
  up,        \* frames to the desktop
  phone,     \* the phone's end of each link
  active,    \* the link the phone uses
  position,  \* the last number delivered to the application
  saved,     \* the position a new process would begin with
  covered,   \* of the journal's numbers: the application was handed, or told to
             \* load, everything up to this one
  handed,    \* what it was handed last
  renumbered, \* whether a desktop that was started again numbered events anew
  connects,
  restarts

journalVars == <<sequence, oldest, resyncs>>
deskVars == <<online, desk, replays>>
phoneVars == <<phone, active>>
appVars == <<position, saved, covered, handed>>
bounds == <<connects, restarts, renumbered>>
vars == <<journalVars, deskVars, phoneVars, appVars, down, up, bounds>>

-----------------------------------------------------------------------------
DownFrame == [type : {"hello_ack", "event"}, n : Nat, resync : BOOLEAN]

UpFrame == [type : {"hello", "resume", "ack"}, n : Nat]

\* The state of a connection at the phone, the last number it saw, and whether
\* the phone has given it up.
Candidate ==
  [at : {"off", "connecting", "online", "recovering"}, last : Nat, disposed : BOOLEAN]

Handed == [what : {"nothing", "event", "reload"}, n : Nat]

Nothing == [what |-> "nothing", n |-> 0]

Off == [at |-> "off", last |-> 0, disposed |-> FALSE]

TypeOK ==
  /\ sequence \in Nat /\ oldest \in 0..sequence
  /\ resyncs \in SUBSET Nat
  /\ desk \in [Link -> {"off", "acking", "online"}]
  /\ replays \in [Link -> Seq(Nat \X Nat)]
  /\ down \in [Link -> Seq(DownFrame)]
  /\ up \in [Link -> Seq(UpFrame)]
  /\ phone \in [Link -> Candidate]
  /\ active \in Link \cup {None}
  /\ online \in BOOLEAN
  /\ position \in Nat /\ saved \in Nat /\ covered \in Nat
  /\ handed \in Handed
  /\ renumbered \in BOOLEAN
  /\ connects \in Nat /\ restarts \in Nat

Init ==
  /\ sequence = 0 /\ oldest = 0 /\ resyncs = {}
  /\ online = FALSE
  /\ desk = [k \in Link |-> "off"]
  /\ replays = [k \in Link |-> <<>>]
  /\ down = [k \in Link |-> <<>>]
  /\ up = [k \in Link |-> <<>>]
  /\ phone = [k \in Link |-> Off]
  /\ active = None
  /\ position = 0 /\ saved = 0 /\ covered = 0 /\ handed = Nothing
  /\ connects = 0 /\ restarts = 0 /\ renumbered = FALSE

-----------------------------------------------------------------------------
(* The journal *)

Higher(m, n) == IF m > n THEN m ELSE n

\* nextSequence() and remember(), which drops what exceeds the capacity.
Record(resync) ==
  /\ sequence' = sequence + 1
  /\ oldest' = IF sequence + 1 > Capacity THEN Higher(oldest, sequence + 1 - Capacity) ELSE oldest
  /\ resyncs' = IF resync THEN resyncs \cup {sequence + 1} ELSE resyncs

Event(n, resync) == [type |-> "event", n |-> n, resync |-> resync]

-----------------------------------------------------------------------------
(* The desktop *)

Live == {k \in Link : desk[k] = "online"}

\* The links an event can go out on: a better one must have failed to send it.
Preferred == {k \in Live : \A l \in Live : Rank[l] < Rank[k] => phone[l].at = "off"}

\* emit(): the event is recorded and sent on the best live link. Nothing is
\* published for a phone that is not there.
Publish ==
  /\ online
  /\ sequence < MaxEvents
  /\ Record(FALSE)
  /\ IF Live = {}
       THEN UNCHANGED down
       ELSE \E k \in Preferred :
              down' = [down EXCEPT ![k] = Append(@, Event(sequence + 1, FALSE))]
  /\ UNCHANGED <<deskVars, phoneVars, appVars, up, bounds>>

\* A phone without a link is taken to be there for a while.
GraceEnds ==
  /\ online /\ Live = {}
  /\ online' = FALSE
  /\ UNCHANGED <<journalVars, desk, replays, phoneVars, appVars, down, up, bounds>>

\* A frame the desktop's end of a link takes; it takes none but a first one when
\* that end is down.
Takes(k, type) == up[k] # <<>> /\ Head(up[k]).type = type /\ (type = "hello" \/ desk[k] # "off")

\* The keys are derived and the acknowledgement is sent; the connection is
\* online when that is done.
Hello(k) ==
  /\ Takes(k, "hello")
  /\ up' = [up EXCEPT ![k] = Tail(@)]
  /\ down' = [down EXCEPT ![k] = Append(@, [type |-> "hello_ack", n |-> 0, resync |-> FALSE])]
  /\ desk' = [desk EXCEPT ![k] = "acking"]
  /\ UNCHANGED <<journalVars, online, replays, phoneVars, appVars, bounds>>

GoOnline(k) ==
  /\ desk[k] = "acking"
  /\ desk' = [desk EXCEPT ![k] = "online"]
  /\ online' = TRUE
  /\ UNCHANGED <<journalVars, replays, phoneVars, appVars, down, up, bounds>>

\* Mutation: a journal that dropped part of what follows sends the rest.
KnownInPart(n, dropped) == n <= sequence

\* replay() knows what follows n: not when n was never numbered, nor when part
\* of it was dropped.
Known(n, dropped) == n = sequence \/ (n < sequence /\ n >= dropped)

\* A resume drops what grew too old, and is answered with what follows or with
\* a resync, which is recorded, and sent by a connection that is online.
Replay(k) ==
  LET n == Head(up[k]).n IN
  /\ Takes(k, "resume")
  /\ up' = [up EXCEPT ![k] = Tail(@)]
  /\ \E dropped \in oldest..sequence :
       \/ /\ Known(n, dropped)
          /\ oldest' = dropped
          /\ replays' = IF n = sequence THEN replays
                         ELSE [replays EXCEPT ![k] = Append(@, <<Higher(n, dropped) + 1, sequence>>)]
          /\ UNCHANGED <<sequence, resyncs, down>>
       \/ /\ ~Known(n, dropped)
          /\ Record(TRUE)
          /\ down' = IF desk[k] = "online"
                        THEN [down EXCEPT ![k] = Append(@, Event(sequence + 1, TRUE))]
                        ELSE down
          /\ UNCHANGED replays
  /\ UNCHANGED <<online, desk, phoneVars, appVars, bounds>>

\* The next event of one of the replays on a link; other events are sent
\* between them.
SendReplay(k) ==
  \E i \in DOMAIN replays[k] :
    LET r == replays[k][i] IN
    /\ down' = [down EXCEPT ![k] = Append(@, Event(r[1], r[1] \in resyncs))]
    /\ replays' = [replays EXCEPT ![k] =
         IF r[1] < r[2]
           THEN [@ EXCEPT ![i] = <<r[1] + 1, r[2]>>]
           ELSE [j \in 1..(Len(@) - 1) |-> IF j < i THEN @[j] ELSE @[j + 1]]]
    /\ UNCHANGED <<journalVars, online, desk, phoneVars, appVars, up, bounds>>

Acknowledged(k) ==
  /\ Takes(k, "ack")
  /\ up' = [up EXCEPT ![k] = Tail(@)]
  /\ oldest' = Higher(oldest, Head(up[k]).n)
  /\ UNCHANGED <<sequence, resyncs, deskVars, phoneVars, appVars, down, bounds>>

\* The desktop finds a link closed or broken.
DeskDrops(k) ==
  /\ desk[k] # "off" \/ up[k] # <<>>
  /\ desk' = [desk EXCEPT ![k] = "off"]
  /\ replays' = [replays EXCEPT ![k] = <<>>]
  /\ up' = [up EXCEPT ![k] = <<>>]
  /\ UNCHANGED <<journalVars, online, phoneVars, appVars, down, bounds>>

-----------------------------------------------------------------------------
(* The phone *)

\* When no link is used, the addresses of one channel are tried at once; when one
\* is, a better channel is tried. A connection resumes where the application is.
Connect(k) ==
  /\ connects < MaxConnects
  /\ phone[k].at = "off" /\ desk[k] = "off" /\ up[k] = <<>> /\ down[k] = <<>>
  /\ IF active = None
       THEN \A l \in Link : phone[l].at = "off" \/ phone[l].disposed \/ Rank[l] = Rank[k]
       ELSE Rank[k] < Rank[active]
  /\ phone' = [phone EXCEPT ![k] = [at |-> "connecting", last |-> position, disposed |-> FALSE]]
  /\ up' = [up EXCEPT ![k] = <<[type |-> "hello", n |-> 0]>>]
  /\ connects' = connects + 1
  /\ UNCHANGED <<journalVars, deskVars, active, appVars, down, restarts, renumbered>>

Receives(k, type) == phone[k].at # "off" /\ down[k] # <<>> /\ Head(down[k]).type = type

HelloAck(k) ==
  /\ Receives(k, "hello_ack")
  /\ down' = [down EXCEPT ![k] = Tail(@)]
  /\ phone' = [phone EXCEPT ![k].at = "online"]
  /\ up' = [up EXCEPT ![k] = Append(@, [type |-> "resume", n |-> phone[k].last])]
  /\ UNCHANGED <<journalVars, deskVars, active, appVars, bounds>>

\* A link that came online is used; the one it replaces is retired: it stays
\* open for a while, but nothing of it is delivered.
Adopt(k) ==
  /\ phone[k].at \in {"online", "recovering"} /\ ~phone[k].disposed
  /\ active # None => Rank[k] < Rank[active]
  /\ active' = k
  /\ phone' = IF active = None THEN phone ELSE [phone EXCEPT ![active].disposed = TRUE]
  /\ UNCHANGED <<journalVars, deskVars, appVars, down, up, bounds>>

\* What the application has all of after e: nothing more when e leaves a gap.
\* (covered is what is known of the application, not a field.)
Covers(e) ==
  IF e.resync \/ e.n = covered + 1 THEN Higher(covered, e.n) ELSE covered

\* deliver(): what the application has had already is left out.
Deliver(e) ==
  IF e.resync \/ e.n > position
    THEN /\ position' = e.n
         /\ handed' = [what |-> IF e.resync THEN "reload" ELSE "event", n |-> e.n]
         /\ covered' = Covers(e)
    ELSE UNCHANGED <<position, handed, covered>>

\* Mutation: any later number is due.
DueLater(k, e) == e.resync \/ e.n > phone[k].last

\* A resync is taken, and the number behind the last.
Due(k, e) == e.resync \/ e.n = phone[k].last + 1

Take(k, e) ==
  /\ phone' = [phone EXCEPT ![k].last = e.n, ![k].at = "online"]
  /\ up' = [up EXCEPT ![k] = Append(@, [type |-> "ack", n |-> e.n])]
  /\ IF phone[k].disposed THEN UNCHANGED <<position, handed, covered>> ELSE Deliver(e)

\* A number further on shows that something is missing; it is asked for.
Miss(k) ==
  /\ phone' = [phone EXCEPT ![k].at = "recovering"]
  /\ up' = [up EXCEPT ![k] = Append(@, [type |-> "resume", n |-> phone[k].last])]
  /\ UNCHANGED <<position, handed, covered>>

HandleEvent(k) ==
  LET e == Head(down[k]) IN
  /\ Receives(k, "event")
  /\ down' = [down EXCEPT ![k] = Tail(@)]
  /\ \/ Due(k, e) /\ Take(k, e)
     \/ ~Due(k, e) /\ e.n > phone[k].last /\ Miss(k)
     \/ ~Due(k, e) /\ e.n <= phone[k].last /\ UNCHANGED <<phone, up, position, handed, covered>>
  /\ UNCHANGED <<journalVars, deskVars, active, saved, bounds>>

\* The phone finds a link broken, or closes one that it does not use. With the
\* link in use it gives up those that were to replace it.
Break(k) ==
  LET gone == {k} \cup {l \in Link : active = k /\ ~phone[l].disposed} IN
  /\ phone[k].at # "off" \/ down[k] # <<>>
  /\ phone' = [l \in Link |-> IF l \in gone THEN Off ELSE phone[l]]
  /\ active' = IF active = k THEN None ELSE active
  /\ down' = [l \in Link |-> IF l \in gone THEN <<>> ELSE down[l]]
  /\ UNCHANGED <<journalVars, deskVars, appVars, up, bounds>>

\* The position is written every few seconds.
Save ==
  /\ saved # position
  /\ saved' = position
  /\ UNCHANGED <<journalVars, deskVars, phoneVars, position, covered, handed, down, up, bounds>>

-----------------------------------------------------------------------------
(* Processes that are started again, as long as the phone still connects to one *)

PhoneRestarts ==
  /\ restarts < MaxRestarts /\ connects < MaxConnects
  /\ restarts' = restarts + 1
  /\ phone' = [k \in Link |-> Off]
  /\ active' = None
  /\ down' = [k \in Link |-> <<>>]
  /\ position' = saved
  /\ covered' = IF saved < covered THEN saved ELSE covered
  /\ handed' = Nothing
  /\ UNCHANGED <<journalVars, deskVars, saved, up, connects, renumbered>>

\* Mutation: what was dropped is not forgotten with the journal.
DeskRestartsWithDropped ==
  /\ restarts < MaxRestarts /\ connects < MaxConnects
  /\ restarts' = restarts + 1
  /\ sequence' = 0 /\ resyncs' = {}
  /\ online' = FALSE
  /\ desk' = [k \in Link |-> "off"]
  /\ replays' = [k \in Link |-> <<>>]
  /\ up' = [k \in Link |-> <<>>]
  /\ down' = [k \in Link |-> <<>>]
  /\ covered' = 0 /\ renumbered' = TRUE
  /\ UNCHANGED <<oldest, phoneVars, position, saved, handed, connects>>

\* A desktop takes with it what the phone has not received.  It numbers its events
\* anew, and of those the application has none.
DeskRestarts ==
  /\ restarts < MaxRestarts /\ connects < MaxConnects
  /\ restarts' = restarts + 1
  /\ sequence' = 0 /\ oldest' = 0 /\ resyncs' = {}
  /\ online' = FALSE
  /\ desk' = [k \in Link |-> "off"]
  /\ replays' = [k \in Link |-> <<>>]
  /\ up' = [k \in Link |-> <<>>]
  /\ down' = [k \in Link |-> <<>>]
  /\ covered' = 0 /\ renumbered' = TRUE
  /\ UNCHANGED <<phoneVars, position, saved, handed, connects>>

-----------------------------------------------------------------------------
Answers(k) == Hello(k) \/ GoOnline(k) \/ Replay(k) \/ Acknowledged(k)

Next ==
  \/ Publish \/ GraceEnds
  \/ \E k \in Link :
       \/ Answers(k) \/ SendReplay(k) \/ DeskDrops(k)
       \/ Connect(k) \/ HelloAck(k) \/ Adopt(k) \/ HandleEvent(k)
       \/ Break(k)
  \/ Save \/ PhoneRestarts \/ DeskRestarts

Spec == Init /\ [][Next]_vars

\* Frames arrive and are handled, and sends end.  That an end finds out that the
\* other has left is not assumed: the relay keeps its socket open.
Fairness ==
  \A k \in Link :
    /\ WF_vars(Answers(k) \/ SendReplay(k))
    /\ WF_vars(HelloAck(k) \/ HandleEvent(k))

FairSpec == Spec /\ Fairness

-----------------------------------------------------------------------------
(* Properties *)

Feed == INSTANCE EventFeed WITH published <- sequence

\* Neither the application nor a link that may deliver to it goes on from a number
\* beyond what the application has.
InStep ==
  /\ position <= covered /\ saved <= covered
  /\ \A k \in Link : ~phone[k].disposed => phone[k].last <= covered

\* Whatever links race, replace one another and break, however replays and new
\* events mix: the application is handed event after event without a gap, unless
\* it is told to load everything anew.  That is so of a desktop that was never
\* started again, and of one that was, while no number of before is in use.
ImplementsFeed ==
  /\ Feed!FeedInit
  /\ [][(~renumbered \/ InStep) => Feed!FeedNext]_(Feed!feedVars)

\* A connection that misses an event does not wait for it for ever, as long as the
\* desktop's end of the link stays.
GapCloses ==
  \A k \in Link :
    (phone[k].at = "recovering") ~> (phone[k].at # "recovering" \/ desk[k] = "off")

-----------------------------------------------------------------------------
(* Promises of comments in the code that the code does not keep            *)

\* "a reconnect never replays or drops an event", also when the desktop was
\* started again: as long as its journal has seen no reason for a reload, the phone
\* is handed the events from the first.
NeverDrops ==
  /\ Feed!FeedInit
  /\ [][resyncs = {} => Feed!FeedNext]_(Feed!feedVars)

\* Nothing is under way between the phone and the desktop, and the link the
\* phone uses is the only one.
Quiet ==
  /\ active # None /\ phone[active].at = "online" /\ desk[active] = "online"
  /\ \A k \in Link : up[k] = <<>> /\ down[k] = <<>> /\ replays[k] = <<>>
  /\ \A k \in Link \ {active} : desk[k] = "off"

\* When everything that was sent has arrived, the phone has what was published.
QuietMeansCurrent == Quiet /\ restarts = 0 => position = sequence
=============================================================================
