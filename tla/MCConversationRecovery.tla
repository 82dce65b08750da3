----------------------- MODULE MCConversationRecovery -----------------------
(***************************************************************************)
(* plan() against a definition without a loop: every conversation of at    *)
(* most MaxEvents events is built event by event and its plan is compared  *)
(* with what its turns look like as a whole.                               *)
(***************************************************************************)
EXTENDS ConversationRecovery

CONSTANTS MaxEvents   \* bound: events in a conversation

VARIABLE events

Init == events = <<>>

Extend ==
  /\ Len(events) < MaxEvents
  /\ \E e \in Events : events' = Append(events, e)

Next == Extend

Spec == Init /\ [][Next]_events

\* A turn's span: from the event that opens it to the one that closes it or,
\* if there is none, to the end of the conversation.
Spans ==
  {s \in (1..Len(events)) \X (1..Len(events)) :
     LET t == events[s[1]].turn IN
     /\ s[1] <= s[2]
     /\ events[s[1]].type \in Opening
     /\ \A i \in (s[1] + 1)..(s[2] - 1) : events[i] \notin
          {Event(c, t) : c \in Closing}
     /\ \/ s[1] < s[2] /\ events[s[2]] \in {Event(c, t) : c \in Closing}
        \/ /\ s[2] = Len(events)
           /\ s[1] < s[2] => events[s[2]] \notin {Event(c, t) : c \in Closing}}

\* Every event is the conversation's own, the spans are disjoint, they hold
\* nothing but their turn's events, and what lies outside them belongs to no turn
\* by its type, a compaction by hand by its turn as well.
LegalHistory ==
  \A i \in 1..Len(events) :
    /\ events[i].own
    /\ \/ /\ Sessionwide(events[i])
          /\ \A s \in Spans : i \notin s[1]..s[2]
       \/ /\ events[i].type \notin Outside
          /\ \E s \in Spans :
               /\ i \in s[1]..s[2]
               /\ events[i].turn = events[s[1]].turn
               /\ (i = s[1]) = (events[i].type \in Opening)
               /\ \A u \in Spans \ {s} : i \notin u[1]..u[2]

\* The turns no closing event follows.
OpenTurns ==
  {events[i].turn : i \in {j \in 1..Len(events) :
     /\ events[j].type \in Opening
     /\ \A k \in (j + 1)..Len(events) :
          events[k] \notin {Event(c, events[j].turn) : c \in Closing}}}

\* plan() accepts exactly the conversations that hold no event of another session,
\* in which turns follow one another and nothing of a turn lies outside it, and it
\* asks to interrupt a turn
\* exactly when that turn, and no other, is still open.
PlanIsTheHistory ==
  /\ (Plan(events) = Throws) = ~LegalHistory
  /\ LegalHistory =>
       \/ OpenTurns = {} /\ Plan(events) = Ready
       \/ \E t \in OpenTurns : OpenTurns = {t} /\ Plan(events) = Interrupt(t)
=============================================================================
