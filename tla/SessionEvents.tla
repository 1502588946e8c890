---------------------------- MODULE SessionEvents ----------------------------
(***************************************************************************)
(* The feed of session events (application/session_events.py):             *)
(* EventPublisher fans every event out to bounded queues and never waits   *)
(* for an observer; EventSubscription is read by the feed of the admin API *)
(* (api/code_sessions_routes.py).  Everything runs on one event loop and   *)
(* no method awaits, so each is one step.                                  *)
(*                                                                         *)
(* An event is its id, a mark is what a queue holds in place of its events *)
(* when they are dropped.  An observer subscribes once; `seen` is the last *)
(* event it knows of, the snapshot of its subscription at first.           *)
(***************************************************************************)
EXTENDS Integers, Sequences

CONSTANTS
    Observers,
    QueueSize,      \* EventPublisher._queue_size, positive
    MaxEvents       \* bound: events published

VARIABLES
    sequence,       \* EventPublisher._sequence
    closed,         \* EventPublisher._closed
    subscriptions,  \* EventPublisher._subscriptions
    queue,          \* EventSubscription._queue
    seen,           \* the id up to which an observer knows the session
    feed            \* its feed: none, open, resync (overflowed), ended

vars == <<sequence, closed, subscriptions, queue, seen, feed>>

Event(id) == [kind |-> "event", id |-> id]
Overflow(cursor) == [kind |-> "overflow", id |-> cursor]
Closed == [kind |-> "closed", id |-> 0]

Init ==
    /\ sequence = 0
    /\ closed = FALSE
    /\ subscriptions = {}
    /\ queue = [o \in Observers |-> <<>>]
    /\ seen = [o \in Observers |-> 0]
    /\ feed = [o \in Observers |-> "none"]

Subscribe(o) ==
    /\ feed[o] = "none" /\ ~closed
    /\ subscriptions' = subscriptions \cup {o}
    /\ seen' = [seen EXCEPT ![o] = sequence]
    /\ feed' = [feed EXCEPT ![o] = "open"]
    /\ UNCHANGED <<sequence, closed, queue>>

\* signal empties a queue before it puts its mark there.
Signal(q, mark) == <<mark>>

Full(o) == Len(queue[o]) = QueueSize

\* Mutant: a full queue makes room for the event.
PublishDropsOldest ==
    /\ ~closed /\ sequence < MaxEvents
    /\ sequence' = sequence + 1
    /\ queue' = [o \in Observers |->
                    IF o \notin subscriptions THEN queue[o]
                    ELSE Append(IF Full(o) THEN Tail(queue[o]) ELSE queue[o],
                                Event(sequence + 1))]
    /\ UNCHANGED <<closed, subscriptions, seen, feed>>

Publish ==
    /\ ~closed /\ sequence < MaxEvents
    /\ sequence' = sequence + 1
    /\ subscriptions' = {o \in subscriptions : ~Full(o)}
    /\ queue' = [o \in Observers |->
                    IF o \notin subscriptions THEN queue[o]
                    ELSE IF Full(o) THEN Signal(queue[o], Overflow(sequence + 1))
                    ELSE Append(queue[o], Event(sequence + 1))]
    /\ UNCHANGED <<closed, seen, feed>>

\* One turn of _events: an event is sent to the client, an overflow ends the feed
\* with a request to load the session again from its cursor on.
Take(o) ==
    /\ feed[o] = "open" /\ queue[o] # <<>>
    /\ queue' = [queue EXCEPT ![o] = Tail(@)]
    /\ LET item == Head(queue[o]) IN
       CASE item.kind = "event" -> seen' = [seen EXCEPT ![o] = item.id]
                                   /\ UNCHANGED feed
         [] item.kind = "overflow" -> seen' = [seen EXCEPT ![o] = item.id]
                                      /\ feed' = [feed EXCEPT ![o] = "resync"]
         [] item.kind = "closed" -> feed' = [feed EXCEPT ![o] = "ended"]
                                    /\ UNCHANGED seen
    /\ UNCHANGED <<sequence, closed, subscriptions>>

\* aclose, when a feed is over or its client has gone.
Leave(o) ==
    /\ feed[o] \in {"open", "resync"}
    /\ feed' = [feed EXCEPT ![o] = "ended"]
    /\ subscriptions' = subscriptions \ {o}
    /\ queue' = [queue EXCEPT ![o] = Signal(@, Closed)]
    /\ UNCHANGED <<sequence, closed, seen>>

\* begin_shutdown: the feeds end, and work in progress may still publish.
DisconnectSubscribers ==
    /\ subscriptions # {}
    /\ subscriptions' = {}
    /\ queue' = [o \in Observers |-> IF o \in subscriptions
                                     THEN Signal(queue[o], Closed) ELSE queue[o]]
    /\ UNCHANGED <<sequence, closed, seen, feed>>

Close ==
    /\ ~closed
    /\ closed' = TRUE
    /\ subscriptions' = {}
    /\ queue' = [o \in Observers |-> IF o \in subscriptions
                                     THEN Signal(queue[o], Closed) ELSE queue[o]]
    /\ UNCHANGED <<sequence, seen, feed>>

Next == \/ Publish \/ DisconnectSubscribers \/ Close
        \/ \E o \in Observers : Subscribe(o) \/ Take(o) \/ Leave(o)

Spec == Init /\ [][Next]_vars
Fairness == \A o \in Observers : WF_vars(Take(o))
FairSpec == Spec /\ Fairness

-----------------------------------------------------------------------------
(* Properties.                                                             *)

TypeOK ==
    /\ sequence \in Nat
    /\ closed \in BOOLEAN
    /\ subscriptions \subseteq Observers
    /\ queue \in [Observers -> Seq([kind : {"event", "overflow", "closed"}, id : Nat])]
    /\ seen \in [Observers -> Nat]
    /\ feed \in [Observers -> {"none", "open", "resync", "ended"}]

\* A subscriber has every event it does not know of in its queue, in order and
\* within its bound: none is lost, repeated or overtaken.
GaplessFor(o) ==
    /\ feed[o] = "open"
    /\ Len(queue[o]) = sequence - seen[o]
    /\ Len(queue[o]) <= QueueSize
    /\ \A i \in 1 .. Len(queue[o]) : queue[o][i] = Event(seen[o] + i)

\* An observer that was dropped is told so and nothing else, with a cursor beyond
\* every event that it misses: it never takes its feed for a whole one.
ToldFor(o) ==
    feed[o] = "open" =>
       /\ Len(queue[o]) = 1
       /\ \/ queue[o][1] = Closed
          \/ /\ queue[o][1].kind = "overflow"
             /\ seen[o] + QueueSize < queue[o][1].id
             /\ queue[o][1].id <= sequence

NoEventIsMissed ==
    \A o \in Observers : IF o \in subscriptions THEN GaplessFor(o) ELSE ToldFor(o)

\* Every feed is read to its end, or up to the last event.
Settled ==
    \A o \in Observers : feed[o] = "open" => o \in subscriptions /\ seen[o] = sequence

FeedsSettle == <>[]Settled
=============================================================================
