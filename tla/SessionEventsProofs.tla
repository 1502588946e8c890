------------------------- MODULE SessionEventsProofs -------------------------
(***************************************************************************)
(* For any number of observers, any queue size and any number of events:   *)
(* an observer is sent every event in order, or told which ones it misses. *)
(*                                                                         *)
(* NoEventIsMissed determines what a subscriber's queue holds from the last*)
(* event it knows of and the publisher's sequence.  With the types, and    *)
(* the fact that who has no feed yet has an empty queue, it is inductive.  *)
(***************************************************************************)
EXTENDS SessionEvents, TLAPS

Unused == \A o \in Observers : feed[o] = "none" => o \notin subscriptions /\ queue[o] = <<>>

IInv == TypeOK /\ Unused /\ NoEventIsMissed

Items == [kind : {"event", "overflow", "closed"}, id : Nat]

-----------------------------------------------------------------------------
(* Events, marks and queues.                                               *)

\* What may be put in a queue, and how it is told apart.
LEMMA EventFields ==
    ASSUME NEW id \in Nat
    PROVE  /\ Event(id) \in Items /\ Overflow(id) \in Items /\ Closed \in Items
           /\ Event(id).kind = "event" /\ Event(id).id = id
           /\ Overflow(id).kind = "overflow" /\ Overflow(id).id = id
           /\ Closed.kind = "closed"
  BY DEF Event, Overflow, Closed, Items

\* A queue that was drained holds its mark only.
LEMMA SignalHolds ==
    ASSUME NEW q, NEW mark \in Items
    PROVE  /\ Signal(q, mark) \in Seq(Items)
           /\ Len(Signal(q, mark)) = 1
           /\ Signal(q, mark)[1] = mark
           /\ Head(Signal(q, mark)) = mark
  BY DEF Signal

\* The events after one that is known, up to the last.
Pending(q, known, last) ==
    /\ Len(q) = last - known
    /\ \A i \in 1 .. Len(q) : q[i] = Event(known + i)

\* One more event is published.
LEMMA PendingGrows ==
    ASSUME NEW q \in Seq(Items), NEW known \in Nat, NEW last \in Nat,
           Pending(q, known, last)
    PROVE  /\ Append(q, Event(last + 1)) \in Seq(Items)
           /\ Pending(Append(q, Event(last + 1)), known, last + 1)
           /\ Len(Append(q, Event(last + 1))) = Len(q) + 1
<1>1. Event(last + 1) \in Items
  BY EventFields
<1> DEFINE a == Append(q, Event(last + 1))
<1>2. a \in Seq(Items) /\ Len(a) = Len(q) + 1
  BY <1>1
<1>3. Len(q) \in Nat /\ Len(q) = last - known
  BY DEF Pending
<1>4. ASSUME NEW i \in 1 .. Len(a) PROVE a[i] = Event(known + i)
  <2>1. CASE i \in 1 .. Len(q)
    BY <2>1, <1>1 DEF Pending
  <2>2. CASE i = Len(q) + 1
    <3>1. a[i] = Event(last + 1)
      BY <2>2, <1>1
    <3>2. known + i = last + 1
      BY <2>2, <1>3
    <3> QED  BY <3>1, <3>2
  <2> QED  BY <2>1, <2>2, <1>2, <1>3
<1> QED  BY <1>2, <1>3, <1>4 DEF Pending

\* The first pending event is the next one, and the others stay pending.
LEMMA PendingShrinks ==
    ASSUME NEW q \in Seq(Items), NEW known \in Nat, NEW last \in Nat,
           Pending(q, known, last), q # <<>>
    PROVE  /\ Head(q) = Event(known + 1)
           /\ Tail(q) \in Seq(Items)
           /\ Pending(Tail(q), known + 1, last)
           /\ Len(Tail(q)) <= Len(q)
<1>1. Len(q) \in Nat \ {0} /\ Len(q) = last - known
  BY DEF Pending
<1>2. Head(q) = Event(known + 1)
  BY <1>1 DEF Pending
<1>3. Tail(q) \in Seq(Items) /\ Len(Tail(q)) = Len(q) - 1
  BY <1>1
<1>4. ASSUME NEW i \in 1 .. Len(Tail(q)) PROVE Tail(q)[i] = Event(known + 1 + i)
  <2>1. Tail(q)[i] = q[i + 1] /\ i + 1 \in 1 .. Len(q)
    BY <1>1, <1>3
  <2>2. q[i + 1] = Event(known + (i + 1))
    BY <2>1 DEF Pending
  <2> QED  BY <2>1, <2>2, <1>1
<1> QED  BY <1>1, <1>2, <1>3, <1>4 DEF Pending

-----------------------------------------------------------------------------
(* The invariant.                                                          *)

\* What an observer is owed, as the operators of the lemmas say it.
LEMMA Gapless ==
    ASSUME NEW o \in Observers
    PROVE  GaplessFor(o) <=> /\ feed[o] = "open"
                             /\ Pending(queue[o], seen[o], sequence)
                             /\ Len(queue[o]) <= QueueSize
  BY DEF GaplessFor, Pending

\* An observer of whom nothing changes stays told.
LEMMA StaysTold ==
    ASSUME TypeOK, NEW o \in Observers, ToldFor(o),
           queue'[o] = queue[o], seen'[o] = seen[o], feed'[o] = feed[o],
           sequence' \in Nat, sequence <= sequence', QueueSize \in Nat
    PROVE  ToldFor(o)'
<1>1. feed[o] = "open" /\ queue[o][1].id <= sequence => queue[o][1].id <= sequence'
  <2>1. queue[o] \in Seq(Items)
    BY DEF TypeOK, Items
  <2>2. Len(queue[o]) = 1 => queue[o][1] \in Items
    BY <2>1
  <2>3. Len(queue[o]) = 1 => queue[o][1].id \in Nat
    BY <2>2 DEF Items
  <2>4. sequence \in Nat
    BY DEF TypeOK
  <2> QED  BY <2>3, <2>4 DEF ToldFor
<1>2. Closed' = Closed
  BY DEF Closed
<1> QED  BY <1>1, <1>2 DEF ToldFor

LEMMA InitInv ==
    ASSUME QueueSize \in Nat \ {0} PROVE Init => IInv
<1> SUFFICES ASSUME Init PROVE IInv
  OBVIOUS
<1>1. queue \in [Observers -> Seq([kind : {"event", "overflow", "closed"}, id : Nat])]
  BY DEF Init
<1>2. TypeOK
  BY <1>1 DEF Init, TypeOK
<1>3. Unused
  BY DEF Init, Unused
<1>4. NoEventIsMissed
  BY DEF Init, NoEventIsMissed, ToldFor
<1> QED  BY <1>2, <1>3, <1>4 DEF IInv

\* A subscriber starts with an empty queue and the sequence of its snapshot.
LEMMA SubscribeInv ==
    ASSUME QueueSize \in Nat \ {0}, IInv, NEW s \in Observers, Subscribe(s)
    PROVE  IInv'
<1> USE DEF IInv
<1>1. TypeOK' /\ Unused'
  BY DEF TypeOK, Unused, Subscribe
<1>2. ASSUME NEW o \in Observers
      PROVE  IF o \in subscriptions' THEN GaplessFor(o)' ELSE ToldFor(o)'
  <2>1. CASE o = s
    BY <2>1 DEF TypeOK, Unused, Subscribe, GaplessFor
  <2>2. CASE o # s /\ o \in subscriptions
    BY <2>2 DEF TypeOK, NoEventIsMissed, Subscribe, GaplessFor
  <2>3. CASE o # s /\ o \notin subscriptions
    <3>1. ToldFor(o)
      BY <2>3 DEF NoEventIsMissed
    <3>2. ToldFor(o)'
      BY <2>3, <3>1, StaysTold DEF Subscribe, TypeOK
    <3> QED  BY <2>3, <3>2 DEF Subscribe
  <2> QED  BY <2>1, <2>2, <2>3
<1> QED  BY <1>1, <1>2 DEF NoEventIsMissed

\* A published event is one more that is pending, or a mark beyond all of them.
LEMMA PublishInv ==
    ASSUME QueueSize \in Nat \ {0}, IInv, Publish
    PROVE  IInv'
<1> USE DEF IInv
<1>1. sequence \in Nat /\ sequence' = sequence + 1 /\ seen' = seen /\ feed' = feed /\ closed' = closed
  BY DEF TypeOK, Publish
<1>2. ASSUME NEW o \in Observers
      PROVE  /\ queue'[o] \in Seq(Items)
             /\ feed[o] = "none" => o \notin subscriptions' /\ queue'[o] = <<>>
             /\ IF o \in subscriptions' THEN GaplessFor(o)' ELSE ToldFor(o)'
  <2>1. queue[o] \in Seq(Items) /\ seen[o] \in Nat
    BY DEF TypeOK, Items
  <2>2. CASE o \notin subscriptions
    <3>1. queue'[o] = queue[o] /\ o \notin subscriptions'
      BY <2>2 DEF Publish
    <3>2. ToldFor(o)
      BY <2>2 DEF NoEventIsMissed
    <3>3. ToldFor(o)'
      BY <3>1, <3>2, <1>1, StaysTold
    <3> QED  BY <3>1, <3>3, <2>1 DEF Unused
  <2>3. CASE o \in subscriptions /\ Full(o)
    <3> DEFINE mark == Overflow(sequence + 1)
    <3>1. queue'[o] = Signal(queue[o], mark) /\ o \notin subscriptions'
      BY <2>3 DEF Publish
    <3>2. mark \in Items /\ mark.kind = "overflow" /\ mark.id = sequence + 1
      BY <1>1, EventFields
    <3>3. queue'[o] \in Seq(Items) /\ Len(queue'[o]) = 1 /\ queue'[o][1] = mark
      BY <3>1, <3>2, SignalHolds
    <3>4. GaplessFor(o)
      BY <2>3 DEF NoEventIsMissed
    <3>5. feed[o] = "open" /\ QueueSize = sequence - seen[o]
      BY <2>3, <3>4 DEF GaplessFor, Full
    <3>6. /\ seen'[o] + QueueSize < queue'[o][1].id
          /\ queue'[o][1].id <= sequence'
      BY <3>2, <3>3, <3>5, <2>1, <1>1
    <3>7. ToldFor(o)'
      BY <3>2, <3>3, <3>6 DEF ToldFor
    <3> QED  BY <3>1, <3>3, <3>5, <3>7
  <2>4. CASE o \in subscriptions /\ ~Full(o)
    <3>1. queue'[o] = Append(queue[o], Event(sequence + 1)) /\ o \in subscriptions'
      BY <2>4 DEF Publish
    <3>2. /\ feed[o] = "open"
          /\ Pending(queue[o], seen[o], sequence)
          /\ Len(queue[o]) <= QueueSize /\ Len(queue[o]) # QueueSize
      BY <2>4, Gapless DEF NoEventIsMissed, Full
    <3>3. /\ queue'[o] \in Seq(Items)
          /\ Pending(queue'[o], seen'[o], sequence')
          /\ Len(queue'[o]) = Len(queue[o]) + 1
      BY <3>1, <3>2, <2>1, <1>1, PendingGrows
    <3>4. Len(queue[o]) \in Nat
      BY <2>1
    <3>5. Len(queue'[o]) <= QueueSize
      BY <3>2, <3>3, <3>4
    <3>6. GaplessFor(o)'
      BY <3>2, <3>3, <3>5, <1>1 DEF GaplessFor, Pending
    <3> QED  BY <3>1, <3>2, <3>3, <3>6
  <2> QED  BY <2>2, <2>3, <2>4
<1>3. TypeOK'
  <2>1. queue' = [o \in Observers |-> queue'[o]]
    BY DEF Publish
  <2>2. queue' \in [Observers -> Seq(Items)]
    BY <2>1, <1>2
  <2> QED  BY <2>2, <1>1 DEF TypeOK, Publish, Items
<1>4. Unused'
  BY <1>1, <1>2 DEF Unused
<1> QED  BY <1>2, <1>3, <1>4 DEF NoEventIsMissed

\* The next item of a queue is the event that follows, or the mark.
LEMMA TakeInv ==
    ASSUME QueueSize \in Nat \ {0}, IInv, NEW s \in Observers, Take(s)
    PROVE  IInv'
<1> USE DEF IInv
<1> DEFINE item == Head(queue[s])
<1>1. /\ queue[s] \in Seq(Items) /\ queue[s] # <<>> /\ seen[s] \in Nat
      /\ sequence \in Nat /\ feed[s] = "open"
      /\ sequence' = sequence /\ closed' = closed /\ subscriptions' = subscriptions
      /\ queue' = [queue EXCEPT ![s] = Tail(@)]
  BY DEF TypeOK, Take, Items
<1>2. item \in Items /\ Tail(queue[s]) \in Seq(Items)
  BY <1>1
<1>3. item.id \in Nat /\ item.kind \in {"event", "overflow", "closed"}
  BY <1>2 DEF Items
<1>4. /\ item.kind = "event" => seen' = [seen EXCEPT ![s] = item.id] /\ feed' = feed
      /\ item.kind = "overflow" => /\ seen' = [seen EXCEPT ![s] = item.id]
                                   /\ feed' = [feed EXCEPT ![s] = "resync"]
      /\ item.kind = "closed" => seen' = seen /\ feed' = [feed EXCEPT ![s] = "ended"]
  BY <1>3 DEF Take
<1>5. /\ seen' \in [Observers -> Nat]
      /\ feed' \in [Observers -> {"none", "open", "resync", "ended"}]
      /\ \A o \in Observers : o # s => seen'[o] = seen[o] /\ feed'[o] = feed[o]
      /\ feed'[s] # "none"
  BY <1>1, <1>3, <1>4 DEF TypeOK
<1>6. TypeOK'
  BY <1>1, <1>2, <1>5 DEF TypeOK, Items
<1>7. Unused'
  BY <1>1, <1>5 DEF Unused, TypeOK
<1>8. ASSUME NEW o \in Observers
      PROVE  IF o \in subscriptions' THEN GaplessFor(o)' ELSE ToldFor(o)'
  <2>1. CASE o # s
    <3>1. queue'[o] = queue[o] /\ seen'[o] = seen[o] /\ feed'[o] = feed[o]
      BY <2>1, <1>1, <1>5 DEF TypeOK
    <3>2. o \in subscriptions => GaplessFor(o)'
      BY <3>1, <1>1 DEF NoEventIsMissed, GaplessFor, Event
    <3>3. o \notin subscriptions => ToldFor(o)'
      BY <3>1, <1>1, StaysTold DEF NoEventIsMissed
    <3> QED  BY <3>2, <3>3, <1>1
  <2>2. CASE o = s /\ o \in subscriptions
    <3>1. Pending(queue[s], seen[s], sequence) /\ Len(queue[s]) <= QueueSize
      BY <2>2, Gapless DEF NoEventIsMissed
    <3>2. /\ item = Event(seen[s] + 1)
          /\ Pending(Tail(queue[s]), seen[s] + 1, sequence)
          /\ Len(Tail(queue[s])) <= Len(queue[s])
      BY <3>1, <1>1, PendingShrinks
    <3>3. item.kind = "event" /\ item.id = seen[s] + 1
      BY <3>2, <1>1, EventFields
    <3>4. seen'[s] = seen[s] + 1 /\ feed'[s] = "open" /\ queue'[s] = Tail(queue[s])
      BY <3>3, <1>1, <1>4 DEF TypeOK
    <3>5. Len(queue'[s]) \in Nat /\ Len(queue[s]) \in Nat
      BY <3>4, <1>1, <1>2
    <3>6. Len(queue'[s]) <= QueueSize
      BY <3>1, <3>2, <3>4, <3>5
    <3>7. GaplessFor(s)'
      BY <3>2, <3>4, <3>6, <1>1 DEF GaplessFor, Pending
    <3> QED  BY <2>2, <3>7, <1>1
  <2>3. CASE o = s /\ o \notin subscriptions
    <3>1. Len(queue[s]) = 1 /\ (queue[s][1] = Closed \/ queue[s][1].kind = "overflow")
      BY <2>3, <1>1 DEF NoEventIsMissed, ToldFor
    <3>2. item.kind # "event"
      BY <3>1, <1>1 DEF Closed
    <3>3. feed'[s] # "open"
      BY <3>2, <1>3, <1>4 DEF TypeOK
    <3> QED  BY <2>3, <3>3, <1>1 DEF ToldFor
  <2> QED  BY <2>1, <2>2, <2>3
<1> QED  BY <1>6, <1>7, <1>8 DEF NoEventIsMissed

\* Who leaves is owed nothing.
LEMMA LeaveInv ==
    ASSUME QueueSize \in Nat \ {0}, IInv, NEW s \in Observers, Leave(s)
    PROVE  IInv'
<1> USE DEF IInv
<1>1. Signal(queue[s], Closed) \in Seq(Items)
  BY EventFields, SignalHolds
<1>2. /\ sequence' = sequence /\ seen' = seen /\ closed' = closed /\ sequence \in Nat
      /\ queue' = [queue EXCEPT ![s] = Signal(queue[s], Closed)]
      /\ subscriptions' = subscriptions \ {s}
      /\ feed' = [feed EXCEPT ![s] = "ended"]
  BY DEF Leave, TypeOK
<1>3. TypeOK'
  BY <1>1, <1>2 DEF TypeOK, Items
<1>4. Unused'
  BY <1>2 DEF Unused, TypeOK
<1>5. ASSUME NEW o \in Observers
      PROVE  IF o \in subscriptions' THEN GaplessFor(o)' ELSE ToldFor(o)'
  <2>1. CASE o = s
    BY <2>1, <1>2 DEF ToldFor, TypeOK
  <2>2. CASE o # s
    <3>1. queue'[o] = queue[o] /\ seen'[o] = seen[o] /\ feed'[o] = feed[o]
      BY <2>2, <1>2 DEF TypeOK
    <3>2. o \in subscriptions => GaplessFor(o)'
      BY <3>1, <1>2 DEF NoEventIsMissed, GaplessFor, Event
    <3>3. o \notin subscriptions => ToldFor(o)'
      BY <3>1, <1>2, StaysTold DEF NoEventIsMissed
    <3> QED  BY <2>2, <3>2, <3>3, <1>2
  <2> QED  BY <2>1, <2>2
<1> QED  BY <1>3, <1>4, <1>5 DEF NoEventIsMissed

\* Every subscriber is told that the feeds are over.
LEMMA SignalAllInv ==
    ASSUME QueueSize \in Nat \ {0}, IInv, DisconnectSubscribers \/ Close
    PROVE  IInv'
<1> USE DEF IInv
<1>1. /\ sequence' = sequence /\ seen' = seen /\ feed' = feed /\ subscriptions' = {}
      /\ sequence \in Nat /\ closed' \in BOOLEAN
      /\ queue' = [o \in Observers |-> IF o \in subscriptions
                                       THEN Signal(queue[o], Closed) ELSE queue[o]]
  BY DEF DisconnectSubscribers, Close, TypeOK
<1>2. ASSUME NEW o \in Observers
      PROVE  /\ queue'[o] \in Seq(Items)
             /\ feed[o] = "none" => queue'[o] = <<>>
             /\ ToldFor(o)'
  <2>1. CASE o \in subscriptions
    <3>1. queue'[o] = Signal(queue[o], Closed)
      BY <2>1, <1>1
    <3>2. queue'[o] \in Seq(Items) /\ Len(queue'[o]) = 1 /\ queue'[o][1] = Closed
      BY <3>1, EventFields, SignalHolds
    <3> QED  BY <2>1, <3>2 DEF ToldFor, Unused, Closed
  <2>2. CASE o \notin subscriptions
    <3>1. queue'[o] = queue[o] /\ ToldFor(o)
      BY <2>2, <1>1 DEF NoEventIsMissed
    <3>2. ToldFor(o)'
      BY <3>1, <1>1, StaysTold
    <3> QED  BY <3>1, <3>2 DEF Unused, TypeOK, Items
  <2> QED  BY <2>1, <2>2
<1>3. queue' \in [Observers -> Seq(Items)]
  BY <1>1, <1>2
<1>4. TypeOK'
  BY <1>1, <1>3 DEF TypeOK, Items
<1>5. Unused' /\ NoEventIsMissed'
  BY <1>1, <1>2 DEF Unused, NoEventIsMissed
<1> QED  BY <1>4, <1>5

LEMMA NextInv ==
    ASSUME QueueSize \in Nat \ {0}, IInv, [Next]_vars
    PROVE  IInv'
<1>1. CASE Publish
  BY <1>1, PublishInv
<1>2. CASE DisconnectSubscribers \/ Close
  BY <1>2, SignalAllInv
<1>3. ASSUME NEW o \in Observers, Subscribe(o) \/ Take(o) \/ Leave(o)
      PROVE  IInv'
  BY <1>3, SubscribeInv, TakeInv, LeaveInv
<1>4. CASE UNCHANGED vars
  BY <1>4 DEF vars, IInv, TypeOK, Unused, NoEventIsMissed, GaplessFor, ToldFor, Event, Closed
<1> QED  BY <1>1, <1>2, <1>3, <1>4 DEF Next

\* Whatever the observers, the size of their queues and the events: a subscriber's
\* queue holds every event it has not read, in order, and an observer that was
\* dropped is told so before it reads anything else.
THEOREM FeedsAreGapless ==
    ASSUME QueueSize \in Nat \ {0} PROVE Spec => []NoEventIsMissed
<1>1. Init => IInv
  BY InitInv
<1>2. IInv /\ [Next]_vars => IInv'
  BY NextInv
<1>3. IInv => NoEventIsMissed
  BY DEF IInv
<1> HIDE DEF IInv
<1> QED  BY <1>1, <1>2, <1>3, PTL DEF Spec
=============================================================================
