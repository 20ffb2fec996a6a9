------------------------- MODULE TruthStream_proofs -------------------------
(***************************************************************************)
(* The queues of the truth stream, for every set of actors and handles and *)
(* every capacity: no queue outgrows its capacity, every tick is accounted *)
(* for, a consumer reads ticks in order, and the rows of a frame tell what *)
(* happened to the world at its tick.                                      *)
(***************************************************************************)
EXTENDS TruthStream, SequenceTheorems, TLAPS

Rows == [kind : {"update", "spawn", "despawn", "none"}, from : Nat]
Frames == [tick : Nat, rows : [Actors -> Rows]]
Queues == [capacity : Nat, pending : Seq(Frames), dropped : Nat, active : BOOLEAN]
Lives == [since : Int, delivered : Nat, last : Nat, lost : BOOLEAN]

TypeInv ==
  /\ tick \in Nat /\ present \subseteq Actors /\ was \subseteq Actors
  /\ call \in [left : Nat, book : BOOLEAN]
  /\ subscribers \subseteq Subs
  /\ stream \in [Actors -> [present : BOOLEAN, at : Nat]]
  /\ queue \in [Subs -> Queues]
  /\ life \in [Subs -> Lives]

\* The frame on its way is that of the current tick, goes to subscriptions
\* only, and is handed out within an advance that found a subscriber.
OutboxInv ==
  outbox = Nothing
  \/ /\ outbox \in [frame : Frames, to : SUBSET subscribers]
     /\ outbox.frame.tick = tick
     /\ call.book

\* A queue never holds more than its capacity; an open one has room for a frame
\* at least, and was opened at a tick.
QueueInv ==
  \A s \in Subs : /\ Len(queue[s].pending) <= queue[s].capacity
                  /\ queue[s].active => queue[s].capacity > 0 /\ life[s].since \in Nat

\* An advance in progress publishes if anybody listens.
BookInv == ~Idle /\ Live # {} => call.book

\* A handle of the present world is one of its subscriptions.
Heard(s) == s \in subscribers

\* Of a queue q and a history l, with o frames on their way at tick now: what was
\* delivered, waits and was dropped adds up, and the queue holds the newest
\* ticks, without a gap, after all that was delivered.
Accounted(q, l, o, now) ==
  /\ l.delivered + Len(q.pending) + q.dropped + o = now - l.since
  /\ \A k \in 1..Len(q.pending) : q.pending[k].tick = now - o - (Len(q.pending) - k)
  /\ l.last <= now - o - Len(q.pending)

HandleInv ==
  \A s \in Subs : Attached(s) => Heard(s) /\ Accounted(queue[s], life[s], Owed(s), tick)

\* While anybody listens, the stream knows the world as it was at the last
\* tick; a frame on its way tells what that tick changed.
StreamInv ==
  /\ Live # {} => \A a \in Actors : stream[a].present => a \in present /\ stream[a].at = tick
  /\ RowsTellTheTick

\* The inductive invariant.
IInv == TypeInv /\ OutboxInv /\ QueueInv /\ BookInv /\ HandleInv /\ StreamInv

-----------------------------------------------------------------------------
(* A push.                                                                 *)

\* An open queue takes the frame, after n of its oldest frames were dropped.
LEMMA PushAppends ==
  ASSUME NEW q \in Queues, NEW f \in Frames,
         q.active, q.capacity > 0, Len(q.pending) <= q.capacity
  PROVE  \E kept \in Seq(Frames), n \in Nat :
           /\ Push(q, f) = [capacity |-> q.capacity, pending |-> Append(kept, f),
                            dropped |-> q.dropped + n, active |-> TRUE]
           /\ n <= Len(q.pending)
           /\ Len(kept) = Len(q.pending) - n
           /\ Len(kept) + 1 <= q.capacity
           /\ \A k \in 1..Len(kept) : kept[k] = q.pending[k + n]
<1> DEFINE Took(kept, n) ==
             /\ Push(q, f) = [capacity |-> q.capacity, pending |-> Append(kept, f),
                              dropped |-> q.dropped + n, active |-> TRUE]
             /\ n <= Len(q.pending)
             /\ Len(kept) = Len(q.pending) - n
             /\ Len(kept) + 1 <= q.capacity
             /\ \A k \in 1..Len(kept) : kept[k] = q.pending[k + n]
<1>0. /\ q.pending \in Seq(Frames) /\ q.capacity \in Nat /\ q.dropped \in Nat
      /\ q = [capacity |-> q.capacity, pending |-> q.pending,
              dropped |-> q.dropped, active |-> TRUE]
  BY DEF Queues
<1>1. CASE Len(q.pending) = q.capacity
  <2> DEFINE kept == Tail(q.pending)
  <2>1. q.pending # <<>>
    BY <1>0, <1>1
  <2>2. /\ kept \in Seq(Frames) /\ Len(kept) = Len(q.pending) - 1
        /\ \A i \in 1..Len(kept) : kept[i] = q.pending[i + 1]
    BY <1>0, <2>1, HeadTailProperties
  <2>3. Push(q, f) = [q EXCEPT !.pending = Append(kept, f), !.dropped = @ + 1]
    BY <1>0, <1>1 DEF Push
  <2> HIDE DEF kept
  <2>4. Push(q, f) = [capacity |-> q.capacity, pending |-> Append(kept, f),
                      dropped |-> q.dropped + 1, active |-> TRUE]
    BY <1>0, <2>3
  <2>5. 1 <= Len(q.pending) /\ Len(kept) + 1 <= q.capacity
    BY <1>0, <1>1, <2>2
  <2>6. Took(kept, 1)
    BY <2>2, <2>4, <2>5
  <2> HIDE DEF Took
  <2>7. \E k \in Seq(Frames), n \in Nat : Took(k, n)
    BY <2>2, <2>6
  <2>. QED BY <2>7 DEF Took
<1>2. CASE Len(q.pending) # q.capacity
  <2>1. Push(q, f) = [q EXCEPT !.pending = Append(@, f)]
    BY <1>0, <1>2 DEF Push
  <2>2. Push(q, f) = [capacity |-> q.capacity, pending |-> Append(q.pending, f),
                      dropped |-> q.dropped, active |-> TRUE]
    BY <1>0, <2>1
  <2>3. /\ q.dropped = q.dropped + 0 /\ 0 <= Len(q.pending)
        /\ Len(q.pending) = Len(q.pending) - 0 /\ Len(q.pending) + 1 <= q.capacity
        /\ \A k \in 1..Len(q.pending) : k = k + 0
    BY <1>0, <1>2
  <2>4. Took(q.pending, 0)
    BY <2>2, <2>3
  <2> HIDE DEF Took
  <2>5. \E k \in Seq(Frames), n \in Nat : Took(k, n)
    BY <1>0, <2>4
  <2>. QED BY <2>5 DEF Took
<1>. QED BY <1>1, <1>2

\* A closed queue takes nothing.
LEMMA PushClosed == ASSUME NEW q, NEW f, ~q.active PROVE Push(q, f) = q
BY DEF Push

\* The fields of a queue and of a history.
LEMMA Fields ==
  ASSUME NEW q \in Queues, NEW l \in Lives
  PROVE  /\ q.pending \in Seq(Frames) /\ Len(q.pending) \in Nat /\ q.dropped \in Nat
         /\ q.capacity \in Nat /\ q.active \in BOOLEAN
         /\ l.delivered \in Nat /\ l.last \in Nat /\ l.since \in Int /\ l.lost \in BOOLEAN
BY DEF Queues, Lives

\* One more tick, one more frame on its way.
LEMMA AccountedTick ==
  ASSUME NEW q \in Queues, NEW l \in Lives, NEW now \in Nat, Accounted(q, l, 0, now)
  PROVE  Accounted(q, l, 1, now + 1)
<1>1. PICK d \in Nat, len \in Nat, dr \in Nat, la \in Nat, si \in Int :
        /\ l.delivered = d /\ Len(q.pending) = len /\ q.dropped = dr
        /\ l.last = la /\ l.since = si
  BY Fields
<1>2. /\ d + len + dr + 0 = now - si
      /\ \A k \in 1..len : q.pending[k].tick = now - 0 - (len - k)
      /\ la <= now - 0 - len
  BY <1>1 DEF Accounted
<1>3. d + len + dr + 1 = now + 1 - si
  BY <1>2
<1>4. la <= now + 1 - 1 - len
  BY <1>2
<1>5. \A k \in 1..len : now - 0 - (len - k) = now + 1 - 1 - (len - k)
  OBVIOUS
<1>6. \A k \in 1..len : q.pending[k].tick = now + 1 - 1 - (len - k)
  BY <1>2, <1>5
<1>. QED BY <1>1, <1>3, <1>4, <1>6 DEF Accounted

\* The frame on its way arrives; n frames are dropped for it.
LEMMA AccountedPush ==
  ASSUME NEW q \in Queues, NEW l \in Lives, NEW now \in Nat, NEW f \in Frames, f.tick = now,
         q.active, q.capacity > 0, Len(q.pending) <= q.capacity, Accounted(q, l, 1, now)
  PROVE  Accounted(Push(q, f), l, 0, now)
<1>1. PICK d \in Nat, len \in Nat, dr \in Nat, la \in Nat, si \in Int :
        /\ l.delivered = d /\ Len(q.pending) = len /\ q.dropped = dr
        /\ l.last = la /\ l.since = si
  BY Fields
<1>2. /\ d + len + dr + 1 = now - si
      /\ \A k \in 1..len : q.pending[k].tick = now - 1 - (len - k)
      /\ la <= now - 1 - len
  BY <1>1 DEF Accounted
<1>3. PICK kept \in Seq(Frames), n \in Nat :
        /\ Push(q, f) = [capacity |-> q.capacity, pending |-> Append(kept, f),
                         dropped |-> q.dropped + n, active |-> TRUE]
        /\ n <= Len(q.pending)
        /\ Len(kept) = Len(q.pending) - n
        /\ \A k \in 1..Len(kept) : kept[k] = q.pending[k + n]
  BY PushAppends
<1>4. PICK m \in Nat : m = len - n
  BY <1>1, <1>3
<1>5. /\ n <= len /\ Len(kept) = m /\ \A k \in 1..m : kept[k] = q.pending[k + n]
      /\ Push(q, f).pending = Append(kept, f) /\ Push(q, f).dropped = dr + n
  BY <1>1, <1>3, <1>4
<1>6. /\ Len(Append(kept, f)) = m + 1 /\ Append(kept, f)[m + 1] = f
      /\ \A k \in 1..m : Append(kept, f)[k] = kept[k]
  BY <1>5
<1>7. d + (m + 1) + (dr + n) + 0 = now - si
  BY <1>2, <1>4
<1>8. la <= now - 0 - (m + 1)
  BY <1>2, <1>4
<1>9. ASSUME NEW k \in 1..m + 1 PROVE Append(kept, f)[k].tick = now - 0 - ((m + 1) - k)
  <2>1. CASE k = m + 1
    <3>1. now = now - 0 - ((m + 1) - (m + 1))
      OBVIOUS
    <3>. QED BY <1>6, <2>1, <3>1
  <2>2. CASE k # m + 1
    <3>1. k \in 1..m /\ k + n \in 1..len
      BY <1>4, <1>5, <2>2
    <3>2. now - 1 - (len - (k + n)) = now - 0 - ((m + 1) - k)
      BY <1>4
    <3>3. q.pending[k + n].tick = now - 1 - (len - (k + n))
      BY <1>2, <3>1
    <3>. QED BY <1>5, <1>6, <3>1, <3>2, <3>3
  <2>. QED BY <2>1, <2>2
<1>. QED BY <1>1, <1>5, <1>6, <1>7, <1>8, <1>9 DEF Accounted

\* What a delivery leaves of a history, and of a queue whose frames are taken.
LEMMA DeliveredFields ==
  ASSUME NEW l \in Lives, NEW n \in Nat, NEW t \in Nat
  PROVE  /\ Delivered(l, n, t) \in Lives
         /\ Delivered(l, n, t).since = l.since /\ Delivered(l, n, t).lost = l.lost
         /\ Delivered(l, n, t).delivered = l.delivered + n /\ Delivered(l, n, t).last = t
<1>1. l.since \in Int /\ l.delivered \in Nat /\ l.lost \in BOOLEAN
  BY DEF Lives
<1>2. l.delivered + n \in Nat
  BY <1>1
<1>. QED BY <1>1, <1>2 DEF Delivered, Lives

\* What replacing the frames of a queue leaves of it.
LEMMA PendingFields ==
  ASSUME NEW q \in Queues, NEW p \in Seq(Frames)
  PROVE  LET e == [q EXCEPT !.pending = p]
         IN  /\ e \in Queues /\ e.pending = p /\ e.dropped = q.dropped
             /\ e.capacity = q.capacity /\ e.active = q.active
<1>1. /\ q = [capacity |-> q.capacity, pending |-> q.pending, dropped |-> q.dropped, active |-> q.active]
      /\ q.capacity \in Nat /\ q.dropped \in Nat /\ q.active \in BOOLEAN
  BY DEF Queues
<1>2. [q EXCEPT !.pending = p] =
        [capacity |-> q.capacity, pending |-> p, dropped |-> q.dropped, active |-> q.active]
  BY <1>1
<1>. QED BY <1>1, <1>2 DEF Queues

\* A consumer takes the oldest frame, or all of them.
LEMMA AccountedRead ==
  ASSUME NEW q \in Queues, NEW l \in Lives, NEW now \in Nat, NEW o \in Nat,
         Accounted(q, l, o, now), q.pending # <<>>
  PROVE  /\ [q EXCEPT !.pending = Tail(q.pending)] \in Queues
         /\ Delivered(l, 1, Head(q.pending).tick) \in Lives
         /\ Accounted([q EXCEPT !.pending = Tail(q.pending)],
                      Delivered(l, 1, Head(q.pending).tick), o, now)
<1>1. PICK d \in Nat, len \in Nat, dr \in Nat, la \in Nat, si \in Int :
        /\ l.delivered = d /\ Len(q.pending) = len /\ q.dropped = dr
        /\ l.last = la /\ l.since = si
  BY Fields
<1>2. /\ d + len + dr + o = now - si
      /\ \A k \in 1..len : q.pending[k].tick = now - o - (len - k)
  BY <1>1 DEF Accounted
<1>3. q.pending \in Seq(Frames) /\ len >= 1
  BY <1>1, Fields
<1>4. PICK m \in Nat : m = len - 1
  BY <1>3
<1> DEFINE t == Tail(q.pending)
           h == Head(q.pending).tick
<1>5. /\ t \in Seq(Frames) /\ Len(t) = m /\ \A k \in 1..m : t[k] = q.pending[k + 1]
  BY <1>1, <1>3, <1>4, HeadTailProperties
<1>6. h = now - o - (len - 1) /\ h \in Nat
  <2>1. Head(q.pending) = q.pending[1] /\ q.pending[1] \in Frames
    BY <1>1, <1>3
  <2>. QED BY <1>2, <1>3, <2>1 DEF Frames
<1> HIDE DEF t, h
<1>7. /\ [q EXCEPT !.pending = t] \in Queues
      /\ [q EXCEPT !.pending = t].pending = t /\ [q EXCEPT !.pending = t].dropped = dr
  BY <1>1, <1>5 DEF Queues
<1>8. /\ Delivered(l, 1, h) \in Lives
      /\ Delivered(l, 1, h).delivered = d + 1 /\ Delivered(l, 1, h).last = h
      /\ Delivered(l, 1, h).since = si
  <2>1. PICK n \in Nat : n = 1
    OBVIOUS
  <2>2. h \in Nat /\ n \in Nat /\ l \in Lives
    BY <1>6
  <2>3. /\ Delivered(l, n, h) \in Lives
        /\ Delivered(l, n, h).since = l.since
        /\ Delivered(l, n, h).delivered = l.delivered + n /\ Delivered(l, n, h).last = h
    BY <2>2 DEF Delivered, Lives
  <2>. QED BY <1>1, <2>1, <2>3
<1>9. (d + 1) + m + dr + o = now - si
  BY <1>2, <1>4
<1>10. h <= now - o - m
  BY <1>4, <1>6
<1>11. ASSUME NEW k \in 1..m PROVE t[k].tick = now - o - (m - k)
  <2>1. k + 1 \in 1..len /\ now - o - (len - (k + 1)) = now - o - (m - k)
    BY <1>4
  <2>. QED BY <1>2, <1>5, <2>1
<1>12. Accounted([q EXCEPT !.pending = t], Delivered(l, 1, h), o, now)
  BY <1>5, <1>7, <1>8, <1>9, <1>10, <1>11 DEF Accounted
<1>. QED BY <1>7, <1>8, <1>12 DEF t, h

\* A consumer takes all the frames of its queue (drain_into).
LEMMA AccountedDrain ==
  ASSUME NEW q \in Queues, NEW l \in Lives, NEW now \in Nat, NEW o \in Nat,
         Accounted(q, l, o, now), q.pending # <<>>
  PROVE  /\ [q EXCEPT !.pending = <<>>] \in Queues
         /\ Delivered(l, Len(q.pending), q.pending[Len(q.pending)].tick) \in Lives
         /\ Accounted([q EXCEPT !.pending = <<>>],
                      Delivered(l, Len(q.pending), q.pending[Len(q.pending)].tick), o, now)
<1>1. PICK d \in Nat, len \in Nat, dr \in Nat, la \in Nat, si \in Int :
        /\ l.delivered = d /\ Len(q.pending) = len /\ q.dropped = dr
        /\ l.last = la /\ l.since = si
  BY Fields
<1>2. /\ d + len + dr + o = now - si
      /\ \A k \in 1..len : q.pending[k].tick = now - o - (len - k)
  BY <1>1 DEF Accounted
<1>3. q.pending \in Seq(Frames) /\ len >= 1
  BY <1>1, Fields
<1> DEFINE h == q.pending[len].tick
<1>4. h = now - o - (len - len) /\ h \in Nat
  <2>1. q.pending[len] \in Frames /\ len \in 1..len
    BY <1>1, <1>3
  <2>. QED BY <1>2, <2>1 DEF Frames
<1> HIDE DEF h
<1>5. /\ [q EXCEPT !.pending = <<>>] \in Queues
      /\ [q EXCEPT !.pending = <<>>].pending = <<>> /\ [q EXCEPT !.pending = <<>>].dropped = dr
  BY <1>1, EmptySeq, PendingFields
<1>6. /\ Delivered(l, len, h) \in Lives
      /\ Delivered(l, len, h).delivered = d + len /\ Delivered(l, len, h).last = h
      /\ Delivered(l, len, h).since = si
  <2>1. h \in Nat /\ len \in Nat
    BY <1>4
  <2>2. /\ Delivered(l, len, h) \in Lives
        /\ Delivered(l, len, h).since = l.since
        /\ Delivered(l, len, h).delivered = l.delivered + len /\ Delivered(l, len, h).last = h
    <3>1. l \in Lives
      OBVIOUS
    <3>. QED BY <3>1, <2>1, DeliveredFields, ZenonT(60)
  <2>. QED BY <1>1, <2>2
<1>7. (d + len) + 0 + dr + o = now - si
  BY <1>2
<1>8. h <= now - o - 0
  BY <1>4
<1>9. Accounted([q EXCEPT !.pending = <<>>], Delivered(l, len, h), o, now)
  BY <1>5, <1>6, <1>7, <1>8 DEF Accounted
<1>. QED BY <1>1, <1>5, <1>6, <1>9 DEF h

\* The rows of a composed frame, and the stream after it.
LEMMA FrameTells ==
  ASSUME TypeInv, NEW now \in SUBSET Actors
  PROVE  /\ FrameAt(tick + 1, now) \in Frames
         /\ StreamAt(tick + 1, now) \in [Actors -> [present : BOOLEAN, at : Nat]]
         /\ FrameAt(tick + 1, now).tick = tick + 1
         /\ \A a \in Actors :
              /\ FrameAt(tick + 1, now).rows[a].kind \in {"update", "spawn"} <=> a \in now
              /\ FrameAt(tick + 1, now).rows[a].kind \in {"update", "despawn"} => stream[a].present
              /\ FrameAt(tick + 1, now).rows[a].kind = "update" =>
                   FrameAt(tick + 1, now).rows[a].from = stream[a].at
              /\ StreamAt(tick + 1, now)[a].present <=> a \in now
              /\ a \in now => StreamAt(tick + 1, now)[a].at = tick + 1
<1>1. \A a \in Actors :
        /\ RowKind(a, now) \in {"update", "spawn", "despawn", "none"}
        /\ RowKind(a, now) \in {"update", "spawn"} <=> a \in now
        /\ RowKind(a, now) \in {"update", "despawn"} => stream[a].present
        /\ RowKind(a, now) = "none" => a \notin now
  BY DEF RowKind, TypeInv
<1>2. tick + 1 \in Nat /\ \A a \in Actors : stream[a].at \in Nat /\ stream[a].present \in BOOLEAN
  BY DEF TypeInv
<1>3. FrameAt(tick + 1, now) \in Frames
  BY <1>1, <1>2 DEF FrameAt, Frames, Rows
<1>4. StreamAt(tick + 1, now) \in [Actors -> [present : BOOLEAN, at : Nat]]
  BY <1>2 DEF StreamAt
<1>5. \A a \in Actors :
        /\ FrameAt(tick + 1, now).rows[a].kind = RowKind(a, now)
        /\ RowKind(a, now) = "update" => FrameAt(tick + 1, now).rows[a].from = stream[a].at
        /\ StreamAt(tick + 1, now)[a].present = (a \in now)
        /\ RowKind(a, now) # "none" => StreamAt(tick + 1, now)[a].at = tick + 1
  BY DEF FrameAt, StreamAt
<1>6. FrameAt(tick + 1, now).tick = tick + 1
  BY DEF FrameAt
<1>. QED BY <1>1, <1>3, <1>4, <1>5, <1>6

\* Between advances, and between two ticks of one, no frame is on its way.
LEMMA Quiet ==
  ASSUME IInv
  PROVE  /\ Idle => outbox = Nothing
         /\ outbox = Nothing => \A s \in Subs : Owed(s) = 0
<1>1. Idle => ~call.book
  BY DEF Idle, NoCall
<1>2. Idle => outbox = Nothing
  BY <1>1 DEF IInv, OutboxInv
<1>3. outbox = Nothing => \A s \in Subs : Owed(s) = 0
  BY DEF Owed, Nothing
<1>. QED BY <1>2, <1>3

\* A step that changes one queue, or one handle's history.
LEMMA OneQueue ==
  ASSUME TypeInv, NEW s \in Subs, NEW q \in Queues, queue' = [queue EXCEPT ![s] = q]
  PROVE  /\ queue' \in [Subs -> Queues] /\ queue'[s] = q
         /\ \A t \in Subs \ {s} : queue'[t] = queue[t]
BY DEF TypeInv

\* A step that changes one handle's history.
LEMMA OneLife ==
  ASSUME TypeInv, NEW s \in Subs, NEW l \in Lives, life' = [life EXCEPT ![s] = l]
  PROVE  /\ life' \in [Subs -> Lives] /\ life'[s] = l
         /\ \A t \in Subs \ {s} : life'[t] = life[t]
BY DEF TypeInv

-----------------------------------------------------------------------------

\* The inductive invariant holds at the start.
LEMMA InitIInv == Init => IInv
<1> SUFFICES ASSUME Init PROVE IInv
  OBVIOUS
<1>1. TypeInv
  BY DEF Init, TypeInv, NoCall, NewStream, Unknown, Closed, Unborn, Queues, Lives
<1>2. OutboxInv
  BY DEF Init, OutboxInv
<1>3. \A s \in Subs : queue[s] = Closed /\ life[s] = Unborn
  BY DEF Init
<1>4. QueueInv
  BY <1>3 DEF QueueInv, Closed
<1>5. HandleInv
  BY <1>3 DEF HandleInv, Attached
<1>6. Live = {} /\ outbox = Nothing
  BY DEF Init, Live
<1>. QED BY <1>1, <1>2, <1>4, <1>5, <1>6 DEF IInv, BookInv, StreamInv, RowsTellTheTick

\* subscribe keeps the inductive invariant.
LEMMA SubscribeKeeps ==
  ASSUME IInv, NEW s \in Subs, NEW c \in Capacities, Subscribe(s, c)
  PROVE  IInv'
<1>0. /\ outbox = Nothing /\ \A t \in Subs : Owed(t) = 0
      /\ tick' = tick /\ call' = call /\ outbox' = outbox /\ present' = present /\ was' = was
      /\ Idle /\ Idle' /\ c \in Nat /\ c > 0 /\ TypeInv
      /\ subscribers' = Live \cup {s} /\ stream' = StreamForNext
  BY Quiet, TruthAssumption DEF Subscribe, IInv, Idle
<1>1. \A t \in Subs : Owed(t)' = 0
  BY <1>0 DEF Owed, Nothing
<1>2. queue' \in [Subs -> Queues] /\ queue'[s] = Opened(c) /\ \A t \in Subs \ {s} : queue'[t] = queue[t]
  <2>1. Opened(c) \in Queues
    BY <1>0 DEF Opened, Queues
  <2>. QED BY <1>0, <2>1, OneQueue DEF Subscribe
<1>3. life' \in [Subs -> Lives] /\ life'[s] = Born(tick) /\ \A t \in Subs \ {s} : life'[t] = life[t]
  <2>1. Born(tick) \in Lives
    BY <1>0 DEF Born, Lives, TypeInv
  <2>. QED BY <1>0, <2>1, OneLife DEF Subscribe
<1>8. TypeInv'
  <2>1. StreamForNext \in [Actors -> [present : BOOLEAN, at : Nat]]
    BY <1>0 DEF StreamForNext, NewStream, Unknown, TypeInv
  <2>2. Live \cup {s} \subseteq Subs
    BY <1>0 DEF Live, TypeInv
  <2>. QED BY <1>0, <1>2, <1>3, <2>1, <2>2 DEF TypeInv
<1>4. OutboxInv'
  BY <1>0 DEF OutboxInv, Nothing, NoFrame
<1>5. QueueInv'
  <2>1. /\ Len(queue'[s].pending) <= queue'[s].capacity /\ queue'[s].capacity > 0
        /\ life'[s].since \in Nat
    BY <1>0, <1>2, <1>3 DEF Opened, Born, TypeInv
  <2>. QED BY <1>2, <1>3, <2>1 DEF QueueInv, IInv
<1>6. HandleInv'
  <2> SUFFICES ASSUME NEW t \in Subs, Attached(t)'
               PROVE  Heard(t)' /\ Accounted(queue'[t], life'[t], Owed(t)', tick')
    BY DEF HandleInv
  <2>1. CASE t = s
    <3>1. Heard(t)'
      BY <1>0, <2>1 DEF Heard
    <3>2. Accounted(Opened(c), Born(tick), 0, tick)
      BY <1>0 DEF Accounted, Opened, Born, TypeInv
    <3>. QED BY <1>0, <1>1, <1>2, <1>3, <2>1, <3>1, <3>2
  <2>2. CASE t # s
    <3>1. UNCHANGED <<tick, queue[t], life[t], Owed(t)>>
      BY <1>0, <1>1, <1>2, <1>3, <2>2
    <3>2. Attached(t) /\ Heard(t) /\ Accounted(queue[t], life[t], Owed(t), tick)
      BY <3>1 DEF IInv, HandleInv, Attached, Unborn
    <3>3. Heard(t)'
      BY <1>0, <3>2 DEF Heard, Live, Attached
    <3>. QED BY <3>1, <3>2, <3>3
  <2>. QED BY <2>1, <2>2
<1>7. StreamInv'
  <2>1. RowsTellTheTick'
    BY <1>0 DEF RowsTellTheTick, Nothing, NoFrame
  <2>2. \A a \in Actors : StreamForNext[a].present =>
          a \in present /\ StreamForNext[a].at = tick
    BY DEF StreamForNext, NewStream, Unknown, IInv, StreamInv
  <2>. QED BY <1>0, <2>1, <2>2 DEF StreamInv
<1>. QED BY <1>0, <1>4, <1>5, <1>6, <1>7, <1>8 DEF IInv, BookInv

\* What pruning does: the handles of the present world stay subscribed.
LEMMA PruneKeeps ==
  ASSUME IInv, Idle, subscribers' = Live, UNCHANGED <<tick, present, was, stream, outbox, queue, life>>,
         \/ UNCHANGED call
         \/ \E n \in Nat : call' = [left |-> n, book |-> Live # {}]
  PROVE  IInv'
<1>0. /\ outbox = Nothing /\ \A t \in Subs : Owed(t) = 0 /\ Owed(t)' = 0
      /\ TypeInv /\ Live \subseteq Subs /\ Live' = Live
  BY Quiet DEF IInv, Owed, Nothing, Live, TypeInv
<1>6. /\ call' \in [left : Nat, book : BOOLEAN]
      /\ call' # NoCall /\ Live # {} => call'.book
  <2>1. CASE UNCHANGED call
    BY <1>0, <2>1 DEF TypeInv, Idle
  <2>2. CASE \E n \in Nat : call' = [left |-> n, book |-> Live # {}]
    <3>1. PICK n \in Nat : call' = [left |-> n, book |-> Live # {}]
      BY <2>2
    <3>2. CASE Live = {}
      BY <3>1, <3>2
    <3>3. CASE Live # {}
      BY <3>1, <3>3
    <3>. QED BY <3>2, <3>3
  <2>. QED BY <2>1, <2>2
<1>1. TypeInv'
  BY <1>0, <1>6 DEF TypeInv
<1>2. OutboxInv' /\ QueueInv'
  BY <1>0 DEF OutboxInv, QueueInv, IInv, Nothing, NoFrame
<1>3. HandleInv'
  <2> SUFFICES ASSUME NEW t \in Subs, Attached(t)'
               PROVE  Heard(t)' /\ Accounted(queue'[t], life'[t], Owed(t)', tick')
    BY DEF HandleInv
  <2>1. UNCHANGED <<tick, queue[t], life[t], Owed(t)>>
    BY <1>0
  <2>2. Attached(t) /\ Heard(t) /\ Accounted(queue[t], life[t], Owed(t), tick)
    BY <2>1 DEF IInv, HandleInv, Attached, Unborn
  <2>3. t \in Live
    BY <2>2 DEF Heard, Live, Attached
  <2>4. Heard(t)'
    BY <2>3 DEF Heard
  <2>. QED BY <2>1, <2>2, <2>4
<1>4. StreamInv'
  BY <1>0 DEF StreamInv, IInv, RowsTellTheTick
<1>5. BookInv'
  BY <1>0, <1>6 DEF BookInv, Idle
<1>. QED BY <1>1, <1>2, <1>3, <1>4, <1>5 DEF IInv

\* A committed tick, with or without a frame to hand out, keeps it.
LEMMA CommitTickKeeps ==
  ASSUME IInv, NEW now \in SUBSET Actors, CommitTick(now)
  PROVE  IInv'
<1> DEFINE f == FrameAt(tick + 1, now)
<1>0. /\ outbox = Nothing /\ \A t \in Subs : Owed(t) = 0
      /\ TypeInv /\ Live \subseteq Subs /\ Live' = IF call.book THEN Live ELSE Live'
      /\ call.left > 0 /\ ~Idle /\ call' \in [left : Nat, book : BOOLEAN] /\ call'.book = call.book
      /\ tick' = tick + 1 /\ tick \in Nat /\ present' = now /\ was' = present
      /\ UNCHANGED <<queue, life>>
  <2>1. outbox = Nothing /\ \A t \in Subs : Owed(t) = 0
    BY Quiet DEF CommitTick
  <2>2. call.left > 0 /\ call.left \in Nat /\ call' = [call EXCEPT !.left = @ - 1] /\ TypeInv
    BY DEF CommitTick, IInv, TypeInv
  <2>3. call' \in [left : Nat, book : BOOLEAN] /\ call'.book = call.book
    BY <2>2 DEF TypeInv
  <2>4. ~Idle
    BY <2>2 DEF Idle, NoCall
  <2>5. call.book => Live' = Live
    BY DEF CommitTick, Live
  <2>. QED BY <2>1, <2>2, <2>3, <2>4, <2>5 DEF CommitTick, TypeInv, Live
<1>1. CASE ~call.book
  <2>1. UNCHANGED <<subscribers, stream, outbox>>
    BY <1>1 DEF CommitTick
  <2>2. Live = {} /\ Live' = {}
    BY <1>0, <1>1, <2>1 DEF IInv, BookInv, Live
  <2>3. \A t \in Subs : ~Attached(t)
    BY <2>2 DEF IInv, HandleInv, Heard, Live, Attached
  <2>4. \A t \in Subs : ~Attached(t)'
    BY <1>0, <2>3 DEF Attached, Unborn
  <2>5. TypeInv'
    BY <1>0, <2>1 DEF TypeInv
  <2>6. OutboxInv' /\ QueueInv' /\ HandleInv' /\ BookInv' /\ StreamInv'
    BY <1>0, <2>1, <2>2, <2>4
    DEF OutboxInv, QueueInv, HandleInv, BookInv, StreamInv, RowsTellTheTick, IInv, Nothing, NoFrame
  <2>. QED BY <2>5, <2>6 DEF IInv
<1>2. CASE call.book /\ Live = {}
  <2>1. UNCHANGED <<stream, outbox>> /\ subscribers' = {}
    BY <1>2 DEF CommitTick
  <2>2. \A t \in Subs : ~Attached(t)
    BY <1>2 DEF IInv, HandleInv, Heard, Live, Attached
  <2>3. \A t \in Subs : ~Attached(t)'
    BY <1>0, <2>2 DEF Attached, Unborn
  <2>4. TypeInv'
    BY <1>0, <2>1 DEF TypeInv
  <2>5. OutboxInv' /\ QueueInv' /\ HandleInv' /\ BookInv' /\ StreamInv'
    BY <1>0, <1>2, <2>1, <2>3
    DEF OutboxInv, QueueInv, HandleInv, BookInv, StreamInv, RowsTellTheTick, IInv, Nothing, NoFrame
  <2>. QED BY <2>4, <2>5 DEF IInv
<1>3. CASE call.book /\ Live # {}
  <2>1. /\ stream' = StreamAt(tick + 1, now) /\ subscribers' = Live
        /\ outbox' = [frame |-> f, to |-> Live]
    BY <1>3 DEF CommitTick
  <2>2. /\ f \in Frames /\ f.tick = tick + 1
        /\ stream' \in [Actors -> [present : BOOLEAN, at : Nat]]
        /\ \A a \in Actors : /\ f.rows[a].kind \in {"update", "spawn"} <=> a \in now
                             /\ f.rows[a].kind \in {"update", "despawn"} => stream[a].present
                             /\ f.rows[a].kind = "update" => f.rows[a].from = stream[a].at
                             /\ stream'[a].present => a \in now /\ stream'[a].at = tick + 1
    BY <1>0, <2>1, FrameTells
  <2> HIDE DEF f
  <2>3. TypeInv'
    BY <1>0, <2>1, <2>2 DEF TypeInv
  <2>4. OutboxInv' /\ QueueInv' /\ BookInv'
    BY <1>0, <1>3, <2>1, <2>2 DEF OutboxInv, QueueInv, BookInv, IInv
  <2>5. HandleInv'
    <3> SUFFICES ASSUME NEW t \in Subs, Attached(t)'
                 PROVE  Heard(t)' /\ Accounted(queue'[t], life'[t], Owed(t)', tick')
      BY DEF HandleInv
    <3>1. Attached(t) /\ t \in Live
      BY <1>0 DEF Attached, Unborn, IInv, HandleInv, Heard, Live
    <3>2. Owed(t) = 0 /\ Owed(t)' = 1
      BY <1>0, <2>1, <3>1 DEF Owed
    <3>3. queue[t] \in Queues /\ life[t] \in Lives
      BY <1>0 DEF TypeInv
    <3>4. Accounted(queue[t], life[t], 0, tick)
      BY <3>1, <3>2 DEF IInv, HandleInv
    <3>5. Accounted(queue[t], life[t], 1, tick + 1)
      BY <1>0, <3>3, <3>4, AccountedTick
    <3>. QED BY <1>0, <2>1, <3>1, <3>2, <3>5 DEF Heard
  <2>6. StreamInv'
    BY <1>0, <1>3, <2>1, <2>2 DEF StreamInv, RowsTellTheTick, IInv
  <2>. QED BY <2>3, <2>4, <2>5, <2>6 DEF IInv
<1>. QED BY <1>0, <1>1, <1>2, <1>3 DEF TypeInv

\* What is known of a handle of the present world, in numbers.
LEMMA HandleTypes ==
  ASSUME TypeInv, NEW s \in Subs
  PROVE  /\ queue[s] \in Queues /\ life[s] \in Lives
         /\ queue[s].pending \in Seq(Frames) /\ Len(queue[s].pending) \in Nat
         /\ queue[s].capacity \in Nat /\ queue[s].dropped \in Nat /\ queue[s].active \in BOOLEAN
         /\ life[s].delivered \in Nat /\ life[s].last \in Nat /\ life[s].since \in Int
         /\ life[s].lost \in BOOLEAN /\ Owed(s) \in {0, 1} /\ tick \in Nat
BY DEF TypeInv, Queues, Lives, Owed

\* A queue taking its frame keeps it.
LEMMA EnqueueKeeps ==
  ASSUME IInv, NEW s \in Subs, Enqueue(s)
  PROVE  IInv'
<1> DEFINE f == outbox.frame
<1>0. /\ s \in outbox.to /\ outbox # Nothing /\ TypeInv
      /\ outbox \in [frame : Frames, to : SUBSET subscribers]
      /\ f \in Frames /\ f.tick = tick /\ call.book
      /\ queue' = [queue EXCEPT ![s] = Push(queue[s], f)] /\ outbox' = Taken(s)
      /\ UNCHANGED <<tick, present, was, call, subscribers, stream, life>>
  BY DEF Enqueue, IInv, OutboxInv, Nothing
<1>1. /\ queue[s] \in Queues /\ queue[s].pending \in Seq(Frames)
      /\ Len(queue[s].pending) <= queue[s].capacity
      /\ queue[s].active => queue[s].capacity > 0
  BY <1>0, HandleTypes DEF IInv, QueueInv
<1>2. /\ Push(queue[s], f) \in Queues
      /\ Push(queue[s], f).active = queue[s].active
      /\ Push(queue[s], f).capacity = queue[s].capacity
      /\ Len(Push(queue[s], f).pending) <= queue[s].capacity
  <2>1. CASE ~queue[s].active
    BY <1>1, <2>1, PushClosed
  <2>2. CASE queue[s].active
    <3>1. PICK kept \in Seq(Frames), n \in Nat :
            /\ Push(queue[s], f) = [capacity |-> queue[s].capacity, pending |-> Append(kept, f),
                                    dropped |-> queue[s].dropped + n, active |-> TRUE]
            /\ Len(kept) + 1 <= queue[s].capacity
      BY <1>0, <1>1, <2>2, PushAppends
    <3>2. Append(kept, f) \in Seq(Frames) /\ Len(Append(kept, f)) = Len(kept) + 1
      BY <1>0, <3>1
    <3>. QED BY <1>1, <2>2, <3>1, <3>2 DEF Queues
  <2>. QED BY <2>1, <2>2
<1>3. /\ queue' \in [Subs -> Queues] /\ queue'[s] = Push(queue[s], f)
      /\ \A t \in Subs \ {s} : queue'[t] = queue[t]
  BY <1>0, <1>2, OneQueue
<1>4. /\ outbox' = Nothing \/ outbox' = [frame |-> f, to |-> outbox.to \ {s}]
      /\ \A t \in Subs \ {s} : Owed(t)' = Owed(t)
      /\ Owed(s) = 1 /\ Owed(s)' = 0
  BY <1>0 DEF Owed, Taken, Nothing
<1>5. TypeInv'
  BY <1>0, <1>3 DEF TypeInv
<1>6. OutboxInv'
  BY <1>0, <1>4 DEF OutboxInv
<1>7. QueueInv'
  BY <1>0, <1>1, <1>2, <1>3 DEF QueueInv, IInv
<1>8. Live' = Live
  BY <1>0, <1>2, <1>3 DEF Live, TypeInv
<1>9. BookInv'
  BY <1>0 DEF BookInv
<1>10. HandleInv'
  <2> SUFFICES ASSUME NEW t \in Subs, Attached(t)'
               PROVE  Heard(t)' /\ Accounted(queue'[t], life'[t], Owed(t)', tick')
    BY DEF HandleInv
  <2>1. Attached(t) /\ Heard(t) /\ Accounted(queue[t], life[t], Owed(t), tick)
    BY <1>0, <1>2, <1>3 DEF Attached, Unborn, IInv, HandleInv
  <2>2. CASE t # s
    BY <1>0, <1>3, <1>4, <2>1, <2>2 DEF Heard
  <2>3. CASE t = s
    <3>1. queue[s].active /\ Accounted(queue[s], life[s], 1, tick)
      BY <1>4, <2>1, <2>3 DEF Attached
    <3>2. life[s] \in Lives /\ tick \in Nat
      BY <1>0, HandleTypes
    <3>. HIDE DEF f
    <3>3. Accounted(Push(queue[s], f), life[s], 0, tick)
      BY <1>0, <1>1, <3>1, <3>2, AccountedPush
    <3>. QED BY <1>0, <1>3, <1>4, <2>1, <2>3, <3>3 DEF Heard
  <2>. QED BY <2>2, <2>3
<1>11. StreamInv'
  <2>1. outbox' # Nothing => outbox'.frame = outbox.frame
    BY <1>0, <1>4
  <2>. QED BY <1>0, <1>8, <2>1 DEF StreamInv, RowsTellTheTick, IInv
<1>. QED BY <1>5, <1>6, <1>7, <1>9, <1>10, <1>11 DEF IInv

\* A restored world, whose publisher has no subscription, keeps it.
LEMMA RestoreKeeps ==
  ASSUME IInv, NEW t \in Nat, NEW now \in SUBSET Actors, Restore(t, now)
  PROVE  IInv'
<1>0. /\ outbox = Nothing /\ outbox' = Nothing /\ TypeInv
      /\ tick' = t /\ present' = now /\ was' = now /\ subscribers' = {} /\ stream' = NewStream
      /\ UNCHANGED <<call, queue>>
  BY Quiet DEF Restore, IInv
<1>1. life' = [s \in Subs |-> IF life[s] = Unborn THEN Unborn ELSE [life[s] EXCEPT !.lost = TRUE]]
  BY DEF Restore
<1>2. \A s \in Subs : /\ life'[s] \in Lives /\ (life'[s] = Unborn \/ life'[s].lost)
                      /\ life'[s].since = life[s].since
  <2> TAKE s \in Subs
  <2>1. Unborn \in Lives /\ life[s] \in Lives
    BY <1>0 DEF Unborn, Lives, TypeInv
  <2>2. /\ [life[s] EXCEPT !.lost = TRUE] \in Lives /\ [life[s] EXCEPT !.lost = TRUE].lost
        /\ [life[s] EXCEPT !.lost = TRUE].since = life[s].since
    BY <2>1 DEF Lives
  <2>. QED BY <1>1, <2>1, <2>2
<1>3. TypeInv'
  <2>1. life' \in [Subs -> Lives]
    BY <1>1, <1>2
  <2>2. stream' \in [Actors -> [present : BOOLEAN, at : Nat]]
    BY <1>0 DEF NewStream, Unknown
  <2>. QED BY <1>0, <2>1, <2>2 DEF TypeInv
<1>4. HandleInv'
  BY <1>2 DEF HandleInv, Attached
<1>5. Live' = {}
  BY <1>0 DEF Live
<1>6. OutboxInv' /\ QueueInv' /\ BookInv' /\ StreamInv'
  BY <1>0, <1>2, <1>5 DEF OutboxInv, QueueInv, BookInv, StreamInv, RowsTellTheTick, IInv
<1>. QED BY <1>3, <1>4, <1>6 DEF IInv

\* A handle's own step: its queue q' and history l' are accounted for as the
\* old ones were, it is not opened, and nothing else changes.
LEMMA HandleKeeps ==
  ASSUME IInv, NEW s \in Subs, NEW q \in Queues, NEW l \in Lives,
         queue' = [queue EXCEPT ![s] = q], life' = [life EXCEPT ![s] = l],
         UNCHANGED <<tick, present, was, call, subscribers, stream, outbox>>,
         Len(q.pending) <= queue[s].capacity, q.capacity = queue[s].capacity,
         q.active => queue[s].active, l.lost = life[s].lost, l.since = life[s].since,
         Attached(s) /\ q.active => Accounted(q, l, Owed(s), tick)
  PROVE  IInv'
<1>0. TypeInv /\ \A t \in Subs : Owed(t)' = Owed(t)
  BY DEF IInv, Owed
<1>1. queue' \in [Subs -> Queues] /\ queue'[s] = q /\ \A t \in Subs \ {s} : queue'[t] = queue[t]
  BY <1>0, OneQueue
<1>2. life' \in [Subs -> Lives] /\ life'[s] = l /\ \A t \in Subs \ {s} : life'[t] = life[t]
  BY <1>0, OneLife
<1>3. TypeInv' /\ OutboxInv'
  BY <1>0, <1>1, <1>2 DEF TypeInv, OutboxInv, IInv
<1>4. QueueInv'
  BY <1>1, <1>2 DEF QueueInv, IInv
<1>5. Live' \subseteq Live
  BY <1>0, <1>1 DEF Live, TypeInv
<1>6. BookInv'
  BY <1>5 DEF BookInv, IInv, Idle
<1>7. HandleInv'
  <2> SUFFICES ASSUME NEW t \in Subs, Attached(t)'
               PROVE  Heard(t)' /\ Accounted(queue'[t], life'[t], Owed(t)', tick')
    BY DEF HandleInv
  <2>1. queue[t].active /\ ~life[t].lost
    BY <1>1, <1>2 DEF Attached
  <2>0. life[t] # Unborn
    BY <2>1 DEF IInv, QueueInv, Unborn
  <2>4. Attached(t) /\ Heard(t) /\ Accounted(queue[t], life[t], Owed(t), tick)
    BY <2>0, <2>1 DEF Attached, IInv, HandleInv
  <2>2. CASE t # s
    BY <1>0, <1>1, <1>2, <2>2, <2>4 DEF Heard
  <2>3. CASE t = s
    BY <1>0, <1>1, <1>2, <2>3, <2>4 DEF Heard, Attached
  <2>. QED BY <2>2, <2>3
<1>8. StreamInv'
  BY <1>5 DEF StreamInv, RowsTellTheTick, IInv
<1>. QED BY <1>3, <1>4, <1>6, <1>7, <1>8 DEF IInv

\* read keeps it.
LEMMA ReadKeeps ==
  ASSUME IInv, NEW s \in Subs, Read(s)
  PROVE  IInv'
<1> DEFINE pending == queue[s].pending
           t == Head(pending).tick
           q == [queue[s] EXCEPT !.pending = Tail(pending)]
           l == Delivered(life[s], 1, t)
<1>0. /\ pending # <<>> /\ queue[s] \in Queues /\ life[s] \in Lives
      /\ pending \in Seq(Frames) /\ Len(pending) <= queue[s].capacity
      /\ tick \in Nat /\ Owed(s) \in Nat
  BY HandleTypes DEF Read, IInv, QueueInv
<1>1. /\ queue' = [queue EXCEPT ![s] = q] /\ life' = [life EXCEPT ![s] = l]
      /\ UNCHANGED <<tick, present, was, call, subscribers, stream, outbox>>
  BY DEF Read
<1>2. /\ q \in Queues /\ q.capacity = queue[s].capacity /\ q.active = queue[s].active
      /\ q.pending = Tail(pending)
  <2>1. Tail(pending) \in Seq(Frames)
    BY <1>0, HeadTailProperties
  <2>. QED BY <1>0, <2>1, PendingFields
<1>3. Len(q.pending) <= queue[s].capacity
  <2>1. Len(Tail(pending)) = Len(pending) - 1 /\ Len(pending) \in Nat /\ queue[s].capacity \in Nat
    BY <1>0, HeadTailProperties, Fields
  <2>. QED BY <1>0, <1>2, <2>1
<1>4. l \in Lives /\ l.lost = life[s].lost /\ l.since = life[s].since
  <2>1. Head(pending) \in Frames
    BY <1>0, HeadTailProperties
  <2>2. t \in Nat
    BY <2>1 DEF Frames
  <2>3. PICK n \in Nat : n = 1
    OBVIOUS
  <2>. HIDE DEF t
  <2>4. /\ Delivered(life[s], n, t) \in Lives /\ Delivered(life[s], n, t).lost = life[s].lost
        /\ Delivered(life[s], n, t).since = life[s].since
    <3>1. life[s] \in Lives BY <1>0
    <3>. QED BY <3>1, <2>2, DeliveredFields, ZenonT(60)
  <2>. QED BY <2>3, <2>4
<1>5. Attached(s) => Accounted(q, l, Owed(s), tick)
  BY <1>0, AccountedRead DEF IInv, HandleInv
<1>. HIDE DEF q, l
<1>. QED BY <1>1, <1>2, <1>3, <1>4, <1>5, HandleKeeps

\* drain_into keeps it.
LEMMA DrainKeeps ==
  ASSUME IInv, NEW s \in Subs, DrainInto(s)
  PROVE  IInv'
<1> DEFINE pending == queue[s].pending
           n == Len(pending)
           t == pending[n].tick
           q == [queue[s] EXCEPT !.pending = <<>>]
           l == Delivered(life[s], n, t)
<1>0. /\ pending # <<>> /\ queue[s] \in Queues /\ life[s] \in Lives
      /\ pending \in Seq(Frames) /\ tick \in Nat /\ Owed(s) \in Nat /\ queue[s].capacity \in Nat
  BY HandleTypes DEF DrainInto, IInv
<1>1. /\ queue' = [queue EXCEPT ![s] = q] /\ life' = [life EXCEPT ![s] = l]
      /\ UNCHANGED <<tick, present, was, call, subscribers, stream, outbox>>
  BY DEF DrainInto
<1>2. /\ q \in Queues /\ q.capacity = queue[s].capacity /\ q.active = queue[s].active
      /\ q.pending = <<>>
  BY <1>0, EmptySeq, PendingFields
<1>3. Len(q.pending) <= queue[s].capacity
  BY <1>0, <1>2
<1>4. l \in Lives /\ l.lost = life[s].lost /\ l.since = life[s].since
  <2>1. n \in Nat /\ pending[n] \in Frames
    BY <1>0
  <2>2. t \in Nat
    BY <2>1 DEF Frames
  <2>. HIDE DEF t, n
  <2>4. life[s] \in Lives /\ n \in Nat /\ t \in Nat
    BY <1>0, <2>1, <2>2
  <2>3. Delivered(life[s], n, t) \in Lives /\ Delivered(life[s], n, t).lost = life[s].lost
        /\ Delivered(life[s], n, t).since = life[s].since
    BY <2>4, DeliveredFields
  <2>. QED BY <2>3
<1>5. Attached(s) => Accounted(q, l, Owed(s), tick)
  BY <1>0, AccountedDrain DEF IInv, HandleInv
<1>. HIDE DEF q, l
<1>. QED BY <1>1, <1>2, <1>3, <1>4, <1>5, HandleKeeps

\* unsubscribe keeps it.
LEMMA UnsubscribeKeeps ==
  ASSUME IInv, NEW s \in Subs, Unsubscribe(s)
  PROVE  IInv'
<1> DEFINE q == Shut(queue[s])
<1>0. queue[s] \in Queues /\ life[s] \in Lives /\ queue[s].capacity \in Nat /\ life = [life EXCEPT ![s] = life[s]]
  BY HandleTypes DEF IInv, TypeInv
<1>1. /\ queue' = [queue EXCEPT ![s] = q] /\ life' = [life EXCEPT ![s] = life[s]]
      /\ UNCHANGED <<tick, present, was, call, subscribers, stream, outbox>>
  BY <1>0 DEF Unsubscribe
<1>2. q \in Queues /\ q.capacity = queue[s].capacity /\ q.active = FALSE /\ q.pending = <<>>
  <2>1. queue[s].capacity \in Nat /\ queue[s].dropped \in Nat
    BY <1>0 DEF Queues
  <2>3. <<>> \in Seq(Frames)
    OBVIOUS
  <2>. QED BY <2>1, <2>3 DEF Shut, Queues
<1>3. Len(q.pending) <= queue[s].capacity
  BY <1>0, <1>2
<1>. HIDE DEF q
<1>. QED BY <1>0, <1>1, <1>2, <1>3, HandleKeeps

\* The end of an advance keeps it.
LEMMA EndAdvanceKeeps ==
  ASSUME IInv, EndAdvance
  PROVE  IInv'
<1>0. /\ outbox = Nothing /\ TypeInv /\ call' = NoCall
      /\ UNCHANGED <<tick, present, was, subscribers, stream, outbox, queue, life>>
  BY DEF EndAdvance, IInv
<1>1. TypeInv' /\ OutboxInv' /\ QueueInv' /\ BookInv'
  BY <1>0 DEF TypeInv, OutboxInv, QueueInv, BookInv, Idle, NoCall, IInv
<1>2. HandleInv'
  BY <1>0 DEF HandleInv, Attached, Unborn, Heard, Owed, IInv
<1>3. StreamInv'
  BY <1>0 DEF StreamInv, RowsTellTheTick, Live, IInv
<1>. QED BY <1>1, <1>2, <1>3 DEF IInv

\* Every step keeps the inductive invariant.
LEMMA NextIInv == IInv /\ [Next]_vars => IInv'
<1> SUFFICES ASSUME IInv, [Next]_vars PROVE IInv'
  OBVIOUS
<1>1. ASSUME NEW s \in Subs, NEW c \in Capacities, Subscribe(s, c) PROVE IInv'
  BY <1>1, SubscribeKeeps
<1>2. ASSUME CountSubscribers PROVE IInv'
  BY <1>2, PruneKeeps DEF CountSubscribers
<1>3. ASSUME NEW n \in 1..MaxAdvance, BeginAdvance(n) PROVE IInv'
  BY <1>3, PruneKeeps DEF BeginAdvance
<1>4. ASSUME NEW now \in SUBSET Actors, CommitTick(now) PROVE IInv'
  BY <1>4, CommitTickKeeps
<1>5. ASSUME NEW s \in Subs, Enqueue(s) PROVE IInv'
  BY <1>5, EnqueueKeeps
<1>6. ASSUME EndAdvance PROVE IInv'
  BY <1>6, EndAdvanceKeeps
<1>7. ASSUME NEW t \in 0..MaxTicks, NEW now \in SUBSET Actors, Restore(t, now) PROVE IInv'
  BY <1>7, RestoreKeeps
<1>8. ASSUME NEW s \in Subs, Handle(s) PROVE IInv'
  BY <1>8, ReadKeeps, DrainKeeps, UnsubscribeKeeps DEF Handle
<1>9. CASE UNCHANGED vars
  BY <1>9 DEF vars, IInv, TypeInv, OutboxInv, QueueInv, BookInv, Idle, Live, HandleInv, Attached,
              Unborn, Heard, Owed, StreamInv, RowsTellTheTick
<1>. QED BY <1>1, <1>2, <1>3, <1>4, <1>5, <1>6, <1>7, <1>8, <1>9 DEF Next, World, Publishing

\* The inductive invariant holds in every reachable state.
LEMMA Invariant == Spec => []IInv
BY InitIInv, NextIInv, PTL DEF Spec

\* Ticks, queues and the advance in progress keep their types, and a frame on its
\* way goes to subscriptions alone (publish, prune, subscribe).
THEOREM TypeOKAlways == Spec => []TypeOK
<1>1. IInv => TypeOK
  <2> SUFFICES ASSUME IInv PROVE TypeOK
    OBVIOUS
  <2>1. TypeInv /\ OutboxInv
    BY DEF IInv
  <2>2. tick \in Nat /\ present \subseteq Actors /\ subscribers \subseteq Subs
    BY <2>1 DEF TypeInv
  <2>3. call.left \in Nat /\ call.book \in BOOLEAN
    BY <2>1 DEF TypeInv
  <2>4. outbox.to \subseteq subscribers
    BY <2>1 DEF OutboxInv, Nothing
  <2>5. ASSUME NEW s \in Subs
        PROVE  queue[s].dropped \in Nat /\ queue[s].active \in BOOLEAN /\ queue[s].capacity \in Nat
    BY <2>1 DEF TypeInv, Queues
  <2>. QED BY <2>2, <2>3, <2>4, <2>5 DEF TypeOK
<1>. QED BY <1>1, Invariant, PTL

\* No queue outgrows its capacity, whatever its consumer does (publish drops the
\* oldest frame of a full queue, under that queue's lock).
THEOREM BoundedAlways == Spec => []Bounded
<1>1. IInv => Bounded
  BY DEF IInv, QueueInv, Bounded
<1>. QED BY <1>1, Invariant, PTL

\* Every tick committed since a handle subscribed was delivered to it, waits in
\* its queue or is counted as dropped (publish, read, drain_into).
THEOREM EveryTickAccountedAlways == Spec => []EveryTickAccounted
<1>1. IInv => EveryTickAccounted
  BY DEF IInv, HandleInv, Accounted, EveryTickAccounted
<1>. QED BY <1>1, Invariant, PTL

\* A queue holds the newest ticks published, without a gap, after all that was
\* delivered (publish's single pass over the subscriptions, read, drain_into).
THEOREM NewestInOrderAlways == Spec => []NewestInOrder
<1>1. IInv => NewestInOrder
  <2> SUFFICES ASSUME IInv, NEW s \in Subs, Attached(s)
               PROVE  LET pending == queue[s].pending
                      IN  /\ \A k \in DOMAIN pending :
                               pending[k].tick = tick - Owed(s) - (Len(pending) - k)
                          /\ pending # <<>> => life[s].last < Head(pending).tick
    BY DEF NewestInOrder
  <2> DEFINE pending == queue[s].pending
  <2>1. Accounted(queue[s], life[s], Owed(s), tick) /\ TypeInv
    BY DEF IInv, HandleInv
  <2>2. /\ pending \in Seq(Frames) /\ DOMAIN pending = 1..Len(pending)
        /\ tick \in Nat /\ Owed(s) \in Nat /\ life[s].last \in Nat
    BY <2>1, HandleTypes
  <2>3. \A k \in DOMAIN pending : pending[k].tick = tick - Owed(s) - (Len(pending) - k)
    BY <2>1, <2>2 DEF Accounted
  <2>4. ASSUME pending # <<>> PROVE life[s].last < Head(pending).tick
    <3>1. PICK len \in Nat, o \in Nat, la \in Nat, tk \in Nat :
            Len(pending) = len /\ Owed(s) = o /\ life[s].last = la /\ tick = tk
      BY <2>2
    <3>2. Head(pending) = pending[1] /\ len >= 1
      BY <2>2, <2>4, <3>1
    <3>3. pending[1].tick = tk - o - (len - 1) /\ la <= tk - o - len
      BY <2>1, <3>1, <3>2 DEF Accounted
    <3>4. la < tk - o - (len - 1)
      BY <3>3
    <3>. QED BY <3>1, <3>2, <3>3, <3>4
  <2>. QED BY <2>3, <2>4
<1>. QED BY <1>1, Invariant, PTL

\* The rows of a frame tell what happened to the world since the tick before,
\* even after the stream had no listener (subscribe's reset, SceneStateStream).
THEOREM RowsTellTheTickAlways == Spec => []RowsTellTheTick
<1>1. IInv => RowsTellTheTick
  BY DEF IInv, StreamInv
<1>. QED BY <1>1, Invariant, PTL
=============================================================================
