---------------------------- MODULE TruthStream ----------------------------
(***************************************************************************)
(* Truth subscriptions: TruthSubscription and WorldTruthPublisher of       *)
(* simforge-session/src/world.rs, over SceneStateStream of simforge-core.  *)
(*                                                                         *)
(* One world thread advances and publishes every committed tick; each      *)
(* subscriber's handle may be read or closed from another thread at any    *)
(* time, so publishing takes one queue's lock after the other and the      *)
(* handles' calls fall between them.                                       *)
(*                                                                         *)
(* Abstractions.  The world is the set of actors present at each tick, any *)
(* set at any tick (WorldSession decides which).  A frame keeps its tick   *)
(* and, per actor, the kind of its row and the tick whose velocity its     *)
(* acceleration is the difference from.  The subscriptions are a set: the  *)
(* queues take a frame in any order, where the code goes through its list. *)
(***************************************************************************)
EXTENDS Integers, Sequences, FiniteSets

\* A definition whose comment starts with "Fault:" is not part of the model:
\* PROJECT.json names it as the mutated form of the definition that follows it.

CONSTANTS
  Actors,      \* actors of the world
  Subs,        \* subscription handles, each subscribed at most once
  Capacities,  \* the queue capacities a subscriber asks for
  MaxTicks,    \* bound: ticks in all
  MaxAdvance   \* bound: ticks of one advance

ASSUME TruthAssumption ==
  /\ Capacities \subseteq Nat
  /\ MaxTicks \in Nat /\ MaxAdvance \in Nat

VARIABLES
  tick,        \* ticks committed since the world was created or restored
  present,     \* the actors present at the last of them
  was,         \* history: the actors present one tick before
  call,        \* the advance in progress: ticks left, subscribed at its start
  subscribers, \* the publisher's subscriptions
  stream,      \* SceneStateStream: per actor its presence and velocity sample
  outbox,      \* the frame being published, and the queues still to take it
  queue,       \* each handle's queue
  life         \* history: per handle, since which tick and what was delivered

vars == <<tick, present, was, call, subscribers, stream, outbox, queue, life>>

NoCall == [left |-> 0, book |-> FALSE]
Idle == call = NoCall

Unknown == [present |-> FALSE, at |-> 0]
NewStream == [a \in Actors |-> Unknown]

NoFrame == [tick |-> 0]
Nothing == [frame |-> NoFrame, to |-> {}]

\* A handle before it subscribes, and when it does.
Closed == [capacity |-> 0, pending |-> <<>>, dropped |-> 0, active |-> FALSE]
Opened(capacity) == [capacity |-> capacity, pending |-> <<>>, dropped |-> 0, active |-> TRUE]
Unborn == [since |-> -1, delivered |-> 0, last |-> 0, lost |-> FALSE]
Born(t) == [since |-> t, delivered |-> 0, last |-> 0, lost |-> FALSE]

-----------------------------------------------------------------------------
(* The publisher.                                                          *)

\* prune
Live == {s \in subscribers : queue[s].active}

\* Fault: a stream that nobody listened to is taken up where it stopped.
StreamKept == stream

\* A subscription that finds no other starts the stream afresh.
StreamForNext == IF Live = {} THEN NewStream ELSE stream

\* subscribe, with &mut on the world: between calls.
Subscribe(s, capacity) ==
  /\ Idle
  /\ life[s] = Unborn
  /\ capacity > 0
  /\ subscribers' = Live \cup {s}
  /\ stream' = StreamForNext
  /\ queue' = [queue EXCEPT ![s] = Opened(capacity)]
  /\ life' = [life EXCEPT ![s] = Born(tick)]
  /\ UNCHANGED <<tick, present, was, call, outbox>>

\* truth_subscriber_count
CountSubscribers ==
  /\ Idle
  /\ subscribers' = Live
  /\ UNCHANGED <<tick, present, was, call, stream, outbox, queue, life>>

\* SceneStateStream::frame: the rows of a tick, from the presence before it.
RowKind(a, now) ==
  CASE a \in now /\ stream[a].present     -> "update"
    [] a \in now /\ ~stream[a].present    -> "spawn"
    [] a \notin now /\ stream[a].present  -> "despawn"
    [] OTHER                              -> "none"

FrameAt(t, now) ==
  [tick |-> t,
   rows |-> [a \in Actors |->
               [kind |-> RowKind(a, now),
                from |-> IF RowKind(a, now) = "update" THEN stream[a].at ELSE t]]]

StreamAt(t, now) ==
  [a \in Actors |-> [present |-> a \in now,
                     at |-> IF RowKind(a, now) = "none" THEN stream[a].at ELSE t]]

\* advance reads once, at its start, whether anyone is subscribed.
BeginAdvance(n) ==
  /\ Idle
  /\ tick + n <= MaxTicks
  /\ subscribers' = Live
  /\ call' = [left |-> n, book |-> Live # {}]
  /\ UNCHANGED <<tick, present, was, stream, outbox, queue, life>>

\* One committed tick: publish prunes, composes one frame and starts to hand
\* it out.
CommitTick(now) ==
  /\ call.left > 0 /\ outbox = Nothing
  /\ tick' = tick + 1 /\ present' = now /\ was' = present
  /\ call' = [call EXCEPT !.left = @ - 1]
  /\ IF call.book
     THEN /\ subscribers' = Live
          /\ IF Live = {} THEN UNCHANGED <<stream, outbox>>
             ELSE /\ stream' = StreamAt(tick + 1, now)
                  /\ outbox' = [frame |-> FrameAt(tick + 1, now), to |-> Live]
     ELSE UNCHANGED <<subscribers, stream, outbox>>
  /\ UNCHANGED <<queue, life>>

\* Fault: a full queue refuses the new frame instead of dropping the oldest.
PushNewestDropped(q, frame) ==
  IF ~q.active THEN q
  ELSE IF Len(q.pending) >= q.capacity THEN [q EXCEPT !.dropped = @ + 1]
  ELSE [q EXCEPT !.pending = Append(@, frame)]

\* Fault: a frame is dropped without being counted.
PushUncounted(q, frame) ==
  IF ~q.active THEN q
  ELSE IF Len(q.pending) >= q.capacity THEN [q EXCEPT !.pending = Append(Tail(@), frame)]
  ELSE [q EXCEPT !.pending = Append(@, frame)]

\* Fault: the queue is cut before the new frame, one place too late.
PushOverfull(q, frame) ==
  IF ~q.active THEN q
  ELSE IF Len(q.pending) > q.capacity
  THEN [q EXCEPT !.pending = Append(Tail(@), frame), !.dropped = @ + 1]
  ELSE [q EXCEPT !.pending = Append(@, frame)]

\* A full queue drops its oldest frame; a closed one takes nothing.
Push(q, frame) ==
  IF ~q.active THEN q
  ELSE IF Len(q.pending) >= q.capacity
  THEN [q EXCEPT !.pending = Append(Tail(@), frame), !.dropped = @ + 1]
  ELSE [q EXCEPT !.pending = Append(@, frame)]

\* s has taken its frame.
Taken(s) ==
  LET rest == outbox.to \ {s}
  IN  IF rest = {} THEN Nothing ELSE [frame |-> outbox.frame, to |-> rest]

\* Fault: publishing waits for room in the queue.
EnqueueWaits(s) ==
  /\ s \in outbox.to
  /\ Len(queue[s].pending) < queue[s].capacity
  /\ queue' = [queue EXCEPT ![s] = Push(@, outbox.frame)]
  /\ outbox' = Taken(s)
  /\ UNCHANGED <<tick, present, was, call, subscribers, stream, life>>

\* The next queue takes the frame, under its own lock.
Enqueue(s) ==
  /\ s \in outbox.to
  /\ queue' = [queue EXCEPT ![s] = Push(@, outbox.frame)]
  /\ outbox' = Taken(s)
  /\ UNCHANGED <<tick, present, was, call, subscribers, stream, life>>

EndAdvance ==
  /\ ~Idle /\ call.left = 0 /\ outbox = Nothing
  /\ call' = NoCall
  /\ UNCHANGED <<tick, present, was, subscribers, stream, outbox, queue, life>>

\* restore: a new world, earlier or later, with a publisher of its own.  The
\* old handles stay open and hear nothing more.
Restore(t, now) ==
  /\ Idle
  /\ tick' = t /\ present' = now /\ was' = now
  /\ subscribers' = {}
  /\ stream' = NewStream
  /\ life' = [s \in Subs |-> IF life[s] = Unborn THEN Unborn ELSE [life[s] EXCEPT !.lost = TRUE]]
  /\ UNCHANGED <<call, outbox, queue>>

-----------------------------------------------------------------------------
(* The handles.                                                            *)

\* n frames are handed over, the last of them of tick t.
Delivered(l, n, t) ==
  [since |-> l.since, delivered |-> l.delivered + n, last |-> t, lost |-> l.lost]

Read(s) ==
  LET pending == queue[s].pending
  IN  /\ pending # <<>>
      /\ queue' = [queue EXCEPT ![s] = [@ EXCEPT !.pending = Tail(pending)]]
      /\ life' = [life EXCEPT ![s] = Delivered(@, 1, Head(pending).tick)]
      /\ UNCHANGED <<tick, present, was, call, subscribers, stream, outbox>>

DrainInto(s) ==
  LET pending == queue[s].pending
  IN  /\ pending # <<>>
      /\ queue' = [queue EXCEPT ![s] = [@ EXCEPT !.pending = <<>>]]
      /\ life' = [life EXCEPT ![s] = Delivered(@, Len(pending), pending[Len(pending)].tick)]
      /\ UNCHANGED <<tick, present, was, call, subscribers, stream, outbox>>

\* unsubscribe: what is queued is discarded.
Shut(q) == [capacity |-> q.capacity, pending |-> <<>>, dropped |-> q.dropped, active |-> FALSE]

Unsubscribe(s) ==
  /\ life[s] # Unborn
  /\ queue[s].active
  /\ queue' = [queue EXCEPT ![s] = Shut(@)]
  /\ UNCHANGED <<tick, present, was, call, subscribers, stream, outbox, life>>

Init ==
  /\ tick = 0
  /\ present \in SUBSET Actors /\ was = present
  /\ call = NoCall
  /\ subscribers = {} /\ stream = NewStream /\ outbox = Nothing
  /\ queue = [s \in Subs |-> Closed]
  /\ life = [s \in Subs |-> Unborn]

\* The body of an advance.
Publishing ==
  \/ \E now \in SUBSET Actors : CommitTick(now)
  \/ \E s \in Subs : Enqueue(s)
  \/ EndAdvance

World ==
  \/ \E s \in Subs, c \in Capacities : Subscribe(s, c)
  \/ CountSubscribers
  \/ \E n \in 1..MaxAdvance : BeginAdvance(n)
  \/ Publishing
  \/ \E t \in 0..MaxTicks, now \in SUBSET Actors : Restore(t, now)

Handle(s) == Read(s) \/ DrainInto(s) \/ Unsubscribe(s)

Next == World \/ \E s \in Subs : Handle(s)

Spec == Init /\ [][Next]_vars

\* The world's thread runs; what the handles do, and whether they do anything,
\* is the consumers' affair.
FairSpec == Spec /\ WF_vars(Publishing)

-----------------------------------------------------------------------------
(* Properties.                                                             *)

\* The types of the queues and of what the publisher holds.
TypeOK ==
  /\ tick \in Nat /\ present \subseteq Actors
  /\ call.left \in Nat /\ call.book \in BOOLEAN
  /\ outbox.to \subseteq subscribers /\ subscribers \subseteq Subs
  /\ \A s \in Subs : /\ queue[s].dropped \in Nat /\ queue[s].active \in BOOLEAN
                     /\ queue[s].capacity \in Nat

\* Frames still on their way to s: the one being handed out, if s is in line.
Owed(s) == IF s \in outbox.to THEN 1 ELSE 0

Attached(s) == life[s] # Unborn /\ ~life[s].lost /\ queue[s].active

\* No queue outgrows its capacity, whatever its consumer does.
Bounded == \A s \in Subs : Len(queue[s].pending) <= queue[s].capacity

\* Every tick committed since a handle subscribed was delivered to it, waits in
\* its queue, or is counted as dropped ("except for explicitly accounted drops").
EveryTickAccounted ==
  \A s \in Subs : Attached(s) =>
    life[s].delivered + Len(queue[s].pending) + queue[s].dropped + Owed(s)
      = tick - life[s].since

\* A queue holds the newest ticks published, without a gap, after all that was
\* delivered: a consumer reads ticks in increasing order, and what it misses is
\* older than what it can still read.
NewestInOrder ==
  \A s \in Subs : Attached(s) =>
    LET pending == queue[s].pending
    IN  /\ \A k \in DOMAIN pending :
             pending[k].tick = tick - Owed(s) - (Len(pending) - k)
        /\ pending # <<>> => life[s].last < Head(pending).tick

\* The rows of a frame tell what happened to the world since the tick before:
\* an update is of an actor present at both, and its acceleration is a
\* difference over exactly one tick, even after the stream had no listener.
RowsTellTheTick ==
  outbox # Nothing =>
    \A a \in Actors :
      LET row == outbox.frame.rows[a]
      IN  /\ row.kind \in {"update", "spawn"} <=> a \in present
          /\ row.kind \in {"update", "despawn"} => a \in was
          /\ row.kind = "update" => row.from = tick - 1

\* No consumer can hold the world up: an advance that began ends though no
\* handle is ever read ("a slow consumer can never stall world advancement").
AdvanceEnds == ~Idle ~> Idle

=============================================================================
