---------------------------- MODULE WorldSession ----------------------------
(***************************************************************************)
(* The command-driven world of native/crates/simforge-session/src/world.rs *)
(* over the fixed-step engine of simforge-core/src/engine.                 *)
(*                                                                         *)
(* A world is a pure function of its base input and of the ordered log of  *)
(* commands and advances.  In clip mode a structural command rebuilds the  *)
(* engine from the new input and catches up to the current tick; in live   *)
(* mode it mutates the running engine.  Both are modelled here, with the   *)
(* catch-up and the advance taken one engine tick at a time (job), and the *)
(* checkpoint that copies the whole continuation state.                    *)
(*                                                                         *)
(* Abstractions.  Time is a tick number, the warm-up is the t = 0 tick     *)
(* alone.  The motion model keeps what the session can observe of it: a    *)
(* body is in a cell of one lane, a driver moves one cell per tick unless  *)
(* a present body is ahead of it, an override replaces the driver, a       *)
(* crashed or parked body stays.  The digest is the sequence of frames it  *)
(* chains (the hash is injective here).  Spawn and despawn events are kept;*)
(* the engine's other events are not.                                      *)
(***************************************************************************)
EXTENDS Integers, Sequences, FiniteSets, SequencesExt

\* A definition whose comment starts with "Fault:" is not part of the model:
\* PROJECT.json names it as the mutated form of the definition that follows it.

CONSTANTS
  Actors,       \* every actor id that may ever exist
  BaseCell,     \* the base input: its actors and the cell each starts in
  StartPresent, \* the base actors with presentAtStart
  Drivers,      \* actors that drive; the others hold position
  Static,       \* is_static actors: they never crash
  Script,       \* the base input's own exist interactions, in id order
  ScriptBefore, \* how many of their ids sort before the session's "ws:exist:"
  AutoIds,      \* AutoIds[n] is the id the session allocates for counter n
  Mode,         \* "clip" or "live"
  ClipTicks,    \* the horizon of clip mode, in ticks
  SpawnCells,   \* the cells a spawn may ask for
  OffRoad,      \* those with no drivable lane in reach: placement fails
  ActIds,       \* the ids a client may address with act
  NamedIds,     \* the explicit ids a client may give a spawn
  MaxBatch,     \* bound: ops in a batch
  MaxAdvance,   \* bound: ticks of one advance
  MaxTicks,     \* bound: ticks requested in all
  MaxEntries,   \* bound: log entries
  Checkpoints   \* TRUE when the run takes checkpoints

ASSUME WorldAssumption ==
  /\ DOMAIN BaseCell \subseteq Actors
  /\ BaseCell \in [DOMAIN BaseCell -> Int]
  /\ StartPresent \subseteq DOMAIN BaseCell
  /\ Script \in Seq([actor: DOMAIN BaseCell, at: Nat, state: BOOLEAN])
  /\ ScriptBefore \in 0..Len(Script)
  /\ AutoIds \in Seq(Actors) /\ \A i, j \in DOMAIN AutoIds : AutoIds[i] = AutoIds[j] => i = j
  /\ Mode \in {"clip", "live"}
  /\ ClipTicks \in Nat \ {0}
  /\ SpawnCells \subseteq Int
  /\ NamedIds \subseteq Actors
  /\ MaxBatch \in Nat
  /\ MaxAdvance \in Nat /\ MaxTicks \in Nat /\ MaxEntries \in Nat
  /\ Checkpoints \in BOOLEAN

VARIABLES
  sim,            \* the engine
  input,          \* the canonical input: base plus committed structural ops
  tick_count,     \* ticks requested past t = 0
  actor_counter, exist_counter,
  timeline,       \* append-only action epochs
  pending_events, \* spawn and despawn events kept from a rebuild
  entries,        \* the session log
  digest,         \* the frames chained into the digest so far
  job,            \* the call in progress: none, an advance, a clip rebuild
  saved,          \* the last checkpoint, NoCheckpoint before the first
  client          \* history: the presence a client derives from the events

session == <<sim, input, tick_count, actor_counter, exist_counter, timeline,
             pending_events, entries, digest>>
vars == <<sim, input, tick_count, actor_counter, exist_counter, timeline,
          pending_events, entries, digest, job, saved, client>>

None == "none"          \* Option::None: no override, no explicit id
Idle == [kind |-> "idle"]
NoCheckpoint == [none |-> TRUE]

-----------------------------------------------------------------------------
(* The engine.                                                             *)

\* Simulation::new: nothing consumed yet, every present_at_start actor placed.
NewSim(inp) ==
  [tick |-> -1, actors |-> inp.actors, cell |-> inp.cell,
   present |-> StartPresent, crashed |-> {}, exists |-> inp.exists,
   settled |-> {}, events |-> <<>>, done |-> FALSE]

\* detect_collisions: a present body that shares its cell with another one.
Collides(s, a) == \E b \in s.present \ {a} : s.cell[b] = s.cell[a]

\* Every non-static body in contact is latched as crashed, for good.
CrashedNow(s) == s.crashed \cup {a \in s.present \ Static : Collides(s, a)}

\* The At triggers that come due at tick i.
DueAt(s, i) == {k \in DOMAIN s.exists : k \notin s.settled /\ s.exists[k].at <= i}

\* Verb::Exist: presence for the next plan to adopt, with an event when it
\* differs from the presence already pending.
ApplyExist(st, x, i) ==
  IF (x.actor \in st.pending) = x.state
  THEN st
  ELSE [pending |-> IF x.state THEN st.pending \cup {x.actor} ELSE st.pending \ {x.actor},
        events  |-> Append(st.events, [kind |-> IF x.state THEN "spawn" ELSE "despawn",
                                       actor |-> x.actor, at |-> i])]

\* One due interaction; a crashed actor's is skipped.
Fire(s, i, crashed, st, k) ==
  IF k \notin DueAt(s, i) \/ s.exists[k].actor \in crashed THEN st
  ELSE ApplyExist(st, s.exists[k], i)

\* The n exist interactions of an input in id order (normalized), by their place in
\* `exists`, which keeps the script and then what the session has added: the session's
\* ids, numbered with leading zeros, come between two of the script's.
IdOrder(n) ==
  LET after == Len(Script) - ScriptBefore
  IN  [k \in 1..n |-> IF k <= ScriptBefore THEN k
                      ELSE IF k <= n - after THEN k + after ELSE k - (n - Len(Script))]

\* Fault: the session's interactions fire after the script's, as they were added.
VerdictsAsAdded(s, i, crashed) ==
  LET Step(st, k) == Fire(s, i, crashed, st, k)
  IN  FoldLeftDomain(Step, [pending |-> s.present, events |-> s.events], s.exists)

\* evaluate_triggers over the due exist interactions, in interaction id order.
\* Fired or skipped, a due interaction is settled.
ExistVerdicts(s, i, crashed) ==
  LET Step(st, k) == Fire(s, i, crashed, st, k)
  IN  FoldLeft(Step, [pending |-> s.present, events |-> s.events], IdOrder(Len(s.exists)))

\* The leader a driver keeps its distance from: a present body in the next cell.
Blocked(s, present, a) == \E b \in present : s.cell[b] = s.cell[a] + 1

\* plan_actor: who moves in the step that starts now.
Moves(s, present, crashed, acts, a) ==
  /\ a \in present \ (crashed \cup Static)
  /\ \/ acts[a] = "drive"
     \/ acts[a] = None /\ a \in Drivers /\ ~Blocked(s, present, a)

\* apply_all: the step of every body that moves.
Stepped(s, present, crashed, acts) ==
  [a \in Actors |-> IF Moves(s, present, crashed, acts, a) THEN s.cell[a] + 1 ELSE s.cell[a]]

\* One iteration of advance_inner.  The last tick of a clip is recorded but
\* not planned (plan_all): what its triggers asked for is never adopted.
EngineTick(s, acts) ==
  LET i       == s.tick + 1
      last    == Mode = "clip" /\ i = ClipTicks
      crashed == CrashedNow(s)
      verdict == ExistVerdicts(s, i, crashed)
  IN  [tick    |-> i,
       done    |-> last,
       actors  |-> s.actors,
       exists  |-> s.exists,
       crashed |-> crashed,
       settled |-> s.settled \cup DueAt(s, i),
       events  |-> verdict.events,
       present |-> IF last THEN s.present ELSE verdict.pending,
       cell    |-> IF last THEN s.cell ELSE Stepped(s, verdict.pending, crashed, acts)]

NoActs == [a \in Actors |-> None]

\* consume_warmup leaves the engine at t = 0.
Parked0(inp) == EngineTick(NewSim(inp), NoActs)

\* TickObservation: the rows of the frame that is hashed.
Frame(s) == [tick |-> s.tick, actors |-> s.actors, present |-> s.present,
             cell |-> [a \in s.actors |-> s.cell[a]]]

-----------------------------------------------------------------------------
(* The action timeline.                                                    *)

EpochsOf(line, a) == {k \in DOMAIN line : line[k].actor = a}

\* actions_at: per actor of the engine, the latest epoch at or before now.
ActionsAt(line, now, actors) ==
  [a \in Actors |->
     LET past == {k \in EpochsOf(line, a) : line[k].from <= now}
     IN  IF a \notin actors \/ past = {} THEN None ELSE line[Max(past)].action]

\* Fault: the catch-up holds its first action set.
NoBoundaries(line, ticks) == {}

\* replay_timeline switches the action set at these ticks of the catch-up.
Boundaries(line, ticks) == {line[k].from : k \in DOMAIN line} \cap 1..(ticks - 1)

-----------------------------------------------------------------------------
(* Structural commands: resolve every op against one candidate.            *)

SpawnOp(id, cell) == [op |-> "spawn", id |-> id, cell |-> cell]
DespawnOp(id) == [op |-> "despawn", id |-> id, cell |-> 0]

\* What resolve reads of the world (self): the engine, the input, the counters.
World == [sim |-> sim, input |-> input, actor_counter |-> actor_counter,
          exist_counter |-> exist_counter]

Unresolved(w) ==
  [ok |-> TRUE, counter |-> w.actor_counter, exist |-> w.exist_counter,
   spawned |-> <<>>, despawned |-> {}, cell |-> w.input.cell, exists |-> w.input.exists]

\* Fault: the id of an actor that left may be given again.
PresentIds(w, r) == w.sim.present \cup Range(r.spawned)

\* used_ids: every actor of the input, despawned ones too, and the batch's own.
UsedIds(w, r) == w.input.actors \cup Range(r.spawned)

\* The first free ws:NNNN above the counter; 0 when the model has no more.
NextAuto(w, r) ==
  LET free == {n \in DOMAIN AutoIds : n > r.counter /\ AutoIds[n] \notin UsedIds(w, r)}
  IN  IF free = {} THEN 0 ELSE CHOOSE n \in free : \A m \in free : n <= m

ExistRecord(w, id, state) == [actor |-> id, at |-> w.sim.tick, state |-> state]

\* obb_overlap with the present actors (at their current pose) and with the
\* batch's own spawns, less what the batch already removed.
Overlaps(w, r, cell) ==
  \/ \E b \in w.sim.present \ r.despawned : w.sim.cell[b] = cell
  \/ \E b \in Range(r.spawned) \ r.despawned : r.cell[b] = cell

\* resolve_spawn_placement: no drivable lane in reach.
Misplaced(op) == op.cell \in OffRoad

ResolveSpawn(w, r, op) ==
  LET n  == NextAuto(w, r)
      id == IF op.id = None THEN AutoIds[n] ELSE op.id
  IN  IF \/ op.id # None /\ op.id \in UsedIds(w, r)
         \/ Misplaced(op)
         \/ Overlaps(w, r, op.cell)
      THEN [r EXCEPT !.ok = FALSE]
      ELSE [r EXCEPT !.counter = IF op.id = None THEN n ELSE @,
                     !.exist   = @ + 1,
                     !.spawned = Append(@, id),
                     !.cell    = [@ EXCEPT ![id] = op.cell],
                     !.exists  = Append(@, ExistRecord(w, id, TRUE))]

ResolveDespawn(w, r, op) ==
  IF op.id \in (w.sim.present \cup Range(r.spawned)) \ r.despawned
  THEN [r EXCEPT !.exist     = @ + 1,
                 !.despawned = @ \cup {op.id},
                 !.exists    = Append(@, ExistRecord(w, op.id, FALSE))]
  ELSE [r EXCEPT !.ok = FALSE]

\* One op against what the batch has resolved; after a rejection, none.
ResolveOp(w, r, op) ==
  IF ~r.ok THEN r
  ELSE IF op.op = "spawn" THEN ResolveSpawn(w, r, op) ELSE ResolveDespawn(w, r, op)

\* The ops in order; the first rejection rejects the batch.
Resolve(w, ops) ==
  LET Step(r, op) == ResolveOp(w, r, op)
  IN  IF ops = <<>> THEN [Unresolved(w) EXCEPT !.ok = FALSE]
      ELSE FoldLeft(Step, Unresolved(w), ops)

\* The candidate.  normalized sorts its interactions by id: see IdOrder.
Candidate(w, r) == [actors |-> w.input.actors \cup Range(r.spawned), cell |-> r.cell, exists |-> r.exists]

\* Fault: the spawns of a batch are reported after its despawns.
LiveEventsSorted(w, ops, r) ==
  LET gone == SelectSeq(ops, LAMBDA op : op.op = "despawn")
  IN  w.sim.events
        \o [k \in DOMAIN gone |-> [kind |-> "despawn", actor |-> gone[k].id, at |-> w.sim.tick]]
        \o [k \in DOMAIN r.spawned |-> [kind |-> "spawn", actor |-> r.spawned[k], at |-> w.sim.tick]]

\* Live commit: add_actor and set_actor_presence, op by op, each with its event.
LiveEvents(w, ops, r) ==
  LET Change(kind, a) == [kind |-> kind, actor |-> a, at |-> w.sim.tick]
      nth(k) == Cardinality({j \in 1..k : ops[j].op = "spawn"})
  IN  w.sim.events
        \o [k \in DOMAIN ops |-> IF ops[k].op = "spawn" THEN Change("spawn", r.spawned[nth(k)])
                                 ELSE Change("despawn", ops[k].id)]

\* The running engine after a live commit.
LiveSim(w, ops, r) ==
  [w.sim EXCEPT !.actors  = @ \cup Range(r.spawned),
                !.present = (@ \cup Range(r.spawned)) \ r.despawned,
                !.cell    = [a \in Actors |-> IF a \in Range(r.spawned) THEN r.cell[a] ELSE @[a]],
                !.events  = LiveEvents(w, ops, r)]

-----------------------------------------------------------------------------
(* The session.                                                            *)

Init ==
  /\ input = [actors |-> DOMAIN BaseCell,
              cell |-> [a \in Actors |-> IF a \in DOMAIN BaseCell THEN BaseCell[a] ELSE 0],
              exists |-> Script]
  /\ sim = Parked0(input)
  /\ tick_count = 0 /\ actor_counter = 0 /\ exist_counter = 0
  /\ timeline = <<>> /\ pending_events = <<>> /\ entries = <<>> /\ digest = <<>>
  /\ job = Idle
  /\ saved = NoCheckpoint
  /\ client = sim.present

CommandEntry(cmd, ok, ids) == [kind |-> "command", cmd |-> cmd, ok |-> ok, ids |-> ids]
AdvanceEntry(ticks) == [kind |-> "advance", ticks |-> ticks]
ActCommand(a, action) == [kind |-> "act", actor |-> a, action |-> action]
StructuralCommand(ops) == [kind |-> "structural", ops |-> ops]

Log(cmd, ok, ids) == entries' = Append(entries, CommandEntry(cmd, ok, ids))

Ready == job = Idle /\ Len(entries) < MaxEntries

\* apply_act: an epoch that repeats the standing action is accepted and dropped.
Act(a, action) ==
  LET known    == a \in input.actors
      standing == /\ EpochsOf(timeline, a) # {}
                  /\ timeline[Max(EpochsOf(timeline, a))].action = action
  IN  /\ Ready
      /\ Log(ActCommand(a, action), known, <<>>)
      /\ timeline' = IF known /\ ~standing
                     THEN Append(timeline, [from |-> sim.tick, actor |-> a, action |-> action])
                     ELSE timeline
      /\ UNCHANGED <<sim, input, tick_count, actor_counter, exist_counter,
                     pending_events, digest, job, saved, client>>

\* The model's ids for generated actors are not exhausted by these ops.
AutoIdsLeft(ops) ==
  Cardinality({n \in DOMAIN AutoIds : n > actor_counter /\ AutoIds[n] \notin input.actors})
    >= Cardinality({k \in DOMAIN ops : ops[k].op = "spawn"})

StructuralReady(ops) == Ready /\ AutoIdsLeft(ops)

\* Fault: a rejected spawn has consumed its number.
RejectConsumes(ops) ==
  /\ StructuralReady(ops)
  /\ ~Resolve(World, ops).ok
  /\ Log(StructuralCommand(ops), FALSE, <<>>)
  /\ actor_counter' = actor_counter + 1
  /\ UNCHANGED <<sim, input, tick_count, exist_counter, timeline,
                 pending_events, digest, job, saved, client>>

\* Any rejection leaves the world untouched; only the log records it.
RejectStructural(ops) ==
  /\ StructuralReady(ops)
  /\ ~Resolve(World, ops).ok
  /\ Log(StructuralCommand(ops), FALSE, <<>>)
  /\ UNCHANGED <<sim, input, tick_count, actor_counter, exist_counter, timeline,
                 pending_events, digest, job, saved, client>>

\* The tail of a committed structural command.
Commit(ops, r) ==
  /\ input' = Candidate(World, r)
  /\ actor_counter' = r.counter
  /\ exist_counter' = r.exist
  /\ Log(StructuralCommand(ops), TRUE, r.spawned)
  /\ UNCHANGED <<tick_count, timeline, digest, saved, client>>

CommitLive(ops) ==
  LET r == Resolve(World, ops)
  IN  /\ StructuralReady(ops) /\ Mode = "live" /\ r.ok
      /\ sim' = LiveSim(World, ops, r)
      /\ Commit(ops, r)
      /\ UNCHANGED <<pending_events, job>>

\* rebuild: a new engine on the candidate, at t = 0, with the first action set
\* of replay_timeline.
BeginRebuild(ops) ==
  LET r    == Resolve(World, ops)
      cand == Parked0(Candidate(World, r))
  IN  /\ StructuralReady(ops) /\ Mode = "clip" /\ r.ok
      /\ job' = [kind |-> "rebuild", ops |-> ops, cand |-> cand, done |-> 0,
                 acts |-> ActionsAt(timeline, 0, cand.actors)]
      /\ UNCHANGED <<session, saved, client>>

\* Fault: the catch-up hashes the frames it passes.
CatchUpHashes ==
  /\ job.kind = "rebuild"
  /\ job.done < tick_count
  /\ LET next == IF job.cand.done THEN job.cand ELSE EngineTick(job.cand, job.acts)
     IN  /\ job' = [job EXCEPT !.cand = next, !.done = @ + 1]
         /\ digest' = Append(digest, Frame(next))
  /\ UNCHANGED <<sim, input, tick_count, actor_counter, exist_counter, timeline,
                 pending_events, entries, saved, client>>

\* One catch-up tick; the action set is read again at every epoch boundary.
\* Frames are not hashed and not published.
CatchUp ==
  /\ job.kind = "rebuild"
  /\ job.done < tick_count
  /\ LET next == IF job.cand.done THEN job.cand ELSE EngineTick(job.cand, job.acts)
         done == job.done + 1
     IN  job' = [job EXCEPT
                   !.cand = next,
                   !.done = done,
                   !.acts = IF done \in Boundaries(timeline, tick_count)
                            THEN ActionsAt(timeline, next.tick, next.actors) ELSE @]
  /\ UNCHANGED <<session, saved, client>>

\* Fault: an event of the boundary tick itself is taken for replayed history.
KeptAfter(now, e, touched) == e.at > now /\ e.actor \in touched

\* The events of the catch-up that the next advance reports.
Kept(now, e, touched) == e.at >= now /\ e.actor \in touched

\* drain_events_into, and of that what is kept.
KeptEvents(now, events, touched) ==
  LET Keep(kept, e) == IF Kept(now, e, touched) THEN Append(kept, e) ELSE kept
  IN  FoldLeft(Keep, <<>>, events)

\* Caught up: drain the new engine's events, keep the boundary's presence
\* events of the touched actors, swap engine and input.
CommitClip ==
  /\ job.kind = "rebuild"
  /\ job.done = tick_count
  /\ LET r       == Resolve(World, job.ops)
         touched == Range(r.spawned) \cup r.despawned
     IN  /\ pending_events' = pending_events \o KeptEvents(sim.tick, job.cand.events, touched)
         /\ sim' = [job.cand EXCEPT !.events = <<>>]
         /\ Commit(job.ops, r)
  /\ job' = Idle

\* advance: the action set is fixed for the whole call.
BeginAdvance(ticks) ==
  /\ Ready
  /\ tick_count + ticks <= MaxTicks
  /\ job' = [kind |-> "advance", ticks |-> ticks, left |-> ticks,
             acts |-> ActionsAt(timeline, sim.tick, sim.actors)]
  /\ UNCHANGED <<session, saved, client>>

\* One tick of the call: step the engine, chain the frame into the digest.
AdvanceTick ==
  /\ job.kind = "advance"
  /\ job.left > 0 /\ ~sim.done
  /\ sim' = EngineTick(sim, job.acts)
  /\ digest' = Append(digest, Frame(sim'))
  /\ job' = [job EXCEPT !.left = @ - 1]
  /\ UNCHANGED <<input, tick_count, actor_counter, exist_counter, timeline,
                 pending_events, entries, saved, client>>

\* What a client makes of the reported events: the last one of an actor counts.
Told(known, events) ==
  LET of(a) == {k \in DOMAIN events : events[k].actor = a}
  IN  {a \in known \cup {events[k].actor : k \in DOMAIN events} :
         IF of(a) = {} THEN a \in known ELSE events[Max(of(a))].kind = "spawn"}

\* The call returns: every requested tick is counted, whether or not the clip
\* ended first, and the pending and drained events are reported.
EndAdvance ==
  /\ job.kind = "advance"
  /\ job.left = 0 \/ sim.done
  /\ tick_count' = tick_count + job.ticks
  /\ client' = Told(client, pending_events \o sim.events)
  /\ pending_events' = <<>>
  /\ sim' = [sim EXCEPT !.events = <<>>]
  /\ entries' = Append(entries, AdvanceEntry(job.ticks))
  /\ job' = Idle
  /\ UNCHANGED <<input, actor_counter, exist_counter, timeline, digest, saved>>

\* checkpoint copies the whole continuation state.
Checkpoint ==
  /\ Checkpoints /\ job = Idle /\ saved = NoCheckpoint
  /\ saved' = [none |-> FALSE, state |-> session, client |-> client]
  /\ UNCHANGED <<session, job, client>>

\* Fault: the action timeline is not carried over.
ResumeReleased(st) ==
  /\ sim' = st[1] /\ input' = st[2] /\ tick_count' = st[3]
  /\ actor_counter' = st[4] /\ exist_counter' = st[5] /\ timeline' = <<>>
  /\ pending_events' = st[7] /\ entries' = st[8] /\ digest' = st[9]

\* Fault: the base input is resumed, without the structural edits.
ResumeBase(st) ==
  /\ sim' = st[1] /\ tick_count' = st[3]
  /\ input' = [actors |-> DOMAIN BaseCell, cell |-> st[2].cell, exists |-> Script]
  /\ actor_counter' = st[4] /\ exist_counter' = st[5] /\ timeline' = st[6]
  /\ pending_events' = st[7] /\ entries' = st[8] /\ digest' = st[9]

\* Fault: the log begins with the restored world.
ResumeUnlogged(st) ==
  /\ sim' = st[1] /\ input' = st[2] /\ tick_count' = st[3]
  /\ actor_counter' = st[4] /\ exist_counter' = st[5] /\ timeline' = st[6]
  /\ pending_events' = st[7] /\ entries' = <<>> /\ digest' = st[9]

\* The state a restored world starts from: all that checkpoint copied.
Resume(st) ==
  /\ sim' = st[1] /\ input' = st[2] /\ tick_count' = st[3]
  /\ actor_counter' = st[4] /\ exist_counter' = st[5] /\ timeline' = st[6]
  /\ pending_events' = st[7] /\ entries' = st[8] /\ digest' = st[9]

\* restore resumes in a fresh process.
Restore ==
  /\ Checkpoints /\ job = Idle /\ saved # NoCheckpoint
  /\ Resume(saved.state)
  /\ client' = saved.client
  /\ saved' = NoCheckpoint
  /\ UNCHANGED job

Ops == {SpawnOp(id, c) : id \in NamedIds \cup {None}, c \in SpawnCells}
         \cup {DespawnOp(a) : a \in Actors}
Batches == UNION {[1..n -> Ops] : n \in 0..MaxBatch}

Command ==
  \/ \E a \in ActIds, action \in {"hold", "drive", None} : Act(a, action)
  \/ \E ops \in Batches : RejectStructural(ops) \/ CommitLive(ops) \/ BeginRebuild(ops)

Next ==
  \/ Command
  \/ \E ticks \in 1..MaxAdvance : BeginAdvance(ticks)
  \/ AdvanceTick \/ EndAdvance
  \/ CatchUp \/ CommitClip
  \/ Checkpoint \/ Restore

Spec == Init /\ [][Next]_vars

-----------------------------------------------------------------------------
(* Properties.                                                             *)

AcceptedIds == {k \in DOMAIN entries : entries[k].kind = "command" /\ entries[k].ok}

\* Every engine tick after t = 0 is hashed exactly once and in order, whatever
\* is rebuilt in between, and a rebuild leaves the engine at the tick the
\* digest has reached (advance, rebuild: frames are NOT re-hashed).
HashedOnceInOrder ==
  /\ \A k \in DOMAIN digest : digest[k].tick = k
  /\ sim.tick = Len(digest)

\* The anchor of a commanded exist interaction lies before the last clip tick.
\* (At the last tick the engine no longer plans: a despawn is reported and the
\* actor stays.)
NoTerminalAnchor == Mode = "clip" => \A k \in DOMAIN input.exists : input.exists[k].at < ClipTicks

\* Between calls, the presence a client derives from the events it was given,
\* and from those waiting for the next advance, is the engine's: a rebuild
\* neither loses nor invents a spawn or despawn (rebuild's keep filter,
\* drain_events_into, add_actor, set_actor_presence).
EventsExplainPresence ==
  job = Idle /\ NoTerminalAnchor
    => Told(client, pending_events \o sim.events) = sim.present

\* The id of interaction k of the input sorts before that of l.
IdBefore(k, l) ==
  LET part(m) == IF m <= ScriptBefore THEN 1 ELSE IF m > Len(Script) THEN 2 ELSE 3
  IN  part(k) < part(l) \/ (part(k) = part(l) /\ k < l)

\* Of two interactions anchored at one tick, which acts last: in clip mode, where
\* each rebuild fires them again, the ids decide; the live engine has fired the
\* script's when it executes a command.
ActsAfter(k, l) == IF Mode = "clip" THEN IdBefore(l, k) ELSE l < k

\* The last exist interaction of an actor anchored so far decides whether it is
\* present, in both modes and through every rebuild, unless a crash disabled the
\* actor.  An accepted despawn is in force when the command returns, and stays in
\* force, unless the script, at the same tick and with a later id, shows the actor.
LastExistWins ==
  job = Idle /\ NoTerminalAnchor =>
    \A a \in sim.actors \ sim.crashed :
      LET own == {k \in DOMAIN input.exists :
                    input.exists[k].actor = a /\ input.exists[k].at <= sim.tick}
          Later(k, l) == \/ input.exists[k].at > input.exists[l].at
                         \/ input.exists[k].at = input.exists[l].at /\ (k = l \/ ActsAfter(k, l))
      IN  own # {} =>
            \E k \in own : (\A l \in own : Later(k, l))
                           /\ (a \in sim.present) = input.exists[k].state

\* No id is ever given to two actors: the ids of the accepted spawns are
\* distinct from each other and from the base actors' (used_ids, which keeps
\* despawned actors and reserves what the batch has allocated).
IdsNeverReused ==
  /\ \A k \in AcceptedIds :
       /\ \A i, j \in DOMAIN entries[k].ids : entries[k].ids[i] = entries[k].ids[j] => i = j
       /\ Range(entries[k].ids) \cap DOMAIN BaseCell = {}
  /\ \A k, l \in AcceptedIds :
       Range(entries[k].ids) \cap Range(entries[l].ids) # {} => k = l

\* A rejected batch consumes nothing: every counter value up to the current one
\* names an actor of the input, and there is one exist interaction per accepted op.
CountersOnlyByCommit ==
  /\ \A n \in 1..actor_counter : AutoIds[n] \in input.actors
  /\ input.actors = DOMAIN BaseCell \cup UNION {Range(entries[k].ids) : k \in AcceptedIds}
  /\ Len(input.exists) = Len(Script) + exist_counter

\* While a rebuild catches up, every tick it passes shows the frame that was
\* hashed for that tick, for all the actors that frame knew: the recorded action
\* timeline reproduces the past.  Ticks that anchor a structural command are
\* excepted: there the step is planned again, with the presence after the
\* command.
RebuildReproducesFrames ==
  (job.kind = "rebuild" /\ job.cand.tick \in DOMAIN digest) =>
    LET now == Frame(job.cand)
        was == digest[job.cand.tick]
    IN  (\E k \in DOMAIN job.cand.exists :
           k > Len(Script) /\ job.cand.exists[k].at = job.cand.tick)
        \/ /\ now.present = was.present
           /\ \A a \in was.actors : now.cell[a] = was.cell[a]
=============================================================================
