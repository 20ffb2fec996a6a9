# SimForge: a TLA+ verification of its sessions, streams, render service and saved logins

SimForge is a Rust code base: a deterministic fixed-step driving simulator (`simforge-core`), a session layer that
lets clients drive it by commands (`simforge-session`), a template compiler and an authoring library, a scenario package
format, a CLI, a renderer service, and Python adapters around all of it. This directory holds TLA+ models of the parts
that keep state over time, are used by several actors, or are resumed and replayed; the TLC runs that check them on small
instances; and proofs, checked by TLAPS, of what matters most for every instance.

Paths below are relative to the repository; `session world.rs` is
`native/crates/simforge-session/src/world.rs`, `renderer/` is `renderer/service/` and `renderer/render-core/`, `env_serve/`
is `native/crates/simforge-cli/src/env_serve/`, `engine/` is `native/crates/simforge-core/src/engine/`, `auth/` is
`native/crates/simforge-cli/src/auth/`.

## The system

| Part | State | Operations | Uses | What is hard |
|---|---|---|---|---|
| World session (`session world.rs`) | engine, canonical input, tick count, two id counters, action timeline, events kept from a rebuild, log, digest | `apply_command` (act, driver command, spawn, despawn, batch), `advance`, `checkpoint`, `restore`, `export_log` | the engine; truth publisher | a clip rebuild re-runs the past; events, ids and digest must come out as if it had not; a restored process must continue the same log |
| Log replay (same file) | a second session | `replay_world_session_log` | world session | every outcome and the digest must come out again |
| Truth subscriptions (same file; `trace/scene_state.rs`) | per handle a bounded queue behind a mutex; one velocity history | subscribe, publish, read, drain, unsubscribe | called by `advance`; handles live in other threads | slow, closing and late consumers; frames lost without being counted; rows differenced over a gap |
| Fixed-step engine (`engine/world.rs`, `motion.rs`) | actors, signals, doors, gears, recorder | `advance`, `add_actor`, `set_actor_presence`, plan, apply, checkpoint | interactions, physics, lane graph | order of the phases of one tick; crash latch; what acts over which step |
| Interactions of the engine (`engine/interactions.rs`, `triggers.rs`) | trigger progress; per actor the command in charge of an axis and the until clauses | completions, window ends, triggers, until clauses, release, pre-emption, the end of the clip | called by the tick loop; conditions read the whole world | seven ways to end one interaction; the order of phases and of ids within a tick; ends that dependents wait for |
| Saved logins (`auth/`, `commands/login.rs`) | `hosts.json`, one token store entry and one lock file per host | credential, refresh, login, logout | OAuth host; OS keychain | several processes; rotation makes a spent token look stolen; kills between two writes; one file for all hosts |
| OAuth client (`auth/oauth.rs`) | polling loop, loopback server | device grant, browser grant, refresh, revoke | the host | slow-down, lost polls, deadline |
| Policy executor (`policy.rs`) | last applied action, plan anchor, state token | decide, reset | env session | deadline fallback, age of a repeated plan |
| Env session, episodes (`env.rs`, `episode.rs`, `batch.rs`) | engine, decision count, ended | reset, step, checkpoint, restore | engine | end conditions, restore into an episode |
| Environment server (`env_serve/`) | the episode, the frame builder's last presence, the count of frames, the renderer | reset, step, observe, checkpoint, restore over a socket, one at a time | env session; the render service, in process | a request that fails half way leaves four pieces of state at different instants |
| Render service (`renderer/service/src/server.rs`) | requests read, a bundle in flight, the scene and its actors | load and append frames, render a tick or a bundle, pipelined or not | captures, ring | a bundle begun before the one before is collected; connections and captures that end in between |
| Captures (`render-core/src/engine.rs`) | two readback slots, deferred maps, staging buffers | `capture`, `capture_begin`, `capture_finish` | GPU | tickets nobody collects, buffers resized while their map is pending |
| Frame ring (`service/src/shm.rs`, `bundles.py`) | a file mapped by two processes: records, write cursor, latest-bundle pointer | `publish`, `publish_bundle`; `latest`, `bundle_at`, `iter_bundles`, `verify`, `still_valid` | shared memory | torn and overwritten records, wrap-around, no lock |
| Compiler, authoring, packages, assets | documents | pure transformations, file formats | | sequential |
| CLI | one command at a time | | libraries | mostly I/O |
| Adapters (gym, CARLA, GPU, physics, policies, ROS 2), bindings | | | bindings, external runtimes | external |

The OAuth client is modelled as far as LoginStore uses it, the env session as far as the environment server does. The policy
executor, the compiler and what follows it, the CLI and the adapters are not modelled; PROJECT.json gives the reason for each, and
"Not modelled" below the reasons that need a sentence.

How the modelled parts interact: the environment server and the world session drive the engine, whose interactions are a part
of their own; a world session publishes its ticks to subscribers; the environment server turns each instant into a frame, appends
it to the scene of the render service and asks for a bundle; the service captures it on the GPU, possibly two bundles at a time,
and publishes it in the ring, which another process reads.

What makes each modelled part correct:

- World session: the digest chains every tick after t = 0 once and in order; a client that follows the events knows who is
  present; the last exist interaction of an actor decides its presence, and which one is last is decided by ids; ids are never reused; a rejected batch leaves
  nothing; the catch-up shows the frames already hashed; log, checkpoint and replay agree.
- Truth subscriptions: bounded queues; every tick delivered, queued or counted as dropped; newest ticks, in order; rows
  that describe the step just taken; no consumer stops the world.
- Interactions: each starts and ends once; one owner per axis, whose until clause alone waits on it; windows, deadlines and
  dependents keep their times; presence and cruise speed follow what was scripted last; a crashed actor is at nobody's command.
- Saved logins: a spent refresh token is never sent unless a rotation was cut off; what is stored can be refreshed;
  concurrent use never loses a login; every command ends.
- Frame ring: a reader never holds a pointer mixed of two bundles; `still_valid` tells the truth whatever wraps; what passes `verify`
  is one published bundle.
- Render pipeline: one answer per request, in their order; each picture is of its own request; a slot is missing only after a
  capture was abandoned; nobody waits for ever.
- Environment server: pictures are of the observation they are answered with; while the engine has a readback slot left, a failed
  request does not fail later ones, or at least not those that start over. That holds no further: two captures dropped between
  `capture_begin` and the answer, or a device that has failed, fail every later request that renders until the server process is
  started anew, whether it is a step, a reset or a restore.

## The modules

### WorldSession

One state machine for both modes (`Mode`). `sim` is the engine, the other session variables are the fields of
`WorldSession`, `client` is a history variable (what a client would derive from the events), and `job` is the call in
progress: `advance` and the clip rebuild take one engine tick per step. Nothing else runs during a call (`&mut self`),
but a property can see every intermediate state.

| Action | Code |
|---|---|
| `Act` | `apply_act`, including the dropped epoch that repeats the standing action |
| `RejectStructural` | every early return of `execute` and `apply_structural` |
| `CommitLive` | the live arm: `add_actor`, `set_actor_presence`, op by op |
| `BeginRebuild`, `CatchUp`, `CommitClip` | the clip arm: `rebuild`, `consume_warmup`, `replay_timeline`, the keep filter |
| `BeginAdvance`, `AdvanceTick`, `EndAdvance` | `advance`: fixed action set, the tick observer, the report |
| `Checkpoint`, `Restore` | `checkpoint`, `restore` |

`Resolve` is the loop over the ops of a batch against one candidate. `normalized` sorts the candidate's interactions by id before the
engine is built, so a script interaction fires before or after a session's of the same tick as its id sorts around `ws:exist:`. The input
of the model keeps them as they arrived, the script in id order and then the session's, and `IdOrder` is the permutation the engine goes
through; `ScriptBefore` says how many ids of the script sort before the session's, and the theorems hold for each choice. (A script id that
begins with `ws:exist:` itself and sorts between two of the session's is left out.) `EngineTick` is one iteration of `advance_inner`:
collisions first, then the triggers that come due, then (not on the last tick of a clip) plan and apply. The motion model
is one lane of cells: a driver moves one cell per tick unless a present body is in the next one, an override replaces it
(`drive` moves whatever is ahead, `hold` stays), bodies that share a cell crash. This is the least that can show a crash,
an overlap rejection, a changed leader and an override. Placement fails in the cells of `OffRoad`; feasibility issues
reject like any other rejection. Warm-up is the t = 0 tick alone. The digest is the sequence of frames chained, as if the
hash were injective.

### WorldReplay

A world of `WorldSession`, checkpointed and resumed at will (`Record`, which is `Next` step by step while nothing is exported), exports its log (`ExportLog`); `Replica`, an
instance of the same module over a second set of variables, executes the entries one by one (`ReplayAct`,
`ReplayStructural`, `ReplayAdvance`, and `ReplayJob` for the steps of a call). A replica that could not execute an entry
would deadlock, which both runs check. Both worlds, the clip and the live one, are run as part of this module.

### TruthStream

`Subscribe`, `BeginAdvance` (with the `book` read once), `CommitTick` (prune, compose), `Enqueue` (one queue, under its own
lock), `EndAdvance`, `Restore`; and from any thread at any moment `Read`, `DrainInto`, `Unsubscribe`. The world is any
set of present actors at each tick. `stream` is `SceneStateStream`: presence and the tick of the last velocity sample.
`life` is a history variable. The queues take a frame in any order (the code goes through its list): more behaviours, so
what is shown holds for the list.

### LoginStore

Each step of a process is one file or keychain access, one lock operation or one request; any other process may run in
between, and `Crash` may kill this one. `Use` is `credential` with `refresh_locked` and the retry of a 401, `Login` and
`Logout` follow `commands/login.rs` and `Store::save`, `update`, `delete` in the code's order of accesses. The host is
external, modelled as `auth/` uses it: a session is a sequence of generations, the current refresh token rotates, a spent
one revokes the session, revocation ends it. A file write is atomic (`write_private` renames a temporary file), a
read-modify-write of `hosts.json` is not. `promise` (what the last login or logout left), `reused` and `interrupted` are
history variables.

### Interactions

The storyboard of one clip (`interactions`, in id order, as `normalized` sorts them), and a tick cut into the phases of
`advance_inner`: `phase` says which loop runs, `next` which actor or interaction it has come to.

| Action | Code |
|---|---|
| `DetectCollisions` | the crash latch of `detect_collisions`, on warm-up ticks too |
| `EvaluateLongitudinalCompletions` | the same: a speed is released, a gap completed once and kept |
| `EvaluateWindowEnds` | the same, both times it is called in a tick |
| `HoldTrigger`, `SkipTrigger`, `FireTrigger` | `evaluate_triggers` with `should_fire`, the window gate, `route_commit_status` and the crash gate; firing applies the verb in the same step (`apply_interaction`, `preempt`) |
| `EvaluateUntil` | the same, all due axes of one actor |
| `PlanAndApply` | `plan_all` and `apply_all` for one actor: pending presence, hand-back of a timed route, lateral completion or failure, knock-down |
| `FinishNeverFired` | the same, on the last tick instead of a plan |

`sim` holds `TriggerRuntime` per interaction, the fields of `ActorRuntime` that interactions own, and the events each
interaction has emitted. What conditions, collisions, speeds, lanes and routes are at a tick is arbitrary, so that the order
of outcomes is the worst possible; a target speed stands for the interaction that set it. All state keys share an axis. Time is
a tick number, which leaves out the tolerances of the comparisons. Actors are those of the clip: `add_actor` and
`set_actor_presence` belong to live worlds (WorldSession).

### FrameRing

One writer, the service, and one reader in another process, each step one access to the mapped file, as `shm.rs` and `bundles.py`
make them. Memory is sequentially consistent: the fences of `publish_bundle` order the pointer's fields, while the payload
copies have none, which on x86 makes no difference.

| Action | Code |
|---|---|
| `Begin` | a request that publishes: `Place` is `publish` up to its first write (size check, wrap, resync of the cursor) |
| `WriteCell` | the copies of the record header and the payload, cell by cell |
| `StoreCursor` | the cursor of the meta page, then the next record of the bundle, the table, or the answer |
| `SeqOdd`, `PutOffset`, `PutLen`, `PutTick`, `SeqEven` | the seqlock write |
| `ReadSeq` ... `ReReadSeq` | `_pointer` |
| `Locate` | `bundle_at` with the place a response named |
| `ReadTable`, `CheckHeader`, `ReadPayload`, `StillValid` | `_decode_bundle`, `verify`, the consumer of `iter_bundles`, `still_valid` |

`log` is a history variable: the bundles whose table was begun. A CRC is injective, a payload some cells of one content.

### RenderPipeline

`handle_connection`: `Read`, `ReadEnd`, `ReadError` and `ReadNothing` are its read (blocking or not), `TakeChained`, `TakeOther` and `Eof`
what it decides at the top of its loop, `DoFinish`, `DoAnswer`, `ServePlain`, `ServeTick` and `ServeClose` the calls it then makes, in the code's
order, `HangUp` the variables it drops. `gpu` is the engine as captures see it: the deferred maps, a staging buffer per slot and camera,
and whether the device has reported an error, after which every capture fails (`RenderFailure`). A capture that is not settled is
collected and taken again; the error of that collection is ignored, so the retry may meet buffers that are still mapped and fail on the device. `CaptureBegin`, `Capture`, `Collected`,
`Forgotten` and `Resized` are operators from an engine to the engines it can become. Around the thread, a client connects, sends,
closes one side or dies, and the GPU completes maps in the order of submission (`GpuDone`). What fails after the submission
drops the ticket, as the code does: `PendingCapture` has no `Drop`.

### EnvServe

`Reset`, `Step`, `Observe`, `Checkpoint` and `Restore` are the arms of `Server::dispatch`. `env` is the session, `render` the rest: the presence the
frame builder believes in, the sensors' count of frames, the time of the last frame, the stream of the service and the actors its app shows.
`Rendered`, `Sent` and `Bundle` are operators that give every outcome of `Server::render`, `Sensors::render` and `Sensors::bundle`: the one in
which nothing fails and one for each place where something can, with what has been changed until then. `Walked` and `Applied` are the two
loops over the actors, cut short. `answer` and `clean` are history variables.

A bundle goes through `capture_begin` and may fail behind it. `render.slots` is what that leaves of RenderPipeline's engine: how many
readback slots captures can still take. `Captured` gives the outcomes: a picture; a failure before the submission or after the collection, which
costs nothing; a ticket dropped between the two (`prepare_sensor_work`, a sensor host that has gone, a scan thread), which costs a slot; a
failure of the device, after which no capture succeeds, so that no slot counts. A readback that passes its deadline is taken for the last, since
its buffers stay mapped and the next capture into them is an error of the device. No request gives a slot back.

The server resets the episode while it starts, to place its cameras (`commands/env.rs:355`), and only `observe` and `step` ask whether
the client has: `Checkpoint` is answered before the first reset, and a `Restore` of it opens the episode.

## The runs

| Run | Instance | Properties |
|---|---|---|
| `world_replay` | clip of 4 ticks, a driver behind a parked body that the script removes at tick 1 and shows again at tick 2 by an interaction whose id sorts after the session's, up to 4 log entries, batches of one, one checkpoint; its log is then executed by a second world | `HashedOnceInOrder`, `EventsExplainPresence`, `LastExistWins`, `IdsNeverReused`, `RebuildReproducesFrames`, `OutcomesMatch`, `DigestReproduced`, no deadlock |
| `world_live` | live, one driver, batches of up to two ops, two ticks, three entries, a cell off the road, one checkpoint; the log is executed by a second world | `EventsExplainPresence`, `CountersOnlyByCommit`, `OutcomesMatch`, no deadlock |
| `login_races` | one host, three processes, three commands of any kind, both stores, one kill, lost answers, two aged pairs | `ReuseOnlyAfterInterruption`, `StoredIsCurrent` |
| `login_hosts` | two hosts, two processes, four uses, one kill, lost answers | `UseKeepsLogins`, `EveryCommandEnds` |
| `truth_publish` | one actor, two handles, capacities 0 (refused) and 2, three ticks | `Bounded`, `EveryTickAccounted`, `NewestInOrder`, `RowsTellTheTick`, `AdvanceEnds` |
| `interactions` | 76 clips of two or three interactions of two actors (one starts present, the other absent and on a track), one warm-up tick and four more | `LifecycleOnce`, `RunningIsInCharge`, `UntilOwned`, `WindowBounds`, `DeadlineMet`, `DependentsFollow`, `PresentAsScripted`, `TakenBackStaysBack`, `CrashDisables`, no deadlock |
| `frame_ring` | a meta page of one cell and eight more, bundles of one or two frames of one or three cells, or frames without a table, three of them; both kinds of reader | `ValidIsWhole`, `PointerIsOneBundle`, `VerifiedIsPublished` |
| `render_pipeline` | two cameras, three requests of any kind with or without a resize, two connections | `TypeOK`, `AnswersInOrder`, `OwnPicture`, `RefusedOnlyAfterLoss`, `EveryRequestAnswered` |
| `env_serve` | two actors, two instants, everything fails anywhere | `AnswerShowsNow`, `InStep`, `StepRecovers`, `StartingOverWorks`, no deadlock |
| `login_logout`, `render_slots`, `env_observe` | the smallest instance that shows the finding | one each, violated |

Why the bounds are enough to be interesting: four entries are what an act between two advances and a structural command
after them take, which is the shortest history with an epoch boundary in a catch-up; the clip ends inside the bound, so
commands on a finished world are reached; a batch of two is the shortest in which ops see each other (`world_live`; the
resolution is common to both modes). In `frame_ring` three bundles of at most eight cells lap a ring of eight once and
wrap at every place of the file; no property compares more than a bundle with its successor. `render_pipeline` has one request more than
there are slots, and two connections, so that one can leave something to the next. Two instants are what it takes in `env_serve` to show an actor, to
lose its despawn and be left with it; the recovery properties themselves ask, at every state, what one more request would do. Restores and
observes are not bounded, so both slots are lost within them. `env_observe` has three. Three processes let a third read between the two that race. The clips of `interactions` are curated (`MCInteractions`): three commands contending for a speed, two
lateral manoeuvres that may be refused, chains of dependents in both orders of ids, presence changed twice in a tick, a route
or track taken up under a speed; three interactions are the shortest in which one takes over what another gave back, and tick 3
lets a dependent of an end at tick 1 be a tick late. Capacity two and three
ticks overflow a queue once, and an actor that leaves and returns needs no more. All bounds are guards named in CONSTANTS.
`CHECK_DEADLOCK FALSE` is set where the bounds, or handles and clients that nobody has to use, let the exploration stop. Symmetry is used
in `login_races`, over the processes, and in `frame_ring`, over ticks and contents, which check invariants alone.

Each property of a passing run has a mutant in PROJECT.json: an operator marked "Fault:" placed before the definition it
replaces, a plausible slip of that code, under which the run must fail.

### Fairness

`LoginStore!FairSpec` assumes weak fairness of each process's steps: the operating system runs it, and a lock, once free,
is granted (at most two contenders in the run, so weak fairness suffices). `TruthStream!FairSpec` assumes weak fairness of the body of an `advance` alone:
its thread runs. No consumer is assumed to read, ever: that is the point of `AdvanceEnds`. `RenderPipeline!FairSpec` assumes weak fairness
of the service's thread, and of nobody else: when it can go on it does. It waits for the client only where it has nothing to do, and for the GPU
no longer than the 120 s of `collect_deferred`, which is why a step of the thread, the one that gives up, is there while the GPU is silent. The world session,
the engine and the environment server are sequential and their properties need no fairness.

### Findings

1. `login_logout`: "Logging out always forgets the tokens here" (`login.rs:216`) fails against a refresh in flight; logout takes no lock.
   For the same reason a refresh in flight can write the pair of the session that a new login has replaced and revoked.
2. `render_slots`: `free_slot`, "A staging slot no deferred capture is holding" (`engine.rs:7231`), ends in `.unwrap_or(0)`. A bundle that fails after
   `capture_begin` (a lidar asked for before any tick was applied, say), or whose connection ends while it is in flight, leaves a map nobody collects. After one
   such loss the pipelined second request always fails with "every readback slot holds a pending capture"; after two, every `capture_begin`
   fails, and a blocking capture copies into the mapped buffer of slot 0, an error of the device, after which every capture fails.
3. `env_observe`: "every reset/step/observe also renders the current state" (`commands/env.rs:10`): a step or reset whose sensors fail answers an error and has
   moved the episode; a later `observe` answers ok, with the new observation beside pictures (and a simulation time) of an earlier instant, or of
   the episode before the reset.

The second finding reaches the environment server, whose bundles fail behind `capture_begin` too: `StepRecovers` and `StartingOverWorks` hold
while a slot is left, and the latter says that without one a reset or restore at which nothing else fails is refused.

### Disagreements without a run

What follows was met while modelling and is excepted by name in the properties that would otherwise fail; taking the exception out gives the
counterexample.

- World sessions. A clip despawn of a crashed actor is accepted and changes nothing (`docs/world-session.md:70` against
  `engine/interactions.rs:144`; `LastExistWins` leaves out crashed actors). A despawn accepted at the last tick of a clip is reported, and the actor
  stays (`engine/world.rs:1551`; `NoTerminalAnchor`). An accepted despawn or spawn of a clip is undone in the same tick by a script interaction
  anchored there whose id sorts after `ws:exist:`, while in a live world, which has fired the script's by then, the command is the last (`ActsAfter`). A rebuild does not always "reproduce their exact state" for pre-existing actors (session `world.rs:1145`): the step from
  the boundary is planned again, with the new body (`RebuildReproducesFrames` leaves out anchor ticks). `docs/world-session.md:87` says that ticks are
  hashed from t = 0, while `consume_warmup` takes t = 0 unhashed.
- Truth streams. `docs/truth-stream-wire.md:73` calls the first observation of an actor a `spawn`, while a second subscriber's first frame has
  `update` rows (line 89 promises it identical frames).
- Interactions. "`after start` fires on the first tick at or after parent + delay" (`docs/engineering/openscenario-conformance.md:153`) fails when the
  dependent's id sorts before its parent's and the delay is zero: it fires one tick late (`DependentsFollow` allows that tick). `DeadlineMet` leaves out routes, which
  wait for their junction past `byLatest`. `RunningIsInCharge` excepts commands that a crash, a knock-down or the end of a track drops without an end: their
  `after end` dependents are skipped when the clip is over.
- Frame ring. `docs/engineering/frame-bundles.md` promises that consumers "never see torn bundles", also of the hot loop (`verify=False`, `still_valid` after use). The cursor is
  stored after the payload (`shm.rs:387-393`), so while a record is being copied `still_valid` can say yes to a bundle that it overwrites: `ValidIsWhole` is
  about the states between two records, and `VerifiedIsPublished` about `verify`. Met on the way: the size check of a bundle leaves out its table (`server.rs:3930`); a
  record that ends exactly at the end of the file makes the cursor skip no generation, which is harmless; `iter_bundles` misses a bundle that
  repeats the tick before; a service killed between the two seqlock writes leaves its readers polling.
- Render service. A camera resized while a bundle is in flight fails that bundle and leaves the other camera's buffer mapped, as does a readback that times out after
  120 s; the next capture in that slot is then an error of the device. "A new connection replaces the old one" (`server.rs:1233`): connections are accepted
  one after the other.
- Environment server. A step answered with an error has stepped the episode, so a client that retries steps twice. A despawn whose frame was lost makes every later step
  fail with `native_scene_actor_unaccounted` until a reset or restore (an exception of `StepRecovers`). A checkpoint holds nothing of the sensors: after a restore
  wheel spin and brake lamps start anew.

## The proofs

`TruthStream_proofs` proves `Bounded`, `EveryTickAccounted`, `NewestInOrder` and `RowsTellTheTick` as invariants of `Spec`
for any actors, handles, capacities and bounds, from `TruthAssumption`. None of them is inductive: the book-keeping must
also say what `advance` owes. The invariant `IInv` conjoins the types of the variables; that only subscribed handles are in
line and that their frame is the current tick's (`OutboxInv`); the shape of each queue (`QueueInv`); that `book` stays
true while an active handle exists, so no tick of a call is skipped (`BookInv`); that an attached handle is subscribed, with
its count (`HandleInv`); and that the stream, while anyone listens, is of the last tick (`StreamInv`). There is one lemma
per action, one step per conjunct it can disturb, and each theorem follows with PTL. `TypeOK` follows from the same invariant.

`Interactions_proofs` proves `UntilOwned`, `CrashDisables` and `TypeOK` for any actors, storyboards, windows and lengths of
clip, from `InteractionsAssumption`. `IInv` says how far a tick is (`Progress`: each loop is within its actors or
interactions, and only a tick before the last goes on to move) and that every actor is sound: of its type, `Owned` (its until
clauses are of interactions that command it, on their axes, and nobody else is in charge there) and `Disarmed` (crashed means
at nobody's command). A lemma for each operator says that it keeps soundness, and four arguments do it all: taking
commands and clauses away (`Relieved`), changing what clauses do not depend on (`SameClauses`), a crash, which takes everything
(`DisabledFacts`), and `ApplyInteractionFacts`, where the interaction that takes the axis replaces its predecessor's clause: between
`Preempt` and the new clause the invariant is broken, so that one lemma covers the whole of apply_interaction. Each action is
then a lemma of its own, and `NextInvariant` puts them together.

`WorldSession_proofs` proves eight properties for every input, script, mode, batch, rebuild, checkpoint and restore, from
`WorldAssumption` (of which one line is about the code: `AutoIds` names no id twice, as the `format!` of a counter gives none twice). Each has an invariant of its own.

- `HashedOnceInOrder`. The property speaks of states between calls and of a call half done; the invariant says where the engine
  of a pending rebuild stands (`job.done` ticks, capped by the horizon), how many ticks a running advance has taken
  (`JobInv`), and the same of a saved checkpoint (`SavedInv`). `EngineTickMoves` is the lemma about one tick, `NewEngineAtZero` about a fresh engine.
- `OutcomesMatch`, `DigestReproduced`. `RInv` holds the past of the world as a sequence of world values, each of which is what a call makes of the one
  before (`Call`) or what a call in progress goes on to (`Continue`), and says that the replica is one of them: a call is determined
  by the log entry it leaves, so the replica retraces the sequence (`NextOfPast`), also when the original was resumed from a checkpoint on
  the way (`HasHistory` of what was saved). The replica's operators are those of the original wherever they read no variable (`SameTick`, `SameResolve`, ...).
- `IdsNeverReused`, `CountersOnlyByCommit`. `Ledger` relates the actors of the input, the counter and the accepted ids of the log. What a batch
  does to it is an induction over its ops (`ResolveGives`): as many numbers are left as there are spawns to come (`SpawnsLeft`), so that each spawn gets a number nobody has (`SpawnTakesOne`).
- `LastExistWins`. `Serves` says it of an engine and an input, past and future: who is present is decided by the last of the interactions settled, and
  exactly those due are settled. Which is last of two at one tick is `ActsAfter`: by id in a clip, by arrival in a live world. A tick keeps it
  (`TickServes`, by an induction over `IdOrder`, of which `IdOrderLists` says that it lists every interaction once and `IdsApart` that it is sorted), a rebuild starts from it, and a
  live commit keeps it because `Added` says which interactions a batch leaves for an actor and in which order.
- `RebuildReproducesFrames`. `Past` says that the engine of a clip world stands at the end of *the* run of its input under its timeline (`RunOf`), and that
  this run shows every frame of the digest (`Shown`), except where a command is anchored; `OnTheWay` says of a rebuild that it has come as far along the run
  of its candidate. The candidate is the input with actors and later exist interactions added (`Enlarges`), so the two runs agree on the old
  actors (`AlikeTick`, `RunsAlike`): on all there is up to the tick before the command, on all but presence at it. Recording an act
  does not touch what the timeline said of the ticks before (`EarlierActs`, `ActsStay`), and `FiledInv` holds what the input's
  parts have to do with each other: the cells are of its actors, and its exist interactions are as many as the counter says.
- `EventsExplainPresence`. `Told` reads a list of events by the last one of each actor, so it can be read in parts (`ToldInParts`) and one event at a time
  (`ToldMore`). A tick tells what it decides (`TickTells`), a live commit what its ops did (`LiveTells`). For a rebuild the run of the candidate is compared
  with the world's own: up to the tick before the command the two are alike, and their events are older than the keep filter takes (`UpTo`); at that
  tick the filter takes every event of the actors concerned, and what it leaves out both engines told (`TickKeeps`). The
  ids of what the command adds may come between two of the script's, so the verdicts are not compared one by one: while the kept events are silent about an actor,
  every verdict on it has found it as it wanted it (`Quiet`). `ToldInv` adds what a rebuild needs: in clip mode,
  the engine's undrained events tell nothing new while no advance is running, so they may be dropped with the engine.

TLAPS has no induction over a fold: `ResolveRuns`, `VerdictsRun` and `KeptRun` give the sequence of its intermediate values once, and `Induction` (from the well-foundedness
of `<` on Nat, with a set of positions for the hypothesis) goes along it.

`EnvServe_proofs` proves `AnswerShowsNow`, `InStep`, `StepRecovers` and `StartingOverWorks` for any actors, any number of requests and
every place where one can fail, from `EnvServeAssumption`. The invariant is `TypeInv /\ InStep /\ AnswerShowsNow`; `TypeInv` adds to the types what
makes a frame have its place, that the sensors' count is the length of the service's stream. The lemmas climb the calls: what one
frame does to the app's actors (`AppliedWhole`, and `AppliedTells` when nothing in it is refused), then `CapturedOutcome`, `BundleOutcome`, `SentOutcome` and
`RenderedOutcome`, each saying what a call leaves behind when it succeeds and when it fails. The two recovery properties follow from the same
lemmas, with no failure allowed (`may = FALSE`) and a slot left, or none.

`FrameRing_proofs` proves `ValidIsWhole`, `PointerIsOneBundle`, `VerifiedIsPublished` and `TypeOK` for any ring, metadata page, request, tick and
number of bundles, from `RingAssumption`. The writer's invariant `WInv` speaks of logical positions, of which the file shows the last
`Capacity`: two records less than `Usable` apart share no cell (`Disjoint`), so a record being written spares whatever `still_valid` would
accept (`Untouched`). Its parts are the types, what the record at hand is (`RecordInv`), where the bundles lie (`SpansInv`), that the cells
behind a live bundle are the ones written (`CellsInv`), that every table header found anywhere in the file is of a bundle of the log (`TablesInv`), and that
`seq` is twice the number of pointers published, plus one while the writer is between its two increments (`LatestInv`, `SeqInv`). The reader's
invariant `RInv` says of each of its local variables what it was when it was read; all a reader needs from a step of the
writer is `Grows`: the log is only appended to and the sequence never goes back. There is a lemma for each step of either process.

`RenderPipeline_proofs` proves `AnswersInOrder`, `OwnPicture`, `RefusedOnlyAfterLoss` and `TypeOK` for any rig, requests, connections and
bounds, from `PipelineAssumption`. Answers are in order only if the loop is: `Numbered` and `InLine` number what the client asked, what is on
the wire, what was read, what is in hand and what was answered, so that each list goes on where the one before it ends, and `Shaped` says
which tasks can be in hand together: a bundle begun early is there only with the one it follows still to be collected. `Sound` is about the engine: a map per number, the maps of a flight that will be collected in a slot nobody else copies into
(`Kept`), and a refusal only with a map that no flight will collect (`Lost`). A slot is free when it is asked for because two maps and
at most one flight leave a lost one (`Limit`, a count of maps, and `TakesSlot`). The operators from engine to engines have a lemma each, so the actions
only pass on what they changed.

`LoginStore_proofs` proves `ReuseOnlyAfterInterruption` and `StoredIsCurrent` for any processes, hosts, commands and bounds, from
`LoginAssumption`. The lock alone does not carry them: a login stores its pair without it, and a logout removes one. What does is
`OnePlace` (a session is stored once, and a process about to spend its token took it from there and is alone), `Current` (that token is the current one, unless a
rotation was cut off) and `Private` (nobody else has the session of a login that is not stored yet). `Locked` says that who refreshes
holds the lock of its host. `LoginsKept` proves `UseKeepsLogins` for specifications whose commands are uses alone, as in `login_hosts`, because a
concurrent login or logout does lose one; its invariant `Used` adds that every copy of the file in a process's hands
has all the logins, none ahead of its tokens.

`InteractionsLife_proofs` proves the other seven invariants of Interactions from one invariant, `Life`, which adds to that of
`Interactions_proofs` the history of every interaction. `Told` relates an interaction's trigger and its events, counted; `Commands` and `Served` say
that who is in charge has started and not ended (`Followed` gaps excepted), and the converse; `Cruising` says that the cruise speed and the one to
return to were not taken back. These hold at every step (`Lively`). The others depend on how far the tick is: `Turned` is who has been evaluated in it, `Punctual` what that says
of who still waits, `Bounded` that closed windows stay closed, `Following` what a dependent that fired has waited for, `Scripted`
what presence an actor shows and is about to show, `Today` that nothing fires before its turn, `Closing` what is left at the end.
Two ideas keep it short. What only takes commands away (`Eases`: a completion, a release, a window end, a collision) keeps everything at once, so the
phases that do nothing else share `QuietStep`; and the state is passed to the invariants as an argument, so
that a composed operator (`Preempt`, then the verb, then the clause) can be followed through states that are never those of a step. Firing has
its own chain, from `PreemptTouched` and `ApplyVerbTouched` to `FireLively`.

Model-checked only: liveness (`AdvanceEnds`, `EveryCommandEnds`, `EveryRequestAnswered`), which needs fairness and ENABLED. Every invariant that a passing
run checks is proved.

## Not modelled

- World session: a publish error in `advance`, an engine error in the middle of a live batch, and ids beyond six digits. The first two are
  reached only by faults of the engine or its catalog that no input of the model can cause, the third only by a million interactions.
- Truth streams: a handle that is dropped without `unsubscribe`: the stream goes on filling the queue they share.
- Interactions: what a condition measures, how an actor moves, and what state keys switch. Each is a free choice, so a property that
  holds holds for all of them; live mode and checkpoints copy what is modelled.
- Saved logins: discovery, origin checks, `SIMFORGE_TOKEN` (which bypasses the store), the expiry of refresh tokens, and the device-code poll, of which
  only the outcome reaches the store.
- Render service: episodes, world edits, exports and device sensors. They are requests like the others to the pipeline, which answers them alone and in
  turn; what they compute is geometry.
- Environment server: the framing of its wire, signals, and the client (`socket_env.py`). With a timeout, a request given up leaves its
  answer in the connection, and the check of `i` refuses every later call, each of which the server has carried out.
- Policy executor: one decision at a time, whose fallback repeats the last action; there is nothing for another actor to interleave with.
- Vehicle physics, perception, lanes, reward and sensor models compute floating-point numbers from one snapshot; the compiler, the authoring
  library and packages are pure transformations of documents; both are for tests, not for a model checker.

## Plan

Done: WorldSession, WorldReplay, LoginStore, TruthStream, Interactions, FrameRing, RenderPipeline and EnvServe, with the runs above; the proofs of
all invariants that the runs check, in WorldSession, WorldReplay, TruthStream, FrameRing, EnvServe, RenderPipeline, LoginStore and Interactions.

Left:

1. `PresenceStream`: an abstract specification of a client that is told who is present, implemented by the events of WorldSession and by
   the rows of TruthStream.
