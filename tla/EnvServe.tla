------------------------------ MODULE EnvServe ------------------------------
(***************************************************************************)
(* `simforge env serve --rig`: the episode server                          *)
(* (simforge-cli/src/env_serve/server.rs) over an EnvSession, the frame    *)
(* builder (frames.rs), the in-process renderer (sensors.rs) and the scene *)
(* the render service keeps (load_scene_state, append_scene_state and      *)
(* apply_scene_tick of renderer/service/src/server.rs).  One thread, one   *)
(* request at a time: what is hard is a request that fails in the middle.  *)
(*                                                                         *)
(* Abstractions.  The state of an episode at one instant is a number and   *)
(* the actors present; a picture tells the number each actor is shown at.  *)
(* What can fail (an elevation under a wheel, a model that does not load, a*)
(* capture) fails at any of its places or nowhere.  Of RenderPipeline's    *)
(* engine, what one request leaves to the next is kept: how many readback  *)
(* slots captures can still take, none once the device has failed.  An     *)
(* engine error inside a step is left out: validation before it excludes   *)
(* it.  A lost connection loses an answer and nothing else, and the next   *)
(* one goes on.                                                            *)
(***************************************************************************)
EXTENDS Integers, Sequences, FiniteSets, SequencesExt

\* A definition whose comment starts with "Fault:" is not part of the model:
\* PROJECT.json names it as the mutated form of the definition that follows it.

CONSTANTS
  ActorOrder,   \* the actors of the scenario, in canonical id order
  MaxInstants   \* bound: resets and steps executed

Actors == ToSet(ActorOrder)

ASSUME EnvServeAssumption ==
  /\ ActorOrder \in Seq(Actors) /\ IsInjective(ActorOrder)
  /\ MaxInstants \in Nat

VARIABLES
  env,     \* the EnvSession: whether it was reset, its instant, whether it ended
  render,  \* FrameBuilder, Sensors, Server.last_sim_time, the service's scene and engine
  saved,   \* checkpoints a client holds
  answer,  \* history: the last answer
  clean,   \* history: nothing failed since the stream was started
  instants \* spent against the bound

vars == <<env, render, saved, answer, clean, instants>>

Nowhere == [no |-> 0, present |-> {}]
Nothing == [a \in {} |-> 0]

-----------------------------------------------------------------------------
(* FrameBuilder (frames.rs): r.present is LoopState.present.               *)

\* The actors a loop in canonical order has gone through after n rounds.
First(n) == {ActorOrder[k] : k \in 1..n}
All == Len(ActorOrder)

\* Fault: an actor that has gone keeps its state.
WalkedKeeps(r, now, n) == r.present \cup (now.present \cap First(n))

\* LoopState after the first n actors.
Walked(r, now, n) == (r.present \ First(n)) \cup (now.present \cap First(n))

\* The records of a frame: who is shown ("spawn" and "update" alike) and who goes.
FrameOf(r, now) == [of |-> now.no, shown |-> now.present, despawned |-> r.present \ now.present]

\* Where frame can fail: at an actor that is present, before its state is
\* stored, or with the signals, after all of them.
BuildBreaksAfter(now) == {n \in 0..All : n < All => ActorOrder[n + 1] \in now.present}

-----------------------------------------------------------------------------
(* The scene of the service (renderer/service/src/server.rs): r.scene is   *)
(* its stream of frames, r.world what the app shows.                       *)

\* Fault: the actors of the previous stream stay.
LoadedOver(r, frame) == [r EXCEPT !.scene = <<frame>>]

\* load_scene_state with one frame: nothing of a previous stream stays.
Loaded(r, frame) == [r EXCEPT !.scene = <<frame>>, !.world = Nothing]

\* append_scene_state with one frame.
Appended(r, frame) == [r EXCEPT !.scene = Append(@, frame)]

\* What apply_scene_tick has made of the world after the records of the first n
\* actors.
Applied(world, frame, n) ==
  LET shown == frame.shown \cap First(n)
      gone == frame.despawned \cap First(n)
  IN  [a \in (DOMAIN world \ gone) \cup shown |-> IF a \in shown THEN frame.of ELSE world[a]]

\* Where it can fail: at a record that shows an actor, before the app has it or
\* after (its model), or with the lamps, after all of them.
ApplyBreaksAfter(frame) ==
  {n \in 0..All : n = All \/ ActorOrder[n + 1] \in frame.shown \/ (n > 0 /\ ActorOrder[n] \in frame.shown)}

\* Fault: live actors a frame does not tell of are accepted.
UnaccountedNone(world, frame) == {}

\* The live actors the frame neither updates nor despawns.
Unaccounted(world, frame) == DOMAIN world \ (frame.shown \cup frame.despawned)

-----------------------------------------------------------------------------
(* Sensors (sensors.rs) and Server::render.  An outcome is what is left and *)
(* the picture, if there is one.  may: whether anything fails that can.    *)

Lost(r) == [render |-> r, pictures |-> {}]
Taken(r) == [render |-> r, pictures |-> {r.world}]

READBACK_SLOTS == 2

\* ensure_rendering and the limit of capture_begin.
CanCapture(r) == r.slots > 0

\* From capture_begin to the answer.  What fails before the capture is submitted, or
\* once it is collected, leaves the engine as it was; what fails between the two
\* drops the ticket, whose slot stays held; and after a capture that fails on the
\* device, or whose buffers stay mapped past the readback deadline, no other succeeds.
Captured(r, may) ==
  IF ~CanCapture(r) THEN {Lost(r)}
  ELSE {Taken(r)} \cup (IF may THEN {Lost([r EXCEPT !.slots = n]) : n \in {r.slots, r.slots - 1, 0}} ELSE {})

\* Sensors::bundle: render_bundle at the frame `tick` of the stream.
Bundle(r, tick, may) ==
  IF tick + 1 \notin DOMAIN r.scene THEN {Lost(r)}
  ELSE LET frame == r.scene[tick + 1]
           after(n) == [r EXCEPT !.world = Applied(r.world, frame, n)]
           told == Unaccounted(after(All).world, frame) = {}
       IN  (IF told THEN Captured(after(All), may) ELSE {Lost(after(All))})
           \cup (IF may THEN {Lost(after(n)) : n \in ApplyBreaksAfter(frame)} ELSE {})

\* Fault: the frame is counted before the service has taken it.
SentCountedFirst(r, frame, fresh, may) ==
  LET counted == [r EXCEPT !.ticks = IF fresh THEN 1 ELSE @ + 1]
      refused == ~fresh /\ r.scene = <<>>
  IN  (IF may \/ refused THEN {Lost(counted)} ELSE {})
      \cup (IF refused THEN {}
            ELSE Bundle(IF fresh THEN Loaded(counted, frame) ELSE Appended(counted, frame), counted.ticks - 1, may))

\* Sensors::render: the frame begins a stream, or is appended to one, if the
\* service accepts it; then it is counted and rendered.
Sent(r, frame, fresh, may) ==
  LET taken == IF fresh THEN Loaded(r, frame) ELSE Appended(r, frame)
      counted == [taken EXCEPT !.ticks = IF fresh THEN 1 ELSE @ + 1]
      refused == ~fresh /\ r.scene = <<>>
  IN  (IF may \/ refused THEN {Lost(r)} ELSE {})
      \cup (IF refused THEN {} ELSE Bundle(counted, counted.ticks - 1, may))

\* RenderMode::Fresh and Next: the frame of this instant is built and sent.
Rendered(r, now, fresh, may) ==
  LET ready == IF fresh THEN [r EXCEPT !.present = {}] ELSE r
      left(n) == [ready EXCEPT !.present = Walked(ready, now, n)]
      built == [left(All) EXCEPT !.time = now.no]
  IN  Sent(built, FrameOf(ready, now), fresh, may)
      \cup (IF may THEN {Lost(left(n)) : n \in BuildBreaksAfter(now)} ELSE {})

\* RenderMode::Again: the last frame of the stream once more.
Rerendered(r, may) == IF r.ticks = 0 THEN {Lost(r)} ELSE Bundle(r, r.ticks - 1, may)

-----------------------------------------------------------------------------
(* Server::dispatch.                                                       *)

NoAnswer == [op |-> "none", ok |-> FALSE, of |-> Nowhere, pictures |-> {}, time |-> 0]

\* The answer to a request that renders: the observation is that of `now`.
Answers(op, now, outcomes) ==
  \E o \in outcomes :
    /\ render' = o.render
    /\ answer' = [op |-> op, ok |-> o.pictures # {}, of |-> now,
                  pictures |-> o.pictures, time |-> o.render.time]
    /\ clean' = (o.pictures # {} /\ (op \in {"reset", "restore"} \/ clean))

\* A request that is refused before it changes anything.
Refused(op) ==
  /\ answer' = [NoAnswer EXCEPT !.op = op]
  /\ UNCHANGED <<env, render, saved, clean, instants>>

\* The next instant of an episode, or the first of another.
Executed(ended) ==
  /\ instants < MaxInstants
  /\ instants' = instants + 1
  /\ \E present \in SUBSET Actors :
       env' = [on |-> TRUE, now |-> [no |-> instants + 1, present |-> present], ended |-> ended]

Reset ==
  \/ /\ Executed(FALSE)
     /\ Answers("reset", env'.now, Rendered(render, env'.now, TRUE, TRUE))
     /\ UNCHANGED saved
  \/ Refused("reset")

\* A step of an episode that was not reset, that ended, or with a bad action is
\* refused; any other has stepped the episode, also when its sensors fail.
Step ==
  \/ /\ env.on /\ ~env.ended
     /\ \E ended \in BOOLEAN : Executed(ended)
     /\ Answers("step", env'.now, Rendered(render, env'.now, FALSE, TRUE))
     /\ UNCHANGED saved
  \/ Refused("step")

Observe ==
  \/ /\ env.on
     /\ Answers("observe", env.now, Rerendered(render, TRUE))
     /\ UNCHANGED <<env, saved, instants>>
  \/ ~env.on /\ Refused("observe")

\* The checkpoint is the session's: nothing of the sensors is in it.  It may be
\* taken before the first reset, of the instant the server was started with.
Checkpoint ==
  /\ saved' = {env}
  /\ answer' = [NoAnswer EXCEPT !.op = "checkpoint", !.ok = TRUE]
  /\ UNCHANGED <<env, render, clean, instants>>

Restore ==
  \/ \E checkpoint \in saved :
       /\ env' = [checkpoint EXCEPT !.on = TRUE]
       /\ Answers("restore", checkpoint.now, Rendered(render, checkpoint.now, TRUE, TRUE))
       /\ UNCHANGED <<saved, instants>>
  \/ Refused("restore")

Init ==
  /\ \E present \in SUBSET Actors :
       env = [on |-> FALSE, now |-> [no |-> 0, present |-> present], ended |-> FALSE]
  /\ render = [present |-> {}, ticks |-> 0, time |-> 0, scene |-> <<>>, world |-> Nothing,
               slots |-> READBACK_SLOTS]
  /\ saved = {} /\ answer = NoAnswer /\ clean = FALSE /\ instants = 0

Next == Reset \/ Step \/ Observe \/ Checkpoint \/ Restore

Spec == Init /\ [][Next]_vars

-----------------------------------------------------------------------------
(* Properties.                                                             *)

Pictured(now) == [a \in now.present |-> now.no]

\* The answer's pictures and their simulation time are those of the observation
\* beside them.
ShowsItsObservation(a) == a.pictures = {Pictured(a.of)} /\ a.time = a.of.no

\* What reset, step and restore answer shows every actor that is present, where
\* it is now, and nobody else, whatever failed in the requests before; so does what
\* observe answers, while nothing has.
AnswerShowsNow ==
  answer.ok /\ (answer.op \in {"reset", "step", "restore"} \/ (answer.op = "observe" /\ clean))
    => ShowsItsObservation(answer)

\* While nothing has failed since the last reset or restore, the four parts agree:
\* the actors of the episode are those the frame builder believes in and those the
\* renderer shows, and the sensors' frame is the last of the stream and of now.
InStep ==
  clean =>
    /\ render.present = env.now.present /\ render.world = Pictured(env.now)
    /\ render.ticks = Len(render.scene) /\ render.time = env.now.no
    /\ Last(render.scene).of = env.now.no /\ Last(render.scene).shown = env.now.present

\* A step that fails leaves nothing behind that fails the next one, unless somebody
\* the renderer shows is told of no more, a second capture was dropped on the GPU, or
\* the device has failed.
StepRecovers ==
  render.scene # <<>> /\ render.slots > 0 =>
    \A present \in SUBSET Actors :
      LET now == [no |-> instants, present |-> present]
      IN  DOMAIN render.world \subseteq render.present \cup present =>
            \A o \in Rendered(render, now, FALSE, FALSE) : o.pictures = {Pictured(now)}

\* Whatever failed requests have left in the scene, in the frame builder and in the
\* sensors' count, a reset or restore at which nothing fails is answered and shows
\* what is there.  What they left in the engine it does not mend: with both readback
\* slots held, or the device failed, it fails as every later request does.
StartingOverWorks ==
  \A present \in SUBSET Actors :
    LET now == [no |-> instants, present |-> present]
    IN  \A o \in Rendered(render, now, TRUE, FALSE) :
          o.pictures = IF render.slots > 0 THEN {Pictured(now)} ELSE {}

\* env.rs says that "every reset/step/observe also renders the current state".
ObserveShowsNow == answer.ok /\ answer.op = "observe" => ShowsItsObservation(answer)
=============================================================================
