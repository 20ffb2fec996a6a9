---------------------------- MODULE Interactions ----------------------------
(***************************************************************************)
(* The life of the interactions of a clip: simforge-core/src/engine/       *)
(* interactions.rs and triggers.rs, called by the tick loop of world.rs    *)
(* and by the plan and apply passes of motion.rs.                          *)
(*                                                                         *)
(* An interaction waits for its trigger, fires at most once, and commands  *)
(* one axis of one actor until it completes, is released, is pre-empted by *)
(* a later interaction on that axis, or the actor crashes.  The phases of  *)
(* a tick are steps of their own; a step of "triggers" is one interaction, *)
(* in the order of their ids.                                              *)
(*                                                                         *)
(* Abstractions.  Time is a tick number.  What conditions, collisions,     *)
(* speeds, lanes and routes are at a tick is arbitrary: a condition is read*)
(* anew by every interaction, because a verb applied before it in the same *)
(* tick may have changed what it reads.  A target speed is the interaction *)
(* that set it.  Of the state keys only the axis they occupy is kept, and  *)
(* a retired actor is one to which the plan does nothing.                  *)
(***************************************************************************)
EXTENDS Integers, Sequences, FiniteSets

\* A definition whose comment starts with "Fault:" is not part of the model:
\* PROJECT.json names it as the mutated form of the definition that follows it.

CONSTANTS
  NumActors,    \* how many actors the clip has, numbered in registration order
  StartPresent, \* those present at the start
  StartTracked, \* those whose first route is a timed track
  Storyboards,  \* the interaction lists of the clips considered, in id order
  WarmupTicks,  \* ticks before t = 0
  ClipTicks     \* the last tick of the clip

Actors == 1..NumActors
Verbs == {"speed", "match", "gap", "changeLane", "laneOffset", "route", "track",
          "present", "absent", "set"}
Axes == {"longitudinal", "lateral", "route", "existence", "state"}

\* A time no tick of the clip has: an Option<f64> that is None.
Never == -(WarmupTicks + 1)
Ticks == -WarmupTicks..ClipTicks

\* An interaction without a window is one whose window covers the clip, an
\* arrival that was not solved is a fixed time after it.
Windows == [start: Int, end: Int]
Triggers ==
  [kind: {"fixed"}, at: Int]
    \cup [kind: {"after"}, ref: Nat \ {0}, event: {"start", "end"}, delay: Nat]
    \cup [kind: {"when"}, byLatest: Int, ifNever: {"fire", "skip"}]
Interaction ==
  [actor: Actors, verb: Verbs, trigger: Triggers, window: Windows, until: BOOLEAN]

ASSUME InteractionsAssumption ==
  /\ NumActors \in Nat \ {0}
  /\ WarmupTicks \in Nat /\ ClipTicks \in Nat
  /\ \A story \in Storyboards :
       /\ story \in Seq(Interaction) /\ story # <<>>
       /\ \A i \in DOMAIN story :
            story[i].trigger.kind = "after" => story[i].trigger.ref \in DOMAIN story

VARIABLES
  interactions,     \* Simulation.interactions: the clip's, in id order
  tick, phase,      \* the tick being computed, and how far it is
  next,             \* the actor or interaction the phase's loop comes to next
  released_windows, \* the interactions whose window end has been handled
  sim               \* trigger progress, actors, and the events of each interaction

vars == <<interactions, tick, phase, next, released_windows, sim>>

Ids == DOMAIN interactions

Axis(i) ==
  LET verb == interactions[i].verb
  IN  CASE verb \in {"speed", "match", "gap"}       -> "longitudinal"
        [] verb \in {"changeLane", "laneOffset"}    -> "lateral"
        [] verb \in {"route", "track"}              -> "route"
        [] verb \in {"present", "absent"}           -> "existence"
        [] OTHER                                    -> "state"

\* axis_of is long-lived on these two; the others have done their work at once.
Held == {"longitudinal", "lateral"}

\* No interaction: None of an Option<InteractionIndex>.
Nobody == 0
\* The cruise speed after a track has handed the body back: zero.
Halted == -1

FreshTrigger == [status |-> "pending", fired_at |-> Never, ended_at |-> Never, forced |-> FALSE]
\* cmd: who is in charge of an axis (long_cmd, lat_cmd); until: until_by_axis;
\* cruise: the interaction whose target is the cruise speed, Nobody for the
\* authored one, Halted; prior: prior_cruise_override_mps of the command in charge.
FreshActor(a) ==
  [cmd |-> [x \in Held |-> Nobody], until |-> [x \in Axes |-> Nobody],
   completed |-> FALSE, cruise |-> Nobody, prior |-> Nobody,
   present |-> a \in StartPresent, pending |-> "none", timed |-> a \in StartTracked,
   crash |-> FALSE]

Init ==
  /\ interactions \in Storyboards
  /\ tick = -WarmupTicks
  /\ phase = "collide"
  /\ next = 1
  /\ released_windows = {}
  /\ sim = [triggers |-> [i \in Ids |-> FreshTrigger],
            actors |-> [a \in Actors |-> FreshActor(a)],
            events |-> [i \in Ids |-> <<>>]]

-----------------------------------------------------------------------------
(* What the engine does to its state w.                                    *)

SetActor(w, a, r) == [w EXCEPT !.actors[a] = r]
Note(w, i, what) == [w EXCEPT !.events[i] = Append(@, what)]

Ended(w, i) == w.triggers[i].ended_at # Never
End(w, i) == IF Ended(w, i) THEN w ELSE [w EXCEPT !.triggers[i].ended_at = tick]

\* abort_lateral, which longitudinal commands share.
Abort(w, i) == Note(End(w, i), i, "aborted")

\* The actor r without a command on the axis, and without i's until clause on it.
Freed(r, axis, i) ==
  [r EXCEPT !.cmd = [x \in Held |-> IF x = axis THEN Nobody ELSE @[x]],
            !.until[axis] = IF @ = i THEN Nobody ELSE @]
\* release_axis
ReleaseAxis(w, a, axis, i, reason) ==
  LET was == w.actors[a]
      takenBack == reason = "until" /\ axis \in Held /\ was.cmd[axis] = i
      stopped == IF takenBack /\ axis = "lateral" THEN Abort(w, i) ELSE w
      restored == takenBack /\ axis = "longitudinal" /\ interactions[i].verb # "gap"
      cruise == IF restored THEN was.prior ELSE was.cruise
      released == SetActor(stopped, a, [Freed(was, axis, i) EXCEPT !.cruise = cruise])
  IN  Note(End(released, i), i, reason)

\* Fault: what is pre-empted is aborted, also a gap that was completed.
PreemptCompleted(w, a, axis, i) ==
  LET previous == IF axis \in Held THEN w.actors[a].cmd[axis] ELSE Nobody
  IN  IF previous = Nobody THEN w ELSE Note(Abort(w, previous), previous, "preempted")

\* Fault: a pre-empted speed or gap does not end.
PreemptUnended(w, a, axis, i) ==
  LET previous == IF axis \in Held THEN w.actors[a].cmd[axis] ELSE Nobody
  IN  IF previous = Nobody THEN w
      ELSE Note(IF axis = "lateral" THEN Abort(w, previous) ELSE w, previous, "preempted")

\* preempt: i takes the axis over from the interaction in charge.
Preempt(w, a, axis, i) ==
  LET previous == IF axis \in Held THEN w.actors[a].cmd[axis] ELSE Nobody
      stopped == IF axis = "lateral" \/ ~Ended(w, previous) THEN Abort(w, previous) ELSE w
  IN  IF previous = Nobody THEN w ELSE Note(stopped, previous, "preempted")

Presence(a) == IF a.present THEN "present" ELSE "absent"

\* apply_route_verb: the body follows the new path, timed if it is a track.
ApplyRouteVerb(w, a, verb, feasible) ==
  IF feasible THEN SetActor(w, a, [w.actors[a] EXCEPT !.timed = (verb = "track")]) ELSE w

Take(w, a, axis, i) == SetActor(w, a, [w.actors[a] EXCEPT !.cmd[axis] = i])

\* Fault: an exist interaction is compared with the presence shown, not with the
\* one already due.
ApplyVerbToShown(w, a, i, feasible) ==
  LET verb == interactions[i].verb
  IN  IF verb \in {"present", "absent"} /\ verb # Presence(w.actors[a])
        THEN SetActor(w, a, [w.actors[a] EXCEPT !.pending = verb]) ELSE w

\* Fault: the cruise speed to return to is read after it was set.
ApplyVerbThenRead(w, a, i, feasible) ==
  IF interactions[i].verb = "speed"
    THEN SetActor(w, a, [w.actors[a] EXCEPT !.cmd["longitudinal"] = i, !.cruise = i, !.prior = i])
    ELSE w

\* The verb's own effect.  feasible: a lane change finds its lane, a route can
\* be built.
ApplyVerb(w, a, i, feasible) ==
  LET verb == interactions[i].verb
      was == w.actors[a]
  IN  CASE verb \in {"speed", "match"} ->
             SetActor(w, a, [was EXCEPT !.cmd["longitudinal"] = i, !.completed = FALSE,
                                        !.prior = was.cruise, !.cruise = i])
        [] verb = "gap" ->
             SetActor(w, a, [was EXCEPT !.cmd["longitudinal"] = i, !.completed = FALSE,
                                        !.prior = Nobody])
        [] verb = "laneOffset" -> Take(w, a, "lateral", i)
        [] verb = "changeLane" ->
             IF feasible THEN Take(w, a, "lateral", i) ELSE Take(Abort(w, i), a, "lateral", Nobody)
        [] verb \in {"route", "track"} -> ApplyRouteVerb(w, a, verb, feasible)
        [] verb \in {"present", "absent"} ->
             IF verb = (IF was.pending = "none" THEN Presence(was) ELSE was.pending)
               THEN w ELSE SetActor(w, a, [was EXCEPT !.pending = verb])
        [] OTHER -> w

\* Fault: an interaction without an until clause leaves the one of its predecessor.
ApplyInteractionKeepsUntil(w, i, feasible) ==
  LET a == interactions[i].actor
      axis == Axis(i)
      applied == ApplyVerb(Preempt(w, a, axis, i), a, i, feasible)
  IN  IF interactions[i].until
        THEN SetActor(applied, a, [applied.actors[a] EXCEPT !.until[axis] = i]) ELSE applied

\* apply_interaction
ApplyInteraction(w, i, feasible) ==
  LET a == interactions[i].actor
      axis == Axis(i)
      applied == ApplyVerb(Preempt(w, a, axis, i), a, i, feasible)
      clause == IF interactions[i].until THEN i ELSE Nobody
  IN  SetActor(applied, a, [applied.actors[a] EXCEPT !.until[axis] = clause])

\* skip_trigger
Skip(w, i) == Note([w EXCEPT !.triggers[i].status = "skipped"], i, "skipped")

-----------------------------------------------------------------------------
(* The phases of a tick, each a loop.                                      *)

\* The loop goes on to the next element, or the phase is over.
Continue(last, after) ==
  IF next < last THEN next' = next + 1 /\ phase' = phase
                 ELSE next' = 1 /\ phase' = after
InLoop(p, last, after) ==
  /\ phase = p
  /\ Continue(last, after)
  /\ UNCHANGED <<interactions, tick>>

OverActors(p, after) == InLoop(p, NumActors, after) /\ UNCHANGED released_windows
OverIds(p, after) == InLoop(p, Len(interactions), after)

\* The crash latch, and what it takes from the actor.
Disabled(r) == [r EXCEPT !.crash = TRUE, !.cmd = [x \in Held |-> Nobody],
                         !.until = [x \in Axes |-> Nobody]]

\* detect_collisions: the actor is in a contact of this tick, or not.
AfterCollision(w, a) ==
  LET lateral == w.actors[a].cmd["lateral"]
      disabled == SetActor(w, a, [Disabled(w.actors[a]) EXCEPT !.timed = FALSE])
  IN  IF lateral = Nobody THEN disabled ELSE Abort(disabled, lateral)
DetectCollisions(collides) ==
  /\ OverActors("collide", IF tick < 0 THEN "move" ELSE "complete")
  /\ collides => sim.actors[next].present /\ ~sim.actors[next].crash
  /\ sim' = IF collides THEN AfterCollision(sim, next) ELSE sim

\* evaluate_longitudinal_completions: the command in charge has reached its goal.
\* A speed command is released; a gap command is completed once and kept.
MayComplete(a) ==
  LET i == sim.actors[a].cmd["longitudinal"]
  IN  /\ i # Nobody
      /\ \/ interactions[i].verb = "speed"
         \/ interactions[i].verb = "gap" /\ ~sim.actors[a].completed
Complete(w, a) ==
  LET i == w.actors[a].cmd["longitudinal"]
      noted == Note(w, i, "completed")
  IN  IF interactions[i].verb = "gap"
        THEN SetActor(End(noted, i), a, [w.actors[a] EXCEPT !.completed = TRUE])
        ELSE ReleaseAxis(noted, a, "longitudinal", i, "complete")
EvaluateLongitudinalCompletions(reached) ==
  /\ OverActors("complete", "windows")
  /\ reached => MayComplete(next)
  /\ sim' = IF reached THEN Complete(sim, next) ELSE sim

\* evaluate_window_ends, called before the triggers and after the until clauses.
WindowOver(i) ==
  /\ sim.triggers[i].status = "fired"
  /\ tick >= interactions[i].window.end
  /\ i \notin released_windows
  /\ Axis(i) # "lateral"
\* Fault: an interaction that has ended needs no release.
CloseWindowUnended(w, i) ==
  LET a == interactions[i].actor
      inCharge == Axis(i) = "longitudinal" /\ w.actors[a].cmd["longitudinal"] = i
  IN  IF inCharge /\ ~Ended(w, i)
        THEN ReleaseAxis(End(w, i), a, "longitudinal", i, "window") ELSE End(w, i)
CloseWindow(w, i) ==
  LET a == interactions[i].actor
      inCharge == Axis(i) = "longitudinal" /\ w.actors[a].cmd["longitudinal"] = i
  IN  IF inCharge THEN ReleaseAxis(End(w, i), a, "longitudinal", i, "window") ELSE End(w, i)
EvaluateWindowEnds(p, after) ==
  /\ OverIds(p, after)
  /\ released_windows' = released_windows \cup {i \in {next} : WindowOver(i)}
  /\ sim' = IF WindowOver(next) THEN CloseWindow(sim, next) ELSE sim

\* should_fire
ReferenceTime(tr, event) == IF event = "end" THEN tr.ended_at ELSE tr.fired_at
\* Fault: the deadline is missed by a tick.
ShouldFireLate(i, holds) ==
  LET trigger == interactions[i].trigger
  IN  CASE trigger.kind = "when" ->
             IF holds THEN "fire" ELSE IF tick <= trigger.byLatest THEN "hold"
             ELSE IF trigger.ifNever = "fire" THEN "force" ELSE "skip"
        [] OTHER -> "hold"

\* Fault: a dependent does not wait for its delay.
ShouldFireAtOnce(i, holds) ==
  LET trigger == interactions[i].trigger
  IN  CASE trigger.kind = "fixed" -> IF tick >= trigger.at THEN "fire" ELSE "hold"
        [] trigger.kind = "after" ->
             IF ReferenceTime(sim.triggers[trigger.ref], trigger.event) # Never
               THEN "fire" ELSE "hold"
        [] trigger.kind = "when" -> IF holds THEN "fire" ELSE "hold"

ShouldFire(i, holds) ==
  LET trigger == interactions[i].trigger
  IN  CASE trigger.kind = "fixed" -> IF tick >= trigger.at THEN "fire" ELSE "hold"
        [] trigger.kind = "after" ->
             LET ref == sim.triggers[trigger.ref]
                 at == ReferenceTime(ref, trigger.event)
             IN  IF ref.status = "skipped" THEN "skip"
                 ELSE IF at # Never /\ tick >= at + trigger.delay THEN "fire" ELSE "hold"
        [] trigger.kind = "when" ->
             IF holds THEN "fire"
             ELSE IF tick < trigger.byLatest THEN "hold"
             ELSE IF trigger.ifNever = "fire" THEN "force" ELSE "skip"

\* The verdict of evaluate_triggers: the window gates the trigger.
Verdict(i, holds) ==
  LET window == interactions[i].window
  IN  IF tick < window.start THEN "hold"
      ELSE IF tick >= window.end THEN "skip" ELSE ShouldFire(i, holds)
Fires(i, holds) == Verdict(i, holds) \in {"fire", "force"}

Pending(i) == sim.triggers[i].status = "pending"
\* Fault: a crashed actor still obeys.
CrashBarsNothing(i) == FALSE
CrashBars(i) == sim.actors[interactions[i].actor].crash /\ interactions[i].verb # "set"
\* route_commit_status: only a route along lanes can be early or late for its junction.
Commits(i) == IF interactions[i].verb = "route" THEN {"ready", "wait", "missed"} ELSE {"ready"}

HoldTrigger(holds, commit) ==
  /\ OverIds("triggers", "until") /\ UNCHANGED released_windows
  /\ commit \in Commits(next)
  /\ Pending(next) => \/ Verdict(next, holds) = "hold"
                      \/ Fires(next, holds) /\ commit = "wait"
  /\ UNCHANGED sim

SkipTrigger(holds, commit) ==
  /\ OverIds("triggers", "until") /\ UNCHANGED released_windows
  /\ commit \in Commits(next)
  /\ Pending(next)
  /\ \/ Verdict(next, holds) = "skip"
     \/ Fires(next, holds) /\ commit = "missed"
     \/ Fires(next, holds) /\ commit = "ready" /\ CrashBars(next)
  /\ sim' = Skip(sim, next)

\* The verdict fires: the verb is applied in the same step.  Routes, existence and
\* state keys end at once.
Fire(w, i, forced, feasible) ==
  LET fired == [w EXCEPT !.triggers[i].status = "fired", !.triggers[i].fired_at = tick,
                         !.triggers[i].forced = forced]
      applied == ApplyInteraction(Note(fired, i, "fired"), i, feasible)
  IN  IF Axis(i) \in Held THEN applied ELSE [applied EXCEPT !.triggers[i].ended_at = tick]
FireTrigger(holds, feasible) ==
  /\ OverIds("triggers", "until") /\ UNCHANGED released_windows
  /\ Pending(next) /\ Fires(next, holds) /\ ~CrashBars(next)
  /\ ~feasible => interactions[next].verb \in {"changeLane", "route", "track"}
  /\ sim' = Fire(sim, next, Verdict(next, holds) = "force", feasible)

\* evaluate_until: the axes whose until condition holds are released, whoever is
\* in charge of them.
Watched(a) == {x \in Axes : sim.actors[a].until[x] # Nobody}
EvaluateUntil(due) ==
  LET a == next
      Release(w, axis) ==
        IF axis \in due THEN ReleaseAxis(w, a, axis, sim.actors[a].until[axis], "until") ELSE w
      AlongMotion == Release(Release(sim, "longitudinal"), "lateral")
  IN  /\ OverActors("until", "windows again")
      /\ due \subseteq Watched(next)
      /\ sim' = Release(Release(Release(AlongMotion, "route"), "existence"), "state")

\* plan_all and apply_all for one actor: a pending presence is adopted; a track
\* that ends, or is taken over by a driver, hands the body back; the lateral
\* manoeuvre completes or misses its deadline; a contact knocks the actor down.
Adopted(r) ==
  [r EXCEPT !.pending = "none",
            !.present = IF r.pending = "none" THEN @ ELSE r.pending = "present"]
HandedBack(r) ==
  [r EXCEPT !.timed = FALSE, !.cruise = Halted,
            !.cmd["longitudinal"] = Nobody, !.until["longitudinal"] = Nobody]
LateralDone(w, a) ==
  LET i == w.actors[a].cmd["lateral"]
  IN  ReleaseAxis(Note(w, i, "completed"), a, "lateral", i, "complete")
LateralExpired(w, a) ==
  LET i == w.actors[a].cmd["lateral"]
  IN  SetActor(Abort(w, i), a, Freed(w.actors[a], "lateral", i))
PlanAndApply(handsBack, lateral, knockedDown) ==
  LET a == next
      adopted == Adopted(sim.actors[a])
      moves == adopted.present /\ ~adopted.crash
      planned == SetActor(sim, a, IF handsBack THEN HandedBack(adopted) ELSE adopted)
      applied == CASE lateral = "runs"    -> planned
                   [] lateral = "done"    -> LateralDone(planned, a)
                   [] lateral = "expired" -> LateralExpired(planned, a)
  IN  /\ phase = "move"
      /\ handsBack => moves /\ adopted.timed
      /\ lateral # "runs" =>
           moves /\ ~planned.actors[a].timed /\ planned.actors[a].cmd["lateral"] # Nobody
      /\ knockedDown => moves
      /\ sim' = IF knockedDown THEN SetActor(applied, a, Disabled(applied.actors[a])) ELSE applied
      /\ Continue(NumActors, "collide")
      /\ tick' = IF next = NumActors THEN tick + 1 ELSE tick
      /\ UNCHANGED <<interactions, released_windows>>

\* finish_never_fired, on the last tick, instead of a plan.
FinishNeverFired ==
  LET Lateral(i) == sim.actors[interactions[i].actor].cmd["lateral"] = i
      Over(i) == CASE Pending(i) -> Skip(sim, i)
                   [] Lateral(i) -> Abort(sim, i)
                   [] OTHER      -> sim
  IN  /\ phase = "finish"
      /\ phase' = "finished"
      /\ sim' = [triggers |-> [i \in Ids |-> Over(i).triggers[i]],
                 events |-> [i \in Ids |-> Over(i).events[i]],
                 actors |-> [a \in Actors |->
                               [sim.actors[a] EXCEPT !.cmd["lateral"] = Nobody]]]
      /\ UNCHANGED <<interactions, tick, next, released_windows>>

\* advance returns done: nothing runs any more.
Finished == phase = "finished" /\ UNCHANGED vars

Next ==
  \/ \E collides \in BOOLEAN : DetectCollisions(collides)
  \/ \E reached \in BOOLEAN : EvaluateLongitudinalCompletions(reached)
  \/ EvaluateWindowEnds("windows", "triggers")
  \/ \E holds \in BOOLEAN, commit \in {"ready", "wait", "missed"} :
       HoldTrigger(holds, commit) \/ SkipTrigger(holds, commit)
  \/ \E holds, feasible \in BOOLEAN : FireTrigger(holds, feasible)
  \/ \E due \in SUBSET Axes : EvaluateUntil(due)
  \/ EvaluateWindowEnds("windows again", IF tick < ClipTicks THEN "move" ELSE "finish")
  \/ \E handsBack, knockedDown \in BOOLEAN, lateral \in {"runs", "done", "expired"} :
       PlanAndApply(handsBack, lateral, knockedDown)
  \/ FinishNeverFired
  \/ Finished

Spec == Init /\ [][Next]_vars

-----------------------------------------------------------------------------

(* Properties.                                                             *)

\* How often an event of one of these kinds was emitted for interaction i.
Emitted(i, kinds) == Cardinality({n \in DOMAIN sim.events[i] : sim.events[i][n] \in kinds})
\* The triggers of this tick have all been evaluated.
Evaluated == phase \in {"until", "windows again", "move", "finish"} /\ tick >= 0
WindowOpen(i) == interactions[i].window.start <= tick /\ tick < interactions[i].window.end

\* An interaction starts at most once, is never both fired and skipped, ends at
\* most once, and nothing happens to it before it starts; when the clip is over it
\* has started or been skipped, and a lateral one that started has ended (unless a
\* knock-down took it).  Completions, until clauses, windows, pre-emption,
\* collisions and the end of the clip can all end the same interaction.
LifecycleOnce ==
  \A i \in Ids :
    /\ Emitted(i, {"fired", "skipped"}) <= 1
    /\ Emitted(i, {"completed", "aborted"}) <= 1
    /\ sim.events[i] # <<>> => Head(sim.events[i]) \in {"fired", "skipped"}
    /\ Emitted(i, {"skipped"}) = 1 => Len(sim.events[i]) = 1
    /\ phase = "finished" =>
         /\ Emitted(i, {"fired", "skipped"}) = 1
         /\ Axis(i) = "lateral" /\ ~sim.actors[interactions[i].actor].crash =>
              Emitted(i, {"skipped", "completed", "aborted"}) = 1

\* The command in charge of an axis is a started, unfinished interaction of that
\* actor and axis (a gap that was reached follows on); and an interaction that
\* started and has not ended is in charge, unless a crash or the end of a track
\* took the body from it.
InCharge(a, axis, i) ==
  /\ sim.triggers[i].status = "fired"
  /\ interactions[i].actor = a /\ Axis(i) = axis
  /\ Ended(sim, i) => interactions[i].verb = "gap" /\ sim.actors[a].completed
BodyTaken(a) ==
  \/ sim.actors[a].crash
  \/ a \in StartTracked
  \/ \E i \in Ids : /\ interactions[i].actor = a /\ interactions[i].verb = "track"
                    /\ sim.triggers[i].status = "fired"
RunningIsInCharge ==
  /\ \A a \in Actors, axis \in Held :
       LET i == sim.actors[a].cmd[axis] IN i # Nobody => InCharge(a, axis, i)
  /\ \A i \in Ids :
       Axis(i) \in Held /\ sim.triggers[i].status = "fired" /\ ~Ended(sim, i) =>
         LET a == interactions[i].actor
         IN  sim.actors[a].cmd[Axis(i)] = i \/ BodyTaken(a)

\* An until clause that waits on an axis belongs to the interaction in charge of it:
\* release_axis drops whatever command it finds, so that a clause left behind by
\* an earlier interaction would stop a later one.
UntilOwned ==
  \A a \in Actors, axis \in Axes :
    LET i == sim.actors[a].until[axis]
    IN  i # Nobody =>
          /\ interactions[i].until /\ interactions[i].actor = a /\ Axis(i) = axis
          /\ axis \in Held => sim.actors[a].cmd[axis] \in {i, Nobody}

\* A window bounds its interaction: it starts inside it, and no speed or gap
\* command acts over a step that begins at or after its end, not even a gap that
\* counts as ended because it was reached.
WindowBounds ==
  \A i \in Ids :
    LET fired == sim.triggers[i].fired_at
        window == interactions[i].window
    IN  /\ fired # Never => window.start <= fired /\ fired < window.end /\ fired >= 0
        /\ phase \in {"move", "finish"} /\ tick >= window.end =>
             sim.actors[interactions[i].actor].cmd["longitudinal"] # i

\* A deadline is met: once byLatest has come inside the window, the interaction
\* is no longer waiting (a route may wait for its junction), and with ifNever fire
\* it has started unless its actor had crashed.
DeadlineMet ==
  \A i \in Ids :
    LET trigger == interactions[i].trigger
    IN  /\ Evaluated /\ trigger.kind = "when" /\ interactions[i].verb # "route"
        /\ trigger.byLatest <= tick /\ WindowOpen(i)
        => /\ ~Pending(i)
           /\ trigger.ifNever = "fire" /\ ~sim.actors[interactions[i].actor].crash =>
                sim.triggers[i].status = "fired"

\* A dependent starts no earlier than its delay after the start or the end it waits
\* for, and at most one tick later than that: what happens after its turn in a tick
\* is seen by it in the next one.  It does not start after a parent that was skipped.
Due(i) == interactions[i].trigger.delay
            + ReferenceTime(sim.triggers[interactions[i].trigger.ref], interactions[i].trigger.event)
Awaited(i) ==
  ReferenceTime(sim.triggers[interactions[i].trigger.ref], interactions[i].trigger.event) # Never
DependentsFollow ==
  \A i \in {j \in Ids : interactions[j].trigger.kind = "after"} :
    /\ sim.triggers[i].status = "fired" => Awaited(i) /\ sim.triggers[i].fired_at >= Due(i)
    /\ Evaluated /\ Awaited(i) /\ tick > Due(i) /\ WindowOpen(i) /\ interactions[i].verb # "route"
         => ~Pending(i)

\* An actor is present as the last exist interaction of the ticks before this one
\* left it, the later id deciding within a tick, and as the clip began without any:
\* what fires in this tick shows in the next.
ExistFired(a) ==
  {i \in Ids : /\ interactions[i].actor = a /\ Axis(i) = "existence"
               /\ sim.triggers[i].status = "fired" /\ sim.triggers[i].fired_at < tick}
Latest(a) ==
  CHOOSE i \in ExistFired(a) : \A j \in ExistFired(a) :
    LET ti == sim.triggers[i].fired_at
        tj == sim.triggers[j].fired_at
    IN  tj < ti \/ (tj = ti /\ j <= i)
PresentAsScripted ==
  phase # "move" =>
    \A a \in Actors :
      Presence(sim.actors[a]) =
        IF ExistFired(a) = {} THEN (IF a \in StartPresent THEN "present" ELSE "absent")
        ELSE interactions[Latest(a)].verb

\* When an until clause takes a speed back, the actor returns to the cruise speed it
\* had before: the target that was taken back is neither the cruise speed nor what
\* a later command would return to.
TakenBackStaysBack ==
  \A a \in Actors :
    LET was == sim.actors[a]
        Back(i) == i \in Ids => Emitted(i, {"until"}) = 0
    IN  /\ Back(was.cruise)
        /\ was.cmd["longitudinal"] # Nobody => Back(was.prior)

\* A crashed actor is at nobody's command: whatever comes due after the crash, no
\* axis of motion is held again and no until clause but that of a state key waits.
CrashDisables ==
  \A a \in Actors : sim.actors[a].crash =>
    /\ \A axis \in Held : sim.actors[a].cmd[axis] = Nobody
    /\ \A axis \in Axes \ {"state"} : sim.actors[a].until[axis] = Nobody

TypeOK ==
  /\ interactions \in Storyboards
  /\ tick \in Ticks
  /\ phase \in {"collide", "complete", "windows", "triggers", "until", "windows again",
                "move", "finish", "finished"}
  /\ next \in Actors \cup Ids
  /\ released_windows \subseteq Ids
  /\ sim.triggers \in
       [Ids -> [status: {"pending", "fired", "skipped"}, fired_at: Ticks \cup {Never},
                ended_at: Ticks \cup {Never}, forced: BOOLEAN]]
  /\ sim.actors \in
       [Actors -> [cmd: [Held -> Ids \cup {Nobody}], until: [Axes -> Ids \cup {Nobody}],
                   completed: BOOLEAN, cruise: Ids \cup {Nobody, Halted},
                   prior: Ids \cup {Nobody, Halted}, present: BOOLEAN,
                   pending: {"none", "present", "absent"}, timed: BOOLEAN, crash: BOOLEAN]]
  /\ sim.events \in
       [Ids -> Seq({"fired", "skipped", "completed", "aborted", "preempted", "complete",
                    "window", "until"})]
=============================================================================
