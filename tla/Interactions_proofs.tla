------------------------ MODULE Interactions_proofs ------------------------
(***************************************************************************)
(* The interactions of any clip: state and events keep their types, an     *)
(* until clause that waits belongs to the interaction in charge of its     *)
(* axis, and a crashed actor is at nobody's command.                       *)
(***************************************************************************)
EXTENDS Interactions, TLAPS

Times == Ticks \cup {Never}
Kinds == {"fired", "skipped", "completed", "aborted", "preempted", "complete", "window", "until"}
TriggerStates ==
  [status: {"pending", "fired", "skipped"}, fired_at: Times, ended_at: Times, forced: BOOLEAN]
Holders == Ids \cup {Nobody}
Cruises == Ids \cup {Nobody, Halted}
ActorStates ==
  [cmd: [Held -> Holders], until: [Axes -> Holders], completed: BOOLEAN, cruise: Cruises,
   prior: Cruises, present: BOOLEAN, pending: {"none", "present", "absent"},
   timed: BOOLEAN, crash: BOOLEAN]
Sims ==
  [triggers: [Ids -> TriggerStates], actors: [Actors -> ActorStates], events: [Ids -> Seq(Kinds)]]

\* Of an actor r: its until clauses are of interactions that command it, on their
\* axis, and are in charge of it if anyone is.
Owned(a, r) ==
  \A axis \in Axes :
    r.until[axis] # Nobody =>
      /\ interactions[r.until[axis]].until
      /\ interactions[r.until[axis]].actor = a
      /\ Axis(r.until[axis]) = axis
      /\ axis \in Held => r.cmd[axis] \in {r.until[axis], Nobody}

\* Of an actor r: if it has crashed, nothing commands it.
Disarmed(r) ==
  r.crash => /\ \A axis \in Held : r.cmd[axis] = Nobody
             /\ \A axis \in Axes \ {"state"} : r.until[axis] = Nobody

Sound(a, r) == r \in ActorStates /\ Owned(a, r) /\ Disarmed(r)
Good(w) == w \in Sims /\ \A a \in Actors : Sound(a, w.actors[a])

\* Where a tick may be: a loop over actors or one over interactions, and steps
\* that lead on only before the last tick.
AtActors == phase \in {"collide", "complete", "until", "move"} => next \in Actors
AtIds == phase \in {"windows", "triggers", "windows again"} => next \in Ids
Progress ==
  /\ interactions \in Storyboards
  /\ tick \in Ticks
  /\ phase \in {"collide", "complete", "windows", "triggers", "until", "windows again",
                "move", "finish", "finished"}
  /\ phase = "move" => tick < ClipTicks
  /\ next \in Actors \cup Ids /\ AtActors /\ AtIds
  /\ released_windows \subseteq Ids

\* The inductive invariant.
IInv == Progress /\ Good(sim)

-----------------------------------------------------------------------------
(* The clip.                                                               *)

LEMMA StoryFacts ==
  ASSUME interactions \in Storyboards
  PROVE  /\ interactions \in Seq(Interaction)
         /\ Len(interactions) \in Nat \ {0} /\ Ids = 1..Len(interactions)
         /\ \A i \in Ids : interactions[i] \in Interaction
<1>1. interactions \in Seq(Interaction) /\ interactions # <<>>
  BY InteractionsAssumption
<1>. QED BY <1>1 DEF Ids

\* The interactions are numbered from one.
LEMMA FirstFacts ==
  ASSUME interactions \in Storyboards
  PROVE  /\ 1 \in Ids /\ 1 \in Actors
         /\ \A i \in Ids : i < Len(interactions) => i + 1 \in Ids
<1> DEFINE n == Len(interactions)
<1>1. n \in Nat \ {0} /\ Ids = 1..n
  BY StoryFacts
<1>2. 1 \in Actors
  BY InteractionsAssumption DEF Actors
<1> HIDE DEF n
<1>3. 1 \in Ids /\ \A i \in Ids : i < n => i + 1 \in Ids
  BY <1>1
<1>. QED BY <1>2, <1>3 DEF n

LEMMA ConstantFacts ==
  /\ NumActors \in Nat \ {0} /\ Actors = 1..NumActors
  /\ WarmupTicks \in Nat /\ ClipTicks \in Nat /\ Never \in Int
  /\ Ticks = -WarmupTicks..ClipTicks /\ Never \notin Ticks
BY InteractionsAssumption DEF Actors, Never, Ticks

\* Every interaction has one axis, and those of motion are held.
LEMMA AxisFacts ==
  ASSUME interactions \in Storyboards, NEW i \in Ids
  PROVE  /\ Axis(i) \in Axes
         /\ interactions[i].actor \in Actors /\ interactions[i].until \in BOOLEAN
         /\ interactions[i].verb \in Verbs
         /\ interactions[i].verb \in {"speed", "match", "gap"} <=> Axis(i) = "longitudinal"
         /\ interactions[i].verb \in {"changeLane", "laneOffset"} <=> Axis(i) = "lateral"
         /\ interactions[i].verb = "set" <=> Axis(i) = "state"
         /\ i # Nobody /\ Nobody \notin Ids
<1>1. interactions[i] \in Interaction
  BY StoryFacts
<1>2. interactions[i].verb \in Verbs /\ interactions[i].actor \in Actors
      /\ interactions[i].until \in BOOLEAN
  BY <1>1 DEF Interaction
<1>3. i # Nobody /\ Nobody \notin Ids
  BY StoryFacts DEF Nobody
<1>. QED BY <1>2, <1>3 DEF Axis, Axes, Verbs

-----------------------------------------------------------------------------
(* What the engine does to its state.                                      *)

LEMMA NoteFacts ==
  ASSUME NEW w \in Sims, NEW i \in Ids, NEW e \in Kinds
  PROVE  /\ Note(w, i, e) \in Sims
         /\ Note(w, i, e).actors = w.actors /\ Note(w, i, e).triggers = w.triggers
<1>1. Append(w.events[i], e) \in Seq(Kinds)
  BY DEF Sims
<1>. QED BY <1>1 DEF Note, Sims

LEMMA EndFacts ==
  ASSUME tick \in Ticks, NEW w \in Sims, NEW i \in Ids
  PROVE  /\ End(w, i) \in Sims
         /\ End(w, i).actors = w.actors
<1> DEFINE t == w.triggers[i]
           v == [w EXCEPT !.triggers[i].ended_at = tick]
<1>1. t \in TriggerStates /\ [t EXCEPT !.ended_at = tick] \in TriggerStates
  BY DEF Sims, TriggerStates, Times
<1>2. v = [w EXCEPT !.triggers = [w.triggers EXCEPT ![i] = [t EXCEPT !.ended_at = tick]]]
  BY DEF Sims
<1>3. [w.triggers EXCEPT ![i] = [t EXCEPT !.ended_at = tick]] \in [Ids -> TriggerStates]
  BY <1>1 DEF Sims
<1>4. v \in Sims /\ v.actors = w.actors
  BY <1>2, <1>3 DEF Sims
<1>. QED BY <1>4 DEF End

LEMMA AbortFacts ==
  ASSUME tick \in Ticks, NEW w \in Sims, NEW i \in Ids
  PROVE  Abort(w, i) \in Sims /\ Abort(w, i).actors = w.actors
BY EndFacts, NoteFacts DEF Abort, Kinds

LEMMA SkipFacts ==
  ASSUME NEW w \in Sims, NEW i \in Ids
  PROVE  Skip(w, i) \in Sims /\ Skip(w, i).actors = w.actors
<1> DEFINE v == [w EXCEPT !.triggers[i].status = "skipped"]
<1>1. v \in Sims /\ v.actors = w.actors
  BY DEF Sims, TriggerStates
<1>. QED BY <1>1, NoteFacts DEF Skip, Kinds

LEMMA SetActorFacts ==
  ASSUME NEW w \in Sims, NEW a \in Actors, NEW r \in ActorStates
  PROVE  /\ SetActor(w, a, r) \in Sims
         /\ SetActor(w, a, r).actors[a] = r
         /\ \A b \in Actors \ {a} : SetActor(w, a, r).actors[b] = w.actors[b]
BY DEF SetActor, Sims

-----------------------------------------------------------------------------
(* What keeps the clauses of the actors in order.                          *)

\* What is true of every actor stays true when the actors do.
LEMMA SameActors ==
  ASSUME NEW w, NEW v \in Sims, Good(w), v.actors = w.actors
  PROVE  Good(v)
BY DEF Good

\* and when one actor becomes another sound one.
LEMMA OneActor ==
  ASSUME NEW w, Good(w), NEW a \in Actors, NEW r, Sound(a, r)
  PROVE  Good(SetActor(w, a, r))
<1>1. w \in Sims /\ r \in ActorStates
  BY DEF Good, Sound
<1>. QED BY <1>1, SetActorFacts DEF Good

\* An actor stays sound when commands and clauses are taken from it, and nothing is
\* given to it.
LEMMA Relieved ==
  ASSUME NEW a, NEW r, NEW s \in ActorStates, Sound(a, r), s.crash = r.crash,
         \A x \in Held : s.cmd[x] \in {r.cmd[x], Nobody},
         \A x \in Axes : s.until[x] \in {r.until[x], Nobody}
  PROVE  Sound(a, s)
<1>1. Owned(a, r) /\ Disarmed(r)
  BY DEF Sound
<1>2. Owned(a, s)
  BY <1>1 DEF Owned
<1>3. Disarmed(s)
  BY <1>1 DEF Disarmed
<1>. QED BY <1>2, <1>3 DEF Sound

\* Freed takes the command and the interaction's until clause from the axis.
LEMMA FreedFacts ==
  ASSUME NEW a, NEW r, Sound(a, r), NEW axis \in Axes, NEW i
  PROVE  Sound(a, Freed(r, axis, i))
<1> DEFINE s == Freed(r, axis, i)
<1>1. r \in ActorStates
  BY DEF Sound
<1>2. /\ s.crash = r.crash
      /\ s.cmd = [x \in Held |-> IF x = axis THEN Nobody ELSE r.cmd[x]]
      /\ s.until = [r.until EXCEPT ![axis] = IF @ = i THEN Nobody ELSE @]
  BY <1>1 DEF ActorStates, Freed
<1>3. s.cmd \in [Held -> Holders] /\ s.until \in [Axes -> Holders]
  BY <1>1, <1>2 DEF ActorStates, Holders
<1>4. s \in ActorStates
  BY <1>1, <1>2, <1>3 DEF ActorStates, Freed
<1>5. /\ \A x \in Held : s.cmd[x] \in {r.cmd[x], Nobody}
      /\ \A x \in Axes : s.until[x] \in {r.until[x], Nobody}
  BY <1>1, <1>2 DEF ActorStates
<1> HIDE DEF s
<1>. QED BY <1>2, <1>4, <1>5, Relieved DEF s

\* What an actor remembers of speeds, of its body and of its presence is of no
\* account for its soundness.
LEMMA SameClauses ==
  ASSUME NEW a, NEW r, NEW s \in ActorStates, Sound(a, r), s.crash = r.crash,
         s.cmd = r.cmd, s.until = r.until
  PROVE  Sound(a, s)
BY Relieved

LEMMA ReleaseAxisFacts ==
  ASSUME interactions \in Storyboards, tick \in Ticks, NEW w, Good(w), NEW a \in Actors,
         NEW axis \in Axes, NEW i \in Ids, NEW reason \in {"complete", "window", "until"}
  PROVE  Good(ReleaseAxis(w, a, axis, i, reason))
<1> DEFINE was == w.actors[a]
           takenBack == reason = "until" /\ axis \in Held /\ was.cmd[axis] = i
           stopped == IF takenBack /\ axis = "lateral" THEN Abort(w, i) ELSE w
           restored == takenBack /\ axis = "longitudinal" /\ interactions[i].verb # "gap"
           cruise == IF restored THEN was.prior ELSE was.cruise
           free == [Freed(was, axis, i) EXCEPT !.cruise = cruise]
           freed == SetActor(stopped, a, free)
<1>1. ReleaseAxis(w, a, axis, i, reason) = Note(End(freed, i), i, reason)
  BY DEF ReleaseAxis
<1>2. w \in Sims /\ stopped \in Sims /\ stopped.actors = w.actors
  BY AbortFacts DEF Good
<1>3. Good(stopped)
  <2> HIDE DEF stopped
  <2>. QED BY <1>2, SameActors
<1>4. Sound(a, was) /\ was \in ActorStates
  BY DEF Good, Sound
<1>5. cruise \in Cruises
  BY <1>4 DEF ActorStates
<1> HIDE DEF cruise, was
<1>6. Sound(a, free)
  <2>1. Sound(a, Freed(was, axis, i)) /\ Freed(was, axis, i) \in ActorStates
    BY <1>4, FreedFacts DEF Sound
  <2>2. free \in ActorStates /\ free.crash = Freed(was, axis, i).crash
        /\ free.cmd = Freed(was, axis, i).cmd /\ free.until = Freed(was, axis, i).until
    BY <1>5, <2>1 DEF ActorStates
  <2> HIDE DEF free
  <2>. QED BY <2>1, <2>2, SameClauses
<1> HIDE DEF free, stopped
<1>7. Good(freed)
  BY <1>3, <1>6, OneActor
<1>8. freed \in Sims
  BY <1>7 DEF Good
<1> HIDE DEF freed
<1>9. End(freed, i) \in Sims /\ End(freed, i).actors = freed.actors
  BY <1>8, EndFacts
<1>10. reason \in Kinds
  BY DEF Kinds
<1>11. /\ Note(End(freed, i), i, reason) \in Sims
       /\ Note(End(freed, i), i, reason).actors = freed.actors
  BY <1>9, <1>10, NoteFacts
<1>. QED BY <1>1, <1>7, <1>9, <1>11, SameActors, SMTT(30)

LEMMA PreemptFacts ==
  ASSUME interactions \in Storyboards, tick \in Ticks, NEW w \in Sims, NEW a \in Actors,
         NEW axis \in Axes, NEW i \in Ids
  PROVE  Preempt(w, a, axis, i) \in Sims /\ Preempt(w, a, axis, i).actors = w.actors
<1> DEFINE previous == IF axis \in Held THEN w.actors[a].cmd[axis] ELSE Nobody
           stopped == IF axis = "lateral" \/ ~Ended(w, previous) THEN Abort(w, previous) ELSE w
<1>1. CASE previous = Nobody
  BY <1>1 DEF Preempt
<1>2. CASE previous # Nobody
  <2>1. previous \in Ids
    BY <1>2 DEF Sims, ActorStates, Holders
  <2>2. stopped \in Sims /\ stopped.actors = w.actors
    BY <2>1, AbortFacts
  <2>3. Preempt(w, a, axis, i) = Note(stopped, previous, "preempted")
    BY <1>2 DEF Preempt
  <2> HIDE DEF stopped, previous
  <2>4. /\ Note(stopped, previous, "preempted") \in Sims
        /\ Note(stopped, previous, "preempted").actors = stopped.actors
    BY <2>1, <2>2, NoteFacts DEF Kinds
  <2>. QED BY <2>2, <2>3, <2>4
<1>. QED BY <1>1, <1>2

\* What a verb does to its actor r, becoming s: at most its own axis changes hands,
\* and then it commands the axis, or nobody does.
Commanded(i, r, s) ==
  /\ s \in ActorStates
  /\ s.until = r.until /\ s.crash = r.crash
  /\ \A x \in Held \ {Axis(i)} : s.cmd[x] = r.cmd[x]
  /\ Axis(i) \in Held => s.cmd[Axis(i)] \in {i, Nobody}

\* v is w but for actor a, to whom i's verb has been applied.
Applied(i, a, w, v) ==
  /\ v \in Sims
  /\ \A b \in Actors \ {a} : v.actors[b] = w.actors[b]
  /\ Commanded(i, w.actors[a], v.actors[a])

LEMMA AppliedByOne ==
  ASSUME NEW i, NEW w \in Sims, NEW a \in Actors, NEW r, Commanded(i, w.actors[a], r)
  PROVE  Applied(i, a, w, SetActor(w, a, r))
BY SetActorFacts DEF Applied, Commanded

LEMMA ApplyVerbFacts ==
  ASSUME interactions \in Storyboards, tick \in Ticks, NEW w \in Sims, NEW i \in Ids,
         NEW a \in Actors, NEW feasible \in BOOLEAN
  PROVE  Applied(i, a, w, ApplyVerb(w, a, i, feasible))
<1> DEFINE v == ApplyVerb(w, a, i, feasible)
           was == w.actors[a]
           verb == interactions[i].verb
<1>0. was \in ActorStates /\ i \in Holders /\ Nobody \in Holders /\ w.actors = w.actors
  BY DEF Sims, Holders
<1>1. CASE verb \in {"speed", "match"}
  <2> DEFINE r == [was EXCEPT !.cmd["longitudinal"] = i, !.completed = FALSE,
                              !.prior = was.cruise, !.cruise = i]
  <2>1. v = SetActor(w, a, r)
    BY <1>1 DEF ApplyVerb
  <2>2. Axis(i) = "longitudinal"
    BY <1>1, AxisFacts
  <2>3. r \in ActorStates /\ r.until = was.until /\ r.crash = was.crash
        /\ r.cmd = [was.cmd EXCEPT !["longitudinal"] = i]
    BY <1>0 DEF ActorStates, Cruises, Holders
  <2>4. Commanded(i, was, r)
    BY <1>0, <2>2, <2>3 DEF Commanded, ActorStates, Held
  <2> HIDE DEF r
  <2>. QED BY <2>1, <2>4, AppliedByOne
<1>2. CASE verb = "gap"
  <2> DEFINE r == [was EXCEPT !.cmd["longitudinal"] = i, !.completed = FALSE, !.prior = Nobody]
  <2>1. v = SetActor(w, a, r)
    BY <1>2 DEF ApplyVerb
  <2>2. Axis(i) = "longitudinal"
    BY <1>2, AxisFacts
  <2>3. r \in ActorStates /\ r.until = was.until /\ r.crash = was.crash
        /\ r.cmd = [was.cmd EXCEPT !["longitudinal"] = i]
    BY <1>0 DEF ActorStates, Cruises, Holders
  <2>4. Commanded(i, was, r)
    BY <1>0, <2>2, <2>3 DEF Commanded, ActorStates, Held
  <2> HIDE DEF r
  <2>. QED BY <2>1, <2>4, AppliedByOne
<1>3. CASE verb \in {"changeLane", "laneOffset"}
  <2>1. Abort(w, i) \in Sims /\ Abort(w, i).actors = w.actors
    BY AbortFacts
  <2>2. PICK u \in Sims, c \in {i, Nobody} :
          u.actors = w.actors /\ v = Take(u, a, "lateral", c)
    BY <1>3, <2>1 DEF ApplyVerb
  <2> DEFINE r == [was EXCEPT !.cmd["lateral"] = c]
  <2>3. v = SetActor(u, a, r)
    BY <2>2 DEF Take
  <2>4. Axis(i) = "lateral"
    BY <1>3, AxisFacts
  <2>5. r \in ActorStates /\ r.until = was.until /\ r.crash = was.crash
        /\ r.cmd = [was.cmd EXCEPT !["lateral"] = c]
    BY <1>0 DEF ActorStates, Holders
  <2>6. Commanded(i, was, r)
    BY <1>0, <2>4, <2>5 DEF Commanded, ActorStates, Held
  <2> HIDE DEF r
  <2>7. Applied(i, a, u, v)
    BY <2>2, <2>3, <2>6, AppliedByOne
  <2>. QED BY <2>2, <2>7 DEF Applied
<1>4. CASE verb \in {"route", "track", "present", "absent", "set"}
  <2> DEFINE timed == [was EXCEPT !.timed = (verb = "track")]
             pending == [was EXCEPT !.pending = verb]
  <2>1. \/ v = w
        \/ v = SetActor(w, a, timed)
        \/ verb \in {"present", "absent"} /\ v = SetActor(w, a, pending)
    BY <1>4 DEF ApplyVerb, ApplyRouteVerb
  <2>2. Axis(i) \notin Held
    BY <1>4, AxisFacts DEF Held
  <2>3. Commanded(i, was, was)
    BY <1>0, <2>2 DEF Commanded
  <2>4. Commanded(i, was, timed)
    BY <1>0, <2>2 DEF Commanded, ActorStates
  <2>5. verb \in {"present", "absent"} => Commanded(i, was, pending)
    BY <1>0, <2>2 DEF Commanded, ActorStates
  <2> HIDE DEF timed, pending
  <2>6. Applied(i, a, w, w)
    BY <2>3 DEF Applied
  <2>. QED BY <2>1, <2>4, <2>5, <2>6, AppliedByOne
<1>5. verb \in Verbs
  BY AxisFacts
<1>. QED BY <1>1, <1>2, <1>3, <1>4, <1>5 DEF Verbs

\* The clause of the new interaction takes the place of its predecessor's.
LEMMA ApplyInteractionFacts ==
  ASSUME interactions \in Storyboards, tick \in Ticks, NEW w, Good(w), NEW i \in Ids,
         NEW feasible \in BOOLEAN,
         w.actors[interactions[i].actor].crash => Axis(i) = "state"
  PROVE  Good(ApplyInteraction(w, i, feasible))
<1> DEFINE a == interactions[i].actor
           axis == Axis(i)
           taken == Preempt(w, a, axis, i)
           applied == ApplyVerb(taken, a, i, feasible)
           clause == IF interactions[i].until THEN i ELSE Nobody
           r == w.actors[a]
           s == applied.actors[a]
           t == [s EXCEPT !.until[axis] = clause]
<1>1. w \in Sims /\ a \in Actors /\ axis \in Axes /\ Sound(a, r)
  BY AxisFacts DEF Good
<1>2. taken \in Sims /\ taken.actors = w.actors
  BY <1>1, PreemptFacts
<1>3. Applied(i, a, taken, applied)
  <2> HIDE DEF taken, a
  <2>. QED BY <1>1, <1>2, ApplyVerbFacts
<1>4. ApplyInteraction(w, i, feasible) = SetActor(applied, a, t)
  BY DEF ApplyInteraction
<1>5. /\ applied \in Sims /\ Commanded(i, r, s)
      /\ \A b \in Actors \ {a} : applied.actors[b] = w.actors[b]
  BY <1>2, <1>3 DEF Applied
<1>6. clause \in Holders
  BY SMTT(30) DEF Holders
<1>7. s \in ActorStates /\ r \in ActorStates
  BY <1>1, <1>5 DEF Commanded, Sound
<1> HIDE DEF applied, taken, s, r
<1>8. t \in ActorStates /\ t.cmd = s.cmd /\ t.crash = s.crash
      /\ t.until = [s.until EXCEPT ![axis] = clause]
  BY <1>1, <1>6, <1>7 DEF ActorStates
<1> HIDE DEF t
<1>9. /\ \A x \in Axes \ {axis} : t.until[x] = r.until[x]
      /\ \A x \in Held \ {axis} : t.cmd[x] = r.cmd[x]
      /\ t.until[axis] = clause
      /\ axis \in Held => t.cmd[axis] \in {i, Nobody}
      /\ t.crash = r.crash
  BY <1>1, <1>5, <1>7, <1>8 DEF Commanded, ActorStates
<1>10. Owned(a, t)
  <2> SUFFICES ASSUME NEW x \in Axes, t.until[x] # Nobody
               PROVE  /\ interactions[t.until[x]].until
                      /\ interactions[t.until[x]].actor = a
                      /\ Axis(t.until[x]) = x
                      /\ x \in Held => t.cmd[x] \in {t.until[x], Nobody}
    BY DEF Owned
  <2>1. CASE x = axis
    BY <1>9, <2>1
  <2>2. CASE x # axis
    BY <1>1, <1>9, <2>2 DEF Sound, Owned
  <2>. QED BY <2>1, <2>2
<1>11. Disarmed(t)
  <2> SUFFICES ASSUME t.crash PROVE Disarmed(t)
    BY DEF Disarmed
  <2>1. axis = "state" /\ "state" \notin Held
    BY <1>9 DEF r, Held
  <2>. QED BY <1>1, <1>9, <2>1 DEF Sound, Disarmed
<1>12. Sound(a, t)
  BY <1>8, <1>10, <1>11 DEF Sound
<1>13. Good(SetActor(applied, a, t))
  <2> HIDE DEF a
  <2>1. /\ SetActor(applied, a, t) \in Sims
        /\ SetActor(applied, a, t).actors[a] = t
        /\ \A b \in Actors \ {a} : SetActor(applied, a, t).actors[b] = w.actors[b]
    BY <1>1, <1>5, <1>8, SetActorFacts
  <2>. QED BY <1>12, <2>1 DEF Good
<1>. QED BY <1>4, <1>13

-----------------------------------------------------------------------------
(* The handlers of a tick keep every actor sound.                          *)

LEMMA SkipGood ==
  ASSUME NEW w, Good(w), NEW i \in Ids
  PROVE  Good(Skip(w, i))
BY SkipFacts, SameActors DEF Good

LEMMA AbortGood ==
  ASSUME tick \in Ticks, NEW w, Good(w), NEW i \in Ids
  PROVE  Good(Abort(w, i))
BY AbortFacts, SameActors DEF Good

LEMMA FireFacts ==
  ASSUME interactions \in Storyboards, tick \in Ticks, NEW w, Good(w), NEW i \in Ids,
         NEW forced \in BOOLEAN, NEW feasible \in BOOLEAN,
         w.actors[interactions[i].actor].crash => Axis(i) = "state"
  PROVE  Good(Fire(w, i, forced, feasible))
<1> DEFINE fired == [w EXCEPT !.triggers[i].status = "fired", !.triggers[i].fired_at = tick,
                              !.triggers[i].forced = forced]
           tr == [w.triggers[i] EXCEPT !.status = "fired", !.fired_at = tick, !.forced = forced]
           noted == Note(fired, i, "fired")
           applied == ApplyInteraction(noted, i, feasible)
           ended == [applied EXCEPT !.triggers[i].ended_at = tick]
<1>1. w \in Sims
  BY DEF Good
<1>2. tr \in TriggerStates
  BY <1>1, ZenonT(40) DEF Sims, TriggerStates, Times
<1>3. fired = [w EXCEPT !.triggers[i] = tr]
  BY <1>1 DEF Sims, TriggerStates
<1>4. fired \in Sims /\ fired.actors = w.actors
  <2> HIDE DEF tr
  <2>1. [w EXCEPT !.triggers[i] = tr] \in Sims /\ [w EXCEPT !.triggers[i] = tr].actors = w.actors
    BY <1>1, <1>2 DEF Sims
  <2> HIDE DEF fired
  <2>. QED BY <1>3, <2>1
<1> HIDE DEF fired
<1>5. noted \in Sims /\ noted.actors = w.actors
  BY <1>4, NoteFacts DEF Kinds
<1> HIDE DEF noted
<1>6. Good(noted)
  BY <1>5, SameActors
<1>7. Good(applied)
  BY <1>5, <1>6, ApplyInteractionFacts
<1>8. applied \in Sims
  BY <1>7 DEF Good
<1>9. Fire(w, i, forced, feasible) = IF Axis(i) \in Held THEN applied ELSE ended
  BY DEF Fire, fired, noted
<1> HIDE DEF applied
<1>10. ended \in Sims /\ ended.actors = applied.actors
  BY <1>8, ZenonT(40) DEF Sims, TriggerStates, Times
<1> HIDE DEF ended
<1>11. Good(ended)
  BY <1>7, <1>10, SameActors
<1>. QED BY <1>7, <1>9, <1>11

\* A crash takes everything but the clauses of the state keys, and those too.
LEMMA DisabledFacts ==
  ASSUME NEW a, NEW r \in ActorStates
  PROVE  Sound(a, Disabled(r))
<1> DEFINE s == Disabled(r)
<1>1. s \in ActorStates
  BY DEF Disabled, ActorStates, Holders
<1>2. s.cmd = [x \in Held |-> Nobody] /\ s.until = [x \in Axes |-> Nobody]
  BY DEF Disabled, ActorStates
<1> HIDE DEF s
<1>. QED BY <1>1, <1>2 DEF Sound, Owned, Disarmed, s

LEMMA AfterCollisionFacts ==
  ASSUME interactions \in Storyboards, tick \in Ticks, NEW w, Good(w), NEW a \in Actors
  PROVE  Good(AfterCollision(w, a))
<1> DEFINE lateral == w.actors[a].cmd["lateral"]
           r == Disabled(w.actors[a])
           s == [r EXCEPT !.timed = FALSE]
           disabled == SetActor(w, a, s)
<1>1. w \in Sims /\ w.actors[a] \in ActorStates /\ lateral \in Holders
  BY DEF Good, Sims, ActorStates, Held
<1>2. Sound(a, r) /\ r \in ActorStates
  BY <1>1, DisabledFacts DEF Sound
<1>3. s \in ActorStates /\ s.crash = r.crash /\ s.cmd = r.cmd /\ s.until = r.until
  BY <1>2 DEF ActorStates
<1>4. AfterCollision(w, a) = IF lateral = Nobody THEN disabled ELSE Abort(disabled, lateral)
  BY DEF AfterCollision
<1> HIDE DEF s, r
<1>5. Sound(a, s)
  BY <1>2, <1>3, SameClauses
<1>6. Good(disabled)
  BY <1>5, OneActor
<1> HIDE DEF disabled, lateral
<1>7. lateral # Nobody => lateral \in Ids
  BY <1>1 DEF Holders
<1>. QED BY <1>4, <1>6, <1>7, AbortGood

LEMMA CompleteFacts ==
  ASSUME interactions \in Storyboards, tick \in Ticks, NEW w, Good(w), NEW a \in Actors,
         w.actors[a].cmd["longitudinal"] # Nobody
  PROVE  Good(Complete(w, a))
<1> DEFINE i == w.actors[a].cmd["longitudinal"]
           noted == Note(w, i, "completed")
           r == [w.actors[a] EXCEPT !.completed = TRUE]
<1>1. w \in Sims /\ w.actors[a] \in ActorStates /\ Sound(a, w.actors[a]) /\ i \in Ids
  BY DEF Good, Sound, ActorStates, Held, Holders
<1>2. Complete(w, a) = IF interactions[i].verb = "gap" THEN SetActor(End(noted, i), a, r)
                       ELSE ReleaseAxis(noted, a, "longitudinal", i, "complete")
  BY DEF Complete
<1>3. r \in ActorStates /\ r.crash = w.actors[a].crash /\ r.cmd = w.actors[a].cmd
      /\ r.until = w.actors[a].until
  BY <1>1 DEF ActorStates
<1> HIDE DEF r, i
<1>4. Sound(a, r)
  BY <1>1, <1>3, SameClauses
<1>5. noted \in Sims /\ noted.actors = w.actors
  BY <1>1, NoteFacts DEF Kinds
<1> HIDE DEF noted
<1>6. Good(noted)
  BY <1>5, SameActors
<1>7. Good(End(noted, i))
  BY <1>1, <1>5, <1>6, EndFacts, SameActors
<1>8. Good(SetActor(End(noted, i), a, r))
  BY <1>4, <1>7, OneActor
<1>9. Good(ReleaseAxis(noted, a, "longitudinal", i, "complete"))
  BY <1>1, <1>6, ReleaseAxisFacts DEF Axes
<1>. QED BY <1>2, <1>8, <1>9

LEMMA CloseWindowFacts ==
  ASSUME interactions \in Storyboards, tick \in Ticks, NEW w, Good(w), NEW i \in Ids
  PROVE  Good(CloseWindow(w, i))
<1> DEFINE a == interactions[i].actor
           inCharge == Axis(i) = "longitudinal" /\ w.actors[a].cmd["longitudinal"] = i
<1>1. a \in Actors
  BY AxisFacts
<1>2. Good(End(w, i))
  BY EndFacts, SameActors DEF Good
<1>3. Good(ReleaseAxis(End(w, i), a, "longitudinal", i, "window"))
  <2> HIDE DEF a
  <2>. QED BY <1>1, <1>2, ReleaseAxisFacts DEF Axes
<1>4. CloseWindow(w, i) = IF inCharge THEN ReleaseAxis(End(w, i), a, "longitudinal", i, "window")
                          ELSE End(w, i)
  BY DEF CloseWindow
<1>. QED BY <1>2, <1>3, <1>4

LEMMA AdoptedFacts ==
  ASSUME NEW a, NEW r, Sound(a, r)
  PROVE  Sound(a, Adopted(r)) /\ Sound(a, HandedBack(r))
<1>1. r \in ActorStates
  BY DEF Sound
<1>2. Adopted(r) \in ActorStates /\ Adopted(r).crash = r.crash /\ Adopted(r).cmd = r.cmd
      /\ Adopted(r).until = r.until
  BY <1>1 DEF Adopted, ActorStates
<1>3. /\ HandedBack(r) \in ActorStates /\ HandedBack(r).crash = r.crash
      /\ \A x \in Held : HandedBack(r).cmd[x] \in {r.cmd[x], Nobody}
      /\ \A x \in Axes : HandedBack(r).until[x] \in {r.until[x], Nobody}
  BY <1>1 DEF HandedBack, ActorStates, Holders, Cruises
<1>4. Sound(a, Adopted(r))
  BY <1>2, SameClauses
<1>5. Sound(a, HandedBack(r))
  BY <1>3, Relieved
<1>. QED BY <1>4, <1>5

LEMMA LateralFacts ==
  ASSUME interactions \in Storyboards, tick \in Ticks, NEW w, Good(w), NEW a \in Actors,
         w.actors[a].cmd["lateral"] # Nobody
  PROVE  Good(LateralDone(w, a)) /\ Good(LateralExpired(w, a))
<1> DEFINE i == w.actors[a].cmd["lateral"]
           noted == Note(w, i, "completed")
           free == Freed(w.actors[a], "lateral", i)
<1>1. w \in Sims /\ Sound(a, w.actors[a]) /\ i \in Ids
  BY DEF Good, Sound, ActorStates, Held, Holders
<1>2. LateralDone(w, a) = ReleaseAxis(noted, a, "lateral", i, "complete")
      /\ LateralExpired(w, a) = SetActor(Abort(w, i), a, free)
  BY DEF LateralDone, LateralExpired
<1> HIDE DEF i
<1>3. Good(noted)
  BY <1>1, NoteFacts, SameActors DEF Kinds
<1> HIDE DEF noted
<1>4. Good(ReleaseAxis(noted, a, "lateral", i, "complete"))
  BY <1>1, <1>3, ReleaseAxisFacts DEF Axes
<1>5. Sound(a, free)
  BY <1>1, FreedFacts DEF Axes
<1> HIDE DEF free
<1>6. Good(SetActor(Abort(w, i), a, free))
  BY <1>1, <1>5, AbortGood, OneActor
<1>. QED BY <1>2, <1>4, <1>6

-----------------------------------------------------------------------------
(* The invariant holds at the start and every step keeps it.               *)

\* What is sound in the clip as it is, is sound in the clip of the next state.
LEMMA GoodNext ==
  ASSUME UNCHANGED interactions, Good(sim')
  PROVE  Good(sim)'
<1>1. Ids' = Ids
  BY DEF Ids
<1>2. \A i : Axis(i)' = Axis(i)
  BY DEF Axis
<1>3. Holders' = Holders /\ Cruises' = Cruises
  BY <1>1 DEF Holders, Cruises
<1>4. ActorStates' = ActorStates
  BY <1>3 DEF ActorStates
<1>5. (sim \in Sims)'
  BY <1>1, <1>4 DEF Good, Sims
<1>6. \A a \in Actors : Sound(a, sim.actors[a])'
  <2> TAKE a \in Actors
  <2> DEFINE r == sim.actors[a]
  <2>1. r' \in ActorStates /\ Owned(a, r') /\ Disarmed(r')
    BY DEF Good, Sound
  <2>2. Owned(a, r)'
    BY <1>2, <2>1 DEF Owned
  <2>3. Disarmed(r)'
    BY <2>1 DEF Disarmed
  <2>. QED BY <1>4, <2>1, <2>2, <2>3 DEF Sound
<1>. QED BY <1>5, <1>6 DEF Good

LEMMA InitInvariant == Init => IInv
<1> SUFFICES ASSUME Init PROVE IInv
  OBVIOUS
<1>1. Progress
  BY StoryFacts, ConstantFacts DEF Init, Progress, AtActors, AtIds
<1>2. \A a \in Actors : FreshActor(a) \in ActorStates /\ Sound(a, FreshActor(a))
  <2> TAKE a \in Actors
  <2>1. FreshActor(a) \in ActorStates
    BY DEF FreshActor, ActorStates, Holders, Cruises
  <2>2. FreshActor(a).until = [x \in Axes |-> Nobody] /\ FreshActor(a).crash = FALSE
    BY DEF FreshActor
  <2>. QED BY <2>1, <2>2 DEF Sound, Owned, Disarmed
<1>3. FreshTrigger \in TriggerStates
  BY DEF FreshTrigger, TriggerStates, Times
<1>4. << >> \in Seq(Kinds)
  OBVIOUS
<1>5. sim \in Sims /\ sim.actors = [a \in Actors |-> FreshActor(a)]
  BY <1>2, <1>3, <1>4 DEF Init, Sims
<1>. QED BY <1>1, <1>2, <1>5 DEF IInv, Good

\* A loop over the actors, and one over the interactions, goes on or leads to a
\* phase that may begin.
Phases == {"collide", "complete", "windows", "triggers", "until", "windows again", "move",
           "finish", "finished"}

LEMMA ActorsLoop ==
  ASSUME Progress, NEW p \in {"collide", "complete", "until"}, NEW after \in Phases,
         after = "move" => tick < ClipTicks,
         InLoop(p, NumActors, after), released_windows' = released_windows
  PROVE  Progress'
<1>1. interactions' = interactions /\ tick' = tick /\ next \in Actors /\ 1 \in Ids /\ 1 \in Actors
  <2>1. interactions' = interactions /\ tick' = tick /\ next \in Actors
    BY DEF Progress, AtActors, InLoop
  <2>2. 1 \in Ids /\ 1 \in Actors
    BY FirstFacts DEF Progress
  <2>. QED BY <2>1, <2>2
<1>2. \/ next' = next + 1 /\ phase' = p /\ next < NumActors
      \/ next' = 1 /\ phase' = after
  BY DEF InLoop, Continue
<1>3. next < NumActors => next + 1 \in Actors
  BY <1>1, ConstantFacts
<1>. QED BY <1>1, <1>2, <1>3 DEF Progress, AtActors, AtIds, Phases, Ids

LEMMA IdsLoop ==
  ASSUME Progress, NEW p \in {"windows", "triggers", "windows again"}, NEW after \in Phases,
         after = "move" => tick < ClipTicks,
         OverIds(p, after), released_windows' \subseteq Ids
  PROVE  Progress'
<1>1. interactions' = interactions /\ tick' = tick /\ next \in Ids /\ 1 \in Ids /\ 1 \in Actors
  <2>1. interactions' = interactions /\ tick' = tick /\ next \in Ids
    BY DEF Progress, AtIds, OverIds, InLoop
  <2>2. 1 \in Ids /\ 1 \in Actors
    BY FirstFacts DEF Progress
  <2>. QED BY <2>1, <2>2
<1>2. \/ next' = next + 1 /\ phase' = p /\ next < Len(interactions)
      \/ next' = 1 /\ phase' = after
  BY DEF OverIds, InLoop, Continue
<1>3. next < Len(interactions) => next + 1 \in Ids
  BY <1>1, FirstFacts DEF Progress
<1>. QED BY <1>1, <1>2, <1>3 DEF Progress, AtActors, AtIds, Phases, Ids

\* A step keeps the invariant if it keeps to the loop and its new state is sound.
LEMMA StepFacts ==
  ASSUME UNCHANGED interactions, Progress', Good(sim')
  PROVE  IInv'
BY GoodNext DEF IInv

LEMMA DetectCollisionsStep ==
  ASSUME IInv, NEW collides \in BOOLEAN, DetectCollisions(collides)
  PROVE  IInv'
<1>1. Progress /\ Good(sim) /\ interactions \in Storyboards /\ tick \in Ticks /\ next \in Actors
  BY DEF IInv, Progress, AtActors, DetectCollisions, OverActors, InLoop
<1>2. Progress'
  <2>1. (IF tick < 0 THEN "move" ELSE "complete") \in Phases
    BY DEF Phases
  <2>2. tick < 0 => tick < ClipTicks
    BY <1>1, ConstantFacts
  <2>. QED BY <1>1, <2>1, <2>2, ActorsLoop DEF DetectCollisions, OverActors
<1>3. Good(sim')
  BY <1>1, AfterCollisionFacts DEF DetectCollisions
<1>. QED BY <1>2, <1>3, StepFacts DEF DetectCollisions, OverActors, InLoop

LEMMA CompletionsStep ==
  ASSUME IInv, NEW reached \in BOOLEAN, EvaluateLongitudinalCompletions(reached)
  PROVE  IInv'
<1>1. Progress /\ Good(sim) /\ interactions \in Storyboards /\ tick \in Ticks /\ next \in Actors
  BY DEF IInv, Progress, AtActors, EvaluateLongitudinalCompletions, OverActors, InLoop
<1>2. Progress'
  BY <1>1, ActorsLoop DEF EvaluateLongitudinalCompletions, OverActors, Phases
<1>3. Good(sim')
  BY <1>1, CompleteFacts DEF EvaluateLongitudinalCompletions, MayComplete
<1>. QED BY <1>2, <1>3, StepFacts DEF EvaluateLongitudinalCompletions, OverActors, InLoop

LEMMA WindowEndsStep ==
  ASSUME IInv, NEW p \in {"windows", "windows again"}, NEW after \in Phases,
         after = "move" => tick < ClipTicks, EvaluateWindowEnds(p, after)
  PROVE  IInv'
<1>1. Progress /\ Good(sim) /\ interactions \in Storyboards /\ tick \in Ticks /\ next \in Ids
      /\ released_windows \subseteq Ids
  BY DEF IInv, Progress, AtIds, EvaluateWindowEnds, OverIds, InLoop
<1>2. released_windows' \subseteq Ids
  BY <1>1 DEF EvaluateWindowEnds
<1>3. Progress'
  BY <1>1, <1>2, IdsLoop DEF EvaluateWindowEnds
<1>4. Good(sim')
  BY <1>1, CloseWindowFacts DEF EvaluateWindowEnds
<1>. QED BY <1>3, <1>4, StepFacts DEF EvaluateWindowEnds, OverIds, InLoop

\* What the three steps of a trigger share.
LEMMA TriggerFacts ==
  ASSUME IInv, OverIds("triggers", "until"), UNCHANGED released_windows
  PROVE  /\ Good(sim) /\ interactions \in Storyboards /\ tick \in Ticks /\ next \in Ids
         /\ UNCHANGED interactions /\ Progress'
<1>1. Progress /\ released_windows' \subseteq Ids
  BY DEF IInv, Progress
<1>2. Progress'
  BY <1>1, IdsLoop DEF Phases
<1>. QED BY <1>2 DEF IInv, Progress, AtIds, OverIds, InLoop

LEMMA HoldTriggerStep ==
  ASSUME IInv, NEW holds, NEW commit, HoldTrigger(holds, commit)
  PROVE  IInv'
<1>1. Good(sim) /\ UNCHANGED interactions /\ Progress'
  BY TriggerFacts DEF HoldTrigger
<1>2. sim' = sim
  BY DEF HoldTrigger
<1>. QED BY <1>1, <1>2, StepFacts

LEMMA SkipTriggerStep ==
  ASSUME IInv, NEW holds, NEW commit, SkipTrigger(holds, commit)
  PROVE  IInv'
<1>1. Good(sim) /\ UNCHANGED interactions /\ Progress' /\ next \in Ids
  BY TriggerFacts DEF SkipTrigger
<1>2. sim' = Skip(sim, next)
  BY DEF SkipTrigger
<1>. QED BY <1>1, <1>2, SkipGood, StepFacts

LEMMA FireTriggerStep ==
  ASSUME IInv, NEW holds \in BOOLEAN, NEW feasible \in BOOLEAN, FireTrigger(holds, feasible)
  PROVE  IInv'
<1> DEFINE forced == Verdict(next, holds) = "force"
<1>1. Good(sim) /\ interactions \in Storyboards /\ tick \in Ticks /\ next \in Ids
      /\ UNCHANGED interactions /\ Progress'
  BY TriggerFacts DEF FireTrigger
<1>2. sim' = Fire(sim, next, forced, feasible)
  BY DEF FireTrigger
<1>3. sim.actors[interactions[next].actor].crash => Axis(next) = "state"
  BY <1>1, AxisFacts DEF FireTrigger, CrashBars
<1>4. forced \in BOOLEAN
  OBVIOUS
<1> HIDE DEF forced
<1>5. Good(sim')
  BY <1>1, <1>2, <1>3, <1>4, FireFacts, SMTT(30)
<1>. QED BY <1>1, <1>5, StepFacts

LEMMA EvaluateUntilStep ==
  ASSUME IInv, NEW due, EvaluateUntil(due)
  PROVE  IInv'
<1> DEFINE a == next
           Release(w, axis) ==
             IF axis \in due THEN ReleaseAxis(w, a, axis, sim.actors[a].until[axis], "until") ELSE w
<1>1. Progress /\ Good(sim) /\ interactions \in Storyboards /\ tick \in Ticks /\ a \in Actors
  BY DEF IInv, Progress, AtActors, EvaluateUntil, OverActors, InLoop
<1>2. Progress'
  BY <1>1, ActorsLoop DEF EvaluateUntil, OverActors, Phases
<1>3. ASSUME NEW w, Good(w), NEW axis \in Axes
      PROVE  Good(Release(w, axis))
  <2>1. CASE axis \in due
    <3> DEFINE i == sim.actors[a].until[axis]
    <3>1. i # Nobody
      BY <2>1 DEF EvaluateUntil, Watched
    <3>2. i \in Ids
      BY <1>1, <3>1 DEF Good, Sims, ActorStates, Holders
    <3> HIDE DEF i, a
    <3>3. Good(ReleaseAxis(w, a, axis, i, "until"))
      BY <1>1, <1>3, <3>2, ReleaseAxisFacts
    <3>. QED BY <2>1, <3>3 DEF i
  <2>2. CASE axis \notin due
    BY <1>3, <2>2
  <2>. QED BY <2>1, <2>2
<1>4. sim' = Release(Release(Release(Release(Release(sim, "longitudinal"), "lateral"), "route"),
                             "existence"), "state")
  BY DEF EvaluateUntil
<1> HIDE DEF Release
<1>5. {"longitudinal", "lateral", "route", "existence", "state"} \subseteq Axes
  BY DEF Axes
<1>6. Good(Release(Release(sim, "longitudinal"), "lateral"))
  BY <1>1, <1>3, <1>5
<1>7. Good(Release(Release(Release(sim, "longitudinal"), "lateral"), "route"))
  BY <1>3, <1>5, <1>6
<1>8. Good(sim')
  BY <1>3, <1>4, <1>5, <1>7, SMTT(30)
<1>. QED BY <1>2, <1>8, StepFacts DEF EvaluateUntil, OverActors, InLoop

LEMMA PlanAndApplyStep ==
  ASSUME IInv, NEW handsBack \in BOOLEAN, NEW knockedDown \in BOOLEAN,
         NEW lateral \in {"runs", "done", "expired"},
         PlanAndApply(handsBack, lateral, knockedDown)
  PROVE  IInv'
<1> DEFINE a == next
           adopted == Adopted(sim.actors[a])
           r == IF handsBack THEN HandedBack(adopted) ELSE adopted
           planned == SetActor(sim, a, r)
           applied == CASE lateral = "runs"    -> planned
                        [] lateral = "done"    -> LateralDone(planned, a)
                        [] lateral = "expired" -> LateralExpired(planned, a)
<1>1. Progress /\ Good(sim) /\ interactions \in Storyboards /\ tick \in Ticks /\ a \in Actors
      /\ tick < ClipTicks /\ phase = "move"
  BY DEF IInv, Progress, AtActors, PlanAndApply
<1>2. Progress'
  <2>1. interactions' = interactions /\ released_windows' = released_windows
    BY DEF PlanAndApply
  <2>2. 1 \in Ids /\ 1 \in Actors
    BY <1>1, StoryFacts, ConstantFacts
  <2>3. CASE next = NumActors
    <3>1. next' = 1 /\ phase' = "collide" /\ tick' = tick + 1
      BY <1>1, <2>3, ConstantFacts DEF PlanAndApply, Continue
    <3>2. tick' \in Ticks
      BY <1>1, <3>1, ConstantFacts
    <3>. QED BY <1>1, <2>1, <2>2, <3>1, <3>2 DEF Progress, AtActors, AtIds, Ids
  <2>4. CASE next # NumActors
    <3>1. next' = next + 1 /\ phase' = "move" /\ tick' = tick /\ next + 1 \in Actors
      BY <1>1, <2>4, ConstantFacts DEF PlanAndApply, Continue
    <3>. QED BY <1>1, <2>1, <3>1 DEF Progress, AtActors, AtIds, Ids
  <2>. QED BY <2>3, <2>4
<1>3. Good(sim')
  <2>1. Sound(a, adopted)
    BY <1>1, AdoptedFacts DEF Good
  <2> HIDE DEF adopted
  <2>2. Sound(a, r)
    BY <2>1, AdoptedFacts
  <2> HIDE DEF r
  <2>3. Good(planned)
    BY <1>1, <2>2, OneActor
  <2>4. lateral # "runs" => planned.actors[a].cmd["lateral"] # Nobody
    BY DEF PlanAndApply, adopted, r
  <2> HIDE DEF planned
  <2>5. Good(applied)
    <3>1. CASE lateral = "runs"
      BY <2>3, <3>1
    <3>2. CASE lateral # "runs"
      <4>1. Good(LateralDone(planned, a)) /\ Good(LateralExpired(planned, a))
        BY <1>1, <2>3, <2>4, <3>2, LateralFacts
      <4>. QED BY <3>2, <4>1
    <3>. QED BY <3>1, <3>2
  <2>6. sim' = IF knockedDown THEN SetActor(applied, a, Disabled(applied.actors[a])) ELSE applied
    BY DEF PlanAndApply, planned, r, adopted
  <2> HIDE DEF applied
  <2>7. applied.actors[a] \in ActorStates
    BY <1>1, <2>5 DEF Good, Sims
  <2>8. Good(SetActor(applied, a, Disabled(applied.actors[a])))
    BY <1>1, <2>5, <2>7, DisabledFacts, OneActor, SMTT(30)
  <2>. QED BY <2>5, <2>6, <2>8
<1>. QED BY <1>2, <1>3, StepFacts DEF PlanAndApply

LEMMA FinishStep ==
  ASSUME IInv, FinishNeverFired
  PROVE  IInv'
<1> DEFINE Lateral(i) == sim.actors[interactions[i].actor].cmd["lateral"] = i
           Over(i) == CASE Pending(i) -> Skip(sim, i)
                        [] Lateral(i) -> Abort(sim, i)
                        [] OTHER      -> sim
           Freed1(a) == [sim.actors[a] EXCEPT !.cmd["lateral"] = Nobody]
<1>1. Progress /\ Good(sim) /\ interactions \in Storyboards /\ tick \in Ticks /\ sim \in Sims
  BY DEF IInv, Progress, Good
<1>2. Progress'
  BY <1>1 DEF FinishNeverFired, Progress, AtActors, AtIds, Ids
<1>3. \A i \in Ids : Over(i) \in Sims
  BY <1>1, SkipFacts, AbortFacts
<1>4. \A a \in Actors : Sound(a, Freed1(a)) /\ Freed1(a) \in ActorStates
  <2> TAKE a \in Actors
  <2>1. Sound(a, sim.actors[a]) /\ sim.actors[a] \in ActorStates
    BY <1>1 DEF Good, Sound
  <2>2. /\ Freed1(a) \in ActorStates /\ Freed1(a).crash = sim.actors[a].crash
        /\ \A x \in Held : Freed1(a).cmd[x] \in {sim.actors[a].cmd[x], Nobody}
        /\ \A x \in Axes : Freed1(a).until[x] \in {sim.actors[a].until[x], Nobody}
    BY <2>1 DEF ActorStates, Holders
  <2> HIDE DEF Freed1
  <2>. QED BY <2>1, <2>2, Relieved
<1>5. sim' = [triggers |-> [i \in Ids |-> Over(i).triggers[i]],
              events |-> [i \in Ids |-> Over(i).events[i]],
              actors |-> [a \in Actors |-> Freed1(a)]]
  BY DEF FinishNeverFired
<1> HIDE DEF Over, Freed1
<1>6. \A i \in Ids : Over(i).triggers[i] \in TriggerStates /\ Over(i).events[i] \in Seq(Kinds)
  BY <1>3 DEF Sims
<1>7. sim' \in Sims /\ \A a \in Actors : sim'.actors[a] = Freed1(a)
  BY <1>4, <1>5, <1>6 DEF Sims
<1>8. Good(sim')
  BY <1>4, <1>7 DEF Good
<1>. QED BY <1>2, <1>8, StepFacts DEF FinishNeverFired

LEMMA NextInvariant == IInv /\ [Next]_vars => IInv'
<1> SUFFICES ASSUME IInv, [Next]_vars PROVE IInv'
  OBVIOUS
<1>1. CASE \E collides \in BOOLEAN : DetectCollisions(collides)
  BY <1>1, DetectCollisionsStep
<1>2. CASE \E reached \in BOOLEAN : EvaluateLongitudinalCompletions(reached)
  BY <1>2, CompletionsStep
<1>3. CASE EvaluateWindowEnds("windows", "triggers")
  BY <1>3, WindowEndsStep DEF Phases
<1>4. CASE \E holds \in BOOLEAN, commit \in {"ready", "wait", "missed"} :
             HoldTrigger(holds, commit) \/ SkipTrigger(holds, commit)
  BY <1>4, HoldTriggerStep, SkipTriggerStep
<1>5. CASE \E holds, feasible \in BOOLEAN : FireTrigger(holds, feasible)
  BY <1>5, FireTriggerStep
<1>6. CASE \E due \in SUBSET Axes : EvaluateUntil(due)
  BY <1>6, EvaluateUntilStep
<1>7. CASE EvaluateWindowEnds("windows again", IF tick < ClipTicks THEN "move" ELSE "finish")
  <2> DEFINE after == IF tick < ClipTicks THEN "move" ELSE "finish"
  <2>1. after \in Phases /\ (after = "move" => tick < ClipTicks)
    BY DEF Phases
  <2> HIDE DEF after
  <2>2. EvaluateWindowEnds("windows again", after)
    BY <1>7 DEF after
  <2>. QED BY <2>1, <2>2, WindowEndsStep
<1>8. CASE \E handsBack, knockedDown \in BOOLEAN, lateral \in {"runs", "done", "expired"} :
             PlanAndApply(handsBack, lateral, knockedDown)
  BY <1>8, PlanAndApplyStep
<1>9. CASE FinishNeverFired
  BY <1>9, FinishStep
<1>10. CASE UNCHANGED vars
  <2>1. Progress'
    BY <1>10 DEF vars, IInv, Progress, AtActors, AtIds, Ids
  <2>2. Good(sim')
    BY <1>10 DEF vars, IInv
  <2>. QED BY <1>10, <2>1, <2>2, StepFacts DEF vars
<1>. QED BY <1>1, <1>2, <1>3, <1>4, <1>5, <1>6, <1>7, <1>8, <1>9, <1>10 DEF Next, Finished

LEMMA Invariant == Spec => []IInv
BY InitInvariant, NextInvariant, PTL DEF Spec

-----------------------------------------------------------------------------
(* The theorems.                                                           *)

\* Every clip, of any length and any number of actors and interactions, keeps the
\* types of its state; the loops of a tick stay within the actors and interactions.
THEOREM TypeOKAlways == Spec => []TypeOK
<1>1. IInv => TypeOK
  BY DEF IInv, Progress, Good, Sims, ActorStates, TriggerStates, Holders, Cruises, Times, Kinds,
         TypeOK
<1>. QED BY <1>1, Invariant, PTL

\* An until clause that waits on an axis belongs to the interaction in charge of it,
\* whatever was pre-empted, released or completed on the axis before.
THEOREM UntilOwnedAlways == Spec => []UntilOwned
<1>1. IInv => UntilOwned
  BY DEF IInv, Good, Sound, Owned, UntilOwned
<1>. QED BY <1>1, Invariant, PTL

\* A crashed actor is at nobody's command, whatever comes due after the crash.
THEOREM CrashDisablesAlways == Spec => []CrashDisables
<1>1. IInv => CrashDisables
  BY DEF IInv, Good, Sound, Disarmed, CrashDisables
<1>. QED BY <1>1, Invariant, PTL
=============================================================================
