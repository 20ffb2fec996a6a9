----------------------- MODULE InteractionsLife_proofs -----------------------
(***************************************************************************)
(* The life of every interaction, in any clip: it starts at most once and  *)
(* ends at most once, inside its window; what runs is in charge of its     *)
(* axis; deadlines are met and dependents follow; and what an until clause *)
(* took back does not come back.                                           *)
(***************************************************************************)
EXTENDS Interactions_proofs, FiniteSetTheorems

-----------------------------------------------------------------------------
(* The invariant.                                                          *)

\* How many events of some kinds a list of events has; Emitted, of any state.
Count(s, kinds) == Cardinality({n \in DOMAIN s : s[n] \in kinds})
Starts(w, i) == Count(w.events[i], {"fired", "skipped"})
Skips(w, i) == Count(w.events[i], {"skipped"})
Overs(w, i) == Count(w.events[i], {"completed", "aborted"})
Backs(w, i) == Count(w.events[i], {"until"})

Fired(w, i) == w.triggers[i].status = "fired"
Timeless(w, i) == w.triggers[i].fired_at = Never /\ w.triggers[i].ended_at = Never

\* What the trigger and the events of interaction i say of each other at tick t.
Told(w, i, t) ==
  LET s == w.events[i]
      window == interactions[i].window
      fired == w.triggers[i].fired_at
  IN  /\ w.triggers[i].status = "pending" => Timeless(w, i) /\ s = <<>>
      /\ w.triggers[i].status = "skipped" => Timeless(w, i) /\ s = <<"skipped">>
      /\ Fired(w, i) =>
           /\ fired \in 0..t /\ window.start <= fired /\ fired < window.end
           /\ s # <<>> /\ Head(s) = "fired" /\ Starts(w, i) = 1 /\ Skips(w, i) = 0
           /\ Overs(w, i) \in {0, 1}

\* A gap that was reached and is followed on.
Followed(w, a, i) == interactions[i].verb = "gap" /\ w.actors[a].completed

\* Who commands actor a has started and has not ended, unless it is such a gap.
Commands(w, a) ==
  \A axis \in Held :
    LET i == w.actors[a].cmd[axis]
    IN  i # Nobody =>
          /\ Fired(w, i) /\ interactions[i].actor = a /\ Axis(i) = axis
          /\ ~Followed(w, a, i) => ~Ended(w, i) /\ Overs(w, i) = 0
          /\ Followed(w, a, i) => Ended(w, i)

OnTrack(w, a) ==
  \/ a \in StartTracked
  \/ \E i \in Ids : interactions[i].actor = a /\ interactions[i].verb = "track" /\ Fired(w, i)

\* What has started and not ended is in charge, unless the body was taken from it.
Served(w, i) ==
  LET a == interactions[i].actor
      r == w.actors[a]
  IN  Axis(i) \in Held /\ Fired(w, i) =>
        /\ Ended(w, i) \/ r.cmd[Axis(i)] = i \/ r.crash \/ OnTrack(w, a)
        /\ Axis(i) = "lateral" => r.cmd["lateral"] = i \/ r.crash \/ Overs(w, i) = 1

\* The presence the actor r has shown when the ticks' plans have adopted it.
Coming(r) == IF r.pending = "none" THEN Presence(r) ELSE r.pending

\* Interaction i has set a speed of actor a, and was not taken back.
Target(w, a, i) ==
  /\ Fired(w, i) /\ interactions[i].actor = a /\ interactions[i].verb \in {"speed", "match"}
  /\ Backs(w, i) = 0

\* The until clauses, the cruise speed, and the one to return to.
Cruising(w, a) ==
  LET r == w.actors[a]
      i == r.cmd["longitudinal"]
  IN  /\ r.timed => OnTrack(w, a)
      /\ r.until["longitudinal"] \in {i, Nobody}
      /\ \A axis \in Axes : r.until[axis] # Nobody => Fired(w, r.until[axis])
      /\ r.cruise \in Ids => Target(w, a, r.cruise)
      /\ i # Nobody /\ r.prior \in Ids => Target(w, a, r.prior) /\ r.prior # i

Lively(w, t) ==
  /\ \A i \in Ids : Told(w, i, t) /\ Served(w, i)
  /\ \A a \in Actors : Commands(w, a) /\ Cruising(w, a)

-----------------------------------------------------------------------------
(* The clip.                                                               *)

LEMMA TickFacts ==
  ASSUME tick \in Ticks
  PROVE  tick \in Int /\ ClipTicks \in Int
<1>. DEFINE first == -WarmupTicks
<1>1. first \in Int /\ ClipTicks \in Int BY ConstantFacts
<1>2. Ticks = first..ClipTicks BY ConstantFacts
<1>. HIDE DEF first
<1>. QED BY <1>1, <1>2

\* The clip's interactions, as far as their triggers go.
LEMMA ClipFacts ==
  ASSUME interactions \in Storyboards, NEW i \in Ids
  PROVE  LET trigger == interactions[i].trigger
         IN  /\ interactions[i].window.start \in Int /\ interactions[i].window.end \in Int
             /\ trigger.kind \in {"fixed", "after", "when"}
             /\ trigger.kind = "when" =>
                  trigger.byLatest \in Int /\ trigger.ifNever \in {"fire", "skip"}
             /\ trigger.kind = "after" =>
                  /\ trigger.ref \in Ids /\ trigger.delay \in Nat
                  /\ trigger.event \in {"start", "end"}
<1>1. interactions[i] \in Interaction BY StoryFacts
<1>2. interactions[i].trigger \in Triggers /\ interactions[i].window \in Windows
  BY <1>1 DEF Interaction
<1>3. interactions[i].trigger.kind = "after" => interactions[i].trigger.ref \in Ids
  BY InteractionsAssumption DEF Ids
<1>. QED BY <1>2, <1>3 DEF Triggers, Windows

-----------------------------------------------------------------------------
(* Counting events.                                                        *)

LEMMA CountAppend ==
  ASSUME NEW s \in Seq(Kinds), NEW e \in Kinds, NEW kinds
  PROVE  /\ Count(s, kinds) \in Nat
         /\ Count(Append(s, e), kinds) = Count(s, kinds) + (IF e \in kinds THEN 1 ELSE 0)
<1>. DEFINE n == Len(s)
            D == {m \in DOMAIN s : s[m] \in kinds}
            E == {m \in DOMAIN Append(s, e) : Append(s, e)[m] \in kinds}
<1>1. n \in Nat /\ DOMAIN s = 1..n /\ DOMAIN Append(s, e) = 1..n + 1 OBVIOUS
<1>2. IsFiniteSet(1..n) BY <1>1, FS_Interval
<1>3. D \in SUBSET (1..n) BY <1>1
<1>4. IsFiniteSet(D) BY <1>2, <1>3, FS_Subset
<1>5. Cardinality(D) \in Nat BY <1>4, FS_CardinalityType
<1>6. E = IF e \in kinds THEN D \cup {n + 1} ELSE D
  <2>1. \A m \in 1..n : Append(s, e)[m] = s[m] OBVIOUS
  <2>2. Append(s, e)[n + 1] = e OBVIOUS
  <2>. QED BY <1>1, <2>1, <2>2
<1>7. n + 1 \notin D BY <1>1
<1>8. Count(s, kinds) = Cardinality(D) /\ Count(Append(s, e), kinds) = Cardinality(E)
  BY DEF Count
<1>. HIDE DEF D, E, n
<1>9. CASE e \in kinds
  <2>1. Cardinality(D \cup {n + 1}) = Cardinality(D) + 1 BY <1>4, <1>7, FS_AddElement
  <2>. QED BY <1>5, <1>6, <1>8, <1>9, <2>1
<1>10. CASE e \notin kinds BY <1>5, <1>6, <1>8, <1>10
<1>. QED BY <1>9, <1>10

LEMMA CountEmpty ==
  ASSUME NEW kinds
  PROVE  Count(<<>>, kinds) = 0
<1>1. {m \in DOMAIN <<>> : <<>>[m] \in kinds} = {} OBVIOUS
<1>. QED BY <1>1, FS_EmptySet DEF Count

\* What is said of an interaction that has started.
Grew(s, t, overs, backs) ==
  /\ t \in Seq(Kinds) /\ t # <<>> /\ Head(t) = Head(s)
  /\ Count(t, {"fired", "skipped"}) = Count(s, {"fired", "skipped"})
  /\ Count(t, {"skipped"}) = Count(s, {"skipped"})
  /\ Count(t, {"completed", "aborted"}) = Count(s, {"completed", "aborted"}) + overs
  /\ Count(t, {"until"}) = Count(s, {"until"}) + backs

LEMMA GrewByOne ==
  ASSUME NEW s \in Seq(Kinds), s # <<>>, NEW e \in Kinds \ {"fired", "skipped"}
  PROVE  Grew(s, Append(s, e), IF e \in {"completed", "aborted"} THEN 1 ELSE 0,
              IF e = "until" THEN 1 ELSE 0)
<1>. DEFINE t == Append(s, e)
<1>1. t \in Seq(Kinds) /\ t # <<>> /\ Head(t) = Head(s) OBVIOUS
<1>2. \A kinds : /\ Count(s, kinds) \in Nat
                 /\ Count(t, kinds) = Count(s, kinds) + (IF e \in kinds THEN 1 ELSE 0)
  BY CountAppend
<1>. HIDE DEF t
<1>3. Count(t, {"fired", "skipped"}) = Count(s, {"fired", "skipped"})
  <2>1. e \notin {"fired", "skipped"} OBVIOUS
  <2>. QED BY <1>2, <2>1
<1>4. Count(t, {"skipped"}) = Count(s, {"skipped"})
  <2>1. e \notin {"skipped"} OBVIOUS
  <2>. QED BY <1>2, <2>1
<1>5. Count(t, {"completed", "aborted"}) =
        Count(s, {"completed", "aborted"}) + (IF e \in {"completed", "aborted"} THEN 1 ELSE 0)
  BY <1>2
<1>6. Count(t, {"until"}) = Count(s, {"until"}) + (IF e = "until" THEN 1 ELSE 0)
  <2>1. e \in {"until"} <=> e = "until" OBVIOUS
  <2>. QED BY <1>2, <2>1
<1>. QED BY <1>1, <1>3, <1>4, <1>5, <1>6 DEF Grew, t

LEMMA GrewTwice ==
  ASSUME NEW s \in Seq(Kinds), NEW t, NEW u, NEW o1 \in Nat, NEW o2 \in Nat,
         NEW b1 \in Nat, NEW b2 \in Nat, Grew(s, t, o1, b1), Grew(t, u, o2, b2)
  PROVE  Grew(s, u, o1 + o2, b1 + b2)
<1>1. \A kinds : Count(s, kinds) \in Nat BY CountAppend DEF Kinds
<1>. QED BY <1>1, SMTT(30) DEF Grew

LEMMA GrewNot ==
  ASSUME NEW s \in Seq(Kinds), s # <<>>
  PROVE  Grew(s, s, 0, 0)
<1>1. \A kinds : Count(s, kinds) \in Nat BY CountAppend DEF Kinds
<1>. QED BY <1>1 DEF Grew

-----------------------------------------------------------------------------
(* What the engine does to an interaction that has started.                *)

\* v is w but for actor a and its interaction i, which it may have ended and of
\* which it told some more.
Touched(w, v, a, i, overs, backs, ends) ==
  /\ v \in Sims
  /\ \A j \in Ids \ {i} : v.triggers[j] = w.triggers[j] /\ v.events[j] = w.events[j]
  /\ \A b \in Actors \ {a} : v.actors[b] = w.actors[b]
  /\ v.triggers[i].status = w.triggers[i].status
  /\ v.triggers[i].fired_at = w.triggers[i].fired_at
  /\ v.triggers[i].ended_at = IF ends > 0 /\ ~Ended(w, i) THEN tick ELSE w.triggers[i].ended_at
  /\ Grew(w.events[i], v.events[i], overs, backs)

LEMMA TouchedTwice ==
  ASSUME tick \in Ticks, NEW w \in Sims, NEW u, NEW v, NEW a \in Actors, NEW i \in Ids,
         NEW o1 \in Nat, NEW o2 \in Nat, NEW b1 \in Nat, NEW b2 \in Nat,
         NEW e1 \in Nat, NEW e2 \in Nat,
         Touched(w, u, a, i, o1, b1, e1), Touched(u, v, a, i, o2, b2, e2),
         NEW o, NEW b, NEW e, o = o1 + o2, b = b1 + b2, e = e1 + e2
  PROVE  Touched(w, v, a, i, o, b, e)
<1>1. w.events[i] \in Seq(Kinds) BY DEF Sims
<1>2. Grew(w.events[i], v.events[i], o, b)
  BY <1>1, GrewTwice DEF Touched
<1>3. v.triggers[i].ended_at =
        IF e > 0 /\ ~Ended(w, i) THEN tick ELSE w.triggers[i].ended_at
  BY ConstantFacts DEF Touched, Ended
<1>. QED BY <1>2, <1>3 DEF Touched

LEMMA NoteTouched ==
  ASSUME NEW w \in Sims, NEW a \in Actors, NEW i \in Ids, w.events[i] # <<>>,
         NEW e \in Kinds \ {"fired", "skipped"}
  PROVE  /\ Touched(w, Note(w, i, e), a, i, IF e \in {"completed", "aborted"} THEN 1 ELSE 0,
                    IF e = "until" THEN 1 ELSE 0, 0)
         /\ Note(w, i, e).actors = w.actors
<1>1. w.events[i] \in Seq(Kinds) BY DEF Sims
<1>2. Grew(w.events[i], Append(w.events[i], e),
           IF e \in {"completed", "aborted"} THEN 1 ELSE 0, IF e = "until" THEN 1 ELSE 0)
  BY <1>1, GrewByOne
<1>3. /\ Note(w, i, e).events[i] = Append(w.events[i], e)
      /\ \A j \in Ids \ {i} : Note(w, i, e).events[j] = w.events[j]
  BY DEF Note, Sims
<1>4. Note(w, i, e) \in Sims /\ Note(w, i, e).actors = w.actors /\ Note(w, i, e).triggers = w.triggers
  BY NoteFacts
<1>. QED BY <1>2, <1>3, <1>4 DEF Touched

LEMMA EndTouched ==
  ASSUME tick \in Ticks, NEW w \in Sims, NEW a \in Actors, NEW i \in Ids, w.events[i] # <<>>
  PROVE  /\ Touched(w, End(w, i), a, i, 0, 0, 1)
         /\ End(w, i).actors = w.actors
<1>1. End(w, i) \in Sims /\ End(w, i).actors = w.actors BY EndFacts
<1>2. Grew(w.events[i], w.events[i], 0, 0) BY GrewNot DEF Sims
<1>3. End(w, i).events = w.events BY DEF End, Sims
<1>4. /\ \A j \in Ids \ {i} : End(w, i).triggers[j] = w.triggers[j]
      /\ End(w, i).triggers[i].status = w.triggers[i].status
      /\ End(w, i).triggers[i].fired_at = w.triggers[i].fired_at
      /\ End(w, i).triggers[i].ended_at = IF ~Ended(w, i) THEN tick ELSE w.triggers[i].ended_at
  BY DEF End, Ended, Sims, TriggerStates
<1>. QED BY <1>1, <1>2, <1>3, <1>4 DEF Touched

LEMMA AbortTouched ==
  ASSUME tick \in Ticks, NEW w \in Sims, NEW a \in Actors, NEW i \in Ids, w.events[i] # <<>>
  PROVE  /\ Touched(w, Abort(w, i), a, i, 1, 0, 1)
         /\ Abort(w, i).actors = w.actors
<1>. DEFINE u == End(w, i)
<1>1. Touched(w, u, a, i, 0, 0, 1) /\ u.actors = w.actors BY EndTouched
<1>2. u \in Sims /\ u.events[i] # <<>> BY <1>1 DEF Touched, Grew
<1>. HIDE DEF u
<1>3. Touched(u, Note(u, i, "aborted"), a, i, 1, 0, 0) /\ Note(u, i, "aborted").actors = u.actors
  BY <1>2, NoteTouched DEF Kinds
<1>. DEFINE v == Note(u, i, "aborted")
<1>4. Touched(w, v, a, i, 1, 0, 1)
  <2>. HIDE DEF v
  <2>1. 1 = 0 + 1 /\ 0 = 0 + 0 OBVIOUS
  <2>2. Touched(u, v, a, i, 1, 0, 0) BY <1>3 DEF v
  <2>. QED BY <1>1, <2>1, <2>2, TouchedTwice
<1>. QED BY <1>1, <1>3, <1>4 DEF Abort, u

LEMMA SetActorTouched ==
  ASSUME NEW w \in Sims, NEW a \in Actors, NEW i \in Ids, w.events[i] # <<>>, NEW r \in ActorStates
  PROVE  /\ Touched(w, SetActor(w, a, r), a, i, 0, 0, 0)
         /\ SetActor(w, a, r).actors[a] = r
<1>1. Grew(w.events[i], w.events[i], 0, 0) BY GrewNot DEF Sims
<1>2. SetActor(w, a, r).events = w.events /\ SetActor(w, a, r).triggers = w.triggers
  BY DEF SetActor, Sims
<1>. QED BY <1>1, <1>2, SetActorFacts DEF Touched

\* The actor left by release_axis.
Left(r, axis, i, takenBack) ==
  [Freed(r, axis, i) EXCEPT !.cruise =
     IF takenBack /\ axis = "longitudinal" /\ interactions[i].verb # "gap" THEN r.prior ELSE r.cruise]

LEMMA LeftFacts ==
  ASSUME NEW r \in ActorStates, NEW axis \in Axes, NEW i \in Ids, NEW takenBack \in BOOLEAN
  PROVE  /\ Left(r, axis, i, takenBack) \in ActorStates
         /\ Left(r, axis, i, takenBack).cmd = [x \in Held |-> IF x = axis THEN Nobody ELSE r.cmd[x]]
         /\ Left(r, axis, i, takenBack).until =
              [r.until EXCEPT ![axis] = IF @ = i THEN Nobody ELSE @]
         /\ Left(r, axis, i, takenBack).cruise =
              IF takenBack /\ axis = "longitudinal" /\ interactions[i].verb # "gap"
                THEN r.prior ELSE r.cruise
         /\ Left(r, axis, i, takenBack).prior = r.prior
         /\ Left(r, axis, i, takenBack).completed = r.completed
         /\ Left(r, axis, i, takenBack).timed = r.timed
         /\ Left(r, axis, i, takenBack).crash = r.crash
         /\ Left(r, axis, i, takenBack).present = r.present
         /\ Left(r, axis, i, takenBack).pending = r.pending
<1>1. /\ [x \in Held |-> IF x = axis THEN Nobody ELSE r.cmd[x]] \in [Held -> Holders]
      /\ [r.until EXCEPT ![axis] = IF @ = i THEN Nobody ELSE @] \in [Axes -> Holders]
  BY DEF ActorStates, Holders
<1>. QED BY <1>1 DEF Left, Freed, ActorStates

LEMMA ReleaseTouched ==
  ASSUME tick \in Ticks, NEW w \in Sims, NEW a \in Actors, NEW axis \in Axes, NEW i \in Ids,
         w.events[i] # <<>>, NEW reason \in {"complete", "window", "until"},
         NEW takenBack \in BOOLEAN,
         takenBack <=> reason = "until" /\ axis \in Held /\ w.actors[a].cmd[axis] = i
  PROVE  /\ Touched(w, ReleaseAxis(w, a, axis, i, reason), a, i,
                    IF takenBack /\ axis = "lateral" THEN 1 ELSE 0,
                    IF reason = "until" THEN 1 ELSE 0, 1)
         /\ ReleaseAxis(w, a, axis, i, reason).actors[a] = Left(w.actors[a], axis, i, takenBack)
<1>. DEFINE was == w.actors[a]
            o == IF takenBack /\ axis = "lateral" THEN 1 ELSE 0
            b == IF reason = "until" THEN 1 ELSE 0
            stopped == IF takenBack /\ axis = "lateral" THEN Abort(w, i) ELSE w
            released == SetActor(stopped, a, Left(was, axis, i, takenBack))
            ended == End(released, i)
            v == Note(ended, i, reason)
<1>1. v = ReleaseAxis(w, a, axis, i, reason)
  BY DEF ReleaseAxis, Left
<1>2. was \in ActorStates BY DEF Sims
<1>3. 0 \in Nat /\ o \in Nat /\ b \in Nat /\ 1 \in Nat /\ 0 + 0 = 0 /\ 0 + 1 = 1 /\ 1 + 0 = 1 /\ o + 0 = o /\ 0 + b = b
  OBVIOUS
<1>4. Touched(w, stopped, a, i, o, 0, o) /\ stopped.actors = w.actors
  <2>1. CASE takenBack /\ axis = "lateral" BY <2>1, AbortTouched
  <2>2. CASE ~(takenBack /\ axis = "lateral")
    <3>1. Grew(w.events[i], w.events[i], 0, 0) BY GrewNot DEF Sims
    <3>. QED BY <2>2, <3>1 DEF Touched
  <2>. QED BY <2>1, <2>2
<1>5. stopped \in Sims /\ stopped.events[i] # <<>> BY <1>4 DEF Touched, Grew
<1>. HIDE DEF stopped
<1>6. Left(was, axis, i, takenBack) \in ActorStates BY <1>2, LeftFacts
<1>. HIDE DEF was
<1>7. Touched(stopped, released, a, i, 0, 0, 0)
      /\ released.actors[a] = Left(was, axis, i, takenBack)
  BY <1>5, <1>6, SetActorTouched
<1>8. released \in Sims /\ released.events[i] # <<>> BY <1>7 DEF Touched, Grew
<1>. HIDE DEF released
<1>9. Touched(released, ended, a, i, 0, 0, 1) /\ ended.actors = released.actors
  BY <1>8, EndTouched
<1>10. ended \in Sims /\ ended.events[i] # <<>> BY <1>9 DEF Touched, Grew
<1>. HIDE DEF ended
<1>11. Touched(ended, v, a, i, 0, b, 0) /\ v.actors = ended.actors
  <2>1. reason \in Kinds \ {"fired", "skipped"} /\ reason \notin {"completed", "aborted"}
    BY DEF Kinds
  <2>. QED BY <1>10, <2>1, NoteTouched
<1>. HIDE DEF v
<1>. HIDE DEF o, b
<1>12. Touched(w, released, a, i, o, 0, o)
  BY <1>3, <1>4, <1>7, TouchedTwice
<1>13. Touched(w, ended, a, i, o, 0, o + 1)
  BY <1>3, <1>9, <1>12, TouchedTwice
<1>14. Touched(w, v, a, i, o, b, o + 1)
  <2>1. o + 1 \in Nat /\ (o + 1) + 0 = o + 1 BY <1>3
  <2>. QED BY <1>3, <1>11, <1>13, <2>1, TouchedTwice
<1>15. Touched(w, v, a, i, o, b, 1)
  BY <1>3, <1>14 DEF Touched
<1>. QED BY <1>1, <1>7, <1>9, <1>11, <1>15 DEF was, o, b

-----------------------------------------------------------------------------
(* What one actor does is of no account to the others.                     *)

\* v is w but for actor a and its interactions.
Within(w, v, a) ==
  /\ \A j \in Ids : interactions[j].actor # a =>
       v.triggers[j] = w.triggers[j] /\ v.events[j] = w.events[j]
  /\ \A b \in Actors \ {a} : v.actors[b] = w.actors[b]

\* Of actor a and its interactions.
LivelyOf(w, a, t) ==
  /\ \A j \in Ids : interactions[j].actor = a => Told(w, j, t) /\ Served(w, j)
  /\ Commands(w, a) /\ Cruising(w, a)

LEMMA LocalKeeps ==
  ASSUME interactions \in Storyboards, NEW w, NEW v, NEW a \in Actors, NEW t,
         Good(w), Lively(w, t), Within(w, v, a), LivelyOf(v, a, t)
  PROVE  Lively(v, t)
<1>1. ASSUME NEW b \in Actors \ {a} PROVE OnTrack(v, b) <=> OnTrack(w, b)
  BY <1>1 DEF OnTrack, Within, Fired
<1>2. ASSUME NEW j \in Ids PROVE Told(v, j, t) /\ Served(v, j)
  <2>1. CASE interactions[j].actor = a BY <2>1 DEF LivelyOf
  <2>2. CASE interactions[j].actor # a
    <3>1. Told(w, j, t) /\ Served(w, j) BY DEF Lively
    <3>2. v.triggers[j] = w.triggers[j] /\ v.events[j] = w.events[j] BY <2>2 DEF Within
    <3>3. interactions[j].actor \in Actors \ {a} BY <2>2, AxisFacts
    <3>4. v.actors[interactions[j].actor] = w.actors[interactions[j].actor]
      BY <3>3 DEF Within
    <3>5. Told(v, j, t) BY <3>1, <3>2 DEF Told, Fired, Timeless, Starts, Skips, Overs
    <3>6. OnTrack(v, interactions[j].actor) <=> OnTrack(w, interactions[j].actor) BY <1>1, <3>3
    <3>7. Served(v, j) BY <3>1, <3>2, <3>4, <3>6 DEF Served, Fired, Ended, Overs
    <3>. QED BY <3>5, <3>7
  <2>. QED BY <2>1, <2>2
<1>3. ASSUME NEW b \in Actors PROVE Commands(v, b) /\ Cruising(v, b)
  <2>1. CASE b = a BY <2>1 DEF LivelyOf
  <2>2. CASE b # a
    <3>1. Commands(w, b) /\ Cruising(w, b) BY DEF Lively
    <3>2. v.actors[b] = w.actors[b] BY <2>2 DEF Within
    <3>3. Sound(b, w.actors[b]) /\ w.actors[b] \in ActorStates BY DEF Good, Sound
    <3>4. \A j \in Ids : interactions[j].actor = b =>
            v.triggers[j] = w.triggers[j] /\ v.events[j] = w.events[j]
      BY <2>2, SMTT(30) DEF Within
    <3>5. Commands(v, b)
      BY <3>1, <3>2, <3>3, <3>4
         DEF Commands, Fired, Followed, Ended, Overs, ActorStates, Holders
    <3>6. \A j \in Ids : Target(w, b, j) => Target(v, b, j)
      BY <3>4 DEF Target, Fired, Backs
    <3>7. \A axis \in Axes : v.actors[b].until[axis] # Nobody => Fired(v, v.actors[b].until[axis])
      BY <3>1, <3>2, <3>3, <3>4 DEF Cruising, Fired, Sound, Owned, ActorStates, Holders
    <3>8. OnTrack(v, b) <=> OnTrack(w, b) BY <1>1, <2>2
    <3>. QED BY <3>1, <3>2, <3>5, <3>6, <3>7, <3>8 DEF Cruising
  <2>. QED BY <2>1, <2>2
<1>. QED BY <1>2, <1>3 DEF Lively

\* From w to v no trigger fires or is skipped, an interaction may end now, and
\* commands are only taken away.
Calm(w, v) ==
  /\ \A j \in Ids :
       /\ v.triggers[j].status = w.triggers[j].status
       /\ v.triggers[j].fired_at = w.triggers[j].fired_at
       /\ v.triggers[j].ended_at # w.triggers[j].ended_at =>
            ~Ended(w, j) /\ v.triggers[j].ended_at = tick
  /\ \A b \in Actors :
       /\ w.actors[b].crash => v.actors[b].crash
       /\ v.actors[b].cmd["longitudinal"] \in {w.actors[b].cmd["longitudinal"], Nobody}

\* nor does anyone appear or disappear.
Unmoved(w, v) ==
  \A b \in Actors : /\ v.actors[b].present = w.actors[b].present
                    /\ v.actors[b].pending = w.actors[b].pending

Eases(w, v, t) == Lively(v, t) /\ Calm(w, v) /\ Unmoved(w, v)

\* What such a step leaves of actor a: commands and clauses are only taken from it,
\* a command only when its interaction ends or when a crash or a track takes it.
Eased(w, v, a, i, overs, backs, ends) ==
  LET r == w.actors[a]
      s == v.actors[a]
  IN  /\ Touched(w, v, a, i, overs, backs, ends)
      /\ overs \in {0, 1} /\ (overs = 1 => Overs(w, i) = 0) /\ (overs = 1 => ends > 0)
      /\ r.crash => s.crash
      /\ s.timed => r.timed
      /\ s.present = r.present /\ s.pending = r.pending
      /\ s.completed # r.completed => s.completed /\ s.cmd["longitudinal"] = i /\ ends > 0
      /\ \A x \in Held :
           /\ s.cmd[x] # r.cmd[x] =>
                /\ s.cmd[x] = Nobody
                /\ \/ s.crash
                   \/ x = "longitudinal" /\ OnTrack(w, a)
                   \/ r.cmd[x] = i /\ ends > 0 /\ (x = "lateral" => overs = 1)
           /\ s.cmd[x] = i =>
                \/ overs = 0 /\ ends = 0
                \/ interactions[i].verb = "gap" /\ s.completed /\ ends > 0
      /\ s.until["longitudinal"] \in {s.cmd["longitudinal"], Nobody}
      /\ \A x \in Axes : s.until[x] \in {r.until[x], Nobody}
      /\ s.cruise \in Ids => Target(w, a, s.cruise) /\ (backs = 0 \/ s.cruise # i)
      /\ s.cmd["longitudinal"] # Nobody =>
           s.prior = r.prior /\ (backs = 0 \/ Axis(i) # "longitudinal")

LEMMA EasedKeeps ==
  ASSUME interactions \in Storyboards, tick \in Ticks, NEW w, NEW v, NEW a \in Actors, NEW i \in Ids,
         NEW t, NEW overs \in Nat, NEW backs \in Nat, NEW ends \in Nat,
         Good(w), Lively(w, t), Fired(w, i), interactions[i].actor = a,
         Eased(w, v, a, i, overs, backs, ends)
  PROVE  Eases(w, v, t)
<1>. DEFINE r == w.actors[a]
            s == v.actors[a]
<1>1. w \in Sims /\ v \in Sims /\ r \in ActorStates /\ s \in ActorStates
  BY DEF Good, Eased, Touched, Sims
<1>2. \A j \in Ids : /\ v.triggers[j].status = w.triggers[j].status
                     /\ v.triggers[j].fired_at = w.triggers[j].fired_at
                     /\ Fired(v, j) <=> Fired(w, j)
                     /\ j # i => v.triggers[j] = w.triggers[j] /\ v.events[j] = w.events[j]
                     /\ Ended(w, j) => Ended(v, j)
  BY ConstantFacts DEF Eased, Touched, Fired, Ended
<1>3. ends > 0 => Ended(v, i) BY ConstantFacts DEF Eased, Touched, Ended
<1>4. Overs(v, i) = Overs(w, i) + overs /\ Backs(v, i) = Backs(w, i) + backs
  BY DEF Eased, Touched, Grew, Overs, Backs
<1>5. Overs(w, i) \in {0, 1} /\ Told(w, i, t) BY DEF Lively, Told
<1>6. Within(w, v, a) BY <1>2 DEF Within, Eased, Touched
<1>7. OnTrack(v, a) <=> OnTrack(w, a) BY <1>2 DEF OnTrack
<1>8. ASSUME NEW j \in Ids, interactions[j].actor = a PROVE Told(v, j, t) /\ Served(v, j)
  <2>1. Told(w, j, t) /\ Served(w, j) BY DEF Lively
  <2>2. Told(v, j, t)
    <3>1. CASE j # i
      BY <1>2, <2>1, <3>1 DEF Told, Fired, Timeless, Starts, Skips, Overs
    <3>2. CASE j = i
      <4>1. Overs(v, i) \in {0, 1} BY <1>4, <1>5 DEF Eased
      <4>2. /\ v.events[i] # <<>> /\ Head(v.events[i]) = Head(w.events[i])
            /\ Starts(v, i) = Starts(w, i) /\ Skips(v, i) = Skips(w, i)
        BY DEF Eased, Touched, Grew, Starts, Skips
      <4>. QED BY <1>2, <1>5, <3>2, <4>1, <4>2 DEF Told, Fired
    <3>. QED BY <3>1, <3>2
  <2>3. ASSUME Axis(j) \in Held, Fired(v, j)
        PROVE  /\ Ended(v, j) \/ s.cmd[Axis(j)] = j \/ s.crash \/ OnTrack(v, a)
               /\ Axis(j) = "lateral" => s.cmd["lateral"] = j \/ s.crash \/ Overs(v, j) = 1
    <3>1. /\ Ended(w, j) \/ r.cmd[Axis(j)] = j \/ r.crash \/ OnTrack(w, a)
          /\ Axis(j) = "lateral" => r.cmd["lateral"] = j \/ r.crash \/ Overs(w, j) = 1
      BY <1>2, <1>8, <2>1, <2>3 DEF Served
    <3>2. r.crash => s.crash BY DEF Eased
    <3>3. s.cmd[Axis(j)] # r.cmd[Axis(j)] =>
            \/ s.crash
            \/ Axis(j) = "longitudinal" /\ OnTrack(w, a)
            \/ r.cmd[Axis(j)] = i /\ ends > 0 /\ (Axis(j) = "lateral" => overs = 1)
      BY <2>3 DEF Eased
    <3>4. Overs(w, j) = 1 => Overs(v, j) = 1
      BY <1>2, <1>4, <1>5 DEF Overs, Eased
    <3>5. overs = 1 => Overs(v, i) = 1 BY <1>4 DEF Eased
    <3>. QED BY <1>2, <1>3, <1>7, <3>1, <3>2, <3>3, <3>4, <3>5
  <2>. QED BY <1>8, <2>2, <2>3 DEF Served
<1>9. Commands(v, a)
  <2>. SUFFICES ASSUME NEW x \in Held, s.cmd[x] # Nobody
                PROVE  /\ Fired(v, s.cmd[x]) /\ interactions[s.cmd[x]].actor = a /\ Axis(s.cmd[x]) = x
                       /\ ~Followed(v, a, s.cmd[x]) => ~Ended(v, s.cmd[x]) /\ Overs(v, s.cmd[x]) = 0
                       /\ Followed(v, a, s.cmd[x]) => Ended(v, s.cmd[x])
    BY DEF Commands
  <2>. DEFINE k == s.cmd[x]
  <2>1. k \in Ids /\ r.cmd[x] = k BY <1>1 DEF Eased, ActorStates, Holders
  <2>2. /\ Fired(w, k) /\ interactions[k].actor = a /\ Axis(k) = x
        /\ ~Followed(w, a, k) => ~Ended(w, k) /\ Overs(w, k) = 0
        /\ Followed(w, a, k) => Ended(w, k)
    BY <2>1 DEF Lively, Commands
  <2>3. CASE k = i
    <3>1. \/ overs = 0 /\ ends = 0
          \/ interactions[i].verb = "gap" /\ s.completed /\ ends > 0
      BY <2>3 DEF Eased
    <3>2. CASE overs = 0 /\ ends = 0 /\ s.completed = r.completed
      <4>1. Ended(v, i) <=> Ended(w, i) BY <3>2 DEF Eased, Touched, Ended
      <4>2. Overs(v, i) = Overs(w, i) BY <1>4, <1>5, <3>2
      <4>. QED BY <1>2, <2>2, <2>3, <3>2, <4>1, <4>2 DEF Followed
    <3>3. CASE interactions[i].verb = "gap" /\ s.completed /\ ends > 0
      BY <1>2, <1>3, <2>2, <2>3, <3>3 DEF Followed
    <3>4. ends = 0 => s.completed = r.completed BY DEF Eased
    <3>. QED BY <3>1, <3>2, <3>3, <3>4
  <2>4. CASE k # i
    <3>1. Followed(v, a, k) <=> Followed(w, a, k)
      <4>1. CASE s.completed = r.completed BY <4>1 DEF Followed
      <4>2. CASE s.completed # r.completed
        <5>1. s.cmd["longitudinal"] = i BY <4>2 DEF Eased
        <5>2. x = "lateral" BY <2>4, <5>1 DEF Held
        <5>3. interactions[k].verb # "gap" BY <2>1, <2>2, <5>2, AxisFacts
        <5>. QED BY <5>3 DEF Followed
      <4>. QED BY <4>1, <4>2
    <3>2. Ended(v, k) <=> Ended(w, k) BY <1>2, <2>1, <2>4 DEF Ended
    <3>3. Overs(v, k) = Overs(w, k) BY <1>2, <2>1, <2>4 DEF Overs
    <3>. QED BY <1>2, <2>1, <2>2, <3>1, <3>2, <3>3
  <2>. QED BY <2>3, <2>4
<1>10. Cruising(v, a)
  <2>1. Cruising(w, a) BY DEF Lively
  <2>2. s.timed => OnTrack(v, a) BY <1>7, <2>1 DEF Cruising, Eased
  <2>3. \A x \in Axes : s.until[x] # Nobody => Fired(v, s.until[x])
    <3>. SUFFICES ASSUME NEW x \in Axes, s.until[x] # Nobody PROVE Fired(v, s.until[x])
      OBVIOUS
    <3>1. s.until[x] = r.until[x] /\ r.until[x] \in Ids
      BY <1>1 DEF Eased, ActorStates, Holders
    <3>. QED BY <1>2, <2>1, <3>1 DEF Cruising
  <2>4. \A j \in Ids : Target(w, a, j) /\ (backs = 0 \/ j # i) => Target(v, a, j)
    <3>. SUFFICES ASSUME NEW j \in Ids, Target(w, a, j), backs = 0 \/ j # i PROVE Target(v, a, j)
      OBVIOUS
    <3>1. Backs(w, j) = 0 => Backs(v, j) = 0
      BY <1>2, <1>4 DEF Backs
    <3>. QED BY <1>2, <3>1 DEF Target
  <2>5. s.cruise \in Ids => Target(v, a, s.cruise) BY <2>4 DEF Eased
  <2>6. s.cmd["longitudinal"] # Nobody /\ s.prior \in Ids =>
          Target(v, a, s.prior) /\ s.prior # s.cmd["longitudinal"]
    <3>. SUFFICES ASSUME s.cmd["longitudinal"] # Nobody, s.prior \in Ids
                  PROVE  Target(v, a, s.prior) /\ s.prior # s.cmd["longitudinal"]
      OBVIOUS
    <3>1. s.cmd["longitudinal"] = r.cmd["longitudinal"] /\ s.prior = r.prior
      BY DEF Eased, Held
    <3>2. Target(w, a, s.prior) /\ s.prior # r.cmd["longitudinal"] BY <2>1, <3>1 DEF Cruising
    <3>3. backs = 0 \/ s.prior # i
      <4>1. interactions[s.prior].verb \in {"speed", "match"} BY <3>2 DEF Target
      <4>2. Axis(s.prior) = "longitudinal" BY <4>1, AxisFacts
      <4>. QED BY <4>2 DEF Eased
    <3>. QED BY <2>4, <3>1, <3>2, <3>3
  <2>7. s.until["longitudinal"] \in {s.cmd["longitudinal"], Nobody} BY DEF Eased
  <2>. QED BY <2>2, <2>3, <2>5, <2>6, <2>7 DEF Cruising
<1>11. Calm(w, v)
  <2>1. \A j \in Ids : v.triggers[j].ended_at # w.triggers[j].ended_at =>
          ~Ended(w, j) /\ v.triggers[j].ended_at = tick
    BY <1>2 DEF Eased, Touched
  <2>2. \A b \in Actors : /\ w.actors[b].crash => v.actors[b].crash
                          /\ v.actors[b].cmd["longitudinal"] \in {w.actors[b].cmd["longitudinal"], Nobody}
    BY DEF Eased, Touched, Held
  <2>. QED BY <1>2, <2>1, <2>2 DEF Calm
<1>12. Unmoved(w, v) BY DEF Unmoved, Eased, Touched
<1>13. Lively(v, t) BY <1>6, <1>8, <1>9, <1>10, LocalKeeps DEF LivelyOf
<1>. QED BY <1>11, <1>12, <1>13 DEF Eases

\* Actor a becomes s: it loses commands to a crash or a track, and nothing else.
Loses(w, a, s) ==
  LET r == w.actors[a]
  IN  /\ s \in ActorStates
      /\ r.crash => s.crash
      /\ s.timed => r.timed
      /\ s.completed = r.completed
      /\ \A x \in Held : s.cmd[x] # r.cmd[x] =>
           s.cmd[x] = Nobody /\ (s.crash \/ (x = "longitudinal" /\ OnTrack(w, a)))
      /\ s.until["longitudinal"] \in {s.cmd["longitudinal"], Nobody}
      /\ \A x \in Axes : s.until[x] \in {r.until[x], Nobody}
      /\ s.cruise \in {r.cruise, Halted} /\ s.prior = r.prior

LEMMA ActorKeeps ==
  ASSUME interactions \in Storyboards, NEW w, NEW a \in Actors, NEW s, NEW t,
         Good(w), Lively(w, t), Loses(w, a, s)
  PROVE  Lively(SetActor(w, a, s), t) /\ Calm(w, SetActor(w, a, s))
<1>. DEFINE r == w.actors[a]
            v == SetActor(w, a, s)
<1>1. w \in Sims /\ r \in ActorStates /\ Sound(a, r) /\ s \in ActorStates BY DEF Good, Sims, Loses
<1>2. v.triggers = w.triggers /\ v.events = w.events /\ v.actors[a] = s
      /\ \A b \in Actors \ {a} : v.actors[b] = w.actors[b]
  BY <1>1 DEF SetActor, Sims
<1>. HIDE DEF v
<1>3. Within(w, v, a) BY <1>2 DEF Within
<1>4. OnTrack(v, a) <=> OnTrack(w, a) BY <1>2 DEF OnTrack, Fired
<1>5. ASSUME NEW j \in Ids, interactions[j].actor = a PROVE Told(v, j, t) /\ Served(v, j)
  <2>1. Told(w, j, t) /\ Served(w, j) BY DEF Lively
  <2>2. Told(v, j, t) BY <1>2, <2>1 DEF Told, Fired, Timeless, Starts, Skips, Overs
  <2>3. Axis(j) \in Held /\ s.cmd[Axis(j)] # r.cmd[Axis(j)] =>
          s.crash \/ (Axis(j) = "longitudinal" /\ OnTrack(w, a))
    BY DEF Loses
  <2>4. r.crash => s.crash BY DEF Loses
  <2>5. Served(v, j)
    BY <2>4, <1>2, <1>4, <1>5, <2>1, <2>3, SMTT(30) DEF Served, Fired, Ended, Overs
  <2>. QED BY <2>2, <2>5
<1>6. Commands(v, a)
  <2>1. Commands(w, a) BY DEF Lively
  <2>. QED BY <1>2, <2>1 DEF Loses, Commands, Fired, Followed, Ended, Overs
<1>7. Cruising(v, a)
  <2>1. Cruising(w, a) BY DEF Lively
  <2>2. \A j : Target(v, a, j) <=> Target(w, a, j) BY <1>2 DEF Target, Fired, Backs
  <2>3. s.cruise \in Ids => s.cruise = r.cruise
    <3>1. Halted \notin Ids BY StoryFacts DEF Halted
    <3>. QED BY <3>1 DEF Loses
  <2>4. \A x \in Axes : s.until[x] # Nobody => Fired(v, s.until[x])
    BY <1>2, <2>1 DEF Cruising, Fired, Loses
  <2>5. s.cmd["longitudinal"] # Nobody => s.cmd["longitudinal"] = r.cmd["longitudinal"]
    BY DEF Held, Loses
  <2>. QED BY <1>2, <1>4, <2>1, <2>2, <2>3, <2>4, <2>5 DEF Cruising, Loses
<1>8. Lively(v, t) BY <1>3, <1>5, <1>6, <1>7, LocalKeeps DEF LivelyOf
<1>9. Calm(w, v)
  <2>1. /\ r.crash => s.crash
        /\ s.cmd["longitudinal"] \in {r.cmd["longitudinal"], Nobody}
    BY DEF Loses, Held
  <2>2. \A b \in Actors : /\ w.actors[b].crash => v.actors[b].crash
                          /\ v.actors[b].cmd["longitudinal"] \in {w.actors[b].cmd["longitudinal"], Nobody}
    BY <1>2, <2>1
  <2>. QED BY <1>2, <2>2 DEF Calm
<1>. QED BY <1>8, <1>9 DEF v

\* Who is in charge of an axis has started; on the lateral one, it is not over.
LEMMA ChargeFacts ==
  ASSUME interactions \in Storyboards, NEW w, NEW a \in Actors, NEW t, Good(w), Lively(w, t),
         NEW x \in Held, w.actors[a].cmd[x] # Nobody
  PROVE  /\ w.actors[a].cmd[x] \in Ids
         /\ Fired(w, w.actors[a].cmd[x]) /\ w.events[w.actors[a].cmd[x]] # <<>>
         /\ interactions[w.actors[a].cmd[x]].actor = a /\ Axis(w.actors[a].cmd[x]) = x
         /\ ~Followed(w, a, w.actors[a].cmd[x]) => Overs(w, w.actors[a].cmd[x]) = 0
         /\ x = "lateral" => Overs(w, w.actors[a].cmd[x]) = 0
<1>. DEFINE i == w.actors[a].cmd[x]
<1>1. i \in Ids BY DEF Good, Sims, ActorStates, Holders
<1>2. /\ Fired(w, i) /\ interactions[i].actor = a /\ Axis(i) = x
      /\ ~Followed(w, a, i) => Overs(w, i) = 0
  BY DEF Lively, Commands
<1>3. w.events[i] # <<>> BY <1>1, <1>2 DEF Lively, Told
<1>. HIDE DEF i
<1>4. x = "lateral" => ~Followed(w, a, i) BY <1>1, <1>2, AxisFacts DEF Followed
<1>. QED BY <1>1, <1>2, <1>3, <1>4 DEF i

-----------------------------------------------------------------------------
(* The phases, one actor or interaction at a time.                         *)

LEMMA HeldFacts == "longitudinal" \in Held /\ "lateral" \in Held /\ Held \subseteq Axes
BY DEF Held, Axes

LEMMA DisabledLively ==
  ASSUME interactions \in Storyboards, NEW w, NEW a \in Actors, NEW t, Good(w), Lively(w, t)
  PROVE  /\ Eases(w, SetActor(w, a, Disabled(w.actors[a])), t)
         /\ Eases(w, SetActor(w, a, [Disabled(w.actors[a]) EXCEPT !.timed = FALSE]), t)
<1>. DEFINE r == w.actors[a]
            d == Disabled(r)
            e == [d EXCEPT !.timed = FALSE]
<1>1. r \in ActorStates /\ w \in Sims BY DEF Good, Sims
<1>2. /\ d \in ActorStates /\ e \in ActorStates
      /\ d.present = r.present /\ e.present = r.present
      /\ d.pending = r.pending /\ e.pending = r.pending
      /\ d.crash /\ e.crash /\ d.timed = r.timed /\ ~e.timed
      /\ d.completed = r.completed /\ e.completed = r.completed
      /\ d.cruise = r.cruise /\ e.cruise = r.cruise /\ d.prior = r.prior /\ e.prior = r.prior
      /\ d.cmd = [x \in Held |-> Nobody] /\ e.cmd = [x \in Held |-> Nobody]
      /\ d.until = [x \in Axes |-> Nobody] /\ e.until = [x \in Axes |-> Nobody]
  BY <1>1 DEF Disabled, ActorStates, Holders
<1>. HIDE DEF d, e
<1>3. /\ \A x \in Held : d.cmd[x] = Nobody /\ e.cmd[x] = Nobody
      /\ \A x \in Axes : d.until[x] = Nobody /\ e.until[x] = Nobody
  BY <1>2
<1>4. Loses(w, a, d) /\ Loses(w, a, e)
  <2>1. /\ d.until["longitudinal"] = Nobody /\ e.until["longitudinal"] = Nobody
    BY <1>3, HeldFacts
  <2>2. Loses(w, a, d) BY <1>2, <1>3, <2>1 DEF Loses
  <2>3. Loses(w, a, e) BY <1>2, <1>3, <2>1 DEF Loses
  <2>. QED BY <2>2, <2>3
<1>5. Lively(SetActor(w, a, d), t) /\ Calm(w, SetActor(w, a, d)) BY <1>4, ActorKeeps
<1>6. Lively(SetActor(w, a, e), t) /\ Calm(w, SetActor(w, a, e)) BY <1>4, ActorKeeps
<1>7. Unmoved(w, SetActor(w, a, d)) /\ Unmoved(w, SetActor(w, a, e))
  <2>1. ASSUME NEW x \in ActorStates, x.present = r.present, x.pending = r.pending
        PROVE  Unmoved(w, SetActor(w, a, x))
    <3>1. SetActor(w, a, x).actors[a] = x
          /\ \A b \in Actors \ {a} : SetActor(w, a, x).actors[b] = w.actors[b]
      BY <1>1, <2>1, SetActorFacts
    <3>. QED BY <2>1, <3>1 DEF Unmoved
  <2>. QED BY <1>2, <2>1
<1>. QED BY <1>5, <1>6, <1>7 DEF d, e, Eases

LEMMA CollisionLively ==
  ASSUME interactions \in Storyboards, tick \in Ticks, NEW w, NEW a \in Actors, NEW t,
         Good(w), Lively(w, t)
  PROVE  Eases(w, AfterCollision(w, a), t)
<1>. DEFINE i == w.actors[a].cmd["lateral"]
            r == w.actors[a]
            e == [Disabled(r) EXCEPT !.timed = FALSE]
            u == SetActor(w, a, e)
            v == Abort(u, i)
<1>1. CASE i = Nobody
  <2>1. AfterCollision(w, a) = u BY <1>1 DEF AfterCollision
  <2>. QED BY <2>1, DisabledLively
<1>2. CASE i # Nobody
  <2>1. AfterCollision(w, a) = v BY <1>2 DEF AfterCollision
  <2>2. r \in ActorStates /\ w \in Sims BY DEF Good, Sims
  <2>3. /\ e \in ActorStates /\ e.crash /\ ~e.timed /\ e.completed = r.completed
        /\ e.cruise = r.cruise /\ e.present = r.present /\ e.pending = r.pending
        /\ \A x \in Held : e.cmd[x] = Nobody
        /\ \A x \in Axes : e.until[x] = Nobody
    BY <2>2 DEF Disabled, ActorStates, Holders
  <2>4. i \in Ids /\ Fired(w, i) /\ w.events[i] # <<>> /\ interactions[i].actor = a
        /\ Axis(i) = "lateral" /\ Overs(w, i) = 0
    BY <1>2, HeldFacts, ChargeFacts
  <2>. HIDE DEF e, i
  <2>5. Touched(w, u, a, i, 0, 0, 0) /\ u.actors[a] = e
    BY <2>2, <2>3, <2>4, SetActorTouched
  <2>6. u \in Sims /\ u.events[i] # <<>> BY <2>5 DEF Touched, Grew
  <2>. HIDE DEF u
  <2>7. Touched(u, v, a, i, 1, 0, 1) /\ v.actors = u.actors BY <2>4, <2>6, AbortTouched
  <2>. HIDE DEF v
  <2>8. Touched(w, v, a, i, 1, 0, 1)
    <3>1. 1 = 0 + 1 /\ 0 = 0 + 0 OBVIOUS
    <3>. QED BY <2>2, <2>4, <2>5, <2>7, <3>1, TouchedTwice
  <2>9. v.actors[a] = e BY <2>5, <2>7
  <2>10. Cruising(w, a) BY DEF Lively
  <2>11. Eased(w, v, a, i, 1, 0, 1)
    <3>1. e.cruise \in Ids => Target(w, a, e.cruise) BY <2>3, <2>10 DEF Cruising
    <3>2. e.cmd["longitudinal"] = Nobody /\ e.until["longitudinal"] = Nobody
      BY <2>3, HeldFacts
    <3>3. i # Nobody BY <1>2
    <3>. QED BY <2>3, <2>4, <2>8, <2>9, <3>1, <3>2, <3>3 DEF Eased
  <2>. QED BY <2>1, <2>4, <2>11, EasedKeeps
<1>. QED BY <1>1, <1>2

\* An axis is released: the interaction has ended, and a lateral one in charge is over.
LEMMA LeftLively ==
  ASSUME interactions \in Storyboards, tick \in Ticks, NEW w, NEW v, NEW a \in Actors, NEW i \in Ids,
         NEW t, Good(w), Lively(w, t), Fired(w, i), interactions[i].actor = a,
         NEW axis \in Axes, Axis(i) = axis, NEW takenBack \in BOOLEAN,
         axis = "longitudinal" => w.actors[a].cmd[axis] = i,
         axis = "lateral" => w.actors[a].cmd[axis] \in {i, Nobody},
         NEW overs \in {0, 1}, NEW backs \in Nat, NEW ends \in Nat, ends > 0,
         Touched(w, v, a, i, overs, backs, ends),
         v.actors[a] = Left(w.actors[a], axis, i, takenBack),
         overs = 1 => Overs(w, i) = 0,
         axis = "lateral" /\ w.actors[a].cmd[axis] = i => overs = 1,
         backs = 0 \/ axis # "longitudinal" \/ takenBack
  PROVE  Eases(w, v, t)
<1>. DEFINE r == w.actors[a]
            s == Left(r, axis, i, takenBack)
<1>1. r \in ActorStates BY DEF Good, Sims
<1>2. /\ s \in ActorStates
      /\ s.cmd = [x \in Held |-> IF x = axis THEN Nobody ELSE r.cmd[x]]
      /\ s.until = [r.until EXCEPT ![axis] = IF @ = i THEN Nobody ELSE @]
      /\ s.cruise = IF takenBack /\ axis = "longitudinal" /\ interactions[i].verb # "gap"
                      THEN r.prior ELSE r.cruise
      /\ s.prior = r.prior /\ s.completed = r.completed /\ s.timed = r.timed /\ s.crash = r.crash
      /\ s.present = r.present /\ s.pending = r.pending
  BY <1>1, LeftFacts
<1>. HIDE DEF s
<1>3. \A x \in Held : s.cmd[x] = IF x = axis THEN Nobody ELSE r.cmd[x] BY <1>2
<1>4. \A x \in Axes : s.until[x] = IF x = axis /\ r.until[x] = i THEN Nobody ELSE r.until[x]
  BY <1>1, <1>2 DEF ActorStates
<1>5. Commands(w, a) /\ Cruising(w, a) BY DEF Lively
<1>6. i # Nobody /\ axis \in Axes BY AxisFacts
<1>7. \A x \in Held : s.cmd[x] # i
  <2>. SUFFICES ASSUME NEW x \in Held, r.cmd[x] = i PROVE x = axis
    BY <1>3, <1>6
  <2>. QED BY <1>5, <1>6 DEF Commands
<1>8. \A x \in Held : s.cmd[x] # r.cmd[x] =>
        s.cmd[x] = Nobody /\ r.cmd[x] = i /\ (x = "lateral" => overs = 1)
  <2>. SUFFICES ASSUME NEW x \in Held, s.cmd[x] # r.cmd[x]
                PROVE  s.cmd[x] = Nobody /\ r.cmd[x] = i /\ (x = "lateral" => overs = 1)
    OBVIOUS
  <2>1. x = axis /\ s.cmd[x] = Nobody BY <1>3
  <2>2. r.cmd[x] = i BY <2>1 DEF Held
  <2>. QED BY <2>1, <2>2
<1>9. s.until["longitudinal"] \in {s.cmd["longitudinal"], Nobody}
  <2>1. r.until["longitudinal"] \in {r.cmd["longitudinal"], Nobody} BY <1>5 DEF Cruising
  <2>. QED BY <1>3, <1>4, <2>1, HeldFacts
<1>10. s.cruise \in Ids => Target(w, a, s.cruise) /\ (backs = 0 \/ s.cruise # i)
  <2>1. CASE takenBack /\ axis = "longitudinal" /\ interactions[i].verb # "gap"
    BY <1>2, <1>5, <1>6, <2>1 DEF Cruising
  <2>2. CASE ~(takenBack /\ axis = "longitudinal" /\ interactions[i].verb # "gap")
    <3>1. s.cruise = r.cruise BY <1>2, <2>2
    <3>. SUFFICES ASSUME s.cruise \in Ids PROVE Target(w, a, s.cruise) /\ (backs = 0 \/ s.cruise # i)
      OBVIOUS
    <3>2. Target(w, a, s.cruise) BY <1>5, <3>1 DEF Cruising
    <3>3. interactions[s.cruise].verb \in {"speed", "match"} BY <3>2 DEF Target
    <3>4. Axis(s.cruise) = "longitudinal" BY <3>3, AxisFacts
    <3>5. backs = 0 \/ interactions[i].verb = "gap" \/ axis # "longitudinal" BY <2>2
    <3>. QED BY <3>2, <3>3, <3>4, <3>5
  <2>. QED BY <2>1, <2>2
<1>11. s.cmd["longitudinal"] # Nobody => backs = 0 \/ Axis(i) # "longitudinal"
  BY <1>3, HeldFacts
<1>12. Eased(w, v, a, i, overs, backs, ends)
  <2>1. v.actors[a] = s BY DEF s
  <2>2. \A x \in Axes : s.until[x] \in {r.until[x], Nobody} BY <1>4
  <2>. QED BY <1>2, <1>7, <1>8, <1>9, <1>10, <1>11, <2>1, <2>2 DEF Eased
<1>. QED BY <1>12, EasedKeeps

LEMMA CompleteLively ==
  ASSUME interactions \in Storyboards, tick \in Ticks, NEW w, NEW a \in Actors, NEW t,
         Good(w), Lively(w, t), w.actors[a].cmd["longitudinal"] # Nobody,
         interactions[w.actors[a].cmd["longitudinal"]].verb = "gap" => ~w.actors[a].completed
  PROVE  Eases(w, Complete(w, a), t)
<1>. DEFINE r == w.actors[a]
            i == r.cmd["longitudinal"]
            noted == Note(w, i, "completed")
            ended == End(noted, i)
            s == [r EXCEPT !.completed = TRUE]
            reached == SetActor(ended, a, s)
            released == ReleaseAxis(noted, a, "longitudinal", i, "complete")
<1>1. Complete(w, a) = IF interactions[i].verb = "gap" THEN reached ELSE released
  BY DEF Complete
<1>2. w \in Sims /\ r \in ActorStates BY DEF Good, Sims
<1>3. i \in Ids /\ Fired(w, i) /\ w.events[i] # <<>> /\ interactions[i].actor = a
      /\ Axis(i) = "longitudinal" /\ Overs(w, i) = 0 /\ i # Nobody
  BY HeldFacts, ChargeFacts DEF Followed
<1>. HIDE DEF i
<1>4. Touched(w, noted, a, i, 1, 0, 0) /\ noted.actors = w.actors
  BY <1>2, <1>3, NoteTouched DEF Kinds
<1>5. noted \in Sims /\ noted.events[i] # <<>> BY <1>4 DEF Touched, Grew
<1>. HIDE DEF noted
<1>6. CASE interactions[i].verb = "gap"
  <2>1. Touched(noted, ended, a, i, 0, 0, 1) /\ ended.actors = noted.actors
    BY <1>3, <1>5, EndTouched
  <2>2. ended \in Sims /\ ended.events[i] # <<>> BY <2>1 DEF Touched, Grew
  <2>. HIDE DEF ended
  <2>3. /\ s \in ActorStates /\ s.completed /\ s.crash = r.crash /\ s.timed = r.timed
        /\ s.cmd = r.cmd /\ s.until = r.until /\ s.cruise = r.cruise /\ s.prior = r.prior
        /\ s.present = r.present /\ s.pending = r.pending
    BY <1>2 DEF ActorStates
  <2>. HIDE DEF s
  <2>4. Touched(ended, reached, a, i, 0, 0, 0) /\ reached.actors[a] = s
    BY <1>3, <2>2, <2>3, SetActorTouched
  <2>. HIDE DEF reached
  <2>5. Touched(w, reached, a, i, 1, 0, 1)
    <3>1. 1 = 1 + 0 /\ 0 = 0 + 0 /\ 1 = 0 + 1 OBVIOUS
    <3>2. Touched(w, ended, a, i, 1, 0, 1) BY <1>2, <1>3, <1>4, <2>1, <3>1, TouchedTwice
    <3>. QED BY <1>2, <1>3, <2>4, <3>1, <3>2, TouchedTwice
  <2>6. Commands(w, a) /\ Cruising(w, a) BY DEF Lively
  <2>7. Eased(w, reached, a, i, 1, 0, 1)
    <3>1. \A x \in Held : s.cmd[x] = i => interactions[i].verb = "gap" /\ s.completed
      BY <1>6, <2>3
    <3>2. s.cruise \in Ids => Target(w, a, s.cruise) BY <2>3, <2>6 DEF Cruising
    <3>3. s.until["longitudinal"] \in {s.cmd["longitudinal"], Nobody} BY <2>3, <2>6 DEF Cruising
    <3>4. s.cmd["longitudinal"] = i BY <2>3 DEF i
    <3>5. r.crash => s.crash BY <2>3
    <3>6. s.timed => r.timed BY <2>3
    <3>. QED BY <1>3, <2>3, <2>4, <2>5, <3>1, <3>2, <3>3, <3>4, <3>5, <3>6 DEF Eased
  <2>. QED BY <1>1, <1>3, <1>6, <2>7, EasedKeeps
<1>7. CASE interactions[i].verb # "gap"
  <2>1. Touched(noted, released, a, i, 0, 0, 1)
        /\ released.actors[a] = Left(noted.actors[a], "longitudinal", i, FALSE)
    BY <1>3, <1>5, HeldFacts, ReleaseTouched
  <2>. HIDE DEF released
  <2>2. Touched(w, released, a, i, 1, 0, 1)
    <3>1. 1 = 1 + 0 /\ 0 = 0 + 0 /\ 1 = 0 + 1 OBVIOUS
    <3>. QED BY <1>2, <1>3, <1>4, <2>1, <3>1, TouchedTwice
  <2>3. released.actors[a] = Left(r, "longitudinal", i, FALSE) BY <1>4, <2>1
  <2>4. r.cmd["longitudinal"] = i BY DEF i
  <2>5. 1 > 0 /\ 1 \in {0, 1} /\ 0 \in Nat /\ 1 \in Nat OBVIOUS
  <2>6. Eases(w, released, t)
    BY <1>3, <2>2, <2>3, <2>4, <2>5, HeldFacts, LeftLively
  <2>. QED BY <1>1, <1>7, <2>6
<1>. QED BY <1>6, <1>7

LEMMA CloseWindowLively ==
  ASSUME interactions \in Storyboards, tick \in Ticks, NEW w, NEW i \in Ids, NEW t,
         Good(w), Lively(w, t), Fired(w, i), Axis(i) # "lateral"
  PROVE  Eases(w, CloseWindow(w, i), t)
<1>. DEFINE a == interactions[i].actor
            r == w.actors[a]
            inCharge == Axis(i) = "longitudinal" /\ r.cmd["longitudinal"] = i
            ended == End(w, i)
            released == ReleaseAxis(ended, a, "longitudinal", i, "window")
<1>1. CloseWindow(w, i) = IF inCharge THEN released ELSE ended BY DEF CloseWindow
<1>2. a \in Actors /\ w \in Sims /\ i # Nobody BY AxisFacts DEF Good
<1>3. w.events[i] # <<>> BY DEF Lively, Told
<1>. HIDE DEF a
<1>4. Touched(w, ended, a, i, 0, 0, 1) /\ ended.actors = w.actors
  BY <1>2, <1>3, EndTouched
<1>5. ended \in Sims /\ ended.events[i] # <<>> BY <1>4 DEF Touched, Grew
<1>. HIDE DEF ended
<1>6. CASE inCharge
  <2>1. Touched(ended, released, a, i, 0, 0, 1)
        /\ released.actors[a] = Left(ended.actors[a], "longitudinal", i, FALSE)
    BY <1>2, <1>5, HeldFacts, ReleaseTouched
  <2>. HIDE DEF released
  <2>2. Touched(w, released, a, i, 0, 0, 2)
    <3>1. 0 = 0 + 0 /\ 2 = 1 + 1 OBVIOUS
    <3>. QED BY <1>2, <1>4, <2>1, <3>1, TouchedTwice
  <2>3. released.actors[a] = Left(r, "longitudinal", i, FALSE) BY <1>4, <2>1
  <2>4. 2 > 0 /\ 0 \in {0, 1} /\ 0 \in Nat /\ 2 \in Nat /\ interactions[i].actor = a BY DEF a
  <2>5. Eases(w, released, t)
    <3>. DEFINE o == 0
                e == 2
    <3>1. /\ o \in {0, 1} /\ o # 1 /\ o = 0 /\ o \in Nat /\ e > 0 /\ e \in Nat
          /\ Touched(w, released, a, i, o, o, e)
      BY <2>2
    <3>. HIDE DEF o, e
    <3>. QED BY <1>2, <1>6, <2>3, <2>4, <3>1, HeldFacts, LeftLively
  <2>. QED BY <1>1, <1>6, <2>5
<1>7. CASE ~inCharge
  <2>1. Commands(w, a) /\ Cruising(w, a) BY <1>2 DEF Lively
  <2>2. \A x \in Held : r.cmd[x] # i
    <3>. SUFFICES ASSUME NEW x \in Held, r.cmd[x] = i PROVE FALSE OBVIOUS
    <3>1. Axis(i) = x BY <1>2, <2>1 DEF Commands
    <3>. QED BY <1>7, <3>1 DEF Held
  <2>3. Eased(w, ended, a, i, 0, 0, 1)
    <3>1. ended.actors[a] = r BY <1>4
    <3>. QED BY <1>4, <2>1, <2>2, <3>1 DEF Eased, Cruising
  <2>4. interactions[i].actor = a BY DEF a
  <2>. QED BY <1>1, <1>2, <1>7, <2>3, <2>4, EasedKeeps
<1>. QED BY <1>6, <1>7

\* An until clause that waits: whose it is, and whom it may release.
LEMMA ClauseFacts ==
  ASSUME interactions \in Storyboards, NEW w, NEW a \in Actors, NEW t, Good(w), Lively(w, t),
         NEW x \in Axes, w.actors[a].until[x] # Nobody
  PROVE  /\ w.actors[a].until[x] \in Ids
         /\ Fired(w, w.actors[a].until[x]) /\ w.events[w.actors[a].until[x]] # <<>>
         /\ interactions[w.actors[a].until[x]].actor = a /\ Axis(w.actors[a].until[x]) = x
         /\ x = "longitudinal" => w.actors[a].cmd[x] = w.actors[a].until[x]
         /\ x = "lateral" => w.actors[a].cmd[x] \in {w.actors[a].until[x], Nobody}
<1>. DEFINE i == w.actors[a].until[x]
<1>1. i \in Ids BY DEF Good, Sims, ActorStates, Holders
<1>2. Cruising(w, a) /\ Owned(a, w.actors[a]) BY DEF Lively, Good, Sound
<1>3. Fired(w, i) /\ interactions[i].actor = a /\ Axis(i) = x
      /\ (x \in Held => w.actors[a].cmd[x] \in {i, Nobody})
  BY <1>2 DEF Cruising, Owned
<1>4. w.events[i] # <<>> BY <1>1, <1>3 DEF Lively, Told
<1>5. x = "longitudinal" => w.actors[a].cmd[x] = i BY <1>2 DEF Cruising
<1>. QED BY <1>1, <1>3, <1>4, <1>5, HeldFacts

LEMMA UntilLively ==
  ASSUME interactions \in Storyboards, tick \in Ticks, NEW w, NEW a \in Actors, NEW t,
         Good(w), Lively(w, t), NEW x \in Axes, NEW i, i = w.actors[a].until[x], i # Nobody
  PROVE  /\ Eases(w, ReleaseAxis(w, a, x, i, "until"), t)
         /\ \A y \in Axes \ {x} :
              ReleaseAxis(w, a, x, i, "until").actors[a].until[y] = w.actors[a].until[y]
<1>. DEFINE r == w.actors[a]
            v == ReleaseAxis(w, a, x, i, "until")
            h == x \in Held /\ r.cmd[x] = i
            o == IF h /\ x = "lateral" THEN 1 ELSE 0
<1>1. w \in Sims /\ r \in ActorStates BY DEF Good, Sims
<1>2. i \in Ids /\ Fired(w, i) /\ w.events[i] # <<>> /\ interactions[i].actor = a /\ Axis(i) = x
      /\ (x = "longitudinal" => r.cmd[x] = i) /\ (x = "lateral" => r.cmd[x] \in {i, Nobody})
  BY ClauseFacts
<1>3. o = 1 => Overs(w, i) = 0 BY HeldFacts, ChargeFacts
<1>4. x = "lateral" /\ r.cmd[x] = i => o = 1 BY HeldFacts
<1>5. x = "longitudinal" => h BY <1>2, HeldFacts
<1>6. PICK takenBack \in BOOLEAN : takenBack <=> h
  <2>1. CASE h BY <2>1
  <2>2. CASE ~h BY <2>2
  <2>. QED BY <2>1, <2>2
<1>7. Touched(w, v, a, i, o, 1, 1) /\ v.actors[a] = Left(r, x, i, takenBack)
  <2>1. Touched(w, v, a, i, IF takenBack /\ x = "lateral" THEN 1 ELSE 0,
                IF "until" = "until" THEN 1 ELSE 0, 1)
        /\ v.actors[a] = Left(r, x, i, takenBack)
    BY <1>1, <1>2, <1>6, ReleaseTouched
  <2>. QED BY <1>6, <2>1
<1>8. \A y \in Axes \ {x} : v.actors[a].until[y] = r.until[y]
  <2>1. Left(r, x, i, takenBack).until = [r.until EXCEPT ![x] = IF @ = i THEN Nobody ELSE @]
    BY <1>1, <1>2, <1>6, LeftFacts, ZenonT(40)
  <2>. QED BY <1>1, <1>7, <2>1 DEF ActorStates
<1>9. o \in {0, 1} /\ 1 > 0 /\ 1 \in Nat OBVIOUS
<1>. HIDE DEF v, o, h
<1>10. x = "longitudinal" => takenBack BY <1>5, <1>6
<1>11. Eases(w, v, t)
  <2>. DEFINE n == 1
  <2>1. n > 0 /\ n \in Nat /\ Touched(w, v, a, i, o, n, n) BY <1>7
  <2>. HIDE DEF n
  <2>. QED BY <1>2, <1>3, <1>4, <1>6, <1>7, <1>9, <1>10, <2>1, LeftLively
<1>. QED BY <1>8, <1>11 DEF v

LEMMA LateralLively ==
  ASSUME interactions \in Storyboards, tick \in Ticks, NEW w, NEW a \in Actors, NEW t,
         Good(w), Lively(w, t), w.actors[a].cmd["lateral"] # Nobody
  PROVE  Eases(w, LateralDone(w, a), t) /\ Eases(w, LateralExpired(w, a), t)
<1>. DEFINE r == w.actors[a]
            i == r.cmd["lateral"]
            noted == Note(w, i, "completed")
            done == ReleaseAxis(noted, a, "lateral", i, "complete")
            aborted == Abort(w, i)
            expired == SetActor(aborted, a, Freed(r, "lateral", i))
<1>1. w \in Sims /\ r \in ActorStates BY DEF Good, Sims
<1>2. i \in Ids /\ Fired(w, i) /\ w.events[i] # <<>> /\ interactions[i].actor = a
      /\ Axis(i) = "lateral" /\ Overs(w, i) = 0
  BY HeldFacts, ChargeFacts
<1>3. LateralDone(w, a) = done /\ LateralExpired(w, a) = expired
  BY DEF LateralDone, LateralExpired
<1>4. r.cmd["lateral"] = i OBVIOUS
<1>5. 1 = 1 + 0 /\ 0 = 0 + 0 /\ 1 = 0 + 1 /\ 1 > 0 /\ 1 \in {0, 1} /\ 0 \in Nat /\ 1 \in Nat
  OBVIOUS
<1>. HIDE DEF i
<1>6. Left(r, "lateral", i, FALSE) = Freed(r, "lateral", i)
  <2>1. Freed(r, "lateral", i).cruise = r.cruise BY <1>1 DEF Freed, ActorStates
  <2>2. Freed(r, "lateral", i) = [Freed(r, "lateral", i) EXCEPT !.cruise = r.cruise]
    BY <1>1, <2>1 DEF Freed, ActorStates
  <2>. QED BY <2>2 DEF Left
<1>7. Eases(w, done, t)
  <2>1. Touched(w, noted, a, i, 1, 0, 0) /\ noted.actors = w.actors
    BY <1>1, <1>2, NoteTouched DEF Kinds
  <2>2. noted \in Sims /\ noted.events[i] # <<>> BY <2>1 DEF Touched, Grew
  <2>. HIDE DEF noted
  <2>3. Touched(noted, done, a, i, 0, 0, 1)
        /\ done.actors[a] = Left(noted.actors[a], "lateral", i, FALSE)
    BY <1>2, <2>2, HeldFacts, ReleaseTouched
  <2>. HIDE DEF done
  <2>4. Touched(w, done, a, i, 1, 0, 1) BY <1>1, <1>2, <1>5, <2>1, <2>3, TouchedTwice
  <2>5. done.actors[a] = Left(r, "lateral", i, FALSE) BY <2>1, <2>3
  <2>. QED BY <1>2, <1>4, <1>5, <2>4, <2>5, HeldFacts, LeftLively
<1>8. Eases(w, expired, t)
  <2>1. Touched(w, aborted, a, i, 1, 0, 1) /\ aborted.actors = w.actors
    BY <1>1, <1>2, AbortTouched
  <2>2. aborted \in Sims /\ aborted.events[i] # <<>> BY <2>1 DEF Touched, Grew
  <2>. HIDE DEF aborted
  <2>3. Freed(r, "lateral", i) \in ActorStates
    <3>1. "lateral" \in Axes /\ FALSE \in BOOLEAN BY DEF Axes
    <3>2. Left(r, "lateral", i, FALSE) \in ActorStates BY <1>1, <1>2, <3>1, LeftFacts
    <3>. QED BY <1>6, <3>2
  <2>4. Touched(aborted, expired, a, i, 0, 0, 0) /\ expired.actors[a] = Freed(r, "lateral", i)
    BY <1>2, <2>2, <2>3, SetActorTouched
  <2>. HIDE DEF expired
  <2>5. Touched(w, expired, a, i, 1, 0, 1) BY <1>1, <1>2, <1>5, <2>1, <2>4, TouchedTwice
  <2>6. expired.actors[a] = Left(r, "lateral", i, FALSE) BY <1>6, <2>4
  <2>. QED BY <1>2, <1>4, <1>5, <2>5, <2>6, HeldFacts, LeftLively
<1>. QED BY <1>3, <1>7, <1>8

\* A presence is adopted, and a track hands the body back.
LEMMA AdoptedLively ==
  ASSUME interactions \in Storyboards, NEW w, NEW a \in Actors, NEW t, Good(w), Lively(w, t),
         NEW s, \/ s = Adopted(w.actors[a])
                \/ s = HandedBack(Adopted(w.actors[a])) /\ OnTrack(w, a)
  PROVE  /\ Lively(SetActor(w, a, s), t) /\ Calm(w, SetActor(w, a, s))
         /\ s \in ActorStates /\ s.pending = "none" /\ Presence(s) = Coming(w.actors[a])
<1>. DEFINE r == w.actors[a]
            d == Adopted(r)
            e == HandedBack(d)
<1>1. r \in ActorStates /\ Cruising(w, a) BY DEF Good, Sims, Lively
<1>2. /\ d \in ActorStates /\ d.crash = r.crash /\ d.timed = r.timed /\ d.completed = r.completed
      /\ d.cmd = r.cmd /\ d.until = r.until /\ d.cruise = r.cruise /\ d.prior = r.prior
  BY <1>1 DEF Adopted, ActorStates
<1>. HIDE DEF d
<1>3. /\ e \in ActorStates /\ e.crash = d.crash /\ ~e.timed /\ e.completed = d.completed
      /\ e.cmd = [d.cmd EXCEPT !["longitudinal"] = Nobody]
      /\ e.until = [d.until EXCEPT !["longitudinal"] = Nobody]
      /\ e.cruise = Halted /\ e.prior = d.prior
  BY <1>2 DEF HandedBack, ActorStates, Holders, Cruises
<1>. HIDE DEF e
<1>4. Loses(w, a, d)
  <2>1. r.until["longitudinal"] \in {r.cmd["longitudinal"], Nobody} BY <1>1 DEF Cruising
  <2>2. (r.crash => d.crash) /\ (d.timed => r.timed) BY <1>2
  <2>. QED BY <1>2, <2>1, <2>2 DEF Loses
<1>5. OnTrack(w, a) => Loses(w, a, e)
  <2>1. \A x \in Held : e.cmd[x] = IF x = "longitudinal" THEN Nobody ELSE r.cmd[x]
    BY <1>2, <1>3 DEF ActorStates
  <2>2. \A x \in Axes : e.until[x] = IF x = "longitudinal" THEN Nobody ELSE r.until[x]
    BY <1>2, <1>3 DEF ActorStates
  <2>3. (r.crash => e.crash) /\ (e.timed => r.timed) BY <1>2, <1>3
  <2>. QED BY <1>2, <1>3, <2>1, <2>2, <2>3, HeldFacts DEF Loses
<1>6. Loses(w, a, s) BY <1>4, <1>5 DEF d, e
<1>7. Presence(s) = Coming(r) /\ s.pending = "none" /\ s \in ActorStates
  <2>1. d.pending = "none" /\ Presence(d) = Coming(r)
    BY <1>1 DEF d, Adopted, ActorStates, Presence, Coming
  <2>2. e.pending = d.pending /\ e.present = d.present
    BY <1>2 DEF e, HandedBack, ActorStates
  <2>. QED BY <1>2, <1>3, <2>1, <2>2 DEF d, e, Presence
<1>. QED BY <1>6, <1>7, ActorKeeps

-----------------------------------------------------------------------------
(* A trigger is skipped, or fires.                                         *)

LEMMA OneEvent ==
  ASSUME NEW e \in Kinds, NEW kinds
  PROVE  Count(<<e>>, kinds) = IF e \in kinds THEN 1 ELSE 0
<1>1. <<>> \in Seq(Kinds) /\ Append(<<>>, e) = <<e>> OBVIOUS
<1>2. Count(<<e>>, kinds) = Count(<<>>, kinds) + (IF e \in kinds THEN 1 ELSE 0)
  BY <1>1, CountAppend, ZenonT(40)
<1>. QED BY <1>2, CountEmpty

LEMMA SkipLively ==
  ASSUME interactions \in Storyboards, NEW w, NEW i \in Ids, NEW t, Good(w), Lively(w, t),
         w.triggers[i].status = "pending"
  PROVE  Lively(Skip(w, i), t)
<1>. DEFINE a == interactions[i].actor
            v == Skip(w, i)
<1>1. w \in Sims /\ a \in Actors /\ v.actors = w.actors BY AxisFacts, SkipFacts DEF Good
<1>2. /\ \A j \in Ids \ {i} : v.triggers[j] = w.triggers[j] /\ v.events[j] = w.events[j]
      /\ v.triggers[i].status = "skipped" /\ v.triggers[i].fired_at = w.triggers[i].fired_at
      /\ v.triggers[i].ended_at = w.triggers[i].ended_at
      /\ v.events[i] = Append(w.events[i], "skipped")
  BY <1>1 DEF Skip, Note, Sims, TriggerStates
<1>3. Timeless(w, i) /\ w.events[i] = <<>> BY DEF Lively, Told
<1>4. v.events[i] = <<"skipped">> BY <1>2, <1>3
<1>. HIDE DEF v, a
<1>5. Told(v, i, t) BY <1>2, <1>3, <1>4 DEF Told, Timeless, Fired
<1>6. \A j \in Ids : Fired(v, j) <=> Fired(w, j) BY <1>2 DEF Fired
<1>7. OnTrack(v, a) <=> OnTrack(w, a) BY <1>6 DEF OnTrack
<1>8. ASSUME NEW j \in Ids, interactions[j].actor = a PROVE Told(v, j, t) /\ Served(v, j)
  <2>1. CASE j = i
    <3>1. ~Fired(v, i) BY <1>2 DEF Fired
    <3>. QED BY <1>5, <2>1, <3>1 DEF Served
  <2>2. CASE j # i
    <3>1. Told(w, j, t) /\ Served(w, j) BY DEF Lively
    <3>2. v.triggers[j] = w.triggers[j] /\ v.events[j] = w.events[j] BY <1>2, <2>2
    <3>3. Told(v, j, t) BY <3>1, <3>2 DEF Told, Fired, Timeless, Starts, Skips, Overs
    <3>4. Served(v, j) BY <1>1, <1>7, <1>8, <3>1, <3>2 DEF Served, Fired, Ended, Overs
    <3>. QED BY <3>3, <3>4
  <2>. QED BY <2>1, <2>2
<1>9. Commands(w, a) /\ Cruising(w, a) /\ w.actors[a] \in ActorStates
  BY <1>1 DEF Lively, Sims
<1>10. \A j \in Ids : Fired(w, j) => v.triggers[j] = w.triggers[j] /\ v.events[j] = w.events[j]
  <2>1. ~Fired(w, i) BY SMTT(30) DEF Fired
  <2>. QED BY <1>2, <2>1
<1>11. Commands(v, a)
  <2>. SUFFICES ASSUME NEW x \in Held, w.actors[a].cmd[x] # Nobody
                PROVE  LET k == w.actors[a].cmd[x]
                       IN  /\ Fired(v, k) /\ interactions[k].actor = a /\ Axis(k) = x
                           /\ ~Followed(v, a, k) => ~Ended(v, k) /\ Overs(v, k) = 0
                           /\ Followed(v, a, k) => Ended(v, k)
    BY <1>1 DEF Commands
  <2>1. w.actors[a].cmd[x] \in Ids BY <1>9 DEF ActorStates, Holders
  <2>. QED BY <1>1, <1>6, <1>9, <1>10, <2>1 DEF Commands, Followed, Ended, Overs
<1>12. Cruising(v, a)
  <2>1. \A j \in Ids : Target(w, a, j) => Target(v, a, j)
    BY <1>6, <1>10 DEF Target, Backs
  <2>2. \A x \in Axes : w.actors[a].until[x] # Nobody => Fired(v, w.actors[a].until[x])
    BY <1>6, <1>9 DEF Cruising, ActorStates, Holders
  <2>. QED BY <1>1, <1>7, <1>9, <2>1, <2>2 DEF Cruising
<1>13. Within(w, v, a) BY <1>1, <1>2 DEF Within, a
<1>. QED BY <1>1, <1>8, <1>11, <1>12, <1>13, LocalKeeps DEF LivelyOf, v

\* The interaction has fired and its verb is not applied yet.
Noted(w, i, forced) ==
  Note([w EXCEPT !.triggers[i].status = "fired", !.triggers[i].fired_at = tick,
                 !.triggers[i].forced = forced], i, "fired")

LEMMA NotedFacts ==
  ASSUME tick \in Ticks, NEW w \in Sims, NEW i \in Ids, NEW forced \in BOOLEAN,
         w.triggers[i].status = "pending", Timeless(w, i), w.events[i] = <<>>,
         NEW u, u = Noted(w, i, forced)
  PROVE  /\ u \in Sims /\ u.actors = w.actors
         /\ \A j \in Ids \ {i} : u.triggers[j] = w.triggers[j] /\ u.events[j] = w.events[j]
         /\ Fired(u, i) /\ u.triggers[i].fired_at = tick /\ ~Ended(u, i)
         /\ u.events[i] = <<"fired">>
<1>. DEFINE tr == [w.triggers[i] EXCEPT !.status = "fired", !.fired_at = tick, !.forced = forced]
            fired == [w EXCEPT !.triggers[i].status = "fired", !.triggers[i].fired_at = tick,
                               !.triggers[i].forced = forced]
<1>1. w.triggers[i] \in TriggerStates BY DEF Sims
<1>2. tr \in TriggerStates BY <1>1, ZenonT(40) DEF TriggerStates, Times
<1>3. tr.status = "fired" /\ tr.fired_at = tick /\ tr.ended_at = w.triggers[i].ended_at
  BY <1>1 DEF TriggerStates
<1>4. fired = [w EXCEPT !.triggers = [w.triggers EXCEPT ![i] = tr]]
  BY DEF Sims, TriggerStates
<1>. HIDE DEF tr
<1>5. /\ fired \in Sims /\ fired.actors = w.actors /\ fired.events = w.events
      /\ fired.triggers = [w.triggers EXCEPT ![i] = tr]
  <2>. HIDE DEF fired
  <2>1. [w.triggers EXCEPT ![i] = tr] \in [Ids -> TriggerStates] BY <1>2 DEF Sims
  <2>. QED BY <1>4, <2>1 DEF Sims
<1>6. u = Note(fired, i, "fired") BY DEF Noted
<1>. HIDE DEF fired
<1>7. u \in Sims /\ u.actors = fired.actors /\ u.triggers = fired.triggers
  <2>1. "fired" \in Kinds BY DEF Kinds
  <2>. HIDE DEF Kinds
  <2>2. /\ Note(fired, i, "fired") \in Sims
        /\ Note(fired, i, "fired").actors = fired.actors
        /\ Note(fired, i, "fired").triggers = fired.triggers
    BY <1>5, <2>1, NoteFacts
  <2>. QED BY <1>6, <2>2
<1>8. u.events = [w.events EXCEPT ![i] = Append(@, "fired")] BY <1>5, <1>6 DEF Note, Sims
<1>9. u.events[i] = <<"fired">> /\ \A j \in Ids \ {i} : u.events[j] = w.events[j]
  BY <1>8 DEF Sims
<1>10. u.triggers[i] = tr /\ \A j \in Ids \ {i} : u.triggers[j] = w.triggers[j]
  BY <1>5, <1>7 DEF Sims
<1>. QED BY <1>3, <1>5, <1>7, <1>9, <1>10 DEF Fired, Ended, Timeless

LEMMA PreemptTouched ==
  ASSUME tick \in Ticks, NEW w \in Sims, NEW a \in Actors, NEW axis \in Held, NEW i,
         NEW previous \in Ids, previous = w.actors[a].cmd[axis], previous # Nobody,
         w.events[previous] # <<>>
  PROVE  /\ Touched(w, Preempt(w, a, axis, i), a, previous,
                    IF axis = "lateral" \/ ~Ended(w, previous) THEN 1 ELSE 0, 0, 1)
         /\ Preempt(w, a, axis, i).actors = w.actors
<1>. DEFINE h == axis = "lateral" \/ ~Ended(w, previous)
            o == IF h THEN 1 ELSE 0
            stopped == IF h THEN Abort(w, previous) ELSE w
            v == Note(stopped, previous, "preempted")
<1>1. Preempt(w, a, axis, i) = v BY DEF Preempt
<1>2. Touched(w, stopped, a, previous, o, 0, 1) /\ stopped.actors = w.actors
  <2>1. CASE h BY <2>1, AbortTouched, SMTT(30)
  <2>2. CASE ~h
    <3>1. Grew(w.events[previous], w.events[previous], 0, 0) BY GrewNot, SMTT(30) DEF Sims
    <3>. QED BY <2>2, <3>1 DEF Touched
  <2>. QED BY <2>1, <2>2
<1>3. stopped \in Sims /\ stopped.events[previous] # <<>> BY <1>2 DEF Touched, Grew
<1>4. o \in Nat /\ o = o + 0 /\ 0 = 0 + 0 /\ 1 = 1 + 0 /\ 0 \in Nat /\ 1 \in Nat OBVIOUS
<1>. HIDE DEF stopped
<1>5. Touched(stopped, v, a, previous, 0, 0, 0) /\ v.actors = stopped.actors
  BY <1>3, NoteTouched DEF Kinds
<1>. HIDE DEF v, o, h
<1>6. Touched(w, v, a, previous, o, 0, 1)
  <2>1. w \in Sims /\ a \in Actors /\ previous \in Ids /\ tick \in Ticks OBVIOUS
  <2>. QED BY ONLY <1>2, <1>4, <1>5, <2>1, TouchedTwice
<1>. QED BY <1>1, <1>2, <1>5, <1>6 DEF o, h

\* What i's verb makes of its actor r: s.  c: a lane change found no lane, and is over.
Obeyed(i, r, s, c) ==
  LET axis == Axis(i)
      verb == interactions[i].verb
  IN  /\ s \in ActorStates /\ s.until = r.until /\ s.crash = r.crash
      /\ c \in {0, 1} /\ (c = 1 => axis = "lateral")
      /\ \A x \in Held \ {axis} : s.cmd[x] = r.cmd[x]
      /\ axis \in Held => s.cmd[axis] = IF c = 0 THEN i ELSE Nobody
      /\ axis = "longitudinal" => ~s.completed
      /\ axis # "longitudinal" => s.completed = r.completed
      /\ s.cruise = IF verb \in {"speed", "match"} THEN i ELSE r.cruise
      /\ s.prior = IF verb \in {"speed", "match"} THEN r.cruise
                   ELSE IF verb = "gap" THEN Nobody ELSE r.prior
      /\ s.timed => r.timed \/ verb = "track"
      /\ s.present = r.present
      /\ Coming(s) = IF axis = "existence" THEN verb ELSE Coming(r)

LEMMA ExistenceFacts ==
  ASSUME NEW i \in Ids
  PROVE  Axis(i) = "existence" <=> interactions[i].verb \in {"present", "absent"}
BY DEF Axis

LEMMA ApplyVerbTouched ==
  ASSUME interactions \in Storyboards, tick \in Ticks, NEW w \in Sims, NEW i \in Ids,
         NEW a \in Actors, NEW feasible \in BOOLEAN, w.events[i] # <<>>
  PROVE  \E c \in {0, 1} :
           /\ Touched(w, ApplyVerb(w, a, i, feasible), a, i, c, 0, c)
           /\ Obeyed(i, w.actors[a], ApplyVerb(w, a, i, feasible).actors[a], c)
<1>. DEFINE v == ApplyVerb(w, a, i, feasible)
            was == w.actors[a]
            verb == interactions[i].verb
<1>1. was \in ActorStates /\ i \in Holders /\ Nobody \in Holders
  BY DEF Sims, Holders
<1>2. ASSUME NEW r, Obeyed(i, was, r, 0), v = SetActor(w, a, r)
      PROVE  \E c \in {0, 1} : Touched(w, v, a, i, c, 0, c) /\ Obeyed(i, was, v.actors[a], c)
  <2>1. r \in ActorStates BY <1>2 DEF Obeyed
  <2>2. Touched(w, v, a, i, 0, 0, 0) /\ v.actors[a] = r BY <1>2, <2>1, SetActorTouched
  <2>. QED BY <1>2, <2>2
<1>3. CASE verb \in {"speed", "match"}
  <2>. DEFINE r == [was EXCEPT !.cmd["longitudinal"] = i, !.completed = FALSE,
                               !.prior = was.cruise, !.cruise = i]
  <2>1. v = SetActor(w, a, r) BY <1>3 DEF ApplyVerb
  <2>2. Axis(i) = "longitudinal" BY <1>3, AxisFacts
  <2>3. r \in ActorStates /\ r.until = was.until /\ r.crash = was.crash
        /\ r.cmd = [was.cmd EXCEPT !["longitudinal"] = i] /\ ~r.completed
        /\ r.prior = was.cruise /\ r.cruise = i /\ r.timed = was.timed
        /\ r.present = was.present /\ r.pending = was.pending
    BY <1>1 DEF ActorStates, Cruises, Holders
  <2>. HIDE DEF r
  <2>4. r.cmd["longitudinal"] = i /\ \A x \in Held \ {"longitudinal"} : r.cmd[x] = was.cmd[x]
    BY <1>1, <2>3 DEF ActorStates, Held
  <2>5. Coming(r) = Coming(was) BY <2>3 DEF Coming, Presence
  <2>6. Obeyed(i, was, r, 0) BY <1>3, <2>2, <2>3, <2>4, <2>5 DEF Obeyed
  <2>. HIDE DEF v
  <2>. QED BY <1>2, <2>1, <2>6 DEF v
<1>4. CASE verb = "gap"
  <2>. DEFINE r == [was EXCEPT !.cmd["longitudinal"] = i, !.completed = FALSE, !.prior = Nobody]
  <2>1. v = SetActor(w, a, r) BY <1>4 DEF ApplyVerb
  <2>2. Axis(i) = "longitudinal" BY <1>4, AxisFacts
  <2>3. r \in ActorStates /\ r.until = was.until /\ r.crash = was.crash
        /\ r.cmd = [was.cmd EXCEPT !["longitudinal"] = i] /\ ~r.completed
        /\ r.prior = Nobody /\ r.cruise = was.cruise /\ r.timed = was.timed
        /\ r.present = was.present /\ r.pending = was.pending
    BY <1>1 DEF ActorStates, Cruises, Holders
  <2>. HIDE DEF r
  <2>4. r.cmd["longitudinal"] = i /\ \A x \in Held \ {"longitudinal"} : r.cmd[x] = was.cmd[x]
    BY <1>1, <2>3 DEF ActorStates, Held
  <2>5. Coming(r) = Coming(was) BY <2>3 DEF Coming, Presence
  <2>6. Obeyed(i, was, r, 0) BY <1>4, <2>2, <2>3, <2>4, <2>5 DEF Obeyed
  <2>. HIDE DEF v
  <2>. QED BY <1>2, <2>1, <2>6 DEF v
<1>5. ASSUME NEW r, NEW k \in {i, Nobody}, r = [was EXCEPT !.cmd["lateral"] = k],
             verb \in {"changeLane", "laneOffset"}
      PROVE  r \in ActorStates /\ Obeyed(i, was, r, IF k = i THEN 0 ELSE 1)
  <2>1. Axis(i) = "lateral" /\ i # Nobody /\ verb \notin {"speed", "match", "gap"}
    BY <1>5, AxisFacts
  <2>2. r \in ActorStates /\ r.until = was.until /\ r.crash = was.crash
        /\ r.cmd = [was.cmd EXCEPT !["lateral"] = k] /\ r.completed = was.completed
        /\ r.prior = was.prior /\ r.cruise = was.cruise /\ r.timed = was.timed
        /\ r.present = was.present /\ r.pending = was.pending
    BY <1>1, <1>5 DEF ActorStates, Holders
  <2>3. r.cmd["lateral"] = k /\ \A x \in Held \ {"lateral"} : r.cmd[x] = was.cmd[x]
    BY <1>1, <2>2 DEF ActorStates, Held
  <2>4. Coming(r) = Coming(was) BY <2>2 DEF Coming, Presence
  <2>. QED BY <2>1, <2>2, <2>3, <2>4 DEF Obeyed
<1>6. CASE verb = "laneOffset" \/ (verb = "changeLane" /\ feasible)
  <2>. DEFINE r == [was EXCEPT !.cmd["lateral"] = i]
  <2>1. v = SetActor(w, a, r) BY <1>6 DEF ApplyVerb, Take
  <2>2. Obeyed(i, was, r, IF i = i THEN 0 ELSE 1) BY <1>5, <1>6
  <2>3. Obeyed(i, was, r, 0) BY <2>2
  <2>. HIDE DEF v, r
  <2>. QED BY <1>2, <2>1, <2>3 DEF v
<1>7. CASE verb = "changeLane" /\ ~feasible
  <2>. DEFINE r == [was EXCEPT !.cmd["lateral"] = Nobody]
              u == Abort(w, i)
  <2>1. v = SetActor(u, a, [u.actors[a] EXCEPT !.cmd["lateral"] = Nobody])
    BY <1>7 DEF ApplyVerb, Take
  <2>2. Touched(w, u, a, i, 1, 0, 1) /\ u.actors = w.actors BY AbortTouched
  <2>3. u \in Sims /\ u.events[i] # <<>> BY <2>2 DEF Touched, Grew
  <2>4. v = SetActor(u, a, r) BY <2>1, <2>2
  <2>5. i # Nobody BY AxisFacts
  <2>6. r \in ActorStates /\ Obeyed(i, was, r, 1) BY <1>5, <1>7, <2>5
  <2>. HIDE DEF v, r, u
  <2>7. Touched(u, v, a, i, 0, 0, 0) /\ v.actors[a] = r BY <2>3, <2>4, <2>6, SetActorTouched
  <2>8. Touched(w, v, a, i, 1, 0, 1)
    <3>1. 1 = 1 + 0 /\ 0 = 0 + 0 /\ 0 \in Nat /\ 1 \in Nat OBVIOUS
    <3>2. w \in Sims /\ a \in Actors /\ i \in Ids /\ tick \in Ticks OBVIOUS
    <3>. QED BY ONLY <2>2, <2>7, <3>1, <3>2, TouchedTwice
  <2>. QED BY <2>6, <2>7, <2>8 DEF v
<1>8. CASE verb \in {"route", "track", "present", "absent", "set"}
  <2>. DEFINE timed == [was EXCEPT !.timed = (verb = "track")]
              pending == [was EXCEPT !.pending = verb]
  <2>1. \/ v = w /\ (Axis(i) = "existence" => verb = Coming(was))
        \/ v = SetActor(w, a, timed) /\ verb \in {"route", "track"}
        \/ v = SetActor(w, a, pending) /\ verb \in {"present", "absent"}
    <3>1. Axis(i) = "existence" <=> verb \in {"present", "absent"} BY ExistenceFacts
    <3>. QED BY <1>8, <3>1 DEF ApplyVerb, ApplyRouteVerb, Coming
  <2>2. Axis(i) \notin Held /\ verb \notin {"speed", "match", "gap"} /\ Axis(i) # "longitudinal"
        /\ Axis(i) # "lateral"
    BY <1>8, AxisFacts DEF Held
  <2>3. (Axis(i) = "existence" => verb = Coming(was)) => Obeyed(i, was, was, 0)
    BY <1>1, <2>2 DEF Obeyed
  <2>4. verb \in {"route", "track"} => Obeyed(i, was, timed, 0)
    <3>1. timed \in ActorStates /\ timed.until = was.until /\ timed.crash = was.crash
          /\ timed.cmd = was.cmd /\ timed.completed = was.completed /\ timed.prior = was.prior
          /\ timed.cruise = was.cruise /\ (timed.timed <=> verb = "track")
          /\ timed.present = was.present /\ timed.pending = was.pending
      BY <1>1 DEF ActorStates
    <3>. HIDE DEF timed
    <3>2. Coming(timed) = Coming(was) BY <3>1 DEF Coming, Presence
    <3>. SUFFICES ASSUME verb \in {"route", "track"} PROVE Obeyed(i, was, timed, 0)
      OBVIOUS
    <3>3. Axis(i) # "existence" BY ExistenceFacts
    <3>. QED BY <2>2, <3>1, <3>2, <3>3 DEF Obeyed
  <2>5. verb \in {"present", "absent"} => Obeyed(i, was, pending, 0)
    <3>. SUFFICES ASSUME verb \in {"present", "absent"} PROVE Obeyed(i, was, pending, 0)
      OBVIOUS
    <3>1. pending \in ActorStates /\ pending.until = was.until /\ pending.crash = was.crash
          /\ pending.cmd = was.cmd /\ pending.completed = was.completed /\ pending.prior = was.prior
          /\ pending.cruise = was.cruise /\ pending.timed = was.timed
          /\ pending.present = was.present /\ pending.pending = verb
      BY <1>1 DEF ActorStates
    <3>. HIDE DEF pending
    <3>2. Coming(pending) = verb /\ Axis(i) = "existence" BY <3>1, ExistenceFacts DEF Coming
    <3>. QED BY <2>2, <3>1, <3>2 DEF Obeyed
  <2>6. CASE v = w /\ (Axis(i) = "existence" => verb = Coming(was))
    <3>1. Grew(w.events[i], w.events[i], 0, 0) BY GrewNot DEF Sims
    <3>2. Touched(w, w, a, i, 0, 0, 0) BY <3>1 DEF Touched
    <3>. QED BY <2>3, <2>6, <3>2
  <2>. HIDE DEF v, timed, pending
  <2>. QED BY <1>2, <2>1, <2>4, <2>5, <2>6 DEF v
<1>9. verb \in Verbs BY AxisFacts
<1>. QED BY <1>3, <1>4, <1>6, <1>7, <1>8, <1>9 DEF Verbs

\* Who is in charge of the axis that interaction i is to command.
Previous(w, i) ==
  IF Axis(i) \in Held THEN w.actors[interactions[i].actor].cmd[Axis(i)] ELSE Nobody

\* v is w but for interaction i, which has fired, the one it pre-empted and their actor.
Begun(w, v, i, c) ==
  LET a == interactions[i].actor
      previous == Previous(w, i)
  IN  /\ \A j \in Ids \ {i, previous} : v.triggers[j] = w.triggers[j] /\ v.events[j] = w.events[j]
      /\ \A b \in Actors \ {a} : v.actors[b] = w.actors[b]
      /\ previous # Nobody =>
           /\ v.triggers[previous].status = w.triggers[previous].status
           /\ v.triggers[previous].fired_at = w.triggers[previous].fired_at
           /\ v.triggers[previous].ended_at =
                IF Ended(w, previous) THEN w.triggers[previous].ended_at ELSE tick
           /\ Grew(w.events[previous], v.events[previous],
                   IF Axis(i) = "lateral" \/ ~Ended(w, previous) THEN 1 ELSE 0, 0)
      /\ Fired(v, i) /\ v.triggers[i].fired_at = tick
      /\ v.triggers[i].ended_at \in {Never, tick}
      /\ Axis(i) \in Held => (Ended(v, i) <=> c = 1)
      /\ v.events[i] # <<>> /\ Head(v.events[i]) = "fired"
      /\ Starts(v, i) = 1 /\ Skips(v, i) = 0 /\ Overs(v, i) = c /\ Backs(v, i) = 0
      /\ \E q : /\ Obeyed(i, w.actors[a], q, c)
                /\ v.actors[a] =
                     [q EXCEPT !.until[Axis(i)] = IF interactions[i].until THEN i ELSE Nobody]

LEMMA FireBegun ==
  ASSUME interactions \in Storyboards, tick \in Ticks, NEW w \in Sims, NEW i \in Ids,
         NEW forced \in BOOLEAN, NEW feasible \in BOOLEAN,
         w.triggers[i].status = "pending", Timeless(w, i), w.events[i] = <<>>,
         Previous(w, i) # Nobody =>
           Previous(w, i) \in Ids \ {i} /\ w.events[Previous(w, i)] # <<>>
  PROVE  \E c \in {0, 1} : Begun(w, Fire(w, i, forced, feasible), i, c)
<1>. DEFINE a == interactions[i].actor
            axis == Axis(i)
            previous == Previous(w, i)
            clause == IF interactions[i].until THEN i ELSE Nobody
            u == Noted(w, i, forced)
            p == Preempt(u, a, axis, i)
            q == ApplyVerb(p, a, i, feasible)
            s == [q.actors[a] EXCEPT !.until[axis] = clause]
            x == SetActor(q, a, s)
            v == IF axis \in Held THEN x ELSE [x EXCEPT !.triggers[i].ended_at = tick]
            n == IF axis = "lateral" \/ ~Ended(w, previous) THEN 1 ELSE 0
<1>1. v = Fire(w, i, forced, feasible) BY DEF Fire, ApplyInteraction, Noted
<1>2. a \in Actors /\ axis \in Axes /\ i # Nobody /\ clause \in Holders
  BY AxisFacts DEF Holders
<1>3. /\ u \in Sims /\ u.actors = w.actors
      /\ \A j \in Ids \ {i} : u.triggers[j] = w.triggers[j] /\ u.events[j] = w.events[j]
      /\ Fired(u, i) /\ u.triggers[i].fired_at = tick /\ ~Ended(u, i)
      /\ u.events[i] = <<"fired">>
  BY NotedFacts
<1>. HIDE DEF u
<1>4. /\ p \in Sims /\ p.actors = w.actors
      /\ \A j \in Ids \ {previous} : p.triggers[j] = u.triggers[j] /\ p.events[j] = u.events[j]
      /\ previous # Nobody =>
           /\ p.triggers[previous].status = w.triggers[previous].status
           /\ p.triggers[previous].fired_at = w.triggers[previous].fired_at
           /\ p.triggers[previous].ended_at =
                IF Ended(w, previous) THEN w.triggers[previous].ended_at ELSE tick
           /\ Grew(w.events[previous], p.events[previous], n, 0)
  <2>1. CASE previous = Nobody
    <3>1. p = u BY <1>3, <2>1 DEF Preempt, Previous
    <3>. QED BY <1>3, <2>1, <3>1
  <2>2. CASE previous # Nobody
    <3>1. axis \in Held /\ previous = u.actors[a].cmd[axis] BY <1>3, <2>2 DEF Previous
    <3>2. previous \in Ids \ {i} /\ u.events[previous] # <<>> BY <1>3, <2>2
    <3>3. Ended(u, previous) <=> Ended(w, previous) BY <1>3, <3>2 DEF Ended
    <3>4. /\ u.triggers[previous] = w.triggers[previous]
          /\ u.events[previous] = w.events[previous]
      BY <1>3, <3>2
    <3>. HIDE DEF previous, p, a, axis
    <3>5. Touched(u, Preempt(u, a, axis, i), a, previous,
                  IF axis = "lateral" \/ ~Ended(u, previous) THEN 1 ELSE 0, 0, 1)
          /\ Preempt(u, a, axis, i).actors = u.actors
      BY <1>2, <1>3, <2>2, <3>1, <3>2, PreemptTouched
    <3>6. Touched(u, p, a, previous, n, 0, 1) BY <3>3, <3>5 DEF p
    <3>7. p.actors = u.actors BY <3>5 DEF p
    <3>8. \A b \in Actors : p.actors[b] = w.actors[b] BY <1>3, <3>7
    <3>9. p.triggers[previous].ended_at =
            IF Ended(w, previous) THEN w.triggers[previous].ended_at ELSE tick
      BY <3>3, <3>4, <3>6 DEF Touched
    <3>. QED BY <1>3, <3>4, <3>6, <3>7, <3>9 DEF Touched
  <2>. QED BY <2>1, <2>2
<1>5. p.triggers[i] = u.triggers[i] /\ p.events[i] = <<"fired">>
  BY <1>2, <1>3, <1>4
<1>. HIDE DEF p, a
<1>6. PICK c \in {0, 1} : Touched(p, q, a, i, c, 0, c) /\ Obeyed(i, p.actors[a], q.actors[a], c)
  BY <1>2, <1>4, <1>5, ApplyVerbTouched
<1>7. q \in Sims /\ q.actors[a] \in ActorStates /\ q.events[i] # <<>>
  BY <1>6 DEF Touched, Obeyed, Grew
<1>. HIDE DEF q
<1>8. s \in ActorStates BY <1>2, <1>7 DEF ActorStates
<1>. HIDE DEF s
<1>9. /\ x.triggers = q.triggers /\ x.events = q.events /\ x \in Sims /\ x.actors[a] = s
      /\ \A b \in Actors \ {a} : x.actors[b] = q.actors[b]
  BY <1>2, <1>7, <1>8 DEF SetActor, Sims
<1>. HIDE DEF x
<1>10. /\ v.events = x.events /\ v.actors = x.actors
       /\ v.triggers[i].status = x.triggers[i].status
       /\ v.triggers[i].fired_at = x.triggers[i].fired_at
       /\ axis \in Held => v.triggers[i].ended_at = x.triggers[i].ended_at
       /\ axis \notin Held => v.triggers[i].ended_at = tick
       /\ \A j \in Ids \ {i} : v.triggers[j] = x.triggers[j]
  BY <1>9 DEF Sims, TriggerStates
<1>11. previous # Nobody => previous \in Ids \ {i} OBVIOUS
<1>. HIDE DEF v, n, previous, clause
<1>12. \A j \in Ids \ {i, previous} : v.triggers[j] = w.triggers[j] /\ v.events[j] = w.events[j]
  BY <1>3, <1>4, <1>6, <1>9, <1>10 DEF Touched
<1>13. \A b \in Actors \ {a} : v.actors[b] = w.actors[b]
  BY <1>4, <1>6, <1>9, <1>10 DEF Touched
<1>14. previous # Nobody =>
         /\ v.triggers[previous].status = w.triggers[previous].status
         /\ v.triggers[previous].fired_at = w.triggers[previous].fired_at
         /\ v.triggers[previous].ended_at =
              IF Ended(w, previous) THEN w.triggers[previous].ended_at ELSE tick
         /\ Grew(w.events[previous], v.events[previous], n, 0)
  <2>. SUFFICES ASSUME previous # Nobody PROVE v.triggers[previous] = p.triggers[previous]
                                               /\ v.events[previous] = p.events[previous]
    BY <1>4
  <2>. QED BY <1>6, <1>9, <1>10, <1>11 DEF Touched
<1>15. /\ Fired(v, i) /\ v.triggers[i].fired_at = tick
       /\ v.triggers[i].ended_at \in {Never, tick}
       /\ axis \in Held => (Ended(v, i) <=> c = 1)
  <2>1. v.triggers[i].status = u.triggers[i].status /\ v.triggers[i].fired_at = u.triggers[i].fired_at
    BY <1>5, <1>6, <1>9, <1>10 DEF Touched
  <2>2. axis \in Held => v.triggers[i].ended_at = IF c > 0 THEN tick ELSE Never
    BY <1>3, <1>5, <1>6, <1>9, <1>10 DEF Touched, Ended
  <2>. QED BY <1>3, <1>6, <1>10, <2>1, <2>2, ConstantFacts DEF Fired, Ended
<1>16. /\ v.events[i] # <<>> /\ Head(v.events[i]) = "fired"
       /\ Starts(v, i) = 1 /\ Skips(v, i) = 0 /\ Overs(v, i) = c /\ Backs(v, i) = 0
  <2>1. Grew(<<"fired">>, v.events[i], c, 0) BY <1>5, <1>6, <1>9, <1>10 DEF Touched
  <2>2. Count(<<"fired">>, {"fired", "skipped"}) = 1 BY OneEvent DEF Kinds
  <2>3. Count(<<"fired">>, {"skipped"}) = 0 BY OneEvent DEF Kinds
  <2>4. Count(<<"fired">>, {"completed", "aborted"}) = 0 BY OneEvent DEF Kinds
  <2>5. Count(<<"fired">>, {"until"}) = 0 BY OneEvent DEF Kinds
  <2>6. Head(<<"fired">>) = "fired" OBVIOUS
  <2>. QED BY <1>6, <2>1, <2>2, <2>3, <2>4, <2>5, <2>6 DEF Grew, Starts, Skips, Overs, Backs
<1>17. Obeyed(i, w.actors[a], q.actors[a], c) /\ v.actors[a] = s
  BY <1>4, <1>6, <1>9, <1>10
<1>18. Begun(w, v, i, c)
  BY <1>12, <1>13, <1>14, <1>15, <1>16, <1>17 DEF Begun, a, previous, n, s, clause
<1>. QED BY <1>1, <1>6, <1>18

LEMMA FireLively ==
  ASSUME interactions \in Storyboards, tick \in Ticks, tick >= 0, NEW w, NEW i \in Ids,
         Good(w), Lively(w, tick), w.triggers[i].status = "pending",
         interactions[i].window.start <= tick, tick < interactions[i].window.end,
         NEW forced \in BOOLEAN, NEW feasible \in BOOLEAN
  PROVE  Lively(Fire(w, i, forced, feasible), tick)
<1>. DEFINE a == interactions[i].actor
            axis == Axis(i)
            previous == Previous(w, i)
            r == w.actors[a]
            v == Fire(w, i, forced, feasible)
            s == v.actors[a]
            clause == IF interactions[i].until THEN i ELSE Nobody
            n == IF axis = "lateral" \/ ~Ended(w, previous) THEN 1 ELSE 0
<1>1. w \in Sims /\ a \in Actors /\ r \in ActorStates /\ axis \in Axes /\ i # Nobody
  BY AxisFacts DEF Good, Sims
<1>2. Timeless(w, i) /\ w.events[i] = <<>> /\ ~Fired(w, i) BY SMTT(30) DEF Lively, Told, Fired
<1>3. previous # Nobody =>
        /\ previous \in Ids \ {i} /\ axis \in Held /\ previous = r.cmd[axis]
        /\ Fired(w, previous) /\ w.events[previous] # <<>>
        /\ interactions[previous].actor = a /\ Axis(previous) = axis
        /\ n = 1 => Overs(w, previous) = 0
  <2>. SUFFICES ASSUME previous # Nobody
                PROVE  /\ previous \in Ids \ {i} /\ axis \in Held /\ previous = r.cmd[axis]
                       /\ Fired(w, previous) /\ w.events[previous] # <<>>
                       /\ interactions[previous].actor = a /\ Axis(previous) = axis
                       /\ n = 1 => Overs(w, previous) = 0
    OBVIOUS
  <2>1. axis \in Held /\ previous = r.cmd[axis] BY SMTT(30) DEF Previous
  <2>. HIDE DEF previous
  <2>2. /\ previous \in Ids /\ Fired(w, previous) /\ w.events[previous] # <<>>
        /\ interactions[previous].actor = a /\ Axis(previous) = axis
        /\ ~Followed(w, a, previous) => Overs(w, previous) = 0
        /\ axis = "lateral" => Overs(w, previous) = 0
    BY <1>1, <2>1, ChargeFacts
  <2>3. Followed(w, a, previous) => Ended(w, previous) BY <1>1, <2>1 DEF Lively, Commands
  <2>4. n = 1 => Overs(w, previous) = 0 BY <2>2, <2>3
  <2>5. previous # i BY <1>2, <2>2
  <2>. QED BY <2>1, <2>2, <2>4, <2>5
<1>4. PICK c \in {0, 1} : Begun(w, v, i, c)
  <2>1. previous # Nobody => previous \in Ids \ {i} /\ w.events[previous] # <<>> BY <1>3
  <2>. QED BY <1>1, <1>2, <2>1, FireBegun
<1>. HIDE DEF v
<1>5. PICK q : Obeyed(i, r, q, c) /\ s = [q EXCEPT !.until[axis] = clause]
  BY <1>4 DEF Begun
<1>6. /\ \A j \in Ids \ {i, previous} : v.triggers[j] = w.triggers[j] /\ v.events[j] = w.events[j]
      /\ \A b \in Actors \ {a} : v.actors[b] = w.actors[b]
      /\ previous # Nobody =>
           /\ v.triggers[previous].status = w.triggers[previous].status
           /\ v.triggers[previous].fired_at = w.triggers[previous].fired_at
           /\ Ended(v, previous)
           /\ Grew(w.events[previous], v.events[previous], n, 0)
      /\ Fired(v, i) /\ v.triggers[i].fired_at = tick
      /\ axis \in Held => (Ended(v, i) <=> c = 1)
      /\ v.events[i] # <<>> /\ Head(v.events[i]) = "fired"
      /\ Starts(v, i) = 1 /\ Skips(v, i) = 0 /\ Overs(v, i) = c /\ Backs(v, i) = 0
  BY <1>4, ConstantFacts, SMTT(30) DEF Begun, Ended
<1>7. /\ s.crash = r.crash /\ s.cmd = q.cmd /\ q \in ActorStates
      /\ \A x \in Held \ {axis} : s.cmd[x] = r.cmd[x]
      /\ axis \in Held => s.cmd[axis] = IF c = 0 THEN i ELSE Nobody
      /\ c = 1 => axis = "lateral"
      /\ axis = "longitudinal" => ~s.completed
      /\ axis # "longitudinal" => s.completed = r.completed
      /\ s.cruise = IF interactions[i].verb \in {"speed", "match"} THEN i ELSE r.cruise
      /\ s.prior = IF interactions[i].verb \in {"speed", "match"} THEN r.cruise
                   ELSE IF interactions[i].verb = "gap" THEN Nobody ELSE r.prior
      /\ s.timed => r.timed \/ interactions[i].verb = "track"
      /\ s.until[axis] = clause
      /\ \A x \in Axes \ {axis} : s.until[x] = r.until[x]
  <2>1. q \in ActorStates BY <1>5 DEF Obeyed
  <2>2. /\ s.crash = q.crash /\ s.cmd = q.cmd /\ s.completed = q.completed /\ s.cruise = q.cruise
        /\ s.prior = q.prior /\ s.timed = q.timed /\ s.until = [q.until EXCEPT ![axis] = clause]
    BY <1>5, <2>1 DEF ActorStates
  <2>3. s.until[axis] = clause /\ \A x \in Axes \ {axis} : s.until[x] = q.until[x]
    BY <1>1, <2>1, <2>2 DEF ActorStates
  <2>. QED BY <1>5, <2>1, <2>2, <2>3 DEF Obeyed
<1>. HIDE DEF s, previous, n, a
<1>8. \A j \in Ids : Fired(v, j) <=> Fired(w, j) \/ j = i
  <2>. SUFFICES ASSUME NEW j \in Ids PROVE Fired(v, j) <=> Fired(w, j) \/ j = i
    OBVIOUS
  <2>1. CASE j = i BY <1>6, <2>1
  <2>2. CASE j # i /\ j = previous
    <3>1. previous # Nobody BY <2>2, AxisFacts
    <3>. QED BY <1>6, <2>2, <3>1 DEF Fired
  <2>3. CASE j # i /\ j # previous BY <1>6, <2>3 DEF Fired
  <2>. QED BY <2>1, <2>2, <2>3
<1>9. OnTrack(w, a) => OnTrack(v, a) BY <1>8 DEF OnTrack
<1>10. Within(w, v, a)
  <2>1. interactions[i].actor = a BY DEF a
  <2>2. previous # Nobody => interactions[previous].actor = a BY <1>3
  <2>3. Nobody \notin Ids BY AxisFacts
  <2>. QED BY <1>6, <2>1, <2>2, <2>3 DEF Within
<1>11. \A j \in Ids \ {i, previous} :
         /\ Ended(v, j) <=> Ended(w, j)
         /\ Overs(v, j) = Overs(w, j) /\ Backs(v, j) = Backs(w, j)
  BY <1>6 DEF Ended, Overs, Backs
<1>12. n \in {0, 1} BY DEF n
<1>13. previous # Nobody =>
         /\ Overs(v, previous) = Overs(w, previous) + n /\ Backs(v, previous) = Backs(w, previous)
         /\ Starts(v, previous) = Starts(w, previous) /\ Skips(v, previous) = Skips(w, previous)
         /\ Head(v.events[previous]) = Head(w.events[previous]) /\ v.events[previous] # <<>>
  <2>1. \A kinds : Count(w.events[previous], kinds) \in Nat \/ previous = Nobody
    BY <1>1, <1>3, CountAppend DEF Kinds, Sims
  <2>. QED BY <1>6, <2>1 DEF Grew, Overs, Backs, Starts, Skips
<1>14. previous # Nobody => Overs(v, previous) \in {0, 1}
  BY <1>3, <1>12, <1>13 DEF Lively, Told
<1>15. ASSUME NEW j \in Ids PROVE Told(v, j, tick)
  <2>1. CASE j = i
    <3>1. tick \in 0..tick BY ConstantFacts
    <3>. QED BY <1>4, <1>6, <2>1, <3>1 DEF Told, Fired
  <2>2. CASE j # i /\ j = previous
    <3>1. previous # Nobody /\ Told(w, j, tick) BY <2>2, AxisFacts DEF Lively
    <3>. QED BY <1>3, <1>6, <1>13, <1>14, <2>2, <3>1 DEF Told, Fired
  <2>3. CASE j # i /\ j # previous
    BY <1>6, <2>3 DEF Lively, Told, Fired, Timeless, Starts, Skips, Overs
  <2>. QED BY <2>1, <2>2, <2>3
<1>16. ASSUME NEW j \in Ids, interactions[j].actor = a, Axis(j) \in Held, Fired(v, j)
       PROVE  /\ Ended(v, j) \/ s.cmd[Axis(j)] = j \/ s.crash \/ OnTrack(v, a)
              /\ Axis(j) = "lateral" => s.cmd["lateral"] = j \/ s.crash \/ Overs(v, j) = 1
  <2>1. CASE j = i
    <3>1. c = 0 => s.cmd[Axis(j)] = j BY <1>7, <1>16, <2>1
    <3>2. c = 1 => Ended(v, j) /\ Overs(v, j) = 1 BY <1>6, <1>16, <2>1
    <3>. QED BY <1>4, <3>1, <3>2
  <2>2. CASE j # i /\ j = previous
    <3>1. previous # Nobody BY <2>2, AxisFacts
    <3>2. axis = "lateral" => n = 1 BY DEF n
    <3>. QED BY <1>3, <1>6, <1>13, <2>2, <3>1, <3>2
  <2>3. CASE j # i /\ j # previous
    <3>1. Fired(w, j) /\ Served(w, j) BY <1>8, <1>16, <2>3 DEF Lively
    <3>2. /\ Ended(w, j) \/ r.cmd[Axis(j)] = j \/ r.crash \/ OnTrack(w, a)
          /\ Axis(j) = "lateral" => r.cmd["lateral"] = j \/ r.crash \/ Overs(w, j) = 1
      BY <1>16, <3>1 DEF Served
    <3>3. r.cmd[Axis(j)] = j => s.cmd[Axis(j)] = j
      <4>1. CASE Axis(j) # axis BY <1>7, <1>16, <4>1
      <4>2. CASE Axis(j) = axis
        <5>1. previous = r.cmd[axis] BY <1>16, <4>2 DEF previous, Previous, a
        <5>. QED BY <2>3, <4>2, <5>1
      <4>. QED BY <4>1, <4>2
    <3>. QED BY <1>7, <1>9, <1>11, <2>3, <3>2, <3>3
  <2>. QED BY <2>1, <2>2, <2>3
<1>17. \A j \in Ids : interactions[j].actor = a => Served(v, j)
  BY <1>16 DEF Served, s
<1>18. Commands(v, a)
  <2>. SUFFICES ASSUME NEW x \in Held, s.cmd[x] # Nobody
                PROVE  LET k == s.cmd[x]
                       IN  /\ Fired(v, k) /\ interactions[k].actor = a /\ Axis(k) = x
                           /\ ~Followed(v, a, k) => ~Ended(v, k) /\ Overs(v, k) = 0
                           /\ Followed(v, a, k) => Ended(v, k)
    BY DEF Commands, s
  <2>1. CASE x = axis
    <3>1. s.cmd[x] = i /\ c = 0 BY <1>4, <1>7, <2>1
    <3>2. ~Followed(v, a, i)
      <4>1. interactions[i].verb = "gap" => axis = "longitudinal" BY AxisFacts
      <4>. QED BY <1>7, <4>1 DEF Followed, s
    <3>. QED BY <1>6, <2>1, <3>1, <3>2 DEF a
  <2>2. CASE x # axis
    <3>. DEFINE k == s.cmd[x]
    <3>1. k = r.cmd[x] /\ k \in Ids BY <1>1, <1>7, <2>2 DEF ActorStates, Holders
    <3>2. /\ Fired(w, k) /\ interactions[k].actor = a /\ Axis(k) = x
          /\ ~Followed(w, a, k) => ~Ended(w, k) /\ Overs(w, k) = 0
          /\ Followed(w, a, k) => Ended(w, k)
      BY <1>1, <3>1 DEF Lively, Commands
    <3>. HIDE DEF k
    <3>3. k # i /\ k # previous
      <4>1. previous # Nobody => Axis(previous) = axis BY <1>3
      <4>2. k # Nobody BY <3>1, AxisFacts
      <4>. QED BY <1>2, <2>2, <3>2, <4>1, <4>2
    <3>4. Followed(v, a, k) <=> Followed(w, a, k)
      <4>1. CASE axis # "longitudinal" BY <1>7, <4>1 DEF Followed, s
      <4>2. CASE axis = "longitudinal"
        <5>1. Axis(k) = "lateral" BY <2>2, <3>2, <4>2 DEF Held
        <5>2. interactions[k].verb # "gap" BY <3>1, <5>1, AxisFacts
        <5>. QED BY <5>2 DEF Followed
      <4>. QED BY <4>1, <4>2
    <3>5. Fired(v, k) /\ (Ended(v, k) <=> Ended(w, k)) /\ Overs(v, k) = Overs(w, k)
      BY <1>8, <1>11, <3>1, <3>2, <3>3
    <3>. QED BY <3>2, <3>4, <3>5 DEF k
  <2>. QED BY <2>1, <2>2
<1>19. Cruising(v, a)
  <2>1. Cruising(w, a) BY <1>1 DEF Lively
  <2>2. s.timed => OnTrack(v, a)
    <3>1. interactions[i].verb = "track" => OnTrack(v, a) BY <1>6 DEF OnTrack, a
    <3>. QED BY <1>7, <1>9, <2>1, <3>1 DEF Cruising
  <2>3. s.until["longitudinal"] \in {s.cmd["longitudinal"], Nobody}
    <3>1. CASE axis = "longitudinal"
      <4>1. c = 0 BY <1>4, <1>7, <3>1
      <4>. QED BY <1>7, <3>1, <4>1, HeldFacts
    <3>2. CASE axis # "longitudinal"
      <4>1. s.until["longitudinal"] = r.until["longitudinal"]
            /\ s.cmd["longitudinal"] = r.cmd["longitudinal"]
        BY <1>7, <3>2, HeldFacts
      <4>. QED BY <2>1, <4>1 DEF Cruising
    <3>. QED BY <3>1, <3>2
  <2>4. \A x \in Axes : s.until[x] # Nobody => Fired(v, s.until[x])
    <3>. SUFFICES ASSUME NEW x \in Axes, s.until[x] # Nobody PROVE Fired(v, s.until[x])
      OBVIOUS
    <3>1. CASE x = axis BY <1>6, <1>7, <3>1
    <3>2. CASE x # axis
      <4>1. s.until[x] = r.until[x] /\ r.until[x] \in Ids
        BY <1>1, <1>7, <3>2 DEF ActorStates, Holders
      <4>. QED BY <1>8, <2>1, <4>1 DEF Cruising
    <3>. QED BY <3>1, <3>2
  <2>5. \A j \in Ids : Target(w, a, j) => Target(v, a, j) /\ j # i
    <3>. SUFFICES ASSUME NEW j \in Ids, Target(w, a, j) PROVE Target(v, a, j) /\ j # i
      OBVIOUS
    <3>1. Fired(w, j) /\ Backs(w, j) = 0 BY DEF Target
    <3>2. j # i BY <1>2, <3>1
    <3>3. Backs(v, j) = 0
      <4>1. CASE j = previous
        <5>1. previous # Nobody BY <4>1, AxisFacts
        <5>. QED BY <1>13, <3>1, <4>1, <5>1
      <4>2. CASE j # previous BY <1>11, <3>1, <3>2, <4>2
      <4>. QED BY <4>1, <4>2
    <3>. QED BY <1>8, <3>1, <3>2, <3>3 DEF Target
  <2>6. interactions[i].verb \in {"speed", "match"} => Target(v, a, i)
    BY <1>6 DEF Target, a
  <2>7. s.cruise \in Ids => Target(v, a, s.cruise)
    BY <1>7, <2>1, <2>5, <2>6 DEF Cruising
  <2>8. s.cmd["longitudinal"] # Nobody /\ s.prior \in Ids =>
          Target(v, a, s.prior) /\ s.prior # s.cmd["longitudinal"]
    <3>. SUFFICES ASSUME s.cmd["longitudinal"] # Nobody, s.prior \in Ids
                  PROVE  Target(v, a, s.prior) /\ s.prior # s.cmd["longitudinal"]
      OBVIOUS
    <3>1. CASE interactions[i].verb \in {"speed", "match"}
      <4>1. axis = "longitudinal" BY <3>1, AxisFacts
      <4>2. s.cmd["longitudinal"] = i /\ s.prior = r.cruise
        BY <1>4, <1>7, <3>1, <4>1, HeldFacts
      <4>3. Target(w, a, s.prior) BY <2>1, <4>2 DEF Cruising
      <4>. QED BY <2>5, <4>2, <4>3
    <3>2. CASE interactions[i].verb = "gap"
      <4>1. s.prior = Nobody BY <1>7, <3>2
      <4>. QED BY <4>1, AxisFacts
    <3>3. CASE interactions[i].verb \notin {"speed", "match", "gap"}
      <4>1. axis # "longitudinal" BY <3>3, AxisFacts
      <4>2. s.prior = r.prior /\ s.cmd["longitudinal"] = r.cmd["longitudinal"]
        BY <1>7, <3>3, <4>1, HeldFacts
      <4>3. Target(w, a, s.prior) /\ s.prior # s.cmd["longitudinal"]
        BY <2>1, <4>2 DEF Cruising
      <4>. QED BY <2>5, <4>3
    <3>. QED BY <3>1, <3>2, <3>3
  <2>. QED BY <2>2, <2>3, <2>4, <2>7, <2>8 DEF Cruising, s
<1>20. LivelyOf(v, a, tick) BY <1>15, <1>17, <1>18, <1>19 DEF LivelyOf
<1>. QED BY <1>1, <1>10, <1>20, LocalKeeps DEF v

-----------------------------------------------------------------------------
(* The steps of the specification keep every interaction's life in order.  *)

LEMMA EasesNot ==
  ASSUME NEW w, NEW t, Lively(w, t)
  PROVE  Eases(w, w, t)
BY DEF Eases, Calm, Unmoved

LEMMA CalmTwice ==
  ASSUME tick \in Ticks, NEW w, NEW u, NEW v, Calm(w, u), Calm(u, v)
  PROVE  Calm(w, v)
<1>1. tick # Never BY ConstantFacts
<1>2. \A j \in Ids :
        /\ v.triggers[j].status = w.triggers[j].status
        /\ v.triggers[j].fired_at = w.triggers[j].fired_at
        /\ v.triggers[j].ended_at # w.triggers[j].ended_at =>
             ~Ended(w, j) /\ v.triggers[j].ended_at = tick
  BY <1>1 DEF Calm, Ended
<1>3. \A b \in Actors :
        /\ w.actors[b].crash => v.actors[b].crash
        /\ v.actors[b].cmd["longitudinal"] \in {w.actors[b].cmd["longitudinal"], Nobody}
  BY DEF Calm
<1>. QED BY <1>2, <1>3 DEF Calm

LEMMA EasesTwice ==
  ASSUME tick \in Ticks, NEW w, NEW u, NEW v, NEW t, Eases(w, u, t), Eases(u, v, t)
  PROVE  Eases(w, v, t)
<1>1. Calm(w, v) BY CalmTwice DEF Eases
<1>2. Unmoved(w, v) BY DEF Eases, Unmoved
<1>. QED BY <1>1, <1>2 DEF Eases

\* What has happened by a tick has happened by the next one.
LEMMA StaysLively ==
  ASSUME NEW w, NEW t \in Int, NEW u \in Int, t <= u, Lively(w, t)
  PROVE  Lively(w, u)
<1>1. \A i \in Ids : Told(w, i, u) BY DEF Lively, Told
<1>. QED BY <1>1 DEF Lively

LEMMA LivelyNext ==
  ASSUME UNCHANGED interactions, Lively(sim', tick')
  PROVE  Lively(sim, tick)'
<1>1. Ids' = Ids BY DEF Ids
<1>2. \A i : Axis(i)' = Axis(i) BY DEF Axis
<1>3. \A i \in Ids : Told(sim, i, tick)'
  BY DEF Lively, Told, Fired, Timeless, Starts, Skips, Overs
<1>4. \A a \in Actors : OnTrack(sim', a) => OnTrack(sim, a)'
  BY <1>1 DEF OnTrack, Fired
<1>5. \A i \in Ids : Served(sim, i)'
  <2>. TAKE i \in Ids
  <2>1. Served(sim', i) BY DEF Lively
  <2>2. OnTrack(sim', interactions[i].actor) => OnTrack(sim, interactions[i].actor)'
    BY <1>1, SMTT(30) DEF OnTrack, Fired
  <2>. QED BY <1>2, <2>1, <2>2 DEF Served, Fired, Ended, Overs
<1>6. \A a \in Actors : Commands(sim, a)'
  BY <1>1, <1>2 DEF Lively, Commands, Fired, Followed, Ended, Overs
<1>7. \A a \in Actors : Cruising(sim, a)'
  <2>. TAKE a \in Actors
  <2>1. Cruising(sim', a) BY DEF Lively
  <2>2. \A i : Target(sim', a, i) => Target(sim, a, i)' BY DEF Target, Fired, Backs
  <2>. QED BY <1>1, <1>4, <2>1, <2>2 DEF Cruising, Fired
<1>. QED BY <1>1, <1>3, <1>5, <1>6, <1>7 DEF Lively

\* The steps that only take commands away.
LEMMA CollisionsEase ==
  ASSUME IInv, Lively(sim, tick), NEW collides \in BOOLEAN, DetectCollisions(collides)
  PROVE  Eases(sim, sim', tick)
<1>1. Good(sim) /\ interactions \in Storyboards /\ tick \in Ticks /\ next \in Actors
  BY DEF IInv, Progress, AtActors, DetectCollisions, OverActors, InLoop
<1>2. Eases(sim, AfterCollision(sim, next), tick) /\ Eases(sim, sim, tick)
  BY <1>1, CollisionLively, EasesNot
<1>. QED BY <1>2 DEF DetectCollisions

LEMMA CompletionsEase ==
  ASSUME IInv, Lively(sim, tick), NEW reached \in BOOLEAN, EvaluateLongitudinalCompletions(reached)
  PROVE  Eases(sim, sim', tick)
<1>1. Good(sim) /\ interactions \in Storyboards /\ tick \in Ticks /\ next \in Actors
  BY DEF IInv, Progress, AtActors, EvaluateLongitudinalCompletions, OverActors, InLoop
<1>2. Eases(sim, sim, tick) BY EasesNot
<1>3. CASE reached
  <2>1. MayComplete(next) /\ sim' = Complete(sim, next)
    BY <1>3 DEF EvaluateLongitudinalCompletions
  <2>2. sim.actors[next].cmd["longitudinal"] # Nobody
        /\ (interactions[sim.actors[next].cmd["longitudinal"]].verb = "gap" =>
              ~sim.actors[next].completed)
    BY <2>1 DEF MayComplete
  <2>3. Eases(sim, Complete(sim, next), tick) BY <1>1, <2>2, CompleteLively
  <2>. QED BY <2>1, <2>3
<1>4. CASE ~reached
  BY <1>2, <1>4 DEF EvaluateLongitudinalCompletions
<1>. QED BY <1>3, <1>4

LEMMA WindowsEase ==
  ASSUME IInv, Lively(sim, tick), NEW p \in {"windows", "windows again"}, NEW after,
         EvaluateWindowEnds(p, after)
  PROVE  Eases(sim, sim', tick)
<1>1. Good(sim) /\ interactions \in Storyboards /\ tick \in Ticks /\ next \in Ids
  BY DEF IInv, Progress, AtIds, EvaluateWindowEnds, OverIds, InLoop
<1>2. Eases(sim, sim, tick) BY EasesNot
<1>3. CASE WindowOver(next)
  <2>1. Fired(sim, next) /\ Axis(next) # "lateral" BY <1>3 DEF WindowOver, Fired
  <2>2. Eases(sim, CloseWindow(sim, next), tick) BY <1>1, <2>1, CloseWindowLively
  <2>. QED BY <1>3, <2>2 DEF EvaluateWindowEnds
<1>4. CASE ~WindowOver(next)
  BY <1>2, <1>4 DEF EvaluateWindowEnds
<1>. QED BY <1>3, <1>4

LEMMA UntilEase ==
  ASSUME IInv, Lively(sim, tick), NEW due, EvaluateUntil(due)
  PROVE  Eases(sim, sim', tick)
<1>. DEFINE a == next
            clause(axis) == sim.actors[a].until[axis]
            Release(w, axis) ==
              IF axis \in due THEN ReleaseAxis(w, a, axis, sim.actors[a].until[axis], "until") ELSE w
            Ready(w, axes) ==
              /\ Good(w) /\ Eases(sim, w, tick)
              /\ \A x \in axes : w.actors[a].until[x] = clause(x)
<1>1. Good(sim) /\ interactions \in Storyboards /\ tick \in Ticks /\ a \in Actors
  BY DEF IInv, Progress, AtActors, EvaluateUntil, OverActors, InLoop
<1>2. \A x \in due : clause(x) # Nobody
  BY DEF EvaluateUntil, Watched
<1>3. \A x \in Axes : clause(x) # Nobody => clause(x) \in Ids
  BY <1>1 DEF Good, Sims, ActorStates, Holders
<1>4. sim' = Release(Release(Release(Release(Release(sim, "longitudinal"), "lateral"), "route"),
                             "existence"), "state")
  BY DEF EvaluateUntil
<1>. HIDE DEF a
<1>5. ASSUME NEW w, NEW axes \in SUBSET Axes, Ready(w, axes), NEW x \in axes
      PROVE  Ready(Release(w, x), axes \ {x})
  <2>1. CASE x \in due
    <3>. DEFINE i == clause(x)
                v == ReleaseAxis(w, a, x, i, "until")
    <3>1. i # Nobody /\ i \in Ids /\ i = w.actors[a].until[x] /\ x \in Axes
      BY <1>2, <1>3, <1>5, <2>1
    <3>2. Release(w, x) = v BY <2>1
    <3>3. Good(w) /\ Eases(sim, w, tick) /\ Lively(w, tick) BY <1>5 DEF Eases
    <3>. HIDE DEF i
    <3>4. Good(v) BY <1>1, <3>1, <3>3, ReleaseAxisFacts
    <3>5. Eases(w, v, tick) /\ \A y \in Axes \ {x} : v.actors[a].until[y] = w.actors[a].until[y]
      BY <1>1, <3>1, <3>3, UntilLively
    <3>. HIDE DEF v
    <3>6. Eases(sim, v, tick) BY <1>1, <3>3, <3>5, EasesTwice
    <3>. QED BY <1>5, <3>2, <3>4, <3>5, <3>6
  <2>2. CASE x \notin due
    BY <1>5, <2>2
  <2>. QED BY <2>1, <2>2
<1>6. Ready(sim, Axes) BY <1>1, EasesNot
<1>. HIDE DEF Release, Ready
<1>7. Axes = {"longitudinal", "lateral", "route", "existence", "state"} BY DEF Axes
<1>. DEFINE u1 == Release(sim, "longitudinal")
            u2 == Release(u1, "lateral")
            u3 == Release(u2, "route")
            u4 == Release(u3, "existence")
            u5 == Release(u4, "state")
            A1 == Axes \ {"longitudinal"}
            A2 == A1 \ {"lateral"}
            A3 == A2 \ {"route"}
            A4 == A3 \ {"existence"}
<1>8. /\ A1 \in SUBSET Axes /\ A2 \in SUBSET Axes /\ A3 \in SUBSET Axes /\ A4 \in SUBSET Axes
      /\ "lateral" \in A1 /\ "route" \in A2 /\ "existence" \in A3 /\ "state" \in A4
      /\ "longitudinal" \in Axes
  BY <1>7
<1>9. Ready(u1, A1) BY <1>5, <1>6, <1>8
<1>. HIDE DEF u1, A1
<1>10. Ready(u2, A2) BY <1>5, <1>8, <1>9
<1>. HIDE DEF u2, A2
<1>11. Ready(u3, A3) BY <1>5, <1>8, <1>10
<1>. HIDE DEF u3, A3
<1>12. Ready(u4, A4) BY <1>5, <1>8, <1>11
<1>. HIDE DEF u4, A4
<1>13. Ready(u5, A4 \ {"state"}) BY <1>5, <1>8, <1>12
<1>. QED BY <1>4, <1>13 DEF Ready, u1, u2, u3, u4

\* A trigger that fires does so inside its window.
LEMMA VerdictFacts ==
  ASSUME interactions \in Storyboards, tick \in Ticks, NEW i \in Ids, NEW holds, Fires(i, holds)
  PROVE  /\ interactions[i].window.start <= tick /\ tick < interactions[i].window.end
         /\ Verdict(i, holds) = ShouldFire(i, holds)
<1>1. ~(tick < interactions[i].window.start) /\ ~(tick >= interactions[i].window.end)
  BY DEF Fires, Verdict
<1>2. interactions[i].window.start \in Int /\ interactions[i].window.end \in Int BY ClipFacts
<1>3. tick \in Int BY TickFacts
<1>4. Verdict(i, holds) = ShouldFire(i, holds) BY <1>1 DEF Verdict
<1>5. \A m, n, t \in Int : ~(t < m) /\ ~(t >= n) => m <= t /\ t < n OBVIOUS
<1>. QED BY <1>1, <1>2, <1>3, <1>4, <1>5

LEMMA SkipTriggerLively ==
  ASSUME IInv, Lively(sim, tick), NEW holds, NEW commit, SkipTrigger(holds, commit)
  PROVE  Lively(sim', tick)
<1>1. Good(sim) /\ interactions \in Storyboards /\ next \in Ids
  BY TriggerFacts DEF SkipTrigger
<1>2. sim.triggers[next].status = "pending" /\ sim' = Skip(sim, next)
  BY DEF SkipTrigger, Pending
<1>3. Lively(Skip(sim, next), tick) BY <1>1, <1>2, SkipLively
<1>. QED BY <1>2, <1>3

LEMMA FireTriggerLively ==
  ASSUME IInv, Lively(sim, tick), tick >= 0, NEW holds \in BOOLEAN, NEW feasible \in BOOLEAN,
         FireTrigger(holds, feasible)
  PROVE  Lively(sim', tick)
<1>1. Good(sim) /\ interactions \in Storyboards /\ tick \in Ticks /\ next \in Ids
  BY TriggerFacts DEF FireTrigger
<1>2. sim.triggers[next].status = "pending" /\ Fires(next, holds)
  BY DEF FireTrigger, Pending
<1>3. interactions[next].window.start <= tick /\ tick < interactions[next].window.end
  BY <1>1, <1>2, AxisFacts, VerdictFacts
<1>. DEFINE forced == Verdict(next, holds) = "force"
<1>4. sim' = Fire(sim, next, forced, feasible) /\ forced \in BOOLEAN BY DEF FireTrigger
<1>. HIDE DEF forced
<1>5. Lively(Fire(sim, next, forced, feasible), tick)
  BY <1>1, <1>2, <1>3, <1>4, FireLively
<1>. QED BY <1>4, <1>5

\* A plan adopts the presence of its actor, and takes commands away.
LEMMA PlanLively ==
  ASSUME IInv, Lively(sim, tick), NEW handsBack \in BOOLEAN, NEW knockedDown \in BOOLEAN,
         NEW lateral \in {"runs", "done", "expired"},
         PlanAndApply(handsBack, lateral, knockedDown)
  PROVE  /\ Lively(sim', tick) /\ Calm(sim, sim')
         /\ \A b \in Actors \ {next} : /\ sim'.actors[b].present = sim.actors[b].present
                                       /\ sim'.actors[b].pending = sim.actors[b].pending
         /\ sim'.actors[next].pending = "none"
         /\ Presence(sim'.actors[next]) = Coming(sim.actors[next])
<1>. DEFINE a == next
            adopted == Adopted(sim.actors[a])
            s == IF handsBack THEN HandedBack(adopted) ELSE adopted
            planned == SetActor(sim, a, s)
            applied == CASE lateral = "runs"    -> planned
                         [] lateral = "done"    -> LateralDone(planned, a)
                         [] lateral = "expired" -> LateralExpired(planned, a)
            down == SetActor(applied, a, Disabled(applied.actors[a]))
<1>1. Good(sim) /\ interactions \in Storyboards /\ tick \in Ticks /\ a \in Actors /\ sim \in Sims
  BY DEF IInv, Progress, AtActors, PlanAndApply, Good
<1>2. handsBack => OnTrack(sim, a)
  <2>1. handsBack => adopted.timed BY DEF PlanAndApply
  <2>2. adopted.timed = sim.actors[a].timed BY <1>1 DEF Adopted, Sims, ActorStates
  <2>3. Cruising(sim, a) BY <1>1 DEF Lively
  <2>. QED BY <2>1, <2>2, <2>3 DEF Cruising
<1>3. sim' = IF knockedDown THEN down ELSE applied
  BY DEF PlanAndApply
<1>4. lateral # "runs" => planned.actors[a].cmd["lateral"] # Nobody
  BY DEF PlanAndApply
<1>5. \/ s = Adopted(sim.actors[a])
      \/ s = HandedBack(Adopted(sim.actors[a])) /\ OnTrack(sim, a)
  BY <1>2
<1>6. Good(planned)
  <2>1. Sound(a, adopted) BY <1>1, AdoptedFacts DEF Good
  <2>2. Sound(a, s)
    <3>. HIDE DEF adopted
    <3>. QED BY <2>1, AdoptedFacts
  <2>. HIDE DEF s
  <2>. QED BY <1>1, <2>2, OneActor
<1>. HIDE DEF s, a
<1>7. /\ Lively(planned, tick) /\ Calm(sim, planned)
      /\ s \in ActorStates /\ s.pending = "none" /\ Presence(s) = Coming(sim.actors[a])
  BY <1>1, <1>5, <1>6, AdoptedLively
<1>8. planned.actors[a] = s /\ \A b \in Actors \ {a} : planned.actors[b] = sim.actors[b]
  BY <1>1, <1>7, SetActorFacts
<1>. HIDE DEF planned
<1>9. Eases(planned, applied, tick) /\ Good(applied)
  <2>1. CASE lateral = "runs"
    BY <1>6, <1>7, <2>1, EasesNot
  <2>2. CASE lateral # "runs"
    <3>1. planned.actors[a].cmd["lateral"] # Nobody BY <1>4, <2>2
    <3>2. /\ Eases(planned, LateralDone(planned, a), tick)
          /\ Eases(planned, LateralExpired(planned, a), tick)
          /\ Good(LateralDone(planned, a)) /\ Good(LateralExpired(planned, a))
      BY <1>1, <1>6, <1>7, <3>1, LateralLively, LateralFacts
    <3>. QED BY <2>2, <3>2
  <2>. QED BY <2>1, <2>2
<1>. HIDE DEF applied
<1>10. Eases(planned, sim', tick)
  <2>1. Lively(applied, tick) BY <1>9 DEF Eases
  <2>2. Eases(applied, down, tick) BY <1>1, <1>9, <2>1, DisabledLively
  <2>. HIDE DEF down
  <2>3. Eases(planned, down, tick) BY <1>1, <1>9, <2>2, EasesTwice
  <2>. QED BY <1>3, <1>9, <2>3
<1>11. Lively(sim', tick) /\ Calm(sim, sim')
  BY <1>1, <1>7, <1>10, CalmTwice DEF Eases
<1>12. \A b \in Actors : /\ sim'.actors[b].present = planned.actors[b].present
                         /\ sim'.actors[b].pending = planned.actors[b].pending
  BY <1>10 DEF Eases, Unmoved
<1>13. Presence(sim'.actors[a]) = Presence(s) /\ sim'.actors[a].pending = "none"
  BY <1>1, <1>7, <1>8, <1>12 DEF Presence
<1>14. \A b \in Actors \ {a} : /\ sim'.actors[b].present = sim.actors[b].present
                               /\ sim'.actors[b].pending = sim.actors[b].pending
  BY <1>8, <1>12
<1>. QED BY <1>7, <1>11, <1>13, <1>14 DEF a

\* v is w at the end of the clip: what waited is skipped, the lateral commands are over.
Closed(w, v) ==
  /\ \A i \in Ids :
       LET charge == w.actors[interactions[i].actor].cmd["lateral"] = i
       IN  /\ w.triggers[i].status = "pending" =>
                /\ v.triggers[i] = [w.triggers[i] EXCEPT !.status = "skipped"]
                /\ v.events[i] = Append(w.events[i], "skipped")
           /\ w.triggers[i].status # "pending" =>
                /\ v.triggers[i].status = w.triggers[i].status
                /\ v.triggers[i].fired_at = w.triggers[i].fired_at
                /\ ~charge => v.triggers[i] = w.triggers[i] /\ v.events[i] = w.events[i]
                /\ charge /\ w.events[i] # <<>> =>
                     /\ v.triggers[i].ended_at = IF Ended(w, i) THEN w.triggers[i].ended_at ELSE tick
                     /\ Grew(w.events[i], v.events[i], 1, 0)
  /\ \A a \in Actors : v.actors[a] = [w.actors[a] EXCEPT !.cmd["lateral"] = Nobody]

LEMMA ClosedActors ==
  ASSUME NEW w \in Sims, NEW v, Closed(w, v), NEW a \in Actors
  PROVE  LET r == w.actors[a]
             s == v.actors[a]
         IN  /\ s.cmd["longitudinal"] = r.cmd["longitudinal"] /\ s.cmd["lateral"] = Nobody
             /\ s.until = r.until /\ s.completed = r.completed /\ s.cruise = r.cruise
             /\ s.prior = r.prior /\ s.timed = r.timed /\ s.crash = r.crash
             /\ s.present = r.present /\ s.pending = r.pending
<1>. DEFINE r == w.actors[a]
            s == v.actors[a]
<1>1. r \in ActorStates BY DEF Sims
<1>2. s = [r EXCEPT !.cmd["lateral"] = Nobody] BY DEF Closed
<1>. HIDE DEF r, s
<1>3. s.cmd = [r.cmd EXCEPT !["lateral"] = Nobody] BY <1>1, <1>2 DEF ActorStates
<1>4. r.cmd \in [Held -> Holders] BY <1>1 DEF ActorStates
<1>5. s.cmd["longitudinal"] = r.cmd["longitudinal"] /\ s.cmd["lateral"] = Nobody
  BY <1>3, <1>4 DEF Held
<1>6. /\ s.until = r.until /\ s.completed = r.completed /\ s.cruise = r.cruise
      /\ s.prior = r.prior /\ s.timed = r.timed /\ s.crash = r.crash
      /\ s.present = r.present /\ s.pending = r.pending
  BY <1>1, <1>2 DEF ActorStates
<1>. QED BY <1>5, <1>6 DEF r, s

LEMMA FinishCloses ==
  ASSUME IInv, Lively(sim, tick), FinishNeverFired
  PROVE  Closed(sim, sim')
<1>. DEFINE Lateral(i) == sim.actors[interactions[i].actor].cmd["lateral"] = i
            Over(i) == CASE Pending(i) -> Skip(sim, i)
                         [] Lateral(i) -> Abort(sim, i)
                         [] OTHER      -> sim
<1>1. sim \in Sims /\ Good(sim) /\ tick \in Ticks /\ interactions \in Storyboards
  BY DEF IInv, Progress, Good
<1>2. /\ \A i \in Ids : sim'.triggers[i] = Over(i).triggers[i] /\ sim'.events[i] = Over(i).events[i]
      /\ \A a \in Actors : sim'.actors[a] = [sim.actors[a] EXCEPT !.cmd["lateral"] = Nobody]
  BY DEF FinishNeverFired
<1>3. ASSUME NEW i \in Ids, Pending(i)
      PROVE  /\ sim'.triggers[i] = [sim.triggers[i] EXCEPT !.status = "skipped"]
             /\ sim'.events[i] = Append(sim.events[i], "skipped")
  <2>1. Over(i) = Skip(sim, i)
    <3>1. interactions[i].actor \in Actors /\ i # Nobody BY <1>1, AxisFacts
    <3>2. Lateral(i) => Fired(sim, i) BY <1>1, <3>1, HeldFacts, ChargeFacts
    <3>3. ~Lateral(i) BY <1>3, <3>2 DEF Pending, Fired
    <3>. HIDE DEF Lateral
    <3>. QED BY <1>3, <3>3
  <2>2. /\ Skip(sim, i).triggers[i] = [sim.triggers[i] EXCEPT !.status = "skipped"]
        /\ Skip(sim, i).events[i] = Append(sim.events[i], "skipped")
    BY <1>1 DEF Skip, Note, Sims
  <2>. HIDE DEF Over
  <2>. QED BY <1>2, <2>1, <2>2
<1>4. ASSUME NEW i \in Ids, ~Pending(i), ~Lateral(i)
      PROVE  sim'.triggers[i] = sim.triggers[i] /\ sim'.events[i] = sim.events[i]
  <2>1. Over(i) = sim BY <1>4
  <2>. HIDE DEF Over
  <2>. QED BY <1>2, <2>1
<1>5. ASSUME NEW i \in Ids, ~Pending(i), Lateral(i)
      PROVE  /\ sim'.triggers[i].status = sim.triggers[i].status
             /\ sim'.triggers[i].fired_at = sim.triggers[i].fired_at
             /\ sim.events[i] # <<>> =>
                  /\ sim'.triggers[i].ended_at =
                       IF Ended(sim, i) THEN sim.triggers[i].ended_at ELSE tick
                  /\ Grew(sim.events[i], sim'.events[i], 1, 0)
  <2>. DEFINE v == Abort(sim, i)
              b == interactions[i].actor
  <2>1. Over(i) = v BY <1>5
  <2>2. b \in Actors BY <1>1, AxisFacts
  <2>. HIDE DEF b
  <2>3. /\ v.triggers[i].status = sim.triggers[i].status
        /\ v.triggers[i].fired_at = sim.triggers[i].fired_at
    BY <1>1 DEF Abort, Note, End, Sims, TriggerStates
  <2>4. sim.events[i] # <<>> => Touched(sim, v, b, i, 1, 0, 1) BY <1>1, <2>2, AbortTouched
  <2>5. 1 > 0 OBVIOUS
  <2>6. sim.events[i] # <<>> =>
          /\ v.triggers[i].ended_at = IF Ended(sim, i) THEN sim.triggers[i].ended_at ELSE tick
          /\ Grew(sim.events[i], v.events[i], 1, 0)
    BY <2>4, <2>5 DEF Touched
  <2>. HIDE DEF v, Over
  <2>7. sim'.triggers[i] = v.triggers[i] /\ sim'.events[i] = v.events[i] BY <1>2, <2>1
  <2>. QED BY <2>3, <2>6, <2>7
<1>. HIDE DEF Over
<1>. QED BY <1>2, <1>3, <1>4, <1>5 DEF Closed, Pending

LEMMA ClosedLively ==
  ASSUME interactions \in Storyboards, tick \in Ticks, NEW w, NEW v, NEW t, Good(w), Lively(w, t),
         Closed(w, v)
  PROVE  Lively(v, t)
<1>. DEFINE Charge(i) == w.actors[interactions[i].actor].cmd["lateral"] = i
<1>1. w \in Sims BY DEF Good
<1>2. ASSUME NEW i \in Ids, w.triggers[i].status = "pending"
      PROVE  v.triggers[i].status = "skipped" /\ Timeless(v, i) /\ v.events[i] = <<"skipped">>
  <2>1. Timeless(w, i) /\ w.events[i] = <<>> BY <1>2 DEF Lively, Told
  <2>2. v.triggers[i] = [w.triggers[i] EXCEPT !.status = "skipped"]
        /\ v.events[i] = Append(w.events[i], "skipped")
    BY <1>2 DEF Closed
  <2>3. w.triggers[i] \in TriggerStates BY <1>1 DEF Sims
  <2>4. v.triggers[i].status = "skipped" /\ Timeless(v, i)
    BY <2>1, <2>2, <2>3 DEF Timeless, TriggerStates
  <2>. QED BY <2>1, <2>2, <2>4
<1>3. \A i \in Ids : /\ Fired(v, i) => Fired(w, i)
                     /\ Fired(w, i) => Fired(v, i) /\ v.triggers[i].fired_at = w.triggers[i].fired_at
  <2>. TAKE i \in Ids
  <2>1. CASE w.triggers[i].status = "pending" BY <1>2, <2>1 DEF Fired
  <2>2. CASE w.triggers[i].status # "pending" BY <2>2 DEF Closed, Fired
  <2>. QED BY <2>1, <2>2
<1>4. \A i \in Ids : Fired(w, i) /\ ~Charge(i) =>
        v.triggers[i] = w.triggers[i] /\ v.events[i] = w.events[i]
  BY DEF Closed, Fired
<1>5. ASSUME NEW i \in Ids, Charge(i)
      PROVE  /\ Fired(w, i) /\ Ended(v, i) /\ Grew(w.events[i], v.events[i], 1, 0)
             /\ Overs(w, i) = 0 /\ Axis(i) = "lateral"
  <2>1. interactions[i].actor \in Actors /\ i # Nobody BY AxisFacts
  <2>2. Fired(w, i) /\ w.events[i] # <<>> /\ Overs(w, i) = 0 /\ Axis(i) = "lateral"
    BY <1>5, <2>1, HeldFacts, ChargeFacts
  <2>3. /\ v.triggers[i].ended_at = IF Ended(w, i) THEN w.triggers[i].ended_at ELSE tick
        /\ Grew(w.events[i], v.events[i], 1, 0)
    <3>1. w.triggers[i].status # "pending" BY <2>2 DEF Fired
    <3>2. w.triggers[i].status # "pending" =>
            (Charge(i) /\ w.events[i] # <<>> =>
               /\ v.triggers[i].ended_at = IF Ended(w, i) THEN w.triggers[i].ended_at ELSE tick
               /\ Grew(w.events[i], v.events[i], 1, 0))
      BY DEF Closed
    <3>. QED BY <1>5, <2>2, <3>1, <3>2
  <2>4. tick # Never BY ConstantFacts
  <2>5. Ended(v, i) BY <2>3, <2>4 DEF Ended
  <2>. QED BY <2>2, <2>3, <2>5
<1>6. \A i \in Ids : Fired(w, i) =>
        /\ v.events[i] # <<>> /\ Head(v.events[i]) = Head(w.events[i])
        /\ Starts(v, i) = Starts(w, i) /\ Skips(v, i) = Skips(w, i) /\ Backs(v, i) = Backs(w, i)
        /\ Overs(v, i) = IF Charge(i) THEN 1 ELSE Overs(w, i)
  <2>. SUFFICES ASSUME NEW i \in Ids, Fired(w, i)
                PROVE  /\ v.events[i] # <<>> /\ Head(v.events[i]) = Head(w.events[i])
                       /\ Starts(v, i) = Starts(w, i) /\ Skips(v, i) = Skips(w, i)
                       /\ Backs(v, i) = Backs(w, i)
                       /\ Overs(v, i) = IF Charge(i) THEN 1 ELSE Overs(w, i)
    OBVIOUS
  <2>1. w.events[i] # <<>> BY DEF Lively, Told
  <2>2. CASE ~Charge(i)
    <3>1. v.events[i] = w.events[i] BY <1>4, <2>2
    <3>. QED BY <2>1, <2>2, <3>1 DEF Starts, Skips, Backs, Overs
  <2>3. CASE Charge(i)
    <3>1. Grew(w.events[i], v.events[i], 1, 0) /\ Overs(w, i) = 0 BY <1>5, <2>3
    <3>2. w.events[i] \in Seq(Kinds) BY <1>1 DEF Sims
    <3>3. \A kinds : Count(w.events[i], kinds) \in Nat BY <3>2, CountAppend DEF Kinds
    <3>. QED BY <2>3, <3>1, <3>3 DEF Grew, Starts, Skips, Backs, Overs
  <2>. QED BY <2>2, <2>3
<1>7. \A a \in Actors : OnTrack(w, a) => OnTrack(v, a)
  BY <1>3 DEF OnTrack
<1>8. \A a \in Actors :
        LET r == w.actors[a]
            s == v.actors[a]
        IN  /\ s.cmd["longitudinal"] = r.cmd["longitudinal"] /\ s.cmd["lateral"] = Nobody
            /\ s.until = r.until /\ s.completed = r.completed /\ s.cruise = r.cruise
            /\ s.prior = r.prior /\ s.timed = r.timed /\ s.crash = r.crash
  BY <1>1, ClosedActors
<1>9. \A i \in Ids : Told(v, i, t)
  <2>. TAKE i \in Ids
  <2>1. Told(w, i, t) BY DEF Lively
  <2>2. CASE w.triggers[i].status = "pending" BY <1>2, <2>2 DEF Told, Fired
  <2>3. CASE Fired(w, i)
    <3>1. Overs(v, i) \in {0, 1} BY <1>6, <2>1, <2>3 DEF Told
    <3>. QED BY <1>3, <1>6, <2>1, <2>3, <3>1 DEF Told, Fired
  <2>4. CASE w.triggers[i].status = "skipped"
    <3>1. ~Charge(i) BY <1>5, <2>4 DEF Fired
    <3>2. v.triggers[i] = w.triggers[i] /\ v.events[i] = w.events[i] BY <2>4, <3>1 DEF Closed
    <3>. QED BY <2>1, <2>4, <3>2 DEF Told, Fired, Timeless
  <2>5. w.triggers[i].status \in {"pending", "fired", "skipped"} BY <1>1 DEF Sims, TriggerStates
  <2>. QED BY <2>2, <2>3, <2>4, <2>5 DEF Fired
<1>10. \A i \in Ids : Served(v, i)
  <2>. TAKE i \in Ids
  <2>. SUFFICES ASSUME Axis(i) \in Held, Fired(v, i) PROVE Served(v, i) BY DEF Served
  <2>1. Fired(w, i) /\ Served(w, i) BY <1>3 DEF Lively
  <2>2. interactions[i].actor \in Actors BY AxisFacts
  <2>3. CASE Charge(i)
    BY <1>5, <1>6, <2>1, <2>3 DEF Served
  <2>4. CASE ~Charge(i)
    <3>1. v.triggers[i] = w.triggers[i] BY <1>4, <2>1, <2>4
    <3>2. Ended(v, i) <=> Ended(w, i) BY <3>1 DEF Ended
    <3>3. Overs(v, i) = Overs(w, i) BY <1>6, <2>1, <2>4
    <3>4. CASE Axis(i) = "lateral"
      BY <1>7, <1>8, <2>1, <2>2, <2>4, <3>2, <3>3, <3>4 DEF Served
    <3>5. CASE Axis(i) = "longitudinal"
      BY <1>7, <1>8, <2>1, <2>2, <3>2, <3>3, <3>5 DEF Served
    <3>. QED BY <3>4, <3>5 DEF Held
  <2>. QED BY <2>3, <2>4
<1>11. \A a \in Actors : Commands(v, a)
  <2>. SUFFICES ASSUME NEW a \in Actors, NEW axis \in Held, NEW i, i = v.actors[a].cmd[axis],
                       i # Nobody
                PROVE  /\ Fired(v, i) /\ interactions[i].actor = a /\ Axis(i) = axis
                       /\ ~Followed(v, a, i) => ~Ended(v, i) /\ Overs(v, i) = 0
                       /\ Followed(v, a, i) => Ended(v, i)
    BY DEF Commands
  <2>1. axis = "longitudinal" /\ i = w.actors[a].cmd["longitudinal"] BY <1>8 DEF Held
  <2>2. i \in Ids BY <1>1, <2>1, HeldFacts DEF Sims, ActorStates, Holders
  <2>3. Commands(w, a) BY DEF Lively
  <2>4. /\ Fired(w, i) /\ interactions[i].actor = a /\ Axis(i) = axis
        /\ ~Followed(w, a, i) => ~Ended(w, i) /\ Overs(w, i) = 0
        /\ Followed(w, a, i) => Ended(w, i)
    BY <2>1, <2>3, HeldFacts, SMTT(30) DEF Commands
  <2>5. ~Charge(i) BY <1>5, <2>1, <2>2, <2>4
  <2>6. v.triggers[i] = w.triggers[i] /\ Overs(v, i) = Overs(w, i)
    BY <1>4, <1>6, <2>2, <2>4, <2>5
  <2>7. (Ended(v, i) <=> Ended(w, i)) /\ (Followed(v, a, i) <=> Followed(w, a, i))
    BY <1>8, <2>6 DEF Ended, Followed
  <2>. QED BY <1>3, <2>2, <2>4, <2>6, <2>7
<1>12. \A a \in Actors : Cruising(v, a)
  <2>. TAKE a \in Actors
  <2>1. Cruising(w, a) BY DEF Lively
  <2>2. \A i \in Ids : Target(w, a, i) => Target(v, a, i) BY <1>3, <1>6 DEF Target
  <2>3. \A axis \in Axes : w.actors[a].until[axis] \in Ids \cup {Nobody}
    BY <1>1 DEF Sims, ActorStates, Holders
  <2>. QED BY <1>3, <1>7, <1>8, <2>1, <2>2, <2>3 DEF Cruising
<1>. QED BY <1>9, <1>10, <1>11, <1>12 DEF Lively

-----------------------------------------------------------------------------
(* The invariant of the whole clip: what is so at each phase p of tick t,  *)
(* when its loop comes to n, of the state w.                               *)

\* Interactions are evaluated from t = 0 on; those that have had their turn.
Counting(t, p) == p \notin {"collide", "move"} => t >= 0
Turned(t, p, n) ==
  {i \in Ids : t >= 0 /\ (p \in {"until", "windows again", "move", "finish"} \/ (p = "triggers" /\ i < n))}

\* At the end nothing waits, and no lateral command runs.
Closing(w, p) ==
  p = "finished" =>
    \A i \in Ids : /\ w.triggers[i].status # "pending"
                   /\ Axis(i) = "lateral" => w.actors[interactions[i].actor].cmd["lateral"] # i

\* A window that was closed stays closed.
Idle(w, i) == w.actors[interactions[i].actor].cmd["longitudinal"] # i
Bounded(w, t, p, n, released) ==
  /\ \A i \in released : Fired(w, i) /\ Idle(w, i)
  /\ \A i \in Ids :
       /\ p \in {"move", "finish"} \/ (p = "windows again" /\ i < n)
       /\ t >= interactions[i].window.end
       => Idle(w, i)

\* The time of the event that a dependent waits for.
Reference(w, i) ==
  LET trigger == interactions[i].trigger
  IN  ReferenceTime(w.triggers[trigger.ref], trigger.event)

\* Of the interactions in turned, which have had their turn at tick t: those that
\* wait may still wait.  And no deadline was passed over.
Waiting(w, t, i) ==
  LET trigger == interactions[i].trigger
  IN  /\ trigger.kind = "when" => t < trigger.byLatest
      /\ trigger.kind = "after" /\ Reference(w, i) # Never => t <= trigger.delay + Reference(w, i)
Excused(w, t, i) ==
  interactions[i].trigger.kind = "when" /\ interactions[i].trigger.ifNever = "fire" =>
    t >= interactions[i].window.end \/ w.actors[interactions[i].actor].crash
Punctual(w, t, turned) ==
  \A i \in Ids :
    interactions[i].verb # "route" =>
      /\ /\ i \in turned /\ w.triggers[i].status = "pending"
         /\ interactions[i].window.start <= t /\ t < interactions[i].window.end
         => Waiting(w, t, i)
      /\ w.triggers[i].status = "skipped" => Excused(w, t, i)

\* A dependent that has fired did so when its delay was over.
Follows(w, i) ==
  interactions[i].trigger.kind = "after" =>
    /\ Reference(w, i) # Never
    /\ w.triggers[i].fired_at >= interactions[i].trigger.delay + Reference(w, i)
Following(w) == \A i \in Ids : Fired(w, i) => Follows(w, i)

\* The exist interactions of actor a that have fired by tick t, and the presence
\* that the last of them left.
Existing(w, a, t) ==
  {i \in Ids : /\ interactions[i].actor = a /\ Axis(i) = "existence"
               /\ Fired(w, i) /\ w.triggers[i].fired_at <= t}
Shows(w, a, presence, t) ==
  \/ Existing(w, a, t) = {} /\ presence = (IF a \in StartPresent THEN "present" ELSE "absent")
  \/ \E i \in Existing(w, a, t) :
       /\ presence = interactions[i].verb
       /\ \A j \in Existing(w, a, t) :
            \/ w.triggers[j].fired_at < w.triggers[i].fired_at
            \/ w.triggers[j].fired_at = w.triggers[i].fired_at /\ j <= i

\* What has fired by now is what shows or is pending; what had fired before this tick
\* is what shows, until the plans of the tick adopt what is pending.
Scripted(w, t, p, n) ==
  \A a \in Actors :
    /\ Shows(w, a, Coming(w.actors[a]), t)
    /\ p # "move" => Shows(w, a, Presence(w.actors[a]), t - 1)
    /\ p = "move" /\ a < n => w.actors[a].pending = "none"
Today(w, t, p, turned) ==
  \A i \in Ids : w.triggers[i].fired_at = t => i \in turned \/ p = "finished"

Ordered(w, t, p, n, released) ==
  /\ Lively(w, t) /\ Counting(t, p) /\ Closing(w, p) /\ Bounded(w, t, p, n, released)
  /\ p # "finished" => Punctual(w, t, Turned(t, p, n))
  /\ Following(w) /\ Scripted(w, t, p, n) /\ Today(w, t, p, Turned(t, p, n))

Life == IInv /\ Ordered(sim, tick, phase, next, released_windows)

LEMMA LifeFacts ==
  ASSUME Life
  PROVE  /\ IInv /\ Lively(sim, tick) /\ tick \in Ticks /\ tick \in Int /\ ClipTicks \in Int
         /\ interactions \in Storyboards /\ sim \in Sims /\ Good(sim)
         /\ released_windows \subseteq Ids
         /\ Bounded(sim, tick, phase, next, released_windows) /\ Counting(tick, phase)
         /\ Ordered(sim, tick, phase, next, released_windows)
<1>1. tick \in Ticks BY DEF Life, IInv, Progress
<1>2. tick \in Int /\ ClipTicks \in Int BY <1>1, TickFacts
<1>. QED BY <1>1, <1>2 DEF Life, Ordered, IInv, Progress, Good

LEMMA LifeNext ==
  ASSUME UNCHANGED interactions, IInv', Ordered(sim', tick', phase', next', released_windows')
  PROVE  Life'
<1>1. Ids' = Ids BY DEF Ids
<1>2. \A i : Axis(i)' = Axis(i) BY DEF Axis
<1>. DEFINE P == Turned(tick, phase, next)
<1>3. P' = Turned(tick', phase', next') BY <1>1 DEF Turned
<1>4. Lively(sim, tick)' BY LivelyNext DEF Ordered
<1>5. Counting(tick, phase)' BY DEF Ordered, Counting
<1>6. Closing(sim, phase)' BY <1>1, <1>2 DEF Ordered, Closing
<1>7. Bounded(sim, tick, phase, next, released_windows)'
  BY <1>1 DEF Ordered, Bounded, Idle, Fired
<1>8. \A i : Reference(sim', i) = Reference(sim, i)' BY DEF Reference, ReferenceTime
<1>9. (phase # "finished" => Punctual(sim, tick, P))'
  <2>. SUFFICES ASSUME phase' # "finished" PROVE Punctual(sim, tick, P)' OBVIOUS
  <2>1. Punctual(sim', tick', P') BY <1>3 DEF Ordered
  <2>. HIDE DEF P
  <2>2. \A i : Waiting(sim', tick', i) => Waiting(sim, tick, i)' BY <1>8 DEF Waiting
  <2>3. \A i : Excused(sim', tick', i) => Excused(sim, tick, i)' BY DEF Excused
  <2>. QED BY <1>1, <2>1, <2>2, <2>3 DEF Punctual
<1>10. Following(sim)'
  <2>1. Following(sim') BY DEF Ordered
  <2>. QED BY <1>1, <1>8, <2>1 DEF Following, Follows, Fired
<1>11. Scripted(sim, tick, phase, next)'
  <2>1. Scripted(sim', tick', phase', next') BY DEF Ordered
  <2>2. \A a, t : Existing(sim', a, t) = Existing(sim, a, t)' BY <1>1, <1>2 DEF Existing, Fired
  <2>3. \A a, b, t : Shows(sim', a, b, t) => Shows(sim, a, b, t)' BY <2>2 DEF Shows
  <2>. QED BY <2>1, <2>3 DEF Scripted
<1>12. Today(sim, tick, phase, P)'
  <2>1. Today(sim', tick', phase', P') BY <1>3 DEF Ordered
  <2>. HIDE DEF P
  <2>. QED BY <1>1, <2>1 DEF Today
<1>. HIDE DEF P
<1>13. Ordered(sim, tick, phase, next, released_windows)'
  BY <1>4, <1>5, <1>6, <1>7, <1>9, <1>10, <1>11, <1>12 DEF Ordered, P
<1>. QED BY <1>13 DEF Life

\* From w to v at most the triggers of those in turning fire or are skipped, and what
\* happens to the others, happens now.
Onward(w, v, turning) ==
  /\ \A j \in Ids \ turning : /\ v.triggers[j].status = w.triggers[j].status
                              /\ v.triggers[j].fired_at = w.triggers[j].fired_at
  /\ \A j \in turning : w.triggers[j].status = "pending"
  /\ \A j \in Ids :
       /\ v.triggers[j].fired_at # w.triggers[j].fired_at =>
            w.triggers[j].fired_at = Never /\ v.triggers[j].fired_at = tick
       /\ v.triggers[j].ended_at # w.triggers[j].ended_at =>
            w.triggers[j].ended_at = Never /\ v.triggers[j].ended_at = tick
  /\ \A b \in Actors : w.actors[b].crash => v.actors[b].crash

LEMMA CalmOnward ==
  ASSUME NEW w, NEW v, Calm(w, v)
  PROVE  Onward(w, v, {})
BY DEF Calm, Onward, Ended

LEMMA ReferenceFacts ==
  ASSUME interactions \in Storyboards, NEW w, NEW v, NEW turning, Onward(w, v, turning),
         NEW i \in Ids, interactions[i].trigger.kind = "after"
  PROVE  \/ Reference(v, i) = Reference(w, i)
         \/ Reference(w, i) = Never /\ Reference(v, i) = tick
BY ClipFacts DEF Onward, Reference, ReferenceTime

LEMMA PunctualKeeps ==
  ASSUME interactions \in Storyboards, tick \in Ticks, NEW w, NEW v,
         NEW turning \in SUBSET Ids, NEW turned, Onward(w, v, turning), Punctual(w, tick, turned),
         \A i \in turning :
           /\ v.triggers[i].status # "pending"
           /\ v.triggers[i].status = "skipped" /\ interactions[i].verb # "route" => Excused(w, tick, i)
  PROVE  Punctual(v, tick, turned \cup turning)
<1>. SUFFICES ASSUME NEW i \in Ids, interactions[i].verb # "route"
              PROVE  /\ /\ i \in turned \cup turning /\ v.triggers[i].status = "pending"
                        /\ interactions[i].window.start <= tick /\ tick < interactions[i].window.end
                        => Waiting(v, tick, i)
                     /\ v.triggers[i].status = "skipped" => Excused(v, tick, i)
  BY DEF Punctual
<1>1. interactions[i].actor \in Actors /\ tick \in Int BY AxisFacts, ConstantFacts
<1>2. Excused(w, tick, i) => Excused(v, tick, i) BY <1>1 DEF Excused, Onward
<1>3. CASE i \in turning BY <1>2, <1>3
<1>4. CASE i \notin turning
  <2>1. v.triggers[i].status = w.triggers[i].status BY <1>4 DEF Onward
  <2>2. Waiting(w, tick, i) => Waiting(v, tick, i)
    <3>1. CASE interactions[i].trigger.kind = "after"
      <4>1. interactions[i].trigger.delay \in Nat BY <3>1, ClipFacts
      <4>2. \/ Reference(v, i) = Reference(w, i)
            \/ Reference(w, i) = Never /\ Reference(v, i) = tick
        BY <3>1, ReferenceFacts
      <4>. QED BY <1>1, <3>1, <4>1, <4>2 DEF Waiting
    <3>2. CASE interactions[i].trigger.kind # "after" BY <3>2 DEF Waiting
    <3>. QED BY <3>1, <3>2
  <2>. QED BY <1>2, <1>4, <2>1, <2>2 DEF Punctual
<1>. QED BY <1>3, <1>4

LEMMA FollowingKeeps ==
  ASSUME interactions \in Storyboards, tick \in Ticks, NEW w, NEW v, NEW turning \in SUBSET Ids,
         Onward(w, v, turning), Following(w),
         \A i \in turning : Fired(v, i) => Follows(v, i)
  PROVE  Following(v)
<1>. SUFFICES ASSUME NEW i \in Ids, Fired(v, i) PROVE Follows(v, i)
  BY DEF Following
<1>1. CASE i \in turning BY <1>1
<1>2. CASE i \notin turning
  <2>1. Fired(w, i) /\ v.triggers[i].fired_at = w.triggers[i].fired_at
    BY <1>2 DEF Onward, Fired
  <2>2. Follows(w, i) BY <2>1 DEF Following
  <2>3. interactions[i].trigger.kind = "after" =>
          \/ Reference(v, i) = Reference(w, i)
          \/ Reference(w, i) = Never /\ Reference(v, i) = tick
    BY ReferenceFacts
  <2>. QED BY <2>1, <2>2, <2>3 DEF Follows
<1>. QED BY <1>1, <1>2

\* No exist interaction of actor a has come to those of tick t.
LEMMA ShowsKeeps ==
  ASSUME NEW w, NEW v, NEW turning \in SUBSET Ids, Onward(w, v, turning), NEW a, NEW t,
         \A i \in turning : i \notin Existing(v, a, t), NEW presence, Shows(w, a, presence, t)
  PROVE  Shows(v, a, presence, t)
<1>1. \A i \in turning : ~Fired(w, i) BY DEF Onward, Fired
<1>2. Existing(v, a, t) = Existing(w, a, t)
  <2>1. \A i \in Ids : i \in Existing(v, a, t) <=> i \in Existing(w, a, t)
    <3>. TAKE i \in Ids
    <3>1. CASE i \in turning
      <4>1. i \notin Existing(v, a, t) BY <3>1
      <4>2. i \notin Existing(w, a, t) BY <1>1, <3>1 DEF Existing
      <4>. QED BY <4>1, <4>2
    <3>2. CASE i \notin turning
      <4>1. v.triggers[i].status = w.triggers[i].status
            /\ v.triggers[i].fired_at = w.triggers[i].fired_at
        BY <3>2 DEF Onward
      <4>. QED BY <4>1 DEF Existing, Fired
    <3>. QED BY <3>1, <3>2
  <2>2. Existing(v, a, t) \subseteq Ids /\ Existing(w, a, t) \subseteq Ids BY DEF Existing
  <2>. QED BY <2>1, <2>2
<1>3. \A i \in Existing(w, a, t) : v.triggers[i].fired_at = w.triggers[i].fired_at
  BY <1>1 DEF Onward, Existing
<1>4. CASE Existing(w, a, t) = {} BY <1>2, <1>4 DEF Shows
<1>5. CASE Existing(w, a, t) # {}
  <2>1. PICK i \in Existing(w, a, t) :
           /\ presence = interactions[i].verb
           /\ \A j \in Existing(w, a, t) :
                \/ w.triggers[j].fired_at < w.triggers[i].fired_at
                \/ w.triggers[j].fired_at = w.triggers[i].fired_at /\ j <= i
    BY <1>5 DEF Shows
  <2>2. \A j \in Existing(v, a, t) :
           \/ v.triggers[j].fired_at < v.triggers[i].fired_at
           \/ v.triggers[j].fired_at = v.triggers[i].fired_at /\ j <= i
    BY <1>2, <1>3, <2>1
  <2>. QED BY <1>2, <2>1, <2>2 DEF Shows
<1>. QED BY <1>4, <1>5

LEMMA TodayKeeps ==
  ASSUME tick \in Ticks, NEW w, NEW v, NEW turning, NEW turned, NEW p, NEW q,
         Onward(w, v, turning), Today(w, tick, p, turned), p # "finished"
  PROVE  Today(v, tick, q, turned \cup turning)
BY DEF Onward, Today

LEMMA IdleKeeps ==
  ASSUME interactions \in Storyboards, NEW w, NEW v, Calm(w, v), NEW i \in Ids, Idle(w, i)
  PROVE  Idle(v, i)
<1>1. i # Nobody /\ interactions[i].actor \in Actors BY AxisFacts
<1>. QED BY <1>1 DEF Calm, Idle

\* Only speeds and gaps that have fired hold the longitudinal axis.
LEMMA IdleUnless ==
  ASSUME interactions \in Storyboards, NEW w, NEW t, Lively(w, t), NEW i \in Ids, ~Idle(w, i)
  PROVE  Fired(w, i) /\ Axis(i) = "longitudinal"
<1>1. i # Nobody /\ interactions[i].actor \in Actors BY AxisFacts
<1>2. Commands(w, interactions[i].actor) BY <1>1 DEF Lively
<1>. QED BY <1>1, <1>2, HeldFacts DEF Commands, Idle

LEMMA CloseWindowIdle ==
  ASSUME interactions \in Storyboards, tick \in Ticks, NEW w, NEW i \in Ids, NEW t,
         Good(w), Lively(w, t), Fired(w, i)
  PROVE  Idle(CloseWindow(w, i), i)
<1>. DEFINE a == interactions[i].actor
            inCharge == Axis(i) = "longitudinal" /\ w.actors[a].cmd["longitudinal"] = i
            ended == End(w, i)
            released == ReleaseAxis(ended, a, "longitudinal", i, "window")
<1>1. CloseWindow(w, i) = IF inCharge THEN released ELSE ended BY DEF CloseWindow
<1>2. a \in Actors /\ w \in Sims /\ i # Nobody BY AxisFacts DEF Good
<1>3. w.events[i] # <<>> BY DEF Lively, Told
<1>4. CASE inCharge
  <2>. HIDE DEF a
  <2>1. Touched(w, ended, a, i, 0, 0, 1) BY <1>2, <1>3, EndTouched
  <2>2. ended \in Sims /\ ended.events[i] # <<>> BY <2>1 DEF Touched, Grew
  <2>. HIDE DEF ended
  <2>3. released.actors[a] = Left(ended.actors[a], "longitudinal", i, FALSE)
    BY <1>2, <2>2, HeldFacts, ReleaseTouched
  <2>4. ended.actors[a] \in ActorStates /\ "longitudinal" \in Axes BY <1>2, <2>2 DEF Sims, Axes
  <2>5. Left(ended.actors[a], "longitudinal", i, FALSE).cmd["longitudinal"] = Nobody
    <3>. DEFINE r == ended.actors[a]
    <3>1. r \in ActorStates BY <2>4
    <3>. HIDE DEF r
    <3>2. Left(r, "longitudinal", i, FALSE).cmd =
            [x \in Held |-> IF x = "longitudinal" THEN Nobody ELSE r.cmd[x]]
      BY <3>1 DEF Left, Freed, ActorStates
    <3>. QED BY <3>2, HeldFacts DEF r
  <2>6. CloseWindow(w, i) = released BY <1>1, <1>4
  <2>. HIDE DEF released
  <2>. QED BY <1>2, <2>3, <2>5, <2>6 DEF Idle, a
<1>5. CASE ~inCharge
  <2>1. ended.actors = w.actors BY <1>2, EndFacts
  <2>2. Idle(w, i) BY <1>5, IdleUnless DEF Idle
  <2>. QED BY <1>1, <1>5, <2>1, <2>2 DEF Idle
<1>. QED BY <1>4, <1>5

LEMMA WindowsBounded ==
  ASSUME IInv, Lively(sim, tick), NEW p \in {"windows", "windows again"}, NEW after,
         EvaluateWindowEnds(p, after),
         \A i \in released_windows : Fired(sim, i) /\ Idle(sim, i)
  PROVE  /\ \A i \in released_windows' : Fired(sim', i) /\ Idle(sim', i)
         /\ tick >= interactions[next].window.end => Idle(sim', next)
<1>1. Good(sim) /\ interactions \in Storyboards /\ tick \in Ticks /\ next \in Ids
      /\ released_windows \subseteq Ids
  BY DEF IInv, Progress, AtIds, EvaluateWindowEnds, OverIds, InLoop
<1>2. Calm(sim, sim') BY WindowsEase DEF Eases
<1>3. \A i \in released_windows : Fired(sim', i) /\ Idle(sim', i)
  <2>. TAKE i \in released_windows
  <2>1. i \in Ids /\ Fired(sim, i) /\ Idle(sim, i) BY <1>1
  <2>2. Fired(sim', i) BY <1>2, <2>1 DEF Calm, Fired
  <2>3. Idle(sim', i) BY <1>1, <1>2, <2>1, IdleKeeps
  <2>. QED BY <2>2, <2>3
<1>4. CASE WindowOver(next)
  <2>1. Fired(sim, next) BY <1>4 DEF WindowOver, Fired
  <2>2. sim' = CloseWindow(sim, next) BY <1>4 DEF EvaluateWindowEnds
  <2>3. Idle(sim', next) BY <1>1, <2>1, <2>2, CloseWindowIdle
  <2>4. Fired(sim', next) BY <1>1, <1>2, <2>1 DEF Calm, Fired
  <2>5. released_windows' \subseteq released_windows \cup {next} BY DEF EvaluateWindowEnds
  <2>. QED BY <1>3, <2>3, <2>4, <2>5
<1>5. CASE ~WindowOver(next)
  <2>1. sim' = sim /\ released_windows' = released_windows BY <1>5 DEF EvaluateWindowEnds
  <2>2. tick >= interactions[next].window.end => Idle(sim, next)
    <3>. SUFFICES ASSUME tick >= interactions[next].window.end, ~Idle(sim, next) PROVE FALSE
      OBVIOUS
    <3>1. Fired(sim, next) /\ Axis(next) = "longitudinal" BY <1>1, IdleUnless
    <3>2. next \notin released_windows OBVIOUS
    <3>. QED BY <1>5, <3>1, <3>2 DEF WindowOver, Fired
  <2>. QED BY <1>3, <2>1, <2>2
<1>. QED BY <1>4, <1>5

\* A step in which nobody fires or is skipped, and no presence is adopted, keeps
\* everything but what the phase it leads to says of windows.
LEMMA QuietKeeps ==
  ASSUME interactions \in Storyboards, tick \in Ticks, NEW w, NEW v, NEW p, NEW q, NEW n, NEW m,
         NEW before, NEW released,
         Ordered(w, tick, p, n, before), Eases(w, v, tick),
         p \notin {"move", "finished"}, q # "finished", q = "move" => m = 1,
         Turned(tick, q, m) = Turned(tick, p, n),
         Counting(tick, q), Bounded(v, tick, q, m, released)
  PROVE  Ordered(v, tick, q, m, released)
<1>. DEFINE P == Turned(tick, p, n)
<1>1. /\ Lively(v, tick) /\ Onward(w, v, {}) /\ Unmoved(w, v)
  BY CalmOnward DEF Eases
<1>2. Punctual(w, tick, P) /\ Following(w) /\ Scripted(w, tick, p, n) /\ Today(w, tick, p, P)
  BY DEF Ordered
<1>3. \A i : i \notin {} OBVIOUS
<1>4. P \cup {} = P /\ {} \in SUBSET Ids OBVIOUS
<1>. HIDE DEF P
<1>5. Punctual(v, tick, P)
  <2>1. Punctual(v, tick, P \cup {}) BY <1>1, <1>2, <1>4, PunctualKeeps
  <2>. QED BY <1>4, <2>1
<1>6. Following(v) BY <1>1, <1>2, <1>4, FollowingKeeps
<1>7. Scripted(v, tick, q, m)
  <2>. SUFFICES ASSUME NEW a \in Actors
                PROVE  /\ Shows(v, a, Coming(v.actors[a]), tick)
                       /\ Shows(v, a, Presence(v.actors[a]), tick - 1)
                       /\ ~(q = "move" /\ a < m)
    BY DEF Scripted
  <2>1. Coming(v.actors[a]) = Coming(w.actors[a]) /\ Presence(v.actors[a]) = Presence(w.actors[a])
    BY <1>1 DEF Unmoved, Coming, Presence
  <2>2. Shows(w, a, Coming(w.actors[a]), tick) /\ Shows(w, a, Presence(w.actors[a]), tick - 1)
    BY <1>2 DEF Scripted
  <2>3. \A b, t : Shows(w, a, b, t) => Shows(v, a, b, t) BY <1>1, <1>4, ShowsKeeps
  <2>4. ~(q = "move" /\ a < m) BY ConstantFacts
  <2>. QED BY <2>1, <2>2, <2>3, <2>4
<1>8. Today(v, tick, q, P)
  <2>1. Today(v, tick, q, P \cup {}) BY <1>1, <1>2, TodayKeeps
  <2>. QED BY <1>4, <2>1
<1>9. Closing(v, q) BY DEF Closing
<1>. QED BY <1>1, <1>5, <1>6, <1>7, <1>8, <1>9 DEF Ordered, P

LEMMA QuietStep ==
  ASSUME Life, Eases(sim, sim', tick), UNCHANGED <<interactions, tick>>, IInv',
         phase \notin {"move", "finished"}, phase' # "finished", phase' = "move" => next' = 1,
         Turned(tick, phase', next') = Turned(tick, phase, next),
         Counting(tick, phase'), Bounded(sim', tick, phase', next', released_windows')
  PROVE  Life'
<1>1. interactions \in Storyboards /\ tick \in Ticks BY DEF Life, IInv, Progress
<1>2. Ordered(sim, tick, phase, next, released_windows) BY DEF Life
<1>3. Ordered(sim', tick, phase', next', released_windows') BY <1>1, <1>2, QuietKeeps
<1>4. Ordered(sim', tick', phase', next', released_windows') BY <1>3
<1>. QED BY <1>4, LifeNext

\* Before the triggers are evaluated, nobody has had a turn.
LEMMA NotTurned ==
  ASSUME NEW t \in Int, NEW p \in Phases, NEW n,
         \/ p \in {"collide", "complete", "windows"}
         \/ p = "triggers" /\ n = 1 /\ interactions \in Storyboards
         \/ t < 0
  PROVE  Turned(t, p, n) = {}
<1>1. t < 0 => Turned(t, p, n) = {}
  <2>1. t < 0 => ~(t >= 0) OBVIOUS
  <2>. QED BY <2>1 DEF Turned
<1>2. p \in {"collide", "complete", "windows"} => Turned(t, p, n) = {} BY DEF Turned
<1>3. p = "triggers" /\ n = 1 /\ interactions \in Storyboards => Turned(t, p, n) = {}
  BY StoryFacts DEF Turned
<1>. QED BY <1>1, <1>2, <1>3

LEMMA DetectCollisionsLife ==
  ASSUME Life, NEW collides \in BOOLEAN, DetectCollisions(collides)
  PROVE  Life'
<1>1. IInv /\ Lively(sim, tick) /\ tick \in Ticks /\ tick \in Int /\ interactions \in Storyboards
      /\ Bounded(sim, tick, phase, next, released_windows)
  BY LifeFacts
<1>2. Eases(sim, sim', tick) /\ IInv' BY <1>1, CollisionsEase, DetectCollisionsStep
<1>3. /\ UNCHANGED <<interactions, tick, released_windows>> /\ phase = "collide"
      /\ \/ phase' = "collide"
         \/ phase' = "complete" /\ tick >= 0
         \/ phase' = "move" /\ tick < 0 /\ next' = 1
  BY <1>1 DEF DetectCollisions, OverActors, InLoop, Continue
<1>4. Turned(tick, phase, next) = {} /\ Turned(tick, phase', next') = {}
  BY <1>1, <1>3, NotTurned DEF Phases
<1>5. Bounded(sim', tick, phase', next', released_windows')
  <2>1. ASSUME NEW i \in released_windows PROVE Fired(sim', i) /\ Idle(sim', i)
    <3>1. i \in Ids /\ Fired(sim, i) /\ Idle(sim, i) BY <1>1 DEF IInv, Progress, Bounded
    <3>2. Fired(sim', i) BY <1>2, <3>1 DEF Eases, Calm, Fired
    <3>3. Idle(sim', i) BY <1>1, <1>2, <3>1, IdleKeeps DEF Eases
    <3>. QED BY <3>2, <3>3
  <2>2. ASSUME NEW i \in Ids, tick < 0 PROVE Idle(sim', i)
    <3>. SUFFICES ASSUME ~Idle(sim', i) PROVE FALSE OBVIOUS
    <3>1. Lively(sim', tick) BY <1>2 DEF Eases
    <3>2. Fired(sim', i) BY <1>1, <3>1, IdleUnless
    <3>3. sim'.triggers[i].fired_at \in 0..tick BY <3>1, <3>2 DEF Lively, Told
    <3>. QED BY <1>1, <2>2, <3>3
  <2>. QED BY <1>3, <2>1, <2>2 DEF Bounded
<1>6. Counting(tick, phase') BY <1>3 DEF Counting
<1>. QED BY <1>2, <1>3, <1>4, <1>5, <1>6, QuietStep

LEMMA CompletionsLife ==
  ASSUME Life, NEW reached \in BOOLEAN, EvaluateLongitudinalCompletions(reached)
  PROVE  Life'
<1>1. IInv /\ Lively(sim, tick) /\ tick \in Ticks /\ tick \in Int /\ interactions \in Storyboards
      /\ Bounded(sim, tick, phase, next, released_windows) /\ Counting(tick, phase)
  BY LifeFacts
<1>2. Eases(sim, sim', tick) /\ IInv' BY <1>1, CompletionsEase, CompletionsStep
<1>3. /\ UNCHANGED <<interactions, tick, released_windows>> /\ phase = "complete"
      /\ phase' \in {"complete", "windows"}
  BY DEF EvaluateLongitudinalCompletions, OverActors, InLoop, Continue
<1>4. Turned(tick, phase, next) = {} /\ Turned(tick, phase', next') = {}
  BY <1>1, <1>3, NotTurned DEF Phases
<1>5. Bounded(sim', tick, phase', next', released_windows')
  <2>1. ASSUME NEW i \in released_windows PROVE Fired(sim', i) /\ Idle(sim', i)
    <3>1. i \in Ids /\ Fired(sim, i) /\ Idle(sim, i) BY <1>1 DEF IInv, Progress, Bounded
    <3>2. Fired(sim', i) BY <1>2, <3>1 DEF Eases, Calm, Fired
    <3>3. Idle(sim', i) BY <1>1, <1>2, <3>1, IdleKeeps DEF Eases
    <3>. QED BY <3>2, <3>3
  <2>. QED BY <1>3, <2>1 DEF Bounded
<1>6. Counting(tick, phase') BY <1>1, <1>3 DEF Counting
<1>. QED BY <1>2, <1>3, <1>4, <1>5, <1>6, QuietStep

\* The loop over the interactions ends at the last one.
LEMMA LoopFacts ==
  ASSUME interactions \in Storyboards
  PROVE  /\ \A i \in Ids : i \in Int
         /\ \A i \in Ids : ~(i < Len(interactions)) => i = Len(interactions)
         /\ \A i \in Ids : \A j \in Ids : i < j + 1 => i < j \/ i = j
         /\ \A i \in Ids : i < Len(interactions) \/ i = Len(interactions)
<1>. DEFINE n == Len(interactions)
<1>1. Ids = 1..n /\ n \in Nat BY StoryFacts
<1>. HIDE DEF n
<1>2. \A i \in Ids : i \in Int /\ i <= n BY <1>1
<1>3. \A i \in Ids : ~(i < n) => i = n BY <1>1, <1>2
<1>4. \A i \in Ids : \A j \in Ids : i < j + 1 => i < j \/ i = j BY <1>2
<1>. QED BY <1>2, <1>3, <1>4 DEF n

\* The two passes over the windows, and the phases that follow them.
Passes(p, after) ==
  \/ p = "windows" /\ after = "triggers"
  \/ p = "windows again" /\ after = IF tick < ClipTicks THEN "move" ELSE "finish"

LEMMA WindowEndsLife ==
  ASSUME Life, NEW p, NEW after, EvaluateWindowEnds(p, after), Passes(p, after)
  PROVE  Life'
<1>1. IInv /\ Lively(sim, tick) /\ tick \in Ticks /\ tick \in Int /\ interactions \in Storyboards
      /\ Bounded(sim, tick, phase, next, released_windows) /\ Counting(tick, phase)
      /\ ClipTicks \in Int
  BY LifeFacts
<1>2. phase = p /\ next \in Ids /\ p \in {"windows", "windows again"}
      /\ UNCHANGED <<interactions, tick>>
  BY <1>1 DEF Passes, EvaluateWindowEnds, OverIds, InLoop, IInv, Progress, AtIds
<1>3. /\ p = "windows" => \/ phase' = "windows"
                          \/ phase' = "triggers" /\ next' = 1
      /\ p = "windows again" =>
           \/ phase' = "windows again" /\ next' = next + 1
           \/ phase' \in {"move", "finish"} /\ next' = 1 /\ next = Len(interactions)
  <2>1. ~(next < Len(interactions)) => next = Len(interactions) BY <1>1, <1>2, LoopFacts
  <2>2. /\ next < Len(interactions) => next' = next + 1 /\ phase' = phase
        /\ ~(next < Len(interactions)) => next' = 1 /\ phase' = after
    BY DEF EvaluateWindowEnds, OverIds, InLoop, Continue
  <2>3. CASE p = "windows" /\ after = "triggers" BY <1>2, <2>2, <2>3
  <2>4. CASE p = "windows again" /\ after \in {"move", "finish"}
    BY <1>2, <2>1, <2>2, <2>4
  <2>. QED BY <2>3, <2>4 DEF Passes
<1>4. Eases(sim, sim', tick) BY <1>1, <1>2, WindowsEase
<1>5. IInv'
  <2>1. after \in Phases /\ (after = "move" => tick < ClipTicks) BY DEF Passes, Phases
  <2>. QED BY <1>1, <1>2, <2>1, WindowEndsStep
<1>6. Turned(tick, phase', next') = Turned(tick, phase, next)
  <2>1. CASE p = "windows"
    <3>1. Turned(tick, phase, next) = {} /\ Turned(tick, phase', next') = {}
      BY <1>1, <1>2, <1>3, <2>1, NotTurned DEF Phases
    <3>. QED BY <3>1
  <2>2. CASE p = "windows again"
    BY <1>2, <1>3, <2>2 DEF Turned
  <2>. QED BY <1>2, <2>1, <2>2
<1>7. Bounded(sim', tick, phase', next', released_windows')
  <2>1. /\ \A i \in released_windows' : Fired(sim', i) /\ Idle(sim', i)
        /\ tick >= interactions[next].window.end => Idle(sim', next)
    <3>1. \A i \in released_windows : Fired(sim, i) /\ Idle(sim, i) BY <1>1 DEF Bounded
    <3>. QED BY <1>1, <1>2, <3>1, WindowsBounded
  <2>2. ASSUME NEW i \in Ids, p = "windows again", i < next, tick >= interactions[i].window.end
        PROVE  Idle(sim', i)
    <3>1. Idle(sim, i) BY <1>1, <1>2, <2>2 DEF Bounded
    <3>. QED BY <1>1, <1>4, <3>1, IdleKeeps DEF Eases
  <2>3. Ids = 1..Len(interactions) /\ Len(interactions) \in Nat BY <1>1, StoryFacts
  <2>4. ASSUME NEW i \in Ids, tick >= interactions[i].window.end,
               phase' \in {"move", "finish"} \/ (phase' = "windows again" /\ i < next')
        PROVE  Idle(sim', i)
    <3>1. p = "windows again" /\ (i < next \/ i = next)
      <4>1. p = "windows again" BY <1>2, <1>3, <2>4
      <4>2. CASE phase' = "windows again" /\ next' = next + 1
        <5>1. i < next + 1 BY <2>4, <4>2
        <5>. QED BY <1>1, <1>2, <4>1, <5>1, LoopFacts
      <4>3. CASE next = Len(interactions) BY <1>1, <4>1, <4>3, LoopFacts
      <4>. QED BY <1>3, <4>1, <4>2, <4>3
    <3>. QED BY <2>1, <2>2, <2>4, <3>1
  <2>. QED BY <2>1, <2>4 DEF Bounded
<1>8. Counting(tick, phase') BY <1>1, <1>2, <1>3 DEF Counting
<1>9. phase' # "finished" /\ (phase' = "move" => next' = 1) BY <1>2, <1>3
<1>10. phase \notin {"move", "finished"} BY <1>2
<1>. QED BY <1>2, <1>4, <1>5, <1>6, <1>7, <1>8, <1>9, <1>10, QuietStep

LEMMA EvaluateUntilLife ==
  ASSUME Life, NEW due, EvaluateUntil(due)
  PROVE  Life'
<1>1. IInv /\ Lively(sim, tick) /\ tick \in Ticks /\ tick \in Int /\ interactions \in Storyboards
      /\ Bounded(sim, tick, phase, next, released_windows) /\ Counting(tick, phase)
  BY LifeFacts
<1>2. Eases(sim, sim', tick) /\ IInv' BY <1>1, UntilEase, EvaluateUntilStep
<1>3. /\ UNCHANGED <<interactions, tick, released_windows>> /\ phase = "until"
      /\ phase' = "until" \/ (phase' = "windows again" /\ next' = 1)
  BY DEF EvaluateUntil, OverActors, InLoop, Continue
<1>4. Turned(tick, phase', next') = Turned(tick, phase, next) BY <1>3 DEF Turned
<1>5. Bounded(sim', tick, phase', next', released_windows')
  <2>1. ASSUME NEW i \in released_windows PROVE Fired(sim', i) /\ Idle(sim', i)
    <3>1. i \in Ids /\ Fired(sim, i) /\ Idle(sim, i) BY <1>1 DEF IInv, Progress, Bounded
    <3>2. Fired(sim', i) BY <1>2, <3>1 DEF Eases, Calm, Fired
    <3>3. Idle(sim', i) BY <1>1, <1>2, <3>1, IdleKeeps DEF Eases
    <3>. QED BY <3>2, <3>3
  <2>2. \A i \in Ids : ~(i < 1) BY <1>1, StoryFacts
  <2>. QED BY <1>3, <2>1, <2>2 DEF Bounded
<1>6. Counting(tick, phase') BY <1>1, <1>3 DEF Counting
<1>. QED BY <1>2, <1>3, <1>4, <1>5, <1>6, QuietStep

\* The three steps of a trigger: what they share.
LEMMA TurnFacts ==
  ASSUME Life, OverIds("triggers", "until")
  PROVE  /\ interactions \in Storyboards /\ tick \in Ticks /\ tick \in Int /\ next \in Ids
         /\ UNCHANGED <<interactions, tick>> /\ phase = "triggers" /\ tick >= 0
         /\ phase' \in {"triggers", "until"} /\ Counting(tick, phase')
         /\ Turned(tick, phase', next') = Turned(tick, phase, next) \cup {next}
         /\ \A i \in Turned(tick, phase, next) : i < next
<1>1. /\ interactions \in Storyboards /\ tick \in Ticks /\ tick \in Int /\ next \in Ids
      /\ UNCHANGED <<interactions, tick>> /\ phase = "triggers"
  BY LifeFacts DEF Life, IInv, Progress, AtIds, OverIds, InLoop
<1>2. tick >= 0 BY <1>1 DEF Life, Ordered, Counting
<1>3. Ids = 1..Len(interactions) /\ Len(interactions) \in Nat BY <1>1, StoryFacts
<1>4. \/ phase' = "triggers" /\ next' = next + 1
      \/ phase' = "until" /\ next = Len(interactions)
  BY <1>1, <1>3 DEF OverIds, InLoop, Continue
<1>5. Turned(tick, phase, next) = {i \in Ids : i < next} BY <1>1, <1>2 DEF Turned
<1>6. Turned(tick, phase', next') = {i \in Ids : i <= next}
  <2>1. CASE phase' = "triggers" /\ next' = next + 1
    <3>1. Turned(tick, phase', next') = {i \in Ids : i < next + 1} BY <1>2, <2>1 DEF Turned
    <3>. QED BY <1>1, <1>3, <3>1
  <2>2. CASE phase' = "until" /\ next = Len(interactions)
    <3>1. Turned(tick, phase', next') = Ids BY <1>2, <2>2 DEF Turned
    <3>. QED BY <1>3, <2>2, <3>1
  <2>. QED BY <1>4, <2>1, <2>2
<1>7. Turned(tick, phase', next') = Turned(tick, phase, next) \cup {next}
  BY <1>1, <1>3, <1>5, <1>6
<1>. QED BY <1>1, <1>2, <1>4, <1>5, <1>7 DEF Counting

\* Who waits on after its turn has nothing to wait for that was due.
LEMMA HoldWaiting ==
  ASSUME interactions \in Storyboards, tick \in Int, NEW i \in Ids, NEW holds,
         interactions[i].window.start <= tick, tick < interactions[i].window.end,
         Verdict(i, holds) = "hold", Progress, Good(sim)
  PROVE  Waiting(sim, tick, i)
<1>. DEFINE trigger == interactions[i].trigger
<1>1. ShouldFire(i, holds) = "hold"
  BY ClipFacts DEF Verdict
<1>2. CASE trigger.kind = "when"
  <2>1. trigger.byLatest \in Int BY <1>2, ClipFacts
  <2>2. tick < trigger.byLatest BY <1>1, <1>2, <2>1 DEF ShouldFire
  <2>. QED BY <1>2, <2>2 DEF Waiting
<1>3. CASE trigger.kind = "after"
  <2>1. trigger.delay \in Nat /\ trigger.ref \in Ids /\ trigger.event \in {"start", "end"}
    BY <1>3, ClipFacts
  <2>2. Reference(sim, i) \in Int
    BY <2>1, ConstantFacts DEF Good, Sims, TriggerStates, Times, Reference, ReferenceTime
  <2>3. ~(Reference(sim, i) # Never /\ tick >= Reference(sim, i) + trigger.delay)
    BY <1>1, <1>3 DEF ShouldFire, Reference
  <2>. QED BY <1>3, <2>1, <2>2, <2>3 DEF Waiting
<1>4. CASE trigger.kind = "fixed" BY <1>4 DEF Waiting
<1>. QED BY <1>2, <1>3, <1>4, ClipFacts

LEMMA HoldTriggerLife ==
  ASSUME Life, NEW holds, NEW commit, HoldTrigger(holds, commit)
  PROVE  Life'
<1>. DEFINE P == Turned(tick, phase, next)
<1>1. OverIds("triggers", "until") /\ released_windows' = released_windows /\ sim' = sim
  BY DEF HoldTrigger
<1>2. /\ interactions \in Storyboards /\ tick \in Ticks /\ tick \in Int /\ next \in Ids
      /\ UNCHANGED <<interactions, tick>> /\ phase = "triggers" /\ tick >= 0
      /\ phase' \in {"triggers", "until"} /\ Counting(tick, phase')
      /\ Turned(tick, phase', next') = P \cup {next}
  BY <1>1, TurnFacts
<1>3. Ordered(sim, tick, phase, next, released_windows) /\ IInv BY DEF Life
<1>4. IInv' BY <1>3, HoldTriggerStep
<1>. HIDE DEF P
<1>5. Punctual(sim, tick, P) BY <1>2, <1>3 DEF Ordered, P
<1>6. Punctual(sim, tick, P \cup {next})
  <2>1. ASSUME interactions[next].verb # "route", sim.triggers[next].status = "pending",
               interactions[next].window.start <= tick, tick < interactions[next].window.end
        PROVE  Waiting(sim, tick, next)
    <3>1. Verdict(next, holds) = "hold" BY <2>1 DEF HoldTrigger, Commits, Pending
    <3>. QED BY <1>2, <1>3, <2>1, <3>1, HoldWaiting DEF IInv
  <2>. QED BY <1>2, <1>5, <2>1 DEF Punctual
<1>7. Today(sim, tick, phase', P \cup {next})
  <2>1. Today(sim, tick, phase, P) BY <1>3 DEF Ordered, P
  <2>. QED BY <1>2, <2>1 DEF Today
<1>8. Scripted(sim, tick, phase', next') BY <1>2, <1>3 DEF Ordered, Scripted
<1>9. Bounded(sim, tick, phase', next', released_windows) BY <1>2, <1>3 DEF Ordered, Bounded
<1>10. Closing(sim, phase') BY <1>2 DEF Closing
<1>11. Ordered(sim, tick, phase', next', released_windows)
  BY <1>2, <1>3, <1>6, <1>7, <1>8, <1>9, <1>10 DEF Ordered
<1>12. Ordered(sim', tick', phase', next', released_windows') BY <1>1, <1>2, <1>11
<1>. QED BY <1>2, <1>4, <1>12, LifeNext

LEMMA SkipOnward ==
  ASSUME NEW w \in Sims, NEW i \in Ids, w.triggers[i].status = "pending"
  PROVE  /\ Onward(w, Skip(w, i), {i})
         /\ Skip(w, i).triggers[i].status = "skipped" /\ Skip(w, i).actors = w.actors
<1>1. Skip(w, i).actors = w.actors BY SkipFacts
<1>2. \A j \in Ids : Skip(w, i).triggers[j] =
        IF j = i THEN [w.triggers[i] EXCEPT !.status = "skipped"] ELSE w.triggers[j]
  BY DEF Skip, Note, Sims
<1>3. w.triggers[i] \in TriggerStates BY DEF Sims
<1>. HIDE DEF TriggerStates
<1>4. /\ [w.triggers[i] EXCEPT !.status = "skipped"].status = "skipped"
      /\ [w.triggers[i] EXCEPT !.status = "skipped"].fired_at = w.triggers[i].fired_at
      /\ [w.triggers[i] EXCEPT !.status = "skipped"].ended_at = w.triggers[i].ended_at
  BY <1>3 DEF TriggerStates
<1>. QED BY <1>1, <1>2, <1>4 DEF Onward

\* What is skipped in time had its reason: the window, a crash, or ifNever.
LEMMA SkipExcused ==
  ASSUME interactions \in Storyboards, tick \in Int, NEW i \in Ids, NEW holds, NEW commit,
         commit \in Commits(i), interactions[i].verb # "route",
         \/ Verdict(i, holds) = "skip"
         \/ Fires(i, holds) /\ commit = "missed"
         \/ Fires(i, holds) /\ commit = "ready" /\ CrashBars(i)
  PROVE  Excused(sim, tick, i)
<1>1. commit = "ready" BY DEF Commits
<1>2. CASE Verdict(i, holds) = "skip"
  <2>. SUFFICES ASSUME interactions[i].trigger.kind = "when",
                       interactions[i].trigger.ifNever = "fire", tick < interactions[i].window.end
                PROVE FALSE
    BY ClipFacts DEF Excused
  <2>1. ShouldFire(i, holds) = "skip" BY <1>2, ClipFacts DEF Verdict
  <2>. QED BY <2>1 DEF ShouldFire
<1>3. CASE CrashBars(i) BY <1>3 DEF CrashBars, Excused
<1>. QED BY <1>1, <1>2, <1>3

LEMMA SkipTriggerLife ==
  ASSUME Life, NEW holds, NEW commit, SkipTrigger(holds, commit)
  PROVE  Life'
<1>. DEFINE P == Turned(tick, phase, next)
            v == Skip(sim, next)
<1>1. OverIds("triggers", "until") /\ released_windows' = released_windows /\ sim' = v
      /\ sim.triggers[next].status = "pending" /\ commit \in Commits(next)
  BY DEF SkipTrigger, Pending
<1>2. /\ interactions \in Storyboards /\ tick \in Ticks /\ tick \in Int /\ next \in Ids
      /\ UNCHANGED <<interactions, tick>> /\ phase = "triggers" /\ tick >= 0
      /\ phase' \in {"triggers", "until"} /\ Counting(tick, phase')
      /\ Turned(tick, phase', next') = P \cup {next}
  BY <1>1, TurnFacts
<1>3. Ordered(sim, tick, phase, next, released_windows) /\ IInv /\ sim \in Sims
      /\ released_windows \subseteq Ids
  BY DEF Life, IInv, Good, Progress
<1>4. IInv' BY <1>3, SkipTriggerStep
<1>5. Lively(v, tick)
  <2>1. Lively(sim, tick) BY <1>3 DEF Ordered
  <2>2. Lively(sim', tick) BY <1>3, <2>1, SkipTriggerLively
  <2>. QED BY <1>1, <2>2
<1>6. Onward(sim, v, {next}) /\ v.triggers[next].status = "skipped" /\ v.actors = sim.actors
  BY <1>1, <1>2, <1>3, SkipOnward
<1>. HIDE DEF v, P
<1>7. Punctual(sim, tick, P) /\ Today(sim, tick, phase, P) /\ Following(sim)
      /\ Scripted(sim, tick, phase, next) /\ Bounded(sim, tick, phase, next, released_windows)
  BY <1>2, <1>3 DEF Ordered, P
<1>8. {next} \in SUBSET Ids BY <1>2
<1>9. Punctual(v, tick, P \cup {next})
  <2>1. interactions[next].verb # "route" => Excused(sim, tick, next)
    BY <1>1, <1>2, SkipExcused DEF SkipTrigger
  <2>. QED BY <1>2, <1>6, <1>7, <1>8, <2>1, PunctualKeeps
<1>10. Following(v)
  BY <1>2, <1>6, <1>7, <1>8, FollowingKeeps DEF Fired
<1>11. Today(v, tick, phase', P \cup {next}) BY <1>2, <1>6, <1>7, TodayKeeps
<1>12. Scripted(v, tick, phase', next')
  <2>1. \A a, b, t : Shows(sim, a, b, t) => Shows(v, a, b, t)
    <3>. TAKE a, b, t
    <3>1. \A i \in {next} : i \notin Existing(v, a, t) BY <1>6 DEF Existing, Fired
    <3>. QED BY <1>6, <1>8, <3>1, ShowsKeeps
  <2>. QED BY <1>2, <1>6, <1>7, <2>1 DEF Scripted
<1>13. Bounded(v, tick, phase', next', released_windows)
  <2>1. \A i \in released_windows : Fired(v, i) /\ Idle(v, i)
    <3>. TAKE i \in released_windows
    <3>1. i \in Ids /\ Fired(sim, i) /\ Idle(sim, i) BY <1>3, <1>7 DEF Bounded
    <3>2. i # next BY <1>1, <3>1 DEF Fired
    <3>. QED BY <1>6, <3>1, <3>2 DEF Onward, Fired, Idle
  <2>. QED BY <1>2, <2>1 DEF Bounded
<1>14. Closing(v, phase') BY <1>2 DEF Closing
<1>15. Ordered(v, tick, phase', next', released_windows)
  BY <1>2, <1>5, <1>9, <1>10, <1>11, <1>12, <1>13, <1>14 DEF Ordered
<1>16. Ordered(sim', tick', phase', next', released_windows') BY <1>1, <1>2, <1>15
<1>. QED BY <1>2, <1>4, <1>16, LifeNext

\* An interaction fires: what that changes of the triggers, of presence and of who is
\* in charge.
Starting(w, v, i) ==
  /\ Onward(w, v, {i}) /\ Fired(v, i) /\ v.triggers[i].fired_at = tick
  /\ \A b \in Actors :
       /\ v.actors[b].present = w.actors[b].present
       /\ Coming(v.actors[b]) =
            IF b = interactions[i].actor /\ Axis(i) = "existence"
              THEN interactions[i].verb ELSE Coming(w.actors[b])
  /\ \A j \in Ids \ {i} : Idle(w, j) => Idle(v, j)

LEMMA FireOnward ==
  ASSUME interactions \in Storyboards, tick \in Ticks, NEW w, NEW i \in Ids, NEW t,
         Good(w), Lively(w, t), w.triggers[i].status = "pending",
         NEW forced \in BOOLEAN, NEW feasible \in BOOLEAN
  PROVE  Starting(w, Fire(w, i, forced, feasible), i)
<1>. DEFINE v == Fire(w, i, forced, feasible)
            a == interactions[i].actor
            axis == Axis(i)
            previous == Previous(w, i)
            r == w.actors[a]
            s == v.actors[a]
            clause == IF interactions[i].until THEN i ELSE Nobody
<1>1. w \in Sims /\ a \in Actors /\ r \in ActorStates /\ axis \in Axes /\ i # Nobody
  BY AxisFacts DEF Good, Sims
<1>2. Timeless(w, i) /\ w.events[i] = <<>> /\ ~Fired(w, i) BY DEF Lively, Told, Fired
<1>3. previous # Nobody => previous \in Ids \ {i} /\ w.events[previous] # <<>>
  <2>. SUFFICES ASSUME previous # Nobody
                PROVE  previous \in Ids \ {i} /\ w.events[previous] # <<>>
    OBVIOUS
  <2>1. axis \in Held /\ previous = r.cmd[axis] BY DEF Previous
  <2>. HIDE DEF previous
  <2>2. previous \in Ids /\ Fired(w, previous) /\ w.events[previous] # <<>>
    BY <1>1, <2>1, ChargeFacts
  <2>. QED BY <1>2, <2>2
<1>4. PICK c \in {0, 1} : Begun(w, v, i, c)
  BY <1>1, <1>2, <1>3, FireBegun
<1>5. PICK q : Obeyed(i, r, q, c) /\ s = [q EXCEPT !.until[axis] = clause]
  BY <1>4 DEF Begun
<1>6. /\ \A j \in Ids \ {i, previous} : v.triggers[j] = w.triggers[j]
      /\ \A b \in Actors \ {a} : v.actors[b] = w.actors[b]
      /\ previous # Nobody =>
           /\ v.triggers[previous].status = w.triggers[previous].status
           /\ v.triggers[previous].fired_at = w.triggers[previous].fired_at
           /\ v.triggers[previous].ended_at =
                IF Ended(w, previous) THEN w.triggers[previous].ended_at ELSE tick
      /\ Fired(v, i) /\ v.triggers[i].fired_at = tick /\ v.triggers[i].ended_at \in {Never, tick}
  BY <1>4 DEF Begun
<1>. HIDE DEF v
<1>7. /\ s.crash = r.crash /\ s.present = r.present
      /\ Coming(s) = IF axis = "existence" THEN interactions[i].verb ELSE Coming(r)
      /\ s.cmd["longitudinal"] \in {r.cmd["longitudinal"], i, Nobody}
  <2>1. /\ q \in ActorStates /\ q.crash = r.crash /\ q.present = r.present
        /\ Coming(q) = IF axis = "existence" THEN interactions[i].verb ELSE Coming(r)
        /\ \A x \in Held \ {axis} : q.cmd[x] = r.cmd[x]
        /\ axis \in Held => q.cmd[axis] \in {i, Nobody}
    BY <1>5 DEF Obeyed
  <2>2. s.crash = q.crash /\ s.present = q.present /\ s.pending = q.pending /\ s.cmd = q.cmd
    BY <1>5, <2>1 DEF ActorStates
  <2>3. Coming(s) = Coming(q) BY <2>2 DEF Coming, Presence
  <2>4. q.cmd["longitudinal"] \in {r.cmd["longitudinal"], i, Nobody}
    <3>1. CASE axis = "longitudinal" BY <2>1, <3>1, HeldFacts
    <3>2. CASE axis # "longitudinal" BY <2>1, <3>2, HeldFacts
    <3>. QED BY <3>1, <3>2
  <2>. QED BY <2>1, <2>2, <2>3, <2>4, SMTT(30)
<1>. HIDE DEF s, previous, r
<1>8. Onward(w, v, {i})
  <2>1. \A j \in Ids \ {i} :
          /\ v.triggers[j].status = w.triggers[j].status
          /\ v.triggers[j].fired_at = w.triggers[j].fired_at
          /\ v.triggers[j].ended_at # w.triggers[j].ended_at =>
               w.triggers[j].ended_at = Never /\ v.triggers[j].ended_at = tick
    <3>. TAKE j \in Ids \ {i}
    <3>1. CASE j = previous
      <4>1. j # Nobody BY <1>1, AxisFacts
      <4>. QED BY <1>6, <3>1, <4>1 DEF Ended
    <3>2. CASE j # previous BY <1>6, <3>2
    <3>. QED BY <3>1, <3>2
  <2>2. w.triggers[i].fired_at = Never /\ w.triggers[i].ended_at = Never BY <1>2 DEF Timeless
  <2>3. \A b \in Actors : w.actors[b].crash => v.actors[b].crash BY <1>6, <1>7 DEF s, r
  <2>. QED BY <1>6, <2>1, <2>2, <2>3 DEF Onward
<1>9. \A j \in Ids \ {i} : Idle(w, j) => Idle(v, j)
  <2>. SUFFICES ASSUME NEW j \in Ids \ {i}, Idle(w, j) PROVE Idle(v, j) OBVIOUS
  <2>1. j # Nobody /\ interactions[j].actor \in Actors BY AxisFacts
  <2>. QED BY <1>6, <1>7, <2>1 DEF Idle, s, r
<1>10. \A b \in Actors :
         /\ v.actors[b].present = w.actors[b].present
         /\ Coming(v.actors[b]) =
              IF b = a /\ axis = "existence" THEN interactions[i].verb ELSE Coming(w.actors[b])
  BY <1>6, <1>7 DEF s, r
<1>11. Starting(w, v, i) BY <1>6, <1>8, <1>9, <1>10 DEF Starting
<1>. QED BY <1>11 DEF v

\* A dependent that fires does so when its delay is over.
LEMMA FireFollows ==
  ASSUME interactions \in Storyboards, tick \in Ticks, NEW i \in Ids, NEW holds, Fires(i, holds),
         sim \in Sims, NEW v, NEW turning, Onward(sim, v, turning), v.triggers[i].fired_at = tick
  PROVE  Follows(v, i)
<1>. SUFFICES ASSUME interactions[i].trigger.kind = "after"
              PROVE  /\ Reference(v, i) # Never
                     /\ tick >= interactions[i].trigger.delay + Reference(v, i)
  BY DEF Follows
<1>. DEFINE trigger == interactions[i].trigger
<1>1. trigger.delay \in Nat /\ trigger.ref \in Ids /\ trigger.event \in {"start", "end"}
      /\ tick \in Int
  BY ClipFacts, ConstantFacts
<1>2. ShouldFire(i, holds) \in {"fire", "force"} BY VerdictFacts DEF Fires
<1>3. Reference(sim, i) # Never /\ tick >= Reference(sim, i) + trigger.delay
  BY <1>2 DEF ShouldFire, Reference
<1>4. Reference(v, i) = Reference(sim, i) BY <1>3, ReferenceFacts
<1>5. Reference(sim, i) \in Int
  BY <1>1, ConstantFacts DEF Sims, TriggerStates, Times, Reference, ReferenceTime
<1>. QED BY <1>1, <1>3, <1>4, <1>5

\* Times are numbers, also those that are no time.
LEMMA TimeFacts ==
  ASSUME NEW w \in Sims, NEW i \in Ids
  PROVE  w.triggers[i].fired_at \in Int /\ w.triggers[i].ended_at \in Int
<1>1. w.triggers[i].fired_at \in Times /\ w.triggers[i].ended_at \in Times
  BY DEF Sims, TriggerStates
<1>2. \A t \in Ticks : t \in Int
  <2>. DEFINE first == -WarmupTicks
  <2>1. first \in Int /\ ClipTicks \in Int /\ Ticks = first..ClipTicks BY ConstantFacts
  <2>. HIDE DEF first
  <2>. QED BY <2>1
<1>. QED BY <1>1, <1>2, ConstantFacts DEF Times

\* An exist interaction that fires is the last to have done so.
LEMMA FireShows ==
  ASSUME interactions \in Storyboards, tick \in Ticks, NEW w \in Sims, NEW v, NEW i \in Ids,
         Onward(w, v, {i}), Fired(v, i), v.triggers[i].fired_at = tick, Axis(i) = "existence",
         NEW turned, NEW p, Today(w, tick, p, turned), p # "finished",
         \A j \in turned : j < i
  PROVE  Shows(v, interactions[i].actor, interactions[i].verb, tick)
<1>. DEFINE a == interactions[i].actor
<1>1. tick \in Int /\ i \in Int BY TickFacts, StoryFacts
<1>2. i \in Existing(v, a, tick) BY <1>1 DEF Existing
<1>3. \A j \in Existing(v, a, tick) :
        \/ v.triggers[j].fired_at < v.triggers[i].fired_at
        \/ v.triggers[j].fired_at = v.triggers[i].fired_at /\ j <= i
  <2>. TAKE j \in Existing(v, a, tick)
  <2>1. j \in Ids /\ v.triggers[j].fired_at <= tick BY DEF Existing
  <2>2. CASE j = i BY <1>1, <2>2
  <2>3. CASE j # i
    <3>1. v.triggers[j].fired_at = w.triggers[j].fired_at BY <2>1, <2>3 DEF Onward
    <3>2. w.triggers[j].fired_at = tick => j < i BY <2>1 DEF Today
    <3>3. w.triggers[j].fired_at \in Int BY <2>1, TimeFacts
    <3>4. CASE w.triggers[j].fired_at = tick
      <4>1. j < i /\ j \in Int BY <2>1, <3>2, <3>4, StoryFacts
      <4>2. j <= i BY <1>1, <4>1
      <4>. QED BY <3>1, <3>4, <4>2
    <3>5. CASE w.triggers[j].fired_at # tick
      <4>1. w.triggers[j].fired_at < tick BY <1>1, <2>1, <3>1, <3>3, <3>5
      <4>. QED BY <3>1, <4>1
    <3>. QED BY <3>4, <3>5
  <2>. QED BY <2>2, <2>3
<1>. QED BY <1>2, <1>3 DEF Shows

LEMMA FireTriggerLife ==
  ASSUME Life, NEW holds \in BOOLEAN, NEW feasible \in BOOLEAN, FireTrigger(holds, feasible)
  PROVE  Life'
<1>. DEFINE P == Turned(tick, phase, next)
            forced == Verdict(next, holds) = "force"
            a == interactions[next].actor
            v == Fire(sim, next, forced, feasible)
<1>1. OverIds("triggers", "until") /\ released_windows' = released_windows /\ sim' = v
      /\ sim.triggers[next].status = "pending" /\ Fires(next, holds) /\ forced \in BOOLEAN
  BY DEF FireTrigger, Pending
<1>2. /\ interactions \in Storyboards /\ tick \in Ticks /\ tick \in Int /\ next \in Ids
      /\ UNCHANGED <<interactions, tick>> /\ phase = "triggers" /\ tick >= 0
      /\ phase' \in {"triggers", "until"} /\ Counting(tick, phase')
      /\ Turned(tick, phase', next') = P \cup {next}
      /\ \A i \in P : i < next
  BY <1>1, TurnFacts
<1>3. Ordered(sim, tick, phase, next, released_windows) /\ IInv /\ sim \in Sims /\ Good(sim)
      /\ Lively(sim, tick) /\ released_windows \subseteq Ids
  BY DEF Life, IInv, Good, Progress, Ordered
<1>4. IInv' BY <1>3, FireTriggerStep
<1>5. Lively(v, tick)
  <2>1. Lively(sim', tick) BY <1>2, <1>3, FireTriggerLively
  <2>. QED BY <1>1, <2>1
<1>. HIDE DEF forced
<1>6. /\ Onward(sim, v, {next}) /\ Fired(v, next) /\ v.triggers[next].fired_at = tick
      /\ \A b \in Actors :
           /\ v.actors[b].present = sim.actors[b].present
           /\ Coming(v.actors[b]) =
                IF b = a /\ Axis(next) = "existence"
                  THEN interactions[next].verb ELSE Coming(sim.actors[b])
      /\ \A j \in Ids \ {next} : Idle(sim, j) => Idle(v, j)
  <2>1. Starting(sim, v, next) BY <1>1, <1>2, <1>3, FireOnward
  <2>. HIDE DEF v
  <2>. QED BY <2>1 DEF Starting
<1>. HIDE DEF v, P
<1>7. Punctual(sim, tick, P) /\ Today(sim, tick, phase, P) /\ Following(sim)
      /\ Scripted(sim, tick, phase, next) /\ Bounded(sim, tick, phase, next, released_windows)
  BY <1>2, <1>3 DEF Ordered, P
<1>8. {next} \in SUBSET Ids BY <1>2
<1>9. Punctual(v, tick, P \cup {next})
  <2>1. v.triggers[next].status = "fired" BY <1>6 DEF Fired
  <2>. QED BY <1>2, <1>6, <1>7, <1>8, <2>1, PunctualKeeps
<1>10. Following(v)
  <2>1. Follows(v, next) BY <1>1, <1>2, <1>3, <1>6, FireFollows
  <2>. QED BY <1>2, <1>6, <1>7, <1>8, <2>1, FollowingKeeps
<1>11. Today(v, tick, phase', P \cup {next}) BY <1>2, <1>6, <1>7, TodayKeeps
<1>12. Scripted(v, tick, phase', next')
  <2>. SUFFICES ASSUME NEW b \in Actors
                PROVE  /\ Shows(v, b, Coming(v.actors[b]), tick)
                       /\ Shows(v, b, Presence(v.actors[b]), tick - 1)
    BY <1>2 DEF Scripted
  <2>1. Shows(sim, b, Coming(sim.actors[b]), tick) /\ Shows(sim, b, Presence(sim.actors[b]), tick - 1)
    BY <1>2, <1>7 DEF Scripted
  <2>2. Shows(v, b, Presence(v.actors[b]), tick - 1)
    <3>1. \A i \in {next} : i \notin Existing(v, b, tick - 1) BY <1>2, <1>6 DEF Existing
    <3>2. Presence(v.actors[b]) = Presence(sim.actors[b]) BY <1>6 DEF Presence
    <3>. QED BY <1>6, <1>8, <2>1, <3>1, <3>2, ShowsKeeps
  <2>3. CASE b = a /\ Axis(next) = "existence"
    <3>1. Shows(v, a, interactions[next].verb, tick)
      BY <1>2, <1>3, <1>6, <1>7, <2>3, FireShows
    <3>2. Coming(v.actors[b]) = interactions[next].verb BY <1>6, <2>3
    <3>. QED BY <2>2, <2>3, <3>1, <3>2
  <2>4. CASE ~(b = a /\ Axis(next) = "existence")
    <3>1. \A i \in {next} : i \notin Existing(v, b, tick) BY <2>4 DEF Existing
    <3>2. Coming(v.actors[b]) = Coming(sim.actors[b]) BY <1>6, <2>4
    <3>3. Shows(v, b, Coming(sim.actors[b]), tick) BY <1>6, <1>8, <2>1, <3>1, ShowsKeeps
    <3>. QED BY <2>2, <3>2, <3>3
  <2>. QED BY <2>3, <2>4
<1>13. Bounded(v, tick, phase', next', released_windows)
  <2>1. \A i \in released_windows : Fired(v, i) /\ Idle(v, i)
    <3>. TAKE i \in released_windows
    <3>1. i \in Ids /\ Fired(sim, i) /\ Idle(sim, i) BY <1>3, <1>7 DEF Bounded
    <3>2. i # next BY <1>1, <3>1 DEF Fired
    <3>. QED BY <1>6, <3>1, <3>2 DEF Onward, Fired
  <2>. QED BY <1>2, <2>1 DEF Bounded
<1>14. Closing(v, phase') BY <1>2 DEF Closing
<1>15. Ordered(v, tick, phase', next', released_windows)
  BY <1>2, <1>5, <1>9, <1>10, <1>11, <1>12, <1>13, <1>14 DEF Ordered
<1>16. Ordered(sim', tick', phase', next', released_windows') BY <1>1, <1>2, <1>15
<1>. QED BY <1>2, <1>4, <1>16, LifeNext

\* At the end of a tick what has fired by it is all that has fired.
LEMMA ShowsOn ==
  ASSUME NEW w, NEW t \in Int, Lively(w, t), NEW a, NEW presence, Shows(w, a, presence, t)
  PROVE  Shows(w, a, presence, t + 1)
<1>1. Existing(w, a, t + 1) = Existing(w, a, t)
  <2>1. \A i \in Ids : Fired(w, i) => w.triggers[i].fired_at \in 0..t BY DEF Lively, Told
  <2>. QED BY <2>1 DEF Existing
<1>. QED BY <1>1 DEF Shows

LEMMA PlanAndApplyLife ==
  ASSUME Life, NEW handsBack \in BOOLEAN, NEW knockedDown \in BOOLEAN,
         NEW lateral \in {"runs", "done", "expired"},
         PlanAndApply(handsBack, lateral, knockedDown)
  PROVE  Life'
<1>. DEFINE P == Turned(tick, phase, next)
<1>1. Ordered(sim, tick, phase, next, released_windows) /\ IInv /\ Lively(sim, tick)
      /\ interactions \in Storyboards /\ tick \in Ticks /\ tick \in Int /\ next \in Actors
      /\ phase = "move" /\ released_windows \subseteq Ids
      /\ UNCHANGED <<interactions, released_windows>>
  BY ConstantFacts DEF Life, Ordered, IInv, Progress, AtActors, PlanAndApply
<1>2. \/ phase' = "move" /\ next' = next + 1 /\ tick' = tick
      \/ phase' = "collide" /\ next' = 1 /\ tick' = tick + 1 /\ next = NumActors
  BY <1>1, ConstantFacts DEF PlanAndApply, Continue
<1>3. IInv' BY <1>1, PlanAndApplyStep
<1>4. /\ Lively(sim', tick) /\ Calm(sim, sim')
      /\ \A b \in Actors \ {next} : /\ sim'.actors[b].present = sim.actors[b].present
                                    /\ sim'.actors[b].pending = sim.actors[b].pending
      /\ sim'.actors[next].pending = "none"
      /\ Presence(sim'.actors[next]) = Coming(sim.actors[next])
  BY <1>1, PlanLively
<1>5. Onward(sim, sim', {}) BY <1>4, CalmOnward
<1>6. P \cup {} = P /\ {} \in SUBSET Ids /\ \A i : i \notin {} OBVIOUS
<1>. HIDE DEF P
<1>7. Punctual(sim, tick, P) /\ Today(sim, tick, phase, P) /\ Following(sim)
      /\ Scripted(sim, tick, phase, next) /\ Bounded(sim, tick, phase, next, released_windows)
  BY <1>1 DEF Ordered, P
<1>8. Following(sim') BY <1>1, <1>5, <1>6, <1>7, FollowingKeeps
<1>9. Punctual(sim', tick, P)
  <2>1. Punctual(sim', tick, P \cup {}) BY <1>1, <1>5, <1>6, <1>7, PunctualKeeps
  <2>. QED BY <1>6, <2>1
<1>10. Today(sim', tick, phase', P)
  <2>1. Today(sim', tick, phase', P \cup {}) BY <1>1, <1>5, <1>7, TodayKeeps
  <2>. QED BY <1>6, <2>1
<1>11. \A i \in Ids : Idle(sim, i) => Idle(sim', i) BY <1>1, <1>4, IdleKeeps
<1>12. \A i \in released_windows : Fired(sim', i) /\ Idle(sim', i)
  BY <1>1, <1>4, <1>7, <1>11 DEF Bounded, Calm, Fired
<1>13. \A b \in Actors : Shows(sim', b, Coming(sim'.actors[b]), tick)
  <2>. TAKE b \in Actors
  <2>1. Coming(sim'.actors[b]) = Coming(sim.actors[b]) BY <1>4 DEF Coming, Presence
  <2>2. Shows(sim, b, Coming(sim.actors[b]), tick) BY <1>7 DEF Scripted
  <2>. QED BY <1>5, <1>6, <2>1, <2>2, ShowsKeeps
<1>14. \A b \in Actors : b <= next => sim'.actors[b].pending = "none"
  BY <1>1, <1>4, <1>7, ConstantFacts DEF Scripted
<1>15. Ordered(sim', tick', phase', next', released_windows')
  <2>1. CASE phase' = "move" /\ next' = next + 1 /\ tick' = tick
    <3>1. Turned(tick, phase', next') = P BY <1>1, <2>1 DEF Turned, P
    <3>2. Bounded(sim', tick, phase', next', released_windows)
      BY <1>1, <1>7, <1>11, <1>12, <2>1 DEF Bounded
    <3>3. Scripted(sim', tick, phase', next')
      BY <1>1, <1>13, <1>14, <2>1, ConstantFacts DEF Scripted
    <3>4. Counting(tick, phase') /\ Closing(sim', phase') BY <2>1 DEF Counting, Closing
    <3>5. Ordered(sim', tick, phase', next', released_windows)
      BY <1>4, <1>8, <1>9, <1>10, <3>1, <3>2, <3>3, <3>4 DEF Ordered
    <3>. QED BY <1>1, <2>1, <3>5
  <2>2. CASE phase' = "collide" /\ next' = 1 /\ tick' = tick + 1 /\ next = NumActors
    <3>. DEFINE t == tick + 1
    <3>1. Turned(t, phase', next') = {}
      <4>1. t \in Int BY <1>1
      <4>2. phase' \in Phases /\ phase' \in {"collide", "complete", "windows"}
        BY <2>2 DEF Phases
      <4>. HIDE DEF t
      <4>. QED BY <4>1, <4>2, NotTurned
    <3>2. Bounded(sim', t, phase', next', released_windows)
      BY <1>12, <2>2 DEF Bounded
    <3>3. t \in Int /\ tick <= t /\ t - 1 = tick BY <1>1
    <3>4. Lively(sim', t) BY <1>1, <1>4, <3>3, StaysLively
    <3>5. Punctual(sim', t, {})
      <4>1. ASSUME NEW i \in Ids, Excused(sim', tick, i) PROVE Excused(sim', t, i)
        <5>1. interactions[i].window.end \in Int BY <1>1, ClipFacts
        <5>. QED BY <1>1, <3>3, <4>1, <5>1 DEF Excused
      <4>. HIDE DEF t
      <4>. QED BY <1>9, <4>1 DEF Punctual
    <3>6. Today(sim', t, phase', {})
      <4>1. \A i \in Ids : sim'.triggers[i].fired_at # t
        <5>. TAKE i \in Ids
        <5>1. Told(sim', i, tick) BY <1>4 DEF Lively
        <5>2. sim'.triggers[i].status \in {"pending", "fired", "skipped"}
          <6>1. sim.triggers[i].status \in {"pending", "fired", "skipped"}
            BY <1>1 DEF IInv, Good, Sims, TriggerStates
          <6>. QED BY <1>4, <6>1 DEF Calm
        <5>3. CASE Fired(sim', i) BY <1>1, <5>1, <5>3 DEF Told
        <5>4. CASE ~Fired(sim', i)
          <6>1. sim'.triggers[i].fired_at = Never BY <5>1, <5>2, <5>4 DEF Told, Timeless, Fired
          <6>2. Never < t BY <1>1, ConstantFacts DEF Never
          <6>. QED BY <1>1, <6>1, <6>2, ConstantFacts
        <5>. QED BY <5>3, <5>4
      <4>. QED BY <4>1 DEF Today
    <3>7. Scripted(sim', t, phase', next')
      <4>. SUFFICES ASSUME NEW b \in Actors
                    PROVE  /\ Shows(sim', b, Coming(sim'.actors[b]), t)
                           /\ Shows(sim', b, Presence(sim'.actors[b]), t - 1)
        BY <2>2 DEF Scripted
      <4>1. sim'.actors[b].pending = "none" BY <1>14, <2>2, ConstantFacts
      <4>2. Coming(sim'.actors[b]) = Presence(sim'.actors[b]) BY <4>1 DEF Coming
      <4>3. Shows(sim', b, Coming(sim'.actors[b]), tick) BY <1>13
      <4>4. Shows(sim', b, Coming(sim'.actors[b]), t) BY <1>1, <1>4, <4>3, ShowsOn
      <4>. QED BY <3>3, <4>2, <4>3, <4>4
    <3>8. Counting(t, phase') /\ Closing(sim', phase') BY <2>2 DEF Counting, Closing
    <3>. HIDE DEF t
    <3>9. Ordered(sim', t, phase', next', released_windows)
      BY <1>8, <3>1, <3>2, <3>4, <3>5, <3>6, <3>7, <3>8 DEF Ordered
    <3>. QED BY <1>1, <2>2, <3>9 DEF t
  <2>. QED BY <1>2, <2>1, <2>2
<1>. QED BY <1>1, <1>3, <1>15, LifeNext

LEMMA FinishOnward ==
  ASSUME NEW w \in Sims, NEW v, NEW t, Lively(w, t), Closed(w, v),
         interactions \in Storyboards, Good(w)
  PROVE  Onward(w, v, {i \in Ids : w.triggers[i].status = "pending"})
<1>. DEFINE turning == {i \in Ids : w.triggers[i].status = "pending"}
<1>1. \A i \in Ids : w.triggers[i] \in TriggerStates BY DEF Sims
<1>2. ASSUME NEW i \in turning
      PROVE  v.triggers[i].fired_at = w.triggers[i].fired_at
             /\ v.triggers[i].ended_at = w.triggers[i].ended_at
  <2>1. v.triggers[i] = [w.triggers[i] EXCEPT !.status = "skipped"] BY DEF Closed
  <2>. QED BY <1>1, <2>1 DEF TriggerStates
<1>3. ASSUME NEW i \in Ids \ turning
      PROVE  /\ v.triggers[i].status = w.triggers[i].status
             /\ v.triggers[i].fired_at = w.triggers[i].fired_at
             /\ v.triggers[i].ended_at # w.triggers[i].ended_at =>
                  w.triggers[i].ended_at = Never /\ v.triggers[i].ended_at = tick
  <2>. DEFINE a == interactions[i].actor
  <2>1. w.triggers[i].status # "pending" OBVIOUS
  <2>2. CASE w.actors[a].cmd["lateral"] = i
    <3>1. a \in Actors /\ i # Nobody BY AxisFacts
    <3>2. w.events[i] # <<>> BY <2>2, <3>1, HeldFacts, ChargeFacts
    <3>. QED BY <2>1, <2>2, <3>2 DEF Closed, Ended
  <2>3. CASE w.actors[a].cmd["lateral"] # i BY <2>1, <2>3 DEF Closed
  <2>. QED BY <2>2, <2>3
<1>4. \A b \in Actors : w.actors[b].crash => v.actors[b].crash
  BY ClosedActors
<1>5. \A i \in turning : i \in Ids /\ w.triggers[i].status = "pending" OBVIOUS
<1>. HIDE DEF turning
<1>6. Onward(w, v, turning) BY <1>2, <1>3, <1>4, <1>5 DEF Onward
<1>. QED BY <1>6 DEF turning

LEMMA FinishLife ==
  ASSUME Life, FinishNeverFired
  PROVE  Life'
<1>. DEFINE turning == {i \in Ids : sim.triggers[i].status = "pending"}
<1>1. /\ Ordered(sim, tick, phase, next, released_windows) /\ IInv /\ Lively(sim, tick)
      /\ interactions \in Storyboards /\ tick \in Ticks /\ tick \in Int /\ sim \in Sims /\ Good(sim)
      /\ released_windows \subseteq Ids
      /\ UNCHANGED <<interactions, tick, next, released_windows>>
      /\ phase = "finish" /\ phase' = "finished"
  BY LifeFacts DEF FinishNeverFired
<1>2. IInv' /\ Closed(sim, sim') BY <1>1, FinishStep, FinishCloses
<1>3. Lively(sim', tick) BY <1>1, <1>2, ClosedLively
<1>4. Onward(sim, sim', turning) BY <1>1, <1>2, FinishOnward
<1>5. turning \in SUBSET Ids /\ \A i \in turning : sim'.triggers[i].status = "skipped"
  <2>1. ASSUME NEW i \in turning PROVE sim'.triggers[i].status = "skipped"
    <3>1. sim'.triggers[i] = [sim.triggers[i] EXCEPT !.status = "skipped"] BY <1>2 DEF Closed
    <3>2. sim.triggers[i] \in TriggerStates BY <1>1 DEF Sims
    <3>. QED BY <3>1, <3>2 DEF TriggerStates
  <2>2. turning \in SUBSET Ids OBVIOUS
  <2>. HIDE DEF turning
  <2>. QED BY <2>1, <2>2
<1>6. /\ Following(sim) /\ Scripted(sim, tick, phase, next) /\ Counting(tick, phase)
      /\ Bounded(sim, tick, phase, next, released_windows)
  BY <1>1 DEF Ordered
<1>7. \A i \in Ids \ turning : sim'.triggers[i].status = sim.triggers[i].status
  BY <1>4 DEF Onward
<1>8. Closing(sim', phase')
  <2>1. \A i \in Ids : sim'.triggers[i].status # "pending" BY <1>5, <1>7
  <2>2. \A a \in Actors : sim'.actors[a].cmd["lateral"] = Nobody
    BY <1>1, <1>2, ClosedActors
  <2>3. \A i \in Ids : interactions[i].actor \in Actors /\ i # Nobody BY <1>1, AxisFacts
  <2>. QED BY <2>1, <2>2, <2>3 DEF Closing
<1>. HIDE DEF turning
<1>9. Following(sim') BY <1>1, <1>4, <1>5, <1>6, FollowingKeeps DEF Fired
<1>10. \A a \in Actors : /\ sim'.actors[a].cmd["longitudinal"] = sim.actors[a].cmd["longitudinal"]
                         /\ sim'.actors[a].present = sim.actors[a].present
                         /\ sim'.actors[a].pending = sim.actors[a].pending
  BY <1>1, <1>2, ClosedActors
<1>11. Scripted(sim', tick, phase', next')
  <2>1. \A a, b, t : Shows(sim, a, b, t) => Shows(sim', a, b, t)
    <3>. TAKE a, b, t
    <3>1. \A i \in turning : i \notin Existing(sim', a, t) BY <1>5 DEF Existing, Fired
    <3>. QED BY <1>4, <1>5, <3>1, ShowsKeeps
  <2>. QED BY <1>1, <1>6, <1>10, <2>1 DEF Scripted, Coming, Presence
<1>12. Bounded(sim', tick, phase', next', released_windows)
  <2>1. \A i \in released_windows : Fired(sim', i) /\ Idle(sim', i)
    <3>. TAKE i \in released_windows
    <3>1. i \in Ids /\ Fired(sim, i) /\ Idle(sim, i) BY <1>1, <1>6 DEF Bounded
    <3>2. Fired(sim', i)
      <4>1. i \notin turning BY <3>1 DEF turning, Fired
      <4>. QED BY <1>7, <3>1, <4>1 DEF Fired
    <3>3. interactions[i].actor \in Actors BY <1>1, <3>1, AxisFacts
    <3>. QED BY <1>10, <3>1, <3>2, <3>3 DEF Idle
  <2>. QED BY <1>1, <2>1 DEF Bounded
<1>13. Counting(tick, phase') /\ Today(sim', tick, phase', Turned(tick, phase', next'))
  BY <1>1, <1>6 DEF Counting, Today
<1>14. Ordered(sim', tick, phase', next', released_windows)
  BY <1>1, <1>3, <1>8, <1>9, <1>11, <1>12, <1>13 DEF Ordered
<1>15. Ordered(sim', tick', phase', next', released_windows') BY <1>1, <1>14
<1>. QED BY <1>1, <1>2, <1>15, LifeNext

LEMMA InitLife == Init => Life
<1>. SUFFICES ASSUME Init PROVE Life OBVIOUS
<1>1. IInv /\ interactions \in Storyboards BY InitInvariant DEF Init
<1>2. /\ tick = -WarmupTicks /\ phase = "collide" /\ next = 1 /\ released_windows = {}
      /\ \A i \in Ids : sim.triggers[i] = FreshTrigger /\ sim.events[i] = <<>>
      /\ \A a \in Actors : sim.actors[a] = FreshActor(a)
  BY DEF Init
<1>3. tick \in Int /\ tick \in Ticks /\ tick # Never
  <2>1. tick \in Ticks BY <1>1 DEF IInv, Progress
  <2>. QED BY <2>1, TickFacts, ConstantFacts
<1>4. \A i \in Ids : sim.triggers[i].status = "pending" /\ Timeless(sim, i)
  BY <1>2 DEF FreshTrigger, Timeless
<1>5. \A i \in Ids : ~Fired(sim, i) /\ i # Nobody BY <1>1, <1>4, AxisFacts DEF Fired
<1>6. \A i \in Ids : Told(sim, i, tick) /\ Served(sim, i)
  BY <1>2, <1>4, <1>5 DEF Told, Served
<1>7. \A a \in Actors :
        /\ sim.actors[a].cmd = [x \in Held |-> Nobody]
        /\ sim.actors[a].until = [x \in Axes |-> Nobody]
        /\ sim.actors[a].cruise = Nobody /\ sim.actors[a].pending = "none"
        /\ sim.actors[a].timed <=> a \in StartTracked
        /\ sim.actors[a].present <=> a \in StartPresent
  <2>. TAKE a \in Actors
  <2>1. sim.actors[a] = FreshActor(a) BY <1>2
  <2>2. /\ sim.actors[a].cmd = [x \in Held |-> Nobody]
        /\ sim.actors[a].until = [x \in Axes |-> Nobody]
        /\ sim.actors[a].cruise = Nobody /\ sim.actors[a].pending = "none"
    BY <2>1 DEF FreshActor
  <2>3. (sim.actors[a].timed <=> a \in StartTracked) /\ (sim.actors[a].present <=> a \in StartPresent)
    <3>. DEFINE timed == a \in StartTracked
                present == a \in StartPresent
    <3>1. sim.actors[a] =
            [cmd |-> [x \in Held |-> Nobody], until |-> [x \in Axes |-> Nobody],
             completed |-> FALSE, cruise |-> Nobody, prior |-> Nobody,
             present |-> present, pending |-> "none", timed |-> timed, crash |-> FALSE]
      BY <2>1 DEF FreshActor
    <3>. HIDE DEF timed, present
    <3>2. sim.actors[a].timed = timed /\ sim.actors[a].present = present BY <3>1
    <3>. QED BY <3>2 DEF timed, present
  <2>. QED BY <2>2, <2>3
<1>8. \A a \in Actors : Commands(sim, a) BY <1>7 DEF Commands
<1>9. \A a \in Actors : Cruising(sim, a)
  <2>. TAKE a \in Actors
  <2>1. sim.actors[a].timed => OnTrack(sim, a) BY <1>7 DEF OnTrack
  <2>2. sim.actors[a].cmd["longitudinal"] = Nobody BY <1>7, HeldFacts
  <2>3. \A axis \in Axes : sim.actors[a].until[axis] = Nobody BY <1>7
  <2>4. "longitudinal" \in Axes BY HeldFacts
  <2>5. sim.actors[a].cruise \notin Ids BY <1>5, <1>7
  <2>. QED BY <2>1, <2>2, <2>3, <2>4, <2>5 DEF Cruising
<1>10. Turned(tick, phase, next) = {} BY <1>2, <1>3, NotTurned DEF Phases
<1>11. Lively(sim, tick) BY <1>6, <1>8, <1>9 DEF Lively
<1>12. Scripted(sim, tick, phase, next)
  <2>1. \A a, t : Existing(sim, a, t) = {} BY <1>5 DEF Existing
  <2>2. \A a \in Actors :
          /\ Presence(sim.actors[a]) = (IF a \in StartPresent THEN "present" ELSE "absent")
          /\ Coming(sim.actors[a]) = (IF a \in StartPresent THEN "present" ELSE "absent")
    BY <1>7 DEF Presence, Coming
  <2>. QED BY <1>2, <2>1, <2>2 DEF Scripted, Shows
<1>13. Punctual(sim, tick, {}) BY <1>4 DEF Punctual
<1>14. Following(sim) BY <1>5 DEF Following
<1>15. Today(sim, tick, phase, {}) BY <1>3, <1>4 DEF Today, Timeless
<1>16. Counting(tick, phase) /\ Closing(sim, phase) /\ Bounded(sim, tick, phase, next, released_windows)
  BY <1>2 DEF Counting, Closing, Bounded
<1>. QED BY <1>1, <1>10, <1>11, <1>12, <1>13, <1>14, <1>15, <1>16 DEF Life, Ordered

LEMMA NextLife == Life /\ [Next]_vars => Life'
<1>. SUFFICES ASSUME Life, [Next]_vars PROVE Life' OBVIOUS
<1>1. CASE \E collides \in BOOLEAN : DetectCollisions(collides)
  BY <1>1, DetectCollisionsLife
<1>2. CASE \E reached \in BOOLEAN : EvaluateLongitudinalCompletions(reached)
  BY <1>2, CompletionsLife
<1>3. CASE EvaluateWindowEnds("windows", "triggers")
  BY <1>3, WindowEndsLife DEF Passes
<1>4. CASE \E holds \in BOOLEAN, commit \in {"ready", "wait", "missed"} :
             HoldTrigger(holds, commit) \/ SkipTrigger(holds, commit)
  BY <1>4, HoldTriggerLife, SkipTriggerLife
<1>5. CASE \E holds, feasible \in BOOLEAN : FireTrigger(holds, feasible)
  BY <1>5, FireTriggerLife
<1>6. CASE \E due \in SUBSET Axes : EvaluateUntil(due)
  BY <1>6, EvaluateUntilLife
<1>7. CASE EvaluateWindowEnds("windows again", IF tick < ClipTicks THEN "move" ELSE "finish")
  <2>. DEFINE after == IF tick < ClipTicks THEN "move" ELSE "finish"
  <2>1. EvaluateWindowEnds("windows again", after) BY <1>7
  <2>2. after = IF tick < ClipTicks THEN "move" ELSE "finish" OBVIOUS
  <2>. HIDE DEF after
  <2>3. Passes("windows again", after) BY <2>2 DEF Passes
  <2>. QED BY <2>1, <2>3, WindowEndsLife
<1>8. CASE \E handsBack, knockedDown \in BOOLEAN, lateral \in {"runs", "done", "expired"} :
             PlanAndApply(handsBack, lateral, knockedDown)
  BY <1>8, PlanAndApplyLife
<1>9. CASE FinishNeverFired
  BY <1>9, FinishLife
<1>10. CASE UNCHANGED vars
  <2>1. IInv' BY <1>10, NextInvariant DEF Life
  <2>2. Ordered(sim, tick, phase, next, released_windows) BY DEF Life
  <2>3. Ordered(sim', tick', phase', next', released_windows') BY <1>10, <2>2 DEF vars
  <2>. QED BY <1>10, <2>1, <2>3, LifeNext DEF vars
<1>. QED BY <1>1, <1>2, <1>3, <1>4, <1>5, <1>6, <1>7, <1>8, <1>9, <1>10 DEF Next, Finished

LEMMA LifeAlways == Spec => []Life
BY InitLife, NextLife, PTL DEF Spec

-----------------------------------------------------------------------------
(* The theorems.                                                           *)

LEMMA CountSum ==
  ASSUME NEW s \in Seq(Kinds)
  PROVE  /\ Count(s, {"skipped", "completed", "aborted"}) =
              Count(s, {"skipped"}) + Count(s, {"completed", "aborted"})
<1>. DEFINE S == {n \in DOMAIN s : s[n] \in {"skipped"}}
            E == {n \in DOMAIN s : s[n] \in {"completed", "aborted"}}
            U == {n \in DOMAIN s : s[n] \in {"skipped", "completed", "aborted"}}
            n == Len(s)
<1>1. n \in Nat /\ DOMAIN s = 1..n OBVIOUS
<1>2. IsFiniteSet(1..n) BY <1>1, FS_Interval
<1>3. S \in SUBSET (1..n) /\ E \in SUBSET (1..n) BY <1>1
<1>4. IsFiniteSet(S) /\ IsFiniteSet(E) BY <1>2, <1>3, FS_Subset
<1>5. U = S \cup E /\ S \cap E = {} OBVIOUS
<1>6. Count(s, {"skipped"}) = Cardinality(S) /\ Count(s, {"completed", "aborted"}) = Cardinality(E)
      /\ Count(s, {"skipped", "completed", "aborted"}) = Cardinality(U)
  BY DEF Count
<1>. HIDE DEF S, E, U
<1>7. Cardinality(S \cup E) = Cardinality(S) + Cardinality(E) - Cardinality(S \cap E)
  BY <1>4, FS_Union
<1>8. Cardinality(S \cap E) = 0 BY <1>5, FS_EmptySet
<1>9. Cardinality(S) \in Nat /\ Cardinality(E) \in Nat BY <1>4, FS_CardinalityType
<1>. QED BY <1>5, <1>6, <1>7, <1>8, <1>9

\* In every clip an interaction starts at most once, is never both fired and skipped
\* and ends at most once, whatever of completion, until clause, window, pre-emption,
\* collision and the end of the clip comes to it; at the end it has started or been
\* skipped, and a lateral one has ended.
THEOREM LifecycleOnceAlways == Spec => []LifecycleOnce
<1>1. Life => LifecycleOnce
  <2>. SUFFICES ASSUME Life PROVE LifecycleOnce OBVIOUS
  <2>1. \A i, kinds : Emitted(i, kinds) = Count(sim.events[i], kinds) BY DEF Emitted, Count
  <2>2. \A i \in Ids :
          Count(sim.events[i], {"skipped", "completed", "aborted"}) = Skips(sim, i) + Overs(sim, i)
    <3>1. \A i \in Ids : sim.events[i] \in Seq(Kinds) BY DEF Life, IInv, Good, Sims
    <3>. QED BY <3>1, CountSum DEF Skips, Overs
  <2>. SUFFICES ASSUME NEW i \in Ids
                PROVE  /\ Starts(sim, i) <= 1 /\ Overs(sim, i) <= 1
                       /\ sim.events[i] # <<>> => Head(sim.events[i]) \in {"fired", "skipped"}
                       /\ Skips(sim, i) = 1 => Len(sim.events[i]) = 1
                       /\ phase = "finished" =>
                            /\ Starts(sim, i) = 1
                            /\ Axis(i) = "lateral" /\ ~sim.actors[interactions[i].actor].crash =>
                                 Skips(sim, i) + Overs(sim, i) = 1
    BY <2>1, <2>2 DEF LifecycleOnce, Starts, Skips, Overs
  <2>3. Told(sim, i, tick) /\ Served(sim, i) /\ Closing(sim, phase) BY DEF Life, Ordered, Lively
  <2>4. sim.triggers[i].status \in {"pending", "fired", "skipped"}
    BY DEF Life, IInv, Good, Sims, TriggerStates
  <2>5. CASE sim.triggers[i].status = "pending"
    <3>1. sim.events[i] = <<>> BY <2>3, <2>5 DEF Told
    <3>2. Starts(sim, i) = 0 /\ Overs(sim, i) = 0 /\ Skips(sim, i) = 0
      BY <3>1, CountEmpty DEF Starts, Overs, Skips
    <3>3. phase # "finished" BY <2>3, <2>5 DEF Closing
    <3>. QED BY <3>1, <3>2, <3>3
  <2>6. CASE sim.triggers[i].status = "skipped"
    <3>1. sim.events[i] = <<"skipped">> BY <2>3, <2>6 DEF Told
    <3>2. "skipped" \in Kinds BY DEF Kinds
    <3>3. \A kinds : Count(<<"skipped">>, kinds) = IF "skipped" \in kinds THEN 1 ELSE 0
      BY <3>2, OneEvent
    <3>4. Starts(sim, i) = 1 /\ Overs(sim, i) = 0 /\ Skips(sim, i) = 1
      BY <3>1, <3>3 DEF Starts, Overs, Skips
    <3>5. Len(<<"skipped">>) = 1 /\ Head(<<"skipped">>) = "skipped" OBVIOUS
    <3>. QED BY <3>1, <3>4, <3>5
  <2>7. CASE sim.triggers[i].status = "fired"
    <3>1. Fired(sim, i) BY <2>7 DEF Fired
    <3>2. Head(sim.events[i]) = "fired" /\ Starts(sim, i) = 1 /\ Skips(sim, i) = 0
          /\ Overs(sim, i) \in {0, 1}
      BY <2>3, <3>1, SMTT(30) DEF Told
    <3>3. phase = "finished" /\ Axis(i) = "lateral" /\ ~sim.actors[interactions[i].actor].crash
          => Overs(sim, i) = 1
      BY <2>3, <3>1, HeldFacts DEF Served, Closing
    <3>. QED BY <3>2, <3>3
  <2>. QED BY <2>4, <2>5, <2>6, <2>7
<1>. QED BY <1>1, LifeAlways, PTL

\* In every clip the command in charge of an axis is a started, unfinished interaction
\* of that actor and axis, or a gap that was reached; and what has started and not
\* ended is in charge, unless a crash or a track took the body.
THEOREM RunningInCharge == Spec => []RunningIsInCharge
<1>1. Life => RunningIsInCharge
  <2>. SUFFICES ASSUME Life PROVE RunningIsInCharge OBVIOUS
  <2>1. interactions \in Storyboards /\ Lively(sim, tick) BY DEF Life, Ordered, IInv, Progress
  <2>2. ASSUME NEW a \in Actors, NEW axis \in Held, sim.actors[a].cmd[axis] # Nobody
        PROVE  InCharge(a, axis, sim.actors[a].cmd[axis])
    <3>1. Commands(sim, a) BY <2>1 DEF Lively
    <3>. QED BY <2>2, <3>1 DEF Commands, InCharge, Followed, Fired
  <2>3. ASSUME NEW i \in Ids, Axis(i) \in Held, Fired(sim, i), ~Ended(sim, i)
        PROVE  \/ sim.actors[interactions[i].actor].cmd[Axis(i)] = i
               \/ BodyTaken(interactions[i].actor)
    <3>1. Served(sim, i) BY <2>1 DEF Lively
    <3>. QED BY <2>3, <3>1 DEF Served, BodyTaken, OnTrack, Fired
  <2>. QED BY <2>2, <2>3 DEF RunningIsInCharge, Fired
<1>. QED BY <1>1, LifeAlways, PTL

\* In every clip, what an until clause took back is neither the cruise speed of an
\* actor nor the one a later command returns to.
THEOREM TakenBack == Spec => []TakenBackStaysBack
<1>1. Life => TakenBackStaysBack
  <2>. SUFFICES ASSUME Life, NEW a \in Actors
                PROVE  LET was == sim.actors[a]
                           Back(i) == i \in Ids => Emitted(i, {"until"}) = 0
                       IN  /\ Back(was.cruise)
                           /\ was.cmd["longitudinal"] # Nobody => Back(was.prior)
    BY DEF TakenBackStaysBack
  <2>1. Cruising(sim, a) BY DEF Life, Ordered, Lively
  <2>2. \A i : Backs(sim, i) = Emitted(i, {"until"}) BY DEF Backs, Emitted, Count
  <2>. QED BY <2>1, <2>2 DEF Cruising, Target
<1>. QED BY <1>1, LifeAlways, PTL

\* In every clip an interaction starts inside its window, from t = 0 on, and no speed
\* or gap command acts over a step that begins at or after the end of its window.
THEOREM WindowsBound == Spec => []WindowBounds
<1>1. Life => WindowBounds
  <2>. SUFFICES ASSUME Life, NEW i \in Ids
                PROVE  LET fired == sim.triggers[i].fired_at
                           window == interactions[i].window
                       IN  /\ fired # Never =>
                                window.start <= fired /\ fired < window.end /\ fired >= 0
                           /\ phase \in {"move", "finish"} /\ tick >= window.end =>
                                sim.actors[interactions[i].actor].cmd["longitudinal"] # i
    BY DEF WindowBounds
  <2>1. Told(sim, i, tick) /\ Bounded(sim, tick, phase, next, released_windows)
    BY DEF Life, Ordered, Lively
  <2>2. sim.triggers[i].status \in {"pending", "fired", "skipped"}
    BY DEF Life, IInv, Good, Sims, TriggerStates
  <2>3. sim.triggers[i].fired_at # Never => Fired(sim, i)
    BY <2>1, <2>2 DEF Told, Timeless, Fired
  <2>4. tick \in Int BY LifeFacts
  <2>5. sim.triggers[i].fired_at # Never =>
          /\ sim.triggers[i].fired_at \in 0..tick
          /\ interactions[i].window.start <= sim.triggers[i].fired_at
          /\ sim.triggers[i].fired_at < interactions[i].window.end
    BY <2>1, <2>3 DEF Told
  <2>6. phase \in {"move", "finish"} /\ tick >= interactions[i].window.end => Idle(sim, i)
    BY <2>1 DEF Bounded
  <2>. QED BY <2>4, <2>5, <2>6 DEF Idle
<1>. QED BY <1>1, LifeAlways, PTL

LEMMA EvaluatedTurned ==
  ASSUME Evaluated
  PROVE  Turned(tick, phase, next) = Ids /\ phase # "finished"
BY DEF Evaluated, Turned

\* In every clip a deadline inside the window is met: the interaction waits no longer,
\* and with ifNever fire it has started unless its actor had crashed.
THEOREM DeadlinesMet == Spec => []DeadlineMet
<1>1. Life => DeadlineMet
  <2>. SUFFICES ASSUME Life, NEW i \in Ids, Evaluated, interactions[i].trigger.kind = "when",
                       interactions[i].verb # "route", interactions[i].trigger.byLatest <= tick,
                       WindowOpen(i)
                PROVE  /\ ~Pending(i)
                       /\ interactions[i].trigger.ifNever = "fire"
                          /\ ~sim.actors[interactions[i].actor].crash =>
                            sim.triggers[i].status = "fired"
    BY DEF DeadlineMet
  <2>1. tick \in Int /\ interactions \in Storyboards BY LifeFacts
  <2>2. Punctual(sim, tick, Ids) BY EvaluatedTurned DEF Life, Ordered
  <2>3. interactions[i].trigger.byLatest \in Int /\ interactions[i].window.end \in Int
    BY <2>1, ClipFacts
  <2>4. ~Pending(i)
    <3>. SUFFICES ASSUME Pending(i) PROVE FALSE OBVIOUS
    <3>1. Waiting(sim, tick, i) BY <2>2 DEF Punctual, Pending, WindowOpen
    <3>. QED BY <2>1, <2>3, <3>1 DEF Waiting
  <2>5. sim.triggers[i].status = "skipped" => Excused(sim, tick, i) BY <2>2 DEF Punctual
  <2>6. sim.triggers[i].status \in {"pending", "fired", "skipped"}
    BY DEF Life, IInv, Good, Sims, TriggerStates
  <2>. QED BY <2>1, <2>3, <2>4, <2>5, <2>6 DEF Excused, Pending, WindowOpen
<1>. QED BY <1>1, LifeAlways, PTL

\* In every clip a dependent starts no earlier than its delay after the event that it
\* waits for, and at most one tick later than that.
THEOREM DependentsFollowAlways == Spec => []DependentsFollow
<1>1. Life => DependentsFollow
  <2>. SUFFICES ASSUME Life, NEW i \in Ids, interactions[i].trigger.kind = "after"
                PROVE  /\ sim.triggers[i].status = "fired" =>
                            Awaited(i) /\ sim.triggers[i].fired_at >= Due(i)
                       /\ Evaluated /\ Awaited(i) /\ tick > Due(i) /\ WindowOpen(i)
                          /\ interactions[i].verb # "route" => ~Pending(i)
    BY DEF DependentsFollow
  <2>1. tick \in Int /\ interactions \in Storyboards /\ sim \in Sims
    BY LifeFacts
  <2>2. interactions[i].trigger.ref \in Ids /\ interactions[i].trigger.delay \in Nat
        /\ interactions[i].trigger.event \in {"start", "end"}
    BY <2>1, ClipFacts
  <2>3. (Awaited(i) <=> Reference(sim, i) # Never)
        /\ Due(i) = interactions[i].trigger.delay + Reference(sim, i)
    BY DEF Awaited, Due, Reference
  <2>4. Reference(sim, i) \in Int
    BY <2>1, <2>2, ConstantFacts DEF Sims, TriggerStates, Times, Reference, ReferenceTime
  <2>5. Fired(sim, i) => Follows(sim, i) BY DEF Life, Ordered, Following
  <2>6. ASSUME Evaluated, Awaited(i), tick > Due(i), WindowOpen(i),
               interactions[i].verb # "route", Pending(i)
        PROVE  FALSE
    <3>1. Punctual(sim, tick, Ids) BY <2>6, EvaluatedTurned DEF Life, Ordered
    <3>2. Waiting(sim, tick, i) BY <2>6, <3>1 DEF Punctual, Pending, WindowOpen
    <3>. QED BY <2>1, <2>2, <2>3, <2>4, <2>6, <3>2 DEF Waiting
  <2>. QED BY <2>3, <2>5, <2>6 DEF Follows, Fired
<1>. QED BY <1>1, LifeAlways, PTL

\* In every clip an actor is present as the last exist interaction of the ticks before
\* this one left it, the later id deciding within a tick, and as the clip began
\* without any.
THEOREM PresentAlways == Spec => []PresentAsScripted
<1>1. Life => PresentAsScripted
  <2>. SUFFICES ASSUME Life, phase # "move", NEW a \in Actors
                PROVE  Presence(sim.actors[a]) =
                         IF ExistFired(a) = {} THEN (IF a \in StartPresent THEN "present" ELSE "absent")
                         ELSE interactions[Latest(a)].verb
    BY DEF PresentAsScripted
  <2>. DEFINE S == ExistFired(a)
              Last(i) == \A j \in S :
                LET ti == sim.triggers[i].fired_at
                    tj == sim.triggers[j].fired_at
                IN  tj < ti \/ (tj = ti /\ j <= i)
  <2>1. tick \in Int /\ interactions \in Storyboards /\ sim \in Sims /\ Lively(sim, tick)
    BY LifeFacts
  <2>2. \A i \in Ids : Fired(sim, i) => sim.triggers[i].fired_at \in Int
    BY <2>1 DEF Lively, Told
  <2>3. Existing(sim, a, tick - 1) = S
    BY <2>1, <2>2 DEF Existing, ExistFired, Fired
  <2>4. Shows(sim, a, Presence(sim.actors[a]), tick - 1) BY DEF Life, Ordered, Scripted
  <2>5. CASE S = {} BY <2>3, <2>4, <2>5 DEF Shows
  <2>6. CASE S # {}
    <3>1. PICK i \in S : Presence(sim.actors[a]) = interactions[i].verb /\ Last(i)
      BY <2>3, <2>4, <2>6 DEF Shows
    <3>2. \A j \in S : j \in Ids /\ j \in Int /\ sim.triggers[j].fired_at \in Int
      BY <2>1, <2>2, StoryFacts DEF ExistFired, Fired
    <3>3. \A j \in S : Last(j) => j = i
      <4>. SUFFICES ASSUME NEW j \in S, Last(j) PROVE j = i OBVIOUS
      <4>1. \/ sim.triggers[i].fired_at < sim.triggers[j].fired_at
            \/ sim.triggers[i].fired_at = sim.triggers[j].fired_at /\ i <= j
        OBVIOUS
      <4>2. \/ sim.triggers[j].fired_at < sim.triggers[i].fired_at
            \/ sim.triggers[j].fired_at = sim.triggers[i].fired_at /\ j <= i
        BY <3>1
      <4>. QED BY <3>2, <4>1, <4>2
    <3>4. Latest(a) = CHOOSE j \in S : Last(j) BY DEF Latest
    <3>. HIDE DEF S, Last
    <3>5. Latest(a) = i BY <3>1, <3>3, <3>4
    <3>. QED BY <2>6, <3>1, <3>5 DEF S
  <2>. QED BY <2>5, <2>6
<1>. QED BY <1>1, LifeAlways, PTL

=============================================================================
