--------------------------- MODULE MCInteractions ---------------------------
(***************************************************************************)
(* Instances of Interactions for TLC: two actors, clips of two or three    *)
(* interactions in which they meet on an axis, at a tick or in a chain.    *)
(***************************************************************************)
EXTENDS Interactions, TLC

Always == [start |-> Never, end |-> ClipTicks + 1]
Early == [start |-> 0, end |-> 1]

At(t) == [kind |-> "fixed", at |-> t]
After(i, event, delay) == [kind |-> "after", ref |-> i, event |-> event, delay |-> delay]
When(t, otherwise) == [kind |-> "when", byLatest |-> t, ifNever |-> otherwise]
Act(a, verb, trigger, window, until) ==
  [actor |-> a, verb |-> verb, trigger |-> trigger, window |-> window, until |-> until]

\* Three commands of actor 1 contend for its speed, the first perhaps windowed.
Contests ==
  {<<Act(1, v1, At(0), w, u), Act(1, v2, When(2, "fire"), Always, TRUE),
     Act(1, "speed", At(2), Always, TRUE)>> :
     v1 \in {"speed", "gap"}, v2 \in {"match", "gap"}, w \in {Early, Always}, u \in BOOLEAN}

\* Two lateral manoeuvres, each perhaps refused, and a state key.
Manoeuvres ==
  {<<Act(1, v1, When(0, o), Always, TRUE), Act(1, v2, At(1), Always, FALSE),
     Act(1, "set", At(1), Always, TRUE)>> :
     v1 \in {"changeLane", "laneOffset"}, v2 \in {"changeLane", "laneOffset"},
     o \in {"fire", "skip"}}

\* Actors 1 and 2 in a chain, in either order of their ids.
Chains ==
  {<<Act(1, "speed", When(1, o), w, TRUE), Act(2, v, After(1, e, d), Always, FALSE),
     Act(1, "laneOffset", After(2, "end", 0), Always, FALSE)>> :
     v \in {"laneOffset", "set"}, e \in {"start", "end"}, d \in {0, 1},
     o \in {"fire", "skip"}, w \in {Early, Always}}
    \cup
  {<<Act(2, "present", After(2, e, 0), Always, FALSE), Act(1, "speed", When(1, o), w, FALSE)>> :
     e \in {"start", "end"}, o \in {"fire", "skip"}, w \in {Early, Always}}

\* Actor 2, which follows a track, appears and disappears.
Presences ==
  {<<Act(2, "present", At(0), w, FALSE), Act(2, v2, When(1, "skip"), Always, FALSE),
     Act(2, v3, At(1), Always, TRUE)>> :
     w \in {Early, Always}, v2 \in {"present", "absent"}, v3 \in {"present", "absent"}}

\* Actor 1 leaves its route under a speed that its until clause may take back.
Routes ==
  {<<Act(1, "speed", At(0), Always, u), Act(1, v, When(1, "fire"), Always, FALSE),
     Act(1, "match", At(2), Always, TRUE)>> : u \in BOOLEAN, v \in {"route", "track"}}

ModelStoryboards == Contests \cup Manoeuvres \cup Chains \cup Presences \cup Routes
=============================================================================
