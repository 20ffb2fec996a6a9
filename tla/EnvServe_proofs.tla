--------------------------- MODULE EnvServe_proofs ---------------------------
(***************************************************************************)
(* Proofs about EnvServe: for any actors in any order and any number of    *)
(* requests, whatever fails in them.                                       *)
(***************************************************************************)
EXTENDS EnvServe, SequenceTheorems, TLAPS

(* Types.                                                                  *)

Nows == [no : Nat, present : SUBSET Actors]
Envs == [on : BOOLEAN, now : Nows, ended : BOOLEAN]
Frames == {f \in [of : Nat, shown : SUBSET Actors, despawned : SUBSET Actors] : f.shown \cap f.despawned = {}}
Worlds == UNION {[S -> Nat] : S \in SUBSET Actors}
Renders == [present : SUBSET Actors, ticks : Nat, time : Nat, scene : Seq(Frames), world : Worlds,
            slots : Nat]

\* What a frame shows once it is applied.
Pose(frame) == [a \in frame.shown |-> frame.of]

\* Every actor has its turn in the order.
LEMMA FirstAll == First(All) = Actors /\ \A n \in Nat : First(n) \cap Actors \subseteq Actors
<1>1. ActorOrder \in Seq(Actors) BY EnvServeAssumption
<1>2. DOMAIN ActorOrder = 1..Len(ActorOrder) BY <1>1
<1>. QED BY <1>2 DEF First, All, Actors, ToSet

-----------------------------------------------------------------------------
(* The scene of the service.                                               *)

\* A frame partly applied leaves a world of actors.
LEMMA AppliedType ==
  ASSUME NEW world \in Worlds, NEW frame \in Frames, NEW n \in Nat
  PROVE  Applied(world, frame, n) \in Worlds
<1>1. PICK S \in SUBSET Actors : world \in [S -> Nat] BY DEF Worlds
<1>. DEFINE T == (DOMAIN world \ (frame.despawned \cap First(n))) \cup (frame.shown \cap First(n))
<1>2. T \in SUBSET Actors BY <1>1 DEF Frames
<1>3. Applied(world, frame, n) \in [T -> Nat] BY <1>1 DEF Applied, Frames
<1>. QED BY <1>2, <1>3 DEF Worlds

\* A frame that accounts for everybody shows its own actors at its instant.
LEMMA AppliedWhole ==
  ASSUME NEW world \in Worlds, NEW frame \in Frames,
         Unaccounted(Applied(world, frame, All), frame) = {}
  PROVE  Applied(world, frame, All) = Pose(frame)
<1>1. PICK S \in SUBSET Actors : world \in [S -> Nat] BY DEF Worlds
<1>2. frame.shown \cap First(All) = frame.shown /\ frame.despawned \cap First(All) = frame.despawned
  BY FirstAll DEF Frames
<1>. DEFINE T == (DOMAIN world \ frame.despawned) \cup frame.shown
<1>3. Applied(world, frame, All) = [a \in T |-> IF a \in frame.shown THEN frame.of ELSE world[a]]
  BY <1>2 DEF Applied
<1>4. T \ (frame.shown \cup frame.despawned) = {} BY <1>3 DEF Unaccounted
<1>5. T = frame.shown BY <1>4 DEF Frames
<1>. QED BY <1>3, <1>5 DEF Pose

\* Everybody shown is accounted for if the frame tells of all who were.
LEMMA AppliedTells ==
  ASSUME NEW world \in Worlds, NEW frame \in Frames,
         DOMAIN world \subseteq frame.shown \cup frame.despawned
  PROVE  Unaccounted(Applied(world, frame, All), frame) = {}
<1>1. DOMAIN Applied(world, frame, All) =
        (DOMAIN world \ (frame.despawned \cap First(All))) \cup (frame.shown \cap First(All))
  BY DEF Applied
<1>. QED BY <1>1 DEF Unaccounted

\* What a capture leaves: all but the slots, and a picture, if there is one, of the
\* world.  With a slot left and no new failure there is one.
LEMMA CapturedOutcome ==
  ASSUME NEW r \in Renders, NEW may \in BOOLEAN, NEW o \in Captured(r, may)
  PROVE  /\ o.render \in Renders
         /\ o.render.present = r.present /\ o.render.ticks = r.ticks
         /\ o.render.time = r.time /\ o.render.scene = r.scene
         /\ o.pictures # {} => o.pictures = {r.world} /\ o.render.world = r.world
         /\ ~may /\ r.slots > 0 => o.pictures # {}
         /\ r.slots = 0 => o.pictures = {}
<1>1. \/ ~CanCapture(r) /\ o = Lost(r)
      \/ CanCapture(r) /\ o = Taken(r)
      \/ CanCapture(r) /\ may /\ \E n \in {r.slots, r.slots - 1, 0} : o = Lost([r EXCEPT !.slots = n])
  BY DEF Captured
<1>2. r.slots \in Nat BY DEF Renders
<1>3. CASE ~CanCapture(r) /\ o = Lost(r) BY <1>2, <1>3 DEF CanCapture, Lost
<1>4. CASE CanCapture(r) /\ o = Taken(r) BY <1>2, <1>4 DEF CanCapture, Taken
<1>5. CASE CanCapture(r) /\ may /\ \E n \in {r.slots, r.slots - 1, 0} : o = Lost([r EXCEPT !.slots = n])
  <2>1. PICK n \in {r.slots, r.slots - 1, 0} : o = Lost([r EXCEPT !.slots = n]) BY <1>5
  <2>2. n \in Nat BY <1>2, <1>5 DEF CanCapture
  <2>3. o.pictures = {} /\ o.render = [r EXCEPT !.slots = n] BY <2>1 DEF Lost
  <2>. QED BY <1>5, <2>2, <2>3 DEF Renders
<1>. QED BY <1>1, <1>3, <1>4, <1>5

\* What a bundle leaves: the stream as it was, and a picture, if there is one,
\* of the frame asked for.  With no new failure there is one whenever the frame
\* tells of everybody shown.
LEMMA BundleOutcome ==
  ASSUME NEW r \in Renders, NEW tick \in Nat, tick + 1 \in DOMAIN r.scene,
         NEW may \in BOOLEAN, NEW o \in Bundle(r, tick, may)
  PROVE  /\ o.render \in Renders
         /\ o.render.present = r.present /\ o.render.ticks = r.ticks
         /\ o.render.time = r.time /\ o.render.scene = r.scene
         /\ o.pictures # {} => o.pictures = {Pose(r.scene[tick + 1])} /\ o.render.world = Pose(r.scene[tick + 1])
         /\ ~may /\ r.slots > 0 /\ DOMAIN r.world \subseteq r.scene[tick + 1].shown \cup r.scene[tick + 1].despawned
              => o.pictures # {}
         /\ r.slots = 0 => o.pictures = {}
<1>. DEFINE frame == r.scene[tick + 1]
            after(n) == [r EXCEPT !.world = Applied(r.world, frame, n)]
            told == Unaccounted(after(All).world, frame) = {}
<1>1. frame \in Frames BY DEF Renders
<1>2. r.world \in Worlds BY DEF Renders
<1>3. All \in Nat BY EnvServeAssumption DEF All
<1>4. ASSUME NEW n \in Nat
      PROVE  /\ after(n) \in Renders
             /\ after(n).present = r.present /\ after(n).ticks = r.ticks
             /\ after(n).time = r.time /\ after(n).scene = r.scene
             /\ after(n).world = Applied(r.world, frame, n) /\ after(n).slots = r.slots
  <2>1. Applied(r.world, frame, n) \in Worlds BY <1>1, <1>2, AppliedType
  <2>. QED BY <2>1 DEF Renders
<1>5. \/ told /\ o \in Captured(after(All), may)
      \/ ~told /\ o = Lost(after(All))
      \/ may /\ \E n \in ApplyBreaksAfter(frame) : o = Lost(after(n))
  BY DEF Bundle
<1>6. \A n \in ApplyBreaksAfter(frame) : n \in Nat BY <1>3 DEF ApplyBreaksAfter
<1>7. CASE told /\ o \in Captured(after(All), may)
  <2>1. after(All).world = Pose(frame) BY <1>1, <1>2, <1>3, <1>4, <1>7, AppliedWhole
  <2>2. /\ after(All) \in Renders /\ after(All).slots = r.slots
        /\ after(All).present = r.present /\ after(All).ticks = r.ticks
        /\ after(All).time = r.time /\ after(All).scene = r.scene
    BY <1>3, <1>4
  <2>3. PICK a : a = after(All) OBVIOUS
  <2>4. o \in Captured(a, may) BY <1>7, <2>3
  <2>. HIDE DEF after
  <2>5. /\ o.render \in Renders
        /\ o.render.present = a.present /\ o.render.ticks = a.ticks
        /\ o.render.time = a.time /\ o.render.scene = a.scene
        /\ o.pictures # {} => o.pictures = {a.world} /\ o.render.world = a.world
        /\ ~may /\ a.slots > 0 => o.pictures # {}
        /\ a.slots = 0 => o.pictures = {}
    BY <2>2, <2>3, <2>4, CapturedOutcome
  <2>. QED BY <2>1, <2>2, <2>3, <2>5
<1>8. CASE ~told /\ o = Lost(after(All))
  <2>1. ~(DOMAIN r.world \subseteq frame.shown \cup frame.despawned)
    BY <1>1, <1>2, <1>3, <1>4, <1>8, AppliedTells
  <2>. QED BY <2>1, <1>3, <1>4, <1>8 DEF Lost
<1>9. CASE may /\ \E n \in ApplyBreaksAfter(frame) : o = Lost(after(n))
  <2>1. PICK n \in ApplyBreaksAfter(frame) : o = Lost(after(n)) BY <1>9
  <2>2. n \in Nat BY <1>6
  <2>3. o.render = after(n) /\ o.pictures = {} BY <2>1 DEF Lost
  <2>. HIDE DEF after
  <2>. QED BY <1>4, <1>9, <2>2, <2>3
<1>. QED BY <1>5, <1>7, <1>8, <1>9

-----------------------------------------------------------------------------
(* Sensors and Server::render.                                             *)

\* FrameBuilder keeps its type and tells of the instant.
LEMMA BuiltFrame ==
  ASSUME NEW r \in Renders, NEW now \in Nows
  PROVE  /\ FrameOf(r, now) \in Frames
         /\ Walked(r, now, All) = now.present
         /\ \A n \in Nat : Walked(r, now, n) \in SUBSET Actors
<1>1. FrameOf(r, now) \in Frames BY DEF FrameOf, Frames, Renders, Nows
<1>2. Walked(r, now, All) = now.present BY FirstAll DEF Walked, Renders, Nows
<1>3. \A n \in Nat : Walked(r, now, n) \in SUBSET Actors BY DEF Walked, Renders, Nows
<1>. QED BY <1>1, <1>2, <1>3

\* A record of the renderer's state with another stream.
Restreamed(r, scene, world, ticks) ==
  [present |-> r.present, ticks |-> ticks, time |-> r.time, scene |-> scene, world |-> world,
   slots |-> r.slots]

LEMMA Rebuilt ==
  ASSUME NEW r \in Renders, NEW scene \in Seq(Frames), NEW world \in Worlds, NEW ticks \in Nat,
         NEW x, x = [r EXCEPT !.scene = scene, !.world = world, !.ticks = ticks]
  PROVE  x = Restreamed(r, scene, world, ticks) /\ x \in Renders
<1>1. r = [present |-> r.present, ticks |-> r.ticks, time |-> r.time, scene |-> r.scene, world |-> r.world,
           slots |-> r.slots]
  BY DEF Renders
<1>2. x = [present |-> r.present, ticks |-> ticks, time |-> r.time, scene |-> scene, world |-> world,
           slots |-> r.slots]
  BY <1>1, Zenon
<1>3. r.present \in SUBSET Actors /\ r.time \in Nat /\ r.slots \in Nat BY DEF Renders
<1>. QED BY <1>2, <1>3 DEF Renders, Restreamed

\* A frame that was sent, if it was rendered, is the last of the stream and is
\* what is shown.
LEMMA SentOutcome ==
  ASSUME NEW r \in Renders, r.ticks = Len(r.scene), NEW frame \in Frames,
         NEW fresh \in BOOLEAN, NEW may \in BOOLEAN, NEW o \in Sent(r, frame, fresh, may)
  PROVE  /\ o.render \in Renders /\ o.render.ticks = Len(o.render.scene)
         /\ o.render.present = r.present /\ o.render.time = r.time
         /\ o.pictures # {} =>
              /\ o.pictures = {Pose(frame)} /\ o.render.world = Pose(frame)
              /\ o.render.ticks > 0 /\ o.render.scene[o.render.ticks] = frame
         /\ ~may /\ r.slots > 0 /\ fresh => o.pictures # {}
         /\ ~may /\ r.slots > 0 /\ ~fresh /\ r.scene # <<>> /\ DOMAIN r.world \subseteq frame.shown \cup frame.despawned
              => o.pictures # {}
         /\ r.slots = 0 => o.pictures = {}
<1>. DEFINE taken == IF fresh THEN Loaded(r, frame) ELSE Appended(r, frame)
            counted == [taken EXCEPT !.ticks = IF fresh THEN 1 ELSE @ + 1]
            refused == ~fresh /\ r.scene = <<>>
<1>1. Nothing \in Worlds
  <2>1. Nothing \in [{} -> Nat] BY DEF Nothing
  <2>. QED BY <2>1 DEF Worlds
<1>2. r.scene \in Seq(Frames) /\ r.ticks \in Nat /\ r.world \in Worlds BY DEF Renders
<1>3. /\ counted \in Renders /\ counted.present = r.present /\ counted.time = r.time
      /\ counted.slots = r.slots
      /\ counted.ticks = Len(counted.scene) /\ counted.ticks > 0
      /\ counted.scene[counted.ticks] = frame
      /\ fresh => counted.world = Nothing
      /\ ~fresh => counted.world = r.world
  <2>1. CASE fresh
    <3>. DEFINE s == <<frame>>
    <3>1. s \in Seq(Frames) /\ Len(s) = 1 /\ s[1] = frame OBVIOUS
    <3>2. counted = [r EXCEPT !.scene = s, !.world = Nothing, !.ticks = 1] BY <2>1 DEF Loaded, Renders
    <3>. HIDE DEF counted, s
    <3>3. counted = Restreamed(r, s, Nothing, 1) /\ counted \in Renders
      <4>1. 1 \in Nat OBVIOUS
      <4>2. s \in Seq(Frames) BY <3>1
      <4>. QED BY <1>1, <3>2, <4>1, <4>2, Rebuilt, Zenon
    <3>4. /\ counted.present = r.present /\ counted.time = r.time
          /\ counted.world = Nothing /\ counted.ticks = 1 /\ counted.scene = s
          /\ counted.slots = r.slots
      BY <3>3 DEF Restreamed
    <3>5. counted.ticks = Len(counted.scene) /\ counted.ticks > 0 /\ counted.scene[counted.ticks] = frame
      BY <3>1, <3>4
    <3>. QED BY <2>1, <3>3, <3>4, <3>5, Zenon
  <2>2. CASE ~fresh
    <3>. DEFINE s == Append(r.scene, frame)
    <3>1. s \in Seq(Frames) /\ Len(s) = Len(r.scene) + 1 /\ s[Len(r.scene) + 1] = frame BY <1>2
    <3>2. counted = [r EXCEPT !.scene = s, !.world = r.world, !.ticks = r.ticks + 1]
      BY <2>2 DEF Appended, Renders
    <3>. HIDE DEF counted, s
    <3>3. counted = Restreamed(r, s, r.world, r.ticks + 1) /\ counted \in Renders
      <4>1. r.ticks + 1 \in Nat /\ r.world \in Worlds BY <1>2
      <4>2. s \in Seq(Frames) BY <3>1
      <4>. QED BY <3>2, <4>1, <4>2, Rebuilt, Zenon
    <3>4. /\ counted.present = r.present /\ counted.time = r.time /\ counted.world = r.world
          /\ counted.ticks = r.ticks + 1 /\ counted.scene = s /\ counted.slots = r.slots
      BY <3>3 DEF Restreamed
    <3>. QED BY <1>2, <2>2, <3>1, <3>3, <3>4
  <2>. QED BY <2>1, <2>2
<1>4. \/ (may \/ refused) /\ o = Lost(r)
      \/ ~refused /\ o \in Bundle(counted, counted.ticks - 1, may)
  BY DEF Sent
<1>5. CASE (may \/ refused) /\ o = Lost(r) BY <1>5 DEF Lost
<1>6. CASE ~refused /\ o \in Bundle(counted, counted.ticks - 1, may)
  <2>1. counted.ticks - 1 \in Nat /\ (counted.ticks - 1) + 1 = counted.ticks BY <1>3 DEF Renders
  <2>2. counted.ticks \in DOMAIN counted.scene BY <1>3 DEF Renders
  <2>3. fresh => DOMAIN counted.world \subseteq {} BY <1>3 DEF Nothing
  <2>4. /\ o.render \in Renders
        /\ o.render.present = counted.present /\ o.render.ticks = counted.ticks
        /\ o.render.time = counted.time /\ o.render.scene = counted.scene
        /\ o.pictures # {} => o.pictures = {Pose(frame)} /\ o.render.world = Pose(frame)
        /\ ~may /\ counted.slots > 0 /\ DOMAIN counted.world \subseteq frame.shown \cup frame.despawned
             => o.pictures # {}
        /\ counted.slots = 0 => o.pictures = {}
    <3>. HIDE DEF counted
    <3>. QED BY <1>3, <1>6, <2>1, <2>2, BundleOutcome
  <2>. QED BY <1>3, <2>3, <2>4
<1>. QED BY <1>4, <1>5, <1>6

\* Server::render with a new frame.
LEMMA RenderedOutcome ==
  ASSUME NEW r \in Renders, r.ticks = Len(r.scene), NEW now \in Nows,
         NEW fresh \in BOOLEAN, NEW may \in BOOLEAN, NEW o \in Rendered(r, now, fresh, may)
  PROVE  /\ o.render \in Renders /\ o.render.ticks = Len(o.render.scene)
         /\ o.pictures # {} =>
              /\ o.pictures = {Pictured(now)} /\ o.render.world = Pictured(now)
              /\ o.render.present = now.present /\ o.render.time = now.no
              /\ o.render.ticks > 0
              /\ o.render.scene[o.render.ticks].of = now.no
              /\ o.render.scene[o.render.ticks].shown = now.present
         /\ ~may /\ r.slots > 0 /\ fresh => o.pictures # {}
         /\ ~may /\ r.slots > 0 /\ ~fresh /\ r.scene # <<>> /\ DOMAIN r.world \subseteq r.present \cup now.present
              => o.pictures # {}
         /\ r.slots = 0 => o.pictures = {}
<1>. DEFINE ready == IF fresh THEN [r EXCEPT !.present = {}] ELSE r
            left(n) == [ready EXCEPT !.present = Walked(ready, now, n)]
            built == [left(All) EXCEPT !.time = now.no]
            frame == FrameOf(ready, now)
<1>1. /\ ready \in Renders /\ ready.ticks = r.ticks /\ ready.scene = r.scene /\ ready.world = r.world
      /\ ready.slots = r.slots
      /\ ~fresh => ready.present = r.present
  BY DEF Renders
<1>. HIDE DEF ready
<1>2. frame \in Frames /\ Walked(ready, now, All) = now.present BY <1>1, BuiltFrame
<1>3. ASSUME NEW n \in Nat
      PROVE  left(n) \in Renders /\ left(n).ticks = ready.ticks /\ left(n).scene = ready.scene
             /\ left(n).world = ready.world /\ left(n).present = Walked(ready, now, n)
             /\ left(n).slots = ready.slots
  <2>1. Walked(ready, now, n) \in SUBSET Actors BY <1>1, BuiltFrame
  <2>. QED BY <1>1, <2>1 DEF Renders
<1>4. All \in Nat BY EnvServeAssumption DEF All
<1>5. /\ built \in Renders /\ built.ticks = ready.ticks /\ built.scene = ready.scene
      /\ built.world = ready.world /\ built.present = now.present /\ built.time = now.no
      /\ built.slots = ready.slots
  <2>1. left(All) \in Renders /\ left(All).present = now.present BY <1>2, <1>3, <1>4
  <2>2. now.no \in Nat BY DEF Nows
  <2>3. /\ left(All).ticks = ready.ticks /\ left(All).scene = ready.scene /\ left(All).world = ready.world
        /\ left(All).slots = ready.slots
    BY <1>3, <1>4
  <2>. HIDE DEF left
  <2>. QED BY <2>1, <2>2, <2>3 DEF Renders
<1>6. \/ o \in Sent(built, frame, fresh, may)
      \/ may /\ \E n \in BuildBreaksAfter(now) : o = Lost(left(n))
  BY DEF Rendered, ready
<1>7. frame.of = now.no /\ frame.shown = now.present /\ frame.despawned = ready.present \ now.present
  BY DEF FrameOf
<1>8. Pose(frame) = Pictured(now) BY <1>7 DEF Pose, Pictured
<1>9. CASE o \in Sent(built, frame, fresh, may)
  <2>1. built.ticks = Len(built.scene) BY <1>1, <1>5
  <2>. HIDE DEF built, frame
  <2>2. /\ o.render \in Renders /\ o.render.ticks = Len(o.render.scene)
        /\ o.render.present = built.present /\ o.render.time = built.time
        /\ o.pictures # {} =>
             /\ o.pictures = {Pose(frame)} /\ o.render.world = Pose(frame)
             /\ o.render.ticks > 0 /\ o.render.scene[o.render.ticks] = frame
        /\ ~may /\ built.slots > 0 /\ fresh => o.pictures # {}
        /\ ~may /\ built.slots > 0 /\ ~fresh /\ built.scene # <<>>
             /\ DOMAIN built.world \subseteq frame.shown \cup frame.despawned
             => o.pictures # {}
        /\ built.slots = 0 => o.pictures = {}
    BY <1>2, <1>5, <1>9, <2>1, SentOutcome
  <2>3. ~fresh /\ DOMAIN r.world \subseteq r.present \cup now.present
          => DOMAIN built.world \subseteq frame.shown \cup frame.despawned
    BY <1>1, <1>5, <1>7
  <2>4. built.scene = r.scene /\ built.slots = r.slots BY <1>1, <1>5
  <2>. QED BY <1>5, <1>7, <1>8, <2>2, <2>3, <2>4
<1>10. CASE may /\ \E n \in BuildBreaksAfter(now) : o = Lost(left(n))
  <2>1. PICK n \in BuildBreaksAfter(now) : o = Lost(left(n)) BY <1>10
  <2>2. n \in Nat BY <1>4 DEF BuildBreaksAfter
  <2>3. o.render = left(n) /\ o.pictures = {} BY <2>1 DEF Lost
  <2>. HIDE DEF left
  <2>. QED BY <1>1, <1>3, <1>10, <2>2, <2>3
<1>. QED BY <1>6, <1>9, <1>10

-----------------------------------------------------------------------------
(* The invariant: the sensors count the frames of the stream, and an answer *)
(* is what the parts then agree on.                                        *)

TypeInv ==
  /\ env \in Envs /\ saved \subseteq Envs /\ instants \in Nat /\ clean \in BOOLEAN
  /\ render \in Renders /\ render.ticks = Len(render.scene)
  /\ clean => render.ticks > 0

IInv == TypeInv /\ InStep /\ AnswerShowsNow

\* Last of a stream that is not empty.
LEMMA LastFrame ==
  ASSUME NEW r \in Renders, r.ticks = Len(r.scene), r.ticks > 0
  PROVE  Last(r.scene) = r.scene[r.ticks] /\ Last(r.scene) \in Frames
BY DEF Last, Renders

LEMMA InitInv == Init => IInv
<1>. SUFFICES ASSUME Init PROVE IInv OBVIOUS
<1>1. Nothing \in Worlds
  <2>1. Nothing \in [{} -> Nat] BY DEF Nothing
  <2>. QED BY <2>1 DEF Worlds
<1>2. env \in Envs BY DEF Init, Envs, Nows
<1>3. render \in Renders /\ render.ticks = Len(render.scene) BY <1>1 DEF Init, Renders, READBACK_SLOTS
<1>4. ~clean /\ ~answer.ok BY DEF Init, NoAnswer
<1>. QED BY <1>2, <1>3, <1>4 DEF Init, IInv, TypeInv, InStep, AnswerShowsNow

\* A request that begins a stream or goes on with it.
LEMMA RenderedStep ==
  ASSUME IInv, NEW op \in {"reset", "step", "restore"}, NEW now \in Nows, NEW fresh \in BOOLEAN,
         fresh <=> op \in {"reset", "restore"},
         env' \in Envs, env'.now = now, saved' \subseteq Envs, instants' \in Nat,
         Answers(op, now, Rendered(render, now, fresh, TRUE))
  PROVE  IInv'
<1>1. PICK o \in Rendered(render, now, fresh, TRUE) :
        /\ render' = o.render
        /\ answer' = [op |-> op, ok |-> o.pictures # {}, of |-> now,
                      pictures |-> o.pictures, time |-> o.render.time]
        /\ clean' = (o.pictures # {} /\ (op \in {"reset", "restore"} \/ clean))
  BY DEF Answers
<1>2. render \in Renders /\ render.ticks = Len(render.scene) BY DEF IInv, TypeInv
<1>3. /\ o.render \in Renders /\ o.render.ticks = Len(o.render.scene)
      /\ o.pictures # {} =>
           /\ o.pictures = {Pictured(now)} /\ o.render.world = Pictured(now)
           /\ o.render.present = now.present /\ o.render.time = now.no
           /\ o.render.ticks > 0
           /\ o.render.scene[o.render.ticks].of = now.no
           /\ o.render.scene[o.render.ticks].shown = now.present
  <2>. DEFINE may == TRUE
  <2>1. may \in BOOLEAN /\ o \in Rendered(render, now, fresh, may) OBVIOUS
  <2>. HIDE DEF may
  <2>. QED BY <1>2, <2>1, RenderedOutcome
<1>4. clean' \in BOOLEAN /\ (clean' => o.pictures # {}) BY <1>1
<1>5. TypeInv' BY <1>1, <1>3, <1>4 DEF TypeInv
<1>6. InStep'
  <2>. SUFFICES ASSUME clean'
                PROVE  /\ render'.present = env'.now.present /\ render'.world = Pictured(env'.now)
                       /\ render'.ticks = Len(render'.scene) /\ render'.time = env'.now.no
                       /\ Last(render'.scene).of = env'.now.no
                       /\ Last(render'.scene).shown = env'.now.present
    BY DEF InStep, Pictured
  <2>1. o.pictures # {} BY <1>4
  <2>2. Last(o.render.scene) = o.render.scene[o.render.ticks] BY <1>3, <2>1, LastFrame
  <2>. QED BY <1>1, <1>3, <2>1, <2>2
<1>7. AnswerShowsNow'
  <2>1. o.pictures # {} => ShowsItsObservation(answer') BY <1>1, <1>3 DEF ShowsItsObservation
  <2>2. answer'.ok = (o.pictures # {}) BY <1>1
  <2>. QED BY <2>1, <2>2 DEF AnswerShowsNow, ShowsItsObservation, Pictured
<1>. QED BY <1>5, <1>6, <1>7 DEF IInv

\* The last frame once more.
LEMMA ObservedStep ==
  ASSUME IInv, Answers("observe", env.now, Rerendered(render, TRUE)), UNCHANGED <<env, saved, instants>>
  PROVE  IInv'
<1>1. PICK o \in Rerendered(render, TRUE) :
        /\ render' = o.render
        /\ answer' = [op |-> "observe", ok |-> o.pictures # {}, of |-> env.now,
                      pictures |-> o.pictures, time |-> o.render.time]
        /\ clean' = (o.pictures # {} /\ clean)
  BY DEF Answers
<1>2. render \in Renders /\ render.ticks = Len(render.scene) BY DEF IInv, TypeInv
<1>3. /\ o.render \in Renders
      /\ o.render.present = render.present /\ o.render.ticks = render.ticks
      /\ o.render.time = render.time /\ o.render.scene = render.scene
      /\ o.pictures # {} =>
           /\ render.ticks > 0
           /\ o.pictures = {Pose(render.scene[render.ticks])}
           /\ o.render.world = Pose(render.scene[render.ticks])
  <2>1. CASE render.ticks = 0
    <3>1. o.render = render /\ o.pictures = {} BY <2>1 DEF Rerendered, Lost
    <3>. QED BY <1>2, <3>1
  <2>2. CASE render.ticks # 0
    <3>1. o \in Bundle(render, render.ticks - 1, TRUE) BY <2>2 DEF Rerendered
    <3>2. /\ render.ticks - 1 \in Nat /\ (render.ticks - 1) + 1 = render.ticks
          /\ render.ticks \in DOMAIN render.scene /\ render.ticks > 0
      BY <1>2, <2>2 DEF Renders
    <3>. DEFINE may == TRUE
                tick == render.ticks - 1
    <3>3. may \in BOOLEAN /\ o \in Bundle(render, tick, may) BY <3>1
    <3>4. tick \in Nat /\ tick + 1 = render.ticks /\ tick + 1 \in DOMAIN render.scene BY <3>2
    <3>. HIDE DEF may, tick
    <3>5. /\ o.render \in Renders
          /\ o.render.present = render.present /\ o.render.ticks = render.ticks
          /\ o.render.time = render.time /\ o.render.scene = render.scene
          /\ o.pictures # {} =>
               /\ o.pictures = {Pose(render.scene[tick + 1])}
               /\ o.render.world = Pose(render.scene[tick + 1])
      BY <1>2, <3>3, <3>4, BundleOutcome
    <3>. QED BY <3>2, <3>4, <3>5
  <2>. QED BY <2>1, <2>2
<1>4. clean' \in BOOLEAN /\ (clean' => o.pictures # {} /\ clean) BY <1>1 DEF IInv, TypeInv
<1>5. TypeInv' BY <1>1, <1>2, <1>3, <1>4 DEF IInv, TypeInv
<1>6. clean' => o.render.world = Pictured(env.now) /\ o.pictures = {Pictured(env.now)} /\ o.render.time = env.now.no
  <2>. SUFFICES ASSUME clean'
                PROVE  o.render.world = Pictured(env.now) /\ o.pictures = {Pictured(env.now)} /\ o.render.time = env.now.no
    OBVIOUS
  <2>1. clean /\ o.pictures # {} BY <1>4
  <2>2. Last(render.scene) = render.scene[render.ticks] BY <1>2, <1>3, <2>1, LastFrame
  <2>3. /\ Last(render.scene).of = env.now.no /\ Last(render.scene).shown = env.now.present
        /\ render.time = env.now.no
    BY <2>1 DEF IInv, InStep
  <2>4. Pose(render.scene[render.ticks]) = Pictured(env.now) BY <2>2, <2>3 DEF Pose, Pictured
  <2>. QED BY <1>3, <2>1, <2>3, <2>4
<1>7. InStep'
  <2>1. clean' => clean BY <1>4
  <2>. QED BY <1>1, <1>3, <1>6, <2>1 DEF IInv, InStep, Pictured
<1>8. AnswerShowsNow'
  <2>1. answer'.op = "observe" BY <1>1
  <2>2. clean' => ShowsItsObservation(answer') BY <1>1, <1>6 DEF ShowsItsObservation
  <2>. QED BY <2>1, <2>2 DEF AnswerShowsNow, ShowsItsObservation, Pictured
<1>. QED BY <1>5, <1>7, <1>8 DEF IInv

\* A request that renders nothing.
LEMMA UnrenderedStep ==
  ASSUME IInv, UNCHANGED <<env, render, clean, instants>>, saved' \subseteq Envs,
         ~answer'.ok \/ answer'.op = "checkpoint" \/ answer' = answer
  PROVE  IInv'
<1>1. TypeInv' BY DEF IInv, TypeInv
<1>2. InStep' BY DEF IInv, InStep, Pictured
<1>3. AnswerShowsNow' BY DEF IInv, AnswerShowsNow, ShowsItsObservation, Pictured
<1>. QED BY <1>1, <1>2, <1>3 DEF IInv

LEMMA StepInv == IInv /\ [Next]_vars => IInv'
<1>. SUFFICES ASSUME IInv, [Next]_vars PROVE IInv' OBVIOUS
<1>1. env \in Envs /\ saved \subseteq Envs /\ instants \in Nat BY DEF IInv, TypeInv
<1>2. ASSUME NEW op, Refused(op) PROVE IInv'
  <2>1. ~answer'.ok /\ UNCHANGED <<env, render, clean, instants>> /\ saved' \subseteq Envs
    BY <1>1, <1>2 DEF Refused, NoAnswer
  <2>. QED BY <2>1, UnrenderedStep
<1>3. ASSUME NEW ended \in BOOLEAN, Executed(ended)
      PROVE  env' \in Envs /\ env'.now \in Nows /\ instants' \in Nat
  BY <1>1, <1>3 DEF Executed, Envs, Nows
<1>4. CASE Reset
  <2>1. CASE Executed(FALSE) /\ Answers("reset", env'.now, Rendered(render, env'.now, TRUE, TRUE)) /\ UNCHANGED saved
    <3>1. env' \in Envs /\ env'.now \in Nows /\ instants' \in Nat BY <1>3, <2>1
    <3>. QED BY <1>1, <2>1, <3>1, RenderedStep
  <2>. QED BY <1>2, <1>4, <2>1 DEF Reset
<1>5. CASE Step
  <2>1. CASE /\ \E ended \in BOOLEAN : Executed(ended)
             /\ Answers("step", env'.now, Rendered(render, env'.now, FALSE, TRUE))
             /\ UNCHANGED saved
    <3>1. env' \in Envs /\ env'.now \in Nows /\ instants' \in Nat BY <1>3, <2>1
    <3>. QED BY <1>1, <2>1, <3>1, RenderedStep
  <2>. QED BY <1>2, <1>5, <2>1 DEF Step
<1>6. CASE Observe
  <2>1. CASE Answers("observe", env.now, Rerendered(render, TRUE)) /\ UNCHANGED <<env, saved, instants>>
    BY <2>1, ObservedStep
  <2>. QED BY <1>2, <1>6, <2>1 DEF Observe
<1>7. CASE Checkpoint
  <2>1. answer'.op = "checkpoint" /\ saved' \subseteq Envs /\ UNCHANGED <<env, render, clean, instants>>
    BY <1>1, <1>7 DEF Checkpoint, NoAnswer
  <2>. QED BY <2>1, UnrenderedStep
<1>8. CASE Restore
  <2>1. CASE \E checkpoint \in saved :
               /\ env' = [checkpoint EXCEPT !.on = TRUE]
               /\ Answers("restore", checkpoint.now, Rendered(render, checkpoint.now, TRUE, TRUE))
               /\ UNCHANGED <<saved, instants>>
    <3>1. PICK checkpoint \in saved :
               /\ env' = [checkpoint EXCEPT !.on = TRUE]
               /\ Answers("restore", checkpoint.now, Rendered(render, checkpoint.now, TRUE, TRUE))
               /\ UNCHANGED <<saved, instants>>
      BY <2>1
    <3>2. checkpoint \in Envs /\ checkpoint.now \in Nows BY <1>1 DEF Envs
    <3>3. env' \in Envs /\ env'.now = checkpoint.now BY <3>1, <3>2 DEF Envs
    <3>. QED BY <1>1, <3>1, <3>2, <3>3, RenderedStep
  <2>. QED BY <1>2, <1>8, <2>1 DEF Restore
<1>9. CASE UNCHANGED vars BY <1>1, <1>9, UnrenderedStep DEF vars
<1>. QED BY <1>4, <1>5, <1>6, <1>7, <1>8, <1>9 DEF Next

-----------------------------------------------------------------------------
(* The theorems.                                                           *)

\* Whatever failed in the requests before, the pictures beside an observation
\* that reset, step or restore answers are pictures of that observation
\* (env_serve/server.rs, render; apply_scene_tick refuses a frame that leaves a
\* shown actor unaccounted for).
THEOREM AnswerShowsNowAlways == Spec => []AnswerShowsNow
<1>1. IInv => AnswerShowsNow BY DEF IInv
<1>. QED BY InitInv, StepInv, <1>1, PTL DEF Spec

\* While nothing has failed since the stream began, the episode, the frame
\* builder, the sensors and the scene of the service agree.
THEOREM InStepAlways == Spec => []InStep
<1>1. IInv => InStep BY DEF IInv
<1>. QED BY InitInv, StepInv, <1>1, PTL DEF Spec

\* A reset or restore at which nothing fails mends what failed requests have left in
\* the scene, the frame builder and the sensors' count, and nothing else: it is
\* answered, with what is there, exactly while the engine has a readback slot left.
THEOREM StartingOverWorksAlways == Spec => []StartingOverWorks
<1>1. IInv => StartingOverWorks
  <2>. SUFFICES ASSUME IInv, NEW present \in SUBSET Actors,
                       NEW o \in Rendered(render, [no |-> instants, present |-> present], TRUE, FALSE)
                PROVE  o.pictures = IF render.slots > 0 THEN {Pictured([no |-> instants, present |-> present])} ELSE {}
    BY DEF StartingOverWorks
  <2>. DEFINE now == [no |-> instants, present |-> present]
  <2>1. now \in Nows BY DEF IInv, TypeInv, Nows
  <2>2. render \in Renders /\ render.ticks = Len(render.scene) BY DEF IInv, TypeInv
  <2>. DEFINE fresh == TRUE
              may == FALSE
  <2>3. o \in Rendered(render, now, fresh, may) /\ fresh \in BOOLEAN /\ may \in BOOLEAN OBVIOUS
  <2>. HIDE DEF now, fresh, may
  <2>4. /\ o.pictures # {} => o.pictures = {Pictured(now)}
        /\ ~may /\ render.slots > 0 /\ fresh => o.pictures # {}
        /\ render.slots = 0 => o.pictures = {}
    BY <2>1, <2>2, <2>3, RenderedOutcome
  <2>5. render.slots \in Nat BY <2>2 DEF Renders
  <2>6. o.pictures = IF render.slots > 0 THEN {Pictured(now)} ELSE {} BY <2>4, <2>5 DEF fresh, may
  <2>. QED BY <2>6 DEF now
<1>. QED BY InitInv, StepInv, <1>1, PTL DEF Spec

\* A step that fails fails no later step, as long as the frames tell of everybody
\* the renderer shows and the engine has a readback slot left.
THEOREM StepRecoversAlways == Spec => []StepRecovers
<1>1. IInv => StepRecovers
  <2>. SUFFICES ASSUME IInv, render.scene # <<>>, render.slots > 0, NEW present \in SUBSET Actors,
                       DOMAIN render.world \subseteq render.present \cup present,
                       NEW o \in Rendered(render, [no |-> instants, present |-> present], FALSE, FALSE)
                PROVE  o.pictures = {Pictured([no |-> instants, present |-> present])}
    BY DEF StepRecovers
  <2>. DEFINE now == [no |-> instants, present |-> present]
  <2>1. now \in Nows BY DEF IInv, TypeInv, Nows
  <2>2. render \in Renders /\ render.ticks = Len(render.scene) BY DEF IInv, TypeInv
  <2>3. DOMAIN render.world \subseteq render.present \cup now.present OBVIOUS
  <2>. DEFINE fresh == FALSE
              may == FALSE
  <2>4. o \in Rendered(render, now, fresh, may) /\ fresh \in BOOLEAN /\ may \in BOOLEAN OBVIOUS
  <2>. HIDE DEF now, fresh, may
  <2>5. /\ o.pictures # {} => o.pictures = {Pictured(now)}
        /\ ~may /\ render.slots > 0 /\ ~fresh /\ render.scene # <<>> /\ DOMAIN render.world \subseteq render.present \cup now.present
              => o.pictures # {}
    BY <2>1, <2>2, <2>4, RenderedOutcome
  <2>6. o.pictures = {Pictured(now)} BY <2>3, <2>5 DEF fresh, may
  <2>. QED BY <2>6 DEF now
<1>. QED BY InitInv, StepInv, <1>1, PTL DEF Spec
=============================================================================
