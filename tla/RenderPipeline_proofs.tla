----------------------- MODULE RenderPipeline_proofs -----------------------
(***************************************************************************)
(* Proofs about RenderPipeline: for a rig of any finite number of cameras, *)
(* any requests and any bounds, no answer is out of turn, and a bundle     *)
(* shows its own pictures whatever else the loop and the GPU did between   *)
(* its two halves.                                                         *)
(***************************************************************************)
EXTENDS RenderPipeline, SequenceTheorems, FiniteSetTheorems, TLAPS

-----------------------------------------------------------------------------
(* The inductive invariant.                                                *)

\* The values the variables hold.
Numbers == 1..MaxRequests
Pictures == [Cameras -> 0..MaxRequests]
Tickets == [pending : SUBSET Numbers, picture : SUBSET Pictures]
Bundles == [i : Numbers, ticket : Tickets]
Asks == [i : Numbers, op : Ops, resize : SUBSET Cameras]
Replies == [i : Numbers, pictures : SUBSET Pictures]
FinishTasks == [do : {"finish"}, flight : Bundles]
AnswerTasks == [do : {"answer"}, answer : Replies]
ServeTasks == [do : {"serve"}, request : Asks]
Tasks == FinishTasks \cup AnswerTasks \cup ServeTasks
Buffers == [map : {"absent", "idle", "pending", "mapped"}, copied : BOOLEAN, shows : 0..MaxRequests]
Maps == [of : Numbers, slot : Slots, waiting : SUBSET Cameras, failed : BOOLEAN]
Gpus == [maps : SUBSET Maps, staging : [Slots -> [Cameras -> Buffers]],
         broken : BOOLEAN, refused : BOOLEAN, shared : BOOLEAN]
Servers == [on : BOOLEAN, queue : Seq(Asks), eof : BOOLEAN,
            in_flight : SUBSET Bundles, begun : SUBSET Bundles, todo : Seq(Tasks)]

Types ==
  /\ client \in {"away", "open", "half", "gone"}
  /\ wire \in Seq(Asks) /\ asked \in Seq(Numbers) /\ answers \in Seq(Replies)
  /\ server \in Servers /\ gpu \in Gpus
  /\ sent \in 0..MaxRequests /\ met \in Nat

(* The engine, as the bundles somebody will collect see it.                *)

\* No other map is in the map's slot, and what was copied for it is its own.
Kept(g, m) ==
  /\ \A n \in g.maps : n.slot = m.slot => n = m
  /\ \A c \in Cameras : g.staging[m.slot][c].copied => g.staging[m.slot][c].shows = m.of

\* A bundle in flight waits for its map, or has its picture.
Carries(g, f) ==
  \/ f.ticket = [pending |-> Some(f.i), picture |-> None] /\ \E m \in g.maps : m.of = f.i
  \/ f.ticket = [pending |-> None, picture |-> Some(Picture(f.i))]

Collectable(g, f) == Carries(g, f) /\ \A m \in g.maps : m.of = f.i => Kept(g, m)

Unique(maps) == \A m, n \in maps : m.of = n.of => m = n

Lost(g, flights) == {m \in g.maps : \A f \in flights : f.i # m.of}

\* The engine with flights to collect and no map of a number above bound.
Sound(g, flights, bound) ==
  /\ Unique(g.maps)
  /\ \A m \in g.maps : m.of <= bound
  /\ \A f \in flights : Collectable(g, f)
  /\ g.refused => Lost(g, flights) # {}

(* The loop, as the numbers of the requests see it.                        *)

Number(task) ==
  IF task.do = "finish" THEN task.flight.i
  ELSE IF task.do = "answer" THEN task.answer.i ELSE task.request.i

\* The last request answered, and the last one taken off the queue.
Done == sent - Len(asked) + Len(answers)
Taken == IF server.on THEN sent - Len(wire) - Len(server.queue) ELSE sent

\* The requests of the connection have the numbers up to sent, and so do the answers.
Numbered ==
  /\ Len(asked) <= sent /\ Len(answers) <= Len(asked)
  /\ \A k \in DOMAIN asked : asked[k] = sent - Len(asked) + k
  /\ \A k \in DOMAIN answers : answers[k].i = sent - Len(asked) + k
  /\ \A k \in DOMAIN answers : answers[k].pictures \subseteq {Picture(answers[k].i)}

Ahead == server.in_flight \cup server.begun

\* What was taken and not yet answered is in hand, in order.
InLine ==
  /\ \A k \in DOMAIN wire : wire[k].i = sent - Len(wire) + k
  /\ \A k \in DOMAIN server.queue : server.queue[k].i = Taken + k
  /\ \A k \in DOMAIN server.todo : Number(server.todo[k]) = Done + k
  /\ \A f \in Ahead : f.i = Done + Len(server.todo) + 1
  /\ Taken = Done + Len(server.todo) + (IF Ahead = {} THEN 0 ELSE 1)

\* What the service has to do has one of a few shapes.
Shaped ==
  /\ \A f, h \in Ahead : f = h
  /\ server.in_flight = None \/ (server.todo = <<>> /\ server.begun = None)
  /\ server.begun = None \/ (Len(server.todo) = 1 /\ server.todo[1].do = "finish")
  /\ \A k \in DOMAIN server.todo :
       /\ server.todo[k].do = "finish" => k = 1
       /\ server.todo[k].do = "serve" => k = Len(server.todo)
       /\ server.todo[k].do = "answer" =>
            server.todo[k].answer.pictures \subseteq {Picture(server.todo[k].answer.i)}

\* No capture was begun for a request that is still to be served.
Begun == IF \E k \in DOMAIN server.todo : server.todo[k].do = "serve" THEN Taken - 1 ELSE Taken

IInv ==
  /\ Types /\ Numbered
  /\ server.on => InLine /\ Shaped
  /\ ~server.on => server = NoServer
  /\ Sound(gpu, Flights, Begun)
-----------------------------------------------------------------------------
(* The operators of the engine keep it sound.                              *)

LEMMA SlotsAre == Slots = {0, 1} /\ READBACK_SLOTS = 2 /\ Cameras # {}
BY PipelineAssumption DEF Slots, READBACK_SLOTS

\* Whatever begins with fewer flights to collect, or a later number, is still sound.
LEMMA Weaker ==
  ASSUME NEW g \in Gpus, NEW flights, NEW fewer \in SUBSET flights,
         NEW bound \in Int, NEW later \in Int, bound <= later,
         Sound(g, flights, bound)
  PROVE  Sound(g, fewer, later)
BY DEF Sound, Lost, Gpus, Maps, Numbers

\* As the numbers of the maps are distinct, they are finitely many.
LEMMA FinitelyMany ==
  ASSUME NEW g \in Gpus, Unique(g.maps)
  PROVE  IsFiniteSet(g.maps)
<1>. DEFINE f == [m \in g.maps |-> m.of]
<1>1. MaxRequests \in Nat BY PipelineAssumption
<1>2. g.maps \subseteq Maps BY DEF Gpus
<1>3. f \in [g.maps -> Numbers] BY <1>2 DEF Maps
<1>4. f \in Injection(g.maps, Numbers)
  BY <1>3 DEF Unique, Injection, IsInjective
<1>5. IsFiniteSet(Numbers) BY <1>1, FS_Interval DEF Numbers
<1>. QED BY <1>4, <1>5, FS_Injection

\* The limit of capture_begin: with fewer maps than slots there is at most one.
LEMMA Limit ==
  ASSUME NEW g \in Gpus, Unique(g.maps)
  PROVE  /\ ~AllHeld(g) => \A m, n \in g.maps : m = n
         /\ AllHeld(g) => \E m, n \in g.maps : m # n
<1>1. IsFiniteSet(g.maps) BY FinitelyMany
<1>2. Cardinality(g.maps) \in Nat BY <1>1, FS_CardinalityType
<1>3. ASSUME NEW m \in g.maps, NEW n \in g.maps, m # n
      PROVE  AllHeld(g)
  <2>1. {m} \cup {n} \in SUBSET g.maps OBVIOUS
  <2>2. IsFiniteSet({m}) /\ Cardinality({m}) = 1 BY FS_Singleton
  <2>3. Cardinality({m} \cup {n}) = 2 BY <1>3, <2>2, FS_AddElement
  <2>4. Cardinality({m} \cup {n}) <= Cardinality(g.maps) BY <1>1, <2>1, FS_Subset
  <2>. QED BY <2>3, <2>4, <1>2, SlotsAre DEF AllHeld
<1>4. ASSUME \A m, n \in g.maps : m = n
      PROVE  ~AllHeld(g)
  <2>1. g.maps = {} \/ \E x : g.maps = {x} BY <1>4
  <2>2. Cardinality(g.maps) \in {0, 1} BY <2>1, FS_EmptySet, FS_Singleton
  <2>. QED BY <2>2, SlotsAre DEF AllHeld
<1>. QED BY <1>3, <1>4

\* The slot a capture takes is one of the two, and below the limit no map holds it.
LEMMA TakesSlot ==
  ASSUME NEW g \in Gpus
  PROVE  /\ free_slot(g) \in Slots
         /\ (\A m, n \in g.maps : m = n) => \A m \in g.maps : m.slot # free_slot(g)
<1>. DEFINE free == {s \in Slots : \A m \in g.maps : m.slot # s}
<1>1. free_slot(g) = IF free = {} THEN 0 ELSE Min(free) BY DEF free_slot, Holds
<1>2. free \subseteq {0, 1} BY SlotsAre
<1>3. ASSUME free # {} PROVE Min(free) \in free
  <2>1. \E x \in free : \A y \in free : x <= y BY <1>2, <1>3
  <2>. QED BY <2>1 DEF Min
<1>4. ASSUME \A m, n \in g.maps : m = n PROVE free # {}
  <2>1. CASE g.maps = {} BY <2>1, SlotsAre
  <2>2. CASE g.maps # {}
    <3>1. PICK m \in g.maps : TRUE BY <2>2
    <3>2. \A n \in g.maps : n.slot = m.slot BY <1>4
    <3>3. PICK s \in Slots : s # m.slot BY SlotsAre
    <3>. QED BY <3>2, <3>3
  <2>. QED BY <2>1, <2>2
<1>. QED BY <1>1, <1>3, <1>4, SlotsAre

\* The buffers of targets that are gone are dropped: no map changes its number or slot.
LEMMA ResizedKeeps ==
  ASSUME NEW g \in Gpus, NEW cams \in SUBSET Cameras, NEW flights, NEW bound \in Int,
         Sound(g, flights, bound)
  PROVE  Resized(g, cams) \in Gpus /\ Sound(Resized(g, cams), flights, bound)
<1>. DEFINE r == Resized(g, cams)
            changed(m) == [m EXCEPT !.waiting = @ \ cams, !.failed = @ \/ m.waiting \cap cams # {}]
<1>1. r.maps = {changed(m) : m \in g.maps} /\ r.refused = g.refused
  BY DEF Resized, Gpus
<1>2. \A s \in Slots : \A c \in Cameras :
        r.staging[s][c] = IF c \in cams THEN Absent ELSE g.staging[s][c]
  BY DEF Resized, Gpus
<1>3. \A m \in g.maps : changed(m) \in Maps /\ changed(m).of = m.of /\ changed(m).slot = m.slot
  BY DEF Gpus, Maps
<1>4. r \in Gpus
  <2>1. r.maps \in SUBSET Maps BY <1>1, <1>3
  <2>2. Absent \in Buffers BY PipelineAssumption DEF Absent, Buffers
  <2>3. r.staging \in [Slots -> [Cameras -> Buffers]] BY <2>2 DEF Resized, Gpus
  <2>. QED BY <2>1, <2>3 DEF Resized, Gpus
<1>. HIDE DEF r, changed
<1>5. Unique(r.maps) BY <1>1, <1>3 DEF Unique, Sound
<1>6. \A m \in r.maps : m.of <= bound BY <1>1, <1>3 DEF Sound
<1>7. ASSUME NEW f \in flights PROVE Collectable(r, f)
  <2>1. Collectable(g, f) BY DEF Sound
  <2>2. Carries(r, f) BY <1>1, <1>3, <2>1 DEF Carries, Collectable
  <2>3. ASSUME NEW m \in r.maps, m.of = f.i PROVE Kept(r, m)
    <3>1. PICK n \in g.maps : m = changed(n) /\ n.of = f.i BY <1>1, <1>3, <2>3
    <3>2. Kept(g, n) BY <2>1, <3>1 DEF Collectable
    <3>3. \A k \in r.maps : k.slot = m.slot => k = m BY <1>1, <1>3, <3>1, <3>2 DEF Kept
    <3>4. m.slot = n.slot /\ m.of = n.of /\ n.slot \in Slots BY <1>3, <3>1 DEF Gpus, Maps
    <3>5. \A c \in Cameras : r.staging[m.slot][c].copied => r.staging[m.slot][c].shows = m.of
      BY <1>2, <3>2, <3>4 DEF Kept, Absent
    <3>. QED BY <3>3, <3>5 DEF Kept
  <2>. QED BY <2>2, <2>3 DEF Collectable
<1>8. ASSUME r.refused PROVE Lost(r, flights) # {}
  <2>1. PICK m \in g.maps : \A f \in flights : f.i # m.of BY <1>1, <1>8 DEF Sound, Lost
  <2>2. changed(m) \in r.maps /\ changed(m).of = m.of BY <1>1, <1>3
  <2>. QED BY <2>1, <2>2 DEF Lost
<1>. QED BY <1>4, <1>5, <1>6, <1>7, <1>8 DEF Sound, r

\* No bundle waits for a map in the slot that the next capture takes.
Clear(g, flights) == \A m \in g.maps, f \in flights : m.of = f.i => m.slot # free_slot(g)

\* A submission into a slot that no bundle waits for.
LEMMA SubmitKeeps ==
  ASSUME NEW g \in Gpus, NEW flights, NEW bound \in Int, NEW buffer \in Buffers,
         Sound(g, flights, bound), Clear(g, flights)
  PROVE  LET s == free_slot(g)
         IN  /\ Copied(g, s, buffer) \in Gpus /\ Sound(Copied(g, s, buffer), flights, bound)
             /\ Broken(g, s) \in Gpus /\ Sound(Broken(g, s), flights, bound)
             /\ Copied(g, s, buffer).maps = g.maps
             /\ \A c \in Cameras : Copied(g, s, buffer).staging[s][c] = buffer
<1>. DEFINE s == free_slot(g)
            d == Copied(g, s, buffer)
            b == Broken(g, s)
<1>1. s \in Slots BY TakesSlot
<1>. HIDE DEF s
<1>2. (\E m \in g.maps : Holds(m, s)) \in BOOLEAN BY Zenon
<1>3. /\ d \in Gpus /\ d.maps = g.maps /\ d.refused = g.refused
      /\ \A c \in Cameras : d.staging[s][c] = buffer
      /\ \A t \in Slots : t # s => d.staging[t] = g.staging[t]
  BY <1>1, <1>2 DEF Copied, Gpus
<1>4. b \in Gpus /\ b.maps = g.maps /\ b.refused = g.refused /\ b.staging = g.staging
  BY <1>1, <1>2 DEF Broken, Gpus
<1>. HIDE DEF d, b
<1>5. ASSUME NEW f \in flights PROVE Collectable(d, f) /\ Collectable(b, f)
  <2>1. Collectable(g, f) BY DEF Sound
  <2>2. Carries(d, f) /\ Carries(b, f) BY <1>3, <1>4, <2>1 DEF Carries, Collectable
  <2>3. ASSUME NEW m \in g.maps, m.of = f.i PROVE Kept(d, m) /\ Kept(b, m)
    <3>1. Kept(g, m) BY <2>1, <2>3 DEF Collectable
    <3>2. m.slot # s /\ m.slot \in Slots BY <2>3 DEF Clear, s, Gpus, Maps
    <3>. QED BY <1>3, <1>4, <3>1, <3>2 DEF Kept
  <2>. QED BY <1>3, <1>4, <2>2, <2>3 DEF Collectable
<1>6. Sound(d, flights, bound) /\ Sound(b, flights, bound)
  BY <1>3, <1>4, <1>5 DEF Sound, Lost
<1>. QED BY <1>3, <1>4, <1>6 DEF s, d, b

ReadyTicket(i) == [pending |-> None, picture |-> Some(Picture(i))]
PendingTicket(i) == [pending |-> Some(i), picture |-> None]

\* A capture that waits for its pixels leaves no map behind.
LEMMA CaptureKeeps ==
  ASSUME NEW g \in Gpus, NEW flights, NEW bound \in Int, NEW i,
         Sound(g, flights, bound), Clear(g, flights), NEW o \in Capture(g, i)
  PROVE  /\ o.gpu \in Gpus /\ Sound(o.gpu, flights, bound) /\ o.gpu.maps = g.maps
         /\ o.ticket = None \/ o.ticket = {ReadyTicket(i)}
<1>1. Idle \in Buffers BY PipelineAssumption DEF Idle, Buffers
<1>2. Broken(g, free_slot(g)).maps = g.maps BY DEF Broken, Gpus
<1>. QED BY <1>1, <1>2, SubmitKeeps DEF Capture, Ready, Failed, ReadyTicket, Some

\* A bundle that has its picture joins the others.
LEMMA JoinsReady ==
  ASSUME NEW g \in Gpus, NEW flights, NEW bound \in Int, NEW i \in Int, bound < i,
         Sound(g, flights, bound)
  PROVE  Sound(g, flights \cup {Flight(i, ReadyTicket(i))}, i)
<1>. DEFINE f == Flight(i, ReadyTicket(i))
<1>1. f.i = i /\ f.ticket = ReadyTicket(i) BY DEF Flight
<1>2. \A m \in g.maps : m.of <= bound /\ m.of \in Int BY DEF Sound, Gpus, Maps, Numbers
<1>3. Collectable(g, f) BY <1>1, <1>2 DEF Collectable, Carries, ReadyTicket
<1>. HIDE DEF f
<1>4. \A m \in g.maps : m.of <= i BY <1>2
<1>5. g.refused => Lost(g, flights \cup {f}) # {} BY <1>1, <1>2 DEF Sound, Lost
<1>. QED BY <1>3, <1>4, <1>5 DEF Sound, f

\* A bundle that waits for its pixels joins the others with a map of its own.
LEMMA JoinsPending ==
  ASSUME NEW g \in Gpus, NEW flights, NEW bound \in Int, NEW i \in Numbers, bound < i,
         \A f \in flights : f.i <= bound /\ f.i \in Int,
         Sound(g, flights, bound),
         NEW s \in Slots, \A m \in g.maps : m.slot # s,
         \A c \in Cameras : g.staging[s][c].copied => g.staging[s][c].shows = i
  PROVE  LET map == [of |-> i, slot |-> s, waiting |-> Cameras, failed |-> FALSE]
             p == [g EXCEPT !.maps = @ \cup {map}]
         IN  p \in Gpus /\ Sound(p, flights \cup {Flight(i, PendingTicket(i))}, i)
<1>. DEFINE map == [of |-> i, slot |-> s, waiting |-> Cameras, failed |-> FALSE]
            p == [g EXCEPT !.maps = @ \cup {map}]
            f == Flight(i, PendingTicket(i))
<1>0. i \in Int BY PipelineAssumption DEF Numbers
<1>1. f.i = i /\ f.ticket = PendingTicket(i) BY DEF Flight
<1>2. map \in Maps /\ map.of = i /\ map.slot = s BY DEF Maps
<1>3. /\ p.maps = g.maps \cup {map} /\ p.staging = g.staging /\ p.refused = g.refused
      /\ p \in Gpus
  BY <1>2 DEF Gpus
<1>4. \A m \in g.maps : m.of <= bound /\ m.of \in Int /\ m.slot # s
  BY <1>0 DEF Sound, Gpus, Maps, Numbers
<1>. HIDE DEF p, map, f
<1>5. Unique(p.maps) BY <1>0, <1>2, <1>3, <1>4 DEF Unique, Sound
<1>6. \A m \in p.maps : m.of <= i BY <1>0, <1>2, <1>3, <1>4
<1>7. Collectable(p, f)
  <2>1. Kept(p, map) BY <1>2, <1>3, <1>4 DEF Kept
  <2>2. \A m \in p.maps : m.of = f.i => m = map BY <1>0, <1>1, <1>3, <1>4
  <2>. QED BY <2>1, <2>2, <1>1, <1>2, <1>3 DEF Collectable, Carries, PendingTicket
<1>8. ASSUME NEW h \in flights PROVE Collectable(p, h)
  <2>1. Collectable(g, h) BY DEF Sound
  <2>2. Carries(p, h) BY <2>1, <1>3 DEF Collectable, Carries
  <2>3. ASSUME NEW m \in p.maps, m.of = h.i PROVE Kept(p, m)
    <3>1. m \in g.maps BY <2>3, <1>0, <1>2, <1>3
    <3>2. Kept(g, m) BY <2>1, <2>3, <3>1 DEF Collectable
    <3>. QED BY <3>1, <3>2, <1>2, <1>3, <1>4 DEF Kept
  <2>. QED BY <2>2, <2>3 DEF Collectable
<1>9. ASSUME p.refused PROVE Lost(p, flights \cup {f}) # {}
  <2>1. PICK m \in g.maps : \A h \in flights : h.i # m.of BY <1>3, <1>9 DEF Sound, Lost
  <2>2. m.of # f.i BY <1>0, <1>1, <1>4
  <2>. QED BY <2>1, <2>2, <1>3 DEF Lost
<1>. QED BY <1>3, <1>5, <1>6, <1>7, <1>8, <1>9 DEF Sound, p, f, map

\* capture_begin, with at most one bundle in flight: a new bundle has a map in a
\* slot of its own or its picture, and it is refused only if a map is lost.
LEMMA CaptureBeginKeeps ==
  ASSUME NEW g \in Gpus, NEW flights, NEW bound \in Int, NEW i \in Numbers, bound < i,
         \A f \in flights : f.i <= bound /\ f.i \in Int,
         \A f, h \in flights : f = h,
         Sound(g, flights, bound), NEW o \in CaptureBegin(g, i)
  PROVE  /\ o.gpu \in Gpus
         /\ o.ticket = None \/ o.ticket = {ReadyTicket(i)} \/ o.ticket = {PendingTicket(i)}
         /\ Sound(o.gpu, flights \cup {Flight(i, t) : t \in o.ticket}, i)
<1>0. i \in Int BY PipelineAssumption DEF Numbers
<1>. DEFINE new == {Flight(i, t) : t \in o.ticket}
<1>3. o.ticket = None => flights \cup new = flights BY DEF None
<1>1. CASE AllHeld(g)
  <2>. DEFINE r == [g EXCEPT !.refused = TRUE]
  <2>1. o.gpu = r /\ o.ticket = None BY <1>1 DEF CaptureBegin, Failed
  <2>2. r \in Gpus /\ r.maps = g.maps /\ r.staging = g.staging BY DEF Gpus
  <2>3. PICK m, n \in g.maps : m # n BY <1>1, Limit DEF Sound
  <2>4. m.of # n.of BY <2>3 DEF Sound, Unique
  <2>. HIDE DEF r
  <2>5. Lost(r, flights) # {} BY <2>2, <2>4 DEF Lost
  <2>6. \A f \in flights : Collectable(r, f) BY <2>2 DEF Sound, Collectable, Carries, Kept
  <2>7. Sound(r, flights, bound) BY <2>2, <2>5, <2>6 DEF Sound
  <2>8. Sound(r, flights, i) BY <2>2, <2>7, <1>0, Weaker
  <2>. QED BY <2>1, <2>2, <2>8, <1>3
<1>2. CASE ~AllHeld(g)
  <2>. DEFINE s == free_slot(g)
              buffer == [map |-> "pending", copied |-> TRUE, shows |-> i]
              d == Copied(g, s, buffer)
  <2>1. \A m, n \in g.maps : m = n BY <1>2, Limit DEF Sound
  <2>2. s \in Slots /\ \A m \in g.maps : m.slot # s BY <2>1, TakesSlot
  <2>3. Clear(g, flights) BY <2>2 DEF Clear
  <2>4. CASE o = Failed(Broken(g, s))
    <3>1. o.gpu = Broken(g, s) /\ o.ticket = None BY <2>4 DEF Failed
    <3>2. Idle \in Buffers BY PipelineAssumption DEF Idle, Buffers
    <3>3. o.gpu \in Gpus /\ Sound(o.gpu, flights, bound) BY <2>3, <3>1, <3>2, SubmitKeeps
    <3>4. Sound(o.gpu, flights, i) BY <3>3, <1>0, Weaker
    <3>. QED BY <3>1, <3>3, <3>4, <1>3
  <2>5. CASE o \in Capture(g, i)
    <3>1. /\ o.gpu \in Gpus /\ Sound(o.gpu, flights, bound)
          /\ o.ticket = None \/ o.ticket = {ReadyTicket(i)}
      BY <2>3, <2>5, CaptureKeeps
    <3>2. CASE o.ticket = None
      <4>1. Sound(o.gpu, flights, i) BY <3>1, <1>0, Weaker
      <4>. QED BY <3>1, <3>2, <4>1, <1>3
    <3>3. CASE o.ticket = {ReadyTicket(i)}
      <4>1. Sound(o.gpu, flights \cup {Flight(i, ReadyTicket(i))}, i) BY <3>1, <1>0, JoinsReady
      <4>2. {Flight(i, t) : t \in o.ticket} = {Flight(i, ReadyTicket(i))} BY <3>3
      <4>. QED BY <3>1, <3>3, <4>1, <4>2
    <3>. QED BY <3>1, <3>2, <3>3
  <2>6. CASE o = Pending([d EXCEPT !.maps = @ \cup {[of |-> i, slot |-> s, waiting |-> Cameras,
                                                     failed |-> FALSE]}], i)
    <3>1. buffer \in Buffers BY PipelineAssumption DEF Buffers, Numbers
    <3>2. /\ d \in Gpus /\ Sound(d, flights, bound) /\ d.maps = g.maps
          /\ \A c \in Cameras : d.staging[s][c] = buffer
      BY <2>3, <3>1, SubmitKeeps
    <3>3. o.ticket = {PendingTicket(i)} BY <2>6 DEF Pending, PendingTicket, Some
    <3>4. {Flight(i, t) : t \in o.ticket} = {Flight(i, PendingTicket(i))} BY <3>3
    <3>. HIDE DEF s, d
    <3>5. \A c \in Cameras : d.staging[s][c].copied => d.staging[s][c].shows = i BY <3>2
    <3>6. /\ o.gpu \in Gpus
          /\ Sound(o.gpu, flights \cup {Flight(i, PendingTicket(i))}, i)
      BY <2>2, <2>6, <3>2, <3>5, JoinsPending DEF Pending
    <3>. QED BY <3>3, <3>4, <3>6
  <2>7. o \in {Failed(Broken(g, s))} \cup Capture(g, i)
          \cup {Pending([d EXCEPT !.maps = @ \cup {[of |-> i, slot |-> s, waiting |-> Cameras,
                                                    failed |-> FALSE]}], i)}
    BY <1>2 DEF CaptureBegin
  <2>. QED BY <2>4, <2>5, <2>6, <2>7
<1>. QED BY <1>1, <1>2

\* begin_bundle, with at most one bundle in flight.
LEMMA BeginKeeps ==
  ASSUME NEW g \in Gpus, NEW flights, NEW bound \in Int, NEW request \in Asks, bound < request.i,
         \A f \in flights : f.i <= bound /\ f.i \in Int,
         \A f, h \in flights : f = h,
         Sound(g, flights, bound), NEW o \in Begin(g, request)
  PROVE  LET i == request.i
         IN  /\ o.gpu \in Gpus
             /\ o.ticket = None \/ o.ticket = {ReadyTicket(i)} \/ o.ticket = {PendingTicket(i)}
             /\ Sound(o.gpu, flights \cup {Flight(i, t) : t \in o.ticket}, i)
<1>. DEFINE i == request.i
            r == Resized(g, request.resize)
            new == {Flight(i, t) : t \in o.ticket}
<1>1. i \in Numbers /\ i \in Int /\ request.resize \in SUBSET Cameras
  BY PipelineAssumption DEF Asks, Numbers
<1>2. r \in Gpus /\ Sound(r, flights, bound) BY <1>1, ResizedKeeps
<1>3. o.ticket = None => flights \cup new = flights BY DEF None
<1>4. CASE o = Failed(g)
  <2>1. o.gpu = g /\ o.ticket = None BY <1>4 DEF Failed
  <2>2. Sound(g, flights, i) BY <1>1, Weaker
  <2>. QED BY <2>1, <2>2, <1>3
<1>5. CASE o \in CaptureBegin(r, i)
  <2>. HIDE DEF r
  <2>. QED BY <1>1, <1>2, <1>5, CaptureBeginKeeps
<1>6. CASE \E c \in CaptureBegin(r, i) : o = Failed(c.gpu)
  <2>1. PICK c \in CaptureBegin(r, i) : o = Failed(c.gpu) BY <1>6
  <2>2. o.gpu = c.gpu /\ o.ticket = None BY <2>1 DEF Failed
  <2>. DEFINE all == flights \cup {Flight(i, t) : t \in c.ticket}
  <2>. HIDE DEF r, i
  <2>3. c.gpu \in Gpus /\ Sound(c.gpu, all, i)
    <3>1. bound < i BY DEF i
    <3>. QED BY <3>1, <1>1, <1>2, CaptureBeginKeeps
  <2>4. flights \in SUBSET all OBVIOUS
  <2>. HIDE DEF all
  <2>5. Sound(c.gpu, flights, i) BY <2>3, <2>4, <1>1, Weaker
  <2>. QED BY <2>2, <2>3, <2>5, <1>3 DEF i
<1>7. o = Failed(g) \/ o \in CaptureBegin(r, i) \/ \E c \in CaptureBegin(r, i) : o = Failed(c.gpu)
  BY DEF Begin
<1>. QED BY <1>4, <1>5, <1>6, <1>7

\* render_tick, with nothing in flight.
LEMMA TickKeeps ==
  ASSUME NEW g \in Gpus, NEW flights, flights = {}, NEW bound \in Int, NEW request \in Asks,
         Sound(g, flights, bound), NEW o \in RenderTick(g, request)
  PROVE  /\ o.gpu \in Gpus /\ Sound(o.gpu, flights, bound)
         /\ o.ticket = None \/ o.ticket = {ReadyTicket(request.i)}
<1>. DEFINE r == Resized(g, request.resize)
<1>1. request.resize \in SUBSET Cameras BY DEF Asks
<1>2. r \in Gpus /\ Sound(r, flights, bound) BY <1>1, ResizedKeeps
<1>3. Clear(r, flights) BY DEF Clear
<1>4. CASE o = Failed(g) BY <1>4 DEF Failed
<1>5. CASE o \in Capture(r, request.i)
  <2>. HIDE DEF r
  <2>. QED BY <1>2, <1>3, <1>5, CaptureKeeps
<1>. QED BY <1>4, <1>5 DEF RenderTick

\* Taking a map off the list, whatever becomes of the buffers of its slot, leaves
\* the other bundles theirs.
LEMMA WithoutKeeps ==
  ASSUME NEW g \in Gpus, NEW flights, NEW bound \in Int, NEW f \in flights, NEW m \in g.maps,
         \A h \in flights : h.i = f.i => h = f,
         Sound(g, flights, bound), m.of = f.i,
         NEW p \in Gpus, p.maps = g.maps \ {m}, p.refused = g.refused,
         \A s \in Slots : s # m.slot => p.staging[s] = g.staging[s]
  PROVE  Sound(p, flights \ {f}, bound)
<1>1. Kept(g, m) BY DEF Sound, Collectable
<1>2. ASSUME NEW h \in flights \ {f} PROVE Collectable(p, h)
  <2>1. Collectable(g, h) BY DEF Sound
  <2>2. h.i # f.i OBVIOUS
  <2>3. Carries(p, h) BY <2>1, <2>2 DEF Collectable, Carries
  <2>4. ASSUME NEW n \in p.maps, n.of = h.i PROVE Kept(p, n)
    <3>1. n \in g.maps /\ n # m /\ n.slot \in Slots BY DEF Gpus, Maps
    <3>2. n.slot # m.slot BY <3>1, <1>1 DEF Kept
    <3>3. Kept(g, n) BY <2>1, <2>4, <3>1 DEF Collectable
    <3>. QED BY <3>1, <3>2, <3>3 DEF Kept
  <2>. QED BY <2>3, <2>4 DEF Collectable
<1>3. ASSUME p.refused PROVE Lost(p, flights \ {f}) # {}
  <2>1. PICK n \in g.maps : \A h \in flights : h.i # n.of BY <1>3 DEF Sound, Lost
  <2>2. n \in p.maps BY <2>1
  <2>. QED BY <2>1, <2>2 DEF Lost
<1>. QED BY <1>2, <1>3 DEF Sound, Unique

\* finish_bundle: the answer has the bundle's number, and its pictures or none.
LEMMA FinishKeeps ==
  ASSUME NEW g \in Gpus, NEW flights, NEW bound \in Int, NEW f \in flights, f \in Bundles,
         \A h \in flights : h.i = f.i => h = f,
         Sound(g, flights, bound), NEW o \in Finish(g, f)
  PROVE  /\ o.gpu \in Gpus /\ Sound(o.gpu, flights \ {f}, bound)
         /\ o.answer \in Replies /\ o.answer.i = f.i
         /\ o.answer.pictures \subseteq {Picture(f.i)}
<1>1. Collectable(g, f) BY DEF Sound
<1>2. f.i \in Numbers /\ Picture(f.i) \in Pictures /\ MaxRequests \in Nat
  BY PipelineAssumption DEF Bundles, Picture, Pictures, Numbers
<1>3. \A pictures : pictures \subseteq {Picture(f.i)} =>
        /\ Answer(f.i, pictures) \in Replies /\ Answer(f.i, pictures).i = f.i
        /\ Answer(f.i, pictures).pictures = pictures
  BY <1>2 DEF Answer, Replies
<1>4. CASE f.ticket.pending = None
  <2>1. f.ticket.picture = {Picture(f.i)}
    BY <1>1, <1>4 DEF Collectable, Carries, Some, None
  <2>2. o.gpu = g /\ o.answer \in {Answer(f.i, f.ticket.picture), Answer(f.i, {})}
    BY <1>4 DEF Finish, Error, None
  <2>3. Sound(g, flights \ {f}, bound) BY Weaker
  <2>. QED BY <2>1, <2>2, <2>3, <1>3
<1>5. CASE f.ticket.pending # None
  <2>. DEFINE m == Collects(g, f.i)
              c == Collected(g, m)
              e == Forgotten(g, m)
  <2>1. m \in g.maps /\ m.of = f.i
    BY <1>1, <1>5 DEF Collects, Collectable, Carries, Some, None
  <2>. HIDE DEF m
  <2>2. Kept(g, m) /\ m.slot \in Slots BY <1>1, <2>1 DEF Collectable, Gpus, Maps
  <2>3. /\ e \in Gpus /\ e.maps = g.maps \ {m} /\ e.refused = g.refused
        /\ e.staging = g.staging
    BY DEF Forgotten, Gpus
  <2>4. /\ c.gpu \in Gpus /\ c.gpu.maps = g.maps \ {m} /\ c.gpu.refused = g.refused
        /\ \A s \in Slots : s # m.slot => c.gpu.staging[s] = g.staging[s]
    <3>. DEFINE freed(b) == IF ~b.copied THEN b
                            ELSE [b EXCEPT !.copied = FALSE, !.map = IF m.failed THEN @ ELSE "idle"]
                now == [k \in Cameras |-> freed(g.staging[m.slot][k])]
    <3>1. g.staging \in [Slots -> [Cameras -> Buffers]] BY DEF Gpus
    <3>2. \A k \in Cameras : freed(g.staging[m.slot][k]) \in Buffers
      <4>1. TAKE k \in Cameras
      <4>2. g.staging[m.slot][k] \in Buffers BY <2>2, <3>1
      <4>. QED BY <4>2 DEF Buffers
    <3>3. c.gpu = [g EXCEPT !.maps = @ \ {m}, !.staging[m.slot] = now]
      BY DEF Collected
    <3>. HIDE DEF freed
    <3>4. now \in [Cameras -> Buffers] BY <3>2
    <3>. HIDE DEF now, c
    <3>5. c.gpu.staging = [g.staging EXCEPT ![m.slot] = now] BY <3>3 DEF Gpus
    <3>6. c.gpu.staging \in [Slots -> [Cameras -> Buffers]] BY <3>1, <3>4, <3>5
    <3>. QED BY <2>2, <3>1, <3>3, <3>5, <3>6 DEF Gpus
  <2>5. c.pictures \subseteq {Picture(f.i)}
    BY <2>1, <2>2 DEF Collected, Kept, Picture
  <2>6. /\ o.gpu \in {c.gpu, e}
        /\ o.answer \in {Answer(f.i, c.pictures), Answer(f.i, {})}
    BY <1>5 DEF Finish, Error, None, m
  <2>. HIDE DEF c, e
  <2>7. Sound(c.gpu, flights \ {f}, bound) /\ Sound(e, flights \ {f}, bound)
    BY <2>1, <2>3, <2>4, WithoutKeeps
  <2>. QED BY <2>3, <2>4, <2>5, <2>6, <2>7, <1>3
<1>. QED BY <1>4, <1>5

\* What a poll that completes a map does to the engine.
Completed(g, m) ==
  [g EXCEPT
     !.maps = (@ \ {m}) \cup {[m EXCEPT !.waiting = {}]},
     !.staging[m.slot] =
       [c \in Cameras |-> IF c \in m.waiting THEN [@[c] EXCEPT !.map = "mapped"] ELSE @[c]]]

\* It changes neither the number nor the slot of the map.
LEMMA DoneKeeps ==
  ASSUME NEW g \in Gpus, NEW flights, NEW bound \in Int, NEW m \in g.maps,
         Sound(g, flights, bound)
  PROVE  Completed(g, m) \in Gpus /\ Sound(Completed(g, m), flights, bound)
<1>. DEFINE d == [m EXCEPT !.waiting = {}]
            p == Completed(g, m)
<1>1. m \in Maps /\ d \in Maps /\ d.of = m.of /\ d.slot = m.slot /\ m.slot \in Slots BY DEF Gpus, Maps
<1>. HIDE DEF d
<1>. DEFINE buffer(c) == IF c \in m.waiting THEN [g.staging[m.slot][c] EXCEPT !.map = "mapped"]
                         ELSE g.staging[m.slot][c]
<1>7. \A c \in Cameras :
        /\ buffer(c) \in Buffers
        /\ buffer(c).copied = g.staging[m.slot][c].copied
        /\ buffer(c).shows = g.staging[m.slot][c].shows
  <2>1. TAKE c \in Cameras
  <2>2. g.staging[m.slot][c] \in Buffers BY <1>1 DEF Gpus
  <2>. QED BY <2>2 DEF Buffers
<1>8. p.staging = [g.staging EXCEPT ![m.slot] = [c \in Cameras |-> buffer(c)]]
  BY DEF Gpus, Completed
<1>. HIDE DEF buffer
<1>9. [c \in Cameras |-> buffer(c)] \in [Cameras -> Buffers] BY <1>7
<1>10. g.staging \in [Slots -> [Cameras -> Buffers]] BY DEF Gpus
<1>11. p.staging \in [Slots -> [Cameras -> Buffers]] BY <1>8, <1>9, <1>10
<1>2. p \in Gpus /\ p.maps = (g.maps \ {m}) \cup {d} /\ p.refused = g.refused
  BY <1>1, <1>11 DEF Gpus, Completed, d
<1>3. \A s \in Slots, c \in Cameras :
        /\ p.staging[s][c].copied = g.staging[s][c].copied
        /\ p.staging[s][c].shows = g.staging[s][c].shows
  BY <1>1, <1>7, <1>8, <1>10
<1>. HIDE DEF p
<1>4. ASSUME NEW f \in flights PROVE Collectable(p, f)
  <2>1. Collectable(g, f) BY DEF Sound
  <2>2. Carries(p, f) BY <2>1, <1>1, <1>2 DEF Collectable, Carries
  <2>3. ASSUME NEW n \in p.maps, n.of = f.i PROVE Kept(p, n)
    <3>1. PICK k \in g.maps : k.of = n.of /\ k.slot = n.slot /\ n = (IF k = m THEN d ELSE k)
      BY <1>1, <1>2
    <3>2. Kept(g, k) /\ k.slot \in Slots BY <2>1, <2>3, <3>1 DEF Collectable, Gpus, Maps
    <3>3. \A j \in p.maps : j.slot = n.slot => j = n BY <1>1, <1>2, <3>1, <3>2 DEF Kept
    <3>. QED BY <1>3, <3>1, <3>2, <3>3 DEF Kept
  <2>. QED BY <2>2, <2>3 DEF Collectable
<1>5. Unique(p.maps) /\ \A n \in p.maps : n.of <= bound BY <1>1, <1>2 DEF Sound, Unique
<1>6. ASSUME p.refused PROVE Lost(p, flights) # {}
  <2>1. PICK n \in g.maps : \A f \in flights : f.i # n.of BY <1>2, <1>6 DEF Sound, Lost
  <2>2. \E k \in p.maps : k.of = n.of BY <1>1, <1>2
  <2>. QED BY <2>1, <2>2 DEF Lost
<1>. QED BY <1>2, <1>4, <1>5, <1>6 DEF Sound, p, d

-----------------------------------------------------------------------------
(* The steps of the loop.                                                  *)

\* The flights of the tasks, when only the first may be to finish one.
LEMMA TodoFlights ==
  ASSUME NEW todo \in Seq(Tasks), \A k \in DOMAIN todo : todo[k].do = "finish" => k = 1
  PROVE  {t.flight : t \in {x \in ToSet(todo) : x.do = "finish"}}
           = IF todo # <<>> /\ todo[1].do = "finish" THEN {todo[1].flight} ELSE {}
<1>1. DOMAIN todo = 1..Len(todo) /\ Len(todo) \in Nat BY LenProperties
<1>2. ToSet(todo) = {todo[k] : k \in DOMAIN todo} BY DEF ToSet
<1>3. todo # <<>> => 1 \in DOMAIN todo BY <1>1, EmptySeq
<1>4. todo = <<>> => DOMAIN todo = {} BY <1>1, EmptySeq
<1>. QED BY <1>2, <1>3, <1>4

\* The flights of a service whose todo is of the loop's shape.
HeadFlights(s) ==
  s.in_flight \cup s.begun
    \cup (IF s.todo # <<>> /\ s.todo[1].do = "finish" THEN {s.todo[1].flight} ELSE {})

LEMMA FlightsAre ==
  ASSUME server.todo \in Seq(Tasks), \A k \in DOMAIN server.todo : server.todo[k].do = "finish" => k = 1
  PROVE  Flights = HeadFlights(server)
BY TodoFlights DEF Flights, HeadFlights

LEMMA FlightsNext ==
  ASSUME server'.todo \in Seq(Tasks), \A k \in DOMAIN server'.todo : server'.todo[k].do = "finish" => k = 1
  PROVE  Flights' = HeadFlights(server')
BY TodoFlights DEF Flights, HeadFlights

LEMMA TaskTypes ==
  ASSUME NEW t \in Tasks
  PROVE  /\ t.do \in {"finish", "answer", "serve"}
         /\ t.do = "finish" => t.flight \in Bundles
         /\ t.do = "answer" => t.answer \in Replies
         /\ t.do = "serve" => t.request \in Asks
         /\ Number(t) \in Numbers
BY DEF Tasks, FinishTasks, AnswerTasks, ServeTasks, Number, Bundles, Replies, Asks

LEMMA TaskMade ==
  /\ \A f \in Bundles : FinishTask(f) \in Tasks /\ FinishTask(f).do = "finish"
       /\ FinishTask(f).flight = f /\ Number(FinishTask(f)) = f.i
  /\ \A a \in Replies : AnswerTask(a) \in Tasks /\ AnswerTask(a).do = "answer"
       /\ AnswerTask(a).answer = a /\ Number(AnswerTask(a)) = a.i
  /\ \A r \in Asks : ServeTask(r) \in Tasks /\ ServeTask(r).do = "serve"
       /\ ServeTask(r).request = r /\ Number(ServeTask(r)) = r.i
BY DEF Tasks, FinishTasks, AnswerTasks, ServeTasks, Number, FinishTask, AnswerTask, ServeTask

\* The lengths and numbers are integers, and nothing was begun that was not sent.
LEMMA Counts ==
  ASSUME IInv
  PROVE  /\ sent \in Nat /\ MaxRequests \in Nat
         /\ Len(wire) \in Nat /\ DOMAIN wire = 1..Len(wire)
         /\ Len(asked) \in Nat /\ DOMAIN asked = 1..Len(asked)
         /\ Len(answers) \in Nat /\ DOMAIN answers = 1..Len(answers)
         /\ Len(server.queue) \in Nat /\ DOMAIN server.queue = 1..Len(server.queue)
         /\ Len(server.todo) \in Nat /\ DOMAIN server.todo = 1..Len(server.todo)
         /\ Taken \in Int /\ Done \in Int /\ Begun \in Int
         /\ Taken <= sent /\ Begun <= Taken
<1>1. sent \in Nat /\ MaxRequests \in Nat BY PipelineAssumption DEF IInv, Types
<1>2. Len(wire) \in Nat /\ DOMAIN wire = 1..Len(wire) BY LenProperties DEF IInv, Types
<1>3. Len(asked) \in Nat /\ DOMAIN asked = 1..Len(asked) BY LenProperties DEF IInv, Types
<1>4. Len(answers) \in Nat /\ DOMAIN answers = 1..Len(answers) BY LenProperties DEF IInv, Types
<1>5. server.queue \in Seq(Asks) /\ server.todo \in Seq(Tasks) BY DEF IInv, Types, Servers
<1>6. Len(server.queue) \in Nat /\ DOMAIN server.queue = 1..Len(server.queue) BY <1>5, LenProperties
<1>7. Len(server.todo) \in Nat /\ DOMAIN server.todo = 1..Len(server.todo) BY <1>5, LenProperties
<1>8. Taken \in Int /\ Done \in Int /\ Taken <= sent BY <1>1, <1>2, <1>3, <1>4, <1>6 DEF Taken, Done
<1>9. Begun \in Int /\ Begun <= Taken BY <1>8 DEF Begun
<1>. QED BY <1>1, <1>2, <1>3, <1>4, <1>6, <1>7, <1>8, <1>9

\* When the connection ends, whatever was in flight is lost.
LEMMA EndKeeps ==
  ASSUME IInv, server' = NoServer, UNCHANGED <<wire, client, asked, sent, met>>,
         answers' \in Seq(Replies), Numbered',
         gpu' \in Gpus, NEW flights, Sound(gpu', flights, Begun)
  PROVE  IInv'
<1>1. NoServer \in Servers BY EmptySeq DEF NoServer, Servers, None
<1>2. Types' BY <1>1 DEF IInv, Types
<1>3. Flights' = {}
  <2>1. server'.todo \in Seq(Tasks) /\ server'.todo = <<>> BY EmptySeq DEF NoServer
  <2>2. DOMAIN server'.todo = {} BY <2>1
  <2>. QED BY <2>1, <2>2, FlightsNext DEF HeadFlights, NoServer, None
<1>4. Begun' = sent'
  <2>1. DOMAIN server'.todo = {} BY DEF NoServer
  <2>. QED BY <2>1 DEF Begun, Taken, NoServer
<1>5. Sound(gpu', {}, sent') BY Counts, Weaker
<1>. QED BY <1>2, <1>3, <1>4, <1>5 DEF IInv, NoServer

\* At the top of the loop only one bundle can be in flight, the next to answer.
LEMMA TopFacts ==
  ASSUME IInv, AtTop
  PROVE  /\ server.on /\ server.todo = <<>> /\ server.begun = None /\ DOMAIN server.todo = {}
         /\ Flights = server.in_flight /\ Begun = Taken
         /\ server.in_flight \subseteq Bundles
         /\ \A f, h \in server.in_flight : f = h
         /\ \A f \in server.in_flight : f.i = Done + 1
         /\ Taken = Done + (IF server.in_flight = {} THEN 0 ELSE 1)
<1>1. server.on /\ server.todo = <<>> /\ DOMAIN server.todo = {} /\ Len(server.todo) = 0
  BY EmptySeq DEF AtTop
<1>2. server.begun = None BY <1>1 DEF IInv, Shaped
<1>3. server.todo \in Seq(Tasks) /\ server.in_flight \subseteq Bundles BY DEF IInv, Types, Servers
<1>4. Flights = server.in_flight BY <1>1, <1>2, <1>3, FlightsAre DEF HeadFlights, None
<1>5. Begun = Taken BY <1>1 DEF Begun
<1>6. Ahead = server.in_flight BY <1>2 DEF Ahead, None
<1>7. InLine /\ Shaped BY <1>1 DEF IInv
<1>8. Done \in Int BY Counts
<1>9. \A f \in server.in_flight : f.i = Done + 1 BY <1>1, <1>6, <1>7, <1>8 DEF InLine
<1>10. Taken = Done + (IF server.in_flight = {} THEN 0 ELSE 1) BY <1>1, <1>6, <1>7, <1>8 DEF InLine
<1>11. \A f, h \in server.in_flight : f = h BY <1>6, <1>7 DEF Shaped
<1>. QED BY <1>1, <1>2, <1>3, <1>4, <1>5, <1>9, <1>10, <1>11

\* The next request of the queue has the next number.
LEMMA NextRequest ==
  ASSUME IInv, server.on, server.queue # <<>>
  PROVE  /\ Head(server.queue) \in Asks /\ Head(server.queue).i = Taken + 1
         /\ Tail(server.queue) \in Seq(Asks) /\ Len(Tail(server.queue)) = Len(server.queue) - 1
         /\ \A k \in DOMAIN Tail(server.queue) : Tail(server.queue)[k].i = Taken + 1 + k
<1>1. server.queue \in Seq(Asks) BY DEF IInv, Types, Servers
<1>2. /\ Head(server.queue) \in Asks /\ Tail(server.queue) \in Seq(Asks)
      /\ Len(Tail(server.queue)) = Len(server.queue) - 1
      /\ \A k \in 1..Len(Tail(server.queue)) : Tail(server.queue)[k] = server.queue[k + 1]
  BY <1>1, HeadTailProperties
<1>3. Head(server.queue) = server.queue[1] BY <1>1
<1>4. Len(server.queue) \in Nat \ {0} /\ DOMAIN server.queue = 1..Len(server.queue)
  BY <1>1, EmptySeq, LenProperties
<1>5. DOMAIN Tail(server.queue) = 1..Len(Tail(server.queue)) BY <1>2, LenProperties
<1>6. \A k \in DOMAIN server.queue : server.queue[k].i = Taken + k BY DEF IInv, InLine
<1>7. Taken \in Int BY Counts
<1>8. Head(server.queue).i = Taken + 1 BY <1>3, <1>4, <1>6
<1>9. ASSUME NEW k \in DOMAIN Tail(server.queue) PROVE Tail(server.queue)[k].i = Taken + 1 + k
  <2>1. k \in 1..(Len(server.queue) - 1) /\ k + 1 \in DOMAIN server.queue BY <1>2, <1>4, <1>5
  <2>2. server.queue[k + 1].i = Taken + (k + 1) BY <1>6, <2>1
  <2>. QED BY <1>2, <1>5, <1>7, <2>1, <2>2
<1>. QED BY <1>2, <1>8, <1>9

LEMMA ReadKeeps ==
  ASSUME IInv, Read
  PROVE  IInv'
<1>1. AtTop /\ server.queue = <<>> BY DEF Read, Reading
<1>2. PICK n \in DOMAIN wire :
        /\ server' = [server EXCEPT !.queue = SubSeq(wire, 1, n)]
        /\ wire' = SubSeq(wire, n + 1, Len(wire))
  BY DEF Read
<1>3. UNCHANGED <<client, asked, answers, gpu, sent, met>> BY DEF Read
<1>4. /\ sent \in Nat /\ Len(wire) \in Nat /\ DOMAIN wire = 1..Len(wire) /\ n \in 1..Len(wire)
      /\ wire \in Seq(Asks) /\ server \in Servers
  BY <1>2, Counts DEF IInv, Types
<1>5. /\ wire' \in Seq(Asks) /\ Len(wire') = Len(wire) - n
      /\ \A k \in 1..Len(wire') : wire'[k] = wire[n + k]
  <2>1. \A k \in (n + 1)..Len(wire) : wire[k] \in Asks BY <1>4
  <2>2. /\ SubSeq(wire, n + 1, Len(wire)) \in Seq(Asks)
        /\ Len(SubSeq(wire, n + 1, Len(wire)))
             = IF n + 1 <= Len(wire) THEN Len(wire) - (n + 1) + 1 ELSE 0
        /\ \A k \in 1..(Len(wire) - (n + 1) + 1) :
             SubSeq(wire, n + 1, Len(wire))[k] = wire[n + 1 + k - 1]
    BY <1>4, <2>1, SubSeqProperties
  <2>. QED BY <1>2, <1>4, <2>2
<1>6. /\ server'.queue \in Seq(Asks) /\ Len(server'.queue) = n
      /\ \A k \in 1..n : server'.queue[k] = wire[k]
  <2>1. \A k \in 1..n : wire[k] \in Asks BY <1>4
  <2>2. /\ SubSeq(wire, 1, n) \in Seq(Asks)
        /\ Len(SubSeq(wire, 1, n)) = IF 1 <= n THEN n - 1 + 1 ELSE 0
        /\ \A k \in 1..(n - 1 + 1) : SubSeq(wire, 1, n)[k] = wire[1 + k - 1]
    BY <1>4, <2>1, SubSeqProperties
  <2>3. server'.queue = SubSeq(wire, 1, n) BY <1>2, <1>4 DEF Servers
  <2>. QED BY <1>4, <2>2, <2>3
<1>7. /\ server'.on = server.on /\ server'.todo = server.todo /\ server'.eof = server.eof
      /\ server'.in_flight = server.in_flight /\ server'.begun = server.begun /\ server' \in Servers
  BY <1>2, <1>4, <1>6 DEF Servers
<1>8. /\ server.on /\ Len(server.queue) = 0 /\ Len(server'.queue) = n
      /\ DOMAIN wire' = 1..Len(wire') /\ DOMAIN server'.queue = 1..n
  BY <1>1, <1>5, <1>6, LenProperties, EmptySeq DEF AtTop
<1>9. Taken' = Taken /\ Taken = sent - Len(wire)
  BY <1>3, <1>4, <1>5, <1>7, <1>8 DEF Taken
<1>10. Done' = Done /\ Ahead' = Ahead BY <1>3, <1>7 DEF Done, Ahead
<1>11. InLine /\ Shaped BY <1>8 DEF IInv
<1>12. InLine'
  <2>1. \A k \in DOMAIN wire : wire[k].i = Taken + k BY <1>9, <1>11 DEF InLine
  <2>2. \A k \in DOMAIN wire' : wire'[k].i = sent' - Len(wire') + k
    <3>1. TAKE k \in DOMAIN wire'
    <3>2. k \in 1..(Len(wire) - n) /\ n + k \in DOMAIN wire BY <1>4, <1>5, <1>8
    <3>3. wire'[k].i = Taken + (n + k) BY <1>5, <1>8, <2>1, <3>2
    <3>. QED BY <1>3, <1>4, <1>5, <1>9, <3>2, <3>3
  <2>3. \A k \in DOMAIN server'.queue : server'.queue[k].i = Taken' + k
    BY <1>4, <1>6, <1>8, <1>9, <2>1
  <2>. QED BY <1>7, <1>9, <1>10, <1>11, <2>2, <2>3 DEF InLine
<1>13. Shaped' BY <1>7, <1>10, <1>11 DEF Shaped
<1>14. Flights' = Flights /\ Begun' = Begun BY <1>7, <1>9 DEF Flights, Begun
<1>. QED BY <1>3, <1>5, <1>7, <1>8, <1>12, <1>13, <1>14 DEF IInv, Types, Numbered

LEMMA ReadEndKeeps ==
  ASSUME IInv, ReadEnd
  PROVE  IInv'
<1>1. server.on /\ server' = [server EXCEPT !.eof = TRUE] BY DEF ReadEnd, Reading, AtTop
<1>2. UNCHANGED <<client, wire, asked, answers, gpu, sent, met>> BY DEF ReadEnd
<1>3. server \in Servers BY DEF IInv, Types
<1>4. /\ server'.on = server.on /\ server'.todo = server.todo /\ server'.queue = server.queue
      /\ server'.in_flight = server.in_flight /\ server'.begun = server.begun /\ server' \in Servers
  BY <1>1, <1>3 DEF Servers
<1>5. Taken' = Taken /\ Done' = Done /\ Ahead' = Ahead BY <1>2, <1>4 DEF Taken, Done, Ahead
<1>6. InLine' BY <1>1, <1>2, <1>4, <1>5 DEF IInv, InLine
<1>7. Shaped' BY <1>1, <1>4, <1>5 DEF IInv, Shaped
<1>8. Flights' = Flights /\ Begun' = Begun BY <1>4, <1>5 DEF Flights, Begun
<1>. QED BY <1>1, <1>2, <1>4, <1>6, <1>7, <1>8 DEF IInv, Types, Numbered

LEMMA HangUpKeeps ==
  ASSUME IInv, HangUp, UNCHANGED gpu
  PROVE  IInv'
<1>1. server' = NoServer /\ UNCHANGED <<wire, client, asked, answers, sent, met, gpu>> BY DEF HangUp
<1>2. answers' \in Seq(Replies) /\ gpu' \in Gpus /\ Sound(gpu', Flights, Begun) BY <1>1 DEF IInv, Types
<1>3. Numbered' BY <1>1 DEF IInv, Numbered
<1>. QED BY <1>1, <1>2, <1>3, EndKeeps

LEMMA ShortSequences ==
  ASSUME NEW a \in Tasks, NEW b \in Tasks
  PROVE  /\ <<a>> \o <<b>> = <<a, b>> /\ <<>> \o <<b>> = <<b>> /\ <<a>> \o <<>> = <<a>>
         /\ <<a>> \in Seq(Tasks) /\ Len(<<a>>) = 1 /\ DOMAIN <<a>> = {1} /\ <<a>> # <<>> /\ <<a>>[1] = a
         /\ <<a, b>> \in Seq(Tasks) /\ Len(<<a, b>>) = 2 /\ DOMAIN <<a, b>> = {1, 2}
         /\ <<a, b>> # <<>> /\ <<a, b>>[1] = a /\ <<a, b>>[2] = b
<1>1. <<a>> \in Seq(Tasks) /\ <<b>> \in Seq(Tasks) /\ <<a, b>> \in Seq(Tasks) OBVIOUS
<1>2. <<a>> \o <<b>> = <<a, b>>
  <2>1. /\ <<a>> \o <<b>> \in Seq(Tasks) /\ Len(<<a>> \o <<b>>) = 2
        /\ \A i \in 1..2 : (<<a>> \o <<b>>)[i] = IF i <= 1 THEN <<a>>[i] ELSE <<b>>[i - 1]
    BY <1>1, ConcatProperties
  <2>2. \A i \in 1..2 : (<<a>> \o <<b>>)[i] = <<a, b>>[i] BY <2>1
  <2>. QED BY <1>1, <2>1, <2>2, SeqEqual
<1>3. <<>> \o <<b>> = <<b>> /\ <<a>> \o <<>> = <<a>> BY <1>1, ConcatEmptySeq
<1>. QED BY <1>1, <1>2, <1>3

\* The bundle in flight becomes the first thing to do.
LEMMA FinishingIs ==
  ASSUME IInv, AtTop
  PROVE  /\ server.in_flight = {} => Finishing(server.in_flight) = <<>>
         /\ \A f \in server.in_flight :
              /\ Finishing(server.in_flight) = <<FinishTask(f)>>
              /\ server.in_flight = {f} /\ f \in Bundles /\ f.i = Done + 1
<1>1. ASSUME NEW f \in server.in_flight
      PROVE  /\ Finishing(server.in_flight) = <<FinishTask(f)>>
             /\ server.in_flight = {f} /\ f \in Bundles /\ f.i = Done + 1
  <2>1. server.in_flight = {f} /\ f \in Bundles /\ f.i = Done + 1 BY TopFacts
  <2>2. The(server.in_flight) = f BY <2>1 DEF The
  <2>. QED BY <2>1, <2>2 DEF Finishing, None
<1>. QED BY <1>1 DEF Finishing, None

\* What is enough for a step from the top of the loop that answers nothing yet.
LEMMA TakeKeeps ==
  ASSUME IInv, AtTop, UNCHANGED <<client, wire, asked, answers, sent, met>>,
         server' \in Servers, server'.on, gpu' \in Gpus,
         \A k \in DOMAIN server'.queue : server'.queue[k].i = Taken' + k,
         \A k \in DOMAIN server'.todo : Number(server'.todo[k]) = Done + k,
         \A f \in Ahead' : f.i = Done + Len(server'.todo) + 1,
         Taken' = Done + Len(server'.todo) + (IF Ahead' = {} THEN 0 ELSE 1),
         Shaped', Sound(gpu', HeadFlights(server'), Begun')
  PROVE  IInv'
<1>1. Done' = Done BY DEF Done
<1>2. InLine' BY <1>1 DEF IInv, InLine, AtTop
<1>3. server'.todo \in Seq(Tasks) BY DEF Servers
<1>4. \A k \in DOMAIN server'.todo : server'.todo[k].do = "finish" => k = 1 BY DEF Shaped
<1>5. Flights' = HeadFlights(server') BY <1>3, <1>4, FlightsNext
<1>. QED BY <1>2, <1>5 DEF IInv, Types, Numbered

LEMMA ReadNothingKeeps ==
  ASSUME IInv, AtTop, server.in_flight # None,
         server' = [server EXCEPT !.in_flight = None, !.todo = Finishing(server.in_flight)],
         UNCHANGED <<client, wire, asked, answers, gpu, sent, met>>
  PROVE  IInv'
<1>1. PICK f \in server.in_flight : TRUE BY DEF None
<1>. DEFINE t == FinishTask(f)
<1>2. /\ Finishing(server.in_flight) = <<t>> /\ server.in_flight = {f} /\ f \in Bundles
      /\ f.i = Done + 1
  BY FinishingIs
<1>3. t \in Tasks /\ t.do = "finish" /\ t.flight = f /\ Number(t) = f.i BY <1>2, TaskMade
<1>. HIDE DEF t
<1>4. server \in Servers BY DEF IInv, Types
<1>5. /\ <<t>> \in Seq(Tasks) /\ Len(<<t>>) = 1 /\ DOMAIN <<t>> = {1} /\ <<t>>[1] = t /\ <<t>> # <<>>
  BY <1>3, ShortSequences
<1>6. /\ server' \in Servers /\ server'.on = server.on /\ server'.queue = server.queue
      /\ server'.in_flight = {} /\ server'.begun = server.begun /\ server'.todo = <<t>>
  BY <1>2, <1>4, <1>5 DEF Servers, None
<1>7. /\ server.on /\ server.begun = {} /\ Flights = {f} /\ Begun = Taken /\ Taken = Done + 1
  BY <1>2, TopFacts DEF None
<1>8. Taken' = Taken /\ Ahead' = {} BY <1>6, <1>7 DEF Taken, Ahead
<1>9. Begun' = Begun BY <1>3, <1>5, <1>6, <1>7, <1>8 DEF Begun
<1>10. HeadFlights(server') = Flights BY <1>3, <1>5, <1>6, <1>7 DEF HeadFlights
<1>11. Shaped' BY <1>3, <1>5, <1>6, <1>7, <1>8 DEF Shaped, None
<1>12. Done \in Int BY Counts
<1>13. InLine /\ gpu \in Gpus /\ Sound(gpu, Flights, Begun) BY <1>7 DEF IInv, Types
<1>14. \A k \in DOMAIN server'.queue : server'.queue[k].i = Taken' + k BY <1>6, <1>8, <1>13 DEF InLine
<1>15. \A k \in DOMAIN server'.todo : Number(server'.todo[k]) = Done + k
  BY <1>2, <1>3, <1>5, <1>6
<1>19. Len(server'.todo) = 1 BY <1>5, <1>6
<1>16. Taken' = Done + Len(server'.todo) + (IF Ahead' = {} THEN 0 ELSE 1)
  <2>1. Taken' = Done + 1 BY <1>7, <1>8
  <2>2. (IF Ahead' = {} THEN 0 ELSE 1) = 0 BY <1>8
  <2>. QED BY ONLY <2>1, <2>2, <1>12, <1>19
<1>17. gpu' \in Gpus /\ Sound(gpu', HeadFlights(server'), Begun') BY <1>9, <1>10, <1>13
<1>18. server'.on /\ \A h \in Ahead' : h.i = Done + Len(server'.todo) + 1 BY <1>6, <1>7, <1>8
<1>. QED BY <1>6, <1>11, <1>14, <1>15, <1>16, <1>17, <1>18, TakeKeeps

\* Another request, behind the bundle in flight if there is one.
LEMMA TakeServeKeeps ==
  ASSUME IInv, AtTop, server.queue # <<>>,
         server' = [server EXCEPT !.queue = Tail(@), !.in_flight = None,
           !.todo = Finishing(server.in_flight) \o <<ServeTask(Head(server.queue))>>],
         UNCHANGED <<client, wire, asked, answers, gpu, sent, met>>
  PROVE  IInv'
<1>. DEFINE r == Head(server.queue)
            s == ServeTask(r)
<1>1. server.on /\ server.begun = {} /\ Begun = Taken BY TopFacts DEF None
<1>2. /\ r \in Asks /\ r.i = Taken + 1 /\ Tail(server.queue) \in Seq(Asks)
      /\ Len(Tail(server.queue)) = Len(server.queue) - 1
      /\ \A k \in DOMAIN Tail(server.queue) : Tail(server.queue)[k].i = Taken + 1 + k
  BY <1>1, NextRequest
<1>3. s \in Tasks /\ s.do = "serve" /\ s.request = r /\ Number(s) = r.i BY <1>2, TaskMade
<1>. HIDE DEF r, s
<1>4. server \in Servers /\ gpu \in Gpus /\ Sound(gpu, Flights, Begun) BY DEF IInv, Types
<1>5. /\ server'.on = server.on /\ server'.queue = Tail(server.queue) /\ server'.in_flight = {}
      /\ server'.begun = {} /\ server'.eof = server.eof
      /\ server'.todo = Finishing(server.in_flight) \o <<s>>
      /\ server'.todo \in Seq(Tasks) => server' \in Servers
  BY <1>1, <1>2, <1>4 DEF Servers, None, r, s
<1>6. Len(server.queue) \in Nat /\ Len(wire) \in Nat /\ sent \in Nat /\ Done \in Int /\ Taken \in Int
  BY Counts
<1>7. Taken' = Taken + 1 /\ Ahead' = {} BY <1>1, <1>2, <1>5, <1>6 DEF Taken, Ahead
<1>8. \A k \in DOMAIN server'.queue : server'.queue[k].i = Taken' + k
  BY <1>2, <1>5, <1>7
<1>9. CASE server.in_flight = {}
  <2>1. server'.todo = <<s>> BY <1>3, <1>5, <1>9, FinishingIs, ShortSequences
  <2>2. /\ <<s>> \in Seq(Tasks) /\ Len(<<s>>) = 1 /\ DOMAIN <<s>> = {1} /\ <<s>>[1] = s /\ <<s>> # <<>>
    BY <1>3, ShortSequences
  <2>3. Flights = {} /\ Taken = Done BY <1>6, <1>9, TopFacts
  <2>7. \E k \in DOMAIN server'.todo : server'.todo[k].do = "serve" BY <1>3, <2>1, <2>2
  <2>13. Begun' = Taken' - 1 BY <2>7 DEF Begun
  <2>4. Begun' = Begun BY <1>1, <1>6, <1>7, <2>13
  <2>5. HeadFlights(server') = Flights BY <1>3, <1>5, <2>1, <2>2, <2>3 DEF HeadFlights
  <2>6. Shaped' BY <1>3, <1>5, <1>7, <2>1, <2>2 DEF Shaped, None
  <2>8. \A k \in DOMAIN server'.todo : Number(server'.todo[k]) = Done + k
    BY <1>2, <1>3, <1>6, <2>1, <2>2, <2>3
  <2>14. Len(server'.todo) = 1 BY <2>1, <2>2
  <2>9. Taken' = Done + Len(server'.todo) + (IF Ahead' = {} THEN 0 ELSE 1)
    BY <1>6, <1>7, <2>3, <2>14
  <2>10. gpu' \in Gpus /\ Sound(gpu', HeadFlights(server'), Begun') BY <1>4, <2>4, <2>5
  <2>11. \A h \in Ahead' : h.i = Done + Len(server'.todo) + 1 BY <1>7
  <2>12. server' \in Servers /\ server'.on BY <1>1, <1>5, <2>1, <2>2
  <2>. QED BY <1>8, <2>6, <2>8, <2>9, <2>10, <2>11, <2>12, TakeKeeps
<1>10. CASE server.in_flight # {}
  <2>1. PICK f \in server.in_flight : TRUE BY <1>10
  <2>. DEFINE t == FinishTask(f)
  <2>2. /\ Finishing(server.in_flight) = <<t>> /\ server.in_flight = {f} /\ f \in Bundles
        /\ f.i = Done + 1
    BY FinishingIs
  <2>3. t \in Tasks /\ t.do = "finish" /\ t.flight = f /\ Number(t) = f.i BY <2>2, TaskMade
  <2>. HIDE DEF t
  <2>4. server'.todo = <<t, s>> BY <1>3, <1>5, <2>2, <2>3, ShortSequences
  <2>5. /\ <<t, s>> \in Seq(Tasks) /\ Len(<<t, s>>) = 2 /\ DOMAIN <<t, s>> = {1, 2}
        /\ <<t, s>>[1] = t /\ <<t, s>>[2] = s /\ <<t, s>> # <<>>
    BY <1>3, <2>3, ShortSequences
  <2>6. Flights = {f} /\ Taken = Done + 1 BY <1>10, <2>2, TopFacts
  <2>11. \E k \in DOMAIN server'.todo : server'.todo[k].do = "serve" BY <1>3, <2>4, <2>5
  <2>16. Begun' = Taken' - 1 BY <2>11 DEF Begun
  <2>7. Begun' = Begun BY <1>1, <1>6, <1>7, <2>16
  <2>8. HeadFlights(server') = Flights BY <1>5, <2>3, <2>4, <2>5, <2>6 DEF HeadFlights
  <2>9. Shaped' BY <1>3, <1>5, <1>7, <2>3, <2>4, <2>5 DEF Shaped, None
  <2>10. \A k \in DOMAIN server'.todo : Number(server'.todo[k]) = Done + k
    <3>1. Number(t) = Done + 1 /\ Number(s) = Done + 2 BY <1>2, <1>3, <1>6, <2>2, <2>3, <2>6
    <3>. QED BY <2>4, <2>5, <3>1
  <2>17. Len(server'.todo) = 2 BY <2>4, <2>5
  <2>12. Taken' = Done + Len(server'.todo) + (IF Ahead' = {} THEN 0 ELSE 1)
    BY <1>6, <1>7, <2>6, <2>17
  <2>13. gpu' \in Gpus /\ Sound(gpu', HeadFlights(server'), Begun') BY <1>4, <2>7, <2>8
  <2>14. \A h \in Ahead' : h.i = Done + Len(server'.todo) + 1 BY <1>7
  <2>15. server' \in Servers /\ server'.on BY <1>1, <1>5, <2>4, <2>5
  <2>. QED BY <1>8, <2>9, <2>10, <2>12, <2>13, <2>14, <2>15, TakeKeeps
<1>. QED BY <1>9, <1>10

\* A pipelined bundle is begun before the one in flight is collected: the flights
\* are the two of them, and what is to do is to finish the first.
LEMMA TakeChainedKeeps ==
  ASSUME IInv, TakeChained
  PROVE  IInv'
<1>. DEFINE r == Head(server.queue)
            was == server.in_flight
<1>1. AtTop /\ server.queue # <<>> /\ UNCHANGED <<client, wire, asked, answers, sent, met>>
  BY DEF TakeChained
<1>2. server.on /\ server.begun = {} /\ Begun = Taken /\ Flights = was BY <1>1, TopFacts DEF None
<1>3. /\ r \in Asks /\ r.i = Taken + 1 /\ Tail(server.queue) \in Seq(Asks)
      /\ Len(Tail(server.queue)) = Len(server.queue) - 1
      /\ \A k \in DOMAIN Tail(server.queue) : Tail(server.queue)[k].i = Taken + 1 + k
  BY <1>1, <1>2, NextRequest
<1>4. PICK o \in Begin(gpu, r) :
        LET begun == {Flight(r.i, t) : t \in o.ticket}
            error == IF begun = None THEN <<AnswerTask(Error(r.i))>> ELSE <<>>
            todo == Chained(Finishing(was), error)
        IN  /\ gpu' = o.gpu
            /\ server' = [server EXCEPT
                 !.queue = Tail(@), !.todo = todo,
                 !.in_flight = IF todo = <<>> THEN begun ELSE None,
                 !.begun = IF todo = <<>> THEN None ELSE begun]
  BY DEF TakeChained
<1>. HIDE DEF r, was
<1>. DEFINE begun == {Flight(r.i, t) : t \in o.ticket}
            e == AnswerTask(Error(r.i))
            error == IF begun = None THEN <<e>> ELSE <<>>
            todo == Chained(Finishing(was), error)
<1>5. Len(server.queue) \in Nat /\ Len(wire) \in Nat /\ sent \in Nat /\ Done \in Int /\ Taken \in Int
  BY Counts
<1>6. server \in Servers /\ gpu \in Gpus /\ Sound(gpu, was, Taken) BY <1>2 DEF IInv, Types
<1>7. /\ was \subseteq Bundles /\ \A f, h \in was : f = h
      /\ \A f \in was : f.i = Done + 1
      /\ Taken = Done + (IF was = {} THEN 0 ELSE 1)
  BY <1>1, TopFacts DEF was
<1>8. \A f \in was : f.i <= Taken /\ f.i \in Int BY <1>5, <1>7
<1>9. /\ o.gpu \in Gpus
      /\ o.ticket = None \/ o.ticket = {ReadyTicket(r.i)} \/ o.ticket = {PendingTicket(r.i)}
      /\ Sound(o.gpu, was \cup begun, r.i)
  <2>1. Taken < r.i BY <1>3, <1>5
  <2>. QED BY <1>3, <1>5, <1>6, <1>7, <1>8, <2>1, BeginKeeps
<1>10. /\ begun \subseteq Bundles /\ \A f, h \in begun : f = h
       /\ \A f \in begun : f.i = r.i
  <2>1. r.i \in Numbers /\ MaxRequests \in Nat BY <1>3, PipelineAssumption DEF Asks
  <2>2. ReadyTicket(r.i) \in Tickets /\ PendingTicket(r.i) \in Tickets
    BY <2>1 DEF ReadyTicket, PendingTicket, Tickets, Some, None, Picture, Pictures, Numbers
  <2>3. \A t \in Tickets : Flight(r.i, t) \in Bundles /\ Flight(r.i, t).i = r.i
    BY <2>1 DEF Flight, Bundles
  <2>. QED BY <1>9, <2>2, <2>3 DEF None
<1>11. e \in Tasks /\ e.do = "answer" /\ Number(e) = r.i /\ e.answer.pictures = {} /\ e.answer.i = r.i
  <2>1. Error(r.i) \in Replies /\ Error(r.i).i = r.i /\ Error(r.i).pictures = {}
    BY <1>3 DEF Error, Answer, Replies, None, Asks
  <2>. QED BY <2>1, TaskMade
<1>12. /\ gpu' = o.gpu
       /\ server' = [server EXCEPT
            !.queue = Tail(@), !.todo = todo,
            !.in_flight = IF todo = <<>> THEN begun ELSE None,
            !.begun = IF todo = <<>> THEN None ELSE begun]
  BY <1>4
<1>. HIDE DEF begun, e, todo
<1>13. /\ server'.on = server.on /\ server'.queue = Tail(server.queue) /\ server'.todo = todo
       /\ server'.in_flight = (IF todo = <<>> THEN begun ELSE {})
       /\ server'.begun = (IF todo = <<>> THEN {} ELSE begun)
       /\ todo \in Seq(Tasks) => server' \in Servers
  BY <1>3, <1>6, <1>10, <1>12 DEF Servers, None
<1>14. Ahead' = begun BY <1>13 DEF Ahead
<1>15. Taken' = Taken + 1
  <2>1. Len(server'.queue) = Len(server.queue) - 1 /\ server'.on /\ sent' = sent /\ wire' = wire
    BY <1>1, <1>2, <1>3, <1>13
  <2>. QED BY ONLY <2>1, <1>2, <1>5 DEF Taken
<1>16. \A k \in DOMAIN server'.queue : server'.queue[k].i = Taken' + k BY <1>3, <1>13, <1>15
\* The four shapes of what is to do, and what they have in common.
<1>17. /\ todo \in Seq(Tasks)
       /\ \A k \in DOMAIN todo : Number(todo[k]) = Done + k
       /\ Len(todo) = (IF was = {} THEN 0 ELSE 1) + (IF begun = {} THEN 1 ELSE 0)
       /\ \A k \in DOMAIN todo : todo[k].do = "finish" => k = 1
       /\ \A k \in DOMAIN todo : todo[k].do # "serve"
       /\ \A k \in DOMAIN todo : todo[k].do = "answer" =>
            todo[k].answer.pictures \subseteq {Picture(todo[k].answer.i)}
       /\ (IF todo # <<>> /\ todo[1].do = "finish" THEN {todo[1].flight} ELSE {}) = was
       /\ begun # {} /\ todo # <<>> => Len(todo) = 1 /\ todo[1].do = "finish"
  <2>1. CASE was = {} /\ begun # {}
    <3>1. Finishing(was) = <<>> /\ error = <<>> BY <1>1, <2>1, FinishingIs DEF was, None
    <3>2. todo = <<>> \o <<>> BY <3>1 DEF todo, Chained
    <3>3. <<>> \in Seq(Tasks) /\ <<>> \o <<>> = <<>> BY EmptySeq, ConcatEmptySeq
    <3>. QED BY <2>1, <3>2, <3>3, EmptySeq
  <2>2. CASE was = {} /\ begun = {}
    <3>1. Finishing(was) = <<>> /\ error = <<e>> BY <1>1, <2>2, FinishingIs DEF was, None
    <3>2. todo = <<e>> BY <3>1, <1>11, ShortSequences DEF todo, Chained
    <3>3. /\ <<e>> \in Seq(Tasks) /\ Len(<<e>>) = 1 /\ DOMAIN <<e>> = {1} /\ <<e>>[1] = e
      BY <1>11, ShortSequences
    <3>4. Number(e) = Done + 1 BY <1>3, <1>5, <1>7, <1>11, <2>2
    <3>. QED BY <2>2, <3>2, <3>3, <3>4, <1>11
  <2>3. CASE was # {}
    <3>1. PICK f \in was : TRUE BY <2>3
    <3>. DEFINE t == FinishTask(f)
    <3>2. /\ Finishing(was) = <<t>> /\ was = {f} /\ f \in Bundles /\ f.i = Done + 1
      BY <1>1, FinishingIs DEF was
    <3>3. t \in Tasks /\ t.do = "finish" /\ t.flight = f /\ Number(t) = Done + 1 BY <3>2, TaskMade
    <3>. HIDE DEF t
    <3>4. CASE begun # {}
      <4>1. todo = <<t>>
        <5>1. error = <<>> BY <3>4 DEF None
        <5>. QED BY <5>1, <3>2, <3>3, ShortSequences DEF todo, Chained
      <4>2. /\ <<t>> \in Seq(Tasks) /\ Len(<<t>>) = 1 /\ DOMAIN <<t>> = {1} /\ <<t>>[1] = t
            /\ <<t>> # <<>>
        BY <3>3, ShortSequences
      <4>. QED BY <2>3, <3>2, <3>3, <3>4, <4>1, <4>2
    <3>5. CASE begun = {}
      <4>1. todo = <<t, e>>
        <5>1. error = <<e>> BY <3>5 DEF None
        <5>. QED BY <5>1, <1>11, <3>2, <3>3, ShortSequences DEF todo, Chained
      <4>2. /\ <<t, e>> \in Seq(Tasks) /\ Len(<<t, e>>) = 2 /\ DOMAIN <<t, e>> = {1, 2}
            /\ <<t, e>>[1] = t /\ <<t, e>>[2] = e /\ <<t, e>> # <<>>
        BY <1>11, <3>3, ShortSequences
      <4>3. Number(e) = Done + 2 BY <1>3, <1>5, <1>7, <1>11, <2>3
      <4>. QED BY <2>3, <3>2, <3>3, <3>5, <4>1, <4>2, <4>3, <1>11
    <3>. QED BY <3>4, <3>5
  <2>. QED BY <2>1, <2>2, <2>3
<1>18. server' \in Servers /\ server'.on BY <1>2, <1>13, <1>17
<1>19. HeadFlights(server') = was \cup begun BY <1>13, <1>17 DEF HeadFlights
<1>20. Begun' = Taken' BY <1>13, <1>17 DEF Begun
<1>21. r.i = Taken' BY <1>3, <1>15
<1>22. gpu' \in Gpus /\ Sound(gpu', HeadFlights(server'), Begun')
  BY <1>9, <1>12, <1>19, <1>20, <1>21 DEF begun
<1>23. Shaped' BY <1>10, <1>13, <1>14, <1>17 DEF Shaped, None
<1>24. Taken' = Done + Len(server'.todo) + (IF Ahead' = {} THEN 0 ELSE 1)
  <2>1. Len(server'.todo) = (IF was = {} THEN 0 ELSE 1) + (IF begun = {} THEN 1 ELSE 0)
    BY <1>13, <1>17
  <2>. QED BY ONLY <2>1, <1>5, <1>7, <1>14, <1>15
<1>25. ASSUME NEW f \in Ahead' PROVE f.i = Done + Len(server'.todo) + 1
  <2>1. f.i = Taken' /\ Ahead' # {} BY <1>10, <1>14, <1>21, <1>25
  <2>2. Len(server'.todo) \in Int BY <1>13, <1>17, LenProperties
  <2>. QED BY ONLY <2>1, <2>2, <1>5, <1>24
<1>26. \A k \in DOMAIN server'.todo : Number(server'.todo[k]) = Done + k BY <1>13, <1>17
<1>. QED BY <1>1, <1>16, <1>18, <1>22, <1>23, <1>24, <1>25, <1>26, TakeKeeps

\* The first thing to do answers the first request that has no answer.
LEMMA TaskFacts ==
  ASSUME IInv, server.todo # <<>>
  PROVE  /\ server.on /\ server.in_flight = {} /\ Head(server.todo) = server.todo[1]
         /\ server.todo[1] \in Tasks /\ Number(server.todo[1]) = Done + 1
         /\ Rest \in Seq(Tasks) /\ Len(Rest) = Len(server.todo) - 1 /\ Len(Rest) \in Nat
         /\ DOMAIN Rest = 1..Len(Rest)
         /\ \A k \in DOMAIN Rest : /\ k + 1 \in DOMAIN server.todo /\ Rest[k] = server.todo[k + 1]
                                   /\ Number(Rest[k]) = Done + 1 + k
         /\ server.begun \subseteq Bundles /\ \A f \in server.begun : f.i = Done + 2
         /\ server.begun # {} => Len(Rest) = 0 /\ server.todo[1].do = "finish"
         /\ Taken = Done + 1 + Len(Rest) + (IF server.begun = {} THEN 0 ELSE 1)
         /\ Flights = server.begun
              \cup (IF server.todo[1].do = "finish" THEN {server.todo[1].flight} ELSE {})
         /\ Len(answers) < Len(asked)
<1>1. server \in Servers /\ server.todo \in Seq(Tasks) BY DEF IInv, Types, Servers
<1>2. server.on
  <2>1. NoServer.todo = <<>> BY DEF NoServer
  <2>. QED BY <2>1 DEF IInv
<1>3. InLine /\ Shaped BY <1>2 DEF IInv
<1>4. server.in_flight = {} /\ Ahead = server.begun BY <1>3 DEF Shaped, Ahead, None
<1>5. Len(server.todo) \in Nat \ {0} /\ DOMAIN server.todo = 1..Len(server.todo)
  BY <1>1, EmptySeq, LenProperties
<1>6. /\ Rest \in Seq(Tasks) /\ Len(Rest) = Len(server.todo) - 1
      /\ \A k \in 1..Len(Rest) : Rest[k] = server.todo[k + 1]
  BY <1>1, HeadTailProperties DEF Rest
<1>7. Len(Rest) \in Nat /\ DOMAIN Rest = 1..Len(Rest) BY <1>6, LenProperties
<1>8. Head(server.todo) = server.todo[1] BY <1>1
<1>9. server.todo[1] \in Tasks BY <1>1, <1>5, ElementOfSeq
<1>10. /\ \A k \in DOMAIN server.todo : Number(server.todo[k]) = Done + k
       /\ \A f \in server.begun : f.i = Done + Len(server.todo) + 1
       /\ Taken = Done + Len(server.todo) + (IF server.begun = {} THEN 0 ELSE 1)
  BY <1>3, <1>4 DEF InLine
<1>11. Done \in Int /\ Taken \in Int /\ Taken <= sent /\ sent \in Nat /\ Len(answers) \in Nat
       /\ Len(asked) \in Nat
  BY Counts
<1>12. server.begun # {} => Len(server.todo) = 1 /\ server.todo[1].do = "finish"
  BY <1>3 DEF Shaped, None
<1>13. ASSUME NEW f \in server.begun PROVE f.i = Done + 2
  <2>1. f.i = Done + Len(server.todo) + 1 /\ Len(server.todo) = 1 BY <1>10, <1>12
  <2>. QED BY <2>1, <1>11
<1>14. Taken = Done + 1 + Len(Rest) + (IF server.begun = {} THEN 0 ELSE 1)
  <2>1. Len(server.todo) = Len(Rest) + 1 BY <1>5, <1>6
  <2>. DEFINE e == IF server.begun = {} THEN 0 ELSE 1
  <2>2. e \in Int OBVIOUS
  <2>3. Taken = Done + Len(server.todo) + e BY <1>10
  <2>. HIDE DEF e
  <2>4. Taken = Done + 1 + Len(Rest) + e BY <1>7, <1>11, <2>1, <2>2, <2>3
  <2>. QED BY <2>4 DEF e
<1>15. Len(answers) < Len(asked)
  <2>1. Done + 1 <= sent BY ONLY <1>7, <1>11, <1>14
  <2>. QED BY <2>1, <1>11 DEF Done
<1>16. Flights = server.begun
         \cup (IF server.todo[1].do = "finish" THEN {server.todo[1].flight} ELSE {})
  BY <1>1, <1>3, <1>4, FlightsAre DEF HeadFlights, Shaped
<1>17. ASSUME NEW k \in DOMAIN Rest
       PROVE  /\ k + 1 \in DOMAIN server.todo /\ Rest[k] = server.todo[k + 1]
              /\ Number(Rest[k]) = Done + 1 + k
  <2>1. k \in Int /\ k + 1 \in DOMAIN server.todo /\ Rest[k] = server.todo[k + 1]
    BY <1>5, <1>6, <1>7
  <2>2. Number(server.todo[k + 1]) = Done + (k + 1) BY <1>10, <2>1
  <2>. QED BY <1>11, <2>1, <2>2
<1>18. Number(server.todo[1]) = Done + 1 BY <1>5, <1>10
<1>19. server.begun \subseteq Bundles BY <1>1 DEF Servers
<1>. QED BY <1>2, <1>4, <1>6, <1>7, <1>8, <1>9, <1>12, <1>13, <1>14, <1>15, <1>16, <1>17, <1>18, <1>19

\* An answer to the first request that has none.
LEMMA AnswerAppended ==
  ASSUME IInv, NEW answer \in Replies, answer.i = Done + 1, Len(answers) < Len(asked),
         answer.pictures \subseteq {Picture(answer.i)},
         answers' = Append(answers, answer), UNCHANGED <<asked, sent>>
  PROVE  answers' \in Seq(Replies) /\ Numbered' /\ Done' = Done + 1
<1>1. answers \in Seq(Replies) BY DEF IInv, Types
<1>2. /\ answers' \in Seq(Replies) /\ Len(answers') = Len(answers) + 1
      /\ \A k \in 1..Len(answers) : answers'[k] = answers[k]
      /\ answers'[Len(answers) + 1] = answer
  BY <1>1, AppendProperties
<1>3. DOMAIN answers' = 1..Len(answers') BY <1>2, LenProperties
<1>4. sent \in Nat /\ Len(asked) \in Nat /\ Len(answers) \in Nat /\ DOMAIN answers = 1..Len(answers)
  BY Counts
<1>5. answer.i = sent - Len(asked) + (Len(answers) + 1) BY <1>4 DEF Done
<1>6. ASSUME NEW k \in DOMAIN answers'
      PROVE  /\ answers'[k].i = sent' - Len(asked') + k
             /\ answers'[k].pictures \subseteq {Picture(answers'[k].i)}
  <2>1. CASE k \in DOMAIN answers
    <3>1. answers[k].i = sent - Len(asked) + k /\ answers[k].pictures \subseteq {Picture(answers[k].i)}
      BY <2>1 DEF IInv, Numbered
    <3>. QED BY <3>1, <2>1, <1>2, <1>4
  <2>2. CASE k = Len(answers) + 1
    <3>1. answers'[k] = answer BY <2>2, <1>2
    <3>. QED BY <3>1, <2>2, <1>5
  <2>. QED BY <2>1, <2>2, <1>2, <1>3, <1>4
<1>7. Numbered' BY <1>2, <1>4, <1>6 DEF IInv, Numbered
<1>8. Done' = Done + 1 BY <1>2, <1>4 DEF Done
<1>. QED BY <1>2, <1>7, <1>8

\* After a write the bundle begun is the one in flight.
LEMMA WriteKeeps ==
  ASSUME IInv, server.todo # <<>>, server.todo[1].do # "serve",
         NEW answer \in Replies, answer.i = Done + 1,
         answer.pictures \subseteq {Picture(answer.i)},
         gpu' \in Gpus, Sound(gpu', server.begun, Begun), Write(answer, Rest)
  PROVE  IInv'
<1>1. CASE client = "gone" /\ HangUp
  <2>1. server' = NoServer /\ UNCHANGED <<wire, client, asked, answers, sent, met>>
    BY <1>1 DEF HangUp
  <2>2. answers' \in Seq(Replies) BY <2>1 DEF IInv, Types
  <2>3. Numbered' BY <2>1 DEF IInv, Numbered
  <2>. QED BY <2>1, <2>2, <2>3, EndKeeps
<1>2. CASE /\ answers' = Append(answers, answer)
           /\ server' = [server EXCEPT !.todo = Rest, !.in_flight = server.begun, !.begun = None]
           /\ UNCHANGED <<client, wire, asked, sent, met>>
  <2>1. Len(answers) < Len(asked) /\ server.on BY TaskFacts
  <2>2. answers' \in Seq(Replies) /\ Numbered' /\ Done' = Done + 1 BY <1>2, <2>1, AnswerAppended
  <2>3. /\ Rest \in Seq(Tasks) /\ Len(Rest) \in Nat /\ DOMAIN Rest = 1..Len(Rest)
        /\ Len(Rest) = Len(server.todo) - 1
        /\ \A k \in DOMAIN Rest : /\ k + 1 \in DOMAIN server.todo /\ Rest[k] = server.todo[k + 1]
                                  /\ Number(Rest[k]) = Done + 1 + k
        /\ server.begun \subseteq Bundles /\ \A f \in server.begun : f.i = Done + 2
        /\ server.begun # {} => Len(Rest) = 0
        /\ Taken = Done + 1 + Len(Rest) + (IF server.begun = {} THEN 0 ELSE 1)
    BY TaskFacts
  <2>4. server \in Servers BY DEF IInv, Types
  <2>5. /\ server' \in Servers /\ server'.on = server.on /\ server'.queue = server.queue
        /\ server'.todo = Rest /\ server'.in_flight = server.begun /\ server'.begun = {}
    BY <1>2, <2>3, <2>4 DEF Servers, None
  <2>6. Taken' = Taken /\ Ahead' = server.begun /\ Ahead \subseteq server.in_flight \cup server.begun
    BY <1>2, <2>5 DEF Taken, Ahead
  <2>7. Done \in Int /\ Taken \in Int /\ Len(server.todo) \in Nat /\ DOMAIN server.todo = 1..Len(server.todo)
    BY Counts
  <2>8. InLine /\ Shaped BY <2>1 DEF IInv
  <2>9. InLine'
    <3>1. \A k \in DOMAIN server'.todo : Number(server'.todo[k]) = Done' + k
      BY <2>2, <2>3, <2>5
    <3>2. \A f \in Ahead' : f.i = Done' + Len(server'.todo) + 1
      <4>1. ASSUME NEW f \in server.begun PROVE f.i = Done' + Len(Rest) + 1
        <5>1. f.i = Done + 2 /\ Len(Rest) = 0 BY <2>3
        <5>. QED BY <5>1, <2>2, <2>7
      <4>. QED BY <4>1, <2>5, <2>6
    <3>3. Taken' = Done' + Len(server'.todo) + (IF Ahead' = {} THEN 0 ELSE 1)
      BY ONLY <2>2, <2>3, <2>5, <2>6, <2>7
    <3>. QED BY <3>1, <3>2, <3>3, <1>2, <2>5, <2>6, <2>8 DEF InLine
  <2>10. Shaped'
    <3>1. \A f, h \in Ahead' : f = h BY <2>6, <2>8 DEF Shaped, Ahead
    <3>2. server.begun = {} \/ server'.todo = <<>>
      <4>1. Len(Rest) = 0 => Rest = <<>> BY <2>3, EmptySeq
      <4>. QED BY <4>1, <2>3, <2>5
    <3>3. ASSUME NEW k \in DOMAIN Rest
          PROVE  /\ Rest[k].do # "finish"
                 /\ Rest[k].do = "serve" => k = Len(Rest)
                 /\ Rest[k].do = "answer" => Rest[k].answer.pictures \subseteq {Picture(Rest[k].answer.i)}
      <4>1. k \in Nat /\ k + 1 # 1 /\ (k + 1 = Len(server.todo) => k = Len(Rest)) BY <2>3, <2>7
      <4>. QED BY <4>1, <2>3, <2>8 DEF Shaped
    <3>. QED BY <3>1, <3>2, <3>3, <2>5 DEF Shaped, None
  <2>11. Begun' = Begun
    <3>1. (\E k \in DOMAIN server.todo : server.todo[k].do = "serve")
            <=> (\E k \in DOMAIN Rest : Rest[k].do = "serve")
      <4>1. ASSUME NEW k \in DOMAIN server.todo, server.todo[k].do = "serve"
            PROVE  \E j \in DOMAIN Rest : Rest[j].do = "serve"
        <5>1. k # 1 /\ k - 1 \in DOMAIN Rest /\ (k - 1) + 1 = k BY <4>1, <2>3, <2>7
        <5>2. Rest[k - 1] = server.todo[k] BY <5>1, <2>3
        <5>. QED BY <5>1, <5>2, <4>1
      <4>. QED BY <4>1, <2>3
    <3>. QED BY <3>1, <2>5, <2>6 DEF Begun
  <2>12. Flights' = server.begun
    <3>1. \A k \in DOMAIN server'.todo : server'.todo[k].do = "finish" => k = 1 BY <2>10 DEF Shaped
    <3>2. Flights' = HeadFlights(server') BY <3>1, <2>3, <2>5, FlightsNext
    <3>3. server'.todo # <<>> => server'.todo[1].do # "finish"
      <4>1. Rest # <<>> => 1 \in DOMAIN Rest BY <2>3, EmptySeq
      <4>2. \A k \in DOMAIN Rest : k + 1 # 1 BY <2>3
      <4>. QED BY <4>1, <4>2, <2>3, <2>5, <2>8 DEF Shaped
    <3>. QED BY <3>2, <3>3, <2>5 DEF HeadFlights
  <2>. QED BY <1>2, <2>1, <2>2, <2>5, <2>9, <2>10, <2>11, <2>12 DEF IInv, Types
<1>. QED BY <1>1, <1>2 DEF Write

LEMMA DoFinishKeeps ==
  ASSUME IInv, DoFinish
  PROVE  IInv'
<1>. DEFINE t == server.todo[1]
            f == t.flight
<1>1. server.todo # <<>> /\ Head(server.todo) = t /\ t.do = "finish"
  BY TaskFacts DEF DoFinish, Task
<1>2. PICK o \in Finish(gpu, f) : gpu' = o.gpu /\ Write(o.answer, Rest) BY <1>1 DEF DoFinish
<1>3. /\ t \in Tasks /\ Number(t) = Done + 1 /\ \A h \in server.begun : h.i = Done + 2
      /\ Flights = server.begun \cup {f}
  BY <1>1, TaskFacts
<1>4. f \in Bundles /\ f.i = Done + 1 BY <1>1, <1>3, TaskTypes DEF Number
<1>. HIDE DEF t, f
<1>5. Done \in Int /\ Begun \in Int /\ gpu \in Gpus /\ Sound(gpu, Flights, Begun)
  BY Counts DEF IInv, Types
<1>6. f \in Flights /\ \A h \in Flights : h.i = f.i => h = f BY <1>3, <1>4, <1>5
<1>7. /\ o.gpu \in Gpus /\ Sound(o.gpu, Flights \ {f}, Begun)
      /\ o.answer \in Replies /\ o.answer.i = f.i /\ o.answer.pictures \subseteq {Picture(f.i)}
  BY <1>2, <1>4, <1>5, <1>6, FinishKeeps
<1>8. Flights \ {f} = server.begun BY <1>3, <1>4, <1>5
<1>. QED BY <1>1, <1>2, <1>4, <1>7, <1>8, WriteKeeps DEF t

LEMMA DoAnswerKeeps ==
  ASSUME IInv, DoAnswer
  PROVE  IInv'
<1>. DEFINE t == server.todo[1]
<1>1. server.todo # <<>> /\ Head(server.todo) = t /\ t.do = "answer"
  BY TaskFacts DEF DoAnswer, Task
<1>2. gpu' = gpu /\ Write(t.answer, Rest) BY <1>1 DEF DoAnswer
<1>3. t \in Tasks /\ Number(t) = Done + 1 /\ Flights = server.begun /\ server.on
  BY <1>1, TaskFacts
<1>4. t.answer \in Replies /\ t.answer.i = Done + 1 BY <1>1, <1>3, TaskTypes DEF Number
<1>5. t.answer.pictures \subseteq {Picture(t.answer.i)}
  <2>1. Len(server.todo) \in Nat /\ DOMAIN server.todo = 1..Len(server.todo) BY Counts
  <2>2. server.todo \in Seq(Tasks) BY DEF IInv, Types, Servers
  <2>3. 1 \in DOMAIN server.todo BY <1>1, <2>1, <2>2, EmptySeq
  <2>. QED BY <1>1, <1>3, <2>3 DEF IInv, Shaped
<1>. HIDE DEF t
<1>6. gpu' \in Gpus /\ Sound(gpu', server.begun, Begun) BY <1>2, <1>3 DEF IInv, Types
<1>. QED BY <1>1, <1>2, <1>4, <1>5, <1>6, WriteKeeps DEF t

\* A request that is served on its own is the only thing to do, and nothing is in flight.
LEMMA ServeFacts ==
  ASSUME IInv, server.todo # <<>>, server.todo[1].do = "serve"
  PROVE  LET r == server.todo[1].request
         IN  /\ Head(server.todo).request = r /\ r \in Asks /\ r.i = Taken /\ r.i = Done + 1
             /\ Rest = <<>> /\ server.begun = {} /\ server.in_flight = {} /\ server.on
             /\ Flights = {} /\ Begun = Taken - 1
             /\ gpu \in Gpus /\ Sound(gpu, Flights, Taken - 1)
<1>. DEFINE t == server.todo[1]
<1>1. /\ server.on /\ server.in_flight = {} /\ Head(server.todo) = t /\ t \in Tasks
      /\ Number(t) = Done + 1 /\ Rest \in Seq(Tasks) /\ Len(Rest) = Len(server.todo) - 1
      /\ server.begun = {} /\ Flights = {}
      /\ Taken = Done + 1 + Len(Rest) + (IF server.begun = {} THEN 0 ELSE 1)
  BY TaskFacts
<1>2. t.request \in Asks /\ t.request.i = Done + 1 BY <1>1, TaskTypes DEF Number
<1>3. Done \in Int /\ Taken \in Int /\ Len(server.todo) \in Nat
      /\ DOMAIN server.todo = 1..Len(server.todo)
  BY Counts
<1>4. 1 \in DOMAIN server.todo
  <2>1. server.todo \in Seq(Tasks) BY DEF IInv, Types, Servers
  <2>. QED BY <1>3, <2>1, EmptySeq
<1>5. Len(server.todo) = 1 BY <1>1, <1>4 DEF IInv, Shaped
<1>6. Rest = <<>> BY <1>1, <1>5, EmptySeq
<1>7. Taken = Done + 1 BY <1>1, <1>3, <1>5
<1>8. Begun = Taken - 1 BY <1>4 DEF Begun
<1>. QED BY <1>1, <1>2, <1>6, <1>7, <1>8 DEF IInv, Types

\* What a served request leaves to do: to finish its bundle, or to write its answer.
LEMMA ServedKeeps ==
  ASSUME IInv, server.todo # <<>>, server.todo[1].do = "serve", NEW t \in Tasks,
         server' = [server EXCEPT !.todo = <<t>> \o Rest],
         UNCHANGED <<client, wire, asked, answers, sent, met>>,
         Number(t) = Taken, t.do # "serve",
         t.do = "answer" => t.answer.pictures \subseteq {Picture(t.answer.i)},
         gpu' \in Gpus,
         Sound(gpu', IF t.do = "finish" THEN {t.flight} ELSE {}, Taken)
  PROVE  IInv'
<1>1. /\ Rest = <<>> /\ server.begun = {} /\ server.in_flight = {} /\ server.on /\ Taken = Done + 1
  BY ServeFacts
<1>2. /\ <<t>> \o <<>> = <<t>> /\ <<t>> \in Seq(Tasks) /\ Len(<<t>>) = 1 /\ DOMAIN <<t>> = {1}
      /\ <<t>> # <<>> /\ <<t>>[1] = t
  BY ShortSequences
<1>3. server \in Servers BY DEF IInv, Types
<1>4. /\ server' \in Servers /\ server'.on = server.on /\ server'.queue = server.queue
      /\ server'.in_flight = {} /\ server'.begun = {} /\ server'.todo = <<t>>
  BY <1>1, <1>2, <1>3 DEF Servers
<1>5. Taken' = Taken /\ Done' = Done /\ Ahead' = {} BY <1>1, <1>4 DEF Taken, Done, Ahead
<1>6. Done \in Int /\ Taken \in Int BY Counts
<1>7. InLine'
  <2>1. InLine BY <1>1 DEF IInv
  <2>2. \A k \in DOMAIN server'.todo : Number(server'.todo[k]) = Done' + k
    BY <1>1, <1>2, <1>4, <1>5, <1>6
  <2>3. Taken' = Done' + Len(server'.todo) + (IF Ahead' = {} THEN 0 ELSE 1)
    <3>1. Len(server'.todo) = 1 BY <1>2, <1>4
    <3>. QED BY ONLY <3>1, <1>1, <1>5, <1>6
  <2>. QED BY <1>4, <1>5, <2>1, <2>2, <2>3 DEF InLine
<1>8. Shaped' BY <1>2, <1>4, <1>5 DEF Shaped, None
<1>9. Begun' = Taken BY <1>2, <1>4, <1>5 DEF Begun
<1>10. Flights' = (IF t.do = "finish" THEN {t.flight} ELSE {})
  <2>1. Flights' = HeadFlights(server') BY <1>2, <1>4, FlightsNext
  <2>. QED BY <2>1, <1>2, <1>4 DEF HeadFlights
<1>11. Sound(gpu', Flights', Begun') BY <1>9, <1>10
<1>. QED BY <1>1, <1>4, <1>7, <1>8, <1>11 DEF IInv, Types, Numbered

LEMMA ServePlainKeeps ==
  ASSUME IInv, ServePlain
  PROVE  IInv'
<1>. DEFINE r == server.todo[1].request
<1>1. server.todo # <<>> /\ server.todo[1].do = "serve"
  BY TaskFacts DEF ServePlain, Task
<1>2. /\ Head(server.todo).request = r /\ r \in Asks /\ r.i = Taken
      /\ Flights = {} /\ gpu \in Gpus /\ Sound(gpu, Flights, Taken - 1)
  BY <1>1, ServeFacts
<1>3. PICK o \in Begin(gpu, r) :
        /\ gpu' = o.gpu
        /\ server' = [server EXCEPT
             !.todo = <<IF o.ticket = None THEN AnswerTask(Error(r.i))
                        ELSE FinishTask(Flight(r.i, The(o.ticket)))>> \o Rest]
  BY <1>2 DEF ServePlain
<1>. HIDE DEF r
<1>10. r \in Asks /\ gpu \in Gpus /\ o \in Begin(gpu, r) BY <1>2
<1>4. Taken \in Int /\ Taken - 1 \in Int /\ Taken - 1 < r.i BY <1>2, Counts
<1>5. /\ o.gpu \in Gpus
      /\ o.ticket = None \/ o.ticket = {ReadyTicket(r.i)} \/ o.ticket = {PendingTicket(r.i)}
      /\ Sound(o.gpu, Flights \cup {Flight(r.i, t) : t \in o.ticket}, r.i)
  <2>. DEFINE before == Taken - 1
              flights == Flights
  <2>1. before \in Int /\ before < r.i /\ Sound(gpu, flights, before) BY <1>2, <1>4
  <2>2. /\ \A f \in flights : f.i <= before /\ f.i \in Int
        /\ \A f, h \in flights : f = h
    BY <1>2
  <2>. HIDE DEF before, flights
  <2>3. /\ o.gpu \in Gpus
        /\ o.ticket = None \/ o.ticket = {ReadyTicket(r.i)} \/ o.ticket = {PendingTicket(r.i)}
        /\ Sound(o.gpu, flights \cup {Flight(r.i, t) : t \in o.ticket}, r.i)
    BY ONLY <1>10, <2>1, <2>2, BeginKeeps
  <2>. QED BY <2>3 DEF flights
<1>6. r.i \in Numbers /\ MaxRequests \in Nat BY <1>2, PipelineAssumption DEF Asks
<1>7. UNCHANGED <<client, wire, asked, answers, sent, met>> BY DEF ServePlain
<1>8. CASE o.ticket = None
  <2>. DEFINE e == AnswerTask(Error(r.i))
  <2>1. Error(r.i) \in Replies /\ Error(r.i).i = r.i /\ Error(r.i).pictures = {}
    BY <1>6 DEF Error, Answer, Replies, None
  <2>2. /\ e \in Tasks /\ e.do = "answer" /\ Number(e) = Taken
        /\ e.answer.pictures \subseteq {Picture(e.answer.i)}
    BY <1>2, <2>1, TaskMade
  <2>3. {Flight(r.i, t) : t \in o.ticket} = {} BY <1>8 DEF None
  <2>4. Sound(gpu', {}, Taken) BY <1>2, <1>3, <1>5, <2>3
  <2>5. server' = [server EXCEPT !.todo = <<e>> \o Rest] BY <1>3, <1>8
  <2>. HIDE DEF e
  <2>. QED BY <1>1, <1>3, <1>5, <1>7, <2>2, <2>4, <2>5, ServedKeeps
<1>9. ASSUME o.ticket # None PROVE IInv'
  <2>1. PICK t : o.ticket = {t} /\ t \in {ReadyTicket(r.i), PendingTicket(r.i)} BY <1>5, <1>9
  <2>2. The(o.ticket) = t BY <2>1 DEF The
  <2>3. t \in Tickets
    BY <1>6, <2>1 DEF ReadyTicket, PendingTicket, Tickets, Some, None, Picture, Pictures, Numbers
  <2>. DEFINE f == Flight(r.i, t)
              e == FinishTask(f)
  <2>4. f \in Bundles /\ f.i = r.i BY <1>6, <2>3 DEF Flight, Bundles
  <2>5. e \in Tasks /\ e.do = "finish" /\ e.flight = f /\ Number(e) = Taken BY <1>2, <2>4, TaskMade
  <2>6. Flights \cup {Flight(r.i, u) : u \in o.ticket} = {f} BY <1>2, <2>1
  <2>7. Sound(gpu', {f}, Taken) BY <1>2, <1>3, <1>5, <2>6
  <2>8. server' = [server EXCEPT !.todo = <<e>> \o Rest] BY <1>3, <1>9, <2>2
  <2>. HIDE DEF e, f
  <2>. QED BY <1>1, <1>3, <1>5, <1>7, <2>5, <2>7, <2>8, ServedKeeps
<1>. QED BY <1>8, <1>9

LEMMA ServeTickKeeps ==
  ASSUME IInv, ServeTick
  PROVE  IInv'
<1>. DEFINE r == server.todo[1].request
<1>1. server.todo # <<>> /\ server.todo[1].do = "serve"
  BY TaskFacts DEF ServeTick, Task
<1>2. /\ Head(server.todo).request = r /\ r \in Asks /\ r.i = Taken
      /\ Flights = {} /\ gpu \in Gpus /\ Sound(gpu, Flights, Taken - 1)
  BY <1>1, ServeFacts
<1>3. PICK o \in RenderTick(gpu, r) :
        /\ gpu' = o.gpu
        /\ server' = [server EXCEPT
             !.todo = <<AnswerTask(IF o.ticket = None THEN Error(r.i)
                                   ELSE Answer(r.i, The(o.ticket).picture))>> \o Rest]
  BY <1>2 DEF ServeTick
<1>. HIDE DEF r
<1>4. Taken \in Int /\ Taken - 1 \in Int BY Counts
<1>5. /\ o.gpu \in Gpus /\ Sound(o.gpu, Flights, Taken - 1)
      /\ o.ticket = None \/ o.ticket = {ReadyTicket(r.i)}
  <2>. DEFINE before == Taken - 1
              flights == Flights
  <2>1. before \in Int /\ flights = {} /\ Sound(gpu, flights, before) BY <1>2, <1>4
  <2>. HIDE DEF before, flights
  <2>2. /\ o.gpu \in Gpus /\ Sound(o.gpu, flights, before)
        /\ o.ticket = None \/ o.ticket = {ReadyTicket(r.i)}
    BY <1>2, <2>1, TickKeeps
  <2>. QED BY <2>2 DEF before, flights
<1>6. r.i \in Numbers /\ MaxRequests \in Nat BY <1>2, PipelineAssumption DEF Asks
<1>7. UNCHANGED <<client, wire, asked, answers, sent, met>> BY DEF ServeTick
<1>. DEFINE a == IF o.ticket = None THEN Error(r.i) ELSE Answer(r.i, The(o.ticket).picture)
            e == AnswerTask(a)
<1>8. a \in Replies /\ a.i = r.i /\ a.pictures \subseteq {Picture(r.i)}
  <2>1. o.ticket # None => The(o.ticket).picture = {Picture(r.i)}
    <3>1. ReadyTicket(r.i).picture = {Picture(r.i)} BY DEF ReadyTicket, Some
    <3>2. o.ticket = {ReadyTicket(r.i)} => The(o.ticket) = ReadyTicket(r.i) BY DEF The
    <3>. QED BY <1>5, <3>1, <3>2
  <2>2. Picture(r.i) \in Pictures BY <1>6 DEF Picture, Pictures, Numbers
  <2>3. \A pictures \in SUBSET {Picture(r.i)} :
          /\ Answer(r.i, pictures) \in Replies /\ Answer(r.i, pictures).i = r.i
          /\ Answer(r.i, pictures).pictures = pictures
    BY <1>6, <2>2 DEF Answer, Replies
  <2>4. a \in {Answer(r.i, {}), Answer(r.i, {Picture(r.i)})} BY <2>1 DEF Error, None
  <2>. QED BY <2>3, <2>4
<1>. HIDE DEF a
<1>9. e \in Tasks /\ e.do = "answer" /\ e.answer = a /\ Number(e) = Taken BY <1>2, <1>8, TaskMade
<1>10. Sound(gpu', {}, Taken)
  <2>1. {} \in SUBSET Flights /\ Taken - 1 <= Taken BY <1>4
  <2>. QED BY <1>3, <1>4, <1>5, <2>1, Weaker
<1>11. server' = [server EXCEPT !.todo = <<e>> \o Rest] BY <1>3 DEF a
<1>. HIDE DEF e
<1>. QED BY <1>1, <1>3, <1>5, <1>7, <1>8, <1>9, <1>10, <1>11, ServedKeeps

LEMMA ServeCloseKeeps ==
  ASSUME IInv, ServeClose
  PROVE  IInv'
<1>. DEFINE r == server.todo[1].request
            a == Answer(r.i, None)
<1>1. server.todo # <<>> /\ server.todo[1].do = "serve"
  BY TaskFacts DEF ServeClose, Task
<1>2. /\ Head(server.todo).request = r /\ r \in Asks /\ r.i = Done + 1
      /\ Begun = Taken - 1 /\ gpu \in Gpus /\ Sound(gpu, Flights, Begun)
  BY <1>1, ServeFacts
<1>3. /\ server' = NoServer /\ answers' = Append(answers, a)
      /\ UNCHANGED <<client, wire, asked, gpu, sent, met>>
  BY <1>2 DEF ServeClose
<1>. HIDE DEF r
<1>4. a \in Replies /\ a.i = Done + 1 /\ a.pictures \subseteq {Picture(a.i)}
  BY <1>2 DEF Answer, Replies, None, Asks
<1>. HIDE DEF a
<1>5. Len(answers) < Len(asked) BY <1>1, TaskFacts
<1>6. answers' \in Seq(Replies) /\ Numbered' BY <1>3, <1>4, <1>5, AnswerAppended
<1>. QED BY <1>2, <1>3, <1>6, EndKeeps

-----------------------------------------------------------------------------
(* The steps of the client and the GPU, and the theorems.                  *)

LEMMA ConnectKeeps ==
  ASSUME IInv, Connect
  PROVE  IInv'
<1>1. /\ ~server.on /\ met' = met + 1 /\ client' = "open" /\ wire' = <<>> /\ asked' = <<>>
      /\ answers' = <<>> /\ server' = [NoServer EXCEPT !.on = TRUE] /\ UNCHANGED <<gpu, sent>>
  BY DEF Connect
<1>2. /\ server'.on /\ server'.queue = <<>> /\ server'.todo = <<>> /\ server'.in_flight = {}
      /\ server'.begun = {} /\ server' \in Servers
  BY <1>1, EmptySeq DEF NoServer, Servers, None
<1>3. Len(<<>>) = 0 /\ DOMAIN <<>> = {} BY EmptySeq
<1>4. sent \in Nat BY Counts
<1>5. Types' BY <1>1, <1>2, EmptySeq DEF IInv, Types
<1>6. Numbered' BY <1>1, <1>3, <1>4 DEF Numbered
<1>7. Taken' = sent /\ Done' = sent /\ Ahead' = {}
  BY <1>1, <1>2, <1>3, <1>4 DEF Taken, Done, Ahead
<1>8. InLine' BY <1>1, <1>2, <1>3, <1>4, <1>7 DEF InLine
<1>9. Shaped' BY <1>2, <1>3, <1>7 DEF Shaped, None
<1>10. Flights' = {} BY <1>2, <1>3, EmptySeq, FlightsNext DEF HeadFlights
<1>11. Begun' = sent BY <1>2, <1>3, <1>7 DEF Begun
<1>12. Sound(gpu, {}, sent)
  <2>1. gpu \in Gpus /\ Sound(gpu, Flights, Begun) /\ Begun \in Int /\ Begun <= sent
    BY Counts DEF IInv, Types
  <2>. QED BY <2>1, <1>4, Weaker
<1>. QED BY <1>1, <1>2, <1>5, <1>6, <1>8, <1>9, <1>10, <1>11, <1>12 DEF IInv

LEMMA SendKeeps ==
  ASSUME IInv, NEW request \in Requests, Send(request)
  PROVE  IInv'
<1>. DEFINE r == [i |-> sent + 1, op |-> request.op, resize |-> request.resize]
<1>1. /\ server.on /\ sent < MaxRequests /\ sent' = sent + 1
      /\ wire' = Append(wire, r) /\ asked' = Append(asked, sent + 1)
      /\ UNCHANGED <<client, answers, server, gpu, met>>
  BY DEF Send
<1>2. sent \in Nat /\ MaxRequests \in Nat /\ Taken \in Int /\ Done \in Int
      /\ Len(wire) \in Nat /\ DOMAIN wire = 1..Len(wire)
      /\ Len(asked) \in Nat /\ DOMAIN asked = 1..Len(asked)
      /\ Len(answers) \in Nat /\ Len(server.queue) \in Nat
  BY Counts
<1>3. r \in Asks /\ r.i = sent + 1 BY <1>1, <1>2, PipelineAssumption DEF Asks, Numbers
<1>. HIDE DEF r
<1>4. /\ wire' \in Seq(Asks) /\ Len(wire') = Len(wire) + 1
      /\ \A k \in 1..Len(wire) : wire'[k] = wire[k]
      /\ wire'[Len(wire) + 1] = r /\ DOMAIN wire' = 1..(Len(wire) + 1)
  <2>1. wire \in Seq(Asks) BY DEF IInv, Types
  <2>2. wire' \in Seq(Asks) /\ Len(wire') = Len(wire) + 1 BY <1>1, <1>3, <2>1, AppendProperties
  <2>. QED BY <1>1, <1>3, <2>1, <2>2, AppendProperties, LenProperties
<1>5. /\ asked' \in Seq(Numbers) /\ Len(asked') = Len(asked) + 1
      /\ \A k \in 1..Len(asked) : asked'[k] = asked[k]
      /\ asked'[Len(asked) + 1] = sent + 1 /\ DOMAIN asked' = 1..(Len(asked) + 1)
  <2>1. asked \in Seq(Numbers) BY DEF IInv, Types
  <2>2. sent + 1 \in Numbers BY <1>1, <1>2 DEF Numbers
  <2>3. asked' \in Seq(Numbers) /\ Len(asked') = Len(asked) + 1 BY <1>1, <2>1, <2>2, AppendProperties
  <2>. QED BY <1>1, <2>1, <2>2, <2>3, AppendProperties, LenProperties
<1>6. Types' BY <1>1, <1>2, <1>4, <1>5 DEF IInv, Types
<1>7. InLine /\ Shaped /\ Numbered BY <1>1 DEF IInv
<1>8. Taken' = Taken /\ Done' = Done /\ Ahead' = Ahead
  <2>1. Taken' = sent' - Len(wire') - Len(server'.queue) /\ Taken = sent - Len(wire) - Len(server.queue)
    BY <1>1 DEF Taken
  <2>2. Len(server'.queue) = Len(server.queue) BY <1>1
  <2>3. Taken' = Taken BY ONLY <2>1, <2>2, <1>1, <1>2, <1>4
  <2>. QED BY <2>3, <1>1, <1>2, <1>5 DEF Done, Ahead
<1>9. Numbered'
  <2>1. \A k \in DOMAIN asked' : asked'[k] = sent' - Len(asked') + k
    BY <1>1, <1>2, <1>5, <1>7 DEF Numbered
  <2>2. \A k \in DOMAIN answers' : answers'[k].i = sent' - Len(asked') + k
    <3>1. sent' - Len(asked') = sent - Len(asked) BY <1>1, <1>2, <1>5
    <3>. QED BY <3>1, <1>1, <1>7 DEF Numbered
  <2>3. Len(asked') <= sent' /\ Len(answers') <= Len(asked') BY <1>1, <1>2, <1>5, <1>7 DEF Numbered
  <2>. QED BY <2>1, <2>2, <2>3, <1>1, <1>7 DEF Numbered
<1>10. InLine'
  <2>1. \A k \in DOMAIN wire' : wire'[k].i = sent' - Len(wire') + k
    <3>1. TAKE k \in DOMAIN wire'
    <3>2. CASE k \in DOMAIN wire BY <3>2, <1>1, <1>2, <1>4, <1>7 DEF InLine
    <3>3. CASE k = Len(wire) + 1 BY <3>3, <1>1, <1>2, <1>3, <1>4
    <3>. QED BY <3>1, <3>2, <3>3, <1>2, <1>4
  <2>. QED BY <2>1, <1>1, <1>7, <1>8 DEF InLine
<1>11. Shaped' BY <1>1, <1>7, <1>8 DEF Shaped
<1>12. Flights' = Flights /\ Begun' = Begun BY <1>1, <1>8 DEF Flights, Begun
<1>. QED BY <1>1, <1>6, <1>9, <1>10, <1>11, <1>12 DEF IInv

LEMMA LeaveKeeps ==
  ASSUME IInv, NEW how \in {"half", "gone"}, Leave(how)
  PROVE  IInv'
<1>1. client' = how /\ UNCHANGED <<wire, asked, answers, server, gpu, sent, met>> BY DEF Leave
<1>2. Taken' = Taken /\ Done' = Done /\ Ahead' = Ahead /\ Flights' = Flights
  BY <1>1 DEF Taken, Done, Ahead, Flights
<1>3. Begun' = Begun BY <1>1, <1>2 DEF Begun
<1>4. InLine' <=> InLine BY <1>1, <1>2 DEF InLine
<1>5. Shaped' <=> Shaped BY <1>1, <1>2 DEF Shaped
<1>. QED BY <1>1, <1>2, <1>3, <1>4, <1>5 DEF IInv, Types, Numbered

LEMMA GpuDoneKeeps ==
  ASSUME IInv, NEW m \in gpu.maps, GpuDone(m)
  PROVE  IInv'
<1>1. UNCHANGED <<client, wire, asked, answers, server, sent, met>> BY DEF GpuDone
<1>2. gpu' = Completed(gpu, m) BY DEF GpuDone, Completed
<1>3. gpu \in Gpus /\ Sound(gpu, Flights, Begun) /\ Begun \in Int BY Counts DEF IInv, Types
<1>4. gpu' \in Gpus /\ Sound(gpu', Flights, Begun) BY <1>2, <1>3, DoneKeeps
<1>5. Taken' = Taken /\ Done' = Done /\ Ahead' = Ahead /\ Flights' = Flights
  BY <1>1 DEF Taken, Done, Ahead, Flights
<1>6. Begun' = Begun BY <1>1, <1>5 DEF Begun
<1>7. InLine' <=> InLine BY <1>1, <1>5 DEF InLine
<1>8. Shaped' <=> Shaped BY <1>1, <1>5 DEF Shaped
<1>. QED BY <1>1, <1>4, <1>5, <1>6, <1>7, <1>8 DEF IInv, Types, Numbered

LEMMA InitHolds == Init => IInv
<1>. SUFFICES ASSUME Init PROVE IInv OBVIOUS
<1>1. /\ client = "away" /\ wire = <<>> /\ asked = <<>> /\ answers = <<>>
      /\ server = NoServer /\ gpu = NewGpu /\ sent = 0 /\ met = 0
  BY DEF Init
<1>2. MaxRequests \in Nat BY PipelineAssumption
<1>3. NewGpu \in Gpus /\ NewGpu.maps = {} /\ ~NewGpu.refused
  <2>1. Absent \in Buffers BY <1>2 DEF Absent, Buffers
  <2>. QED BY <2>1 DEF NewGpu, Gpus
<1>4. NoServer \in Servers /\ ~NoServer.on /\ NoServer.todo = <<>>
      /\ NoServer.in_flight = {} /\ NoServer.begun = {}
  BY EmptySeq DEF NoServer, Servers, None
<1>5. Len(<<>>) = 0 /\ DOMAIN <<>> = {} BY EmptySeq
<1>6. Types BY <1>1, <1>2, <1>3, <1>4, EmptySeq DEF Types
<1>7. Numbered BY <1>1, <1>5 DEF Numbered
<1>8. Flights = {} BY <1>1, <1>4, <1>5, EmptySeq, FlightsAre DEF HeadFlights
<1>9. Sound(gpu, Flights, Begun) BY <1>1, <1>3, <1>8 DEF Sound, Unique
<1>. QED BY <1>1, <1>4, <1>6, <1>7, <1>9 DEF IInv

LEMMA StepKeeps == IInv /\ [Next]_vars => IInv'
<1>. SUFFICES ASSUME IInv, [Next]_vars PROVE IInv' OBVIOUS
<1>1. CASE Read BY <1>1, ReadKeeps
<1>2. CASE ReadEnd BY <1>2, ReadEndKeeps
<1>3. CASE ReadError BY <1>3, HangUpKeeps DEF ReadError
<1>4. CASE ReadNothing BY <1>4, ReadNothingKeeps DEF ReadNothing, Reading
<1>5. CASE TakeChained BY <1>5, TakeChainedKeeps
<1>6. CASE TakeOther
  <2>1. AtTop /\ UNCHANGED <<client, wire, asked, answers, gpu, sent, met>> BY <1>6 DEF TakeOther
  <2>2. CASE server.queue # <<>>
    <3>1. server' = [server EXCEPT !.queue = Tail(@), !.in_flight = None,
            !.todo = Finishing(server.in_flight) \o <<ServeTask(Head(server.queue))>>]
      BY <1>6, <2>2 DEF TakeOther
    <3>. QED BY <2>1, <2>2, <3>1, TakeServeKeeps
  <2>3. CASE server.queue = <<>>
    <3>1. server.in_flight # None BY <1>6, <2>3 DEF TakeOther
    <3>2. server' = [server EXCEPT !.queue = server.queue, !.in_flight = None,
            !.todo = Finishing(server.in_flight) \o <<>>]
      BY <1>6, <2>3 DEF TakeOther
    <3>3. server \in Servers BY DEF IInv, Types
    <3>4. Finishing(server.in_flight) \in Seq(Tasks)
      <4>1. PICK f \in server.in_flight : TRUE BY <3>1 DEF None
      <4>2. Finishing(server.in_flight) = <<FinishTask(f)>> /\ f \in Bundles BY <2>1, FinishingIs
      <4>3. FinishTask(f) \in Tasks BY <4>2, TaskMade
      <4>. QED BY <4>2, <4>3
    <3>5. Finishing(server.in_flight) \o <<>> = Finishing(server.in_flight) BY <3>4, ConcatEmptySeq
    <3>6. server' = [server EXCEPT !.in_flight = None, !.todo = Finishing(server.in_flight)]
      BY <3>2, <3>3, <3>5 DEF Servers
    <3>. QED BY <2>1, <3>1, <3>6, ReadNothingKeeps
  <2>. QED BY <2>2, <2>3
<1>7. CASE Eof BY <1>7, HangUpKeeps DEF Eof
<1>8. CASE DoFinish BY <1>8, DoFinishKeeps
<1>9. CASE DoAnswer BY <1>9, DoAnswerKeeps
<1>10. CASE ServePlain BY <1>10, ServePlainKeeps
<1>11. CASE ServeTick BY <1>11, ServeTickKeeps
<1>12. CASE ServeClose BY <1>12, ServeCloseKeeps
<1>13. CASE Connect BY <1>13, ConnectKeeps
<1>14. CASE \E request \in Requests : Send(request) BY <1>14, SendKeeps
<1>15. CASE \E how \in {"half", "gone"} : Leave(how) BY <1>15, LeaveKeeps
<1>16. CASE \E m \in gpu.maps : GpuDone(m) BY <1>16, GpuDoneKeeps
<1>17. CASE UNCHANGED vars
  <2>1. UNCHANGED <<client, wire, asked, answers, server, gpu, sent, met>> BY <1>17 DEF vars
  <2>2. Taken' = Taken /\ Done' = Done /\ Ahead' = Ahead /\ Flights' = Flights
    BY <2>1 DEF Taken, Done, Ahead, Flights
  <2>3. Begun' = Begun BY <2>1, <2>2 DEF Begun
  <2>4. InLine' <=> InLine BY <2>1, <2>2 DEF InLine
  <2>5. Shaped' <=> Shaped BY <2>1, <2>2 DEF Shaped
  <2>. QED BY <2>1, <2>2, <2>3, <2>4, <2>5 DEF IInv, Types, Numbered
<1>. QED BY <1>1, <1>2, <1>3, <1>4, <1>5, <1>6, <1>7, <1>8, <1>9, <1>10, <1>11, <1>12, <1>13,
           <1>14, <1>15, <1>16, <1>17 DEF Next, Server

LEMMA Inductive == Spec => []IInv
BY InitHolds, StepKeeps, PTL DEF Spec

\* The loop's variables and the engine's keep their types, and a bundle that waits for
\* its pixels has its deferred map (handle_connection, capture_begin).
THEOREM Typed == Spec => []TypeOK
<1>1. IInv => TypeOK
  <2>. SUFFICES ASSUME IInv PROVE TypeOK OBVIOUS
  <2>1. client \in {"away", "open", "half", "gone"} /\ server \in Servers /\ gpu \in Gpus
    BY DEF IInv, Types
  <2>2. server.in_flight = None \/ server.todo = <<>> BY DEF IInv, Shaped, NoServer
  <2>3. gpu.maps \subseteq Maps /\ gpu.staging \in [Slots -> [Cameras -> Buffers]]
    BY <2>1 DEF Gpus
  <2>4. ASSUME NEW f \in Flights, f.ticket.pending # None PROVE \E m \in gpu.maps : m.of = f.i
    <3>1. Carries(gpu, f) BY DEF IInv, Sound, Collectable
    <3>2. f.ticket # [pending |-> None, picture |-> Some(Picture(f.i))] BY <2>4
    <3>. QED BY <3>1, <3>2 DEF Carries
  <2>. QED BY <2>1, <2>2, <2>3, <2>4 DEF TypeOK, Maps, Buffers, Numbers
<1>. QED BY <1>1, Inductive, PTL

\* Each request of a connection is answered once and in the order of the requests, also
\* when a bundle begun early fails before the one in flight is collected (the
\* in_flight loop of handle_connection).
THEOREM InOrder == Spec => []AnswersInOrder
<1>1. IInv => AnswersInOrder
  <2>. SUFFICES ASSUME IInv PROVE AnswersInOrder OBVIOUS
  <2>1. Numbered BY DEF IInv
  <2>2. /\ DOMAIN asked = 1..Len(asked) /\ DOMAIN answers = 1..Len(answers)
        /\ Len(asked) \in Nat /\ Len(answers) \in Nat
    BY Counts
  <2>3. \A k \in DOMAIN answers : k \in DOMAIN asked BY <2>1, <2>2 DEF Numbered
  <2>. QED BY <2>1, <2>3 DEF AnswersInOrder, Numbered
<1>. QED BY <1>1, Inductive, PTL

\* A bundle shows its own request from every camera, whatever was submitted, resized,
\* abandoned or completed between capture_begin and capture_finish.
THEOREM Own == Spec => []OwnPicture
<1>1. IInv => OwnPicture BY DEF IInv, Numbered, OwnPicture
<1>. QED BY <1>1, Inductive, PTL

\* capture_begin refuses only when a capture was abandoned that still holds a slot: two
\* maps, and at most one bundle that anybody will collect.
THEOREM RefusedAfterLoss == Spec => []RefusedOnlyAfterLoss
<1>1. IInv => RefusedOnlyAfterLoss
  BY DEF IInv, Sound, Lost, RefusedOnlyAfterLoss, Abandoned
<1>. QED BY <1>1, Inductive, PTL

=============================================================================
