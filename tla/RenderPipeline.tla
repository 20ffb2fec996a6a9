--------------------------- MODULE RenderPipeline ---------------------------
(***************************************************************************)
(* The request loop of the render service (handle_connection of            *)
(* renderer/service/src/server.rs) and the captures it keeps on the GPU    *)
(* (capture_begin, capture_finish and the staging buffers of               *)
(* renderer/render-core/src/engine.rs).  One thread serves one client at a *)
(* time; the client and the GPU run beside it.                             *)
(*                                                                         *)
(* Abstractions.  Every bundle shows all Cameras, and its picture is the   *)
(* number of its request.  What can fail in begin_bundle before or after   *)
(* the submission, and when the GPU settles, is nondeterministic.  The     *)
(* publication into the ring is FrameRing's.  wgpu is external: a copy into*)
(* a buffer that is mapped or about to be is an error of the device, and a *)
(* buffer dropped before its map completes fails the map.                  *)
(***************************************************************************)
EXTENDS Integers, Sequences, FiniteSets, SequencesExt

\* A definition whose comment starts with "Fault:" is not part of the model:
\* PROJECT.json names it as the mutated form of the definition that follows it.

CONSTANTS
  Cameras,        \* the cameras of the rig
  Requests,       \* what a client may ask: an op and the cameras it resizes
  MaxRequests,    \* bound: requests sent
  MaxConnections  \* bound: connections made

Ops == {"piped", "plain", "tick", "close"}

ASSUME PipelineAssumption ==
  /\ IsFiniteSet(Cameras) /\ Cameras # {}
  /\ Requests \subseteq [op : Ops, resize : SUBSET Cameras]
  /\ MaxRequests \in Nat /\ MaxConnections \in Nat

VARIABLES
  client,   \* its side of the socket: "away", "open", "half" closed, "gone"
  wire,     \* requests it sent that the service has not read
  asked,    \* history: the numbers of the requests of this connection
  answers,  \* history: what it was answered
  server,   \* handle_connection: queue, in_flight, eof and what it still has to do
  gpu,      \* the deferred maps, the staging buffers and the device
  sent, met \* spent against the bounds

vars == <<client, wire, asked, answers, server, gpu, sent, met>>

READBACK_SLOTS == 2
Slots == 0..(READBACK_SLOTS - 1)

\* A set of at most one element: Option.
None == {}
Some(x) == {x}
The(option) == CHOOSE x \in option : TRUE

-----------------------------------------------------------------------------
(* The engine: captures.                                                   *)

Absent == [map |-> "absent", copied |-> FALSE, shows |-> 0]
Idle == [map |-> "idle", copied |-> FALSE, shows |-> 0]

NewGpu ==
  [maps |-> {},                                        \* DeferredMaps
   staging |-> [s \in Slots |-> [c \in Cameras |-> Absent]],
   broken |-> FALSE,                                   \* RenderFailure
   refused |-> FALSE,                                  \* history: a capture found no slot
   shared |-> FALSE]                                   \* history: a capture took a held one

\* Fault: a map whose buffers are dropped is taken off the list.
ResizedForgets(g, cams) ==
  [g EXCEPT
    !.staging = [s \in Slots |-> [c \in Cameras |-> IF c \in cams THEN Absent ELSE g.staging[s][c]]],
    !.maps = {m \in @ : m.waiting \cap cams = {}}]

\* sync_staging: the buffers of targets that are gone are dropped, also those a
\* capture is waiting for.
Resized(g, cams) ==
  [g EXCEPT
    !.staging = [s \in Slots |-> [c \in Cameras |-> IF c \in cams THEN Absent ELSE g.staging[s][c]]],
    !.maps = {[m EXCEPT !.waiting = @ \ cams, !.failed = @ \/ m.waiting \cap cams # {}] : m \in @}]

Holds(m, s) == m.slot = s

\* The first slot that no deferred map holds, or else the first.
free_slot(g) ==
  LET free == {s \in Slots : \A m \in g.maps : ~Holds(m, s)}
  IN  IF free = {} THEN 0 ELSE Min(free)

Copyable(g, s) == \A c \in Cameras : g.staging[s][c].map \in {"absent", "idle"}

\* copy_passes and receive_passes of a submission into slot s.
Copied(g, s, buffer) == [g EXCEPT !.staging[s] = [c \in Cameras |-> buffer],
                                  !.shared = @ \/ \E m \in g.maps : Holds(m, s)]
Broken(g, s) == [g EXCEPT !.broken = TRUE, !.shared = @ \/ \E m \in g.maps : Holds(m, s)]

Picture(i) == [c \in Cameras |-> i]

\* What an attempt to capture comes to: the engine after it and, unless it was
\* an error, the ticket: the number of a pending map or a picture.
Failed(g) == [gpu |-> g, ticket |-> None]
Pending(g, i) == [gpu |-> g, ticket |-> Some([pending |-> Some(i), picture |-> None])]
Ready(g, i) == [gpu |-> g, ticket |-> Some([pending |-> None, picture |-> Some(Picture(i))])]

\* capture: up to three attempts, each with the GPU settled before the next.
Capture(g, i) ==
  LET s == free_slot(g)
      done == Copied(g, s, Idle)
  IN  IF Copyable(g, s) THEN {Ready(done, i), Failed(done)} ELSE {Failed(Broken(g, s))}

\* Fault: off by one.
AllButOne(g) == Cardinality(g.maps) + 1 >= READBACK_SLOTS

AllHeld(g) == Cardinality(g.maps) >= READBACK_SLOTS

\* capture_begin: the maps are started and the ticket returned.  A submission
\* that was not settled is collected, dropped and captured again, also when the
\* collection has failed and its buffers are still mapped.
CaptureBegin(g, i) ==
  LET s == free_slot(g)
      buffer == [map |-> "pending", copied |-> TRUE, shows |-> i]
      map == [of |-> i, slot |-> s, waiting |-> Cameras, failed |-> FALSE]
  IN  IF AllHeld(g)
      THEN {Failed([g EXCEPT !.refused = TRUE])}
      ELSE IF ~Copyable(g, s)
      THEN {Failed(Broken(g, s))}
      ELSE {Pending([Copied(g, s, buffer) EXCEPT !.maps = @ \cup {map}], i), Failed(Broken(g, s))}
             \cup Capture(g, i)

\* Fault: the newest map is collected.
CollectsNewest(g, i) == CHOOSE m \in g.maps : \A n \in g.maps : n.of <= m.of

Collects(g, i) == CHOOSE m \in g.maps : m.of = i

\* collect_deferred: the map is taken off the list, and once it is complete
\* the buffers of its slot are copied out and unmapped, but not after a failure.
Collected(g, m) ==
  LET taken(b) == b.copied
      freed(b) == IF ~b.copied THEN b ELSE [b EXCEPT !.copied = FALSE, !.map = IF m.failed THEN @ ELSE "idle"]
      passes == {c \in Cameras : taken(g.staging[m.slot][c])}
  IN  [gpu |-> [g EXCEPT !.maps = @ \ {m}, !.staging[m.slot] = [c \in Cameras |-> freed(@[c])]],
       pictures |-> IF m.failed \/ passes # Cameras THEN {}
                    ELSE {[c \in Cameras |-> g.staging[m.slot][c].shows]}]

\* The readback deadline passed, or the device is broken: the map is off the
\* list, the buffers are left as they are.
Forgotten(g, m) == [g EXCEPT !.maps = @ \ {m}]

-----------------------------------------------------------------------------
(* The service: bundles.                                                   *)

Answer(i, pictures) == [i |-> i, pictures |-> pictures]   \* none: an error
Error(i) == Answer(i, None)

\* begin_bundle: the engine after it, and a bundle in flight or an error.  What
\* fails after the submission drops the ticket.
Begin(g, request) ==
  LET early == Failed(g)
      ready == Resized(g, request.resize)
      captured == IF g.broken THEN {} ELSE CaptureBegin(ready, request.i)
      dropped == {Failed(o.gpu) : o \in captured}
  IN  {early} \cup captured \cup dropped

\* render_tick: the blocking capture.
RenderTick(g, request) ==
  {Failed(g)} \cup (IF g.broken THEN {} ELSE Capture(Resized(g, request.resize), request.i))

\* What finish_bundle answers to a bundle in flight once its ticket is
\* collected; the publication may fail.
Finish(g, flight) ==
  IF flight.ticket.pending = None
  THEN {[gpu |-> g, answer |-> a] : a \in {Answer(flight.i, flight.ticket.picture), Error(flight.i)}}
  ELSE LET m == Collects(g, flight.i)
           c == Collected(g, m)
       IN  (IF m.waiting # {} THEN {}
            ELSE {[gpu |-> c.gpu, answer |-> a] : a \in {Answer(flight.i, c.pictures), Error(flight.i)}})
           \cup (IF m.waiting = {} THEN {}
                 ELSE {[gpu |-> Forgotten(g, m), answer |-> Error(flight.i)]})

-----------------------------------------------------------------------------
(* handle_connection.  A task is one call that changes the engine or writes*)
(* an answer; the service is at the top of its loop when it has none.      *)

FinishTask(flight) == [do |-> "finish", flight |-> flight]
AnswerTask(answer) == [do |-> "answer", answer |-> answer]
ServeTask(request) == [do |-> "serve", request |-> request]

NoServer ==
  [on |-> FALSE, queue |-> <<>>, eof |-> FALSE,
   in_flight |-> None,   \* the bundle whose capture is on the GPU
   begun |-> None,       \* the next one, until the answer to that one is written
   todo |-> <<>>]

Flight(i, ticket) == [i |-> i, ticket |-> ticket]

\* The bundle in flight, if there is one, is collected and answered.
Finishing(flights) == IF flights = None THEN <<>> ELSE <<FinishTask(The(flights))>>

AtTop == server.on /\ server.todo = <<>>
Reading == AtTop /\ server.queue = <<>> /\ ~server.eof
Chains(request) == request.op = "piped"

\* The connection is over; a bundle in flight, or just begun, is dropped with it.
HangUp == server' = NoServer /\ UNCHANGED <<wire, client, asked, answers, sent, met>>

\* read, or read_ready with a capture on the GPU: some of what has arrived.
Read ==
  /\ Reading
  /\ \E n \in DOMAIN wire :
       /\ server' = [server EXCEPT !.queue = SubSeq(wire, 1, n)]
       /\ wire' = SubSeq(wire, n + 1, Len(wire))
  /\ UNCHANGED <<client, asked, answers, gpu, sent, met>>

ReadEnd ==
  /\ Reading
  /\ wire = <<>> /\ client # "open"
  /\ server' = [server EXCEPT !.eof = TRUE]
  /\ UNCHANGED <<client, wire, asked, answers, gpu, sent, met>>

\* A client that is gone may have left a reset behind.
ReadError == Reading /\ client = "gone" /\ HangUp /\ UNCHANGED gpu

\* Fault: the service waits for the next request with a capture on the GPU.
ReadNothingBlocks == FALSE /\ UNCHANGED vars

\* read_ready finds nothing: the capture in flight is collected.
ReadNothing ==
  /\ Reading
  /\ wire = <<>> /\ client = "open" /\ server.in_flight # None
  /\ server' = [server EXCEPT !.in_flight = None, !.todo = Finishing(server.in_flight)]
  /\ UNCHANGED <<client, wire, asked, answers, gpu, sent, met>>

\* Fault: the error of the bundle begun is written first.
ChainedErrorFirst(flight, error) == error \o flight

\* The bundle in flight is answered before the one begun after it.
Chained(flight, error) == flight \o error

\* A pipelined bundle: the next capture is submitted before the one in flight,
\* if there is one, is collected.
TakeChained ==
  /\ AtTop /\ server.queue # <<>>
  /\ LET request == Head(server.queue)
     IN  /\ Chains(request)
         /\ \E o \in Begin(gpu, request) :
              LET begun == {Flight(request.i, t) : t \in o.ticket}
                  error == IF begun = None THEN <<AnswerTask(Error(request.i))>> ELSE <<>>
                  todo == Chained(Finishing(server.in_flight), error)
              IN  /\ gpu' = o.gpu
                  /\ server' = [server EXCEPT
                       !.queue = Tail(@), !.todo = todo,
                       !.in_flight = IF todo = <<>> THEN begun ELSE None,
                       !.begun = IF todo = <<>> THEN None ELSE begun]
  /\ UNCHANGED <<client, wire, asked, answers, sent, met>>

\* Any other request, or the end of the stream, has to wait for the bundle in
\* flight.
TakeOther ==
  /\ AtTop /\ (server.queue # <<>> \/ server.eof)
  /\ server.queue # <<>> => ~Chains(Head(server.queue))
  /\ server.queue = <<>> => server.in_flight # None
  /\ server' = [server EXCEPT
       !.queue = IF @ = <<>> THEN @ ELSE Tail(@),
       !.in_flight = None,
       !.todo = Finishing(server.in_flight)
                \o (IF server.queue = <<>> THEN <<>> ELSE <<ServeTask(Head(server.queue))>>)]
  /\ UNCHANGED <<client, wire, asked, answers, gpu, sent, met>>

\* Everything is answered and the stream is at its end.
Eof ==
  /\ AtTop /\ server.queue = <<>> /\ server.eof /\ server.in_flight = None
  /\ HangUp /\ UNCHANGED gpu

\* The answer is written.  That a client is gone may show at a write, or at none.
Write(answer, rest) ==
  \/ client = "gone" /\ HangUp
  \/ /\ answers' = Append(answers, answer)
     /\ server' = [server EXCEPT !.todo = rest, !.in_flight = server.begun, !.begun = None]
     /\ UNCHANGED <<client, wire, asked, sent, met>>

Task(do) == server.todo # <<>> /\ Head(server.todo).do = do
Rest == Tail(server.todo)

DoFinish ==
  /\ Task("finish")
  /\ \E o \in Finish(gpu, Head(server.todo).flight) : gpu' = o.gpu /\ Write(o.answer, Rest)

DoAnswer == Task("answer") /\ Write(Head(server.todo).answer, Rest) /\ UNCHANGED gpu

\* dispatch: the bundle of a client that does not pipeline is begun and
\* finished in one go.
ServePlain ==
  /\ Task("serve") /\ Head(server.todo).request.op = "plain"
  /\ LET request == Head(server.todo).request
     IN  \E o \in Begin(gpu, request) :
           /\ gpu' = o.gpu
           /\ server' = [server EXCEPT
                !.todo = <<IF o.ticket = None THEN AnswerTask(Error(request.i))
                           ELSE FinishTask(Flight(request.i, The(o.ticket)))>> \o Rest]
  /\ UNCHANGED <<client, wire, asked, answers, sent, met>>

ServeTick ==
  /\ Task("serve") /\ Head(server.todo).request.op = "tick"
  /\ LET request == Head(server.todo).request
     IN  \E o \in RenderTick(gpu, request) :
           /\ gpu' = o.gpu
           /\ server' = [server EXCEPT
                !.todo = <<AnswerTask(IF o.ticket = None THEN Error(request.i)
                                      ELSE Answer(request.i, The(o.ticket).picture))>> \o Rest]
  /\ UNCHANGED <<client, wire, asked, answers, sent, met>>

\* ClientClose: answered, and the connection is over.
ServeClose ==
  /\ Task("serve") /\ Head(server.todo).request.op = "close"
  /\ server' = NoServer
  /\ answers' = Append(answers, Answer(Head(server.todo).request.i, None))
  /\ UNCHANGED <<client, wire, asked, gpu, sent, met>>

Server ==
  \/ Read \/ ReadEnd \/ ReadError \/ ReadNothing
  \/ TakeChained \/ TakeOther \/ Eof
  \/ DoFinish \/ DoAnswer \/ ServePlain \/ ServeTick \/ ServeClose

-----------------------------------------------------------------------------
(* The client and the GPU.                                                 *)

\* accept: the connection before is over.
Connect ==
  /\ ~server.on /\ met < MaxConnections
  /\ met' = met + 1
  /\ client' = "open" /\ wire' = <<>> /\ asked' = <<>> /\ answers' = <<>>
  /\ server' = [NoServer EXCEPT !.on = TRUE]
  /\ UNCHANGED <<gpu, sent>>

Send(request) ==
  /\ client = "open" /\ server.on /\ sent < MaxRequests
  /\ sent' = sent + 1
  /\ wire' = Append(wire, [i |-> sent + 1, op |-> request.op, resize |-> request.resize])
  /\ asked' = Append(asked, sent + 1)
  /\ UNCHANGED <<client, answers, server, gpu, met>>

\* It sends no more, or it is killed.
Leave(how) ==
  /\ client = "open" /\ server.on
  /\ client' = how
  /\ UNCHANGED <<wire, asked, answers, server, gpu, sent, met>>

\* A poll reaps the map of a finished submission, in the order of submission.
GpuDone(m) ==
  /\ m.waiting # {}
  /\ \A n \in gpu.maps : n.of < m.of => n.waiting = {}
  /\ gpu' = [gpu EXCEPT
       !.maps = (@ \ {m}) \cup {[m EXCEPT !.waiting = {}]},
       !.staging[m.slot] = [c \in Cameras |-> IF c \in m.waiting THEN [@[c] EXCEPT !.map = "mapped"] ELSE @[c]]]
  /\ UNCHANGED <<client, wire, asked, answers, server, sent, met>>

Init ==
  /\ client = "away" /\ wire = <<>> /\ asked = <<>> /\ answers = <<>>
  /\ server = NoServer /\ gpu = NewGpu /\ sent = 0 /\ met = 0

Next ==
  \/ Server
  \/ Connect \/ (\E request \in Requests : Send(request))
  \/ (\E how \in {"half", "gone"} : Leave(how))
  \/ \E m \in gpu.maps : GpuDone(m)

Spec == Init /\ [][Next]_vars
FairSpec == Spec /\ WF_vars(Server)

-----------------------------------------------------------------------------
(* Properties.                                                             *)

\* The bundles somebody will collect, and the captures nobody will.
Flights ==
  server.in_flight \cup server.begun
    \cup {t.flight : t \in {x \in ToSet(server.todo) : x.do = "finish"}}
Abandoned == {m \in gpu.maps : \A f \in Flights : f.i # m.of}

\* The types of the loop's variables and of the engine's; a bundle in flight has
\* its own deferred map or its picture.
TypeOK ==
  /\ client \in {"away", "open", "half", "gone"}
  /\ server.in_flight = None \/ server.todo = <<>>
  /\ gpu.maps \subseteq [of : 1..MaxRequests, slot : Slots, waiting : SUBSET Cameras, failed : BOOLEAN]
  /\ gpu.staging \in [Slots -> [Cameras ->
       [map : {"absent", "idle", "pending", "mapped"}, copied : BOOLEAN, shows : 0..MaxRequests]]]
  /\ \A f \in Flights : f.ticket.pending # None => \E m \in gpu.maps : m.of = f.i

\* Responses keep request order, each request has one, also when the bundle
\* begun early fails before the one in flight is collected.
AnswersInOrder ==
  Len(answers) <= Len(asked) /\ \A k \in DOMAIN answers : answers[k].i = asked[k]

\* A bundle shows its own request from every camera, whatever was submitted, resized
\* or forgotten between its two halves.
OwnPicture == \A k \in DOMAIN answers : answers[k].pictures \subseteq {Picture(answers[k].i)}

\* capture_begin's limit is for callers that begin N+1 and then finish N: the
\* loop runs into it only after a capture was abandoned.
RefusedOnlyAfterLoss == gpu.refused => Abandoned # {}

\* free_slot's comment: "A staging slot no deferred capture is holding."
FreeSlotIsFree == ~gpu.shared

\* Every request is answered, or its connection ends, also when the client waits
\* for the answer before it sends more.
EveryRequestAnswered ==
  (server.on /\ Len(answers) < Len(asked)) ~> (Len(answers) = Len(asked) \/ ~server.on)
=============================================================================
