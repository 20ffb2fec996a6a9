------------------------ MODULE WorldSession_proofs ------------------------
(***************************************************************************)
(* What holds of worlds for every base input, script, horizon, mode and    *)
(* sequence of commands, advances, rebuilds, checkpoints and restores.     *)
(*   - The digest chains every engine tick after t = 0 once and in order.  *)
(*   - A fresh world that executes the exported log records the same       *)
(*     outcomes and ends with the same digest.                             *)
(*   - No id is given twice, and only committed commands consume ids.      *)
(*   - The last due exist interaction of an actor decides its presence.    *)
(*   - A rebuild passes the frames the digest holds.                       *)
(*   - The events tell a client who is present.                            *)
(***************************************************************************)
EXTENDS WorldReplay, SequenceTheorems, FiniteSetTheorems, WellFoundedInduction, TLAPS

\* The engine tick a world stands at after n requested ticks.
Reach(n) == IF Mode = "clip" /\ n > ClipTicks THEN ClipTicks ELSE n

\* An engine value has exactly the fields EngineTick gives it.
EngineShape(s) ==
  \E t, d, a, x, c, se, ev, p, ce :
    s = [tick |-> t, done |-> d, actors |-> a, exists |-> x, crashed |-> c,
         settled |-> se, events |-> ev, present |-> p, cell |-> ce]

\* It stands where n ticks past t = 0 lead.
EngineAt(s, n) ==
  /\ EngineShape(s)
  /\ s.tick = Reach(n)
  /\ s.done <=> (Mode = "clip" /\ s.tick = ClipTicks)

\* The digest holds the frames 1 to n.
DigestTo(dg, n) ==
  /\ \E S : dg \in Seq(S)
  /\ Len(dg) = n
  /\ \A k \in 1..n : dg[k].tick = k

\* A world at rest after n requested ticks.
Standing(s, n, dg) == n \in Nat /\ EngineAt(s, n) /\ DigestTo(dg, Reach(n))

JobInv ==
  \/ /\ job = Idle
     /\ Standing(sim, tick_count, digest)
  \/ /\ \E t, l, a : /\ job = [kind |-> "advance", ticks |-> t, left |-> l, acts |-> a]
                     /\ t \in Nat /\ l \in 0..t
     /\ tick_count \in Nat
     /\ Standing(sim, tick_count + job.ticks - job.left, digest)
  \/ /\ \E o, c, d, a : /\ job = [kind |-> "rebuild", ops |-> o, cand |-> c, done |-> d, acts |-> a]
                        /\ d \in 0..tick_count
                        /\ EngineAt(c, d)
     /\ Standing(sim, tick_count, digest)

SavedInv ==
  saved # NoCheckpoint => Standing(saved.state[1], saved.state[3], saved.state[9])

\* The inductive invariant: a checkpoint is itself a world at rest, a catch-up
\* engine stands where the ticks it has re-run lead, and a call in progress has
\* hashed exactly the ticks it has taken.
IInv == JobInv /\ SavedInv

-----------------------------------------------------------------------------

\* One engine tick moves an engine that is not done one tick on.
LEMMA EngineTickMoves ==
  ASSUME NEW s, NEW n \in Nat, NEW acts, EngineAt(s, n), ~s.done
  PROVE  /\ EngineAt(EngineTick(s, acts), n + 1)
         /\ Reach(n) = n /\ Reach(n + 1) = n + 1
<1>1. Reach(n) = n /\ Reach(n + 1) = n + 1
  BY WorldAssumption DEF EngineAt, Reach
<1>2. EngineShape(EngineTick(s, acts))
  BY DEF EngineShape, EngineTick
<1>3. EngineTick(s, acts).tick = n + 1
  BY <1>1 DEF EngineTick, EngineAt
<1>4. EngineTick(s, acts).done <=> (Mode = "clip" /\ EngineTick(s, acts).tick = ClipTicks)
  BY DEF EngineTick
<1>. QED BY <1>1, <1>2, <1>3, <1>4 DEF EngineAt

\* An engine that is done stays where it is, however many ticks are asked for.
LEMMA DoneStays ==
  ASSUME NEW s, NEW n \in Nat, NEW m \in Nat, EngineAt(s, n), s.done, m >= n
  PROVE  EngineAt(s, m) /\ Reach(m) = Reach(n)
BY WorldAssumption DEF EngineAt, Reach

\* A record with the engine's fields has the engine's shape.
LEMMA ShapeOf ==
  ASSUME NEW s, NEW t, NEW d, NEW a, NEW x, NEW c, NEW se, NEW ev, NEW p, NEW ce,
         s = [tick |-> t, done |-> d, actors |-> a, exists |-> x, crashed |-> c,
              settled |-> se, events |-> ev, present |-> p, cell |-> ce]
  PROVE  EngineShape(s)
BY DEF EngineShape

\* Dropping the events of an engine, or changing its actors, moves no tick.
LEMMA EventsOnly ==
  ASSUME NEW s, NEW n, NEW ev, EngineAt(s, n)
  PROVE  EngineAt([s EXCEPT !.events = ev], n)
<1>1. PICK t, d, a, x, c, se, e, p, ce :
        s = [tick |-> t, done |-> d, actors |-> a, exists |-> x, crashed |-> c,
             settled |-> se, events |-> e, present |-> p, cell |-> ce]
  BY DEF EngineAt, EngineShape
<1>2. [s EXCEPT !.events = ev] =
        [tick |-> t, done |-> d, actors |-> a, exists |-> x, crashed |-> c,
         settled |-> se, events |-> ev, present |-> p, cell |-> ce]
  BY <1>1
<1>3. EngineShape([s EXCEPT !.events = ev])
  BY <1>2, ShapeOf
<1>4. [s EXCEPT !.events = ev].tick = s.tick
  BY <1>1, <1>2
<1>5. [s EXCEPT !.events = ev].done = s.done
  BY <1>1, <1>2
<1>. QED BY <1>3, <1>4, <1>5 DEF EngineAt

\* A live commit does not move the engine's tick.
LEMMA LiveSimStands ==
  ASSUME NEW w, NEW n, NEW ops, NEW r, EngineAt(w.sim, n)
  PROVE  EngineAt(LiveSim(w, ops, r), n)
<1>s. PICK s : s = w.sim OBVIOUS
<1>1. PICK t, d, a, x, c, se, e, p, ce :
        s = [tick |-> t, done |-> d, actors |-> a, exists |-> x, crashed |-> c,
             settled |-> se, events |-> e, present |-> p, cell |-> ce]
  BY <1>s DEF EngineAt, EngineShape
<1> DEFINE a1 == w.sim.actors \cup Range(r.spawned)
           p1 == (w.sim.present \cup Range(r.spawned)) \ r.despawned
           ce1 == [b \in Actors |-> IF b \in Range(r.spawned) THEN r.cell[b] ELSE w.sim.cell[b]]
           e1 == LiveEvents(w, ops, r)
<1>2. LiveSim(w, ops, r) =
        [w.sim EXCEPT !.actors = a1, !.present = p1, !.cell = ce1, !.events = e1]
  BY DEF LiveSim
<1>l. LiveSim(w, ops, r) =
        [s EXCEPT !.actors = a1, !.present = p1, !.cell = ce1, !.events = e1]
  BY <1>2, <1>s
<1> HIDE DEF a1, p1, ce1, e1
<1>3. LiveSim(w, ops, r) =
        [tick |-> t, done |-> d, actors |-> a1, exists |-> x, crashed |-> c,
         settled |-> se, events |-> e1, present |-> p1, cell |-> ce1]
  BY <1>1, <1>l
<1>4. EngineShape(LiveSim(w, ops, r))
  BY <1>3 DEF EngineShape
<1>5. LiveSim(w, ops, r).tick = w.sim.tick /\ LiveSim(w, ops, r).done = w.sim.done
  BY <1>s, <1>1, <1>3
<1>. QED BY <1>4, <1>5 DEF EngineAt

\* A new engine is at t = 0 once the warm-up is consumed.
LEMMA NewEngineAtZero ==
  ASSUME NEW inp
  PROVE  EngineAt(Parked0(inp), 0)
<1>1. EngineShape(Parked0(inp))
  BY DEF EngineShape, Parked0, EngineTick
<1>2. Parked0(inp).tick = 0 /\ Reach(0) = 0
  BY WorldAssumption DEF Parked0, EngineTick, NewSim, Reach
<1>3. Parked0(inp).done <=> (Mode = "clip" /\ Parked0(inp).tick = ClipTicks)
  BY DEF Parked0, EngineTick
<1>. QED BY <1>1, <1>2, <1>3 DEF EngineAt

\* Chaining the frame of tick n + 1 extends a digest that holds 1 to n.
LEMMA ChainExtends ==
  ASSUME NEW dg, NEW n \in Nat, NEW f, DigestTo(dg, n), f.tick = n + 1
  PROVE  DigestTo(Append(dg, f), n + 1)
<1>1. PICK S : dg \in Seq(S)
  BY DEF DigestTo
<1>2. dg \in Seq(S \cup {f})
  BY <1>1, SeqMonotonic
<1>3. Append(dg, f) \in Seq(S \cup {f}) /\ Len(Append(dg, f)) = n + 1
  BY <1>2 DEF DigestTo
<1>4. \A k \in 1..(n + 1) : Append(dg, f)[k].tick = k
  BY <1>2 DEF DigestTo
<1>. QED BY <1>3, <1>4 DEF DigestTo

-----------------------------------------------------------------------------
(* What the invariant says of a call in progress, read off its kind.       *)

\* Between calls the world is at rest after tick_count ticks.
LEMMA IdleStands ==
  ASSUME JobInv, job = Idle
  PROVE  Standing(sim, tick_count, digest)
BY DEF JobInv, Idle

\* Within an advance the world is at rest after the ticks taken so far.
LEMMA AdvanceStands ==
  ASSUME JobInv, job.kind = "advance"
  PROVE  \E t, l, a :
           /\ t \in Nat /\ l \in Nat /\ l <= t
           /\ job = [kind |-> "advance", ticks |-> t, left |-> l, acts |-> a]
           /\ tick_count \in Nat
           /\ Standing(sim, tick_count + t - l, digest)
<1>1. job # Idle /\ \A o, c, d, a :
        job # [kind |-> "rebuild", ops |-> o, cand |-> c, done |-> d, acts |-> a]
  BY DEF Idle
<1>. QED BY <1>1 DEF JobInv

\* Within a rebuild the old engine and digest are left as they were.
LEMMA RebuildStands ==
  ASSUME JobInv, job.kind = "rebuild"
  PROVE  \E o, c, d, a :
           /\ job = [kind |-> "rebuild", ops |-> o, cand |-> c, done |-> d, acts |-> a]
           /\ d \in 0..tick_count /\ EngineAt(c, d)
           /\ Standing(sim, tick_count, digest)
<1>1. job # Idle /\ \A t, l, a : job # [kind |-> "advance", ticks |-> t, left |-> l, acts |-> a]
  BY DEF Idle
<1>. QED BY <1>1 DEF JobInv

\* The invariant of a call in progress, from its parts.
LEMMA AdvanceJobInv ==
  ASSUME NEW t \in Nat, NEW l \in 0..t, NEW a,
         job' = [kind |-> "advance", ticks |-> t, left |-> l, acts |-> a],
         tick_count' \in Nat, Standing(sim', tick_count' + t - l, digest')
  PROVE  JobInv'
<1>1. job'.ticks = t /\ job'.left = l
  OBVIOUS
<1>2. Standing(sim, tick_count + job.ticks - job.left, digest)'
  BY <1>1 DEF Standing, EngineAt, EngineShape, DigestTo, Reach
<1>. QED BY <1>2 DEF JobInv

-----------------------------------------------------------------------------

\* The inductive invariant holds at the start.
LEMMA InitIInv == Init => IInv
<1> SUFFICES ASSUME Init PROVE IInv
  OBVIOUS
<1>1. EngineAt(sim, 0)
  BY NewEngineAtZero DEF Init
<1>2. DigestTo(digest, Reach(0))
  <2>1. digest = <<>> /\ Reach(0) = 0
    BY WorldAssumption DEF Init, Reach
  <2>2. digest \in Seq({}) /\ Len(digest) = 0
    BY <2>1
  <2>. QED BY <2>1, <2>2 DEF DigestTo
<1>3. JobInv
  BY <1>1, <1>2 DEF JobInv, Standing, Init
<1>. QED BY <1>3 DEF IInv, SavedInv, Init

\* The state a step leaves alone when it only touches the log, the timeline, the
\* input and the counters.
LEMMA RestKept ==
  ASSUME JobInv, job = Idle, UNCHANGED <<sim, tick_count, digest, job>>
  PROVE  JobInv'
<1>1. Standing(sim, tick_count, digest)
  BY DEF JobInv, Idle
<1>2. Standing(sim, tick_count, digest)'
  BY <1>1 DEF Standing, EngineAt, EngineShape, DigestTo, Reach
<1>. QED BY <1>2 DEF JobInv

\* Every step keeps the inductive invariant.
LEMMA NextIInv == IInv /\ [Next]_vars => IInv'
<1> SUFFICES ASSUME IInv, [Next]_vars PROVE IInv'
  OBVIOUS
<1> USE DEF IInv
<1>act. ASSUME NEW a \in ActIds, NEW action \in {"hold", "drive", None}, Act(a, action)
        PROVE  IInv'
  BY <1>act, RestKept DEF Act, Ready, SavedInv
<1>reject. ASSUME NEW ops \in Batches, RejectStructural(ops)
           PROVE  IInv'
  BY <1>reject, RestKept DEF RejectStructural, StructuralReady, Ready, SavedInv
<1>live. ASSUME NEW ops \in Batches, CommitLive(ops)
         PROVE  IInv'
  <2>1. Standing(sim, tick_count, digest) /\ job = Idle
    BY <1>live DEF CommitLive, StructuralReady, Ready, JobInv, Idle
  <2>2. EngineAt(sim', tick_count)
    BY <2>1, <1>live, LiveSimStands DEF CommitLive, Standing, World
  <2>3. Standing(sim', tick_count', digest')
    BY <2>1, <2>2, <1>live DEF CommitLive, Commit, Standing
  <2>4. JobInv'
    BY <2>1, <2>3, <1>live DEF CommitLive, JobInv
  <2>. QED BY <2>4, <1>live DEF CommitLive, Commit, SavedInv
<1>rebuild. ASSUME NEW ops \in Batches, BeginRebuild(ops)
            PROVE  IInv'
  <2>1. Standing(sim, tick_count, digest) /\ tick_count \in Nat
    BY <1>rebuild DEF BeginRebuild, StructuralReady, Ready, JobInv, Idle, Standing
  <2> DEFINE cand == Parked0(Candidate(World, Resolve(World, ops)))
  <2>2. EngineAt(cand, 0)
    BY NewEngineAtZero
  <2>3. job' = [kind |-> "rebuild", ops |-> ops, cand |-> cand, done |-> 0,
                acts |-> ActionsAt(timeline, 0, cand.actors)]
    BY <1>rebuild DEF BeginRebuild
  <2>4. Standing(sim, tick_count, digest)'
    BY <2>1, <1>rebuild DEF BeginRebuild, session, Standing, EngineAt, EngineShape, DigestTo, Reach
  <2>5. 0 \in 0..tick_count /\ tick_count' = tick_count
    BY <2>1, <1>rebuild DEF BeginRebuild, session
  <2>. QED BY <2>2, <2>3, <2>4, <2>5, <1>rebuild DEF JobInv, SavedInv, BeginRebuild
<1>catchup. ASSUME CatchUp PROVE IInv'
  <2>1. PICK o, c, d, a :
          /\ job = [kind |-> "rebuild", ops |-> o, cand |-> c, done |-> d, acts |-> a]
          /\ d \in 0..tick_count /\ EngineAt(c, d)
          /\ Standing(sim, tick_count, digest)
    BY <1>catchup DEF CatchUp, JobInv, Idle
  <2> DEFINE next == IF c.done THEN c ELSE EngineTick(c, a)
  <2>2. d \in Nat /\ d + 1 \in 0..tick_count
    BY <2>1, <1>catchup DEF CatchUp, Standing
  <2>3. EngineAt(next, d + 1)
    <3>1. CASE c.done
      BY <2>1, <2>2, <3>1, DoneStays
    <3>2. CASE ~c.done
      BY <2>1, <2>2, <3>2, EngineTickMoves
    <3>. QED BY <3>1, <3>2
  <2>4. \E acts : job' = [kind |-> "rebuild", ops |-> o, cand |-> next, done |-> d + 1,
                          acts |-> acts]
    BY <2>1, <1>catchup DEF CatchUp
  <2>5. UNCHANGED <<sim, tick_count, digest>>
    BY <1>catchup DEF CatchUp, session
  <2> HIDE DEF next
  <2>6. JobInv'
    BY <2>1, <2>2, <2>3, <2>4, <2>5 DEF JobInv
  <2>. QED BY <2>6, <1>catchup DEF SavedInv, CatchUp
<1>commit. ASSUME CommitClip PROVE IInv'
  <2>1. PICK o, c, d, a :
          /\ job = [kind |-> "rebuild", ops |-> o, cand |-> c, done |-> d, acts |-> a]
          /\ d \in 0..tick_count /\ EngineAt(c, d)
          /\ Standing(sim, tick_count, digest)
    BY <1>commit DEF CommitClip, JobInv, Idle
  <2>2. EngineAt(c, tick_count)
    BY <2>1, <1>commit DEF CommitClip
  <2>3. sim' = [c EXCEPT !.events = <<>>] /\ UNCHANGED <<tick_count, digest, saved>> /\ job' = Idle
    BY <2>1, <1>commit DEF CommitClip, Commit
  <2>4. EngineAt(sim', tick_count)
    BY <2>2, <2>3, EventsOnly
  <2>5. Standing(sim', tick_count', digest')
    BY <2>1, <2>3, <2>4 DEF Standing
  <2>. QED BY <2>3, <2>5 DEF JobInv, SavedInv
<1>begin. ASSUME NEW ticks \in 1..MaxAdvance, BeginAdvance(ticks)
          PROVE  IInv'
  <2>1. job = Idle /\ ticks \in Nat /\ ticks \in 0..ticks
    BY <1>begin, WorldAssumption DEF BeginAdvance, Ready
  <2>2. Standing(sim, tick_count, digest)
    BY <2>1, IdleStands
  <2>3. job' = [kind |-> "advance", ticks |-> ticks, left |-> ticks,
                acts |-> ActionsAt(timeline, sim.tick, sim.actors)]
    BY <1>begin DEF BeginAdvance
  <2>4. UNCHANGED <<sim, tick_count, digest, saved>>
    BY <1>begin DEF BeginAdvance, session
  <2>5. tick_count' \in Nat /\ tick_count' + ticks - ticks = tick_count
    BY <2>1, <2>2, <2>4 DEF Standing
  <2>6. Standing(sim', tick_count' + ticks - ticks, digest')
    BY <2>2, <2>4, <2>5
  <2>7. JobInv'
    BY <2>1, <2>3, <2>5, <2>6, AdvanceJobInv
  <2>. QED BY <2>4, <2>7 DEF SavedInv
<1>tick. ASSUME AdvanceTick PROVE IInv'
  <2>1. job.kind = "advance"
    BY <1>tick DEF AdvanceTick
  <2>2. PICK t, l, a :
          /\ t \in Nat /\ l \in Nat /\ l <= t
          /\ job = [kind |-> "advance", ticks |-> t, left |-> l, acts |-> a]
          /\ tick_count \in Nat /\ Standing(sim, tick_count + t - l, digest)
    BY <2>1, AdvanceStands
  <2> DEFINE n == tick_count + t - l
  <2>3. n \in Nat /\ Standing(sim, n, digest)
    BY <2>2
  <2>4. l > 0 /\ ~sim.done /\ sim' = EngineTick(sim, a) /\ digest' = Append(digest, Frame(sim'))
    BY <2>2, <1>tick DEF AdvanceTick
  <2>5. job' = [kind |-> "advance", ticks |-> t, left |-> l - 1, acts |-> a]
    BY <2>2, <1>tick DEF AdvanceTick
  <2>6. UNCHANGED <<tick_count, saved>>
    BY <1>tick DEF AdvanceTick
  <2>7. t \in Nat /\ l - 1 \in 0..t /\ tick_count' \in Nat /\ tick_count' + t - (l - 1) = n + 1
    BY <2>2, <2>4, <2>6
  <2> HIDE DEF n
  <2>8. EngineAt(sim', n + 1) /\ Reach(n) = n /\ Reach(n + 1) = n + 1
    BY <2>3, <2>4, EngineTickMoves DEF Standing
  <2>9. Frame(sim').tick = n + 1
    BY <2>8 DEF Frame, EngineAt
  <2>10. DigestTo(digest', Reach(n + 1))
    BY <2>3, <2>4, <2>8, <2>9, ChainExtends DEF Standing
  <2>11. Standing(sim', n + 1, digest')
    BY <2>3, <2>8, <2>10 DEF Standing
  <2>12. Standing(sim', tick_count' + t - (l - 1), digest')
    BY <2>7, <2>11
  <2>13. JobInv'
    BY <2>5, <2>7, <2>12, AdvanceJobInv
  <2>. QED BY <2>6, <2>13 DEF SavedInv
<1>end. ASSUME EndAdvance PROVE IInv'
  <2>1. job.kind = "advance"
    BY <1>end DEF EndAdvance
  <2>2. PICK t, l, a :
          /\ t \in Nat /\ l \in Nat /\ l <= t
          /\ job = [kind |-> "advance", ticks |-> t, left |-> l, acts |-> a]
          /\ tick_count \in Nat /\ Standing(sim, tick_count + t - l, digest)
    BY <2>1, AdvanceStands
  <2> DEFINE n == tick_count + t - l
  <2>3. n \in Nat /\ tick_count + t \in Nat /\ tick_count + t >= n /\ (l = 0 => n = tick_count + t)
    BY <2>2
  <2>4. Standing(sim, n, digest)
    BY <2>2
  <2>5. /\ l = 0 \/ sim.done
        /\ sim' = [sim EXCEPT !.events = <<>>] /\ tick_count' = tick_count + t
        /\ UNCHANGED <<digest, saved>> /\ job' = Idle
    BY <2>2, <1>end DEF EndAdvance
  <2> HIDE DEF n
  <2>6. Standing(sim, tick_count + t, digest)
    <3>1. CASE l = 0
      BY <2>3, <2>4, <3>1
    <3>2. CASE sim.done
      BY <2>3, <2>4, <3>2, DoneStays DEF Standing
    <3>. QED BY <2>5, <3>1, <3>2
  <2>7. Standing(sim', tick_count', digest')
    BY <2>5, <2>6, EventsOnly DEF Standing
  <2>. QED BY <2>5, <2>7 DEF JobInv, SavedInv
<1>checkpoint. ASSUME Checkpoint PROVE IInv'
  <2>1. Standing(sim, tick_count, digest) /\ UNCHANGED <<sim, tick_count, digest, job>>
    BY <1>checkpoint DEF Checkpoint, JobInv, Idle, session
  <2>2. saved'.state[1] = sim /\ saved'.state[3] = tick_count /\ saved'.state[9] = digest
    BY <1>checkpoint DEF Checkpoint, session
  <2>3. JobInv'
    BY <2>1, RestKept, <1>checkpoint DEF Checkpoint
  <2>. QED BY <2>1, <2>2, <2>3 DEF SavedInv
<1>restore. ASSUME Restore PROVE IInv'
  <2>1. Standing(sim', tick_count', digest') /\ job' = Idle
    BY <1>restore DEF Restore, Resume, SavedInv
  <2>. QED BY <2>1, <1>restore DEF JobInv, SavedInv, Restore
<1>stutter. CASE UNCHANGED vars
  <2>1. UNCHANGED <<sim, tick_count, digest, job, saved>>
    BY <1>stutter DEF vars
  <2>2. JobInv'
    BY <2>1 DEF JobInv, Standing, EngineAt, EngineShape, DigestTo, Reach
  <2>. QED BY <2>1, <2>2 DEF SavedInv
<1>. QED
  BY <1>act, <1>reject, <1>live, <1>rebuild, <1>catchup, <1>commit, <1>begin, <1>tick, <1>end,
     <1>checkpoint, <1>restore, <1>stutter DEF Next, Command

\* Every engine tick after t = 0 is hashed exactly once and in order, through
\* every rebuild, restore and end of clip (advance's chain_digest, rebuild).
THEOREM HashedOnceInOrderAlways == Spec => []HashedOnceInOrder
<1>1. IInv => HashedOnceInOrder
  <2> SUFFICES ASSUME IInv PROVE HashedOnceInOrder
    OBVIOUS
  <2>1. PICK n : Standing(sim, n, digest)
    BY DEF IInv, JobInv
  <2>2. DOMAIN digest = 1..Len(digest)
    BY <2>1 DEF Standing, DigestTo
  <2>. QED BY <2>1, <2>2 DEF Standing, EngineAt, DigestTo, HashedOnceInOrder
<1>. QED BY <1>1, InitIInv, NextIInv, PTL DEF Spec

-----------------------------------------------------------------------------
(* Replay.  A world between two of its steps, as a value; what a step makes *)
(* of it is a function of that value and of the command issued.             *)

\* The nine parts of a world and the call in progress.
Held(e, i, n, actors, exists, line, pending, log, dg, j) ==
  [sim |-> e, input |-> i, tick_count |-> n, actor_counter |-> actors,
   exist_counter |-> exists, timeline |-> line, pending_events |-> pending,
   entries |-> log, digest |-> dg, job |-> j]

Now == Held(sim, input, tick_count, actor_counter, exist_counter, timeline,
            pending_events, entries, digest, job)

ReplicaNow == Held(rsim, rinput, rtick_count, ractor_counter, rexist_counter, rtimeline,
                   rpending_events, rentries, rdigest, rjob)

\* What a checkpoint holds, at rest.
Copied(st) == Held(st[1], st[2], st[3], st[4], st[5], st[6], st[7], st[8], st[9], Idle)

\* A new world on the base input.
BaseInput == [actors |-> DOMAIN BaseCell,
              cell |-> [a \in Actors |-> IF a \in DOMAIN BaseCell THEN BaseCell[a] ELSE 0],
              exists |-> Script]
Fresh == Held(Parked0(BaseInput), BaseInput, 0, 0, 0, <<>>, <<>>, <<>>, <<>>, Idle)

WorldOf(m) == [sim |-> m.sim, input |-> m.input, actor_counter |-> m.actor_counter,
               exist_counter |-> m.exist_counter]

\* Only the log and, unless the act is unknown or repeats, the timeline.
ActEntry(i, a, action) == CommandEntry(ActCommand(a, action), a \in i.actors, <<>>)
ActLine(line, i, now, a, action) ==
  LET standing == /\ EpochsOf(line, a) # {}
                  /\ line[Max(EpochsOf(line, a))].action = action
  IN  IF a \in i.actors /\ ~standing
      THEN Append(line, [from |-> now, actor |-> a, action |-> action]) ELSE line
AfterAct(m, a, action) ==
  Held(m.sim, m.input, m.tick_count, m.actor_counter, m.exist_counter,
       ActLine(m.timeline, m.input, m.sim.tick, a, action), m.pending_events,
       Append(m.entries, ActEntry(m.input, a, action)), m.digest, m.job)

AfterReject(m, ops) ==
  Held(m.sim, m.input, m.tick_count, m.actor_counter, m.exist_counter, m.timeline,
       m.pending_events, Append(m.entries, CommandEntry(StructuralCommand(ops), FALSE, <<>>)),
       m.digest, m.job)

\* A structural command of result r in the input, the counters and the log.
Committed(m, e, pending, ops, r, j) ==
  Held(e, Candidate(WorldOf(m), r), m.tick_count, r.counter, r.exist, m.timeline, pending,
       Append(m.entries, CommandEntry(StructuralCommand(ops), TRUE, r.spawned)), m.digest, j)

\* A call that has begun, or goes on: only the job.
InProgress(m, j) ==
  Held(m.sim, m.input, m.tick_count, m.actor_counter, m.exist_counter, m.timeline,
       m.pending_events, m.entries, m.digest, j)

RebuildJob(m, ops, cand) ==
  [kind |-> "rebuild", ops |-> ops, cand |-> cand, done |-> 0,
   acts |-> ActionsAt(m.timeline, 0, cand.actors)]
AdvanceJob(m, ticks) ==
  [kind |-> "advance", ticks |-> ticks, left |-> ticks,
   acts |-> ActionsAt(m.timeline, m.sim.tick, m.sim.actors)]

Structural(m, ops, r) ==
  IF ~r.ok THEN AfterReject(m, ops)
  ELSE IF Mode = "live"
  THEN Committed(m, LiveSim(WorldOf(m), ops, r), m.pending_events, ops, r, m.job)
  ELSE InProgress(m, RebuildJob(m, ops, Parked0(Candidate(WorldOf(m), r))))

\* A command issued to a world at rest.
Call(m, c) ==
  IF c.kind = "advance" THEN InProgress(m, AdvanceJob(m, c.ticks))
  ELSE IF c.kind = "act" THEN AfterAct(m, c.actor, c.action)
  ELSE Structural(m, c.ops, Resolve(WorldOf(m), c.ops))

AfterTick(m, s) ==
  Held(s, m.input, m.tick_count, m.actor_counter, m.exist_counter, m.timeline,
       m.pending_events, m.entries, Append(m.digest, Frame(s)),
       [m.job EXCEPT !.left = @ - 1])

AfterEnd(m) ==
  Held([m.sim EXCEPT !.events = <<>>], m.input, m.tick_count + m.job.ticks,
       m.actor_counter, m.exist_counter, m.timeline, <<>>,
       Append(m.entries, AdvanceEntry(m.job.ticks)), m.digest, Idle)

\* The catch-up's next engine, and its job one tick on.
CaughtUp(j) == IF j.cand.done THEN j.cand ELSE EngineTick(j.cand, j.acts)
CatchUpJob(line, n, j, next) ==
  [j EXCEPT !.cand = next,
            !.done = j.done + 1,
            !.acts = IF j.done + 1 \in Boundaries(line, n)
                     THEN ActionsAt(line, next.tick, next.actors) ELSE @]

\* The actors a batch concerns.
Touched(r) == Range(r.spawned) \cup r.despawned

Rebuilt(m, r) ==
  Committed(m, [m.job.cand EXCEPT !.events = <<>>],
            m.pending_events \o KeptEvents(m.sim.tick, m.job.cand.events, Touched(r)), m.job.ops, r, Idle)

\* A call in progress goes on by itself.
Continue(m) ==
  IF m.job.kind = "advance"
  THEN IF m.job.left > 0 /\ ~m.sim.done
       THEN AfterTick(m, EngineTick(m.sim, m.job.acts))
       ELSE AfterEnd(m)
  ELSE IF m.job.done < m.tick_count
       THEN InProgress(m, CatchUpJob(m.timeline, m.tick_count, m.job, CaughtUp(m.job)))
       ELSE Rebuilt(m, Resolve(WorldOf(m), m.job.ops))

\* Commands: those logged, then the one of the call in progress.
CommandOf(entry) == IF entry.kind = "command" THEN entry.cmd ELSE entry
JobCommand(j) == IF j.kind = "advance" THEN AdvanceEntry(j.ticks) ELSE StructuralCommand(j.ops)
IssuedBy(m, k) == IF k <= Len(m.entries) THEN CommandOf(m.entries[k]) ELSE JobCommand(m.job)
Issued(m) == IF m.job = Idle THEN Len(m.entries) ELSE Len(m.entries) + 1

\* succ is what the next command of the log of last, or the call in progress, makes of m.
Leads(m, succ, last) ==
  /\ m.job = Idle => /\ Len(m.entries) + 1 <= Issued(last)
                     /\ succ = Call(m, IssuedBy(last, Len(m.entries) + 1))
  /\ m.job # Idle => succ = Continue(m)

IsLog(en) == \E S : en \in Seq(S)

\* The log of m is a prefix of the log of last.
LogPrefix(m, last) ==
  /\ Len(m.entries) <= Len(last.entries)
  /\ \A k \in 1..Len(m.entries) : m.entries[k] = last.entries[k]

AtRestOrCounting(m) ==
  /\ IsLog(m.entries)
  /\ m.tick_count \in Nat
  /\ m.job.kind = "rebuild" => m.job.done \in Nat

\* past is the whole history of a world that has issued the commands of its log.
History(past, n) ==
  /\ n \in Nat
  /\ past[0] = Fresh
  /\ \A i \in 0..n : AtRestOrCounting(past[i]) /\ LogPrefix(past[i], past[n])
  /\ \A i \in 0..(n - 1) : Leads(past[i], past[i + 1], past[n])

-----------------------------------------------------------------------------

\* A log stays a log when an entry is appended.
LEMMA LogAppend ==
  ASSUME NEW en, NEW e, IsLog(en)
  PROVE  /\ IsLog(Append(en, e))
         /\ Len(en) \in Nat /\ DOMAIN en = 1..Len(en)
         /\ Len(Append(en, e)) = Len(en) + 1
         /\ \A k \in 1..Len(en) : Append(en, e)[k] = en[k]
         /\ Append(en, e)[Len(en) + 1] = e
<1>1. PICK S : en \in Seq(S) BY DEF IsLog
<1>2. en \in Seq(S \cup {e}) BY <1>1, SeqMonotonic
<1>3. Append(en, e) \in Seq(S \cup {e}) BY <1>2
<1>. QED BY <1>2, <1>3 DEF IsLog

\* What a step leaves in force: the commands issued before it and the log.
Follows(m, succ) ==
  /\ AtRestOrCounting(succ)
  /\ LogPrefix(m, succ)
  /\ Leads(m, succ, succ)
  /\ Issued(m) <= Issued(succ)
  /\ \A k \in 1..Issued(m) : IssuedBy(succ, k) = IssuedBy(m, k)

\* What led from a world of the past to the next one still does so when the
\* log has grown.
LEMMA LeadsOn ==
  ASSUME NEW m, NEW succ, NEW last, NEW more, AtRestOrCounting(m), AtRestOrCounting(last),
         AtRestOrCounting(more), Leads(m, succ, last), Follows(last, more)
  PROVE  Leads(m, succ, more)
<1>1. CASE m.job # Idle BY <1>1 DEF Leads
<1>2. CASE m.job = Idle
  <2>1. Len(m.entries) \in Nat /\ Len(last.entries) \in Nat /\ Len(more.entries) \in Nat
    BY LogAppend DEF AtRestOrCounting
  <2>2. Issued(last) \in Nat /\ Issued(more) \in Nat BY <2>1 DEF Issued
  <2>3. Len(m.entries) + 1 <= Issued(last) BY <1>2 DEF Leads
  <2>4. Len(m.entries) + 1 \in 1..Issued(last) BY <2>1, <2>2, <2>3
  <2>5. IssuedBy(more, Len(m.entries) + 1) = IssuedBy(last, Len(m.entries) + 1)
    BY <2>4 DEF Follows
  <2>6. Len(m.entries) + 1 <= Issued(more) BY <2>1, <2>2, <2>3 DEF Follows
  <2>. QED BY <1>2, <2>5, <2>6 DEF Leads
<1>. QED BY <1>1, <1>2

\* A history grows by one step at its end.
LEMMA HistoryGrows ==
  ASSUME NEW past, NEW n, NEW succ, History(past, n), Follows(past[n], succ)
  PROVE  History([i \in 0..(n + 1) |-> IF i = n + 1 THEN succ ELSE past[i]], n + 1)
<1> DEFINE q == [i \in 0..(n + 1) |-> IF i = n + 1 THEN succ ELSE past[i]]
<1>1. n \in Nat BY DEF History
<1>2. q[n + 1] = succ /\ \A i \in 0..n : q[i] = past[i] BY <1>1
<1>3. AtRestOrCounting(succ) /\ LogPrefix(past[n], succ) BY DEF Follows
<1> HIDE DEF q
<1>4. q[0] = Fresh BY <1>1, <1>2 DEF History
<1>5. ASSUME NEW i \in 0..(n + 1)
      PROVE  AtRestOrCounting(q[i]) /\ LogPrefix(q[i], q[n + 1])
  <2>1. CASE i = n + 1
    <3>1. Len(succ.entries) \in Nat BY <1>3, LogAppend DEF AtRestOrCounting
    <3>. QED BY <2>1, <1>2, <1>3, <3>1 DEF LogPrefix
  <2>2. CASE i # n + 1
    <3>1. i \in 0..n BY <2>2, <1>1
    <3>2. AtRestOrCounting(past[i]) /\ LogPrefix(past[i], past[n]) /\ AtRestOrCounting(past[n])
      BY <3>1, <1>1 DEF History
    <3>3. /\ Len(past[i].entries) \in Nat /\ Len(past[n].entries) \in Nat
          /\ Len(succ.entries) \in Nat
      BY <3>2, <1>3, LogAppend DEF AtRestOrCounting
    <3>4. LogPrefix(past[i], succ) BY <3>2, <3>3, <1>3 DEF LogPrefix
    <3>. QED BY <3>1, <3>2, <3>4, <1>2
  <2>. QED BY <2>1, <2>2
<1>6. ASSUME NEW i \in 0..n
      PROVE  Leads(q[i], q[i + 1], q[n + 1])
  <2>1. CASE i = n
    BY <2>1, <1>1, <1>2 DEF Follows
  <2>2. CASE i # n
    <3>1. i \in 0..(n - 1) /\ i + 1 \in 0..n /\ i \in 0..n BY <2>2, <1>1
    <3>2. Leads(past[i], past[i + 1], past[n]) BY <3>1 DEF History
    <3>3. AtRestOrCounting(past[i]) /\ AtRestOrCounting(past[n]) BY <3>1, <1>1 DEF History
    <3>4. Leads(past[i], past[i + 1], succ) BY <3>2, <3>3, <1>3, LeadsOn
    <3>. QED BY <3>1, <3>4, <1>2
  <2>. QED BY <2>1, <2>2
<1>7. n + 1 \in Nat /\ (n + 1) - 1 = n BY <1>1
<1>8. History(q, n + 1)
  BY <1>4, <1>5, <1>6, <1>7 DEF History
<1>. QED BY <1>8 DEF q

\* A call that logs its entry at once.
LEMMA LoggedCallFollows ==
  ASSUME NEW m, NEW succ, NEW e, AtRestOrCounting(m), m.job = Idle, succ.job = Idle,
         succ.entries = Append(m.entries, e), succ.tick_count = m.tick_count,
         succ = Call(m, CommandOf(e))
  PROVE  Follows(m, succ)
<1>1. IsLog(m.entries) BY DEF AtRestOrCounting
<1>2. /\ Len(m.entries) \in Nat /\ Len(succ.entries) = Len(m.entries) + 1
      /\ IsLog(succ.entries)
      /\ \A k \in 1..Len(m.entries) : succ.entries[k] = m.entries[k]
      /\ succ.entries[Len(m.entries) + 1] = e
  BY <1>1, LogAppend
<1>3. AtRestOrCounting(succ) BY <1>2 DEF AtRestOrCounting, Idle
<1>4. LogPrefix(m, succ) BY <1>2 DEF LogPrefix
<1>5. Issued(m) = Len(m.entries) /\ Issued(succ) = Len(m.entries) + 1 BY <1>2 DEF Issued
<1>6. \A k \in 1..Issued(m) : IssuedBy(succ, k) = IssuedBy(m, k) BY <1>2, <1>5 DEF IssuedBy
<1>7. IssuedBy(succ, Len(m.entries) + 1) = CommandOf(e) BY <1>2 DEF IssuedBy
<1>8. Leads(m, succ, succ) BY <1>2, <1>5, <1>7 DEF Leads
<1>9. Issued(m) <= Issued(succ) BY <1>2, <1>5
<1>. QED BY <1>3, <1>4, <1>6, <1>8, <1>9 DEF Follows

\* A call that is in progress once it has begun.
LEMMA BegunCallFollows ==
  ASSUME NEW m, NEW succ, NEW c, AtRestOrCounting(m), m.job = Idle, succ.job # Idle,
         succ.entries = m.entries, succ.tick_count = m.tick_count,
         succ.job.kind = "rebuild" => succ.job.done \in Nat,
         JobCommand(succ.job) = c, succ = Call(m, c)
  PROVE  Follows(m, succ)
<1>1. IsLog(m.entries) BY DEF AtRestOrCounting
<1>2. Len(m.entries) \in Nat BY <1>1, LogAppend
<1>3. AtRestOrCounting(succ) BY <1>1 DEF AtRestOrCounting
<1>4. LogPrefix(m, succ) BY <1>2 DEF LogPrefix
<1>5. Issued(m) = Len(m.entries) /\ Issued(succ) = Len(m.entries) + 1 BY <1>2 DEF Issued
<1>6. \A k \in 1..Issued(m) : IssuedBy(succ, k) = IssuedBy(m, k) BY <1>2, <1>5 DEF IssuedBy
<1>7. IssuedBy(succ, Len(m.entries) + 1) = c BY <1>2 DEF IssuedBy
<1>8. Leads(m, succ, succ) BY <1>2, <1>5, <1>7 DEF Leads
<1>9. Issued(m) <= Issued(succ) BY <1>2, <1>5
<1>. QED BY <1>3, <1>4, <1>6, <1>8, <1>9 DEF Follows

\* A call in progress that goes on.
LEMMA GoingOnFollows ==
  ASSUME NEW m, NEW succ, AtRestOrCounting(m), m.job # Idle, succ.job # Idle,
         succ.entries = m.entries, succ.tick_count = m.tick_count,
         succ.job.kind = "rebuild" => succ.job.done \in Nat,
         JobCommand(succ.job) = JobCommand(m.job), succ = Continue(m)
  PROVE  Follows(m, succ)
<1>1. IsLog(m.entries) BY DEF AtRestOrCounting
<1>2. Len(m.entries) \in Nat BY <1>1, LogAppend
<1>3. AtRestOrCounting(succ) BY <1>1 DEF AtRestOrCounting
<1>4. LogPrefix(m, succ) BY <1>2 DEF LogPrefix
<1>5. Issued(m) = Len(m.entries) + 1 /\ Issued(succ) = Len(m.entries) + 1 BY <1>2 DEF Issued
<1>6. \A k \in 1..Issued(m) : IssuedBy(succ, k) = IssuedBy(m, k) BY <1>2, <1>5 DEF IssuedBy
<1>7. Leads(m, succ, succ) BY DEF Leads
<1>8. Issued(m) <= Issued(succ) BY <1>2, <1>5
<1>. QED BY <1>3, <1>4, <1>6, <1>7, <1>8 DEF Follows

\* A call in progress that returns: its command is now the last of the log.
LEMMA ReturnFollows ==
  ASSUME NEW m, NEW succ, NEW e, AtRestOrCounting(m), m.job # Idle, succ.job = Idle,
         succ.entries = Append(m.entries, e), succ.tick_count \in Nat,
         CommandOf(e) = JobCommand(m.job), succ = Continue(m)
  PROVE  Follows(m, succ)
<1>1. IsLog(m.entries) BY DEF AtRestOrCounting
<1>2. /\ Len(m.entries) \in Nat /\ Len(succ.entries) = Len(m.entries) + 1
      /\ IsLog(succ.entries)
      /\ \A k \in 1..Len(m.entries) : succ.entries[k] = m.entries[k]
      /\ succ.entries[Len(m.entries) + 1] = e
  BY <1>1, LogAppend
<1>3. AtRestOrCounting(succ) BY <1>2 DEF AtRestOrCounting, Idle
<1>4. LogPrefix(m, succ) BY <1>2 DEF LogPrefix
<1>5. Issued(m) = Len(m.entries) + 1 /\ Issued(succ) = Len(m.entries) + 1 BY <1>2 DEF Issued
<1>6. ASSUME NEW k \in 1..Issued(m) PROVE IssuedBy(succ, k) = IssuedBy(m, k)
  <2>1. CASE k = Len(m.entries) + 1
    BY <2>1, <1>2 DEF IssuedBy
  <2>2. CASE k # Len(m.entries) + 1
    BY <2>2, <1>2, <1>5 DEF IssuedBy
  <2>. QED BY <2>1, <2>2
<1>7. Leads(m, succ, succ) BY DEF Leads
<1>8. Issued(m) <= Issued(succ) BY <1>2, <1>5
<1>. QED BY <1>3, <1>4, <1>6, <1>7, <1>8 DEF Follows

-----------------------------------------------------------------------------
(* Every step of a world is its Call or its Continue.                      *)

LEMMA NowParts ==
  /\ Now.sim = sim /\ Now.input = input /\ Now.tick_count = tick_count
  /\ Now.actor_counter = actor_counter /\ Now.exist_counter = exist_counter
  /\ Now.timeline = timeline /\ Now.pending_events = pending_events
  /\ Now.entries = entries /\ Now.digest = digest /\ Now.job = job
  /\ WorldOf(Now) = World
BY DEF Now, Held, WorldOf, World

LEMMA ActCalls ==
  ASSUME NEW a, NEW action, Act(a, action)
  PROVE  Now' = Call(Now, ActCommand(a, action))
<1>1. Call(Now, ActCommand(a, action)) = AfterAct(Now, a, action)
  BY DEF Call, ActCommand
<1>2. /\ entries' = Append(entries, ActEntry(input, a, action))
      /\ timeline' = ActLine(timeline, input, sim.tick, a, action)
      /\ UNCHANGED <<sim, input, tick_count, actor_counter, exist_counter, pending_events,
                     digest, job>>
  BY DEF Act, Log, ActEntry, ActLine
<1>. QED BY <1>1, <1>2, NowParts DEF Now, AfterAct

LEMMA RejectCalls ==
  ASSUME NEW ops, RejectStructural(ops)
  PROVE  Now' = Call(Now, StructuralCommand(ops))
<1>1. ~Resolve(World, ops).ok BY DEF RejectStructural
<1>2. Call(Now, StructuralCommand(ops)) = AfterReject(Now, ops)
  BY <1>1, NowParts DEF Call, StructuralCommand, Structural
<1>3. /\ entries' = Append(entries, CommandEntry(StructuralCommand(ops), FALSE, <<>>))
      /\ UNCHANGED <<sim, input, tick_count, actor_counter, exist_counter, timeline,
                     pending_events, digest, job>>
  BY DEF RejectStructural, Log
<1>. QED BY <1>2, <1>3, NowParts DEF AfterReject, Now

LEMMA LiveCalls ==
  ASSUME NEW ops, CommitLive(ops)
  PROVE  Now' = Call(Now, StructuralCommand(ops))
<1> DEFINE r == Resolve(World, ops)
<1>1. r.ok /\ Mode = "live" BY DEF CommitLive
<1>2. Call(Now, StructuralCommand(ops)) =
        Committed(Now, LiveSim(World, ops, r), pending_events, ops, r, job)
  BY <1>1, NowParts DEF Call, StructuralCommand, Structural
<1>3. /\ sim' = LiveSim(World, ops, r) /\ input' = Candidate(World, r)
      /\ actor_counter' = r.counter /\ exist_counter' = r.exist
      /\ entries' = Append(entries, CommandEntry(StructuralCommand(ops), TRUE, r.spawned))
      /\ UNCHANGED <<tick_count, timeline, pending_events, digest, job>>
  BY DEF CommitLive, Commit, Log
<1> HIDE DEF r
<1>. QED BY <1>2, <1>3, NowParts DEF Committed, Now

LEMMA RebuildCalls ==
  ASSUME NEW ops, BeginRebuild(ops)
  PROVE  /\ Now' = Call(Now, StructuralCommand(ops))
         /\ job'.kind = "rebuild" /\ job'.ops = ops /\ job'.done = 0
<1> DEFINE r == Resolve(World, ops)
           cand == Parked0(Candidate(World, r))
<1>1. r.ok /\ Mode # "live" BY DEF BeginRebuild
<1>2. Call(Now, StructuralCommand(ops)) = InProgress(Now, RebuildJob(Now, ops, cand))
  BY <1>1, NowParts DEF Call, StructuralCommand, Structural
<1>3. /\ job' = [kind |-> "rebuild", ops |-> ops, cand |-> cand, done |-> 0,
                 acts |-> ActionsAt(timeline, 0, cand.actors)]
      /\ UNCHANGED session
  BY DEF BeginRebuild
<1> HIDE DEF r, cand
<1>4. job' = RebuildJob(Now, ops, cand) BY <1>3, NowParts DEF RebuildJob
<1>5. Now' = Call(Now, StructuralCommand(ops))
  BY <1>2, <1>3, <1>4, NowParts DEF InProgress, Now, session
<1>. QED BY <1>3, <1>5

LEMMA AdvanceCalls ==
  ASSUME NEW ticks, BeginAdvance(ticks)
  PROVE  /\ Now' = Call(Now, AdvanceEntry(ticks))
         /\ job'.kind = "advance" /\ job'.ticks = ticks
<1>1. Call(Now, AdvanceEntry(ticks)) = InProgress(Now, AdvanceJob(Now, ticks))
  BY DEF Call, AdvanceEntry
<1>2. /\ job' = [kind |-> "advance", ticks |-> ticks, left |-> ticks,
                 acts |-> ActionsAt(timeline, sim.tick, sim.actors)]
      /\ UNCHANGED session
  BY DEF BeginAdvance
<1>3. job' = AdvanceJob(Now, ticks) BY <1>2, NowParts DEF AdvanceJob
<1>4. Now' = Call(Now, AdvanceEntry(ticks))
  BY <1>1, <1>2, <1>3, NowParts DEF InProgress, Now, session
<1>. QED BY <1>2, <1>4

LEMMA TickContinues ==
  ASSUME AdvanceTick
  PROVE  Now' = Continue(Now) /\ job' = [job EXCEPT !.left = @ - 1]
<1> DEFINE s == EngineTick(sim, job.acts)
           j == [job EXCEPT !.left = @ - 1]
<1>1. Continue(Now) = AfterTick(Now, s)
  BY NowParts DEF Continue, AdvanceTick
<1>2. /\ sim' = s /\ digest' = Append(digest, Frame(s)) /\ job' = j
      /\ UNCHANGED <<input, tick_count, actor_counter, exist_counter, timeline,
                     pending_events, entries>>
  BY DEF AdvanceTick
<1>3. AfterTick(Now, s) = Held(s, input, tick_count, actor_counter, exist_counter, timeline,
                               pending_events, entries, Append(digest, Frame(s)), j)
  BY NowParts DEF AfterTick
<1> HIDE DEF s, j
<1>4. Now' = Continue(Now) BY <1>1, <1>2, <1>3 DEF Now
<1>. QED BY <1>2, <1>4 DEF j

LEMMA EndContinues ==
  ASSUME EndAdvance
  PROVE  Now' = Continue(Now) /\ entries' = Append(entries, AdvanceEntry(job.ticks))
<1> DEFINE s == [sim EXCEPT !.events = <<>>]
<1>1. Continue(Now) = AfterEnd(Now)
  BY NowParts DEF Continue, EndAdvance
<1>2. AfterEnd(Now) = Held(s, input, tick_count + job.ticks, actor_counter, exist_counter,
                           timeline, <<>>, Append(entries, AdvanceEntry(job.ticks)), digest, Idle)
  BY NowParts DEF AfterEnd
<1>3. /\ sim' = s /\ tick_count' = tick_count + job.ticks /\ pending_events' = <<>>
      /\ entries' = Append(entries, AdvanceEntry(job.ticks)) /\ job' = Idle
      /\ UNCHANGED <<input, actor_counter, exist_counter, timeline, digest>>
  BY DEF EndAdvance
<1> HIDE DEF s
<1>. QED BY <1>1, <1>2, <1>3 DEF Now

LEMMA CatchUpContinues ==
  ASSUME CatchUp
  PROVE  /\ Now' = Continue(Now)
         /\ job' = CatchUpJob(timeline, tick_count, job, CaughtUp(job))
<1>1. Continue(Now) =
        InProgress(Now, CatchUpJob(timeline, tick_count, job, CaughtUp(job)))
  BY NowParts DEF Continue, CatchUp
<1>2. job' = CatchUpJob(timeline, tick_count, job, CaughtUp(job)) /\ UNCHANGED session
  BY DEF CatchUp, CatchUpJob, CaughtUp
<1>. QED BY <1>1, <1>2, NowParts DEF Now, InProgress, session

LEMMA CommitContinues ==
  ASSUME CommitClip, tick_count \in Nat
  PROVE  /\ Now' = Continue(Now)
         /\ \E ids : entries' = Append(entries, CommandEntry(StructuralCommand(job.ops), TRUE, ids))
<1> DEFINE r == Resolve(World, job.ops)
           e == [job.cand EXCEPT !.events = <<>>]
           kept == KeptEvents(sim.tick, job.cand.events, Touched(r))
<1>1. job.kind = "rebuild" /\ ~(job.done < tick_count) BY DEF CommitClip
<1>2. Continue(Now) = Rebuilt(Now, r)
  BY <1>1, NowParts DEF Continue
<1>3. Rebuilt(Now, r) = Committed(Now, e, pending_events \o kept, job.ops, r, Idle)
  BY NowParts DEF Rebuilt
<1>4. /\ pending_events' = pending_events \o kept
      /\ sim' = e /\ job' = Idle /\ input' = Candidate(World, r)
      /\ actor_counter' = r.counter /\ exist_counter' = r.exist
      /\ entries' = Append(entries, CommandEntry(StructuralCommand(job.ops), TRUE, r.spawned))
      /\ UNCHANGED <<tick_count, timeline, digest>>
  BY DEF CommitClip, Commit, Log, Touched
<1> HIDE DEF r, e, kept
<1>. QED BY <1>2, <1>3, <1>4, NowParts DEF Committed, Now

-----------------------------------------------------------------------------
(* The replica runs the same code: what does not read a variable is the    *)
(* same in both instances.                                                 *)

LEMMA SameVerdicts ==
  ASSUME NEW s, NEW i, NEW crashed
  PROVE  Replica!ExistVerdicts(s, i, crashed) = ExistVerdicts(s, i, crashed)
BY DEF Replica!ExistVerdicts, ExistVerdicts, Replica!Fire, Fire, Replica!DueAt, DueAt,
       Replica!ApplyExist, ApplyExist, Replica!IdOrder, IdOrder,
       Replica!FoldLeft, FoldLeft, Replica!MapThenFoldSet, MapThenFoldSet, Replica!Max, Max

LEMMA SameTick ==
  ASSUME NEW s, NEW acts
  PROVE  Replica!EngineTick(s, acts) = EngineTick(s, acts)
BY SameVerdicts
   DEF Replica!EngineTick, EngineTick, Replica!CrashedNow, CrashedNow, Replica!Collides, Collides,
       Replica!DueAt, DueAt, Replica!Stepped, Stepped, Replica!Moves, Moves,
       Replica!Blocked, Blocked, Replica!None, None

LEMMA SameNewEngine ==
  ASSUME NEW inp
  PROVE  Replica!Parked0(inp) = Parked0(inp)
BY SameTick DEF Replica!Parked0, Parked0, Replica!NewSim, NewSim, Replica!NoActs, NoActs,
                Replica!None, None

LEMMA SameFrame ==
  ASSUME NEW s
  PROVE  Replica!Frame(s) = Frame(s)
BY DEF Replica!Frame, Frame

LEMMA SameActions ==
  ASSUME NEW line, NEW now, NEW actors
  PROVE  Replica!ActionsAt(line, now, actors) = ActionsAt(line, now, actors)
BY DEF Replica!ActionsAt, ActionsAt, Replica!EpochsOf, EpochsOf, Replica!None, None,
       Replica!Max, Max

LEMMA SameBoundaries ==
  ASSUME NEW line, NEW ticks
  PROVE  Replica!Boundaries(line, ticks) = Boundaries(line, ticks)
BY DEF Replica!Boundaries, Boundaries

LEMMA SameResolve ==
  ASSUME NEW w, NEW ops
  PROVE  Replica!Resolve(w, ops) = Resolve(w, ops)
BY DEF Replica!Resolve, Resolve, Replica!ResolveOp, ResolveOp,
       Replica!ResolveSpawn, ResolveSpawn, Replica!ResolveDespawn, ResolveDespawn,
       Replica!NextAuto, NextAuto, Replica!UsedIds, UsedIds, Replica!Misplaced, Misplaced,
       Replica!Overlaps, Overlaps, Replica!ExistRecord, ExistRecord, Replica!None, None,
       Replica!Unresolved, Unresolved, Replica!FoldLeft, FoldLeft,
       Replica!MapThenFoldSet, MapThenFoldSet, Replica!Range, Range, Replica!Max, Max

LEMMA SameCandidate ==
  ASSUME NEW w, NEW r
  PROVE  Replica!Candidate(w, r) = Candidate(w, r)
BY DEF Replica!Candidate, Candidate, Replica!Range, Range

LEMMA SameLiveSim ==
  ASSUME NEW w, NEW ops, NEW r
  PROVE  Replica!LiveSim(w, ops, r) = LiveSim(w, ops, r)
BY DEF Replica!LiveSim, LiveSim, Replica!LiveEvents, LiveEvents, Replica!Range, Range,
       Replica!Cardinality, Cardinality

LEMMA SameKept ==
  ASSUME NEW now, NEW events, NEW touched
  PROVE  Replica!KeptEvents(now, events, touched) = KeptEvents(now, events, touched)
BY DEF Replica!KeptEvents, KeptEvents, Replica!Kept, Kept,
       Replica!FoldLeft, FoldLeft, Replica!MapThenFoldSet, MapThenFoldSet, Replica!Max, Max

\* What the log records.
LEMMA SameRecords ==
  /\ Replica!Idle = Idle /\ Replica!World = WorldOf(ReplicaNow)
  /\ \A a, action : Replica!ActCommand(a, action) = ActCommand(a, action)
  /\ \A ops : Replica!StructuralCommand(ops) = StructuralCommand(ops)
  /\ \A ticks : Replica!AdvanceEntry(ticks) = AdvanceEntry(ticks)
  /\ \A cmd, ok, ids : Replica!CommandEntry(cmd, ok, ids) = CommandEntry(cmd, ok, ids)
BY DEF Replica!Idle, Idle, Replica!World, WorldOf, ReplicaNow, Held,
       Replica!ActCommand, ActCommand, Replica!StructuralCommand, StructuralCommand,
       Replica!AdvanceEntry, AdvanceEntry, Replica!CommandEntry, CommandEntry

LEMMA ReplicaParts ==
  /\ ReplicaNow.sim = rsim /\ ReplicaNow.input = rinput /\ ReplicaNow.tick_count = rtick_count
  /\ ReplicaNow.actor_counter = ractor_counter /\ ReplicaNow.exist_counter = rexist_counter
  /\ ReplicaNow.timeline = rtimeline /\ ReplicaNow.pending_events = rpending_events
  /\ ReplicaNow.entries = rentries /\ ReplicaNow.digest = rdigest /\ ReplicaNow.job = rjob
  /\ WorldOf(ReplicaNow) = Replica!World
BY DEF ReplicaNow, Held, WorldOf, Replica!World

LEMMA ReplicaActCalls ==
  ASSUME NEW a, NEW action, Replica!Act(a, action)
  PROVE  ReplicaNow' = Call(ReplicaNow, ActCommand(a, action))
<1>1. Call(ReplicaNow, ActCommand(a, action)) = AfterAct(ReplicaNow, a, action)
  BY DEF Call, ActCommand
<1>2. /\ rentries' = Append(rentries, ActEntry(rinput, a, action))
      /\ rtimeline' = ActLine(rtimeline, rinput, rsim.tick, a, action)
      /\ UNCHANGED <<rsim, rinput, rtick_count, ractor_counter, rexist_counter, rpending_events,
                     rdigest, rjob>>
  BY SameRecords DEF Replica!Act, Replica!Log, ActEntry, ActLine, Replica!EpochsOf, EpochsOf,
                        Replica!Max, Max
<1>. QED BY <1>1, <1>2, ReplicaParts DEF ReplicaNow, AfterAct

LEMMA ReplicaRejectCalls ==
  ASSUME NEW ops, Replica!RejectStructural(ops)
  PROVE  ReplicaNow' = Call(ReplicaNow, StructuralCommand(ops))
<1>1. ~Resolve(Replica!World, ops).ok BY SameResolve DEF Replica!RejectStructural
<1>2. Call(ReplicaNow, StructuralCommand(ops)) = AfterReject(ReplicaNow, ops)
  BY <1>1, ReplicaParts DEF Call, StructuralCommand, Structural
<1>3. /\ rentries' = Append(rentries, CommandEntry(StructuralCommand(ops), FALSE, <<>>))
      /\ UNCHANGED <<rsim, rinput, rtick_count, ractor_counter, rexist_counter, rtimeline,
                     rpending_events, rdigest, rjob>>
  BY SameRecords DEF Replica!RejectStructural, Replica!Log
<1>. QED BY <1>2, <1>3, ReplicaParts DEF AfterReject, ReplicaNow

LEMMA ReplicaLiveCalls ==
  ASSUME NEW ops, Replica!CommitLive(ops)
  PROVE  ReplicaNow' = Call(ReplicaNow, StructuralCommand(ops))
<1> DEFINE r == Resolve(Replica!World, ops)
<1>1. r.ok /\ Mode = "live" BY SameResolve DEF Replica!CommitLive
<1>2. Call(ReplicaNow, StructuralCommand(ops)) =
        Committed(ReplicaNow, LiveSim(Replica!World, ops, r), rpending_events, ops, r, rjob)
  BY <1>1, ReplicaParts DEF Call, StructuralCommand, Structural
<1>3. /\ rsim' = LiveSim(Replica!World, ops, r) /\ rinput' = Candidate(Replica!World, r)
      /\ ractor_counter' = r.counter /\ rexist_counter' = r.exist
      /\ rentries' = Append(rentries, CommandEntry(StructuralCommand(ops), TRUE, r.spawned))
      /\ UNCHANGED <<rtick_count, rtimeline, rpending_events, rdigest, rjob>>
  BY SameResolve, SameLiveSim, SameCandidate, SameRecords
     DEF Replica!CommitLive, Replica!Commit, Replica!Log
<1> HIDE DEF r
<1>. QED BY <1>2, <1>3, ReplicaParts DEF Committed, ReplicaNow

LEMMA ReplicaRebuildCalls ==
  ASSUME NEW ops, Replica!BeginRebuild(ops)
  PROVE  /\ ReplicaNow' = Call(ReplicaNow, StructuralCommand(ops))
         /\ rjob'.kind = "rebuild" /\ rjob'.ops = ops /\ rjob'.done = 0
<1> DEFINE r == Resolve(Replica!World, ops)
           cand == Parked0(Candidate(Replica!World, r))
<1>1. r.ok /\ Mode # "live" BY SameResolve DEF Replica!BeginRebuild
<1>2. Call(ReplicaNow, StructuralCommand(ops)) = InProgress(ReplicaNow, RebuildJob(ReplicaNow, ops, cand))
  BY <1>1, ReplicaParts DEF Call, StructuralCommand, Structural
<1>3. /\ rjob' = [kind |-> "rebuild", ops |-> ops, cand |-> cand, done |-> 0,
                 acts |-> ActionsAt(rtimeline, 0, cand.actors)]
      /\ UNCHANGED Replica!session
  BY SameResolve, SameCandidate, SameNewEngine, SameActions DEF Replica!BeginRebuild
<1> HIDE DEF r, cand
<1>4. rjob' = RebuildJob(ReplicaNow, ops, cand) BY <1>3, ReplicaParts DEF RebuildJob
<1>5. ReplicaNow' = Call(ReplicaNow, StructuralCommand(ops))
  BY <1>2, <1>3, <1>4, ReplicaParts DEF InProgress, ReplicaNow, Replica!session
<1>. QED BY <1>3, <1>5

LEMMA ReplicaAdvanceCalls ==
  ASSUME NEW ticks, Replica!BeginAdvance(ticks)
  PROVE  /\ ReplicaNow' = Call(ReplicaNow, AdvanceEntry(ticks))
         /\ rjob'.kind = "advance" /\ rjob'.ticks = ticks
<1>1. Call(ReplicaNow, AdvanceEntry(ticks)) = InProgress(ReplicaNow, AdvanceJob(ReplicaNow, ticks))
  BY DEF Call, AdvanceEntry
<1>2. /\ rjob' = [kind |-> "advance", ticks |-> ticks, left |-> ticks,
                 acts |-> ActionsAt(rtimeline, rsim.tick, rsim.actors)]
      /\ UNCHANGED Replica!session
  BY SameActions DEF Replica!BeginAdvance
<1>3. rjob' = AdvanceJob(ReplicaNow, ticks) BY <1>2, ReplicaParts DEF AdvanceJob
<1>4. ReplicaNow' = Call(ReplicaNow, AdvanceEntry(ticks))
  BY <1>1, <1>2, <1>3, ReplicaParts DEF InProgress, ReplicaNow, Replica!session
<1>. QED BY <1>2, <1>4

LEMMA ReplicaTickContinues ==
  ASSUME Replica!AdvanceTick
  PROVE  ReplicaNow' = Continue(ReplicaNow) /\ rjob' = [rjob EXCEPT !.left = @ - 1]
<1> DEFINE s == EngineTick(rsim, rjob.acts)
           j == [rjob EXCEPT !.left = @ - 1]
<1>1. Continue(ReplicaNow) = AfterTick(ReplicaNow, s)
  BY ReplicaParts DEF Continue, Replica!AdvanceTick
<1>2. /\ rsim' = s /\ rdigest' = Append(rdigest, Frame(s)) /\ rjob' = j
      /\ UNCHANGED <<rinput, rtick_count, ractor_counter, rexist_counter, rtimeline,
                     rpending_events, rentries>>
  BY SameTick, SameFrame DEF Replica!AdvanceTick
<1>3. AfterTick(ReplicaNow, s) = Held(s, rinput, rtick_count, ractor_counter, rexist_counter, rtimeline,
                               rpending_events, rentries, Append(rdigest, Frame(s)), j)
  BY ReplicaParts DEF AfterTick
<1> HIDE DEF s, j
<1>4. ReplicaNow' = Continue(ReplicaNow) BY <1>1, <1>2, <1>3 DEF ReplicaNow
<1>. QED BY <1>2, <1>4 DEF j

LEMMA ReplicaEndContinues ==
  ASSUME Replica!EndAdvance
  PROVE  ReplicaNow' = Continue(ReplicaNow) /\ rentries' = Append(rentries, AdvanceEntry(rjob.ticks))
<1> DEFINE s == [rsim EXCEPT !.events = <<>>]
<1>1. Continue(ReplicaNow) = AfterEnd(ReplicaNow)
  BY ReplicaParts DEF Continue, Replica!EndAdvance
<1>2. AfterEnd(ReplicaNow) = Held(s, rinput, rtick_count + rjob.ticks, ractor_counter, rexist_counter,
                           rtimeline, <<>>, Append(rentries, AdvanceEntry(rjob.ticks)), rdigest, Idle)
  BY ReplicaParts DEF AfterEnd
<1>3. /\ rsim' = s /\ rtick_count' = rtick_count + rjob.ticks /\ rpending_events' = <<>>
      /\ rentries' = Append(rentries, AdvanceEntry(rjob.ticks)) /\ rjob' = Idle
      /\ UNCHANGED <<rinput, ractor_counter, rexist_counter, rtimeline, rdigest>>
  BY SameRecords DEF Replica!EndAdvance
<1> HIDE DEF s
<1>. QED BY <1>1, <1>2, <1>3 DEF ReplicaNow

LEMMA ReplicaCatchUpContinues ==
  ASSUME Replica!CatchUp
  PROVE  /\ ReplicaNow' = Continue(ReplicaNow)
         /\ rjob' = CatchUpJob(rtimeline, rtick_count, rjob, CaughtUp(rjob))
<1>1. Continue(ReplicaNow) =
        InProgress(ReplicaNow, CatchUpJob(rtimeline, rtick_count, rjob, CaughtUp(rjob)))
  BY ReplicaParts DEF Continue, Replica!CatchUp
<1>2. rjob' = CatchUpJob(rtimeline, rtick_count, rjob, CaughtUp(rjob)) /\ UNCHANGED Replica!session
  BY SameTick, SameActions, SameBoundaries DEF Replica!CatchUp, CatchUpJob, CaughtUp
<1>. QED BY <1>1, <1>2, ReplicaParts DEF ReplicaNow, InProgress, Replica!session

LEMMA ReplicaCommitContinues ==
  ASSUME Replica!CommitClip, rtick_count \in Nat
  PROVE  /\ ReplicaNow' = Continue(ReplicaNow)
         /\ \E ids : rentries' = Append(rentries, CommandEntry(StructuralCommand(rjob.ops), TRUE, ids))
<1> DEFINE r == Resolve(Replica!World, rjob.ops)
           e == [rjob.cand EXCEPT !.events = <<>>]
           kept == KeptEvents(rsim.tick, rjob.cand.events, Touched(r))
<1>1. rjob.kind = "rebuild" /\ ~(rjob.done < rtick_count) BY DEF Replica!CommitClip
<1>2. Continue(ReplicaNow) = Rebuilt(ReplicaNow, r)
  BY <1>1, ReplicaParts DEF Continue
<1>3. Rebuilt(ReplicaNow, r) = Committed(ReplicaNow, e, rpending_events \o kept, rjob.ops, r, Idle)
  BY ReplicaParts DEF Rebuilt
<1>4. rpending_events' = rpending_events \o kept
  <2>1. rpending_events' = rpending_events \o
          KeptEvents(rsim.tick, rjob.cand.events, Touched(Replica!Resolve(Replica!World, rjob.ops)))
    BY SameKept DEF Replica!CommitClip, Touched, Replica!Range, Range
  <2>. QED BY <2>1, SameResolve
<1>5. /\ rsim' = e /\ rjob' = Idle /\ rinput' = Candidate(Replica!World, r)
      /\ ractor_counter' = r.counter /\ rexist_counter' = r.exist
      /\ rentries' = Append(rentries, CommandEntry(StructuralCommand(rjob.ops), TRUE, r.spawned))
      /\ UNCHANGED <<rtick_count, rtimeline, rdigest>>
  BY SameResolve, SameCandidate, SameRecords
     DEF Replica!CommitClip, Replica!Commit, Replica!Log
<1> HIDE DEF r, e, kept
<1>. QED BY <1>2, <1>3, <1>4, <1>5, ReplicaParts DEF Committed, ReplicaNow

-----------------------------------------------------------------------------
(* A recorded step extends the history of the original.                    *)

LEMMA NextParts == Now'.entries = entries' /\ Now'.job = job' /\ Now'.tick_count = tick_count'
BY DEF Now, Held

LEMMA LoggedCommands ==
  /\ \A cmd, ok, ids : CommandOf(CommandEntry(cmd, ok, ids)) = cmd
  /\ \A ticks : CommandOf(AdvanceEntry(ticks)) = AdvanceEntry(ticks)
BY DEF CommandOf, CommandEntry, AdvanceEntry

LEMMA ActFollows ==
  ASSUME AtRestOrCounting(Now), NEW a, NEW action, Act(a, action)
  PROVE  Follows(Now, Now')
<1> DEFINE e == ActEntry(input, a, action)
<1>1. Now' = Call(Now, ActCommand(a, action)) BY ActCalls
<1>2. entries' = Append(entries, e) /\ job = Idle /\ UNCHANGED <<tick_count, job>>
  BY DEF Act, Ready, Log, ActEntry
<1>3. CommandOf(e) = ActCommand(a, action) BY LoggedCommands DEF ActEntry
<1> HIDE DEF e
<1>. QED BY <1>1, <1>2, <1>3, NowParts, NextParts, LoggedCallFollows

LEMMA RejectFollows ==
  ASSUME AtRestOrCounting(Now), NEW ops, RejectStructural(ops)
  PROVE  Follows(Now, Now')
<1> DEFINE e == CommandEntry(StructuralCommand(ops), FALSE, <<>>)
<1>1. Now' = Call(Now, StructuralCommand(ops)) BY RejectCalls
<1>2. entries' = Append(entries, e) /\ job = Idle /\ UNCHANGED <<tick_count, job>>
  BY DEF RejectStructural, StructuralReady, Ready, Log
<1>3. CommandOf(e) = StructuralCommand(ops) BY LoggedCommands
<1> HIDE DEF e
<1>. QED BY <1>1, <1>2, <1>3, NowParts, NextParts, LoggedCallFollows

LEMMA LiveFollows ==
  ASSUME AtRestOrCounting(Now), NEW ops, CommitLive(ops)
  PROVE  Follows(Now, Now')
<1> DEFINE e == CommandEntry(StructuralCommand(ops), TRUE, Resolve(World, ops).spawned)
<1>1. Now' = Call(Now, StructuralCommand(ops)) BY LiveCalls
<1>2. entries' = Append(entries, e) /\ job = Idle /\ UNCHANGED <<tick_count, job>>
  BY DEF CommitLive, Commit, StructuralReady, Ready, Log
<1>3. CommandOf(e) = StructuralCommand(ops) BY LoggedCommands
<1> HIDE DEF e
<1>. QED BY <1>1, <1>2, <1>3, NowParts, NextParts, LoggedCallFollows

LEMMA RebuildFollows ==
  ASSUME AtRestOrCounting(Now), NEW ops, BeginRebuild(ops)
  PROVE  Follows(Now, Now')
<1>1. /\ Now' = Call(Now, StructuralCommand(ops))
      /\ job'.kind = "rebuild" /\ job'.ops = ops /\ job'.done = 0
  BY RebuildCalls
<1>2. job = Idle /\ UNCHANGED <<entries, tick_count>>
  BY DEF BeginRebuild, StructuralReady, Ready, session
<1>3. job' # Idle /\ JobCommand(job') = StructuralCommand(ops)
  BY <1>1 DEF Idle, JobCommand
<1>. QED BY <1>1, <1>2, <1>3, NowParts, NextParts, BegunCallFollows

LEMMA AdvanceFollows ==
  ASSUME AtRestOrCounting(Now), NEW ticks, BeginAdvance(ticks)
  PROVE  Follows(Now, Now')
<1>1. /\ Now' = Call(Now, AdvanceEntry(ticks))
      /\ job'.kind = "advance" /\ job'.ticks = ticks
  BY AdvanceCalls
<1>2. job = Idle /\ UNCHANGED <<entries, tick_count>>
  BY DEF BeginAdvance, Ready, session
<1>3. job' # Idle /\ JobCommand(job') = AdvanceEntry(ticks) /\ job'.kind # "rebuild"
  BY <1>1 DEF Idle, JobCommand
<1>. QED BY <1>1, <1>2, <1>3, NowParts, NextParts, BegunCallFollows

LEMMA TickFollows ==
  ASSUME IInv, AtRestOrCounting(Now), AdvanceTick
  PROVE  Follows(Now, Now')
<1>1. Now' = Continue(Now) /\ job' = [job EXCEPT !.left = @ - 1] BY TickContinues
<1>2. PICK t, l, a : job = [kind |-> "advance", ticks |-> t, left |-> l, acts |-> a]
  BY AdvanceStands DEF IInv, AdvanceTick
<1>3. job' = [kind |-> "advance", ticks |-> t, left |-> l - 1, acts |-> a] BY <1>1, <1>2
<1>4. /\ job # Idle /\ job' # Idle /\ JobCommand(job') = JobCommand(job)
      /\ job'.kind # "rebuild"
  BY <1>2, <1>3 DEF Idle, JobCommand
<1>5. UNCHANGED <<entries, tick_count>> BY DEF AdvanceTick
<1>. QED BY <1>1, <1>4, <1>5, NowParts, NextParts, GoingOnFollows

LEMMA EndFollows ==
  ASSUME IInv, AtRestOrCounting(Now), EndAdvance
  PROVE  Follows(Now, Now')
<1>1. Now' = Continue(Now) /\ entries' = Append(entries, AdvanceEntry(job.ticks))
  BY EndContinues
<1>2. /\ job.kind = "advance" /\ job' = Idle BY DEF EndAdvance
<1>3. job # Idle /\ JobCommand(job) = AdvanceEntry(job.ticks) BY <1>2 DEF Idle, JobCommand
<1>4. tick_count' \in Nat
  <2>1. job.ticks \in Nat BY <1>2, AdvanceStands DEF IInv
  <2>. QED BY <2>1, NowParts DEF EndAdvance, AtRestOrCounting
<1>. QED BY <1>1, <1>2, <1>3, <1>4, NowParts, NextParts, LoggedCommands, ReturnFollows

LEMMA CatchUpFollows ==
  ASSUME IInv, AtRestOrCounting(Now), CatchUp
  PROVE  Follows(Now, Now')
<1>1. Now' = Continue(Now) /\ job' = CatchUpJob(timeline, tick_count, job, CaughtUp(job))
  BY CatchUpContinues
<1>2. PICK o, c, d, a :
        /\ job = [kind |-> "rebuild", ops |-> o, cand |-> c, done |-> d, acts |-> a]
        /\ d \in 0..tick_count
  BY RebuildStands DEF IInv, CatchUp
<1>3. \E e, f : job' = [kind |-> "rebuild", ops |-> o, cand |-> e, done |-> d + 1, acts |-> f]
  BY <1>1, <1>2 DEF CatchUpJob
<1>4. /\ job # Idle /\ job' # Idle /\ JobCommand(job') = JobCommand(job)
      /\ job'.done \in Nat
  BY <1>2, <1>3 DEF Idle, JobCommand
<1>5. UNCHANGED <<entries, tick_count>> BY DEF CatchUp, session
<1>6. Now' = Continue(Now) BY <1>1
<1>. QED BY <1>4, <1>5, <1>6, NowParts, NextParts, GoingOnFollows

LEMMA CommitFollows ==
  ASSUME IInv, AtRestOrCounting(Now), CommitClip
  PROVE  Follows(Now, Now')
<1>1. tick_count \in Nat BY NowParts DEF AtRestOrCounting
<1>2. Now' = Continue(Now) BY <1>1, CommitContinues
<1>3. PICK ids : entries' = Append(entries, CommandEntry(StructuralCommand(job.ops), TRUE, ids))
  BY <1>1, CommitContinues
<1>4. job.kind = "rebuild" /\ job' = Idle /\ tick_count' = tick_count
  BY DEF CommitClip, Commit
<1>5. job # Idle /\ JobCommand(job) = StructuralCommand(job.ops) BY <1>4 DEF Idle, JobCommand
<1>6. PICK e : e = CommandEntry(StructuralCommand(job.ops), TRUE, ids) OBVIOUS
<1>7. CommandOf(e) = JobCommand(job) /\ entries' = Append(entries, e)
  BY <1>3, <1>5, <1>6, LoggedCommands
<1>. QED BY <1>1, <1>2, <1>4, <1>5, <1>7, NowParts, NextParts, ReturnFollows

-----------------------------------------------------------------------------
(* The replica is a world of the original's past.                          *)

HasHistory(m) == \E past, n : History(past, n) /\ past[n] = m

Replayable ==
  \E past, n : /\ History(past, n) /\ past[n] = Now
               /\ \E j \in 0..n : past[j] = ReplicaNow

SavedHistory == saved # NoCheckpoint => HasHistory(Copied(saved.state))

\* The inductive invariant: the original has a history that its log leads
\* through, so has its checkpoint, and the replica stands at one of its worlds.
RInv ==
  /\ IInv /\ Replayable /\ SavedHistory
  /\ ~exported => ReplicaNow = Fresh
  /\ exported => job = Idle

\* The history says of the present that its log is a log.
LEMMA NowCounts ==
  ASSUME Replayable
  PROVE  AtRestOrCounting(Now)
BY DEF Replayable, History

\* A step of the original that extends its history leaves the replica there.
LEMMA RecordKeeps ==
  ASSUME RInv, IInv', Follows(Now, Now'), Recording, saved' = saved
  PROVE  RInv'
<1>1. ReplicaNow' = ReplicaNow /\ exported' = exported /\ ~exported
  BY DEF Recording, ReplicaNow, replica
<1>2. PICK past, n : /\ History(past, n) /\ past[n] = Now
                     /\ \E j \in 0..n : past[j] = ReplicaNow
  BY DEF RInv, Replayable
<1> DEFINE q == [i \in 0..(n + 1) |-> IF i = n + 1 THEN Now' ELSE past[i]]
<1>3. History(q, n + 1) BY <1>2, HistoryGrows
<1>4. n \in Nat BY <1>2 DEF History
<1>5. q[n + 1] = Now' BY <1>4
<1>6. \E j \in 0..(n + 1) : q[j] = ReplicaNow'
  <2>1. PICK j \in 0..n : past[j] = ReplicaNow BY <1>2
  <2>2. j \in 0..(n + 1) /\ q[j] = past[j] BY <1>4
  <2>. QED BY <2>1, <2>2, <1>1
<1> HIDE DEF q
<1>7. Replayable' BY <1>3, <1>5, <1>6 DEF Replayable
<1>8. SavedHistory' BY DEF RInv, SavedHistory
<1>. QED BY <1>1, <1>7, <1>8 DEF RInv

\* A step of the replica takes it to the next world of the past.
LEMMA ReplayKeeps ==
  ASSUME RInv, Replaying,
         \A past, n, j : /\ History(past, n) /\ past[n] = Now
                         /\ j \in 0..n /\ past[j] = ReplicaNow
                         => j # n /\ past[j + 1] = ReplicaNow'
  PROVE  RInv'
<1>1. Now' = Now /\ saved' = saved /\ exported' = exported /\ exported /\ job' = job
  BY DEF Replaying, vars, Now
<1>2. IInv' BY NextIInv DEF RInv, Replaying
<1>3. PICK past, n : /\ History(past, n) /\ past[n] = Now
                     /\ \E j \in 0..n : past[j] = ReplicaNow
  BY DEF RInv, Replayable
<1>4. PICK j \in 0..n : past[j] = ReplicaNow BY <1>3
<1>5. n \in Nat /\ j # n /\ past[j + 1] = ReplicaNow' BY <1>3, <1>4 DEF History
<1>6. j + 1 \in 0..n BY <1>5
<1>7. Replayable' BY <1>1, <1>3, <1>5, <1>6 DEF Replayable
<1>8. SavedHistory' BY <1>1 DEF RInv, SavedHistory
<1>. QED BY <1>1, <1>2, <1>7, <1>8 DEF RInv

\* A world at rest whose log is not yet the original's is one of its past, and
\* the next entry leads from there.
LEMMA NextOfPast ==
  ASSUME RInv, exported, NEW kind, ToReplay(kind), NEW past, NEW n, NEW j,
         History(past, n), past[n] = Now, j \in 0..n, past[j] = ReplicaNow
  PROVE  j # n /\ past[j + 1] = Call(ReplicaNow, CommandOf(NextEntry))
<1>1. n \in Nat /\ AtRestOrCounting(ReplicaNow) /\ AtRestOrCounting(Now) BY DEF History
<1>2. Len(rentries) \in Nat /\ Len(entries) \in Nat
  BY <1>1, LogAppend, NowParts, ReplicaParts DEF AtRestOrCounting
<1>3. rjob = Idle /\ Len(rentries) < Len(entries) BY DEF ToReplay, Replica!Idle, Idle
<1>4. j # n BY <1>2, <1>3, NowParts, ReplicaParts
<1>5. j \in 0..(n - 1) BY <1>1, <1>4
<1>6. Leads(ReplicaNow, past[j + 1], Now) BY <1>5 DEF History
<1>7. past[j + 1] = Call(ReplicaNow, IssuedBy(Now, Len(rentries) + 1))
  BY <1>3, <1>6, ReplicaParts DEF Leads
<1>8. IssuedBy(Now, Len(rentries) + 1) = CommandOf(NextEntry)
  BY <1>2, <1>3, NowParts DEF IssuedBy, NextEntry
<1>. QED BY <1>4, <1>7, <1>8

\* A call in progress is one of the past, as the original is at rest.
LEMMA BusyOfPast ==
  ASSUME RInv, exported, rjob # Idle, NEW past, NEW n, NEW j,
         History(past, n), past[n] = Now, j \in 0..n, past[j] = ReplicaNow
  PROVE  j # n /\ past[j + 1] = Continue(ReplicaNow) /\ rtick_count \in Nat
<1>1. n \in Nat /\ AtRestOrCounting(ReplicaNow) BY DEF History
<1>2. j # n BY NowParts, ReplicaParts DEF RInv
<1>3. j \in 0..(n - 1) BY <1>1, <1>2
<1>4. Leads(ReplicaNow, past[j + 1], Now) BY <1>3 DEF History
<1>. QED BY <1>1, <1>2, <1>4, ReplicaParts DEF Leads, AtRestOrCounting

\* Each replayed step is the next of the past.
LEMMA ReplayAdvanceKeeps == RInv /\ ReplayAdvance => RInv'
<1> SUFFICES ASSUME RInv, ReplayAdvance PROVE RInv'
  OBVIOUS
<1>1. /\ ToReplay("advance") /\ Replica!BeginAdvance(NextEntry.ticks) /\ Replaying /\ exported
      /\ NextEntry.kind = "advance"
  BY DEF ReplayAdvance, Replaying, ToReplay, NextEntry
<1>2. ReplicaNow' = Call(ReplicaNow, AdvanceEntry(NextEntry.ticks))
  BY <1>1, ReplicaAdvanceCalls
<1>3. Call(ReplicaNow, CommandOf(NextEntry)) = Call(ReplicaNow, AdvanceEntry(NextEntry.ticks))
  BY <1>1 DEF CommandOf, Call, AdvanceEntry
<1>. QED BY <1>1, <1>2, <1>3, NextOfPast, ReplayKeeps

LEMMA ReplayActKeeps == RInv /\ ReplayAct => RInv'
<1> SUFFICES ASSUME RInv, ReplayAct PROVE RInv'
  OBVIOUS
<1> DEFINE cmd == NextEntry.cmd
<1>1. /\ ToReplay("command") /\ Replica!Act(cmd.actor, cmd.action) /\ Replaying /\ exported
      /\ NextEntry.kind = "command" /\ cmd.kind = "act"
  BY DEF ReplayAct, Replaying, NextCommand, ToReplay, NextEntry
<1>2. ReplicaNow' = Call(ReplicaNow, ActCommand(cmd.actor, cmd.action))
  BY <1>1, ReplicaActCalls
<1>3. Call(ReplicaNow, CommandOf(NextEntry)) = Call(ReplicaNow, ActCommand(cmd.actor, cmd.action))
  BY <1>1 DEF CommandOf, Call, ActCommand
<1> HIDE DEF cmd
<1>. QED BY <1>1, <1>2, <1>3, NextOfPast, ReplayKeeps

LEMMA ReplayStructuralKeeps == RInv /\ ReplayStructural => RInv'
<1> SUFFICES ASSUME RInv, ReplayStructural PROVE RInv'
  OBVIOUS
<1> DEFINE cmd == NextEntry.cmd
<1>1. /\ ToReplay("command") /\ Replaying /\ exported
      /\ NextEntry.kind = "command" /\ cmd.kind = "structural"
  BY DEF ReplayStructural, Replaying, NextCommand, ToReplay, NextEntry
<1>2. \/ Replica!RejectStructural(cmd.ops) \/ Replica!CommitLive(cmd.ops)
      \/ Replica!BeginRebuild(cmd.ops)
  BY DEF ReplayStructural
<1>3. ReplicaNow' = Call(ReplicaNow, StructuralCommand(cmd.ops))
  BY <1>2, ReplicaRejectCalls, ReplicaLiveCalls, ReplicaRebuildCalls
<1>4. Call(ReplicaNow, CommandOf(NextEntry)) = Call(ReplicaNow, StructuralCommand(cmd.ops))
  BY <1>1 DEF CommandOf, Call, StructuralCommand
<1> HIDE DEF cmd
<1>. QED BY <1>1, <1>3, <1>4, NextOfPast, ReplayKeeps

LEMMA ReplayJobKeeps == RInv /\ ReplayJob => RInv'
<1> SUFFICES ASSUME RInv, ReplayJob PROVE RInv'
  OBVIOUS
<1>1. Replaying /\ exported /\ rjob # Idle
  <2>1. Replaying /\ exported BY DEF ReplayJob, Replaying
  <2>2. /\ Replica!AdvanceTick => rjob.kind = "advance"
        /\ Replica!EndAdvance => rjob.kind = "advance"
        /\ Replica!CatchUp => rjob.kind = "rebuild"
        /\ Replica!CommitClip => rjob.kind = "rebuild"
    BY DEF Replica!AdvanceTick, Replica!EndAdvance, Replica!CatchUp, Replica!CommitClip
  <2>3. rjob.kind # "idle" BY <2>2 DEF ReplayJob
  <2>. QED BY <2>1, <2>3 DEF Idle
<1>2. rtick_count \in Nat => ReplicaNow' = Continue(ReplicaNow)
  BY ReplicaTickContinues, ReplicaEndContinues, ReplicaCatchUpContinues, ReplicaCommitContinues
     DEF ReplayJob
<1>. QED BY <1>1, <1>2, BusyOfPast, ReplayKeeps

\* A step of the original that is neither a checkpoint nor a restore.
LEMMA RecordedKeeps ==
  ASSUME RInv, Recording, Next, saved' = saved,
         \/ \E a, action : Act(a, action)
         \/ \E ops : RejectStructural(ops) \/ CommitLive(ops) \/ BeginRebuild(ops)
         \/ \E ticks : BeginAdvance(ticks)
         \/ AdvanceTick \/ EndAdvance \/ CatchUp \/ CommitClip
  PROVE  RInv'
<1>1. IInv' BY NextIInv DEF RInv
<1>2. AtRestOrCounting(Now) /\ IInv BY NowCounts DEF RInv
<1>3. Follows(Now, Now')
  BY <1>2, ActFollows, RejectFollows, LiveFollows, RebuildFollows, AdvanceFollows, TickFollows,
     EndFollows, CatchUpFollows, CommitFollows
<1>. QED BY <1>1, <1>3, RecordKeeps

\* A checkpoint is the world at rest, so its history is the original's.
LEMMA CheckpointKeeps ==
  ASSUME RInv, Checkpoint, Recording
  PROVE  RInv'
<1>1. IInv' BY NextIInv DEF RInv, Next
<1>2. /\ job = Idle /\ saved'.state = session /\ UNCHANGED <<session, job>>
      /\ ~exported /\ ~exported' /\ ReplicaNow' = ReplicaNow
  BY DEF Checkpoint, Recording, ReplicaNow, replica
<1>3. Copied(saved'.state) = Now /\ Now' = Now BY <1>2 DEF Copied, Now, session
<1>4. SavedHistory' BY <1>3 DEF SavedHistory, RInv, Replayable, HasHistory
<1>5. Replayable' BY <1>2, <1>3 DEF RInv, Replayable
<1>. QED BY <1>1, <1>2, <1>4, <1>5 DEF RInv

\* A restored world has the history of the checkpoint.
LEMMA RestoreKeeps ==
  ASSUME RInv, Restore, Recording
  PROVE  RInv'
<1>1. IInv' BY NextIInv DEF RInv, Next
<1>2. /\ job = Idle /\ job' = Idle /\ saved # NoCheckpoint /\ saved' = NoCheckpoint
      /\ ~exported /\ ~exported' /\ ReplicaNow' = ReplicaNow
  BY DEF Restore, Recording, ReplicaNow, replica
<1>3. Now' = Copied(saved.state) BY <1>2 DEF Restore, Resume, Now, Copied
<1>4. PICK past, n : History(past, n) /\ past[n] = Now'
  BY <1>2, <1>3 DEF RInv, SavedHistory, HasHistory
<1>5. 0 \in 0..n /\ past[0] = ReplicaNow' BY <1>2, <1>4 DEF History, RInv
<1>6. Replayable' BY <1>4, <1>5 DEF Replayable
<1>7. SavedHistory' BY <1>2 DEF SavedHistory
<1>. QED BY <1>1, <1>2, <1>6, <1>7 DEF RInv

\* The inductive invariant holds when nothing has been recorded.
LEMMA ReplayInitRInv == ReplayInit => RInv
<1> SUFFICES ASSUME ReplayInit PROVE RInv
  OBVIOUS
<1>1. IInv BY InitIInv DEF ReplayInit
<1>2. Now = Fresh /\ saved = NoCheckpoint /\ job = Idle /\ ~exported
  BY DEF ReplayInit, Init, Now, Fresh, BaseInput
<1>3. ReplicaNow = Fresh
  BY SameNewEngine DEF ReplayInit, Replica!Init, ReplicaNow, Fresh, BaseInput, Replica!Idle, Idle
<1> DEFINE past == [i \in {0} |-> Fresh]
<1>4. past[0] = Fresh /\ 0 \in Nat OBVIOUS
<1>5. AtRestOrCounting(Fresh) /\ Len(Fresh.entries) = 0
  <2>1. Fresh.entries = <<>> /\ Fresh.tick_count = 0 /\ Fresh.job = Idle BY DEF Fresh, Held
  <2>2. <<>> \in Seq({}) OBVIOUS
  <2>. QED BY <2>1, <2>2 DEF AtRestOrCounting, IsLog, Idle
<1>6. LogPrefix(Fresh, Fresh) BY <1>5 DEF LogPrefix
<1> HIDE DEF past
<1>7. \A i \in 0..0 : AtRestOrCounting(past[i]) /\ LogPrefix(past[i], past[0])
  BY <1>4, <1>5, <1>6
<1>8. History(past, 0) BY <1>4, <1>7 DEF History
<1>9. Replayable BY <1>2, <1>3, <1>4, <1>8 DEF Replayable
<1>. QED BY <1>1, <1>2, <1>3, <1>9 DEF RInv, SavedHistory

\* Every step of recording, export and replay keeps it.
LEMMA ReplayNextRInv == RInv /\ [ReplayNext]_allVars => RInv'
<1> SUFFICES ASSUME RInv, [ReplayNext]_allVars PROVE RInv'
  OBVIOUS
<1>act. ASSUME NEW a \in ActIds, NEW action \in {"hold", "drive", None}, Act(a, action), Recording
        PROVE  RInv'
  BY <1>act, RecordedKeeps DEF Next, Command, Act
<1>reject. ASSUME NEW ops \in Batches, RejectStructural(ops), Recording PROVE RInv'
  BY <1>reject, RecordedKeeps DEF Next, Command, RejectStructural
<1>live. ASSUME NEW ops \in Batches, CommitLive(ops), Recording PROVE RInv'
  BY <1>live, RecordedKeeps DEF Next, Command, CommitLive, Commit
<1>rebuild. ASSUME NEW ops \in Batches, BeginRebuild(ops), Recording PROVE RInv'
  BY <1>rebuild, RecordedKeeps DEF Next, Command, BeginRebuild
<1>catchup. ASSUME CatchUp, Recording PROVE RInv'
  BY <1>catchup, RecordedKeeps DEF Next, CatchUp
<1>commit. ASSUME CommitClip, Recording PROVE RInv'
  BY <1>commit, RecordedKeeps DEF Next, CommitClip, Commit
<1>begin. ASSUME NEW ticks \in 1..MaxAdvance, BeginAdvance(ticks), Recording PROVE RInv'
  BY <1>begin, RecordedKeeps DEF Next, BeginAdvance
<1>tick. ASSUME AdvanceTick, Recording PROVE RInv'
  BY <1>tick, RecordedKeeps DEF Next, AdvanceTick
<1>end. ASSUME EndAdvance, Recording PROVE RInv'
  BY <1>end, RecordedKeeps DEF Next, EndAdvance
<1>record. CASE Record
  BY <1>record, <1>act, <1>reject, <1>live, <1>rebuild, <1>catchup, <1>commit, <1>begin, <1>tick,
     <1>end, CheckpointKeeps, RestoreKeeps DEF Record
<1>export. CASE ExportLog
  <2>1. /\ UNCHANGED <<vars, replica>> /\ job = Idle
        /\ Now' = Now /\ ReplicaNow' = ReplicaNow /\ saved' = saved /\ job' = job
    BY <1>export DEF ExportLog, vars, replica, Now, ReplicaNow
  <2>2. IInv' BY <2>1, NextIInv DEF RInv
  <2>3. Replayable' /\ SavedHistory' /\ ReplicaNow' = Fresh
    BY <1>export, <2>1 DEF RInv, Replayable, SavedHistory, ExportLog
  <2>. QED BY <2>1, <2>2, <2>3 DEF RInv
<1>stutter. CASE UNCHANGED allVars
  <2>1. /\ UNCHANGED <<vars, exported>>
        /\ Now' = Now /\ ReplicaNow' = ReplicaNow /\ saved' = saved /\ job' = job
    BY <1>stutter DEF allVars, vars, replica, Now, ReplicaNow
  <2>2. IInv' BY <2>1, NextIInv DEF RInv
  <2>3. Replayable' /\ SavedHistory' BY <2>1 DEF RInv, Replayable, SavedHistory
  <2>. QED BY <2>1, <2>2, <2>3 DEF RInv
<1>. QED
  BY <1>record, <1>export, <1>stutter, ReplayAdvanceKeeps, ReplayActKeeps, ReplayStructuralKeeps,
     ReplayJobKeeps DEF ReplayNext, Return

\* "every command reproduces its recorded outcome (including rejections)"
\* (replay_world_session_log): no entry that the replica has executed differs
\* from the recorded one, whatever was checkpointed and restored on the way.
THEOREM OutcomesMatchAlways == ReplaySpec => []OutcomesMatch
<1>1. RInv => OutcomesMatch
  <2> SUFFICES ASSUME RInv, NEW k \in DOMAIN rentries PROVE rentries[k] = entries[k]
    BY DEF OutcomesMatch
  <2>1. PICK past, n : /\ History(past, n) /\ past[n] = Now
                       /\ \E j \in 0..n : past[j] = ReplicaNow
    BY DEF RInv, Replayable
  <2>2. AtRestOrCounting(ReplicaNow) /\ LogPrefix(ReplicaNow, Now) BY <2>1 DEF History
  <2>3. DOMAIN rentries = 1..Len(rentries)
    BY <2>2, LogAppend, ReplicaParts DEF AtRestOrCounting
  <2>. QED BY <2>2, <2>3, NowParts, ReplicaParts DEF LogPrefix
<1>. QED BY <1>1, ReplayInitRInv, ReplayNextRInv, PTL DEF ReplaySpec

\* "the returned digest equals log.digest": once every entry is executed, the
\* replica has hashed the frames of the original, in the same order, and stands
\* where it stood.
THEOREM DigestReproducedAlways == ReplaySpec => []DigestReproduced
<1>1. RInv => DigestReproduced
  <2> SUFFICES ASSUME RInv, Replayed PROVE rdigest = digest /\ Replica!Frame(rsim) = Frame(sim)
    BY DEF DigestReproduced
  <2>1. /\ exported /\ rjob = Idle /\ job = Idle /\ Len(rentries) = Len(entries)
    BY DEF Replayed, Replica!Idle, Idle, RInv
  <2>2. PICK past, n : /\ History(past, n) /\ past[n] = Now
                       /\ \E j \in 0..n : past[j] = ReplicaNow
    BY DEF RInv, Replayable
  <2>3. PICK j \in 0..n : past[j] = ReplicaNow BY <2>2
  <2>4. n \in Nat /\ AtRestOrCounting(Now) BY <2>2 DEF History
  <2>5. Len(entries) \in Nat BY <2>4, LogAppend, NowParts DEF AtRestOrCounting
  <2>6. ASSUME j # n PROVE FALSE
    <3>1. j \in 0..(n - 1) BY <2>4, <2>6
    <3>2. Leads(ReplicaNow, past[j + 1], Now) BY <2>2, <2>3, <3>1 DEF History
    <3>3. Len(rentries) + 1 <= Issued(Now) BY <2>1, <3>2, ReplicaParts DEF Leads
    <3>4. Issued(Now) = Len(entries) BY <2>1, NowParts DEF Issued
    <3>. QED BY <2>1, <2>5, <3>3, <3>4
  <2>7. ReplicaNow = Now BY <2>2, <2>3, <2>6
  <2>. QED BY <2>7, NowParts, ReplicaParts, SameFrame
<1>. QED BY <1>1, ReplayInitRInv, ReplayNextRInv, PTL DEF ReplaySpec

-----------------------------------------------------------------------------
(* Induction over the ops of a batch.  Folds are recursive functions on the *)
(* positions that are left; NatLessThanWellFounded gives the induction.     *)

\* Induction over the naturals for a set: the least number outside it would
\* have its predecessor inside.
LEMMA Induction ==
  ASSUME NEW S, 0 \in S, \A n \in Nat : n \in S => n + 1 \in S
  PROVE  Nat \subseteq S
<1> DEFINE T == Nat \ S
           R == OpToRel(<, Nat)
<1>1. SUFFICES ASSUME T # {} PROVE FALSE OBVIOUS
<1>2. IsWellFoundedOn(R, Nat) BY NatLessThanWellFounded
<1>3. T \subseteq Nat OBVIOUS
<1>4. PICK x \in T : \A y \in T : ~(<<y, x>> \in R)
  <2> HIDE DEF T, R
  <2>. QED BY <1>1, <1>2, <1>3, WFMin
<1>5. \A y \in T : ~(y < x) BY <1>3, <1>4 DEF OpToRel
<1>6. x \in Nat /\ x # 0 BY <1>3
<1>7. x - 1 \in Nat /\ x - 1 < x /\ (x - 1) + 1 = x BY <1>6
<1>. QED BY <1>5, <1>6, <1>7

\* A set of positions that is not empty has a last one.
LEMMA LastPosition ==
  ASSUME NEW n \in Nat, NEW s, s \subseteq 1..n, s # {}
  PROVE  Max(s) \in s /\ \A y \in s : y <= Max(s)
<1> DEFINE T == {k \in Nat : \E x \in s : k = n - x}
           R == OpToRel(<, Nat)
<1>1. IsWellFoundedOn(R, Nat) BY NatLessThanWellFounded
<1>2. T \subseteq Nat /\ T # {}
  <2>1. PICK x : x \in s OBVIOUS
  <2>2. n - x \in Nat BY <2>1
  <2>. QED BY <2>1, <2>2
<1>3. PICK m \in T : \A y \in T : ~(<<y, m>> \in R)
  <2> HIDE DEF T, R
  <2>. QED BY <1>1, <1>2, WFMin
<1>4. \A y \in T : ~(y < m) BY <1>2, <1>3 DEF OpToRel
<1>5. PICK x \in s : m = n - x OBVIOUS
<1>6. \A y \in s : x >= y
  <2> SUFFICES ASSUME NEW y \in s PROVE x >= y OBVIOUS
  <2>1. n - y \in T /\ x \in Int /\ y \in Int OBVIOUS
  <2>2. ~(n - y < n - x) BY <1>4, <1>5, <2>1
  <2>. QED BY <2>1, <2>2
<1>7. Max(s) = CHOOSE z \in s : \A y \in s : z >= y BY DEF Max
<1>8. Max(s) \in s /\ \A y \in s : Max(s) >= y
  <2> HIDE DEF T, R
  <2>. QED BY <1>6, <1>7
<1>. QED BY <1>8

-----------------------------------------------------------------------------

ResolveRec(w, ops, h, n) ==
  h = [s \in SUBSET (1..n) |->
         IF s = {} THEN Unresolved(w) ELSE ResolveOp(w, h[s \ {Max(s)}], ops[Max(s)])]

\* The recursion that FoldLeft runs over the ops has a solution.
LEMMA ResolveRecSolved ==
  ASSUME NEW w, NEW ops, NEW n \in Nat
  PROVE  \E h : ResolveRec(w, ops, h, n)
<1> DEFINE S == {k \in Nat : \E h : ResolveRec(w, ops, h, k)}
<1>1. 0 \in S
  <2> DEFINE h == [s \in SUBSET (1..0) |-> Unresolved(w)]
  <2>1. SUBSET (1..0) = {{}} OBVIOUS
  <2>2. ResolveRec(w, ops, h, 0) BY <2>1 DEF ResolveRec
  <2>. QED BY <2>2
<1>2. ASSUME NEW k \in Nat, k \in S PROVE k + 1 \in S
  <2>1. PICK h : ResolveRec(w, ops, h, k) BY <1>2
  <2> DEFINE g == [s \in SUBSET (1..(k + 1)) |->
                     IF s \subseteq 1..k THEN h[s] ELSE ResolveOp(w, h[s \ {k + 1}], ops[k + 1])]
             Rec(s) == IF s = {} THEN Unresolved(w) ELSE ResolveOp(w, g[s \ {Max(s)}], ops[Max(s)])
  <2>2. ASSUME NEW s \in SUBSET (1..(k + 1)) PROVE g[s] = Rec(s)
    <3>1. CASE s = {}
      <4>1. g[s] = h[s] /\ h[s] = Unresolved(w) BY <2>1, <3>1 DEF ResolveRec
      <4>. QED BY <3>1, <4>1
    <3>2. CASE s # {} /\ s \subseteq 1..k
      <4>1. Max(s) \in s BY <3>2, LastPosition
      <4> DEFINE t == s \ {Max(s)}
      <4>2. t \in SUBSET (1..k) /\ t \in SUBSET (1..(k + 1)) /\ s \in SUBSET (1..k) BY <3>2
      <4>3. h[s] = ResolveOp(w, h[t], ops[Max(s)]) BY <2>1, <3>2, <4>2 DEF ResolveRec
      <4>4. g[s] = h[s] /\ g[t] = h[t] BY <3>2, <4>2
      <4> HIDE DEF g
      <4>. QED BY <3>2, <4>3, <4>4
    <3>3. CASE ~(s \subseteq 1..k)
      <4>1. k + 1 \in s /\ s # {} /\ s \subseteq 1..(k + 1) /\ k + 1 \in Nat BY <3>3
      <4>2. Max(s) \in s /\ \A y \in s : y <= Max(s)
        <5> HIDE DEF g, Rec, S
        <5>. QED BY <4>1, LastPosition
      <4>3. Max(s) = k + 1
        <5>1. Max(s) \in 1..(k + 1) /\ k + 1 <= Max(s) BY <4>1, <4>2
        <5>. QED BY <5>1
      <4> DEFINE t == s \ {k + 1}
      <4>4. t \in SUBSET (1..k) /\ t \in SUBSET (1..(k + 1)) OBVIOUS
      <4>5. g[s] = ResolveOp(w, h[t], ops[k + 1]) /\ g[t] = h[t] BY <3>3, <4>4
      <4> HIDE DEF g
      <4>. QED BY <4>1, <4>3, <4>5
    <3>. QED BY <3>1, <3>2, <3>3
  <2>3. g = [s \in SUBSET (1..(k + 1)) |-> Rec(s)] BY <2>2
  <2>4. ResolveRec(w, ops, g, k + 1) BY <2>3 DEF ResolveRec
  <2> HIDE DEF g
  <2>. QED BY <2>4
<1> HIDE DEF S
<1>3. n \in S BY <1>1, <1>2, Induction
<1>. QED BY <1>3 DEF S

\* Resolve takes the ops one after the other.
LEMMA ResolveRuns ==
  ASSUME NEW w, NEW n \in Nat, NEW ops, DOMAIN ops = 1..n, ops # <<>>
  PROVE  \E g : /\ g[0] = Unresolved(w)
                /\ \A k \in 1..n : g[k] = ResolveOp(w, g[k - 1], ops[k])
                /\ Resolve(w, ops) = g[n]
<1> DEFINE h == CHOOSE f : ResolveRec(w, ops, f, n)
<1>1. ResolveRec(w, ops, h, n) BY ResolveRecSolved
<1>2. Resolve(w, ops) = h[1..n]
  BY DEF Resolve, FoldLeft, MapThenFoldSet, ResolveRec
<1> HIDE DEF h
<1> DEFINE g == [k \in 0..n |-> h[1..k]]
<1>3. g[0] = Unresolved(w)
  <2>1. 1..0 = {} /\ 1..0 \in SUBSET (1..n) OBVIOUS
  <2>2. h[1..0] = Unresolved(w) BY <1>1, <2>1 DEF ResolveRec
  <2>. QED BY <2>2
<1>4. ASSUME NEW k \in 1..n PROVE g[k] = ResolveOp(w, g[k - 1], ops[k])
  <2>1. 1..k \in SUBSET (1..n) /\ 1..k # {} /\ k \in Nat
    <3> HIDE DEF g
    <3>1. k \in Nat /\ k <= n /\ k \in 1..k OBVIOUS
    <3>2. 1..k \subseteq 1..n BY <3>1
    <3>. QED BY <3>1, <3>2
  <2>2. Max(1..k) \in 1..k /\ \A y \in 1..k : y <= Max(1..k) BY <2>1, LastPosition
  <2>3. Max(1..k) = k BY <2>1, <2>2
  <2>4. (1..k) \ {k} = 1..(k - 1) OBVIOUS
  <2>5. h[1..k] = ResolveOp(w, h[1..(k - 1)], ops[k]) BY <1>1, <2>1, <2>3, <2>4 DEF ResolveRec
  <2>6. g[k] = h[1..k] /\ g[k - 1] = h[1..(k - 1)] OBVIOUS
  <2>. QED BY <2>5, <2>6
<1>5. g[n] = h[1..n] OBVIOUS
<1> HIDE DEF g
<1>. QED BY <1>2, <1>3, <1>4, <1>5

-----------------------------------------------------------------------------
(* What a batch gives out: the ids of its spawns.                          *)

ResolvedShape(r) ==
  \E ok, c, e, sp, de, ce, ex :
    r = [ok |-> ok, counter |-> c, exist |-> e, spawned |-> sp, despawned |-> de,
         cell |-> ce, exists |-> ex]

\* The numbers above the counter whose ids nobody has.
Free(w, r) == {n \in DOMAIN AutoIds : n > r.counter /\ AutoIds[n] \notin UsedIds(w, r)}

\* The ids given so far are new and distinct, and no number was passed over.
Given(w, r) ==
  /\ r.counter \in 0..Len(AutoIds)
  /\ \A m \in 1..r.counter : AutoIds[m] \in UsedIds(w, r)
  /\ \E S : r.spawned \in Seq(S)
  /\ \A i, j \in DOMAIN r.spawned : r.spawned[i] = r.spawned[j] => i = j
  /\ Range(r.spawned) \cap w.input.actors = {}

\* The spawns of a batch after its first k ops.
SpawnsLeft(ops, k) == {j \in DOMAIN ops : j > k /\ ops[j].op = "spawn"}

\* The next number is the first free one.
LEMMA NextAutoIsFirst ==
  ASSUME NEW w, NEW r, r.counter \in 0..Len(AutoIds), Free(w, r) # {}
  PROVE  NextAuto(w, r) \in Free(w, r) /\ \A m \in Free(w, r) : NextAuto(w, r) <= m
<1> DEFINE F == Free(w, r)
           R == OpToRel(<, Nat)
<1>1. DOMAIN AutoIds = 1..Len(AutoIds) /\ Len(AutoIds) \in Nat BY WorldAssumption
<1>2. F \subseteq Nat BY <1>1 DEF Free
<1>3. PICK x \in F : \A y \in F : ~(<<y, x>> \in R)
  <2>1. IsWellFoundedOn(R, Nat) BY NatLessThanWellFounded
  <2>2. F # {} OBVIOUS
  <2> HIDE DEF F, R
  <2>. QED BY <1>2, <2>1, <2>2, WFMin
<1>4. \A y \in F : x <= y
  <2> SUFFICES ASSUME NEW y \in F PROVE x <= y OBVIOUS
  <2>1. x \in Nat /\ y \in Nat /\ ~(y < x) BY <1>2, <1>3 DEF OpToRel
  <2>. QED BY <2>1
<1>5. NextAuto(w, r) = CHOOSE n \in F : \A m \in F : n <= m
  BY DEF NextAuto, Free
<1>6. (CHOOSE n \in F : \A m \in F : n <= m) \in F
      /\ \A m \in F : (CHOOSE n \in F : \A k \in F : n <= k) <= m
  <2> HIDE DEF F, R
  <2>. QED BY <1>3, <1>4
<1>. QED BY <1>5, <1>6

\* A sequence without repetitions stays one when something new is appended.
LEMMA AppendDistinct ==
  ASSUME NEW s, \E S : s \in Seq(S), NEW x, x \notin Range(s),
         \A i, j \in DOMAIN s : s[i] = s[j] => i = j
  PROVE  /\ \E S : Append(s, x) \in Seq(S)
         /\ \A i, j \in DOMAIN Append(s, x) : Append(s, x)[i] = Append(s, x)[j] => i = j
         /\ Range(Append(s, x)) = Range(s) \cup {x}
<1> DEFINE t == Append(s, x)
<1>1. PICK S : s \in Seq(S) OBVIOUS
<1>2. s \in Seq(S \cup {x}) /\ t \in Seq(S \cup {x}) BY <1>1
<1>3. DOMAIN s = 1..Len(s) /\ Len(s) \in Nat /\ DOMAIN t = 1..(Len(s) + 1) /\ t[Len(s) + 1] = x
      /\ \A i \in 1..Len(s) : t[i] = s[i]
  BY <1>2
<1> HIDE DEF t
<1>4. \A i \in 1..Len(s) : s[i] # x BY <1>3 DEF Range
<1>5. \A i, j \in DOMAIN t : t[i] = t[j] => i = j
  <2> SUFFICES ASSUME NEW i \in DOMAIN t, NEW j \in DOMAIN t, t[i] = t[j] PROVE i = j OBVIOUS
  <2>1. CASE i = Len(s) + 1 BY <1>3, <1>4, <2>1
  <2>2. CASE j = Len(s) + 1 BY <1>3, <1>4, <2>2
  <2>3. CASE i \in 1..Len(s) /\ j \in 1..Len(s) BY <1>3, <2>3
  <2>. QED BY <1>3, <2>1, <2>2, <2>3
<1>6. Range(t) = Range(s) \cup {x}
  <2>1. DOMAIN t = DOMAIN s \cup {Len(s) + 1} BY <1>3
  <2>. QED BY <1>3, <2>1 DEF Range
<1>. QED BY <1>2, <1>5, <1>6 DEF t

\* A spawn takes one free number at most.
LEMMA SpawnTakesOne ==
  ASSUME NEW w, NEW r, NEW q, NEW id, q.counter \in Nat, r.counter \in Nat,
         UsedIds(w, q) = UsedIds(w, r) \cup {id},
         \/ q.counter = r.counter
         \/ /\ q.counter \in Free(w, r) /\ id = AutoIds[q.counter]
            /\ \A m \in Free(w, r) : q.counter <= m
  PROVE  \E x : Free(w, r) \ {x} \subseteq Free(w, q)
<1>1. DOMAIN AutoIds = 1..Len(AutoIds) /\ Len(AutoIds) \in Nat
      /\ \A i, j \in DOMAIN AutoIds : AutoIds[i] = AutoIds[j] => i = j
  BY WorldAssumption
<1>2. CASE q.counter = r.counter
  <2>1. CASE \E x \in DOMAIN AutoIds : AutoIds[x] = id
    <3>1. PICK x \in DOMAIN AutoIds : AutoIds[x] = id BY <2>1
    <3>2. Free(w, r) \ {x} \subseteq Free(w, q) BY <1>1, <1>2, <3>1 DEF Free
    <3>. QED BY <3>2
  <2>2. CASE \A x \in DOMAIN AutoIds : AutoIds[x] # id
    <3>1. Free(w, r) \ {0} \subseteq Free(w, q) BY <1>2, <2>2 DEF Free
    <3>. QED BY <3>1
  <2>. QED BY <2>1, <2>2
<1>3. CASE /\ q.counter \in Free(w, r) /\ id = AutoIds[q.counter]
           /\ \A m \in Free(w, r) : q.counter <= m
  <2>1. ASSUME NEW m \in Free(w, r), m # q.counter PROVE m \in Free(w, q)
    <3>1. m \in DOMAIN AutoIds /\ q.counter \in DOMAIN AutoIds /\ q.counter <= m
          /\ AutoIds[m] \notin UsedIds(w, r)
      BY <1>3 DEF Free
    <3>2. q.counter < m BY <1>1, <2>1, <3>1
    <3>3. AutoIds[m] # id BY <1>1, <1>3, <2>1, <3>1
    <3>. QED BY <3>1, <3>2, <3>3 DEF Free
  <2>2. Free(w, r) \ {q.counter} \subseteq Free(w, q) BY <2>1
  <2>. QED BY <2>2
<1>. QED BY <1>2, <1>3

\* What an accepted spawn makes of the batch: an id that nobody has, the one asked
\* for or the next number's.
SpawnedAs(w, r, q, id) ==
  /\ ResolvedShape(q)
  /\ id \notin UsedIds(w, r)
  /\ q.spawned = Append(r.spawned, id) /\ q.despawned = r.despawned
  /\ q.exists = Append(r.exists, ExistRecord(w, id, TRUE))
  /\ \E S : q.spawned \in Seq(S)
  /\ \A i, j \in DOMAIN q.spawned : q.spawned[i] = q.spawned[j] => i = j
  /\ Range(q.spawned) = Range(r.spawned) \cup {id}
  /\ UsedIds(w, q) = UsedIds(w, r) \cup {id}
  /\ \/ q.counter = r.counter
     \/ /\ q.counter \in Free(w, r) /\ id = AutoIds[q.counter]
        /\ \A m \in Free(w, r) : q.counter <= m

LEMMA SpawnAccepted ==
  ASSUME NEW w, NEW r, NEW op, ResolvedShape(r), Given(w, r), Free(w, r) # {},
         ResolveSpawn(w, r, op).ok
  PROVE  \E id : SpawnedAs(w, r, ResolveSpawn(w, r, op), id)
<1> DEFINE n  == NextAuto(w, r)
           id == IF op.id = None THEN AutoIds[n] ELSE op.id
           c  == IF op.id = None THEN n ELSE r.counter
           q  == ResolveSpawn(w, r, op)
           refused == \/ op.id # None /\ op.id \in UsedIds(w, r)
                      \/ Misplaced(op)
                      \/ Overlaps(w, r, op.cell)
<1>1. ~refused
  <2>1. q = IF refused THEN [r EXCEPT !.ok = FALSE] ELSE q BY DEF ResolveSpawn
  <2>2. [r EXCEPT !.ok = FALSE].ok = FALSE BY DEF ResolvedShape
  <2> HIDE DEF q, refused
  <2>3. q.ok BY DEF q
  <2>. QED BY <2>1, <2>2, <2>3
<1>2. q = [r EXCEPT !.counter = c, !.exist = @ + 1, !.spawned = Append(@, id),
                    !.cell    = [@ EXCEPT ![id] = op.cell],
                    !.exists  = Append(@, ExistRecord(w, id, TRUE))]
  BY <1>1 DEF ResolveSpawn
<1>3. n \in Free(w, r) /\ \A m \in Free(w, r) : n <= m
  BY NextAutoIsFirst DEF Given
<1>4. id \notin UsedIds(w, r) BY <1>1, <1>3 DEF Free
<1>5. c = r.counter \/ (c = n /\ id = AutoIds[n]) OBVIOUS
<1> HIDE DEF q, n, c, id
<1>6. /\ ResolvedShape(q) /\ q.counter = c /\ q.spawned = Append(r.spawned, id)
      /\ q.despawned = r.despawned /\ q.exists = Append(r.exists, ExistRecord(w, id, TRUE))
  <2>1. PICK ok, cc, e, sp, de, ce, ex :
          r = [ok |-> ok, counter |-> cc, exist |-> e, spawned |-> sp, despawned |-> de,
               cell |-> ce, exists |-> ex]
    BY DEF ResolvedShape
  <2>2. q = [ok |-> ok, counter |-> c, exist |-> e + 1, spawned |-> Append(sp, id), despawned |-> de,
             cell |-> [ce EXCEPT ![id] = op.cell], exists |-> Append(ex, ExistRecord(w, id, TRUE))]
    BY <1>2, <2>1
  <2>. QED BY <2>1, <2>2 DEF ResolvedShape
<1>7. /\ \E S : q.spawned \in Seq(S)
      /\ \A i, j \in DOMAIN q.spawned : q.spawned[i] = q.spawned[j] => i = j
      /\ Range(q.spawned) = Range(r.spawned) \cup {id}
  <2>1. id \notin Range(r.spawned) BY <1>4 DEF UsedIds
  <2>2. PICK sp : sp = r.spawned OBVIOUS
  <2>3. /\ \E S : sp \in Seq(S)
        /\ \A i, j \in DOMAIN sp : sp[i] = sp[j] => i = j
    BY <2>2 DEF Given
  <2>4. /\ \E S : Append(sp, id) \in Seq(S)
        /\ \A i, j \in DOMAIN Append(sp, id) : Append(sp, id)[i] = Append(sp, id)[j] => i = j
        /\ Range(Append(sp, id)) = Range(sp) \cup {id}
    BY <2>1, <2>2, <2>3, AppendDistinct
  <2>5. q.spawned = Append(sp, id) BY <1>6, <2>2
  <2>. QED BY <2>2, <2>4, <2>5
<1>8. UsedIds(w, q) = UsedIds(w, r) \cup {id} BY <1>7 DEF UsedIds
<1>9. SpawnedAs(w, r, q, id) BY <1>3, <1>4, <1>5, <1>6, <1>7, <1>8 DEF SpawnedAs
<1>. QED BY <1>9 DEF q

\* An accepted spawn gives an id that nobody has; the numbers it passes over
\* are those of ids somebody has.
LEMMA SpawnGives ==
  ASSUME NEW w, NEW r, NEW op, ResolvedShape(r), Given(w, r), Free(w, r) # {},
         ResolveSpawn(w, r, op).ok
  PROVE  LET q == ResolveSpawn(w, r, op)
         IN  /\ ResolvedShape(q) /\ Given(w, q)
             /\ \E x : Free(w, r) \ {x} \subseteq Free(w, q)
<1> DEFINE q == ResolveSpawn(w, r, op)
<1>1. PICK id : SpawnedAs(w, r, q, id) BY SpawnAccepted
<1> HIDE DEF q
<1>2. DOMAIN AutoIds = 1..Len(AutoIds) /\ Len(AutoIds) \in Nat BY WorldAssumption
<1>3. Range(q.spawned) \cap w.input.actors = {} BY <1>1 DEF SpawnedAs, UsedIds, Given
<1>4. \A m \in DOMAIN AutoIds : m > r.counter /\ m \notin Free(w, r) => AutoIds[m] \in UsedIds(w, q)
  BY <1>1 DEF Free, SpawnedAs
<1>5. \A m \in 1..r.counter : AutoIds[m] \in UsedIds(w, q) BY <1>1 DEF Given, SpawnedAs
<1>6. q.counter \in 0..Len(AutoIds) /\ \A m \in 1..q.counter : AutoIds[m] \in UsedIds(w, q)
  <2>1. CASE q.counter = r.counter BY <1>5, <2>1 DEF Given
  <2>2. CASE /\ q.counter \in Free(w, r) /\ id = AutoIds[q.counter]
             /\ \A m \in Free(w, r) : q.counter <= m
    <3>1. q.counter \in 1..Len(AutoIds) /\ r.counter \in 0..Len(AutoIds) BY <1>2, <2>2 DEF Free, Given
    <3>2. AutoIds[q.counter] \in UsedIds(w, q) BY <1>1, <2>2 DEF SpawnedAs
    <3>3. ASSUME NEW m \in 1..q.counter, m > r.counter, m # q.counter
          PROVE  AutoIds[m] \in UsedIds(w, q)
      <4>1. m \in DOMAIN AutoIds /\ ~(q.counter <= m) BY <1>2, <3>1, <3>3
      <4>. QED BY <1>4, <2>2, <3>3, <4>1
    <3>4. \A m \in 1..q.counter : m > r.counter \/ m \in 1..r.counter BY <3>1
    <3>. QED BY <1>5, <3>1, <3>2, <3>3, <3>4
  <2>. QED BY <1>1, <2>1, <2>2 DEF SpawnedAs
<1>7. \E x : Free(w, r) \ {x} \subseteq Free(w, q)
  <2>1. q.counter \in Nat /\ r.counter \in Nat BY <1>6 DEF Given
  <2>2. UsedIds(w, q) = UsedIds(w, r) \cup {id} BY <1>1 DEF SpawnedAs
  <2>3. \/ q.counter = r.counter
        \/ /\ q.counter \in Free(w, r) /\ id = AutoIds[q.counter]
           /\ \A m \in Free(w, r) : q.counter <= m
    BY <1>1 DEF SpawnedAs
  <2>. QED BY <2>1, <2>2, <2>3, SpawnTakesOne
<1>8. Given(w, q) BY <1>1, <1>3, <1>6 DEF Given, SpawnedAs
<1>9. ResolvedShape(q) BY <1>1 DEF SpawnedAs
<1>. QED BY <1>7, <1>8, <1>9 DEF q

\* Taking one element away from a finite set leaves at most one less.
LEMMA OneLess ==
  ASSUME NEW F, NEW G, NEW x, IsFiniteSet(G), F \ {x} \subseteq G
  PROVE  IsFiniteSet(F) /\ Cardinality(F) - 1 <= Cardinality(G)
         /\ Cardinality(F) \in Nat /\ Cardinality(G) \in Nat
<1>1. IsFiniteSet(F \ {x}) /\ Cardinality(F \ {x}) <= Cardinality(G) /\ Cardinality(G) \in Nat
  BY FS_Subset, FS_CardinalityType
<1>2. CASE x \in F
  <2>1. F = (F \ {x}) \cup {x} BY <1>2
  <2>2. IsFiniteSet(F) /\ Cardinality(F) = Cardinality(F \ {x}) + 1
    BY <1>1, <2>1, FS_AddElement
  <2>3. Cardinality(F \ {x}) \in Nat BY <1>1, FS_CardinalityType
  <2>. QED BY <1>1, <2>2, <2>3
<1>3. CASE x \notin F
  <2>1. F = F \ {x} BY <1>3
  <2>2. Cardinality(F) \in Nat BY <1>1, <2>1, FS_CardinalityType
  <2>. QED BY <1>1, <2>1, <2>2
<1>. QED BY <1>2, <1>3

\* The free numbers and the spawns left are finitely many.
LEMMA CountsFinite ==
  ASSUME NEW w, NEW r, NEW ops, NEW k, NEW n \in Nat, DOMAIN ops = 1..n
  PROVE  /\ IsFiniteSet(Free(w, r)) /\ Cardinality(Free(w, r)) \in Nat
         /\ IsFiniteSet(SpawnsLeft(ops, k)) /\ Cardinality(SpawnsLeft(ops, k)) \in Nat
<1>1. DOMAIN AutoIds = 1..Len(AutoIds) /\ Len(AutoIds) \in Nat BY WorldAssumption
<1>2. Free(w, r) \subseteq 1..Len(AutoIds) BY <1>1 DEF Free
<1>3. SpawnsLeft(ops, k) \subseteq 1..n BY DEF SpawnsLeft
<1>4. IsFiniteSet(1..Len(AutoIds)) /\ IsFiniteSet(1..n) BY <1>1, FS_Interval
<1>. QED BY <1>2, <1>3, <1>4, FS_Subset, FS_CardinalityType

\* After k ops: what they gave is right, and numbers are left for the others.
RunsWell(w, ops, r, k) ==
  /\ ResolvedShape(r)
  /\ r.ok => /\ Given(w, r)
             /\ Cardinality(SpawnsLeft(ops, k)) <= Cardinality(Free(w, r))

\* One op more.
LEMMA OpRunsWell ==
  ASSUME NEW w, NEW ops, NEW n \in Nat, DOMAIN ops = 1..n, NEW k \in 1..n, NEW r,
         RunsWell(w, ops, r, k - 1)
  PROVE  RunsWell(w, ops, ResolveOp(w, r, ops[k]), k)
<1> DEFINE q == ResolveOp(w, r, ops[k])
           op == ops[k]
<1>1. SpawnsLeft(ops, k) \subseteq SpawnsLeft(ops, k - 1) /\ k \in Nat BY DEF SpawnsLeft
<1>2. /\ IsFiniteSet(SpawnsLeft(ops, k)) /\ Cardinality(SpawnsLeft(ops, k)) \in Nat
      /\ IsFiniteSet(SpawnsLeft(ops, k - 1)) /\ Cardinality(SpawnsLeft(ops, k - 1)) \in Nat
      /\ Cardinality(SpawnsLeft(ops, k)) <= Cardinality(SpawnsLeft(ops, k - 1))
  BY <1>1, CountsFinite, FS_Subset
<1>3. ResolvedShape(r) BY DEF RunsWell
<1>4. CASE ~r.ok
  <2>1. q = r BY <1>4 DEF ResolveOp
  <2>. QED BY <1>3, <1>4, <2>1 DEF RunsWell
<1>5. CASE r.ok /\ op.op = "spawn"
  <2>1. q = ResolveSpawn(w, r, op) BY <1>5 DEF ResolveOp
  <2>2. k \in SpawnsLeft(ops, k - 1) /\ SpawnsLeft(ops, k) = SpawnsLeft(ops, k - 1) \ {k}
    BY <1>1, <1>5 DEF SpawnsLeft
  <2>3. Cardinality(SpawnsLeft(ops, k)) = Cardinality(SpawnsLeft(ops, k - 1)) - 1
    BY <1>2, <2>2, FS_RemoveElement
  <2>4. Given(w, r) /\ Cardinality(SpawnsLeft(ops, k - 1)) <= Cardinality(Free(w, r))
    BY <1>5 DEF RunsWell
  <2>5. Free(w, r) # {}
    <3>1. SUFFICES ASSUME Free(w, r) = {} PROVE FALSE OBVIOUS
    <3>2. Cardinality(Free(w, r)) = 0 BY <3>1, FS_EmptySet
    <3>. QED BY <1>2, <2>3, <2>4, <3>2
  <2>6. CASE q.ok
    <3>1. ResolvedShape(q) /\ Given(w, q) /\ \E x : Free(w, r) \ {x} \subseteq Free(w, q)
      BY <1>3, <1>5, <2>1, <2>4, <2>5, <2>6, SpawnGives
    <3>2. PICK x : Free(w, r) \ {x} \subseteq Free(w, q) BY <3>1
    <3> HIDE DEF q
    <3>3. IsFiniteSet(Free(w, q)) BY CountsFinite
    <3>4. Cardinality(Free(w, r)) - 1 <= Cardinality(Free(w, q))
          /\ Cardinality(Free(w, r)) \in Nat /\ Cardinality(Free(w, q)) \in Nat
      BY <3>2, <3>3, OneLess
    <3>5. Cardinality(SpawnsLeft(ops, k)) <= Cardinality(Free(w, q))
      BY <1>2, <2>3, <2>4, <3>4
    <3>. QED BY <3>1, <3>5 DEF RunsWell, q
  <2>7. CASE ~q.ok
    <3>1. ResolvedShape(q) BY <1>3, <2>1 DEF ResolvedShape, ResolveSpawn
    <3>. QED BY <2>7, <3>1 DEF RunsWell
  <2>. QED BY <2>6, <2>7
<1>6. CASE r.ok /\ op.op # "spawn"
  <2>1. q = ResolveDespawn(w, r, op) BY <1>6 DEF ResolveOp
  <2>2. PICK ok, c, e, sp, de, ce, ex :
          r = [ok |-> ok, counter |-> c, exist |-> e, spawned |-> sp, despawned |-> de,
               cell |-> ce, exists |-> ex]
    BY <1>3 DEF ResolvedShape
  <2>3. ResolvedShape(q) /\ (q.ok => q.counter = r.counter /\ q.spawned = r.spawned)
    <3>1. CASE op.id \in (w.sim.present \cup Range(r.spawned)) \ r.despawned
      <4>1. q = [ok |-> ok, counter |-> c, exist |-> e + 1, spawned |-> sp, despawned |-> de \cup {op.id},
                 cell |-> ce, exists |-> Append(ex, ExistRecord(w, op.id, FALSE))]
        BY <2>1, <2>2, <3>1 DEF ResolveDespawn
      <4> HIDE DEF q
      <4>. QED BY <2>2, <4>1 DEF ResolvedShape
    <3>2. CASE op.id \notin (w.sim.present \cup Range(r.spawned)) \ r.despawned
      <4>1. q = [ok |-> FALSE, counter |-> c, exist |-> e, spawned |-> sp, despawned |-> de,
                 cell |-> ce, exists |-> ex]
        BY <2>1, <2>2, <3>2 DEF ResolveDespawn
      <4> HIDE DEF q
      <4>. QED BY <2>2, <4>1 DEF ResolvedShape
    <3>. QED BY <3>1, <3>2
  <2> HIDE DEF q
  <2>4. CASE q.ok
    <3>1. Given(w, r) /\ Cardinality(SpawnsLeft(ops, k - 1)) <= Cardinality(Free(w, r))
      BY <1>6 DEF RunsWell
    <3>2. UsedIds(w, q) = UsedIds(w, r) /\ Given(w, q) BY <2>3, <2>4, <3>1 DEF UsedIds, Given
    <3>3. Free(w, q) = Free(w, r) BY <2>3, <2>4, <3>2 DEF Free
    <3>4. Cardinality(Free(w, r)) \in Nat BY CountsFinite
    <3>5. Cardinality(SpawnsLeft(ops, k)) <= Cardinality(Free(w, q))
      BY <1>2, <3>1, <3>3, <3>4
    <3>. QED BY <2>3, <3>2, <3>5 DEF RunsWell, q
  <2>5. CASE ~q.ok
    BY <2>3, <2>5 DEF RunsWell, q
  <2>. QED BY <2>4, <2>5
<1>. QED BY <1>4, <1>5, <1>6

\* An accepted batch has given new and distinct ids, and passed no number over.
LEMMA ResolveGives ==
  ASSUME NEW w, NEW ops, NEW n \in Nat, DOMAIN ops = 1..n, Given(w, Unresolved(w)),
         Cardinality(SpawnsLeft(ops, 0)) <= Cardinality(Free(w, Unresolved(w))),
         Resolve(w, ops).ok
  PROVE  Given(w, Resolve(w, ops))
<1>1. ResolvedShape(Unresolved(w)) BY DEF ResolvedShape, Unresolved
<1>2. ops # <<>>
  <2>1. CASE ops = <<>>
    <3>1. Resolve(w, ops) = [Unresolved(w) EXCEPT !.ok = FALSE] BY <2>1 DEF Resolve
    <3>2. ~Resolve(w, ops).ok BY <1>1, <3>1 DEF ResolvedShape
    <3>. QED BY <3>2
  <2>. QED BY <2>1
<1>3. PICK g : /\ g[0] = Unresolved(w)
               /\ \A k \in 1..n : g[k] = ResolveOp(w, g[k - 1], ops[k])
               /\ Resolve(w, ops) = g[n]
  BY <1>2, ResolveRuns
<1> DEFINE S == {k \in Nat : k <= n => RunsWell(w, ops, g[k], k)}
<1>4. 0 \in S BY <1>1, <1>3 DEF RunsWell
<1>5. ASSUME NEW k \in Nat, k \in S PROVE k + 1 \in S
  <2>1. SUFFICES ASSUME k + 1 <= n PROVE RunsWell(w, ops, g[k + 1], k + 1)
    OBVIOUS
  <2>2. k + 1 \in 1..n /\ (k + 1) - 1 = k /\ RunsWell(w, ops, g[k], k) BY <1>5, <2>1
  <2>3. RunsWell(w, ops, g[(k + 1) - 1], (k + 1) - 1) BY <2>2
  <2>4. g[k + 1] = ResolveOp(w, g[(k + 1) - 1], ops[k + 1]) BY <1>3, <2>2
  <2> HIDE DEF S
  <2>. QED BY <2>2, <2>3, <2>4, OpRunsWell
<1> HIDE DEF S
<1>6. n \in S BY <1>4, <1>5, Induction
<1>7. RunsWell(w, ops, Resolve(w, ops), n) BY <1>3, <1>6 DEF S
<1>. QED BY <1>7 DEF RunsWell

-----------------------------------------------------------------------------
(* The ids of a log are those of the input.                                *)

Accepted(e) == e.kind = "command" /\ e.ok

Distinct(s) == \A i, j \in DOMAIN s : s[i] = s[j] => i = j

\* The ids a log has given are distinct; with the base actors they are the
\* actors of the input, and every number up to the counter is among them.
Ledger(actors, counter, log) ==
  /\ counter \in 0..Len(AutoIds)
  /\ \A m \in 1..counter : AutoIds[m] \in actors
  /\ \E S : log \in Seq(S)
  /\ actors = DOMAIN BaseCell \cup UNION {Range(log[k].ids) : k \in {k \in DOMAIN log : Accepted(log[k])}}
  /\ \A k \in DOMAIN log :
       Accepted(log[k]) => Distinct(log[k].ids) /\ Range(log[k].ids) \cap DOMAIN BaseCell = {}
  /\ \A k, l \in DOMAIN log :
       Accepted(log[k]) /\ Accepted(log[l]) /\ Range(log[k].ids) \cap Range(log[l].ids) # {} => k = l

\* An entry more: it gives new and distinct ids, or none.
LEMMA LedgerGrows ==
  ASSUME NEW actors, NEW counter, NEW log, Ledger(actors, counter, log), NEW e, NEW more, NEW c,
         \/ Accepted(e) /\ Distinct(e.ids) /\ Range(e.ids) \cap actors = {} /\ more = actors \cup Range(e.ids)
         \/ ~Accepted(e) /\ more = actors,
         c \in 0..Len(AutoIds), \A m \in 1..c : AutoIds[m] \in more
  PROVE  Ledger(more, c, Append(log, e))
<1> DEFINE t == Append(log, e)
           Given0(s) == UNION {Range(s[k].ids) : k \in {k \in DOMAIN s : Accepted(s[k])}}
<1>1. PICK S : log \in Seq(S) BY DEF Ledger
<1>2. log \in Seq(S \cup {e}) /\ t \in Seq(S \cup {e}) BY <1>1
<1>3. DOMAIN log = 1..Len(log) /\ Len(log) \in Nat /\ DOMAIN t = 1..(Len(log) + 1) /\ t[Len(log) + 1] = e
      /\ \A i \in 1..Len(log) : t[i] = log[i]
  BY <1>2
<1> HIDE DEF t
<1>4. DOMAIN t = DOMAIN log \cup {Len(log) + 1} /\ Len(log) + 1 \notin DOMAIN log
      /\ \A i \in DOMAIN log : t[i] = log[i]
  BY <1>3
<1> DEFINE z == Len(log) + 1
<1>5. t[z] = e /\ DOMAIN t = DOMAIN log \cup {z} /\ z \notin DOMAIN log BY <1>3, <1>4
<1> HIDE DEF z
<1>6. actors = DOMAIN BaseCell \cup Given0(log) BY DEF Ledger
<1>7. CASE ~Accepted(e) /\ more = actors
  <2>1. {k \in DOMAIN t : Accepted(t[k])} = {k \in DOMAIN log : Accepted(log[k])}
    BY <1>4, <1>5, <1>7
  <2>2. Given0(t) = Given0(log) BY <1>4, <2>1
  <2>3. more = DOMAIN BaseCell \cup Given0(t) BY <1>6, <1>7, <2>2
  <2>4. \A k \in DOMAIN t :
          Accepted(t[k]) => Distinct(t[k].ids) /\ Range(t[k].ids) \cap DOMAIN BaseCell = {}
    BY <1>4, <1>5, <1>7 DEF Ledger
  <2>5. \A k, l \in DOMAIN t :
          Accepted(t[k]) /\ Accepted(t[l]) /\ Range(t[k].ids) \cap Range(t[l].ids) # {} => k = l
    BY <1>4, <1>5, <1>7 DEF Ledger
  <2>. QED BY <1>2, <2>3, <2>4, <2>5 DEF Ledger, t
<1>8. CASE Accepted(e) /\ Distinct(e.ids) /\ Range(e.ids) \cap actors = {} /\ more = actors \cup Range(e.ids)
  <2>1. {k \in DOMAIN t : Accepted(t[k])} = {k \in DOMAIN log : Accepted(log[k])} \cup {z}
    BY <1>4, <1>5, <1>8
  <2>2. Given0(t) = Given0(log) \cup Range(e.ids)
    <3>1. ASSUME NEW x PROVE x \in Given0(t) <=> x \in Given0(log) \/ x \in Range(e.ids)
      <4>1. x \in Given0(t) <=> \E k \in DOMAIN t : Accepted(t[k]) /\ x \in Range(t[k].ids) OBVIOUS
      <4>2. x \in Given0(log) <=> \E k \in DOMAIN log : Accepted(log[k]) /\ x \in Range(log[k].ids) OBVIOUS
      <4> HIDE DEF Given0
      <4>. QED BY <1>4, <1>5, <1>8, <4>1, <4>2
    <3> HIDE DEF Given0
    <3>. QED BY <3>1
  <2>3. more = DOMAIN BaseCell \cup Given0(t) BY <1>6, <1>8, <2>2
  <2>4. \A k \in DOMAIN t :
          Accepted(t[k]) => Distinct(t[k].ids) /\ Range(t[k].ids) \cap DOMAIN BaseCell = {}
    BY <1>4, <1>5, <1>6, <1>8 DEF Ledger
  <2>5. ASSUME NEW k \in DOMAIN log, Accepted(log[k]) PROVE Range(log[k].ids) \cap Range(e.ids) = {}
    <3>1. Range(log[k].ids) \subseteq actors BY <1>6, <2>5
    <3>. QED BY <1>8, <3>1
  <2>6. \A k, l \in DOMAIN t :
          Accepted(t[k]) /\ Accepted(t[l]) /\ Range(t[k].ids) \cap Range(t[l].ids) # {} => k = l
    <3> SUFFICES ASSUME NEW k \in DOMAIN t, NEW l \in DOMAIN t, Accepted(t[k]), Accepted(t[l]),
                        Range(t[k].ids) \cap Range(t[l].ids) # {}
                 PROVE k = l
      OBVIOUS
    <3>1. CASE k = z /\ l # z
      <4>1. l \in DOMAIN log /\ t[l] = log[l] /\ t[k] = e BY <1>4, <1>5, <3>1
      <4>. QED BY <2>5, <4>1
    <3>2. CASE k # z /\ l = z
      <4>1. k \in DOMAIN log /\ t[k] = log[k] /\ t[l] = e BY <1>4, <1>5, <3>2
      <4>. QED BY <2>5, <4>1
    <3>3. CASE k # z /\ l # z
      <4>1. k \in DOMAIN log /\ t[k] = log[k] /\ l \in DOMAIN log /\ t[l] = log[l] BY <1>4, <1>5, <3>3
      <4>. QED BY <4>1 DEF Ledger
    <3>. QED BY <3>1, <3>2, <3>3
  <2>. QED BY <1>2, <2>3, <2>4, <2>6 DEF Ledger, t
<1>. QED BY <1>7, <1>8

\* A batch that was accepted, with ids left for its spawns.
Approved(ops) ==
  /\ \E n \in Nat : DOMAIN ops = 1..n
  /\ AutoIdsLeft(ops)
  /\ Resolve(World, ops).ok

LedgerInv ==
  /\ Ledger(input.actors, actor_counter, entries)
  /\ job.kind = "rebuild" => Approved(job.ops)
  /\ saved # NoCheckpoint => Ledger(saved.state[2].actors, saved.state[4], saved.state[8])

\* Before its first op, nothing is given and the numbers suffice.
LEMMA ApprovedStarts ==
  ASSUME Ledger(input.actors, actor_counter, entries), NEW ops, Approved(ops)
  PROVE  /\ Given(World, Unresolved(World))
         /\ Cardinality(SpawnsLeft(ops, 0)) <= Cardinality(Free(World, Unresolved(World)))
<1>1. PICK n \in Nat : DOMAIN ops = 1..n BY DEF Approved
<1> DEFINE w == World
           r == Unresolved(w)
<1>2. r.spawned = <<>> /\ r.counter = actor_counter /\ w.input = input /\ w.actor_counter = actor_counter
  BY DEF Unresolved, World
<1>3. Range(r.spawned) = {} /\ DOMAIN r.spawned = {} /\ r.spawned \in Seq({}) BY <1>2 DEF Range
<1>4. UsedIds(w, r) = input.actors BY <1>2, <1>3 DEF UsedIds
<1>5. Given(w, r) BY <1>2, <1>3, <1>4 DEF Given, Ledger
<1>6. Free(w, r) = {m \in DOMAIN AutoIds : m > actor_counter /\ AutoIds[m] \notin input.actors}
  BY <1>2, <1>4 DEF Free
<1>7. SpawnsLeft(ops, 0) = {k \in DOMAIN ops : ops[k].op = "spawn"}
  BY <1>1 DEF SpawnsLeft
<1>8. Cardinality(SpawnsLeft(ops, 0)) <= Cardinality(Free(w, r))
  BY <1>1, <1>2, <1>6, <1>7, CountsFinite DEF Approved, AutoIdsLeft
<1>. QED BY <1>5, <1>8

\* What an approved batch gives out.
LEMMA ApprovedGives ==
  ASSUME Ledger(input.actors, actor_counter, entries), NEW ops, Approved(ops)
  PROVE  Given(World, Resolve(World, ops))
<1>1. PICK n \in Nat : DOMAIN ops = 1..n BY DEF Approved
<1>2. Resolve(World, ops).ok BY DEF Approved
<1>. QED BY <1>1, <1>2, ApprovedStarts, ResolveGives

\* The ledger of a committed batch.
LEMMA CommitLedger ==
  ASSUME Ledger(input.actors, actor_counter, entries), NEW ops, Approved(ops),
         Commit(ops, Resolve(World, ops))
  PROVE  Ledger(input'.actors, actor_counter', entries')
<1> DEFINE r == Resolve(World, ops)
           e == CommandEntry(StructuralCommand(ops), TRUE, r.spawned)
           more == input.actors \cup Range(r.spawned)
<1>1. Given(World, r) BY ApprovedGives
<1>2. World.input = input BY DEF World
<1>3. input'.actors = more /\ actor_counter' = r.counter /\ entries' = Append(entries, e)
  BY <1>2 DEF Commit, Candidate, Log
<1>4. Accepted(e) /\ e.ids = r.spawned BY DEF Accepted, CommandEntry
<1> HIDE DEF r, e
<1>5. Distinct(e.ids) /\ Range(e.ids) \cap input.actors = {} /\ more = input.actors \cup Range(e.ids)
  BY <1>1, <1>2, <1>4 DEF Given, Distinct
<1>6. r.counter \in 0..Len(AutoIds) /\ \A m \in 1..r.counter : AutoIds[m] \in more
  BY <1>1, <1>2 DEF Given, UsedIds
<1> HIDE DEF more
<1>7. Ledger(more, r.counter, Append(entries, e))
  BY <1>4, <1>5, <1>6, LedgerGrows
<1>. QED BY <1>3, <1>7

\* The ledger when nothing is given.
LEMMA LogLedger ==
  ASSUME NEW e, Ledger(input.actors, actor_counter, entries), entries' = Append(entries, e),
         ~Accepted(e) \/ e.ids = <<>>, UNCHANGED <<input, actor_counter>>
  PROVE  Ledger(input'.actors, actor_counter', entries')
<1>1. CASE ~Accepted(e)
  <2>1. Ledger(input.actors, actor_counter, Append(entries, e))
    <3>1. actor_counter \in 0..Len(AutoIds) /\ \A m \in 1..actor_counter : AutoIds[m] \in input.actors
      BY DEF Ledger
    <3>. QED BY <1>1, <3>1, LedgerGrows
  <2>. QED BY <2>1
<1>2. CASE Accepted(e) /\ e.ids = <<>>
  <2>1. Range(e.ids) = {} /\ DOMAIN e.ids = {} BY <1>2 DEF Range
  <2>2. Distinct(e.ids) /\ Range(e.ids) \cap input.actors = {} /\ input.actors = input.actors \cup Range(e.ids)
    BY <2>1 DEF Distinct
  <2>3. actor_counter \in 0..Len(AutoIds) /\ \A m \in 1..actor_counter : AutoIds[m] \in input.actors
    BY DEF Ledger
  <2>4. Ledger(input.actors, actor_counter, Append(entries, e))
    BY <1>2, <2>2, <2>3, LedgerGrows
  <2>. QED BY <2>4
<1>. QED BY <1>1, <1>2

LEMMA InitLedgerInv == Init => LedgerInv
<1> SUFFICES ASSUME Init PROVE LedgerInv OBVIOUS
<1>1. input.actors = DOMAIN BaseCell /\ actor_counter = 0 /\ entries = <<>> BY DEF Init
<1>2. job.kind # "rebuild" /\ ~(saved # NoCheckpoint) BY DEF Init, Idle
<1>3. DOMAIN entries = {} /\ entries \in Seq({}) /\ 0 \in 0..Len(AutoIds) /\ 1..0 = {}
  BY <1>1, WorldAssumption
<1>4. {k \in DOMAIN entries : Accepted(entries[k])} = {} BY <1>3
<1>5. Ledger(input.actors, actor_counter, entries) BY <1>1, <1>3, <1>4 DEF Ledger
<1>. QED BY <1>2, <1>5 DEF LedgerInv

\* The ids of a batch in progress, while the input and the counters stay.
LEMMA ApprovedKept ==
  ASSUME NEW ops, Approved(ops), UNCHANGED <<sim, input, actor_counter, exist_counter>>
  PROVE  Approved(ops)'
<1>1. World' = World BY DEF World
<1>2. AutoIdsLeft(ops)' <=> AutoIdsLeft(ops) BY DEF AutoIdsLeft
<1>. QED BY <1>1, <1>2 DEF Approved

LEMMA BatchDomain ==
  ASSUME NEW ops \in Batches PROVE \E n \in Nat : DOMAIN ops = 1..n
<1>1. MaxBatch \in Nat BY WorldAssumption
<1>2. PICK n \in 0..MaxBatch : ops \in [1..n -> Ops] BY DEF Batches
<1>. QED BY <1>1, <1>2

LEMMA NextLedgerInv == IInv /\ LedgerInv /\ [Next]_vars => LedgerInv'
<1> SUFFICES ASSUME IInv, LedgerInv, [Next]_vars PROVE LedgerInv' OBVIOUS
<1> DEFINE L == Ledger(input.actors, actor_counter, entries)
           J == job.kind = "rebuild" => Approved(job.ops)
           C == saved # NoCheckpoint => Ledger(saved.state[2].actors, saved.state[4], saved.state[8])
<1>0. L /\ J /\ C BY DEF LedgerInv
<1>act. ASSUME NEW a, NEW action, Act(a, action) PROVE LedgerInv'
  <2> DEFINE e == CommandEntry(ActCommand(a, action), a \in input.actors, <<>>)
  <2>1. entries' = Append(entries, e) /\ UNCHANGED <<input, actor_counter, job, saved>> /\ job = Idle
    BY <1>act DEF Act, Log, Ready
  <2>2. e.ids = <<>> BY DEF CommandEntry
  <2> HIDE DEF e
  <2>3. L' BY <1>0, <2>1, <2>2, LogLedger
  <2>4. job'.kind # "rebuild" BY <2>1 DEF Idle
  <2>. QED BY <1>0, <2>1, <2>3, <2>4 DEF LedgerInv
<1>reject. ASSUME NEW ops \in Batches, RejectStructural(ops) PROVE LedgerInv'
  <2> DEFINE e == CommandEntry(StructuralCommand(ops), FALSE, <<>>)
  <2>1. entries' = Append(entries, e) /\ UNCHANGED <<input, actor_counter, job, saved>> /\ job = Idle
    BY <1>reject DEF RejectStructural, Log, StructuralReady, Ready
  <2>2. e.ids = <<>> BY DEF CommandEntry
  <2> HIDE DEF e
  <2>3. L' BY <1>0, <2>1, <2>2, LogLedger
  <2>4. job'.kind # "rebuild" BY <2>1 DEF Idle
  <2>. QED BY <1>0, <2>1, <2>3, <2>4 DEF LedgerInv
<1>live. ASSUME NEW ops \in Batches, CommitLive(ops) PROVE LedgerInv'
  <2>1. Approved(ops) /\ Commit(ops, Resolve(World, ops)) /\ job = Idle /\ UNCHANGED <<job, saved>>
    BY <1>live, BatchDomain DEF CommitLive, StructuralReady, Ready, Approved, Commit
  <2>2. L' BY <1>0, <2>1, CommitLedger
  <2>3. job'.kind # "rebuild" BY <2>1 DEF Idle
  <2>. QED BY <1>0, <2>1, <2>2, <2>3 DEF LedgerInv
<1>rebuild. ASSUME NEW ops \in Batches, BeginRebuild(ops) PROVE LedgerInv'
  <2>1. Approved(ops) /\ job'.ops = ops /\ UNCHANGED <<session, saved>>
    BY <1>rebuild, BatchDomain DEF BeginRebuild, StructuralReady, Ready, Approved
  <2>2. UNCHANGED <<sim, input, actor_counter, exist_counter, entries>> BY <2>1 DEF session
  <2>3. Approved(ops)' BY <2>1, <2>2, ApprovedKept
  <2>4. L' BY <1>0, <2>2
  <2>5. J'
    <3>1. Approved(job.ops)' BY <2>1, <2>3 DEF Approved, AutoIdsLeft, World
    <3>. QED BY <3>1
  <2>. QED BY <1>0, <2>1, <2>4, <2>5 DEF LedgerInv
<1>catchup. ASSUME CatchUp PROVE LedgerInv'
  <2>1. job'.ops = job.ops /\ job.kind = "rebuild" /\ UNCHANGED <<session, saved>>
    <3>1. PICK o, c, d, a : job = [kind |-> "rebuild", ops |-> o, cand |-> c, done |-> d, acts |-> a]
      BY <1>catchup DEF CatchUp, IInv, JobInv, Idle
    <3>. QED BY <1>catchup, <3>1 DEF CatchUp
  <2>2. UNCHANGED <<sim, input, actor_counter, exist_counter, entries>> BY <2>1 DEF session
  <2>3. PICK ops : ops = job.ops OBVIOUS
  <2>4. Approved(ops)' BY <1>0, <2>1, <2>2, <2>3, ApprovedKept
  <2>5. Approved(job.ops)' BY <2>1, <2>3, <2>4 DEF Approved, AutoIdsLeft, World
  <2>6. L' BY <1>0, <2>2
  <2>. QED BY <1>0, <2>1, <2>5, <2>6 DEF LedgerInv
<1>commit. ASSUME CommitClip PROVE LedgerInv'
  <2>1. Approved(job.ops) /\ Commit(job.ops, Resolve(World, job.ops)) /\ job' = Idle
    BY <1>0, <1>commit DEF CommitClip
  <2>2. PICK ops : ops = job.ops OBVIOUS
  <2>3. L' BY <1>0, <2>1, <2>2, CommitLedger
  <2>4. job'.kind # "rebuild" BY <2>1 DEF Idle
  <2>5. UNCHANGED saved BY <2>1 DEF Commit
  <2>. QED BY <1>0, <2>3, <2>4, <2>5 DEF LedgerInv
<1>begin. ASSUME NEW ticks, BeginAdvance(ticks) PROVE LedgerInv'
  <2>1. job'.kind # "rebuild" /\ UNCHANGED <<input, actor_counter, entries, saved>>
    BY <1>begin DEF BeginAdvance, session
  <2>. QED BY <1>0, <2>1 DEF LedgerInv
<1>tick. ASSUME AdvanceTick PROVE LedgerInv'
  <2>1. UNCHANGED <<input, actor_counter, entries, saved>> BY <1>tick DEF AdvanceTick
  <2>2. job'.kind # "rebuild"
    <3>1. PICK t, l, a : job = [kind |-> "advance", ticks |-> t, left |-> l, acts |-> a]
      BY <1>tick DEF AdvanceTick, IInv, JobInv, Idle
    <3>2. job' = [job EXCEPT !.left = @ - 1] BY <1>tick DEF AdvanceTick
    <3>. QED BY <3>1, <3>2
  <2>. QED BY <1>0, <2>1, <2>2 DEF LedgerInv
<1>end. ASSUME EndAdvance PROVE LedgerInv'
  <2>1. entries' = Append(entries, AdvanceEntry(job.ticks)) /\ job' = Idle
        /\ UNCHANGED <<input, actor_counter, saved>>
    BY <1>end DEF EndAdvance
  <2>2. ~Accepted(AdvanceEntry(job.ticks)) BY DEF Accepted, AdvanceEntry
  <2>3. PICK e : e = AdvanceEntry(job.ticks) OBVIOUS
  <2>4. L' BY <1>0, <2>1, <2>2, <2>3, LogLedger
  <2>5. job'.kind # "rebuild" BY <2>1 DEF Idle
  <2>. QED BY <1>0, <2>1, <2>4, <2>5 DEF LedgerInv
<1>checkpoint. ASSUME Checkpoint PROVE LedgerInv'
  <2>1. saved'.state = session /\ UNCHANGED <<session, job>> /\ job = Idle
    BY <1>checkpoint DEF Checkpoint
  <2>2. UNCHANGED <<input, actor_counter, entries>> BY <2>1 DEF session
  <2>3. saved'.state[2] = input /\ saved'.state[4] = actor_counter /\ saved'.state[8] = entries
    BY <2>1 DEF session
  <2>4. job'.kind # "rebuild" BY <2>1 DEF Idle
  <2>. QED BY <1>0, <2>2, <2>3, <2>4 DEF LedgerInv
<1>restore. ASSUME Restore PROVE LedgerInv'
  <2>1. input' = saved.state[2] /\ actor_counter' = saved.state[4] /\ entries' = saved.state[8]
        /\ saved # NoCheckpoint /\ saved' = NoCheckpoint /\ job = Idle /\ job' = job
    BY <1>restore DEF Restore, Resume
  <2>2. job'.kind # "rebuild" BY <2>1 DEF Idle
  <2>. QED BY <1>0, <2>1, <2>2 DEF LedgerInv
<1>stutter. CASE UNCHANGED vars
  <2>1. UNCHANGED <<sim, input, actor_counter, exist_counter, entries, job, saved>>
    BY <1>stutter DEF vars
  <2>. QED BY <1>0, <2>1 DEF LedgerInv, Approved, AutoIdsLeft, World
<1>. QED
  BY <1>act, <1>reject, <1>live, <1>rebuild, <1>catchup, <1>commit, <1>begin, <1>tick, <1>end,
     <1>checkpoint, <1>restore, <1>stutter DEF Next, Command

LEMMA SpecLedger == Spec => [](Ledger(input.actors, actor_counter, entries))
<1>1. LedgerInv => Ledger(input.actors, actor_counter, entries) BY DEF LedgerInv
<1>. QED BY <1>1, InitIInv, NextIInv, InitLedgerInv, NextLedgerInv, PTL DEF Spec

\* No id is ever given to two actors, through rejected batches, rebuilds and
\* restores (used_ids of apply_structural).
THEOREM IdsNeverReusedAlways == Spec => []IdsNeverReused
<1>1. Ledger(input.actors, actor_counter, entries) => IdsNeverReused
  BY DEF Ledger, Accepted, Distinct, IdsNeverReused, AcceptedIds
<1>. QED BY <1>1, SpecLedger, PTL

-----------------------------------------------------------------------------
(* The last exist interaction wins.  ExistVerdicts is a fold too.          *)

BeforeVerdicts(s) == [pending |-> s.present, events |-> s.events]

VerdictRec(s, i, crashed, ids, h, n) ==
  h = [t \in SUBSET (1..n) |->
         IF t = {} THEN BeforeVerdicts(s) ELSE Fire(s, i, crashed, h[t \ {Max(t)}], ids[Max(t)])]

\* The recursion that FoldLeft runs over the interactions has a solution.
LEMMA VerdictRecSolved ==
  ASSUME NEW s, NEW i, NEW crashed, NEW ids, NEW n \in Nat
  PROVE  \E h : VerdictRec(s, i, crashed, ids, h, n)
<1> DEFINE S == {k \in Nat : \E h : VerdictRec(s, i, crashed, ids, h, k)}
<1>1. 0 \in S
  <2> DEFINE h == [t \in SUBSET (1..0) |-> BeforeVerdicts(s)]
  <2>1. SUBSET (1..0) = {{}} OBVIOUS
  <2>2. VerdictRec(s, i, crashed, ids, h, 0) BY <2>1 DEF VerdictRec
  <2>. QED BY <2>2
<1>2. ASSUME NEW k \in Nat, k \in S PROVE k + 1 \in S
  <2>1. PICK h : VerdictRec(s, i, crashed, ids, h, k) BY <1>2
  <2> DEFINE g == [t \in SUBSET (1..(k + 1)) |->
                     IF t \subseteq 1..k THEN h[t]
                     ELSE Fire(s, i, crashed, h[t \ {k + 1}], ids[k + 1])]
             Rec(t) == IF t = {} THEN BeforeVerdicts(s)
                       ELSE Fire(s, i, crashed, g[t \ {Max(t)}], ids[Max(t)])
  <2>2. ASSUME NEW t \in SUBSET (1..(k + 1)) PROVE g[t] = Rec(t)
    <3>1. CASE t = {}
      <4>1. g[t] = h[t] /\ h[t] = BeforeVerdicts(s) BY <2>1, <3>1 DEF VerdictRec
      <4>. QED BY <3>1, <4>1
    <3>2. CASE t # {} /\ t \subseteq 1..k
      <4>1. Max(t) \in t BY <3>2, LastPosition
      <4> DEFINE u == t \ {Max(t)}
      <4>2. u \in SUBSET (1..k) /\ u \in SUBSET (1..(k + 1)) /\ t \in SUBSET (1..k) BY <3>2
      <4>3. h[t] = Fire(s, i, crashed, h[u], ids[Max(t)]) BY <2>1, <3>2, <4>2 DEF VerdictRec
      <4>4. g[t] = h[t] /\ g[u] = h[u] BY <3>2, <4>2
      <4> HIDE DEF g
      <4>. QED BY <3>2, <4>3, <4>4
    <3>3. CASE ~(t \subseteq 1..k)
      <4>1. k + 1 \in t /\ t # {} /\ t \subseteq 1..(k + 1) /\ k + 1 \in Nat BY <3>3
      <4>2. Max(t) \in t /\ \A y \in t : y <= Max(t)
        <5> HIDE DEF g, Rec, S
        <5>. QED BY <4>1, LastPosition
      <4>3. Max(t) = k + 1
        <5>1. Max(t) \in 1..(k + 1) /\ k + 1 <= Max(t) BY <4>1, <4>2
        <5>. QED BY <5>1
      <4> DEFINE u == t \ {k + 1}
      <4>4. u \in SUBSET (1..k) /\ u \in SUBSET (1..(k + 1)) OBVIOUS
      <4>5. g[t] = Fire(s, i, crashed, h[u], ids[k + 1]) /\ g[u] = h[u] BY <3>3, <4>4
      <4> HIDE DEF g
      <4>. QED BY <4>1, <4>3, <4>5
    <3>. QED BY <3>1, <3>2, <3>3
  <2>3. g = [t \in SUBSET (1..(k + 1)) |-> Rec(t)] BY <2>2
  <2>4. VerdictRec(s, i, crashed, ids, g, k + 1) BY <2>3 DEF VerdictRec
  <2> HIDE DEF g
  <2>. QED BY <2>4
<1> HIDE DEF S
<1>3. n \in S BY <1>1, <1>2, Induction
<1>. QED BY <1>3 DEF S

\* The list of an engine, whose places IdOrder puts in the order of the ids.
Listed(s, n) ==
  /\ n \in Nat /\ DOMAIN s.exists = 1..n /\ n = Len(s.exists)
  /\ DOMAIN IdOrder(n) = 1..n
  /\ \A k \in 1..n : IdOrder(n)[k] \in 1..n
  /\ \A m \in 1..n : \E k \in 1..n : IdOrder(n)[k] = m
  /\ \A j, k \in 1..n : j < k => IdBefore(IdOrder(n)[j], IdOrder(n)[k])

LEMMA ScriptSize == Len(Script) \in Nat /\ ScriptBefore \in Nat /\ ScriptBefore <= Len(Script)
<1>1. Script \in Seq([actor: DOMAIN BaseCell, at: Nat, state: BOOLEAN]) BY WorldAssumption
<1>2. Len(Script) \in Nat BY <1>1
<1>. QED BY <1>2, WorldAssumption

\* The ids are in order, and every interaction has one.
LEMMA IdOrderLists ==
  ASSUME NEW s, NEW n \in Nat, DOMAIN s.exists = 1..n, n = Len(s.exists), Len(Script) <= n
  PROVE  Listed(s, n)
<1>0. PICK b, c \in Nat : b = ScriptBefore /\ c = Len(Script) /\ b <= c /\ c <= n BY ScriptSize
<1> DEFINE o == IdOrder(n)
<1>1. o = [k \in 1..n |-> IF k <= b THEN k
                          ELSE IF k <= n - (c - b) THEN k + (c - b) ELSE k - (n - c)]
  BY <1>0 DEF IdOrder
<1>2. \A k \in 1..n : o[k] = IF k <= b THEN k
                             ELSE IF k <= n - (c - b) THEN k + (c - b) ELSE k - (n - c)
  BY <1>1
<1>3. DOMAIN o = 1..n BY <1>1
<1> HIDE DEF o
<1>4. ASSUME NEW k \in 1..n PROVE o[k] \in 1..n
  <2>1. CASE k <= b BY <1>2, <2>1
  <2>2. CASE ~(k <= b) /\ k <= n - (c - b)
    <3>1. o[k] = k + (c - b) BY <1>2, <2>2
    <3>. QED BY <1>0, <2>2, <3>1
  <2>3. CASE ~(k <= b) /\ ~(k <= n - (c - b))
    <3>1. o[k] = k - (n - c) BY <1>2, <2>3
    <3>. QED BY <1>0, <2>3, <3>1
  <2>. QED BY <2>1, <2>2, <2>3
<1>5. ASSUME NEW m \in 1..n PROVE \E k \in 1..n : o[k] = m
  <2>1. CASE m <= b BY <1>2, <2>1
  <2>2. CASE ~(m <= b) /\ m <= c
    <3>1. PICK k : k = m + (n - c) OBVIOUS
    <3>2. k \in 1..n /\ ~(k <= b) /\ ~(k <= n - (c - b)) /\ k - (n - c) = m BY <1>0, <2>2, <3>1
    <3>. QED BY <1>2, <3>2
  <2>3. CASE ~(m <= c)
    <3>1. PICK k : k = m - (c - b) OBVIOUS
    <3>2. k \in 1..n /\ ~(k <= b) /\ k <= n - (c - b) /\ k + (c - b) = m BY <1>0, <2>3, <3>1
    <3>. QED BY <1>2, <3>2
  <2>. QED BY <1>0, <2>1, <2>2, <2>3
<1>6. ASSUME NEW j \in 1..n, NEW k \in 1..n, j < k PROVE IdBefore(o[j], o[k])
  <2>1. o[j] = (IF j <= b THEN j ELSE IF j <= n - (c - b) THEN j + (c - b) ELSE j - (n - c))
        /\ o[k] = (IF k <= b THEN k ELSE IF k <= n - (c - b) THEN k + (c - b) ELSE k - (n - c))
    BY <1>2
  <2>2. PICK p, q : p = o[j] /\ q = o[k] OBVIOUS
  <2>d. c - b \in Nat /\ n - c \in Nat BY <1>0
  <2>3. PICK d, e \in Nat : d = c - b /\ e = n - c BY <2>d
  <2>4. p \in Nat /\ q \in Nat BY <1>4, <2>2
  <2>5. /\ n = b + d + e /\ c = b + d
        /\ p = (IF j <= b THEN j ELSE IF j <= b + e THEN j + d ELSE j - e)
        /\ q = (IF k <= b THEN k ELSE IF k <= b + e THEN k + d ELSE k - e)
    <3>1. n = b + d + e /\ c = b + d /\ n - (c - b) = b + e /\ c - b = d /\ n - c = e BY <1>0, <2>3
    <3>. QED BY <2>1, <2>2, <3>1
  <2>6. \/ p <= b /\ p < q
        \/ p > c /\ ((q > c /\ p < q) \/ (q > b /\ q <= c))
        \/ p > b /\ p <= c /\ q > b /\ q <= c /\ p < q
    <3>1. CASE j <= b
      <4>1. p = j /\ p <= b BY <2>5, <3>1
      <4>2. q = k \/ q > b BY <2>5
      <4>. QED BY <1>0, <1>6, <2>4, <4>1, <4>2
    <3>2. CASE ~(j <= b) /\ j <= b + e
      <4>1. p = j + d /\ p > c BY <2>5, <3>2
      <4>2. CASE k <= b + e
        <5>1. q = k + d BY <1>6, <2>5, <3>2, <4>2
        <5>. QED BY <1>6, <2>5, <4>1, <5>1
      <4>3. CASE ~(k <= b + e)
        <5>1. q = k - e BY <2>5, <4>3
        <5>. QED BY <2>5, <4>1, <4>3, <5>1
      <4>. QED BY <4>2, <4>3
    <3>3. CASE ~(j <= b) /\ ~(j <= b + e)
      <4>1. p = j - e /\ q = k - e BY <1>6, <2>5, <3>3
      <4>. QED BY <1>6, <2>5, <3>3, <4>1
    <3>. QED BY <3>1, <3>2, <3>3
  <2>7. IdBefore(p, q) BY <1>0, <2>4, <2>6 DEF IdBefore
  <2>. QED BY <2>2, <2>7
<1>. QED BY <1>3, <1>4, <1>5, <1>6 DEF Listed, o

\* No two ids are each before the other.
LEMMA IdsApart ==
  ASSUME NEW k \in Nat, NEW l \in Nat, IdBefore(k, l)
  PROVE  ~IdBefore(l, k)
BY DEF IdBefore

\* In the script the ids are as the places.
LEMMA ScriptOrdered ==
  ASSUME NEW k \in Nat, NEW l \in Nat, k <= Len(Script), l <= Len(Script), IdBefore(k, l)
  PROVE  k < l
BY ScriptSize DEF IdBefore

\* g holds what the first k of the n interactions, by id, make of the presence.
VerdictSteps(s, i, crashed, n, g) ==
  /\ g[0] = BeforeVerdicts(s)
  /\ \A k \in 1..n : g[k] = Fire(s, i, crashed, g[k - 1], IdOrder(n)[k])
  /\ ExistVerdicts(s, i, crashed) = g[n]

\* ExistVerdicts takes the interactions one after the other.
LEMMA VerdictsRun ==
  ASSUME NEW s, NEW i, NEW crashed, NEW n, Listed(s, n)
  PROVE  \E g : VerdictSteps(s, i, crashed, n, g)
<1> DEFINE ids == IdOrder(Len(s.exists))
<1>0. DOMAIN ids = 1..n /\ n \in Nat /\ ids = IdOrder(n) BY DEF Listed
<1> DEFINE h == CHOOSE f : VerdictRec(s, i, crashed, ids, f, n)
<1> HIDE DEF ids
<1>1. VerdictRec(s, i, crashed, ids, h, n) BY <1>0, VerdictRecSolved
<1>2. ExistVerdicts(s, i, crashed) = h[1..n]
  <2> DEFINE Step(st, k) == Fire(s, i, crashed, st, k)
  <2>1. ExistVerdicts(s, i, crashed) = FoldLeft(Step, BeforeVerdicts(s), ids)
    BY DEF ExistVerdicts, BeforeVerdicts, ids
  <2>2. FoldLeft(Step, BeforeVerdicts(s), ids) = h[1..n]
    BY <1>0 DEF FoldLeft, MapThenFoldSet, VerdictRec
  <2>. QED BY <2>1, <2>2
<1> HIDE DEF h
<1> DEFINE g == [k \in 0..n |-> h[1..k]]
<1>3. g[0] = BeforeVerdicts(s)
  <2>1. 1..0 = {} /\ 1..0 \in SUBSET (1..n) OBVIOUS
  <2>2. h[1..0] = BeforeVerdicts(s) BY <1>1, <2>1 DEF VerdictRec
  <2>. QED BY <1>0, <2>2
<1>4. ASSUME NEW k \in 1..n PROVE g[k] = Fire(s, i, crashed, g[k - 1], ids[k])
  <2>1. 1..k \in SUBSET (1..n) /\ 1..k # {} /\ k \in Nat
    <3> HIDE DEF g
    <3>1. k \in Nat /\ k <= n /\ k \in 1..k BY <1>0
    <3>2. 1..k \subseteq 1..n BY <1>0, <3>1
    <3>. QED BY <3>1, <3>2
  <2>2. Max(1..k) \in 1..k /\ \A y \in 1..k : y <= Max(1..k) BY <2>1, LastPosition
  <2>3. Max(1..k) = k BY <2>1, <2>2
  <2>4. (1..k) \ {k} = 1..(k - 1) BY <2>1
  <2>5. h[1..k] = Fire(s, i, crashed, h[1..(k - 1)], ids[k])
    <3> HIDE DEF g
    <3>1. h[1..k] = Fire(s, i, crashed, h[(1..k) \ {Max(1..k)}], ids[Max(1..k)])
      BY <1>1, <2>1 DEF VerdictRec
    <3>. QED BY <2>3, <2>4, <3>1
  <2>6. g[k] = h[1..k] /\ g[k - 1] = h[1..(k - 1)] BY <1>0
  <2>. QED BY <2>5, <2>6
<1>5. g[n] = h[1..n] BY <1>0
<1> HIDE DEF g
<1>. QED BY <1>0, <1>2, <1>3, <1>4, <1>5 DEF VerdictSteps

\* A list of exist interactions of the actors A, with the script in it.
WellFormed(x, A) ==
  /\ \E S : x \in Seq(S)
  /\ Len(Script) <= Len(x)
  /\ \A k \in DOMAIN x : x[k].actor \in A /\ x[k].at \in Nat /\ x[k].state \in BOOLEAN

LEMMA WellFormedListed ==
  ASSUME NEW s, NEW A, WellFormed(s.exists, A)
  PROVE  Listed(s, Len(s.exists))
<1>1. PICK n : n = Len(s.exists) OBVIOUS
<1>2. n \in Nat /\ DOMAIN s.exists = 1..n /\ Len(Script) <= n BY <1>1 DEF WellFormed
<1>3. Listed(s, n) BY <1>1, <1>2, IdOrderLists
<1>. QED BY <1>1, <1>3

\* The first k interactions in id order.
Foremost(n, k) == {IdOrder(n)[j] : j \in 1..k}

LEMMA ForemostGrows ==
  ASSUME NEW s, NEW n, Listed(s, n), NEW k \in Nat, k + 1 <= n
  PROVE  /\ Foremost(n, k + 1) = Foremost(n, k) \cup {IdOrder(n)[k + 1]}
         /\ \A l \in Foremost(n, k) : l \in 1..n /\ IdBefore(l, IdOrder(n)[k + 1])
<1>0. n \in Nat BY DEF Listed
<1>1. 1..(k + 1) = (1..k) \cup {k + 1} OBVIOUS
<1>2. Foremost(n, k + 1) = Foremost(n, k) \cup {IdOrder(n)[k + 1]} BY <1>1 DEF Foremost
<1>3. ASSUME NEW l \in Foremost(n, k) PROVE l \in 1..n /\ IdBefore(l, IdOrder(n)[k + 1])
  <2>1. PICK j \in 1..k : l = IdOrder(n)[j] BY DEF Foremost
  <2>2. j \in 1..n /\ k + 1 \in 1..n /\ j < k + 1 BY <1>0
  <2>. QED BY <2>1, <2>2 DEF Listed
<1>. QED BY <1>2, <1>3

LEMMA ForemostAll ==
  ASSUME NEW s, NEW n, Listed(s, n)
  PROVE  Foremost(n, n) = DOMAIN s.exists /\ Foremost(n, 0) = {}
<1>1. 1..0 = {} OBVIOUS
<1>2. Foremost(n, n) = 1..n BY DEF Foremost, Listed
<1>3. Foremost(n, 0) = {} BY <1>1 DEF Foremost
<1>. QED BY <1>2, <1>3 DEF Listed

\* The interactions of a in F that come due.
DueOf(s, i, a, F) == {m \in DueAt(s, i) : m \in F /\ s.exists[m].actor = a}

\* What the interactions F make of the presence of a: the one with the last id decides.
Verdict(s, i, st, F, a) ==
  \/ DueOf(s, i, a, F) = {} /\ (a \in st.pending <=> a \in s.present)
  \/ \E m \in DueOf(s, i, a, F) :
       /\ \A l \in DueOf(s, i, a, F) : l = m \/ IdBefore(l, m)
       /\ a \in st.pending <=> s.exists[m].state = TRUE

\* One interaction more.
LEMMA FireDecides ==
  ASSUME NEW s, NEW i, NEW crashed, NEW F, NEW k, \A l \in F : IdBefore(l, k), NEW st,
         s.exists[k].state \in BOOLEAN, NEW a, a \notin crashed, Verdict(s, i, st, F, a)
  PROVE  Verdict(s, i, Fire(s, i, crashed, st, k), F \cup {k}, a)
<1> DEFINE q == Fire(s, i, crashed, st, k)
           x == s.exists[k]
           G == F \cup {k}
<1>1. CASE k \in DueAt(s, i) /\ x.actor = a
  <2>1. k \in DueOf(s, i, a, G) /\ \A l \in DueOf(s, i, a, G) : l = k \/ IdBefore(l, k) BY <1>1 DEF DueOf
  <2>2. q = ApplyExist(st, x, i) BY <1>1 DEF Fire
  <2>3. a \in q.pending <=> x.state = TRUE
    <3>1. CASE x.state = TRUE
      <4>1. CASE a \in st.pending
        <5>1. q = st BY <1>1, <2>2, <3>1, <4>1 DEF ApplyExist
        <5>. QED BY <3>1, <4>1, <5>1
      <4>2. CASE a \notin st.pending
        <5>1. q.pending = st.pending \cup {a} BY <1>1, <2>2, <3>1, <4>2 DEF ApplyExist
        <5>. QED BY <3>1, <5>1
      <4>. QED BY <4>1, <4>2
    <3>2. CASE x.state = FALSE
      <4>1. CASE a \notin st.pending
        <5>1. q = st BY <1>1, <2>2, <3>2, <4>1 DEF ApplyExist
        <5>. QED BY <3>2, <4>1, <5>1
      <4>2. CASE a \in st.pending
        <5>1. q.pending = st.pending \ {a} BY <1>1, <2>2, <3>2, <4>2 DEF ApplyExist
        <5>. QED BY <3>2, <5>1
      <4>. QED BY <4>1, <4>2
    <3>. QED BY <3>1, <3>2
  <2> HIDE DEF q, G
  <2>. QED BY <2>1, <2>3 DEF Verdict, q, G
<1>2. CASE ~(k \in DueAt(s, i) /\ x.actor = a)
  <2>1. DueOf(s, i, a, G) = DueOf(s, i, a, F) BY <1>2 DEF DueOf
  <2>2. a \in q.pending <=> a \in st.pending
    <3>1. CASE k \notin DueAt(s, i) \/ x.actor \in crashed BY <3>1 DEF Fire
    <3>2. CASE k \in DueAt(s, i) /\ x.actor \notin crashed
      <4>1. x.actor # a /\ q = ApplyExist(st, x, i) BY <1>2, <3>2 DEF Fire
      <4>2. q = st \/ q.pending = st.pending \cup {x.actor} \/ q.pending = st.pending \ {x.actor}
        BY <4>1 DEF ApplyExist
      <4> HIDE DEF q, x
      <4>. QED BY <4>1, <4>2
    <3>. QED BY <3>1, <3>2
  <2> HIDE DEF q, G
  <2>. QED BY <2>1, <2>2 DEF Verdict, q, G
<1>. QED BY <1>1, <1>2

\* Of the interactions of an actor that come due together the last one decides.
LEMMA VerdictsDecide ==
  ASSUME NEW s, NEW i, NEW crashed, NEW A, WellFormed(s.exists, A), NEW a, a \notin crashed
  PROVE  Verdict(s, i, ExistVerdicts(s, i, crashed), DOMAIN s.exists, a)
<1>0. PICK n : n = Len(s.exists) /\ Listed(s, n) BY WellFormedListed
<1>n. n \in Nat /\ DOMAIN s.exists = 1..n /\ \A k \in 1..n : IdOrder(n)[k] \in 1..n BY <1>0 DEF Listed
<1>1s. PICK g : VerdictSteps(s, i, crashed, n, g) BY <1>0, VerdictsRun
<1>1. /\ g[0] = BeforeVerdicts(s)
      /\ \A k \in 1..n : g[k] = Fire(s, i, crashed, g[k - 1], IdOrder(n)[k])
      /\ ExistVerdicts(s, i, crashed) = g[n]
  BY ONLY <1>1s DEF VerdictSteps
<1>f. Foremost(n, n) = DOMAIN s.exists /\ Foremost(n, 0) = {} BY <1>0, ForemostAll
<1> DEFINE S == {k \in Nat : k <= n => Verdict(s, i, g[k], Foremost(n, k), a)}
<1>2. 0 \in S
  <2>1. DueOf(s, i, a, {}) = {} BY DEF DueOf
  <2>2. g[0].pending = s.present BY <1>1 DEF BeforeVerdicts
  <2>. QED BY <1>f, <2>1, <2>2 DEF Verdict
<1>3. ASSUME NEW k \in Nat, k \in S PROVE k + 1 \in S
  <2>1. SUFFICES ASSUME k + 1 <= n PROVE Verdict(s, i, g[k + 1], Foremost(n, k + 1), a) OBVIOUS
  <2>2. k + 1 \in 1..n /\ (k + 1) - 1 = k /\ Verdict(s, i, g[k], Foremost(n, k), a) BY <1>n, <1>3, <2>1
  <2>3. PICK F, m, st : F = Foremost(n, k) /\ m = IdOrder(n)[k + 1] /\ st = g[k] OBVIOUS
  <2>4. Foremost(n, k + 1) = F \cup {m} /\ \A l \in F : IdBefore(l, m)
    BY <1>0, <2>1, <2>3, ForemostGrows
  <2>5. g[k + 1] = Fire(s, i, crashed, st, m) /\ s.exists[m].state \in BOOLEAN
    BY <1>n, <1>1, <2>2, <2>3 DEF WellFormed
  <2> HIDE DEF S
  <2>6. Verdict(s, i, st, F, a) BY <2>2, <2>3
  <2>. QED BY <2>4, <2>5, <2>6, FireDecides
<1> HIDE DEF S
<1>4. n \in S BY <1>n, <1>2, <1>3, Induction
<1>. QED BY <1>n, <1>f, <1>1, <1>4 DEF S

\* A crashed actor is left as it was.
LEMMA VerdictsSpare ==
  ASSUME NEW s, NEW i, NEW crashed, NEW A, WellFormed(s.exists, A), NEW a, a \in crashed
  PROVE  a \in ExistVerdicts(s, i, crashed).pending <=> a \in s.present
<1>0. PICK n : n = Len(s.exists) /\ Listed(s, n) BY WellFormedListed
<1>n. n \in Nat BY <1>0 DEF Listed
<1>1s. PICK g : VerdictSteps(s, i, crashed, n, g) BY <1>0, VerdictsRun
<1>1. /\ g[0] = BeforeVerdicts(s)
      /\ \A k \in 1..n : g[k] = Fire(s, i, crashed, g[k - 1], IdOrder(n)[k])
      /\ ExistVerdicts(s, i, crashed) = g[n]
  BY ONLY <1>1s DEF VerdictSteps
<1> DEFINE S == {k \in Nat : k <= n => (a \in g[k].pending <=> a \in s.present)}
<1>2. 0 \in S BY <1>1 DEF BeforeVerdicts
<1>3. ASSUME NEW k \in Nat, k \in S PROVE k + 1 \in S
  <2>1. SUFFICES ASSUME k + 1 <= n PROVE a \in g[k + 1].pending <=> a \in s.present OBVIOUS
  <2>2. k + 1 \in 1..n /\ (k + 1) - 1 = k /\ (a \in g[k].pending <=> a \in s.present)
    BY <1>n, <1>3, <2>1
  <2>3. PICK m, st, q : m = IdOrder(n)[k + 1] /\ st = g[k] /\ q = g[k + 1] OBVIOUS
  <2>4. q = Fire(s, i, crashed, st, m) BY <1>1, <2>2, <2>3
  <2> HIDE DEF S
  <2>5. PICK x : x = s.exists[m] OBVIOUS
  <2>6. q = st \/ (x.actor # a /\ q = ApplyExist(st, x, i)) BY <2>4, <2>5 DEF Fire
  <2>7. q = st \/ (x.actor # a /\ (q.pending = st.pending \cup {x.actor}
                                   \/ q.pending = st.pending \ {x.actor}))
    BY <2>6 DEF ApplyExist
  <2>. QED BY <2>2, <2>3, <2>7
<1> HIDE DEF S
<1>4. n \in S BY <1>n, <1>2, <1>3, Induction
<1>. QED BY <1>n, <1>1, <1>4 DEF S

\* Two engines in which the same interactions of an actor come due.
LEMMA VerdictsAgree ==
  ASSUME NEW s, NEW z, NEW A, NEW B, WellFormed(s.exists, A), WellFormed(z.exists, B), NEW i,
         NEW crashed, NEW a, a \in z.present <=> a \in s.present,
         DueOf(z, i, a, DOMAIN z.exists) = DueOf(s, i, a, DOMAIN s.exists),
         \A m \in DueOf(s, i, a, DOMAIN s.exists) : z.exists[m] = s.exists[m]
  PROVE  a \in ExistVerdicts(z, i, crashed).pending <=> a \in ExistVerdicts(s, i, crashed).pending
<1>1. CASE a \in crashed BY <1>1, VerdictsSpare
<1>2. CASE a \notin crashed
  <2>1. PICK p, q : p = ExistVerdicts(s, i, crashed) /\ q = ExistVerdicts(z, i, crashed) OBVIOUS
  <2>2. Verdict(s, i, p, DOMAIN s.exists, a) /\ Verdict(z, i, q, DOMAIN z.exists, a)
    BY <1>2, <2>1, VerdictsDecide
  <2>3. PICK D : D = DueOf(s, i, a, DOMAIN s.exists) /\ D = DueOf(z, i, a, DOMAIN z.exists) OBVIOUS
  <2>4. D \subseteq Nat
    <3>1. DOMAIN s.exists \subseteq Nat BY DEF WellFormed
    <3>. QED BY <2>3, <3>1 DEF DueOf
  <2>5. CASE D = {} BY <2>1, <2>2, <2>3, <2>5 DEF Verdict
  <2>6. CASE D # {}
    <3>1. PICK m \in D : (\A l \in D : l = m \/ IdBefore(l, m))
                         /\ (a \in p.pending <=> s.exists[m].state = TRUE)
      BY <2>2, <2>3, <2>6 DEF Verdict
    <3>2. PICK l \in D : (\A k \in D : k = l \/ IdBefore(k, l))
                         /\ (a \in q.pending <=> z.exists[l].state = TRUE)
      BY <2>2, <2>3, <2>6 DEF Verdict
    <3>3. l = m BY <2>4, <3>1, <3>2, IdsApart
    <3>4. z.exists[m] = s.exists[m] BY <2>3
    <3>. QED BY <2>1, <3>1, <3>2, <3>3, <3>4
  <2>. QED BY <2>5, <2>6
<1>. QED BY <1>1, <1>2

\* Verdicts concern only actors that are present or interacted with.
LEMMA VerdictsWithin ==
  ASSUME NEW s, NEW i, NEW crashed, NEW A, WellFormed(s.exists, A), s.present \subseteq A
  PROVE  ExistVerdicts(s, i, crashed).pending \subseteq A
<1>0. PICK n : n = Len(s.exists) /\ Listed(s, n) BY WellFormedListed
<1>n. n \in Nat /\ DOMAIN s.exists = 1..n /\ \A k \in 1..n : IdOrder(n)[k] \in 1..n BY <1>0 DEF Listed
<1>1s. PICK g : VerdictSteps(s, i, crashed, n, g) BY <1>0, VerdictsRun
<1>1. /\ g[0] = BeforeVerdicts(s)
      /\ \A k \in 1..n : g[k] = Fire(s, i, crashed, g[k - 1], IdOrder(n)[k])
      /\ ExistVerdicts(s, i, crashed) = g[n]
  BY ONLY <1>1s DEF VerdictSteps
<1> DEFINE S == {k \in Nat : k <= n => g[k].pending \subseteq A}
<1>2. 0 \in S BY <1>1 DEF BeforeVerdicts
<1>3. ASSUME NEW k \in Nat, k \in S PROVE k + 1 \in S
  <2>1. SUFFICES ASSUME k + 1 <= n PROVE g[k + 1].pending \subseteq A OBVIOUS
  <2>2. k + 1 \in 1..n /\ (k + 1) - 1 = k /\ g[k].pending \subseteq A BY <1>n, <1>3, <2>1
  <2>3. PICK m : m = IdOrder(n)[k + 1] OBVIOUS
  <2>4. g[k + 1] = Fire(s, i, crashed, g[k], m) BY <1>1, <2>2, <2>3
  <2>5. s.exists[m].actor \in A BY <1>n, <2>2, <2>3 DEF WellFormed
  <2>6. \/ g[k + 1] = g[k]
        \/ g[k + 1].pending = g[k].pending \cup {s.exists[m].actor}
        \/ g[k + 1].pending = g[k].pending \ {s.exists[m].actor}
    BY <2>4 DEF Fire, ApplyExist
  <2> HIDE DEF S
  <2>. QED BY <2>2, <2>5, <2>6
<1> HIDE DEF S
<1>4. n \in S BY <1>n, <1>2, <1>3, Induction
<1>. QED BY <1>n, <1>1, <1>4 DEF S

-----------------------------------------------------------------------------

\* The interactions of a that are anchored up to a tick.
OwnUpTo(x, tick, a) == {k \in DOMAIN x : x[k].actor = a /\ x[k].at <= tick}

After(x, k, l) == x[k].at > x[l].at \/ (x[k].at = x[l].at /\ (k = l \/ ActsAfter(k, l)))

\* The last of them says whether a is present.
DecidedFor(x, tick, present, a) ==
  OwnUpTo(x, tick, a) = {} \/
  \E k \in OwnUpTo(x, tick, a) :
    /\ \A l \in OwnUpTo(x, tick, a) : After(x, k, l)
    /\ a \in present <=> x[k].state = TRUE

\* No interaction is anchored at or after the last tick of a clip.
BeforeTheEnd(x) == Mode = "clip" => \A k \in DOMAIN x : x[k].at < ClipTicks

\* An engine that serves the interactions x of the actors A: those it was
\* built with are settled up to its tick, those commanded since are past.  The
\* live engine is built with the script.
Serves(s, x, A) ==
  /\ WellFormed(x, A) /\ WellFormed(s.exists, A)
  /\ Mode # "clip" => Len(s.exists) = Len(Script)
  /\ s.present \subseteq A
  /\ \A k \in DOMAIN s.exists : k \in DOMAIN x /\ x[k] = s.exists[k]
  /\ \A k \in DOMAIN x : k \notin DOMAIN s.exists => x[k].at <= s.tick
  /\ s.settled = {k \in DOMAIN s.exists : s.exists[k].at <= s.tick}
  /\ BeforeTheEnd(x) => \A a : a \notin s.crashed => DecidedFor(x, s.tick, s.present, a)

\* The verdicts of a tick decide for one actor.
LEMMA TickDecidesFor ==
  ASSUME NEW s, NEW x, NEW A, Serves(s, x, A), s.tick \in Int, NEW crashed, NEW a, a \notin crashed,
         DecidedFor(x, s.tick, s.present, a)
  PROVE  DecidedFor(x, s.tick + 1, ExistVerdicts(s, s.tick + 1, crashed).pending, a)
<1> DEFINE i == s.tick + 1
           st == ExistVerdicts(s, i, crashed)
           n == Len(s.exists)
           D == DueOf(s, i, a, DOMAIN s.exists)
           P == st.pending
<1>1. n \in Nat /\ DOMAIN s.exists = 1..n /\ \A k \in DOMAIN x : x[k].at \in Nat BY DEF Serves, WellFormed
<1>2. D = {k \in DOMAIN s.exists : s.exists[k].at = i /\ s.exists[k].actor = a}
  <2>1. ASSUME NEW k \in DOMAIN s.exists
        PROVE  k \in D <=> s.exists[k].at = i /\ s.exists[k].actor = a
    <3>1. s.exists[k].at \in Nat BY <1>1 DEF Serves, WellFormed
    <3>2. k \in s.settled <=> s.exists[k].at <= s.tick BY DEF Serves
    <3>3. k \in D <=> ~(s.exists[k].at <= s.tick) /\ s.exists[k].at <= s.tick + 1 /\ s.exists[k].actor = a
      BY <3>1, <3>2 DEF DueOf, DueAt
    <3> HIDE DEF D
    <3>. QED BY <3>1, <3>3
  <2>2. D \subseteq DOMAIN s.exists BY DEF DueOf, DueAt
  <2> HIDE DEF D
  <2>. QED BY <2>1, <2>2
<1>3. Verdict(s, i, st, DOMAIN s.exists, a)
  <2>1. WellFormed(s.exists, A) BY DEF Serves
  <2> HIDE DEF i
  <2>. QED BY <2>1, VerdictsDecide
<1>4. \A k : k \in D <=> k \in OwnUpTo(x, i, a) /\ x[k].at = i
  <2>1. ASSUME NEW k, k \in D PROVE k \in OwnUpTo(x, i, a) /\ x[k].at = i
    BY <1>2, <2>1 DEF Serves, OwnUpTo
  <2>2. ASSUME NEW k, k \in OwnUpTo(x, i, a), x[k].at = i PROVE k \in D
    <3>1. k \in DOMAIN x /\ x[k].at \in Nat /\ ~(x[k].at <= s.tick) BY <1>1, <2>2 DEF OwnUpTo
    <3>2. k \in DOMAIN s.exists /\ x[k] = s.exists[k] BY <3>1 DEF Serves
    <3>. QED BY <1>2, <2>2, <3>2 DEF OwnUpTo
  <2>. QED BY <2>1, <2>2
<1>5. D \subseteq 1..n BY <1>1, <1>2
<1>8. Mode # "clip" => n = Len(Script) BY DEF Serves
<1> HIDE DEF D, P, st
<1>6. CASE D = {}
  <2>1. a \in P <=> a \in s.present BY <1>3, <1>6 DEF Verdict, D, P
  <2>2. OwnUpTo(x, i, a) = OwnUpTo(x, s.tick, a)
    <3>1. ASSUME NEW k \in DOMAIN x, x[k].actor = a PROVE x[k].at <= i <=> x[k].at <= s.tick
      <4>1. ~(k \in OwnUpTo(x, i, a) /\ x[k].at = i) BY <1>4, <1>6
      <4>2. x[k].at \in Nat BY <1>1
      <4>. QED BY <3>1, <4>1, <4>2 DEF OwnUpTo
    <3>. QED BY <3>1 DEF OwnUpTo
  <2>3. DecidedFor(x, i, P, a) BY <2>1, <2>2 DEF DecidedFor
  <2>. QED BY <2>3 DEF P, st
<1>7. CASE D # {}
  <2>1. PICK m \in D : (\A l \in D : l = m \/ IdBefore(l, m)) /\ (a \in P <=> s.exists[m].state = TRUE)
    BY <1>3, <1>7 DEF Verdict, D, P
  <2>2. m \in OwnUpTo(x, i, a) /\ x[m].at = i BY <1>4
  <2>3. x[m] = s.exists[m] BY <1>2 DEF Serves
  <2>4. ASSUME NEW l \in OwnUpTo(x, i, a) PROVE After(x, m, l)
    <3>1. x[l].at \in Nat /\ x[l].at <= i BY <1>1 DEF OwnUpTo
    <3>2. CASE x[l].at = i
      <4>1. l \in D BY <1>4, <3>2
      <4>2. l = m \/ IdBefore(l, m) BY <2>1, <4>1
      <4>3. l \in Nat /\ m \in Nat /\ l <= n /\ m <= n BY <1>5, <4>1
      <4>4. Mode # "clip" => n <= Len(Script) BY <1>1, <1>8
      <4>5. l = m \/ ActsAfter(m, l) BY <4>2, <4>3, <4>4, ScriptSize, ScriptOrdered DEF ActsAfter
      <4>. QED BY <2>2, <3>2, <4>5 DEF After
    <3>3. CASE x[l].at # i
      <4>1. x[l].at < i BY <3>1, <3>3
      <4>. QED BY <2>2, <3>1, <4>1 DEF After
    <3>. QED BY <3>2, <3>3
  <2>5. DecidedFor(x, i, P, a) BY <2>1, <2>2, <2>3, <2>4 DEF DecidedFor
  <2>. QED BY <2>5 DEF P, st
<1>. QED BY <1>6, <1>7

\* A tick of an engine that is not done.
LEMMA TickServes ==
  ASSUME NEW s, NEW x, NEW A, Serves(s, x, A), s.tick \in Int, NEW acts
  PROVE  Serves(EngineTick(s, acts), x, A)
<1> DEFINE i == s.tick + 1
           last == Mode = "clip" /\ i = ClipTicks
           crashed == CrashedNow(s)
           verdict == ExistVerdicts(s, i, crashed)
           q == EngineTick(s, acts)
<1>1. /\ q.tick = i /\ q.exists = s.exists /\ q.crashed = crashed
      /\ q.settled = s.settled \cup DueAt(s, i)
      /\ q.present = IF last THEN s.present ELSE verdict.pending
  BY DEF EngineTick
<1> HIDE DEF q, verdict
<1>2. WellFormed(x, A) /\ WellFormed(s.exists, A) /\ s.present \subseteq A
      /\ (\A k \in DOMAIN s.exists : k \in DOMAIN x /\ x[k] = s.exists[k])
      /\ (Mode # "clip" => Len(s.exists) = Len(Script))
  BY DEF Serves
<1>3. verdict.pending \subseteq A BY <1>2, VerdictsWithin DEF verdict
<1>4. ASSUME NEW k \in DOMAIN x, k \notin DOMAIN s.exists PROVE x[k].at <= i
  <2>1. x[k].at \in Nat /\ x[k].at <= s.tick BY <1>4 DEF Serves, WellFormed
  <2>. QED BY <2>1
<1>5. q.settled = {k \in DOMAIN s.exists : s.exists[k].at <= i}
  <2>1. \A k \in DOMAIN s.exists : s.exists[k].at \in Nat BY <1>2 DEF WellFormed
  <2>2. s.settled = {k \in DOMAIN s.exists : s.exists[k].at <= s.tick} BY DEF Serves
  <2>3. DueAt(s, i) = {k \in DOMAIN s.exists : k \notin s.settled /\ s.exists[k].at <= i} BY DEF DueAt
  <2>. QED BY <1>1, <2>1, <2>2, <2>3
<1>6. ASSUME BeforeTheEnd(x), NEW a, a \notin crashed PROVE DecidedFor(x, i, q.present, a)
  <2>1. a \notin s.crashed BY <1>6 DEF CrashedNow
  <2>2. DecidedFor(x, s.tick, s.present, a) BY <1>6, <2>1 DEF Serves
  <2>3. CASE ~last
    <3>1. DecidedFor(x, i, verdict.pending, a)
      <4> HIDE DEF crashed
      <4>. QED BY <1>6, <2>2, TickDecidesFor DEF verdict
    <3>. QED BY <1>1, <2>3, <3>1
  <2>4. CASE last
    <3>1. \A k \in DOMAIN x : x[k].at \in Nat /\ x[k].at < i BY <1>2, <1>6, <2>4 DEF BeforeTheEnd, WellFormed
    <3>2. OwnUpTo(x, i, a) = OwnUpTo(x, s.tick, a) BY <3>1 DEF OwnUpTo
    <3>3. q.present = s.present BY <1>1, <2>4
    <3>. QED BY <2>2, <3>2, <3>3 DEF DecidedFor
  <2>. QED BY <2>3, <2>4
<1>7. q.present \subseteq A BY <1>1, <1>2, <1>3
<1> HIDE DEF i, crashed, last
<1>8. Serves(q, x, A)
  BY <1>1, <1>2, <1>4, <1>5, <1>6, <1>7 DEF Serves
<1>. QED BY <1>8 DEF q

\* A new engine serves its input.
LEMMA NewEngineServes ==
  ASSUME NEW inp, NEW A, WellFormed(inp.exists, A), StartPresent \subseteq A,
         Mode = "clip" \/ Len(inp.exists) = Len(Script)
  PROVE  Serves(Parked0(inp), inp.exists, A)
<1> DEFINE s == NewSim(inp)
           x == inp.exists
<1>1. s.tick = -1 /\ s.exists = x /\ s.present = StartPresent /\ s.settled = {} BY DEF NewSim
<1>2. \A k \in DOMAIN x : x[k].at \in Nat BY DEF WellFormed
<1> HIDE DEF s
<1>3. s.settled = {k \in DOMAIN s.exists : s.exists[k].at <= s.tick} BY <1>1, <1>2
<1>4. ASSUME NEW a PROVE DecidedFor(x, s.tick, s.present, a)
  <2>1. OwnUpTo(x, -1, a) = {} BY <1>2 DEF OwnUpTo
  <2>. QED BY <1>1, <2>1 DEF DecidedFor
<1>5. Serves(s, x, A) BY <1>1, <1>3, <1>4 DEF Serves
<1>6. s.tick \in Int BY <1>1
<1> HIDE DEF x
<1>7. Serves(EngineTick(s, NoActs), x, A) BY <1>5, <1>6, TickServes
<1>. QED BY <1>7 DEF Parked0, s, x

-----------------------------------------------------------------------------
(* The exist interactions a batch adds.                                    *)

\* What an accepted despawn makes of the batch.
DespawnedAs(w, r, q, id) ==
  /\ id \in (w.sim.present \cup Range(r.spawned)) \ r.despawned
  /\ q.spawned = r.spawned
  /\ q.despawned = r.despawned \cup {id}
  /\ q.exists = Append(r.exists, ExistRecord(w, id, FALSE))

LEMMA DespawnAccepted ==
  ASSUME NEW w, NEW r, NEW op, ResolvedShape(r), ResolveDespawn(w, r, op).ok
  PROVE  DespawnedAs(w, r, ResolveDespawn(w, r, op), op.id)
<1> DEFINE q == ResolveDespawn(w, r, op)
<1>1. PICK ok, c, e, sp, de, ce, ex :
        r = [ok |-> ok, counter |-> c, exist |-> e, spawned |-> sp, despawned |-> de,
             cell |-> ce, exists |-> ex]
  BY DEF ResolvedShape
<1>2. CASE op.id \in (w.sim.present \cup Range(r.spawned)) \ r.despawned
  <2>1. q = [ok |-> ok, counter |-> c, exist |-> e + 1, spawned |-> sp, despawned |-> de \cup {op.id},
             cell |-> ce, exists |-> Append(ex, ExistRecord(w, op.id, FALSE))]
    BY <1>1, <1>2 DEF ResolveDespawn
  <2> HIDE DEF q
  <2>2. q.spawned = r.spawned /\ q.despawned = r.despawned \cup {op.id}
        /\ q.exists = Append(r.exists, ExistRecord(w, op.id, FALSE))
    BY <1>1, <2>1
  <2>. QED BY <1>2, <2>2 DEF q, DespawnedAs
<1>3. CASE op.id \notin (w.sim.present \cup Range(r.spawned)) \ r.despawned
  <2>1. q = [ok |-> FALSE, counter |-> c, exist |-> e, spawned |-> sp, despawned |-> de,
             cell |-> ce, exists |-> ex]
    BY <1>1, <1>3 DEF ResolveDespawn
  <2>2. ~q.ok BY <2>1
  <2>. QED BY <2>2
<1>. QED BY <1>2, <1>3

\* The interactions with a that were added after the first n.
NewFor(x, n, a) == {k \in DOMAIN x : k > n /\ x[k].actor = a}

\* The last one of them undoes those before it; gone says that it is a despawn.
AddedFor(x, n, a, touched, gone) ==
  IF touched
  THEN \E k \in NewFor(x, n, a) : (\A l \in NewFor(x, n, a) : l <= k) /\ (x[k].state = TRUE <=> ~gone)
  ELSE NewFor(x, n, a) = {}

\* What a batch has added to the interactions of the input.
Added(w, r) ==
  LET n == Len(w.input.exists)
  IN  /\ WellFormed(r.exists, UsedIds(w, r))
      /\ n <= Len(r.exists) /\ \A k \in 1..n : r.exists[k] = w.input.exists[k]
      /\ \A k \in DOMAIN r.exists : k > n => r.exists[k].at = w.sim.tick
      /\ r.despawned \subseteq UsedIds(w, r)
      /\ \A a : AddedFor(r.exists, n, a, a \in Range(r.spawned) \/ a \in r.despawned, a \in r.despawned)

\* The world a batch is resolved against.
Sound(w) ==
  /\ WellFormed(w.input.exists, w.input.actors)
  /\ w.sim.present \subseteq w.input.actors
  /\ w.sim.tick \in Nat

\* One record more, of an actor x.
LEMMA AddedGrows ==
  ASSUME NEW w, NEW r, NEW q, NEW id, NEW state \in BOOLEAN, Sound(w), Added(w, r),
         UsedIds(w, q) = UsedIds(w, r) \cup {id},
         q.exists = Append(r.exists, ExistRecord(w, id, state)),
         q.despawned \subseteq r.despawned \cup {id},
         r.despawned \subseteq q.despawned,
         Range(q.spawned) \subseteq Range(r.spawned) \cup {id},
         Range(r.spawned) \subseteq Range(q.spawned),
         id \in Range(q.spawned) \cup q.despawned,
         id \in q.despawned <=> ~state
  PROVE  Added(w, q)
<1> DEFINE n == Len(w.input.exists)
           m == Len(r.exists)
           x == r.exists
           e == ExistRecord(w, id, state)
           y == Append(x, e)
<1>1. n \in Nat BY DEF Sound, WellFormed
<1>2. PICK S : x \in Seq(S) BY DEF Added, WellFormed
<1>3. x \in Seq(S \cup {e}) /\ y \in Seq(S \cup {e}) BY <1>2
<1>4. m \in Nat /\ DOMAIN x = 1..m /\ Len(y) = m + 1 /\ DOMAIN y = 1..(m + 1) /\ y[m + 1] = e
      /\ \A k \in 1..m : y[k] = x[k]
  BY <1>3
<1>5. e.actor = id /\ e.at = w.sim.tick /\ e.state = state BY DEF ExistRecord
<1>6. q.exists = y OBVIOUS
<1> HIDE DEF y, e
<1>7. n <= m /\ (\A k \in 1..n : x[k] = w.input.exists[k])
      /\ \A k \in DOMAIN x : k > n => x[k].at = w.sim.tick
  BY DEF Added
<1>8. WellFormed(y, UsedIds(w, q))
  <2>1. \A k \in DOMAIN x : x[k].actor \in UsedIds(w, r) /\ x[k].at \in Nat /\ x[k].state \in BOOLEAN
    BY DEF Added, WellFormed
  <2>2. e.actor \in UsedIds(w, q) /\ e.at \in Nat /\ e.state \in BOOLEAN BY <1>5 DEF Sound
  <2>3. UsedIds(w, r) \subseteq UsedIds(w, q) OBVIOUS
  <2>4. ASSUME NEW k \in DOMAIN y
        PROVE  y[k].actor \in UsedIds(w, q) /\ y[k].at \in Nat /\ y[k].state \in BOOLEAN
    <3>1. CASE k = m + 1 BY <1>4, <2>2, <3>1
    <3>2. CASE k \in 1..m
      <4>1. y[k] = x[k] /\ k \in DOMAIN x BY <1>4, <3>2
      <4>. QED BY <2>1, <2>3, <4>1
    <3>. QED BY <1>4, <3>1, <3>2
  <2>5. Len(Script) <= m BY DEF Added, WellFormed
  <2>6. Len(Script) <= Len(y) BY <1>4, <2>5, ScriptSize
  <2>. QED BY <1>3, <2>4, <2>6 DEF WellFormed
<1>9. n <= Len(y) /\ \A k \in 1..n : y[k] = w.input.exists[k] BY <1>1, <1>4, <1>7
<1>10. \A k \in DOMAIN y : k > n => y[k].at = w.sim.tick BY <1>1, <1>4, <1>5, <1>7
<1>11. q.despawned \subseteq UsedIds(w, q)
  <2>1. r.despawned \subseteq UsedIds(w, r) BY DEF Added
  <2>. QED BY <2>1
<1>12. ASSUME NEW a
       PROVE  AddedFor(y, n, a, a \in Range(q.spawned) \/ a \in q.despawned, a \in q.despawned)
  <2>1. CASE a = id
    <3>1. m + 1 \in NewFor(y, n, a) /\ \A l \in NewFor(y, n, a) : l <= m + 1
      BY <1>1, <1>4, <1>5, <1>7, <2>1 DEF NewFor
    <3>2. y[m + 1].state = TRUE <=> ~(a \in q.despawned) BY <1>4, <1>5, <2>1
    <3>. QED BY <2>1, <3>1, <3>2 DEF AddedFor
  <2>2. CASE a # id
    <3>1. NewFor(y, n, a) = NewFor(x, n, a) /\ NewFor(x, n, a) \subseteq 1..m
      BY <1>4, <1>5, <2>2 DEF NewFor
    <3>2. (a \in Range(q.spawned) <=> a \in Range(r.spawned)) /\ (a \in q.despawned <=> a \in r.despawned)
      BY <2>2
    <3>3. AddedFor(x, n, a, a \in Range(r.spawned) \/ a \in r.despawned, a \in r.despawned)
      BY DEF Added
    <3>4. \A k \in NewFor(x, n, a) : y[k] = x[k] BY <1>4, <3>1
    <3>5. CASE a \in Range(r.spawned) \/ a \in r.despawned
      <4>1. PICK k \in NewFor(x, n, a) :
               (\A l \in NewFor(x, n, a) : l <= k) /\ (x[k].state = TRUE <=> ~(a \in r.despawned))
        BY <3>3, <3>5 DEF AddedFor
      <4>. QED BY <3>1, <3>2, <3>4, <3>5, <4>1 DEF AddedFor
    <3>6. CASE ~(a \in Range(r.spawned) \/ a \in r.despawned)
      <4>1. NewFor(x, n, a) = {} BY <3>3, <3>6 DEF AddedFor
      <4>. QED BY <3>1, <3>2, <3>6, <4>1 DEF AddedFor
    <3>. QED BY <3>5, <3>6
  <2>. QED BY <2>1, <2>2
<1> HIDE DEF n, m, x
<1>. QED BY <1>6, <1>8, <1>9, <1>10, <1>11, <1>12 DEF Added, n

\* After k ops: what was given and what was added are right.
RunsOn(w, ops, r, k) == RunsWell(w, ops, r, k) /\ (r.ok => Added(w, r))

LEMMA OpRunsOn ==
  ASSUME NEW w, Sound(w), NEW ops, NEW n \in Nat, DOMAIN ops = 1..n, NEW k \in 1..n, NEW r,
         RunsOn(w, ops, r, k - 1)
  PROVE  RunsOn(w, ops, ResolveOp(w, r, ops[k]), k)
<1> DEFINE q == ResolveOp(w, r, ops[k])
           op == ops[k]
<1>1. RunsWell(w, ops, q, k) BY OpRunsWell DEF RunsOn
<1>2. ResolvedShape(r) BY DEF RunsOn, RunsWell
<1>3. SUFFICES ASSUME q.ok PROVE Added(w, q) BY <1>1 DEF RunsOn
<1>4. r.ok
  <2>1. SUFFICES ASSUME ~r.ok PROVE FALSE OBVIOUS
  <2>2. q = r BY <2>1 DEF ResolveOp
  <2>. QED BY <1>3, <2>1, <2>2
<1>5. Added(w, r) /\ Given(w, r) /\ Cardinality(SpawnsLeft(ops, k - 1)) <= Cardinality(Free(w, r))
  BY <1>4 DEF RunsOn, RunsWell
<1>6. r.despawned \subseteq UsedIds(w, r) BY <1>5 DEF Added
<1>7. CASE op.op = "spawn"
  <2>1. q = ResolveSpawn(w, r, op) BY <1>4, <1>7 DEF ResolveOp
  <2>2. Free(w, r) # {}
    <3>1. SUFFICES ASSUME Free(w, r) = {} PROVE FALSE OBVIOUS
    <3>2. Cardinality(Free(w, r)) = 0 BY <3>1, FS_EmptySet
    <3>3. k \in SpawnsLeft(ops, k - 1) BY <1>7 DEF SpawnsLeft
    <3>4. IsFiniteSet(SpawnsLeft(ops, k - 1)) /\ Cardinality(SpawnsLeft(ops, k - 1)) \in Nat
      BY CountsFinite
    <3>5. Cardinality(SpawnsLeft(ops, k - 1)) # 0 BY <3>3, <3>4, FS_EmptySet
    <3>. QED BY <1>5, <3>2, <3>4, <3>5
  <2>3. PICK id : SpawnedAs(w, r, q, id) BY <1>2, <1>3, <1>5, <2>1, <2>2, SpawnAccepted
  <2> HIDE DEF q
  <2>4. /\ UsedIds(w, q) = UsedIds(w, r) \cup {id} /\ id \notin UsedIds(w, r)
        /\ q.exists = Append(r.exists, ExistRecord(w, id, TRUE))
        /\ q.despawned = r.despawned /\ Range(q.spawned) = Range(r.spawned) \cup {id}
    BY <2>3 DEF SpawnedAs
  <2>5. id \notin q.despawned BY <1>6, <2>4
  <2>. QED BY <1>5, <2>4, <2>5, AddedGrows
<1>8. CASE op.op # "spawn"
  <2>1. q = ResolveDespawn(w, r, op) BY <1>4, <1>8 DEF ResolveOp
  <2>2. DespawnedAs(w, r, q, op.id) BY <1>2, <1>3, <2>1, DespawnAccepted
  <2> HIDE DEF q
  <2>3. UsedIds(w, q) = UsedIds(w, r) \cup {op.id} BY <2>2 DEF UsedIds, Sound, DespawnedAs
  <2>4. PICK id : id = op.id OBVIOUS
  <2>5. DespawnedAs(w, r, q, id) BY <2>2, <2>4
  <2>. QED BY <1>5, <2>3, <2>4, <2>5, AddedGrows DEF DespawnedAs
<1>. QED BY <1>7, <1>8

\* What an accepted batch has added.
LEMMA ResolveAdds ==
  ASSUME NEW w, Sound(w), NEW ops, NEW n \in Nat, DOMAIN ops = 1..n, Given(w, Unresolved(w)),
         Cardinality(SpawnsLeft(ops, 0)) <= Cardinality(Free(w, Unresolved(w))),
         Resolve(w, ops).ok
  PROVE  Added(w, Resolve(w, ops))
<1>1. ResolvedShape(Unresolved(w)) BY DEF ResolvedShape, Unresolved
<1>2. ops # <<>>
  <2>1. CASE ops = <<>>
    <3>1. Resolve(w, ops) = [Unresolved(w) EXCEPT !.ok = FALSE] BY <2>1 DEF Resolve
    <3>2. ~Resolve(w, ops).ok BY <1>1, <3>1 DEF ResolvedShape
    <3>. QED BY <3>2
  <2>. QED BY <2>1
<1>3. PICK g : /\ g[0] = Unresolved(w)
               /\ \A k \in 1..n : g[k] = ResolveOp(w, g[k - 1], ops[k])
               /\ Resolve(w, ops) = g[n]
  BY <1>2, ResolveRuns
<1> DEFINE S == {k \in Nat : k <= n => RunsOn(w, ops, g[k], k)}
<1>4. 0 \in S
  <2> DEFINE u == Unresolved(w)
             x == w.input.exists
  <2>1. u.exists = x /\ u.despawned = {} /\ u.spawned = <<>> BY DEF Unresolved
  <2>2. Range(u.spawned) = {} BY <2>1 DEF Range
  <2>3. UsedIds(w, u) = w.input.actors BY <2>2 DEF UsedIds
  <2>4. WellFormed(x, w.input.actors) /\ Len(x) \in Nat /\ DOMAIN x = 1..Len(x)
    BY DEF Sound, WellFormed
  <2> HIDE DEF u, x
  <2>5. \A a : NewFor(x, Len(x), a) = {} BY <2>4 DEF NewFor
  <2>6. Added(w, u) BY <2>1, <2>2, <2>3, <2>4, <2>5 DEF Added, AddedFor, x
  <2>7. RunsWell(w, ops, u, 0) BY <1>1 DEF RunsWell, u
  <2>. QED BY <1>3, <2>6, <2>7 DEF RunsOn, u
<1>5. ASSUME NEW k \in Nat, k \in S PROVE k + 1 \in S
  <2>1. SUFFICES ASSUME k + 1 <= n PROVE RunsOn(w, ops, g[k + 1], k + 1)
    OBVIOUS
  <2>2. k + 1 \in 1..n /\ (k + 1) - 1 = k /\ RunsOn(w, ops, g[k], k) BY <1>5, <2>1
  <2>3. RunsOn(w, ops, g[(k + 1) - 1], (k + 1) - 1) BY <2>2
  <2>4. g[k + 1] = ResolveOp(w, g[(k + 1) - 1], ops[k + 1]) BY <1>3, <2>2
  <2> HIDE DEF S
  <2>. QED BY <2>2, <2>3, <2>4, OpRunsOn
<1> HIDE DEF S
<1>6. n \in S BY <1>4, <1>5, Induction
<1>7. RunsOn(w, ops, Resolve(w, ops), n) BY <1>3, <1>6 DEF S
<1>. QED BY <1>7 DEF RunsOn

\* A live commit: the running engine serves the new input.
LEMMA LiveServes ==
  ASSUME NEW w, NEW ops, NEW r, EngineShape(w.sim), Sound(w), Added(w, r),
         Serves(w.sim, w.input.exists, w.input.actors), Mode # "clip"
  PROVE  Serves(LiveSim(w, ops, r), r.exists, UsedIds(w, r))
<1> DEFINE q == LiveSim(w, ops, r)
           x == w.input.exists
           y == r.exists
           n == Len(x)
           A == UsedIds(w, r)
<1>0. PICK s : s = w.sim OBVIOUS
<1>1. /\ q.tick = s.tick /\ q.exists = s.exists /\ q.settled = s.settled /\ q.crashed = s.crashed
      /\ q.present = (s.present \cup Range(r.spawned)) \ r.despawned
  <2>1. PICK t, d, a, xx, c, se, ev, p, ce :
          s = [tick |-> t, done |-> d, actors |-> a, exists |-> xx, crashed |-> c,
               settled |-> se, events |-> ev, present |-> p, cell |-> ce]
    BY <1>0 DEF EngineShape
  <2>2. q = [s EXCEPT !.actors  = @ \cup Range(r.spawned),
                      !.present = (@ \cup Range(r.spawned)) \ r.despawned,
                      !.cell    = [b \in Actors |-> IF b \in Range(r.spawned) THEN r.cell[b] ELSE @[b]],
                      !.events  = LiveEvents(w, ops, r)]
    BY <1>0 DEF LiveSim
  <2> HIDE DEF q
  <2>. QED BY <2>1, <2>2
<1>2. /\ WellFormed(y, A) /\ n <= Len(y) /\ (\A k \in 1..n : y[k] = x[k])
      /\ \A k \in DOMAIN y : k > n => y[k].at = s.tick
  BY <1>0 DEF Added
<1>3. Serves(s, x, w.input.actors) BY <1>0
<1>13. Mode # "clip" => Len(q.exists) = Len(Script) BY <1>1, <1>3 DEF Serves
<1>4. s.tick \in Nat /\ w.input.actors \subseteq A BY <1>0 DEF Sound, UsedIds
<1>5. n \in Nat /\ DOMAIN x = 1..n /\ Len(y) \in Nat /\ DOMAIN y = 1..Len(y)
  BY <1>2, <1>3 DEF Serves, WellFormed
<1> HIDE DEF q, x, y, n
<1>6. WellFormed(q.exists, A)
  <2>1. WellFormed(s.exists, w.input.actors) BY <1>3 DEF Serves
  <2>. QED BY <1>1, <1>4, <2>1 DEF WellFormed
<1>7. q.present \subseteq A
  <2>1. Range(r.spawned) \subseteq A BY DEF UsedIds
  <2>. QED BY <1>1, <1>3, <1>4, <2>1 DEF Serves
<1>8. \A k \in DOMAIN q.exists : k \in DOMAIN y /\ y[k] = q.exists[k]
  <2>1. \A k \in DOMAIN s.exists : k \in DOMAIN x /\ x[k] = s.exists[k] BY <1>3 DEF Serves
  <2>. QED BY <1>1, <1>2, <1>5, <2>1
<1>9. \A k \in DOMAIN y : k \notin DOMAIN q.exists => y[k].at <= q.tick
  <2> SUFFICES ASSUME NEW k \in DOMAIN y, k \notin DOMAIN q.exists PROVE y[k].at <= q.tick OBVIOUS
  <2>1. CASE k > n BY <1>1, <1>2, <1>4, <2>1
  <2>2. CASE ~(k > n)
    <3>1. k \in DOMAIN x /\ y[k] = x[k] /\ k \notin DOMAIN s.exists BY <1>1, <1>2, <1>5, <2>2
    <3>. QED BY <1>1, <1>3, <3>1 DEF Serves
  <2>. QED BY <2>1, <2>2
<1>10. q.settled = {k \in DOMAIN q.exists : q.exists[k].at <= q.tick} BY <1>1, <1>3 DEF Serves
<1>11. ASSUME BeforeTheEnd(y), NEW a, a \notin q.crashed PROVE DecidedFor(y, q.tick, q.present, a)
  <2>1. BeforeTheEnd(x) BY <1>2, <1>5, <1>11 DEF BeforeTheEnd
  <2>2. DecidedFor(x, s.tick, s.present, a) BY <1>1, <1>3, <1>11, <2>1 DEF Serves
  <2> DEFINE N == NewFor(y, n, a)
             touched == a \in Range(r.spawned) \/ a \in r.despawned
             O == OwnUpTo(y, s.tick, a)
  <2>3. AddedFor(y, n, a, touched, a \in r.despawned) BY DEF Added, y, n, x
  <2>4. N \subseteq O /\ O = OwnUpTo(x, s.tick, a) \cup N
    <3>1. N = {k \in DOMAIN y : k > n /\ y[k].actor = a} BY DEF NewFor
    <3>2. \A k \in DOMAIN y : k > n => y[k].at <= s.tick BY <1>2, <1>4
    <3>3. \A k \in DOMAIN y : ~(k > n) <=> k \in DOMAIN x BY <1>5
    <3>4. DOMAIN x \subseteq DOMAIN y /\ \A k \in DOMAIN x : y[k] = x[k] BY <1>2, <1>5
    <3>5. O = {k \in DOMAIN y : y[k].actor = a /\ y[k].at <= s.tick} BY DEF OwnUpTo
    <3>6. OwnUpTo(x, s.tick, a) = {k \in DOMAIN x : x[k].actor = a /\ x[k].at <= s.tick} BY DEF OwnUpTo
    <3> HIDE DEF N, O
    <3>. QED BY <3>1, <3>2, <3>3, <3>4, <3>5, <3>6
  <2>5. CASE touched
    <3>1. PICK k \in N : (\A l \in N : l <= k) /\ (y[k].state = TRUE <=> ~(a \in r.despawned))
      BY <2>3, <2>5 DEF AddedFor
    <3>2. k \in O /\ k \in Nat /\ k > n /\ y[k].at = s.tick BY <1>2, <1>5, <2>4 DEF NewFor
    <3>3. ASSUME NEW l \in O PROVE After(y, k, l)
      <4>1. l \in DOMAIN y /\ y[l].at <= s.tick /\ y[l].at \in Nat BY <1>2 DEF OwnUpTo, WellFormed
      <4>2. k >= l
        <5>1. CASE l \in N BY <1>5, <3>1, <3>2, <4>1, <5>1
        <5>2. CASE l \notin N
          <6>1. l \in DOMAIN x BY <2>4, <5>2 DEF OwnUpTo
          <6>. QED BY <1>5, <3>2, <6>1
        <5>. QED BY <5>1, <5>2
      <4>3. k = l \/ ActsAfter(k, l)
        <5>1. l \in Nat BY <1>5, <4>1
        <5>. QED BY <3>2, <4>2, <5>1 DEF ActsAfter
      <4>. QED BY <1>4, <3>2, <4>1, <4>3 DEF After
    <3>4. a \in q.present <=> y[k].state = TRUE BY <1>1, <2>5, <3>1
    <3>. QED BY <1>1, <3>2, <3>3, <3>4 DEF DecidedFor
  <2>6. CASE ~touched
    <3>1. N = {} BY <2>3, <2>6 DEF AddedFor
    <3>2. O = OwnUpTo(x, s.tick, a) BY <2>4, <3>1
    <3>3. a \in q.present <=> a \in s.present BY <1>1, <2>6
    <3>4. \A k \in O : k \in DOMAIN x /\ y[k] = x[k] BY <1>2, <1>5, <3>2 DEF OwnUpTo
    <3> HIDE DEF O
    <3>5. CASE O = {} BY <1>1, <3>5 DEF DecidedFor, O
    <3>6. CASE O # {}
      <4>1. PICK k \in O : (\A l \in O : After(x, k, l)) /\ (a \in s.present <=> x[k].state = TRUE)
        BY <2>2, <3>2, <3>6 DEF DecidedFor
      <4>2. \A l \in O : After(y, k, l) BY <3>4, <4>1 DEF After
      <4>3. a \in q.present <=> y[k].state = TRUE BY <3>3, <3>4, <4>1
      <4>. QED BY <1>1, <4>2, <4>3 DEF DecidedFor, O
    <3>. QED BY <3>5, <3>6
  <2>. QED BY <2>5, <2>6
<1>12. Serves(q, y, A) BY <1>2, <1>6, <1>7, <1>8, <1>9, <1>10, <1>11, <1>13 DEF Serves
<1>. QED BY <1>12 DEF q, y

-----------------------------------------------------------------------------

\* The engine of the world, of a rebuild and of a checkpoint serve their input.
ServingInv ==
  /\ Serves(sim, input.exists, input.actors)
  /\ job.kind = "rebuild" =>
       Serves(job.cand, Resolve(World, job.ops).exists, UsedIds(World, Resolve(World, job.ops)))
  /\ saved # NoCheckpoint =>
       Serves(saved.state[1], saved.state[2].exists, saved.state[2].actors)

\* The engine stands at a tick, between calls and within one.
LEMMA SimStands == IInv => EngineShape(sim) /\ sim.tick \in Nat
<1> SUFFICES ASSUME IInv PROVE EngineShape(sim) /\ sim.tick \in Nat OBVIOUS
<1>1. PICK n : Standing(sim, n, digest) BY DEF IInv, JobInv
<1>2. n \in Nat /\ EngineShape(sim) /\ sim.tick = Reach(n) BY <1>1 DEF Standing, EngineAt
<1>. QED BY <1>2, WorldAssumption DEF Reach

\* What an approved batch adds to the input of the world.
LEMMA ApprovedAdds ==
  ASSUME IInv, Ledger(input.actors, actor_counter, entries), Serves(sim, input.exists, input.actors),
         NEW ops, Approved(ops)
  PROVE  Sound(World) /\ Added(World, Resolve(World, ops))
<1>1. Sound(World) BY SimStands DEF Sound, Serves, World
<1>2. PICK n \in Nat : DOMAIN ops = 1..n BY DEF Approved
<1>3. Resolve(World, ops).ok BY DEF Approved
<1>4. Added(World, Resolve(World, ops)) BY <1>1, <1>2, <1>3, ApprovedStarts, ResolveAdds
<1>. QED BY <1>1, <1>4

\* Draining the events of an engine leaves everything else.
LEMMA DrainedServes ==
  ASSUME NEW s, EngineShape(s), NEW x, NEW A, Serves(s, x, A)
  PROVE  Serves([s EXCEPT !.events = <<>>], x, A)
<1> DEFINE q == [s EXCEPT !.events = <<>>]
<1>1. q.tick = s.tick /\ q.exists = s.exists /\ q.settled = s.settled /\ q.crashed = s.crashed
      /\ q.present = s.present
  BY DEF EngineShape
<1> HIDE DEF q
<1>2. Serves(q, x, A) BY <1>1 DEF Serves
<1>. QED BY <1>2 DEF q

LEMMA InitServingInv == Init => ServingInv
<1> SUFFICES ASSUME Init PROVE ServingInv OBVIOUS
<1>1. input.exists = Script /\ input.actors = DOMAIN BaseCell /\ sim = Parked0(input)
      /\ job.kind # "rebuild" /\ ~(saved # NoCheckpoint)
  BY DEF Init, Idle
<1>2. WellFormed(Script, DOMAIN BaseCell)
  <2>1. PICK R : R = [actor : DOMAIN BaseCell, at : Nat, state : BOOLEAN] OBVIOUS
  <2>2. Script \in Seq(R) BY <2>1, WorldAssumption
  <2>3. \A k \in DOMAIN Script : Script[k] \in R BY <2>2
  <2>4. \A e \in R : e.actor \in DOMAIN BaseCell /\ e.at \in Nat /\ e.state \in BOOLEAN BY <2>1
  <2>. QED BY <2>2, <2>3, <2>4, ScriptSize DEF WellFormed
<1>3. StartPresent \subseteq DOMAIN BaseCell BY WorldAssumption
<1>4. Serves(Parked0(input), input.exists, DOMAIN BaseCell) BY <1>1, <1>2, <1>3, NewEngineServes
<1>. QED BY <1>1, <1>4 DEF ServingInv

LEMMA NextServingInv == IInv /\ LedgerInv /\ ServingInv /\ [Next]_vars => ServingInv'
<1> SUFFICES ASSUME IInv, LedgerInv, ServingInv, [Next]_vars PROVE ServingInv' OBVIOUS
<1> DEFINE S == Serves(sim, input.exists, input.actors)
           J == job.kind = "rebuild" =>
                  Serves(job.cand, Resolve(World, job.ops).exists, UsedIds(World, Resolve(World, job.ops)))
           C == saved # NoCheckpoint =>
                  Serves(saved.state[1], saved.state[2].exists, saved.state[2].actors)
           L == Ledger(input.actors, actor_counter, entries)
<1>0. S /\ J /\ C /\ L /\ (job.kind = "rebuild" => Approved(job.ops)) BY DEF ServingInv, LedgerInv
<1>quiet. ASSUME UNCHANGED <<sim, input, saved>>, job'.kind # "rebuild" PROVE ServingInv'
  BY <1>0, <1>quiet DEF ServingInv
<1>act. ASSUME NEW a, NEW action, Act(a, action) PROVE ServingInv'
  <2>1. UNCHANGED <<sim, input, saved>> /\ job' = Idle BY <1>act DEF Act, Ready
  <2>. QED BY <2>1, <1>quiet DEF Idle
<1>reject. ASSUME NEW ops \in Batches, RejectStructural(ops) PROVE ServingInv'
  <2>1. UNCHANGED <<sim, input, saved>> /\ job' = Idle
    BY <1>reject DEF RejectStructural, StructuralReady, Ready
  <2>. QED BY <2>1, <1>quiet DEF Idle
<1>live. ASSUME NEW ops \in Batches, CommitLive(ops) PROVE ServingInv'
  <2> DEFINE w == World
             r == Resolve(w, ops)
  <2>1. Approved(ops) /\ Commit(ops, r) /\ job' = Idle /\ sim' = LiveSim(w, ops, r) /\ Mode # "clip"
    BY <1>live, BatchDomain DEF CommitLive, StructuralReady, Ready, Approved
  <2>2. Sound(w) /\ Added(w, r) BY <1>0, <2>1, ApprovedAdds
  <2>3. input'.exists = r.exists /\ input'.actors = UsedIds(w, r) /\ UNCHANGED saved
    BY <2>1 DEF Commit, Candidate, UsedIds
  <2>4. w.sim = sim /\ w.input = input BY DEF World
  <2>5. EngineShape(sim) BY SimStands
  <2> HIDE DEF w, r
  <2>6. EngineShape(w.sim) /\ Serves(w.sim, w.input.exists, w.input.actors) BY <1>0, <2>4, <2>5
  <2>7. Serves(LiveSim(w, ops, r), r.exists, UsedIds(w, r)) BY <2>1, <2>2, <2>6, LiveServes
  <2>8. S' BY <2>1, <2>3, <2>7
  <2>9. job'.kind # "rebuild" BY <2>1 DEF Idle
  <2>. QED BY <1>0, <2>3, <2>8, <2>9 DEF ServingInv
<1>rebuild. ASSUME NEW ops \in Batches, BeginRebuild(ops) PROVE ServingInv'
  <2> DEFINE r == Resolve(World, ops)
             inp == Candidate(World, r)
  <2>1. /\ Approved(ops) /\ job'.ops = ops /\ job'.cand = Parked0(inp) /\ UNCHANGED <<session, saved>>
        /\ Mode = "clip"
    BY <1>rebuild, BatchDomain DEF BeginRebuild, StructuralReady, Ready, Approved
  <2>2. UNCHANGED <<sim, input, actor_counter, exist_counter>> BY <2>1 DEF session
  <2>3. Added(World, r) BY <1>0, <2>1, ApprovedAdds
  <2>4. inp.exists = r.exists BY DEF Candidate
  <2>5. WellFormed(inp.exists, UsedIds(World, r)) BY <2>3, <2>4 DEF Added
  <2>6. StartPresent \subseteq UsedIds(World, r)
    <3>1. DOMAIN BaseCell \subseteq input.actors BY <1>0 DEF Ledger
    <3>2. World.input = input BY DEF World
    <3>. QED BY <3>1, <3>2, WorldAssumption DEF UsedIds
  <2> HIDE DEF inp
  <2>7. Serves(Parked0(inp), inp.exists, UsedIds(World, r)) BY <2>1, <2>5, <2>6, NewEngineServes
  <2>8. World' = World BY <2>2 DEF World
  <2>9. J' BY <2>1, <2>4, <2>7, <2>8
  <2>. QED BY <1>0, <2>1, <2>2, <2>9 DEF ServingInv
<1>catchup. ASSUME CatchUp PROVE ServingInv'
  <2>1. PICK o, c, d, a : job = [kind |-> "rebuild", ops |-> o, cand |-> c, done |-> d, acts |-> a]
    BY <1>catchup DEF CatchUp, IInv, JobInv, Idle
  <2>2. /\ job'.ops = job.ops /\ job.kind = "rebuild" /\ UNCHANGED <<session, saved>>
        /\ job'.cand = IF job.cand.done THEN job.cand ELSE EngineTick(job.cand, job.acts)
    BY <1>catchup, <2>1 DEF CatchUp
  <2>3. UNCHANGED <<sim, input, actor_counter, exist_counter>> BY <2>2 DEF session
  <2>4. World' = World BY <2>3 DEF World
  <2>5. PICK r : r = Resolve(World, job.ops) OBVIOUS
  <2>6. Serves(job.cand, r.exists, UsedIds(World, r)) BY <1>0, <2>2, <2>5
  <2>7. job.cand.tick \in Int
    <3>1. EngineAt(job.cand, job.done) /\ job.done \in Nat
      BY <2>2, RebuildStands DEF IInv
    <3>. QED BY <3>1, WorldAssumption DEF EngineAt, Reach
  <2>8. Serves(EngineTick(job.cand, job.acts), r.exists, UsedIds(World, r)) BY <2>6, <2>7, TickServes
  <2>9. J' BY <2>2, <2>4, <2>5, <2>6, <2>8
  <2>. QED BY <1>0, <2>2, <2>3, <2>9 DEF ServingInv
<1>commit. ASSUME CommitClip PROVE ServingInv'
  <2> DEFINE r == Resolve(World, job.ops)
  <2>1. /\ Approved(job.ops) /\ Commit(job.ops, r) /\ job' = Idle /\ job.kind = "rebuild"
        /\ sim' = [job.cand EXCEPT !.events = <<>>]
    BY <1>0, <1>commit DEF CommitClip
  <2>2. input'.exists = r.exists /\ input'.actors = UsedIds(World, r) /\ UNCHANGED saved
    BY <2>1 DEF Commit, Candidate, UsedIds
  <2>3. EngineShape(job.cand) BY <2>1, RebuildStands DEF IInv, EngineAt
  <2>4. Serves(job.cand, r.exists, UsedIds(World, r)) BY <1>0, <2>1
  <2> HIDE DEF r
  <2>5. PICK cand : cand = job.cand OBVIOUS
  <2>6. Serves([cand EXCEPT !.events = <<>>], r.exists, UsedIds(World, r)) BY <2>3, <2>4, <2>5, DrainedServes
  <2>7. S' BY <2>1, <2>2, <2>5, <2>6
  <2>8. job'.kind # "rebuild" BY <2>1 DEF Idle
  <2>. QED BY <1>0, <2>2, <2>7, <2>8 DEF ServingInv
<1>begin. ASSUME NEW ticks, BeginAdvance(ticks) PROVE ServingInv'
  <2>1. UNCHANGED <<sim, input, saved>> /\ job'.kind # "rebuild" BY <1>begin DEF BeginAdvance, session
  <2>. QED BY <2>1, <1>quiet
<1>tick. ASSUME AdvanceTick PROVE ServingInv'
  <2>1. UNCHANGED <<input, saved>> /\ sim' = EngineTick(sim, job.acts) BY <1>tick DEF AdvanceTick
  <2>2. job'.kind # "rebuild"
    <3>1. PICK t, l, a : job = [kind |-> "advance", ticks |-> t, left |-> l, acts |-> a]
      BY <1>tick DEF AdvanceTick, IInv, JobInv, Idle
    <3>2. job' = [job EXCEPT !.left = @ - 1] BY <1>tick DEF AdvanceTick
    <3>. QED BY <3>1, <3>2
  <2>3. sim.tick \in Int BY SimStands
  <2>4. PICK acts : acts = job.acts OBVIOUS
  <2>5. Serves(EngineTick(sim, acts), input.exists, input.actors) BY <1>0, <2>3, TickServes
  <2>6. S' BY <2>1, <2>4, <2>5
  <2>. QED BY <1>0, <2>1, <2>2, <2>6 DEF ServingInv
<1>end. ASSUME EndAdvance PROVE ServingInv'
  <2>1. UNCHANGED <<input, saved>> /\ sim' = [sim EXCEPT !.events = <<>>] /\ job' = Idle
    BY <1>end DEF EndAdvance
  <2>2. EngineShape(sim) BY SimStands
  <2>3. Serves([sim EXCEPT !.events = <<>>], input.exists, input.actors) BY <1>0, <2>2, DrainedServes
  <2>4. S' BY <2>1, <2>3
  <2>5. job'.kind # "rebuild" BY <2>1 DEF Idle
  <2>. QED BY <1>0, <2>1, <2>4, <2>5 DEF ServingInv
<1>checkpoint. ASSUME Checkpoint PROVE ServingInv'
  <2>1. saved'.state = session /\ UNCHANGED <<session, job>> /\ job = Idle BY <1>checkpoint DEF Checkpoint
  <2>2. UNCHANGED <<sim, input>> BY <2>1 DEF session
  <2>3. saved'.state[1] = sim /\ saved'.state[2] = input BY <2>1 DEF session
  <2>4. job'.kind # "rebuild" BY <2>1 DEF Idle
  <2>. QED BY <1>0, <2>2, <2>3, <2>4 DEF ServingInv
<1>restore. ASSUME Restore PROVE ServingInv'
  <2>1. sim' = saved.state[1] /\ input' = saved.state[2] /\ saved # NoCheckpoint
        /\ saved' = NoCheckpoint /\ job = Idle /\ job' = job
    BY <1>restore DEF Restore, Resume
  <2>2. job'.kind # "rebuild" BY <2>1 DEF Idle
  <2>. QED BY <1>0, <2>1, <2>2 DEF ServingInv
<1>stutter. CASE UNCHANGED vars
  <2>1. UNCHANGED <<sim, input, actor_counter, exist_counter, job, saved>> BY <1>stutter DEF vars
  <2>2. World' = World BY <2>1 DEF World
  <2>. QED BY <1>0, <2>1, <2>2 DEF ServingInv
<1>. QED
  BY <1>act, <1>reject, <1>live, <1>rebuild, <1>catchup, <1>commit, <1>begin, <1>tick, <1>end,
     <1>checkpoint, <1>restore, <1>stutter DEF Next, Command

\* The last exist interaction of an actor decides whether it is present, in
\* both modes, through rebuilds and restores, unless a crash disabled it.  At one
\* tick the last is the one whose id sorts last in clip mode, the script's too, and
\* the one that arrived last in live mode.
THEOREM LastExistWinsAlways == Spec => []LastExistWins
<1>1. ServingInv => LastExistWins
  <2> SUFFICES ASSUME ServingInv, NoTerminalAnchor, NEW a \in sim.actors \ sim.crashed,
                      OwnUpTo(input.exists, sim.tick, a) # {}
               PROVE  \E k \in OwnUpTo(input.exists, sim.tick, a) :
                        /\ \A l \in OwnUpTo(input.exists, sim.tick, a) : After(input.exists, k, l)
                        /\ (a \in sim.present) = input.exists[k].state
    BY DEF LastExistWins, OwnUpTo, After
  <2>1. BeforeTheEnd(input.exists) BY DEF NoTerminalAnchor, BeforeTheEnd
  <2>2. DecidedFor(input.exists, sim.tick, sim.present, a) BY <2>1 DEF ServingInv, Serves
  <2>3. PICK k \in OwnUpTo(input.exists, sim.tick, a) :
          /\ \A l \in OwnUpTo(input.exists, sim.tick, a) : After(input.exists, k, l)
          /\ a \in sim.present <=> input.exists[k].state = TRUE
    BY <2>2 DEF DecidedFor
  <2>4. input.exists[k].state \in BOOLEAN BY DEF ServingInv, Serves, WellFormed, OwnUpTo
  <2>5. (a \in sim.present) = input.exists[k].state
    <3>1. CASE a \in sim.present BY <2>3, <3>1
    <3>2. CASE a \notin sim.present BY <2>3, <2>4, <3>2
    <3>. QED BY <3>1, <3>2
  <2>. QED BY <2>3, <2>5
<1>. QED BY <1>1, InitIInv, NextIInv, InitLedgerInv, NextLedgerInv, InitServingInv, NextServingInv, PTL DEF Spec

-----------------------------------------------------------------------------
(* A rebuild shows the past again.  What a batch leaves of the input.      *)

\* The ids a client names are those the model has.
NamedOps(ops) == \A k \in DOMAIN ops : ops[k].op = "spawn" => ops[k].id \in NamedIds \cup {None}

\* After k ops: an exist interaction each, and the cells of the input stay.
Placed(w, r, k) ==
  /\ Len(r.exists) = Len(w.input.exists) + k
  /\ r.exist = w.exist_counter + k
  /\ DOMAIN r.cell = Actors
  /\ \A a \in w.input.actors : r.cell[a] = w.input.cell[a]
  /\ Range(r.spawned) \subseteq Actors

\* The input, whose files are counted.
Filed(inp, counter) ==
  /\ DOMAIN inp.cell = Actors
  /\ inp.actors \subseteq Actors
  /\ Len(inp.exists) = Len(Script) + counter
  /\ counter \in Nat

RunsPlaced(w, ops, r, k) == RunsOn(w, ops, r, k) /\ (r.ok => Placed(w, r, k))

\* An accepted spawn puts the cell of its own actor only.
SpawnPut(w, r, q, cell, id) ==
  /\ id \notin UsedIds(w, r)
  /\ q.spawned = Append(r.spawned, id)
  /\ q.exist = r.exist + 1
  /\ q.cell = [r.cell EXCEPT ![id] = cell]
  /\ q.exists = Append(r.exists, ExistRecord(w, id, TRUE))

LEMMA SpawnPlaces ==
  ASSUME NEW w, NEW r, NEW op, ResolvedShape(r), Given(w, r), Free(w, r) # {},
         ResolveSpawn(w, r, op).ok, op.id \in NamedIds \cup {None}
  PROVE  \E id \in Actors : SpawnPut(w, r, ResolveSpawn(w, r, op), op.cell, id)
<1> DEFINE n  == NextAuto(w, r)
           id == IF op.id = None THEN AutoIds[n] ELSE op.id
           c  == IF op.id = None THEN n ELSE r.counter
           q  == ResolveSpawn(w, r, op)
           refused == \/ op.id # None /\ op.id \in UsedIds(w, r)
                      \/ Misplaced(op)
                      \/ Overlaps(w, r, op.cell)
<1>1. ~refused
  <2>1. q = IF refused THEN [r EXCEPT !.ok = FALSE] ELSE q BY DEF ResolveSpawn
  <2>2. [r EXCEPT !.ok = FALSE].ok = FALSE BY DEF ResolvedShape
  <2> HIDE DEF q, refused
  <2>3. q.ok BY DEF q
  <2>. QED BY <2>1, <2>2, <2>3
<1>2. q = [r EXCEPT !.counter = c, !.exist = @ + 1, !.spawned = Append(@, id),
                    !.cell    = [@ EXCEPT ![id] = op.cell],
                    !.exists  = Append(@, ExistRecord(w, id, TRUE))]
  BY <1>1 DEF ResolveSpawn
<1>3. n \in Free(w, r) BY NextAutoIsFirst DEF Given
<1>4. id \notin UsedIds(w, r) BY <1>1, <1>3 DEF Free
<1>5. id \in Actors
  <2>1. n \in DOMAIN AutoIds BY <1>3 DEF Free
  <2>2. AutoIds[n] \in Actors BY <2>1, WorldAssumption
  <2>. QED BY <2>2, WorldAssumption
<1> HIDE DEF q, n, c, id
<1>6. PICK ok, cc, e, sp, de, ce, ex :
        r = [ok |-> ok, counter |-> cc, exist |-> e, spawned |-> sp, despawned |-> de,
             cell |-> ce, exists |-> ex]
  BY DEF ResolvedShape
<1>7. q = [ok |-> ok, counter |-> c, exist |-> e + 1, spawned |-> Append(sp, id), despawned |-> de,
           cell |-> [ce EXCEPT ![id] = op.cell], exists |-> Append(ex, ExistRecord(w, id, TRUE))]
  BY <1>2, <1>6
<1>8. /\ q.spawned = Append(r.spawned, id)
      /\ q.exist = r.exist + 1
      /\ q.cell = [r.cell EXCEPT ![id] = op.cell]
      /\ q.exists = Append(r.exists, ExistRecord(w, id, TRUE))
  BY <1>6, <1>7
<1>. QED BY <1>4, <1>5, <1>8 DEF q, SpawnPut

\* An accepted despawn puts none.
DespawnPut(w, r, q, id) ==
  /\ q.spawned = r.spawned /\ q.exist = r.exist + 1 /\ q.cell = r.cell
  /\ q.exists = Append(r.exists, ExistRecord(w, id, FALSE))

LEMMA DespawnPlaces ==
  ASSUME NEW w, NEW r, NEW op, ResolvedShape(r), ResolveDespawn(w, r, op).ok
  PROVE  DespawnPut(w, r, ResolveDespawn(w, r, op), op.id)
<1> DEFINE q == ResolveDespawn(w, r, op)
<1>1. PICK ok, c, e, sp, de, ce, ex :
        r = [ok |-> ok, counter |-> c, exist |-> e, spawned |-> sp, despawned |-> de,
             cell |-> ce, exists |-> ex]
  BY DEF ResolvedShape
<1>2. CASE op.id \in (w.sim.present \cup Range(r.spawned)) \ r.despawned
  <2>1. q = [ok |-> ok, counter |-> c, exist |-> e + 1, spawned |-> sp, despawned |-> de \cup {op.id},
             cell |-> ce, exists |-> Append(ex, ExistRecord(w, op.id, FALSE))]
    BY <1>1, <1>2 DEF ResolveDespawn
  <2> HIDE DEF q
  <2>2. /\ q.spawned = r.spawned /\ q.exist = r.exist + 1 /\ q.cell = r.cell
        /\ q.exists = Append(r.exists, ExistRecord(w, op.id, FALSE))
    BY <1>1, <2>1
  <2>. QED BY <2>2 DEF q, DespawnPut
<1>3. CASE op.id \notin (w.sim.present \cup Range(r.spawned)) \ r.despawned
  <2>1. q = [ok |-> FALSE, counter |-> c, exist |-> e, spawned |-> sp, despawned |-> de,
             cell |-> ce, exists |-> ex]
    BY <1>1, <1>3 DEF ResolveDespawn
  <2>2. ~q.ok BY <2>1
  <2>. QED BY <2>2
<1>. QED BY <1>2, <1>3

\* One op more.
LEMMA OpRunsPlaced ==
  ASSUME NEW w, Sound(w), NEW ops, NamedOps(ops), NEW n \in Nat, DOMAIN ops = 1..n, NEW k \in 1..n,
         NEW r, RunsPlaced(w, ops, r, k - 1), w.exist_counter \in Nat, w.input.actors \subseteq Actors
  PROVE  RunsPlaced(w, ops, ResolveOp(w, r, ops[k]), k)
<1> DEFINE q == ResolveOp(w, r, ops[k])
           op == ops[k]
<1>1. RunsOn(w, ops, q, k) BY OpRunsOn DEF RunsPlaced
<1>2. ResolvedShape(r) BY DEF RunsPlaced, RunsOn, RunsWell
<1>3. SUFFICES ASSUME q.ok PROVE Placed(w, q, k) BY <1>1 DEF RunsPlaced
<1>4. r.ok
  <2>1. SUFFICES ASSUME ~r.ok PROVE FALSE OBVIOUS
  <2>2. q = r BY <2>1 DEF ResolveOp
  <2>. QED BY <1>3, <2>1, <2>2
<1>5. /\ Given(w, r) /\ Cardinality(SpawnsLeft(ops, k - 1)) <= Cardinality(Free(w, r))
      /\ Placed(w, r, k - 1) /\ Added(w, r)
  BY <1>4 DEF RunsPlaced, RunsOn, RunsWell
<1>6. /\ \E S : r.exists \in Seq(S)
      /\ Len(w.input.exists) \in Nat /\ \E S : r.spawned \in Seq(S)
  BY <1>5 DEF Added, WellFormed, Given, Sound
<1>7. ASSUME NEW e PROVE Len(Append(r.exists, e)) = Len(w.input.exists) + k
  <2>1. PICK S : r.exists \in Seq(S) BY <1>6
  <2>2. PICK x : x = r.exists OBVIOUS
  <2>3. x \in Seq(S \cup {e}) /\ Len(x) = Len(w.input.exists) + (k - 1) BY <1>5, <2>1, <2>2 DEF Placed
  <2>4. Len(Append(x, e)) = Len(x) + 1 BY <2>3
  <2>. QED BY <1>6, <2>2, <2>3, <2>4
<1>8. r.exist + 1 = w.exist_counter + k BY <1>5 DEF Placed
<1>9. CASE op.op = "spawn"
  <2>1. q = ResolveSpawn(w, r, op) BY <1>4, <1>9 DEF ResolveOp
  <2>2. Free(w, r) # {}
    <3>1. SUFFICES ASSUME Free(w, r) = {} PROVE FALSE OBVIOUS
    <3>2. Cardinality(Free(w, r)) = 0 BY <3>1, FS_EmptySet
    <3>3. k \in SpawnsLeft(ops, k - 1) BY <1>9 DEF SpawnsLeft
    <3>4. IsFiniteSet(SpawnsLeft(ops, k - 1)) /\ Cardinality(SpawnsLeft(ops, k - 1)) \in Nat
      BY CountsFinite
    <3>5. Cardinality(SpawnsLeft(ops, k - 1)) # 0 BY <3>3, <3>4, FS_EmptySet
    <3>. QED BY <1>5, <3>2, <3>4, <3>5
  <2>3. op.id \in NamedIds \cup {None} BY <1>9 DEF NamedOps
  <2>p. PICK o : o = op OBVIOUS
  <2>o. PICK id \in Actors : SpawnPut(w, r, q, o.cell, id)
    <3>1. ResolveSpawn(w, r, o).ok /\ q = ResolveSpawn(w, r, o) /\ o.id \in NamedIds \cup {None}
      BY <1>3, <2>1, <2>3, <2>p
    <3> HIDE DEF q, op
    <3>. QED BY <1>2, <1>5, <2>2, <3>1, SpawnPlaces
  <2> HIDE DEF q
  <2>4. /\ id \notin UsedIds(w, r)
        /\ q.spawned = Append(r.spawned, id)
        /\ q.exist = r.exist + 1
        /\ q.cell = [r.cell EXCEPT ![id] = o.cell]
        /\ q.exists = Append(r.exists, ExistRecord(w, id, TRUE))
    BY <2>o DEF SpawnPut
  <2>5. Len(q.exists) = Len(w.input.exists) + k BY <1>7, <2>4
  <2>6. DOMAIN q.cell = Actors /\ \A a \in w.input.actors : q.cell[a] = w.input.cell[a]
    <3>1. DOMAIN r.cell = Actors /\ \A a \in w.input.actors : r.cell[a] = w.input.cell[a]
      BY <1>5 DEF Placed
    <3>2. id \notin w.input.actors BY <2>4 DEF UsedIds
    <3>3. \A a \in DOMAIN r.cell : a # id => [r.cell EXCEPT ![id] = o.cell][a] = r.cell[a] OBVIOUS
    <3>. QED BY <2>4, <3>1, <3>2, <3>3
  <2>7. Range(q.spawned) \subseteq Actors
    <3>1. PICK sp : sp = r.spawned OBVIOUS
    <3>2. PICK S : sp \in Seq(S) BY <1>6, <3>1
    <3>3. sp \in Seq(S \cup {id}) BY <3>2
    <3>4. \A k1 \in DOMAIN Append(sp, id) : Append(sp, id)[k1] = id \/ (k1 \in DOMAIN sp /\ Append(sp, id)[k1] = sp[k1])
      BY <3>3
    <3>5. Range(sp) \subseteq Actors BY <1>5, <3>1 DEF Placed
    <3>6. Range(Append(sp, id)) \subseteq Actors BY <3>4, <3>5 DEF Range
    <3>. QED BY <2>4, <3>1, <3>6
  <2>. QED BY <1>8, <2>4, <2>5, <2>6, <2>7 DEF Placed, q
<1>10. CASE op.op # "spawn"
  <2>1. q = ResolveDespawn(w, r, op) BY <1>4, <1>10 DEF ResolveOp
  <2>2. DespawnPut(w, r, q, op.id) BY <1>2, <1>3, <2>1, DespawnPlaces
  <2> HIDE DEF q
  <2>3. Len(q.exists) = Len(w.input.exists) + k BY <1>7, <2>2 DEF DespawnPut
  <2>. QED BY <1>5, <1>8, <2>2, <2>3 DEF Placed, q, DespawnPut
<1>. QED BY <1>9, <1>10

\* What an accepted batch leaves of the input.
LEMMA ResolvePlaces ==
  ASSUME NEW w, Sound(w), NEW ops, NamedOps(ops), NEW n \in Nat, DOMAIN ops = 1..n,
         Given(w, Unresolved(w)), w.exist_counter \in Nat, DOMAIN w.input.cell = Actors,
         w.input.actors \subseteq Actors,
         Cardinality(SpawnsLeft(ops, 0)) <= Cardinality(Free(w, Unresolved(w))),
         Resolve(w, ops).ok
  PROVE  n > 0 /\ Placed(w, Resolve(w, ops), n)
<1>1. ResolvedShape(Unresolved(w)) BY DEF ResolvedShape, Unresolved
<1>2. ops # <<>>
  <2>1. CASE ops = <<>>
    <3>1. Resolve(w, ops) = [Unresolved(w) EXCEPT !.ok = FALSE] BY <2>1 DEF Resolve
    <3>2. ~Resolve(w, ops).ok BY <1>1, <3>1 DEF ResolvedShape
    <3>. QED BY <3>2
  <2>. QED BY <2>1
<1>3. PICK g : /\ g[0] = Unresolved(w)
               /\ \A k \in 1..n : g[k] = ResolveOp(w, g[k - 1], ops[k])
               /\ Resolve(w, ops) = g[n]
  BY <1>2, ResolveRuns
<1> DEFINE S == {k \in Nat : k <= n => RunsPlaced(w, ops, g[k], k)}
<1>4. 0 \in S
  <2> DEFINE u == Unresolved(w)
             x == w.input.exists
  <2>1. u.exists = x /\ u.despawned = {} /\ u.spawned = <<>> /\ u.cell = w.input.cell
        /\ u.exist = w.exist_counter
    BY DEF Unresolved
  <2>2. Range(u.spawned) = {} BY <2>1 DEF Range
  <2>3. UsedIds(w, u) = w.input.actors BY <2>2 DEF UsedIds
  <2>4. WellFormed(x, w.input.actors) /\ Len(x) \in Nat /\ DOMAIN x = 1..Len(x)
    BY DEF Sound, WellFormed
  <2> HIDE DEF u, x
  <2>5. \A a : NewFor(x, Len(x), a) = {} BY <2>4 DEF NewFor
  <2>6. Added(w, u) BY <2>1, <2>2, <2>3, <2>4, <2>5 DEF Added, AddedFor, x
  <2>7. RunsWell(w, ops, u, 0) BY <1>1 DEF RunsWell, u
  <2>8. Placed(w, u, 0) BY <2>1, <2>2, <2>4 DEF Placed, x
  <2>. QED BY <1>3, <2>6, <2>7, <2>8 DEF RunsOn, RunsPlaced, u
<1>5. ASSUME NEW k \in Nat, k \in S PROVE k + 1 \in S
  <2>1. SUFFICES ASSUME k + 1 <= n PROVE RunsPlaced(w, ops, g[k + 1], k + 1)
    OBVIOUS
  <2>2. k + 1 \in 1..n /\ (k + 1) - 1 = k /\ RunsPlaced(w, ops, g[k], k) BY <1>5, <2>1
  <2>3. RunsPlaced(w, ops, g[(k + 1) - 1], (k + 1) - 1) BY <2>2
  <2>4. g[k + 1] = ResolveOp(w, g[(k + 1) - 1], ops[k + 1]) BY <1>3, <2>2
  <2> HIDE DEF S
  <2>. QED BY <2>2, <2>3, <2>4, OpRunsPlaced
<1> HIDE DEF S
<1>6. n \in S BY <1>4, <1>5, Induction
<1>7. RunsPlaced(w, ops, Resolve(w, ops), n) BY <1>3, <1>6 DEF S
<1>8. n > 0
  <2>1. SUFFICES ASSUME n = 0 PROVE FALSE OBVIOUS
  <2>2. Resolve(w, ops) = g[0] /\ DOMAIN ops = {} BY <1>3, <2>1
  <2>. QED BY <1>2, <2>2
<1>. QED BY <1>7, <1>8 DEF RunsPlaced

-----------------------------------------------------------------------------
(* Two runs, of an input and of the same with interactions added.          *)

\* What two engines have in common as far as the actors A can tell.
Alike(s, z, A) ==
  /\ z.tick = s.tick /\ z.done = s.done
  /\ z.present = s.present /\ z.crashed = s.crashed /\ z.settled = s.settled
  /\ \A a \in A : z.cell[a] = s.cell[a]

\* The interactions y are x and others anchored at tick c or after.
Longer(x, y, c) ==
  /\ Len(x) <= Len(y)
  /\ \A k \in 1..Len(x) : y[k] = x[k]
  /\ \A k \in DOMAIN y : k > Len(x) => y[k].at >= c

\* The interactions of another input that come due together are the same.
LEMMA SameDue ==
  ASSUME NEW s, NEW z, NEW A, NEW B, WellFormed(s.exists, A), WellFormed(z.exists, B), NEW c \in Int,
         Longer(s.exists, z.exists, c), z.settled = s.settled, NEW i \in Int, i < c
  PROVE  DueAt(z, i) = DueAt(s, i)
<1> DEFINE x == s.exists
           y == z.exists
<1>1. DOMAIN x = 1..Len(x) /\ Len(x) \in Nat /\ DOMAIN y = 1..Len(y) /\ Len(y) \in Nat
      /\ \A k \in DOMAIN y : y[k].at \in Nat
  BY DEF WellFormed
<1>2. ASSUME NEW k PROVE k \in DueAt(z, i) <=> k \in DueAt(s, i)
  <2>1. CASE k \in DOMAIN x
    <3>1. k \in DOMAIN y /\ y[k] = x[k] BY <1>1, <2>1 DEF Longer
    <3>. QED BY <2>1, <3>1 DEF DueAt
  <2>2. CASE k \notin DOMAIN x
    <3>1. k \notin DueAt(s, i) BY <2>2 DEF DueAt
    <3>2. ASSUME k \in DOMAIN y PROVE ~(y[k].at <= i)
      <4>1. k > Len(x) /\ y[k].at \in Nat BY <1>1, <2>2, <3>2
      <4>2. y[k].at >= c BY <3>2, <4>1 DEF Longer
      <4>. QED BY <4>1, <4>2
    <3>3. k \notin DueAt(z, i) BY <3>2 DEF DueAt
    <3>. QED BY <3>1, <3>3
  <2>. QED BY <2>1, <2>2
<1>3. DueAt(z, i) \subseteq DOMAIN y /\ DueAt(s, i) \subseteq DOMAIN x BY DEF DueAt
<1>. QED BY <1>2, <1>3

\* So are their verdicts.
LEMMA SamePending ==
  ASSUME NEW s, NEW z, NEW A, NEW B, WellFormed(s.exists, A), WellFormed(z.exists, B), NEW c,
         Longer(s.exists, z.exists, c), z.present = s.present, NEW i, DueAt(z, i) = DueAt(s, i),
         NEW crashed
  PROVE  ExistVerdicts(z, i, crashed).pending = ExistVerdicts(s, i, crashed).pending
<1> DEFINE F(e) == DOMAIN e.exists
<1>1. /\ F(s) \subseteq F(z) /\ \A k \in F(s) : z.exists[k] = s.exists[k]
  <2>1. DOMAIN s.exists = 1..Len(s.exists) /\ DOMAIN z.exists = 1..Len(z.exists)
        /\ Len(s.exists) \in Nat /\ Len(z.exists) \in Nat
    BY DEF WellFormed
  <2>. QED BY <2>1 DEF Longer
<1>2. DueAt(s, i) \subseteq F(s) BY DEF DueAt
<1>3. ASSUME NEW a
      PROVE  a \in ExistVerdicts(z, i, crashed).pending <=> a \in ExistVerdicts(s, i, crashed).pending
  <2>1. DueOf(z, i, a, F(z)) = DueOf(s, i, a, F(s)) BY <1>1, <1>2 DEF DueOf
  <2>2. \A m \in DueOf(s, i, a, F(s)) : z.exists[m] = s.exists[m] BY <1>1 DEF DueOf
  <2>3. a \in z.present <=> a \in s.present OBVIOUS
  <2>. QED BY <2>1, <2>2, <2>3, VerdictsAgree
<1>. QED BY <1>3

\* A tick keeps two engines alike, when the same comes due and the actors A do
\* the same.
LEMMA AlikeTick ==
  ASSUME NEW s, NEW z, NEW A, NEW B, A \subseteq Actors, Alike(s, z, A), s.present \subseteq A,
         WellFormed(s.exists, A), WellFormed(z.exists, B), NEW c, Longer(s.exists, z.exists, c),
         DueAt(z, s.tick + 1) = DueAt(s, s.tick + 1), NEW acts, NEW acz, \A a \in A : acz[a] = acts[a]
  PROVE  Alike(EngineTick(s, acts), EngineTick(z, acz), A)
<1> DEFINE i    == s.tick + 1
           last == Mode = "clip" /\ i = ClipTicks
           cr   == CrashedNow(s)
           P    == ExistVerdicts(s, i, cr).pending
           p    == EngineTick(s, acts)
           q    == EngineTick(z, acz)
<1>1. CrashedNow(z) = cr
  <2>1. \A a \in s.present : Collides(z, a) <=> Collides(s, a) BY DEF Collides, Alike
  <2>. QED BY <2>1 DEF CrashedNow, Alike
<1>2. z.present = s.present /\ z.tick = s.tick /\ z.settled = s.settled BY DEF Alike
<1>3. ExistVerdicts(z, i, cr).pending = P
  <2>1. DueAt(z, i) = DueAt(s, i) OBVIOUS
  <2> HIDE DEF cr, i
  <2>2. ExistVerdicts(z, i, cr).pending = ExistVerdicts(s, i, cr).pending
    BY <1>2, <2>1, SamePending
  <2>. QED BY <2>2
<1>4. P \subseteq A
  <2> HIDE DEF cr, i
  <2>. QED BY VerdictsWithin
<1>5. /\ p.tick = i /\ p.done = last /\ p.crashed = cr /\ p.settled = s.settled \cup DueAt(s, i)
      /\ p.present = IF last THEN s.present ELSE P
      /\ p.cell = IF last THEN s.cell ELSE Stepped(s, P, cr, acts)
  BY DEF EngineTick
<1>6. /\ q.tick = i /\ q.done = last /\ q.crashed = cr /\ q.settled = s.settled \cup DueAt(s, i)
      /\ q.present = IF last THEN s.present ELSE P
      /\ q.cell = IF last THEN z.cell ELSE Stepped(z, P, cr, acz)
  BY <1>1, <1>2, <1>3 DEF EngineTick
<1> HIDE DEF p, q, P, cr, last, i
<1>7. ASSUME NEW a \in A PROVE q.cell[a] = p.cell[a]
  <2>1. z.cell[a] = s.cell[a] /\ a \in Actors /\ acz[a] = acts[a] BY DEF Alike
  <2>2. Blocked(z, P, a) <=> Blocked(s, P, a) BY <1>4, <2>1 DEF Blocked, Alike
  <2>3. Moves(z, P, cr, acz, a) <=> Moves(s, P, cr, acts, a) BY <2>1, <2>2 DEF Moves
  <2>4. Stepped(z, P, cr, acz)[a] = Stepped(s, P, cr, acts)[a] BY <2>1, <2>3 DEF Stepped
  <2>. QED BY <1>5, <1>6, <2>1, <2>4
<1>8. Alike(p, q, A) BY <1>5, <1>6, <1>7 DEF Alike
<1>. QED BY <1>8 DEF p, q

-----------------------------------------------------------------------------

\* The engines of a world from t = 0 to tick n, each driven by the timeline.
RunOf(E, inp, line, n) ==
  /\ n \in Nat /\ Mode = "clip"
  /\ E[0] = Parked0(inp)
  /\ \A j \in 1..n : E[j] = EngineTick(E[j - 1], ActionsAt(line, j - 1, inp.actors))

\* An input an engine can be built on.
Buildable(inp) ==
  /\ WellFormed(inp.exists, inp.actors)
  /\ StartPresent \subseteq inp.actors
  /\ inp.actors \subseteq Actors

\* An engine of a run: it stands at its tick and serves the input.
RunsAt(s, inp, j) ==
  /\ s.tick = j /\ s.exists = inp.exists /\ s.actors = inp.actors
  /\ Serves(s, inp.exists, inp.actors)

LEMMA RunServes ==
  ASSUME NEW E, NEW inp, NEW line, NEW n, RunOf(E, inp, line, n), Buildable(inp), NEW j \in 0..n
  PROVE  RunsAt(E[j], inp, j)
<1> DEFINE S == {k \in Nat : k <= n => RunsAt(E[k], inp, k)}
<1>0. n \in Nat BY DEF RunOf
<1>1. 0 \in S
  <2>1. E[0] = Parked0(inp) BY DEF RunOf
  <2>2. Parked0(inp).tick = 0 /\ Parked0(inp).exists = inp.exists /\ Parked0(inp).actors = inp.actors
    BY DEF Parked0, EngineTick, NewSim
  <2>3. Serves(Parked0(inp), inp.exists, inp.actors) BY NewEngineServes DEF Buildable, RunOf
  <2>. QED BY <2>1, <2>2, <2>3 DEF RunsAt
<1>2. ASSUME NEW k \in Nat, k \in S PROVE k + 1 \in S
  <2>1. SUFFICES ASSUME k + 1 <= n PROVE RunsAt(E[k + 1], inp, k + 1) OBVIOUS
  <2>2. k + 1 \in 1..n /\ (k + 1) - 1 = k /\ RunsAt(E[k], inp, k) BY <1>0, <1>2, <2>1
  <2>3. PICK acts : acts = ActionsAt(line, k, inp.actors) OBVIOUS
  <2>4. E[k + 1] = EngineTick(E[k], acts) BY <2>2, <2>3 DEF RunOf
  <2>5. PICK s : s = E[k] OBVIOUS
  <2>6. s.tick = k /\ s.exists = inp.exists /\ s.actors = inp.actors /\ Serves(s, inp.exists, inp.actors)
    BY <2>2, <2>5 DEF RunsAt
  <2>7. Serves(EngineTick(s, acts), inp.exists, inp.actors) BY <2>6, TickServes
  <2>8. /\ EngineTick(s, acts).tick = k + 1 /\ EngineTick(s, acts).exists = inp.exists
        /\ EngineTick(s, acts).actors = inp.actors
    BY <2>6 DEF EngineTick
  <2>. QED BY <2>4, <2>5, <2>7, <2>8 DEF RunsAt
<1> HIDE DEF S
<1>3. j \in Nat /\ j <= n BY <1>0
<1>4. j \in S BY <1>1, <1>2, <1>3, Induction
<1>. QED BY <1>3, <1>4 DEF S

\* A run one tick on.
LEMMA RunGrows ==
  ASSUME NEW E, NEW inp, NEW line, NEW n, RunOf(E, inp, line, n), NEW s,
         s = EngineTick(E[n], ActionsAt(line, n, inp.actors))
  PROVE  \E F : RunOf(F, inp, line, n + 1) /\ F[n + 1] = s /\ \A j \in 0..n : F[j] = E[j]
<1> DEFINE F == [j \in 0..(n + 1) |-> IF j <= n THEN E[j] ELSE s]
<1>0. n \in Nat /\ n + 1 \in Nat BY DEF RunOf
<1>1. F[n + 1] = s /\ \A j \in 0..n : F[j] = E[j] BY <1>0
<1> HIDE DEF F
<1>2. F[0] = Parked0(inp) BY <1>0, <1>1 DEF RunOf
<1>3. ASSUME NEW j \in 1..(n + 1) PROVE F[j] = EngineTick(F[j - 1], ActionsAt(line, j - 1, inp.actors))
  <2>1. CASE j = n + 1
    <3>1. j - 1 = n /\ n \in 0..n BY <1>0, <2>1
    <3>. QED BY <1>1, <2>1, <3>1
  <2>2. CASE j # n + 1
    <3>1. j \in 1..n /\ j \in 0..n /\ j - 1 \in 0..n BY <1>0, <2>2
    <3>. QED BY <1>1, <3>1 DEF RunOf
  <2>. QED BY <2>1, <2>2
<1>. QED BY <1>0, <1>1, <1>2, <1>3 DEF RunOf

\* The candidate of a command at tick c: the input, with actors who are not there
\* before, and interactions anchored at c.
Enlarges(inp, cand, c) ==
  /\ Buildable(inp) /\ Buildable(cand)
  /\ inp.actors \subseteq cand.actors
  /\ \A a \in inp.actors : cand.cell[a] = inp.cell[a]
  /\ Longer(inp.exists, cand.exists, c)

LEMMA SameActs ==
  ASSUME NEW line, NEW j, NEW A, NEW B, A \subseteq B, A \subseteq Actors, NEW a \in A
  PROVE  ActionsAt(line, j, B)[a] = ActionsAt(line, j, A)[a]
BY DEF ActionsAt

\* The run of the candidate shows what that of the input does, before c.
LEMMA RunsAlike ==
  ASSUME NEW inp, NEW cand, NEW c \in Nat, Enlarges(inp, cand, c), NEW line, NEW E, NEW n, NEW Z, NEW m,
         RunOf(E, inp, line, n), RunOf(Z, cand, line, m), NEW t \in Nat, t <= n, t <= m, t < c
  PROVE  Alike(E[t], Z[t], inp.actors)
<1> DEFINE A == inp.actors
           S == {k \in Nat : k <= t => Alike(E[k], Z[k], A)}
<1>0. n \in Nat /\ m \in Nat BY DEF RunOf
<1>1. /\ WellFormed(inp.exists, A) /\ WellFormed(cand.exists, cand.actors) /\ A \subseteq Actors
      /\ Longer(inp.exists, cand.exists, c) /\ StartPresent \subseteq A /\ A \subseteq cand.actors
      /\ \A a \in A : cand.cell[a] = inp.cell[a]
  BY DEF Enlarges, Buildable
<1> HIDE DEF A
<1>2. 0 \in S
  <2> DEFINE s == NewSim(inp)
             z == NewSim(cand)
  <2>1. /\ s.tick = -1 /\ s.exists = inp.exists /\ s.present = StartPresent
        /\ z.exists = cand.exists /\ z.settled = s.settled
    BY DEF NewSim
  <2>2. Alike(s, z, A) BY <1>1 DEF Alike, NewSim
  <2>3. E[0] = EngineTick(s, NoActs) /\ Z[0] = EngineTick(z, NoActs) BY DEF RunOf, Parked0
  <2> HIDE DEF s, z
  <2>4. DueAt(z, 0) = DueAt(s, 0)
    <3>1. c \in Int /\ 0 < c OBVIOUS
    <3>. QED BY <1>1, <2>1, <3>1, SameDue
  <2>5. s.tick + 1 = 0 BY <2>1
  <2>6. Alike(EngineTick(s, NoActs), EngineTick(z, NoActs), A)
    BY <1>1, <2>1, <2>2, <2>4, <2>5, AlikeTick
  <2>. QED BY <2>3, <2>6
<1>3. ASSUME NEW k \in Nat, k \in S PROVE k + 1 \in S
  <2>1. SUFFICES ASSUME k + 1 <= t PROVE Alike(E[k + 1], Z[k + 1], A) OBVIOUS
  <2>2. /\ k + 1 \in 1..n /\ k + 1 \in 1..m /\ (k + 1) - 1 = k /\ k \in 0..n /\ k \in 0..m
        /\ k + 1 < c /\ Alike(E[k], Z[k], A)
    BY <1>0, <1>3, <2>1
  <2>3. PICK s, z : s = E[k] /\ z = Z[k] OBVIOUS
  <2>4. PICK acts, acz : acts = ActionsAt(line, k, inp.actors) /\ acz = ActionsAt(line, k, cand.actors)
    OBVIOUS
  <2>5. E[k + 1] = EngineTick(s, acts) /\ Z[k + 1] = EngineTick(z, acz)
    BY <2>2, <2>3, <2>4 DEF RunOf
  <2>6. RunsAt(s, inp, k) /\ RunsAt(z, cand, k)
    BY <2>2, <2>3, RunServes DEF Enlarges
  <2>7. s.tick = k /\ s.exists = inp.exists /\ z.exists = cand.exists /\ s.present \subseteq A
    BY <2>6 DEF RunsAt, Serves, A
  <2>8. Alike(s, z, A) BY <2>2, <2>3
  <2>9. DueAt(z, k + 1) = DueAt(s, k + 1)
    <3>1. z.settled = s.settled BY <2>8 DEF Alike
    <3>2. c \in Int /\ k + 1 \in Int /\ k + 1 < c BY <2>2
    <3>. QED BY <1>1, <2>7, <3>1, <3>2, SameDue
  <2>10. \A a \in A : acz[a] = acts[a] BY <1>1, <2>4, SameActs DEF A
  <2> HIDE DEF S
  <2>11. Alike(EngineTick(s, acts), EngineTick(z, acz), A)
    BY <1>1, <2>7, <2>8, <2>9, <2>10, AlikeTick
  <2>. QED BY <2>5, <2>11
<1> HIDE DEF S
<1>4. t \in S BY <1>2, <1>3, Induction
<1>. QED BY <1>4 DEF S, A

-----------------------------------------------------------------------------
(* What the input files, and how many.                                     *)

FiledInv ==
  /\ Filed(input, exist_counter)
  /\ job.kind = "rebuild" => NamedOps(job.ops)
  /\ saved # NoCheckpoint => Filed(saved.state[2], saved.state[5])

LEMMA BatchNamed ==
  ASSUME NEW ops \in Batches PROVE NamedOps(ops)
<1>1. PICK n \in 0..MaxBatch : ops \in [1..n -> Ops] BY DEF Batches
<1>2. \A o \in Ops : o.op = "spawn" => o.id \in NamedIds \cup {None}
  BY DEF Ops, SpawnOp, DespawnOp
<1>3. \A k \in DOMAIN ops : ops[k] \in Ops BY <1>1
<1>. QED BY <1>2, <1>3 DEF NamedOps

\* What an approved batch files.
LEMMA ApprovedPlaces ==
  ASSUME IInv, Ledger(input.actors, actor_counter, entries), Serves(sim, input.exists, input.actors),
         Filed(input, exist_counter), NEW ops, Approved(ops), NamedOps(ops)
  PROVE  \E n \in Nat : n > 0 /\ Placed(World, Resolve(World, ops), n)
<1>1. Sound(World) BY ApprovedAdds
<1>2. PICK n \in Nat : DOMAIN ops = 1..n BY DEF Approved
<1>3. Resolve(World, ops).ok BY DEF Approved
<1>4. World.input = input /\ World.exist_counter = exist_counter BY DEF World
<1>5. World.exist_counter \in Nat /\ DOMAIN World.input.cell = Actors /\ World.input.actors \subseteq Actors
  BY <1>4 DEF Filed
<1>6. n > 0 /\ Placed(World, Resolve(World, ops), n)
  BY <1>1, <1>2, <1>3, <1>5, ApprovedStarts, ResolvePlaces
<1>. QED BY <1>6

\* The input after a commit.
LEMMA CommitFiles ==
  ASSUME IInv, LedgerInv, ServingInv, FiledInv, NEW ops, Approved(ops), NamedOps(ops),
         Commit(ops, Resolve(World, ops))
  PROVE  Filed(input', exist_counter')
<1>1. PICK r : r = Resolve(World, ops) OBVIOUS
<1>2. PICK n \in Nat : n > 0 /\ Placed(World, r, n)
  BY <1>1, ApprovedPlaces DEF LedgerInv, ServingInv, FiledInv
<1>3. World.input = input /\ World.exist_counter = exist_counter BY DEF World
<1>4. /\ input'.actors = input.actors \cup Range(r.spawned)
      /\ input'.cell = r.cell /\ input'.exists = r.exists /\ exist_counter' = r.exist
  BY <1>1, <1>3 DEF Commit, Candidate
<1>5. /\ Len(r.exists) = Len(input.exists) + n /\ r.exist = exist_counter + n
      /\ DOMAIN r.cell = Actors /\ Range(r.spawned) \subseteq Actors
  BY <1>2, <1>3 DEF Placed
<1>6. input.actors \subseteq Actors /\ Len(input.exists) = Len(Script) + exist_counter /\ exist_counter \in Nat
  BY DEF FiledInv, Filed
<1>7. Script \in Seq([actor: DOMAIN BaseCell, at: Nat, state: BOOLEAN]) BY WorldAssumption
<1>8. Len(Script) \in Nat BY <1>7
<1>. QED BY <1>4, <1>5, <1>6, <1>8 DEF Filed

LEMMA InitFiledInv == Init => FiledInv
<1> SUFFICES ASSUME Init PROVE FiledInv OBVIOUS
<1>1. /\ input = [actors |-> DOMAIN BaseCell,
                  cell |-> [a \in Actors |-> IF a \in DOMAIN BaseCell THEN BaseCell[a] ELSE 0],
                  exists |-> Script]
      /\ exist_counter = 0 /\ job.kind # "rebuild" /\ ~(saved # NoCheckpoint)
  BY DEF Init, Idle
<1>2. Script \in Seq([actor: DOMAIN BaseCell, at: Nat, state: BOOLEAN]) /\ DOMAIN BaseCell \subseteq Actors
  BY WorldAssumption
<1>3. Len(Script) \in Nat BY <1>2
<1>. QED BY <1>1, <1>2, <1>3 DEF FiledInv, Filed

LEMMA NextFiledInv == IInv /\ LedgerInv /\ ServingInv /\ FiledInv /\ [Next]_vars => FiledInv'
<1> SUFFICES ASSUME IInv, LedgerInv, ServingInv, FiledInv, [Next]_vars PROVE FiledInv' OBVIOUS
<1>0. /\ Filed(input, exist_counter)
      /\ saved # NoCheckpoint => Filed(saved.state[2], saved.state[5])
      /\ job.kind = "rebuild" => Approved(job.ops) /\ NamedOps(job.ops)
  BY DEF FiledInv, LedgerInv
<1>quiet. ASSUME UNCHANGED <<input, exist_counter, saved>>, job'.kind # "rebuild" PROVE FiledInv'
  BY <1>0, <1>quiet DEF FiledInv
<1>act. ASSUME NEW a, NEW action, Act(a, action) PROVE FiledInv'
  <2>1. UNCHANGED <<input, exist_counter, saved>> /\ job' = Idle BY <1>act DEF Act, Ready
  <2>. QED BY <2>1, <1>quiet DEF Idle
<1>reject. ASSUME NEW ops \in Batches, RejectStructural(ops) PROVE FiledInv'
  <2>1. UNCHANGED <<input, exist_counter, saved>> /\ job' = Idle
    BY <1>reject DEF RejectStructural, StructuralReady, Ready
  <2>. QED BY <2>1, <1>quiet DEF Idle
<1>live. ASSUME NEW ops \in Batches, CommitLive(ops) PROVE FiledInv'
  <2>1. Approved(ops) /\ Commit(ops, Resolve(World, ops)) /\ job' = Idle
    BY <1>live, BatchDomain DEF CommitLive, StructuralReady, Ready, Approved
  <2>2. Filed(input', exist_counter') BY <2>1, BatchNamed, CommitFiles
  <2>3. UNCHANGED saved /\ job'.kind # "rebuild" BY <2>1 DEF Commit, Idle
  <2>. QED BY <1>0, <2>2, <2>3 DEF FiledInv
<1>rebuild. ASSUME NEW ops \in Batches, BeginRebuild(ops) PROVE FiledInv'
  <2>1. job'.ops = ops /\ UNCHANGED <<session, saved>> BY <1>rebuild DEF BeginRebuild
  <2>2. UNCHANGED <<input, exist_counter>> BY <2>1 DEF session
  <2>. QED BY <1>0, <2>1, <2>2, BatchNamed DEF FiledInv
<1>catchup. ASSUME CatchUp PROVE FiledInv'
  <2>1. PICK o, c, d, a : job = [kind |-> "rebuild", ops |-> o, cand |-> c, done |-> d, acts |-> a]
    BY <1>catchup DEF CatchUp, IInv, JobInv, Idle
  <2>2. job'.ops = job.ops /\ job.kind = "rebuild" /\ UNCHANGED <<session, saved>>
    BY <1>catchup, <2>1 DEF CatchUp
  <2>3. UNCHANGED <<input, exist_counter>> BY <2>2 DEF session
  <2>. QED BY <1>0, <2>2, <2>3 DEF FiledInv
<1>commit. ASSUME CommitClip PROVE FiledInv'
  <2>1. Approved(job.ops) /\ NamedOps(job.ops) /\ Commit(job.ops, Resolve(World, job.ops)) /\ job' = Idle
    BY <1>0, <1>commit DEF CommitClip
  <2>2. Filed(input', exist_counter') BY <2>1, CommitFiles
  <2>3. UNCHANGED saved /\ job'.kind # "rebuild" BY <2>1 DEF Commit, Idle
  <2>. QED BY <1>0, <2>2, <2>3 DEF FiledInv
<1>begin. ASSUME NEW ticks, BeginAdvance(ticks) PROVE FiledInv'
  <2>1. UNCHANGED <<input, exist_counter, saved>> /\ job'.kind # "rebuild"
    BY <1>begin DEF BeginAdvance, session
  <2>. QED BY <2>1, <1>quiet
<1>tick. ASSUME AdvanceTick PROVE FiledInv'
  <2>1. PICK t, l, a : job = [kind |-> "advance", ticks |-> t, left |-> l, acts |-> a]
    BY <1>tick DEF AdvanceTick, IInv, JobInv, Idle
  <2>2. job' = [job EXCEPT !.left = @ - 1] /\ UNCHANGED <<input, exist_counter, saved>>
    BY <1>tick DEF AdvanceTick
  <2>3. job'.kind # "rebuild" BY <2>1, <2>2
  <2>. QED BY <2>2, <2>3, <1>quiet
<1>end. ASSUME EndAdvance PROVE FiledInv'
  <2>1. UNCHANGED <<input, exist_counter, saved>> /\ job' = Idle BY <1>end DEF EndAdvance
  <2>. QED BY <2>1, <1>quiet DEF Idle
<1>checkpoint. ASSUME Checkpoint PROVE FiledInv'
  <2>1. saved'.state = session /\ UNCHANGED <<session, job>> /\ job = Idle BY <1>checkpoint DEF Checkpoint
  <2>2. UNCHANGED <<input, exist_counter>> /\ saved'.state[2] = input /\ saved'.state[5] = exist_counter
    BY <2>1 DEF session
  <2>3. job'.kind # "rebuild" BY <2>1 DEF Idle
  <2>. QED BY <1>0, <2>2, <2>3 DEF FiledInv
<1>restore. ASSUME Restore PROVE FiledInv'
  <2>1. input' = saved.state[2] /\ exist_counter' = saved.state[5] /\ saved # NoCheckpoint
        /\ saved' = NoCheckpoint /\ job = Idle /\ job' = job
    BY <1>restore DEF Restore, Resume
  <2>2. job'.kind # "rebuild" BY <2>1 DEF Idle
  <2>. QED BY <1>0, <2>1, <2>2 DEF FiledInv
<1>stutter. CASE UNCHANGED vars
  <2>1. UNCHANGED <<input, exist_counter, job, saved>> BY <1>stutter DEF vars
  <2>. QED BY <1>0, <2>1 DEF FiledInv
<1>. QED
  BY <1>act, <1>reject, <1>live, <1>rebuild, <1>catchup, <1>commit, <1>begin, <1>tick, <1>end,
     <1>checkpoint, <1>restore, <1>stutter DEF Next, Command

\* A rejected batch consumes nothing: every number up to the counter names an
\* actor, the actors are those the log has given, and the exist interactions
\* beyond the script are those the commits have numbered (apply_structural).
THEOREM CountersOnlyByCommitAlways == Spec => []CountersOnlyByCommit
<1>1. LedgerInv /\ FiledInv => CountersOnlyByCommit
  <2> SUFFICES ASSUME LedgerInv, FiledInv PROVE CountersOnlyByCommit
    OBVIOUS
  <2>1. AcceptedIds = {k \in DOMAIN entries : Accepted(entries[k])} BY DEF AcceptedIds, Accepted
  <2>. QED BY <2>1 DEF LedgerInv, FiledInv, Ledger, Filed, CountersOnlyByCommit
<1>. QED
  BY <1>1, InitIInv, NextIInv, InitLedgerInv, NextLedgerInv, InitServingInv, NextServingInv,
     InitFiledInv, NextFiledInv, PTL DEF Spec

-----------------------------------------------------------------------------

\* A frame is what an engine shows at its tick, unless a command is anchored there.
Shown(f, e, x, t) ==
  \/ \E k \in DOMAIN x : k > Len(Script) /\ x[k].at = t
  \/ /\ f.present = e.present /\ f.actors \subseteq e.actors
     /\ \A a \in f.actors : f.cell[a] = e.cell[a]

\* The timeline up to tick n.
LineTo(line, n) ==
  /\ \E S : line \in Seq(S)
  /\ \A k \in DOMAIN line : line[k].from \in Nat /\ line[k].from <= n

\* The world stands at the end of the run of its input, and the digest shows that run.
Retraced(E, s, inp, line, dg) ==
  /\ RunOf(E, inp, line, s.tick)
  /\ Alike(E[s.tick], s, inp.actors)
  /\ \A t \in DOMAIN dg : t \in 1..s.tick /\ Shown(dg[t], E[t], inp.exists, t)

Past(s, inp, line, dg) ==
  /\ s.exists = inp.exists /\ s.actors = inp.actors
  /\ LineTo(line, s.tick)
  /\ \E E : Retraced(E, s, inp, line, dg)

\* Epochs from tick n on say nothing of what was done before.
LEMMA EarlierActs ==
  ASSUME NEW line, NEW n \in Nat, LineTo(line, n), NEW e, e.from = n, NEW j \in Nat, j < n, NEW A
  PROVE  ActionsAt(Append(line, e), j, A) = ActionsAt(line, j, A)
<1> DEFINE more == Append(line, e)
           past(a) == {k \in EpochsOf(line, a) : line[k].from <= j}
           now(a) == {k \in EpochsOf(more, a) : more[k].from <= j}
<1>1. PICK S : line \in Seq(S) BY DEF LineTo
<1>2. line \in Seq(S \cup {e}) /\ more \in Seq(S \cup {e}) BY <1>1
<1>3. Len(line) \in Nat /\ DOMAIN line = 1..Len(line) /\ DOMAIN more = 1..(Len(line) + 1)
      /\ more[Len(line) + 1] = e /\ \A k \in 1..Len(line) : more[k] = line[k]
  BY <1>2
<1> HIDE DEF more
<1>4. ~(n <= j) OBVIOUS
<1>5. ASSUME NEW a PROVE now(a) = past(a) BY <1>3, <1>4 DEF EpochsOf
<1>6. ASSUME NEW a, past(a) # {} PROVE Max(past(a)) \in DOMAIN line
  <2>1. past(a) \subseteq 1..Len(line) BY <1>3 DEF EpochsOf
  <2> HIDE DEF past
  <2>2. Max(past(a)) \in past(a) BY <1>3, <1>6, <2>1, LastPosition
  <2>. QED BY <1>3, <2>1, <2>2
<1> DEFINE act(l, s) == l[Max(s)].action
<1>7. ASSUME NEW a, past(a) # {} PROVE act(more, now(a)) = act(line, past(a))
  <2>1. Max(past(a)) \in DOMAIN line BY <1>6, <1>7
  <2> HIDE DEF past, now
  <2>2. now(a) = past(a) BY <1>5
  <2>3. more[Max(past(a))] = line[Max(past(a))] BY <1>3, <2>1
  <2>. QED BY <2>2, <2>3
<1>8. ActionsAt(more, j, A) =
        [a \in Actors |-> IF a \notin A \/ now(a) = {} THEN None ELSE act(more, now(a))]
  BY DEF ActionsAt
<1>9. ActionsAt(line, j, A) =
        [a \in Actors |-> IF a \notin A \/ past(a) = {} THEN None ELSE act(line, past(a))]
  BY DEF ActionsAt
<1> HIDE DEF past, now, act
<1>. QED BY <1>5, <1>7, <1>8, <1>9 DEF more

\* Between two epochs the actions stay.
LEMMA ActsStay ==
  ASSUME NEW line, NEW i, NEW j, NEW A,
         \A k \in DOMAIN line : line[k].from <= i <=> line[k].from <= j
  PROVE  ActionsAt(line, j, A) = ActionsAt(line, i, A)
<1>1. ASSUME NEW a
      PROVE  {k \in EpochsOf(line, a) : line[k].from <= i} = {k \in EpochsOf(line, a) : line[k].from <= j}
  BY DEF EpochsOf
<1>. QED BY <1>1 DEF ActionsAt

\* A new epoch leaves the past as it was.
LEMMA PastActs ==
  ASSUME NEW s, NEW inp, NEW line, NEW dg, Past(s, inp, line, dg), s.tick \in Nat, NEW e, e.from = s.tick
  PROVE  Past(s, inp, Append(line, e), dg)
<1> DEFINE more == Append(line, e)
           n == s.tick
<1>1. LineTo(line, n) BY DEF Past
<1>2. PICK E : Retraced(E, s, inp, line, dg) BY DEF Past
<1>3. ASSUME NEW j \in 1..n PROVE ActionsAt(more, j - 1, inp.actors) = ActionsAt(line, j - 1, inp.actors)
  <2>1. j - 1 \in Nat /\ j - 1 < n OBVIOUS
  <2> HIDE DEF n
  <2>2. PICK i \in Nat : i = j - 1 /\ i < n BY <2>1
  <2>3. n \in Nat /\ e.from = n BY DEF n
  <2>4. ActionsAt(Append(line, e), i, inp.actors) = ActionsAt(line, i, inp.actors)
    BY <1>1, <2>2, <2>3, EarlierActs
  <2>. QED BY <2>2, <2>4
<1>4. LineTo(more, n)
  <2>1. PICK S : line \in Seq(S) BY <1>1 DEF LineTo
  <2>2. line \in Seq(S \cup {e}) /\ more \in Seq(S \cup {e}) BY <2>1
  <2>3. Len(line) \in Nat /\ DOMAIN line = 1..Len(line) /\ DOMAIN more = 1..(Len(line) + 1)
        /\ more[Len(line) + 1] = e /\ \A k \in 1..Len(line) : more[k] = line[k]
    BY <2>2
  <2> HIDE DEF more
  <2>4. \A k \in DOMAIN more : more[k] = e \/ (k \in DOMAIN line /\ more[k] = line[k]) BY <2>3
  <2>5. \A k \in DOMAIN more : more[k].from \in Nat /\ more[k].from <= n BY <1>1, <2>4 DEF LineTo
  <2>. QED BY <2>2, <2>5 DEF LineTo
<1> HIDE DEF more
<1>5. RunOf(E, inp, more, n)
  <2>1. RunOf(E, inp, line, n) BY <1>2 DEF Retraced
  <2>. QED BY <1>3, <2>1 DEF RunOf
<1>6. Retraced(E, s, inp, more, dg) BY <1>2, <1>5 DEF Retraced
<1>. QED BY <1>4, <1>6 DEF Past, more

\* So does draining the events.
LEMMA PastDrained ==
  ASSUME NEW s, NEW inp, NEW line, NEW dg, Past(s, inp, line, dg), EngineShape(s)
  PROVE  Past([s EXCEPT !.events = <<>>], inp, line, dg)
<1> DEFINE q == [s EXCEPT !.events = <<>>]
<1>1. /\ q.tick = s.tick /\ q.exists = s.exists /\ q.settled = s.settled /\ q.crashed = s.crashed
      /\ q.present = s.present /\ q.done = s.done /\ q.cell = s.cell /\ q.actors = s.actors
  BY DEF EngineShape
<1> HIDE DEF q
<1>2. PICK E : Retraced(E, s, inp, line, dg) BY DEF Past
<1>3. Retraced(E, q, inp, line, dg) BY <1>1, <1>2 DEF Retraced, Alike
<1>. QED BY <1>1, <1>3 DEF Past, q

\* A tick that does what the timeline says adds its frame.
LEMMA PastTick ==
  ASSUME NEW s, NEW inp, NEW line, NEW dg, Past(s, inp, line, dg), s.tick \in Nat, Buildable(inp),
         DigestTo(dg, s.tick)
  PROVE  LET q == EngineTick(s, ActionsAt(line, s.tick, inp.actors))
         IN  Past(q, inp, line, Append(dg, Frame(q)))
<1> DEFINE n == s.tick
           acts == ActionsAt(line, n, inp.actors)
           q == EngineTick(s, acts)
           A == inp.actors
           more == Append(dg, Frame(q))
<1>1. PICK E : Retraced(E, s, inp, line, dg) BY DEF Past
<1>2. PICK e : e = E[n] OBVIOUS
<1>3. RunOf(E, inp, line, n) /\ Alike(e, s, A) BY <1>1, <1>2 DEF Retraced
<1>4. RunsAt(e, inp, n)
  <2>1. n \in 0..n OBVIOUS
  <2> HIDE DEF n
  <2>. QED BY <1>2, <1>3, <2>1, RunServes
<1>5. e.tick = n /\ s.exists = e.exists /\ s.exists = inp.exists /\ s.actors = A /\ e.present \subseteq A
  BY <1>4 DEF RunsAt, Serves, Past
<1>6. /\ WellFormed(e.exists, A) /\ WellFormed(s.exists, A) /\ A \subseteq Actors
      /\ Longer(e.exists, s.exists, n)
  BY <1>5 DEF Buildable, Longer, WellFormed
<1>7. DueAt(s, n + 1) = DueAt(e, n + 1) BY <1>3, <1>5 DEF DueAt, Alike
<1>8. \A a \in A : acts[a] = acts[a] OBVIOUS
<1>9. Alike(EngineTick(e, acts), q, A)
  <2> HIDE DEF acts, n, A
  <2>. QED BY <1>3, <1>5, <1>6, <1>7, <1>8, AlikeTick
<1>10. PICK F : /\ RunOf(F, inp, line, n + 1) /\ F[n + 1] = EngineTick(e, acts)
                /\ \A j \in 0..n : F[j] = E[j]
  <2>1. EngineTick(e, acts) = EngineTick(E[n], ActionsAt(line, n, inp.actors)) BY <1>2
  <2>2. PICK f : f = EngineTick(e, acts) OBVIOUS
  <2> HIDE DEF n, acts
  <2>. QED BY <1>3, <2>1, <2>2, RunGrows
<1>11. /\ q.tick = n + 1 /\ q.exists = inp.exists /\ q.actors = A
       /\ EngineTick(e, acts).actors = A
  BY <1>4, <1>5 DEF EngineTick, RunsAt
<1>12. /\ Frame(q).present = q.present /\ Frame(q).actors = q.actors
       /\ \A a \in q.actors : Frame(q).cell[a] = q.cell[a]
  BY DEF Frame
<1>13. /\ DOMAIN more = 1..(n + 1) /\ more[n + 1] = Frame(q) /\ DOMAIN dg = 1..n
       /\ \A t \in 1..n : more[t] = dg[t]
  <2>1. PICK S : dg \in Seq(S) /\ Len(dg) = n BY DEF DigestTo
  <2> DEFINE fr == Frame(q)
  <2> HIDE DEF fr
  <2>2. dg \in Seq(S \cup {fr}) BY <2>1
  <2>3. DOMAIN Append(dg, fr) = 1..(n + 1) /\ Append(dg, fr)[n + 1] = fr /\ DOMAIN dg = 1..n
        /\ \A t \in 1..n : Append(dg, fr)[t] = dg[t]
    BY <2>1, <2>2
  <2>. QED BY <2>3 DEF fr
<1> HIDE DEF q, acts, more
<1>14. Shown(Frame(q), F[n + 1], inp.exists, n + 1)
  BY <1>9, <1>10, <1>11, <1>12 DEF Shown, Alike
<1>15. ASSUME NEW t \in DOMAIN more PROVE t \in 1..(n + 1) /\ Shown(more[t], F[t], inp.exists, t)
  <2>1. CASE t = n + 1 BY <1>13, <1>14, <2>1
  <2>2. CASE t # n + 1
    <3>1. t \in 1..n /\ t \in DOMAIN dg /\ t \in 0..n BY <1>13, <2>2
    <3>2. Shown(dg[t], E[t], inp.exists, t) BY <1>1, <3>1 DEF Retraced
    <3>. QED BY <1>10, <1>13, <3>1, <3>2
  <2>. QED BY <2>1, <2>2
<1>16. LineTo(line, n + 1) BY DEF Past, LineTo
<1>17. Retraced(F, q, inp, line, more) BY <1>9, <1>10, <1>11, <1>15 DEF Retraced
<1>18. Past(q, inp, line, more) BY <1>11, <1>16, <1>17 DEF Past
<1>. QED BY <1>18 DEF q, acts, more

-----------------------------------------------------------------------------

\* A rebuild is on the way along the run of its candidate, with the actions the
\* timeline has for the next tick.
OnTheWay(j, cand, line, requested) ==
  /\ \E Z : RunOf(Z, cand, line, j.cand.tick) /\ j.cand = Z[j.cand.tick]
  /\ j.done < requested /\ ~j.cand.done => j.acts = ActionsAt(line, j.cand.tick, cand.actors)

PastInv ==
  /\ Mode = "clip" => Past(sim, input, timeline, digest)
  /\ job.kind = "advance" /\ Mode = "clip" => job.acts = ActionsAt(timeline, sim.tick, sim.actors)
  /\ job.kind = "rebuild" =>
       /\ Mode = "clip"
       /\ OnTheWay(job, Candidate(World, Resolve(World, job.ops)), timeline, tick_count)
  /\ saved # NoCheckpoint /\ Mode = "clip" =>
       Past(saved.state[1], saved.state[2], saved.state[6], saved.state[9])

\* What the candidate of an approved batch is to the input.
LEMMA ApprovedEnlarges ==
  ASSUME IInv, LedgerInv, ServingInv, FiledInv, NEW ops, Approved(ops), NamedOps(ops), NEW cand,
         cand = Candidate(World, Resolve(World, ops))
  PROVE  /\ Enlarges(input, cand, sim.tick)
         /\ \E k \in DOMAIN cand.exists : k > Len(Script) /\ cand.exists[k].at = sim.tick
<1>1. PICK r : r = Resolve(World, ops) OBVIOUS
<1>2. World.sim = sim /\ World.input = input BY DEF World
<1>3. PICK n \in Nat : n > 0 /\ Placed(World, r, n)
  BY <1>1, ApprovedPlaces DEF LedgerInv, ServingInv, FiledInv
<1>4. Added(World, r) BY <1>1, ApprovedAdds DEF LedgerInv, ServingInv
<1>5. /\ cand.actors = input.actors \cup Range(r.spawned)
      /\ cand.cell = r.cell /\ cand.exists = r.exists
  BY <1>1, <1>2 DEF Candidate
<1>6. /\ WellFormed(r.exists, cand.actors)
      /\ Len(input.exists) <= Len(r.exists) /\ (\A k \in 1..Len(input.exists) : r.exists[k] = input.exists[k])
      /\ \A k \in DOMAIN r.exists : k > Len(input.exists) => r.exists[k].at = sim.tick
  BY <1>2, <1>4, <1>5 DEF Added, UsedIds
<1>7. WellFormed(input.exists, input.actors) BY DEF ServingInv, Serves
<1>8. StartPresent \subseteq input.actors BY WorldAssumption DEF LedgerInv, Ledger
<1>9. input.actors \subseteq Actors /\ Len(input.exists) = Len(Script) + exist_counter /\ exist_counter \in Nat
  BY DEF FiledInv, Filed
<1>10. /\ Len(r.exists) = Len(input.exists) + n /\ Range(r.spawned) \subseteq Actors
       /\ \A a \in input.actors : r.cell[a] = input.cell[a]
  BY <1>2, <1>3 DEF Placed
<1>11. Buildable(input) BY <1>7, <1>8, <1>9 DEF Buildable
<1>12. Buildable(cand) BY <1>5, <1>6, <1>8, <1>9, <1>10 DEF Buildable
<1>13. sim.tick \in Nat BY SimStands
<1>14. Longer(input.exists, cand.exists, sim.tick) BY <1>5, <1>6, <1>13 DEF Longer
<1>15. Enlarges(input, cand, sim.tick) BY <1>5, <1>10, <1>11, <1>12, <1>14 DEF Enlarges
<1>16. Script \in Seq([actor: DOMAIN BaseCell, at: Nat, state: BOOLEAN]) BY WorldAssumption
<1>17. Len(Script) \in Nat BY <1>16
<1>18. Len(input.exists) \in Nat /\ DOMAIN r.exists = 1..Len(r.exists) BY <1>6, <1>7 DEF WellFormed
<1>19. /\ Len(r.exists) \in DOMAIN r.exists /\ Len(r.exists) > Len(Script)
       /\ Len(r.exists) > Len(input.exists)
  BY <1>3, <1>9, <1>10, <1>17, <1>18
<1>. QED BY <1>5, <1>6, <1>15, <1>19

\* The run of the candidate shows the frames of the digest.
LEMMA RebuiltShows ==
  ASSUME NEW s, NEW inp, NEW cand, NEW line, NEW dg, s.tick \in Nat, Past(s, inp, line, dg),
         Enlarges(inp, cand, s.tick),
         \E k \in DOMAIN cand.exists : k > Len(Script) /\ cand.exists[k].at = s.tick,
         NEW Z, NEW m, RunOf(Z, cand, line, m), NEW t \in DOMAIN dg, t <= m
  PROVE  t \in 1..s.tick /\ Shown(dg[t], Z[t], cand.exists, t)
<1>1. PICK E : Retraced(E, s, inp, line, dg) BY DEF Past
<1>2. t \in 1..s.tick /\ Shown(dg[t], E[t], inp.exists, t) /\ RunOf(E, inp, line, s.tick)
  BY <1>1 DEF Retraced
<1>3. CASE t = s.tick BY <1>2, <1>3 DEF Shown
<1>4. CASE t # s.tick
  <2>1. t \in Nat /\ t <= s.tick /\ t < s.tick /\ m \in Nat /\ t \in 0..s.tick /\ t \in 0..m
    BY <1>2, <1>4 DEF RunOf
  <2>2. Alike(E[t], Z[t], inp.actors) BY <1>2, <2>1, RunsAlike
  <2>3. E[t].actors = inp.actors /\ Z[t].actors = cand.actors
    BY <1>2, <2>1, RunServes DEF RunsAt, Enlarges
  <2>4. CASE \E k \in DOMAIN inp.exists : k > Len(Script) /\ inp.exists[k].at = t
    <3>1. PICK k \in DOMAIN inp.exists : k > Len(Script) /\ inp.exists[k].at = t BY <2>4
    <3>2. k \in DOMAIN cand.exists /\ cand.exists[k] = inp.exists[k]
      <4>1. WellFormed(inp.exists, inp.actors) /\ WellFormed(cand.exists, cand.actors)
            /\ Longer(inp.exists, cand.exists, s.tick)
        BY DEF Enlarges, Buildable
      <4>2. PICK x, y : x = inp.exists /\ y = cand.exists OBVIOUS
      <4>3. DOMAIN x = 1..Len(x) /\ Len(x) \in Nat /\ DOMAIN y = 1..Len(y) /\ Len(y) \in Nat
            /\ Len(x) <= Len(y) /\ \A l \in 1..Len(x) : y[l] = x[l]
        BY <4>1, <4>2 DEF WellFormed, Longer
      <4>4. k \in DOMAIN x BY <4>2
      <4>. QED BY <4>2, <4>3, <4>4
    <3>. QED BY <1>2, <3>1, <3>2 DEF Shown
  <2>5. CASE ~ \E k \in DOMAIN inp.exists : k > Len(Script) /\ inp.exists[k].at = t
    <3>1. /\ dg[t].present = E[t].present /\ dg[t].actors \subseteq inp.actors
          /\ \A a \in dg[t].actors : dg[t].cell[a] = E[t].cell[a]
      BY <1>2, <2>3, <2>5 DEF Shown
    <3>2. /\ dg[t].present = Z[t].present /\ dg[t].actors \subseteq Z[t].actors
          /\ \A a \in dg[t].actors : dg[t].cell[a] = Z[t].cell[a]
      BY <2>2, <2>3, <3>1 DEF Alike, Enlarges
    <3>. QED BY <1>2, <3>2 DEF Shown
  <2>. QED BY <2>4, <2>5
<1>. QED BY <1>3, <1>4

LEMMA InitPastInv == Init => PastInv
<1> SUFFICES ASSUME Init PROVE PastInv OBVIOUS
<1>1. sim = Parked0(input) /\ timeline = <<>> /\ digest = <<>> /\ job = Idle /\ ~(saved # NoCheckpoint)
  BY DEF Init
<1>2. sim.tick = 0 /\ sim.exists = input.exists /\ sim.actors = input.actors
  BY <1>1 DEF Parked0, EngineTick, NewSim
<1>3. LineTo(timeline, 0)
  <2>1. timeline \in Seq({}) /\ DOMAIN timeline = {} BY <1>1
  <2>. QED BY <2>1 DEF LineTo
<1> DEFINE E == [j \in {0} |-> sim]
<1>4. E[0] = sim OBVIOUS
<1> HIDE DEF E
<1>5. ASSUME Mode = "clip" PROVE Past(sim, input, timeline, digest)
  <2>1. RunOf(E, input, timeline, 0) BY <1>1, <1>4, <1>5 DEF RunOf
  <2>2. Alike(E[0], sim, input.actors) BY <1>4 DEF Alike
  <2>3. DOMAIN digest = {} BY <1>1
  <2>4. Retraced(E, sim, input, timeline, digest) BY <1>2, <2>1, <2>2, <2>3 DEF Retraced
  <2>. QED BY <1>2, <1>3, <2>4 DEF Past
<1>. QED BY <1>1, <1>5 DEF PastInv, Idle

LEMMA DigestDomain ==
  ASSUME NEW dg, NEW n, DigestTo(dg, n) PROVE DOMAIN dg = 1..n
<1>1. PICK S : dg \in Seq(S) BY DEF DigestTo
<1>. QED BY <1>1 DEF DigestTo

\* A world in its past, in the words of the lemmas.
LEMMA PastStands ==
  ASSUME IInv, LedgerInv, ServingInv, FiledInv
  PROVE  /\ sim.tick \in Nat /\ EngineShape(sim) /\ DigestTo(digest, sim.tick) /\ Buildable(input)
<1>1. sim.tick \in Nat /\ EngineShape(sim) BY SimStands
<1>2. DigestTo(digest, sim.tick)
  <2>1. PICK n : Standing(sim, n, digest) BY DEF IInv, JobInv
  <2>. QED BY <2>1 DEF Standing, EngineAt
<1>3. Buildable(input)
  <2>1. StartPresent \subseteq input.actors BY WorldAssumption DEF LedgerInv, Ledger
  <2>. QED BY <2>1 DEF Buildable, ServingInv, Serves, FiledInv, Filed
<1>. QED BY <1>1, <1>2, <1>3

\* One catch-up tick stays on the way: the actions are read anew wherever the
\* timeline has an epoch (replay_timeline).
LEMMA CatchUpStays ==
  ASSUME NEW j, NEW cand, NEW line, NEW requested \in Nat, OnTheWay(j, cand, line, requested),
         NEW d \in Nat, j.done = d, d < requested, EngineAt(j.cand, d), Buildable(cand),
         \A k \in DOMAIN line : line[k].from \in Nat,
         NEW next, next = (IF j.cand.done THEN j.cand ELSE EngineTick(j.cand, j.acts)),
         NEW i, i.cand = next, i.done = d + 1,
         i.acts = IF d + 1 \in Boundaries(line, requested)
                  THEN ActionsAt(line, next.tick, next.actors) ELSE j.acts
  PROVE  OnTheWay(i, cand, line, requested)
<1> DEFINE n == j.cand.tick
<1>1. PICK Z : RunOf(Z, cand, line, n) /\ j.cand = Z[n] BY DEF OnTheWay
<1>2. CASE j.cand.done
  <2>1. i.cand = j.cand BY <1>2
  <2>. QED BY <1>1, <1>2, <2>1 DEF OnTheWay
<1>3. CASE ~j.cand.done
  <2>1. n = d /\ Reach(d + 1) = d + 1
    BY <1>3, WorldAssumption DEF EngineAt, Reach
  <2>2. j.acts = ActionsAt(line, n, cand.actors) BY <1>3 DEF OnTheWay
  <2>3. next = EngineTick(Z[n], ActionsAt(line, n, cand.actors)) BY <1>1, <1>3, <2>2
  <2>4. PICK F : RunOf(F, cand, line, d + 1) /\ F[d + 1] = next
    <3>1. next = EngineTick(Z[d], ActionsAt(line, d, cand.actors)) /\ RunOf(Z, cand, line, d)
      BY <1>1, <2>1, <2>3
    <3> HIDE DEF n
    <3>. QED BY <3>1, RunGrows
  <2>5. next.tick = d + 1 /\ next.actors = cand.actors
    <3>1. d + 1 \in 0..(d + 1) OBVIOUS
    <3>2. RunsAt(F[d + 1], cand, d + 1)
      <4>1. PICK e : e = d + 1 /\ e \in 0..e BY <3>1
      <4>2. RunOf(F, cand, line, e) BY <2>4, <4>1
      <4>3. RunsAt(F[e], cand, e) BY <4>1, <4>2, RunServes
      <4>. QED BY <4>1, <4>3
    <3>. QED BY <2>4, <3>2 DEF RunsAt
  <2>6. ASSUME i.done < requested PROVE i.acts = ActionsAt(line, d + 1, cand.actors)
    <3>1. CASE d + 1 \in Boundaries(line, requested)
      BY <2>5, <3>1
    <3>2. CASE d + 1 \notin Boundaries(line, requested)
      <4>1. d + 1 \in 1..(requested - 1) BY <2>6
      <4>2. \A k \in DOMAIN line : line[k].from # d + 1 BY <3>2, <4>1 DEF Boundaries
      <4>3. \A k \in DOMAIN line : line[k].from <= d <=> line[k].from <= d + 1 BY <4>2
      <4>4. ActionsAt(line, d + 1, cand.actors) = ActionsAt(line, d, cand.actors)
        <5>1. PICK e : e = d + 1 OBVIOUS
        <5>2. \A k \in DOMAIN line : line[k].from <= d <=> line[k].from <= e BY <4>3, <5>1
        <5>3. ActionsAt(line, e, cand.actors) = ActionsAt(line, d, cand.actors) BY <5>2, ActsStay
        <5>. QED BY <5>1, <5>3
      <4>. QED BY <2>1, <2>2, <3>2, <4>4
    <3>. QED BY <3>1, <3>2
  <2>. QED BY <2>4, <2>5, <2>6 DEF OnTheWay
<1>. QED BY <1>2, <1>3

\* What a rebuild has made is the past of the candidate.
LEMMA CommittedPast ==
  ASSUME IInv, LedgerInv, ServingInv, FiledInv, PastInv, job.kind = "rebuild", job.done = tick_count
  PROVE  Past(job.cand, Candidate(World, Resolve(World, job.ops)), timeline, digest)
<1>1. PICK cand : cand = Candidate(World, Resolve(World, job.ops)) OBVIOUS
<1>2. Approved(job.ops) /\ NamedOps(job.ops) BY DEF LedgerInv, FiledInv
<1>3. PICK ops : ops = job.ops OBVIOUS
<1>4. /\ Enlarges(input, cand, sim.tick)
      /\ \E k \in DOMAIN cand.exists : k > Len(Script) /\ cand.exists[k].at = sim.tick
  BY <1>1, <1>2, <1>3, ApprovedEnlarges
<1>5. OnTheWay(job, cand, timeline, tick_count) /\ Past(sim, input, timeline, digest)
  BY <1>1 DEF PastInv
<1>6. PICK e : e = job.cand OBVIOUS
<1>7. PICK m : m = e.tick OBVIOUS
<1>8. PICK Z : RunOf(Z, cand, timeline, m) /\ e = Z[m] BY <1>5, <1>6, <1>7 DEF OnTheWay
<1>9. m = sim.tick /\ sim.tick \in Nat /\ DigestTo(digest, sim.tick)
  <2>1. EngineAt(job.cand, job.done) /\ Standing(sim, tick_count, digest)
    BY RebuildStands DEF IInv
  <2>2. job.cand.tick = sim.tick BY <2>1 DEF EngineAt, Standing
  <2>. QED BY <1>6, <1>7, <2>2, PastStands
<1>10. e.exists = cand.exists /\ e.actors = cand.actors
  <2>1. m \in 0..m BY <1>9
  <2>2. RunsAt(Z[m], cand, m) BY <1>4, <1>8, <2>1, RunServes DEF Enlarges
  <2>. QED BY <1>8, <2>2 DEF RunsAt
<1>11. ASSUME NEW t \in DOMAIN digest PROVE t \in 1..m /\ Shown(digest[t], Z[t], cand.exists, t)
  <2>1. t \in 1..sim.tick BY <1>9, DigestDomain
  <2>2. t <= m BY <1>9, <2>1
  <2>. QED BY <1>4, <1>5, <1>8, <1>9, <2>2, RebuiltShows
<1>12. Alike(Z[m], e, cand.actors) BY <1>8 DEF Alike
<1>13. Retraced(Z, e, cand, timeline, digest) BY <1>7, <1>8, <1>11, <1>12 DEF Retraced
<1>14. LineTo(timeline, m) BY <1>5, <1>9 DEF Past
<1>15. Past(e, cand, timeline, digest) BY <1>7, <1>10, <1>13, <1>14 DEF Past
<1>. QED BY <1>1, <1>6, <1>15

LEMMA NextPastInv ==
  IInv /\ LedgerInv /\ ServingInv /\ FiledInv /\ PastInv /\ [Next]_vars => PastInv'
<1> SUFFICES ASSUME IInv, LedgerInv, ServingInv, FiledInv, PastInv, [Next]_vars PROVE PastInv' OBVIOUS
<1> DEFINE P == Mode = "clip" => Past(sim, input, timeline, digest)
           R == job.kind = "rebuild" =>
                  /\ Mode = "clip"
                  /\ OnTheWay(job, Candidate(World, Resolve(World, job.ops)), timeline, tick_count)
           C == saved # NoCheckpoint /\ Mode = "clip" =>
                  Past(saved.state[1], saved.state[2], saved.state[6], saved.state[9])
<1>0. /\ P /\ R /\ C
      /\ job.kind = "advance" /\ Mode = "clip" => job.acts = ActionsAt(timeline, sim.tick, sim.actors)
  BY DEF PastInv
<1>s. sim.tick \in Nat /\ EngineShape(sim) /\ DigestTo(digest, sim.tick) /\ Buildable(input)
  BY PastStands
<1>idle. ASSUME P', UNCHANGED saved, job' = Idle PROVE PastInv'
  <2>1. job'.kind # "rebuild" /\ job'.kind # "advance" BY <1>idle DEF Idle
  <2>. QED BY <1>0, <1>idle, <2>1 DEF PastInv
<1>act. ASSUME NEW a, NEW action, Act(a, action) PROVE PastInv'
  <2> DEFINE e == [from |-> sim.tick, actor |-> a, action |-> action]
  <2>1. /\ UNCHANGED <<sim, input, digest, saved>> /\ job' = Idle
        /\ timeline' = timeline \/ timeline' = Append(timeline, e)
    BY <1>act DEF Act, Ready
  <2>2. e.from = sim.tick OBVIOUS
  <2> HIDE DEF e
  <2>3. ASSUME Mode = "clip" PROVE Past(sim, input, timeline', digest)
    <3>1. Past(sim, input, timeline, digest) BY <1>0, <2>3
    <3>2. Past(sim, input, Append(timeline, e), digest) BY <1>s, <2>2, <3>1, PastActs
    <3>. QED BY <2>1, <3>1, <3>2
  <2>4. P' BY <2>1, <2>3
  <2>. QED BY <1>idle, <2>1, <2>4
<1>reject. ASSUME NEW ops \in Batches, RejectStructural(ops) PROVE PastInv'
  <2>1. UNCHANGED <<sim, input, timeline, digest, saved>> /\ job' = Idle
    BY <1>reject DEF RejectStructural, StructuralReady, Ready
  <2>. QED BY <1>0, <1>idle, <2>1
<1>live. ASSUME NEW ops \in Batches, CommitLive(ops) PROVE PastInv'
  <2>1. Mode = "live" /\ UNCHANGED saved /\ job' = Idle
    BY <1>live DEF CommitLive, StructuralReady, Ready, Commit
  <2>2. P' BY <2>1
  <2>. QED BY <1>idle, <2>1, <2>2
<1>rebuild. ASSUME NEW ops \in Batches, BeginRebuild(ops) PROVE PastInv'
  <2> DEFINE cand == Candidate(World, Resolve(World, ops))
  <2>1. /\ Mode = "clip" /\ UNCHANGED <<session, saved>> /\ job'.kind = "rebuild" /\ job'.ops = ops
        /\ job'.cand = Parked0(cand) /\ job'.acts = ActionsAt(timeline, 0, Parked0(cand).actors)
    BY <1>rebuild DEF BeginRebuild
  <2>2. UNCHANGED <<sim, input, tick_count, actor_counter, exist_counter, timeline, digest>>
    BY <2>1 DEF session
  <2>3. World' = World BY <2>2 DEF World
  <2>4. Parked0(cand).tick = 0 /\ Parked0(cand).actors = cand.actors
    BY DEF Parked0, EngineTick, NewSim
  <2> HIDE DEF cand
  <2> DEFINE Z == [j \in {0} |-> Parked0(cand)]
  <2>5. Z[0] = Parked0(cand) OBVIOUS
  <2> HIDE DEF Z
  <2>6. RunOf(Z, cand, timeline, 0) BY <2>1, <2>5 DEF RunOf
  <2>7. OnTheWay(job', cand, timeline, tick_count) BY <2>1, <2>4, <2>5, <2>6 DEF OnTheWay
  <2>8. R' BY <2>1, <2>2, <2>3, <2>7 DEF cand
  <2>9. job'.kind # "advance" BY <2>1
  <2>. QED BY <1>0, <2>1, <2>2, <2>8, <2>9 DEF PastInv
<1>catchup. ASSUME CatchUp PROVE PastInv'
  <2>1. PICK o, c, d, a : /\ job = [kind |-> "rebuild", ops |-> o, cand |-> c, done |-> d, acts |-> a]
                          /\ d \in 0..tick_count /\ EngineAt(c, d) /\ Standing(sim, tick_count, digest)
    BY <1>catchup, RebuildStands DEF CatchUp, IInv
  <2> DEFINE next == IF c.done THEN c ELSE EngineTick(c, a)
             acts == IF d + 1 \in Boundaries(timeline, tick_count)
                     THEN ActionsAt(timeline, next.tick, next.actors) ELSE a
             i == [kind |-> "rebuild", ops |-> o, cand |-> next, done |-> d + 1, acts |-> acts]
  <2>2. d < tick_count /\ UNCHANGED <<session, saved>> /\ job' = i
    <3>1. job' = [job EXCEPT !.cand = next, !.done = d + 1, !.acts = acts]
      BY <1>catchup, <2>1 DEF CatchUp
    <3> HIDE DEF next, acts
    <3>2. job' = i BY <2>1, <3>1
    <3>. QED BY <1>catchup, <2>1, <3>2 DEF CatchUp
  <2>3. UNCHANGED <<sim, input, tick_count, actor_counter, exist_counter, timeline, digest>>
    BY <2>2 DEF session
  <2>4. World' = World BY <2>3 DEF World
  <2>5. PICK cand : cand = Candidate(World, Resolve(World, o)) OBVIOUS
  <2>6. Mode = "clip" /\ OnTheWay(job, cand, timeline, tick_count) BY <1>0, <2>1, <2>5
  <2>7. Approved(o) /\ NamedOps(o) BY <2>1 DEF LedgerInv, FiledInv
  <2>8. Buildable(cand) BY <2>5, <2>7, ApprovedEnlarges DEF Enlarges
  <2>9. \A k \in DOMAIN timeline : timeline[k].from \in Nat BY <1>0, <2>6 DEF Past, LineTo
  <2>10. i.cand = next /\ i.done = d + 1 /\ i.acts = acts /\ i.kind = "rebuild" /\ i.ops = o
    <3> HIDE DEF next, acts
    <3>. QED OBVIOUS
  <2>11. PICK j : j = job OBVIOUS
  <2>12. j.cand = c /\ j.done = d /\ j.acts = a BY <2>1, <2>11
  <2> HIDE DEF i
  <2>13. OnTheWay(i, cand, timeline, tick_count)
    <3>1. tick_count \in Nat /\ d \in Nat BY <2>1 DEF Standing
    <3>2. /\ OnTheWay(j, cand, timeline, tick_count) /\ j.done = d /\ EngineAt(j.cand, d)
          /\ next = (IF j.cand.done THEN j.cand ELSE EngineTick(j.cand, j.acts))
          /\ i.acts = IF d + 1 \in Boundaries(timeline, tick_count)
                      THEN ActionsAt(timeline, next.tick, next.actors) ELSE j.acts
      BY <2>1, <2>6, <2>10, <2>11, <2>12
    <3>3. PICK nx : nx = next OBVIOUS
    <3> HIDE DEF next, acts
    <3>. QED BY <2>2, <2>8, <2>9, <2>10, <3>1, <3>2, <3>3, CatchUpStays
  <2> HIDE DEF next, acts
  <2>14. R'
    <3>1. job' = i /\ i.ops = o BY <2>2, <2>10
    <3>. QED BY <2>3, <2>4, <2>5, <2>6, <2>13, <3>1
  <2>15. job'.kind # "advance" BY <2>2, <2>10
  <2>. QED BY <1>0, <2>2, <2>3, <2>14, <2>15 DEF PastInv
<1>commit. ASSUME CommitClip PROVE PastInv'
  <2>1. PICK cand : cand = Candidate(World, Resolve(World, job.ops)) OBVIOUS
  <2>2. /\ Commit(job.ops, Resolve(World, job.ops)) /\ job' = Idle /\ job.kind = "rebuild"
        /\ job.done = tick_count /\ sim' = [job.cand EXCEPT !.events = <<>>]
    BY <1>commit DEF CommitClip
  <2>3. input' = cand /\ UNCHANGED <<timeline, digest, saved>> BY <2>1, <2>2 DEF Commit
  <2>4. PICK e : e = job.cand OBVIOUS
  <2>5. Past(e, cand, timeline, digest) BY <2>1, <2>2, <2>4, CommittedPast
  <2>6. EngineShape(e) BY <2>2, <2>4, RebuildStands DEF IInv, EngineAt
  <2>7. Past([e EXCEPT !.events = <<>>], cand, timeline, digest) BY <2>5, <2>6, PastDrained
  <2>8. P' BY <2>2, <2>3, <2>4, <2>7
  <2>. QED BY <1>idle, <2>2, <2>3, <2>8
<1>begin. ASSUME NEW ticks, BeginAdvance(ticks) PROVE PastInv'
  <2>1. /\ UNCHANGED <<session, saved>> /\ job'.kind = "advance"
        /\ job'.acts = ActionsAt(timeline, sim.tick, sim.actors)
    BY <1>begin DEF BeginAdvance
  <2>2. UNCHANGED <<sim, input, timeline, digest>> BY <2>1 DEF session
  <2>3. job'.kind # "rebuild" BY <2>1
  <2>. QED BY <1>0, <2>1, <2>2, <2>3 DEF PastInv
<1>tick. ASSUME AdvanceTick PROVE PastInv'
  <2>1. PICK t, l, a : job = [kind |-> "advance", ticks |-> t, left |-> l, acts |-> a]
    BY <1>tick DEF AdvanceTick, IInv, JobInv, Idle
  <2>2. /\ UNCHANGED <<input, timeline, saved>> /\ sim' = EngineTick(sim, a)
        /\ digest' = Append(digest, Frame(sim')) /\ job' = [job EXCEPT !.left = @ - 1]
    BY <1>tick, <2>1 DEF AdvanceTick
  <2>3. job'.kind = "advance" /\ job'.acts = a BY <2>1, <2>2
  <2>4. Mode = "clip" => a = ActionsAt(timeline, sim.tick, sim.actors) BY <1>0, <2>1
  <2>5. sim'.tick = sim.tick + 1 /\ sim'.actors = sim.actors BY <2>2 DEF EngineTick
  <2>6. ASSUME Mode = "clip"
        PROVE  /\ Past(sim', input, timeline, digest')
               /\ a = ActionsAt(timeline, sim'.tick, sim'.actors)
    <3>1. Past(sim, input, timeline, digest) BY <1>0, <2>6
    <3>2. sim.actors = input.actors BY <3>1 DEF Past
    <3>3. PICK s : s = sim OBVIOUS
    <3>4. Past(EngineTick(s, ActionsAt(timeline, s.tick, input.actors)), input, timeline,
               Append(digest, Frame(EngineTick(s, ActionsAt(timeline, s.tick, input.actors)))))
      BY <1>s, <3>1, <3>3, PastTick
    <3>5. Past(sim', input, timeline, digest') BY <2>2, <2>4, <2>6, <3>2, <3>3, <3>4
    <3>6. PICK n : n = sim.tick + 1 OBVIOUS
    <3>7. \A k \in DOMAIN timeline : timeline[k].from <= sim.tick <=> timeline[k].from <= n
      BY <1>s, <3>1, <3>6 DEF Past, LineTo
    <3>8. ActionsAt(timeline, n, sim.actors) = ActionsAt(timeline, sim.tick, sim.actors)
      BY <3>7, ActsStay
    <3>. QED BY <2>4, <2>5, <2>6, <3>5, <3>6, <3>8
  <2>. QED BY <1>0, <2>2, <2>3, <2>6 DEF PastInv
<1>end. ASSUME EndAdvance PROVE PastInv'
  <2>1. UNCHANGED <<input, timeline, digest, saved>> /\ sim' = [sim EXCEPT !.events = <<>>] /\ job' = Idle
    BY <1>end DEF EndAdvance
  <2>2. P' BY <1>0, <1>s, <2>1, PastDrained
  <2>. QED BY <1>idle, <2>1, <2>2
<1>checkpoint. ASSUME Checkpoint PROVE PastInv'
  <2>1. saved'.state = session /\ UNCHANGED <<session, job>> /\ job = Idle BY <1>checkpoint DEF Checkpoint
  <2>2. /\ UNCHANGED <<sim, input, timeline, digest>>
        /\ saved'.state[1] = sim /\ saved'.state[2] = input
        /\ saved'.state[6] = timeline /\ saved'.state[9] = digest
    BY <2>1 DEF session
  <2>3. job'.kind # "rebuild" /\ job'.kind # "advance" BY <2>1 DEF Idle
  <2>. QED BY <1>0, <2>2, <2>3 DEF PastInv
<1>restore. ASSUME Restore PROVE PastInv'
  <2>1. /\ sim' = saved.state[1] /\ input' = saved.state[2] /\ timeline' = saved.state[6]
        /\ digest' = saved.state[9] /\ saved # NoCheckpoint /\ saved' = NoCheckpoint
        /\ job = Idle /\ job' = job
    BY <1>restore DEF Restore, Resume
  <2>2. job'.kind # "rebuild" /\ job'.kind # "advance" BY <2>1 DEF Idle
  <2>. QED BY <1>0, <2>1, <2>2 DEF PastInv
<1>stutter. CASE UNCHANGED vars
  <2>1. UNCHANGED <<sim, input, tick_count, actor_counter, exist_counter, timeline, digest, job, saved>>
    BY <1>stutter DEF vars
  <2>2. World' = World BY <2>1 DEF World
  <2>. QED BY <1>0, <2>1, <2>2 DEF PastInv
<1>. QED
  BY <1>act, <1>reject, <1>live, <1>rebuild, <1>catchup, <1>commit, <1>begin, <1>tick, <1>end,
     <1>checkpoint, <1>restore, <1>stutter DEF Next, Command

\* While a clip rebuild catches up, it passes the frames the digest holds: for
\* every input, timeline and sequence of commands, advances and restores.
THEOREM RebuildReproducesFramesAlways == Spec => []RebuildReproducesFrames
<1>1. IInv /\ LedgerInv /\ ServingInv /\ FiledInv /\ PastInv => RebuildReproducesFrames
  <2> SUFFICES ASSUME IInv, LedgerInv, ServingInv, FiledInv, PastInv, job.kind = "rebuild",
                      job.cand.tick \in DOMAIN digest
               PROVE  LET now == Frame(job.cand)
                          was == digest[job.cand.tick]
                      IN  (\E k \in DOMAIN job.cand.exists :
                             k > Len(Script) /\ job.cand.exists[k].at = job.cand.tick)
                          \/ /\ now.present = was.present
                             /\ \A a \in was.actors : now.cell[a] = was.cell[a]
    BY DEF RebuildReproducesFrames
  <2>1. PICK cand : cand = Candidate(World, Resolve(World, job.ops)) OBVIOUS
  <2>2. PICK ops : ops = job.ops OBVIOUS
  <2>3. Approved(ops) /\ NamedOps(ops) BY <2>2 DEF LedgerInv, FiledInv
  <2>4. /\ Enlarges(input, cand, sim.tick)
        /\ \E k \in DOMAIN cand.exists : k > Len(Script) /\ cand.exists[k].at = sim.tick
    BY <2>1, <2>2, <2>3, ApprovedEnlarges
  <2>5. OnTheWay(job, cand, timeline, tick_count) /\ Past(sim, input, timeline, digest)
    BY <2>1 DEF PastInv
  <2>6. PICK e, m : e = job.cand /\ m = e.tick OBVIOUS
  <2>7. PICK Z : RunOf(Z, cand, timeline, m) /\ e = Z[m] BY <2>5, <2>6 DEF OnTheWay
  <2>8. m \in DOMAIN digest /\ m \in Nat /\ m <= m /\ m \in 0..m BY <2>6, <2>7 DEF RunOf
  <2>9. sim.tick \in Nat BY SimStands
  <2>10. Shown(digest[m], Z[m], cand.exists, m) BY <2>4, <2>5, <2>7, <2>8, <2>9, RebuiltShows
  <2>11. RunsAt(e, cand, m) BY <2>4, <2>7, <2>8, RunServes DEF Enlarges
  <2>12. e.exists = cand.exists BY <2>11 DEF RunsAt
  <2>13. /\ Frame(e).present = e.present /\ \A a \in e.actors : Frame(e).cell[a] = e.cell[a]
    BY DEF Frame
  <2>14. \/ \E k \in DOMAIN e.exists : k > Len(Script) /\ e.exists[k].at = m
         \/ /\ Frame(e).present = digest[m].present
            /\ \A a \in digest[m].actors : Frame(e).cell[a] = digest[m].cell[a]
    BY <2>7, <2>10, <2>12, <2>13 DEF Shown
  <2>. QED BY <2>6, <2>14
<1>. QED
  BY <1>1, InitIInv, NextIInv, InitLedgerInv, NextLedgerInv, InitServingInv, NextServingInv,
     InitFiledInv, NextFiledInv, InitPastInv, NextPastInv, PTL DEF Spec

-----------------------------------------------------------------------------
(* The events tell who is present.  What a client makes of a list of them. *)

\* The k-th event is the last one of a.
Says(events, a, k) ==
  /\ k \in DOMAIN events /\ events[k].actor = a
  /\ \A l \in DOMAIN events : events[l].actor = a => l <= k

Silent(events, a) == \A k \in DOMAIN events : events[k].actor # a

LEMMA SaysOrSilent ==
  ASSUME NEW events, IsLog(events), NEW a
  PROVE  Silent(events, a) \/ \E k : Says(events, a, k)
<1> DEFINE s == {k \in DOMAIN events : events[k].actor = a}
<1>1. PICK n \in Nat : DOMAIN events = 1..n BY DEF IsLog
<1>2. CASE s = {} BY <1>2 DEF Silent
<1>3. CASE s # {}
  <2>1. s \subseteq 1..n BY <1>1
  <2>2. Max(s) \in s /\ \A y \in s : y <= Max(s)
    <3> HIDE DEF s
    <3>. QED BY <1>3, <2>1, LastPosition
  <2>3. Says(events, a, Max(s)) BY <2>2 DEF Says
  <2>. QED BY <2>3
<1>. QED BY <1>2, <1>3

LEMMA ToldBySilence ==
  ASSUME NEW known, NEW events, NEW a, Silent(events, a)
  PROVE  a \in Told(known, events) <=> a \in known
<1>1. {k \in DOMAIN events : events[k].actor = a} = {} BY DEF Silent
<1>. QED BY <1>1 DEF Told

LEMMA ToldByLast ==
  ASSUME NEW known, NEW events, IsLog(events), NEW a, NEW k, Says(events, a, k)
  PROVE  a \in Told(known, events) <=> events[k].kind = "spawn"
<1> DEFINE s == {l \in DOMAIN events : events[l].actor = a}
<1>1. PICK n \in Nat : DOMAIN events = 1..n BY DEF IsLog
<1>2. s # {} /\ s \subseteq 1..n /\ k \in s /\ \A y \in s : y <= k BY <1>1 DEF Says
<1>3. Max(s) \in s /\ \A y \in s : y <= Max(s)
  <2> HIDE DEF s
  <2>. QED BY <1>1, <1>2, LastPosition
<1>4. Max(s) = k
  <2>1. Max(s) \in 1..n /\ k \in 1..n /\ Max(s) <= k /\ k <= Max(s) BY <1>2, <1>3
  <2> HIDE DEF s
  <2>. QED BY <1>1, <2>1
<1>5. a \in {events[l].actor : l \in DOMAIN events} BY DEF Says
<1>6. a \in Told(known, events) <=> IF s = {} THEN a \in known ELSE events[Max(s)].kind = "spawn"
  BY <1>5 DEF Told
<1>. QED BY <1>2, <1>4, <1>6

\* What is told in two parts.
LEMMA ToldInParts ==
  ASSUME NEW known, NEW p, NEW q, IsLog(p), IsLog(q)
  PROVE  IsLog(p \o q) /\ Told(known, p \o q) = Told(Told(known, p), q)
<1> DEFINE e == p \o q
<1>1. PICK S : p \in Seq(S) BY DEF IsLog
<1>2. PICK T : q \in Seq(T) BY DEF IsLog
<1>3. p \in Seq(S \cup T) /\ q \in Seq(S \cup T) BY <1>1, <1>2
<1>4. PICK m, n : m = Len(p) /\ n = Len(q) OBVIOUS
<1>5. /\ e \in Seq(S \cup T) /\ m \in Nat /\ n \in Nat
      /\ DOMAIN p = 1..m /\ DOMAIN q = 1..n /\ DOMAIN e = 1..(m + n)
      /\ \A k \in 1..m : e[k] = p[k]
      /\ \A k \in 1..n : e[m + k] = q[k]
  BY <1>3, <1>4
<1>6. IsLog(e) BY <1>5 DEF IsLog
<1> HIDE DEF e
<1>7. \A k \in 1..(m + n) : k \in 1..m \/ (k - m \in 1..n /\ k = m + (k - m)) BY <1>5
<1>8. ASSUME NEW a PROVE a \in Told(known, e) <=> a \in Told(Told(known, p), q)
  <2>1. CASE \E k : Says(q, a, k)
    <3>1. PICK k : Says(q, a, k) BY <2>1
    <3>2. k \in 1..n /\ q[k].actor = a /\ \A l \in 1..n : q[l].actor = a => l <= k BY <1>5, <3>1 DEF Says
    <3>3. m + k \in 1..(m + n) /\ e[m + k] = q[k] BY <1>5, <3>2
    <3>4. ASSUME NEW l \in 1..(m + n), e[l].actor = a PROVE l <= m + k
      <4>1. CASE l \in 1..m BY <1>5, <3>2, <4>1
      <4>2. CASE l - m \in 1..n /\ l = m + (l - m)
        <5>1. q[l - m].actor = a BY <1>5, <3>4, <4>2
        <5>2. l - m <= k BY <3>2, <4>2, <5>1
        <5>. QED BY <1>5, <3>2, <5>2
      <4>. QED BY <1>7, <4>1, <4>2
    <3>5. Says(e, a, m + k) BY <1>5, <3>2, <3>3, <3>4 DEF Says
    <3>. QED BY <1>6, <3>1, <3>3, <3>5, ToldByLast
  <2>2. CASE Silent(q, a) /\ \E k : Says(p, a, k)
    <3>1. PICK k : Says(p, a, k) BY <2>2
    <3>2. k \in 1..m /\ p[k].actor = a /\ \A l \in 1..m : p[l].actor = a => l <= k BY <1>5, <3>1 DEF Says
    <3>3. ASSUME NEW l \in 1..(m + n), e[l].actor = a PROVE l <= k
      <4>1. CASE l \in 1..m BY <1>5, <3>2, <3>3, <4>1
      <4>2. CASE l - m \in 1..n /\ l = m + (l - m)
        <5>1. q[l - m].actor = a BY <1>5, <3>3, <4>2
        <5>. QED BY <1>5, <2>2, <4>2, <5>1 DEF Silent
      <4>. QED BY <1>7, <4>1, <4>2
    <3>4. k \in 1..(m + n) /\ e[k] = p[k] BY <1>5, <3>2
    <3>5. Says(e, a, k) BY <1>5, <3>2, <3>3, <3>4 DEF Says
    <3>6. a \in Told(known, e) <=> p[k].kind = "spawn" BY <1>6, <3>4, <3>5, ToldByLast
    <3>7. a \in Told(known, p) <=> p[k].kind = "spawn" BY <3>1, ToldByLast
    <3>8. a \in Told(Told(known, p), q) <=> a \in Told(known, p) BY <2>2, ToldBySilence
    <3>. QED BY <3>6, <3>7, <3>8
  <2>3. CASE Silent(q, a) /\ Silent(p, a)
    <3>1. ASSUME NEW l \in 1..(m + n) PROVE e[l].actor # a
      <4>1. CASE l \in 1..m BY <1>5, <2>3, <4>1 DEF Silent
      <4>2. CASE l - m \in 1..n /\ l = m + (l - m)
        <5>1. e[l] = q[l - m] BY <1>5, <4>2
        <5>. QED BY <1>5, <2>3, <4>2, <5>1 DEF Silent
      <4>. QED BY <1>7, <4>1, <4>2
    <3>2. Silent(e, a) BY <1>5, <3>1 DEF Silent
    <3>. QED BY <2>3, <3>2, ToldBySilence
  <2>. QED BY <2>1, <2>2, <2>3, SaysOrSilent
<1>9. Told(known, e) = Told(Told(known, p), q) BY <1>8
<1>. QED BY <1>6, <1>9 DEF e

\* One event more.
Heard(known, e) == IF e.kind = "spawn" THEN known \cup {e.actor} ELSE known \ {e.actor}

LEMMA ToldOne ==
  ASSUME NEW known, NEW e
  PROVE  IsLog(<<e>>) /\ Told(known, <<e>>) = Heard(known, e)
<1> DEFINE s == <<e>>
<1>1. s \in Seq({e}) /\ DOMAIN s = {1} /\ s[1] = e OBVIOUS
<1>2. IsLog(s) BY <1>1 DEF IsLog
<1> HIDE DEF s
<1>3. Says(s, e.actor, 1) BY <1>1 DEF Says
<1>4. e.actor \in Told(known, s) <=> e.kind = "spawn" BY <1>1, <1>2, <1>3, ToldByLast
<1>5. ASSUME NEW a, a # e.actor PROVE a \in Told(known, s) <=> a \in known
  <2>1. Silent(s, a) BY <1>1, <1>5 DEF Silent
  <2>. QED BY <2>1, ToldBySilence
<1>6. Told(known, s) = Heard(known, e) BY <1>4, <1>5 DEF Heard
<1>. QED BY <1>2, <1>6 DEF s

LEMMA ToldMore ==
  ASSUME NEW known, NEW events, IsLog(events), NEW e
  PROVE  IsLog(Append(events, e)) /\ Told(known, Append(events, e)) = Heard(Told(known, events), e)
<1>1. Append(events, e) = events \o <<e>> BY DEF IsLog
<1>2. IsLog(<<e>>) BY ToldOne
<1>. QED BY <1>1, <1>2, ToldInParts, ToldOne

LEMMA ToldNothing ==
  ASSUME NEW known PROVE IsLog(<<>>) /\ Told(known, <<>>) = known
<1>1. DOMAIN <<>> = {} /\ <<>> \in Seq({}) OBVIOUS
<1>2. IsLog(<<>>) BY <1>1 DEF IsLog
<1>3. ASSUME NEW a PROVE a \in Told(known, <<>>) <=> a \in known
  BY <1>1, ToldBySilence DEF Silent
<1>. QED BY <1>2, <1>3

\* Who is told the same again learns nothing.
LEMMA ToldAgain ==
  ASSUME NEW known, NEW events, IsLog(events)
  PROVE  Told(Told(known, events), events) = Told(known, events)
<1>1. ASSUME NEW a PROVE a \in Told(Told(known, events), events) <=> a \in Told(known, events)
  <2>1. CASE Silent(events, a) BY <2>1, ToldBySilence
  <2>2. CASE \E k : Says(events, a, k) BY <2>2, ToldByLast
  <2>. QED BY <2>1, <2>2, SaysOrSilent
<1>. QED BY <1>1

-----------------------------------------------------------------------------
(* The events of a tick.                                                   *)

\* Who is told p and then the events knows that P are present.
Tells(known, p, events, P) == IsLog(p) /\ IsLog(events) /\ Told(known, p \o events) = P

\* The events are of ticks up to t.
UpTo(events, t) == IsLog(events) /\ \A k \in DOMAIN events : events[k].at \in Int /\ events[k].at <= t

\* One event more is of the tick i, for the actor of an interaction; or nothing is.
FiredOn(st, q, x, i) ==
  \/ q = st
  \/ \E e : /\ e.actor = x.actor /\ e.at = i
            /\ q.events = Append(st.events, e) /\ q.pending = Heard(st.pending, e)

LEMMA FireGives ==
  ASSUME NEW s, NEW i, NEW crashed, NEW st, NEW k, s.exists[k].state \in BOOLEAN
  PROVE  FiredOn(st, Fire(s, i, crashed, st, k), s.exists[k], i)
<1> DEFINE x == s.exists[k]
           q == Fire(s, i, crashed, st, k)
           e == [kind |-> IF x.state THEN "spawn" ELSE "despawn", actor |-> x.actor, at |-> i]
<1>1. CASE q = st BY <1>1 DEF FiredOn
<1>2. CASE q # st
  <2>1. q = ApplyExist(st, x, i) BY <1>2 DEF Fire
  <2>2. q = [pending |-> IF x.state THEN st.pending \cup {x.actor} ELSE st.pending \ {x.actor},
             events  |-> Append(st.events, e)]
    BY <1>2, <2>1 DEF ApplyExist
  <2>3. q.events = Append(st.events, e) /\ e.actor = x.actor /\ e.at = i BY <2>2
  <2>4. q.pending = Heard(st.pending, e)
    <3>1. CASE x.state = TRUE BY <2>2, <3>1 DEF Heard
    <3>2. CASE x.state = FALSE BY <2>2, <3>2 DEF Heard
    <3>. QED BY <3>1, <3>2
  <2> HIDE DEF q, e, x
  <2>5. FiredOn(st, q, x, i) BY <2>3, <2>4 DEF FiredOn
  <2>. QED BY <2>5 DEF q, x
<1>. QED BY <1>1, <1>2

\* The verdicts of a tick are told as they are taken.
LEMMA VerdictsTell ==
  ASSUME NEW s, NEW i, NEW crashed, NEW A, WellFormed(s.exists, A), NEW known, NEW p,
         Tells(known, p, s.events, s.present)
  PROVE  Tells(known, p, ExistVerdicts(s, i, crashed).events, ExistVerdicts(s, i, crashed).pending)
<1>0. PICK n : n = Len(s.exists) /\ Listed(s, n) BY WellFormedListed
<1>n. n \in Nat /\ DOMAIN s.exists = 1..n /\ \A k \in 1..n : IdOrder(n)[k] \in 1..n BY <1>0 DEF Listed
<1>1s. PICK g : VerdictSteps(s, i, crashed, n, g) BY <1>0, VerdictsRun
<1>1. /\ g[0] = BeforeVerdicts(s)
      /\ \A k \in 1..n : g[k] = Fire(s, i, crashed, g[k - 1], IdOrder(n)[k])
      /\ ExistVerdicts(s, i, crashed) = g[n]
  BY ONLY <1>1s DEF VerdictSteps
<1> DEFINE S == {k \in Nat : k <= n => Tells(known, p, g[k].events, g[k].pending)}
<1>2. 0 \in S BY <1>1 DEF BeforeVerdicts
<1>3. ASSUME NEW k \in Nat, k \in S PROVE k + 1 \in S
  <2>1. SUFFICES ASSUME k + 1 <= n PROVE Tells(known, p, g[k + 1].events, g[k + 1].pending) OBVIOUS
  <2>2. k + 1 \in 1..n /\ (k + 1) - 1 = k /\ Tells(known, p, g[k].events, g[k].pending) BY <1>n, <1>3, <2>1
  <2>3. s.exists[IdOrder(n)[k + 1]].state \in BOOLEAN BY <1>n, <2>2 DEF WellFormed
  <2>4. g[k + 1] = Fire(s, i, crashed, g[k], IdOrder(n)[k + 1]) BY <1>1, <2>2
  <2>5. PICK st, q, x : st = g[k] /\ q = g[k + 1] /\ x = s.exists[IdOrder(n)[k + 1]] OBVIOUS
  <2>6. FiredOn(st, q, x, i) BY <2>3, <2>4, <2>5, FireGives
  <2>7. Tells(known, p, st.events, st.pending) BY <2>2, <2>5
  <2> HIDE DEF S
  <2>8. Tells(known, p, q.events, q.pending)
    <3>1. CASE q = st BY <2>7, <3>1
    <3>2. CASE \E e : q.events = Append(st.events, e) /\ q.pending = Heard(st.pending, e)
      <4>1. PICK e : q.events = Append(st.events, e) /\ q.pending = Heard(st.pending, e) BY <3>2
      <4>2. PICK h : h = st.events OBVIOUS
      <4>3. IsLog(p) /\ IsLog(h) /\ Told(known, p \o h) = st.pending BY <2>7, <4>2 DEF Tells
      <4>4. IsLog(p \o h) BY <4>3, ToldInParts
      <4>5. IsLog(Append(h, e)) /\ Told(known, Append(p \o h, e)) = Heard(st.pending, e)
        <5>1. IsLog(Append(h, e)) BY <4>3, ToldMore
        <5>2. Told(known, Append(p \o h, e)) = Heard(Told(known, p \o h), e) BY <4>4, ToldMore
        <5>. QED BY <4>3, <5>1, <5>2
      <4>6. p \o Append(h, e) = Append(p \o h, e)
        <5>1. PICK T1 : p \in Seq(T1) BY <4>3 DEF IsLog
        <5>2. PICK T2 : h \in Seq(T2) BY <4>3 DEF IsLog
        <5>3. p \in Seq(T1 \cup T2 \cup {e}) /\ h \in Seq(T1 \cup T2 \cup {e}) BY <5>1, <5>2
        <5>. QED BY <5>3
      <4>. QED BY <4>1, <4>2, <4>3, <4>5, <4>6 DEF Tells
    <3>. QED BY <2>6, <3>1, <3>2 DEF FiredOn
  <2>. QED BY <2>5, <2>8
<1> HIDE DEF S
<1>4. n \in S BY <1>n, <1>2, <1>3, Induction
<1>. QED BY <1>n, <1>1, <1>4 DEF S

\* They are of that tick.
LEMMA VerdictsUpTo ==
  ASSUME NEW s, NEW i \in Int, NEW crashed, NEW A, WellFormed(s.exists, A), UpTo(s.events, i)
  PROVE  UpTo(ExistVerdicts(s, i, crashed).events, i)
<1>0. PICK n : n = Len(s.exists) /\ Listed(s, n) BY WellFormedListed
<1>n. n \in Nat /\ DOMAIN s.exists = 1..n /\ \A k \in 1..n : IdOrder(n)[k] \in 1..n BY <1>0 DEF Listed
<1>1s. PICK g : VerdictSteps(s, i, crashed, n, g) BY <1>0, VerdictsRun
<1>1. /\ g[0] = BeforeVerdicts(s)
      /\ \A k \in 1..n : g[k] = Fire(s, i, crashed, g[k - 1], IdOrder(n)[k])
      /\ ExistVerdicts(s, i, crashed) = g[n]
  BY ONLY <1>1s DEF VerdictSteps
<1> DEFINE S == {k \in Nat : k <= n => UpTo(g[k].events, i)}
<1>2. 0 \in S BY <1>1 DEF BeforeVerdicts
<1>3. ASSUME NEW k \in Nat, k \in S PROVE k + 1 \in S
  <2>1. SUFFICES ASSUME k + 1 <= n PROVE UpTo(g[k + 1].events, i) OBVIOUS
  <2>2. k + 1 \in 1..n /\ (k + 1) - 1 = k /\ UpTo(g[k].events, i) BY <1>n, <1>3, <2>1
  <2>3. s.exists[IdOrder(n)[k + 1]].state \in BOOLEAN BY <1>n, <2>2 DEF WellFormed
  <2>4. g[k + 1] = Fire(s, i, crashed, g[k], IdOrder(n)[k + 1]) BY <1>1, <2>2
  <2>5. FiredOn(g[k], g[k + 1], s.exists[IdOrder(n)[k + 1]], i) BY <2>3, <2>4, FireGives
  <2> HIDE DEF S
  <2>6. CASE g[k + 1] = g[k] BY <2>2, <2>6
  <2>7. CASE \E e : e.at = i /\ g[k + 1].events = Append(g[k].events, e)
    <3>1. PICK e : e.at = i /\ g[k + 1].events = Append(g[k].events, e) BY <2>7
    <3>2. PICK h : h = g[k].events OBVIOUS
    <3>3. PICK T : h \in Seq(T) BY <2>2, <3>2 DEF UpTo, IsLog
    <3>4. h \in Seq(T \cup {e}) /\ Append(h, e) \in Seq(T \cup {e}) BY <3>3
    <3>5. \A l \in DOMAIN Append(h, e) : Append(h, e)[l] = e \/ (l \in DOMAIN h /\ Append(h, e)[l] = h[l])
      BY <3>4
    <3>6. UpTo(Append(h, e), i) BY <2>2, <3>1, <3>2, <3>4, <3>5 DEF UpTo, IsLog
    <3>. QED BY <3>1, <3>2, <3>6
  <2>. QED BY <2>5, <2>6, <2>7 DEF FiredOn
<1> HIDE DEF S
<1>4. n \in S BY <1>n, <1>2, <1>3, Induction
<1>. QED BY <1>n, <1>1, <1>4 DEF S

\* Where nothing is due, nothing is decided.
LEMMA VerdictsOfNothing ==
  ASSUME NEW s, NEW i, NEW crashed, NEW A, WellFormed(s.exists, A), DueAt(s, i) = {}
  PROVE  ExistVerdicts(s, i, crashed) = BeforeVerdicts(s)
<1>0. PICK n : n = Len(s.exists) /\ Listed(s, n) BY WellFormedListed
<1>n. n \in Nat /\ DOMAIN s.exists = 1..n /\ \A k \in 1..n : IdOrder(n)[k] \in 1..n BY <1>0 DEF Listed
<1>1s. PICK g : VerdictSteps(s, i, crashed, n, g) BY <1>0, VerdictsRun
<1>1. /\ g[0] = BeforeVerdicts(s)
      /\ \A k \in 1..n : g[k] = Fire(s, i, crashed, g[k - 1], IdOrder(n)[k])
      /\ ExistVerdicts(s, i, crashed) = g[n]
  BY ONLY <1>1s DEF VerdictSteps
<1> DEFINE S == {k \in Nat : k <= n => g[k] = g[0]}
<1>2. 0 \in S OBVIOUS
<1>3. ASSUME NEW k \in Nat, k \in S PROVE k + 1 \in S
  <2>1. SUFFICES ASSUME k + 1 <= n PROVE g[k + 1] = g[0] OBVIOUS
  <2>2. k + 1 \in 1..n /\ (k + 1) - 1 = k /\ g[k] = g[0] BY <1>n, <1>3, <2>1
  <2>3. g[k + 1] = Fire(s, i, crashed, g[k], IdOrder(n)[k + 1]) BY <1>1, <2>2
  <2>. QED BY <2>2, <2>3 DEF Fire
<1> HIDE DEF S
<1>4. n \in S BY <1>n, <1>2, <1>3, Induction
<1>. QED BY <1>n, <1>1, <1>4 DEF S

\* The tick of an engine whose client knows who is present; at the last tick of
\* a clip nothing may be due.
LEMMA TickTells ==
  ASSUME NEW s, NEW acts, NEW A, WellFormed(s.exists, A), NEW known, NEW p,
         Tells(known, p, s.events, s.present),
         Mode = "clip" /\ s.tick + 1 = ClipTicks => DueAt(s, s.tick + 1) = {}
  PROVE  Tells(known, p, EngineTick(s, acts).events, EngineTick(s, acts).present)
<1> DEFINE i    == s.tick + 1
           last == Mode = "clip" /\ i = ClipTicks
           cr   == CrashedNow(s)
           v    == ExistVerdicts(s, i, cr)
           q    == EngineTick(s, acts)
<1>1. q.events = v.events /\ q.present = IF last THEN s.present ELSE v.pending BY DEF EngineTick
<1>2. Tells(known, p, v.events, v.pending)
  <2>1. PICK j, c : j = i /\ c = cr OBVIOUS
  <2>2. Tells(known, p, ExistVerdicts(s, j, c).events, ExistVerdicts(s, j, c).pending) BY VerdictsTell
  <2>. QED BY <2>1, <2>2
<1>3. CASE ~last BY <1>1, <1>2, <1>3
<1>4. CASE last
  <2>1. DueAt(s, i) = {} BY <1>4
  <2>2. v = BeforeVerdicts(s)
    <3>1. PICK j, c : j = i /\ c = cr OBVIOUS
    <3>2. ExistVerdicts(s, j, c) = BeforeVerdicts(s) BY <2>1, <3>1, VerdictsOfNothing
    <3>. QED BY <3>1, <3>2
  <2>3. v.pending = s.present BY <2>2 DEF BeforeVerdicts
  <2>. QED BY <1>1, <1>2, <1>4, <2>3
<1>. QED BY <1>3, <1>4

-----------------------------------------------------------------------------
(* The events a rebuild keeps.  KeptEvents is a fold as well.              *)

KeepOne(now, touched, kept, e) == IF Kept(now, e, touched) THEN Append(kept, e) ELSE kept

KeptRec(now, touched, events, h, n) ==
  h = [t \in SUBSET (1..n) |->
         IF t = {} THEN <<>> ELSE KeepOne(now, touched, h[t \ {Max(t)}], events[Max(t)])]

\* The recursion that FoldLeft runs over the events has a solution.
LEMMA KeptRecSolved ==
  ASSUME NEW now, NEW touched, NEW events, NEW n \in Nat
  PROVE  \E h : KeptRec(now, touched, events, h, n)
<1> DEFINE S == {k \in Nat : \E h : KeptRec(now, touched, events, h, k)}
<1>1. 0 \in S
  <2> DEFINE h == [t \in SUBSET (1..0) |-> <<>>]
  <2>1. SUBSET (1..0) = {{}} OBVIOUS
  <2>2. KeptRec(now, touched, events, h, 0) BY <2>1 DEF KeptRec
  <2>. QED BY <2>2
<1>2. ASSUME NEW k \in Nat, k \in S PROVE k + 1 \in S
  <2>1. PICK h : KeptRec(now, touched, events, h, k) BY <1>2
  <2> DEFINE g == [t \in SUBSET (1..(k + 1)) |->
                     IF t \subseteq 1..k THEN h[t]
                     ELSE KeepOne(now, touched, h[t \ {k + 1}], events[k + 1])]
             Rec(t) == IF t = {} THEN <<>>
                       ELSE KeepOne(now, touched, g[t \ {Max(t)}], events[Max(t)])
  <2>2. ASSUME NEW t \in SUBSET (1..(k + 1)) PROVE g[t] = Rec(t)
    <3>1. CASE t = {}
      <4>1. g[t] = h[t] /\ h[t] = <<>> BY <2>1, <3>1 DEF KeptRec
      <4>. QED BY <3>1, <4>1
    <3>2. CASE t # {} /\ t \subseteq 1..k
      <4>1. Max(t) \in t BY <3>2, LastPosition
      <4> DEFINE u == t \ {Max(t)}
      <4>2. u \in SUBSET (1..k) /\ u \in SUBSET (1..(k + 1)) /\ t \in SUBSET (1..k) BY <3>2
      <4>3. h[t] = KeepOne(now, touched, h[u], events[Max(t)]) BY <2>1, <3>2, <4>2 DEF KeptRec
      <4>4. g[t] = h[t] /\ g[u] = h[u] BY <3>2, <4>2
      <4> HIDE DEF g
      <4>. QED BY <3>2, <4>3, <4>4
    <3>3. CASE ~(t \subseteq 1..k)
      <4>1. k + 1 \in t /\ t # {} /\ t \subseteq 1..(k + 1) /\ k + 1 \in Nat BY <3>3
      <4>2. Max(t) \in t /\ \A y \in t : y <= Max(t)
        <5> HIDE DEF g, Rec, S
        <5>. QED BY <4>1, LastPosition
      <4>3. Max(t) = k + 1
        <5>1. Max(t) \in 1..(k + 1) /\ k + 1 <= Max(t) BY <4>1, <4>2
        <5>. QED BY <5>1
      <4> DEFINE u == t \ {k + 1}
      <4>4. u \in SUBSET (1..k) /\ u \in SUBSET (1..(k + 1)) OBVIOUS
      <4>5. g[t] = KeepOne(now, touched, h[u], events[k + 1]) /\ g[u] = h[u] BY <3>3, <4>4
      <4> HIDE DEF g
      <4>. QED BY <4>1, <4>3, <4>5
    <3>. QED BY <3>1, <3>2, <3>3
  <2>3. g = [t \in SUBSET (1..(k + 1)) |-> Rec(t)] BY <2>2
  <2>4. KeptRec(now, touched, events, g, k + 1) BY <2>3 DEF KeptRec
  <2> HIDE DEF g
  <2>. QED BY <2>4
<1> HIDE DEF S
<1>3. n \in S BY <1>1, <1>2, Induction
<1>. QED BY <1>3 DEF S

\* KeptEvents takes the events one after the other.
KeptAlong(now, touched, events, g) ==
  /\ g[0] = <<>>
  /\ \A k \in 1..Len(events) : g[k] = KeepOne(now, touched, g[k - 1], events[k])

LEMMA KeptRun ==
  ASSUME NEW now, NEW touched, NEW events, IsLog(events)
  PROVE  \E g : KeptAlong(now, touched, events, g) /\ KeptEvents(now, events, touched) = g[Len(events)]
<1> DEFINE n == Len(events)
           h == CHOOSE f : KeptRec(now, touched, events, f, n)
<1>0. n \in Nat /\ DOMAIN events = 1..n BY DEF IsLog
<1> HIDE DEF n
<1>1. KeptRec(now, touched, events, h, n) BY <1>0, KeptRecSolved
<1>2. KeptEvents(now, events, touched) = h[1..n]
  <2> DEFINE Step(kept, e) == KeepOne(now, touched, kept, e)
  <2>1. KeptEvents(now, events, touched) = FoldLeft(Step, <<>>, events)
    BY DEF KeptEvents, KeepOne
  <2>2. FoldLeft(Step, <<>>, events) = h[1..n]
    BY <1>0, <1>1 DEF FoldLeft, MapThenFoldSet, KeptRec
  <2>. QED BY <2>1, <2>2
<1> HIDE DEF h
<1> DEFINE g == [k \in 0..n |-> h[1..k]]
<1>3. g[0] = <<>>
  <2>1. 1..0 = {} /\ 1..0 \in SUBSET (1..n) OBVIOUS
  <2>2. h[1..0] = <<>> BY <1>1, <2>1 DEF KeptRec
  <2>. QED BY <1>0, <2>2
<1>4. ASSUME NEW k \in 1..n PROVE g[k] = KeepOne(now, touched, g[k - 1], events[k])
  <2>1. 1..k \in SUBSET (1..n) /\ 1..k # {} /\ k \in Nat
    <3> HIDE DEF g
    <3>1. k \in Nat /\ k <= n /\ k \in 1..k BY <1>0
    <3>2. 1..k \subseteq 1..n BY <1>0, <3>1
    <3>. QED BY <3>1, <3>2
  <2>2. Max(1..k) \in 1..k /\ \A y \in 1..k : y <= Max(1..k) BY <2>1, LastPosition
  <2>3. Max(1..k) = k BY <2>1, <2>2
  <2>4. (1..k) \ {k} = 1..(k - 1) BY <2>1
  <2>5. h[1..k] = KeepOne(now, touched, h[1..(k - 1)], events[k])
    <3> HIDE DEF g
    <3>1. h[1..k] = KeepOne(now, touched, h[(1..k) \ {Max(1..k)}], events[Max(1..k)])
      BY <1>1, <2>1 DEF KeptRec
    <3>. QED BY <2>3, <2>4, <3>1
  <2>6. g[k] = h[1..k] /\ g[k - 1] = h[1..(k - 1)] BY <1>0
  <2>. QED BY <2>5, <2>6
<1>5. g[n] = h[1..n] BY <1>0
<1> HIDE DEF g
<1>6. KeptAlong(now, touched, events, g) BY <1>3, <1>4 DEF KeptAlong, n
<1>. QED BY <1>2, <1>5, <1>6 DEF n

LEMMA KeptMore ==
  ASSUME NEW now, NEW touched, NEW events, IsLog(events), NEW e
  PROVE  KeptEvents(now, Append(events, e), touched) =
           KeepOne(now, touched, KeptEvents(now, events, touched), e)
<1>0. PICK n, more : n = Len(events) /\ more = Append(events, e) OBVIOUS
<1>1. /\ n \in Nat /\ IsLog(more) /\ Len(more) = n + 1 /\ more[n + 1] = e
      /\ \A k \in 1..n : more[k] = events[k]
  <2>1. PICK T : events \in Seq(T) BY DEF IsLog
  <2>2. events \in Seq(T \cup {e}) /\ more \in Seq(T \cup {e}) BY <1>0, <2>1
  <2>. QED BY <1>0, <2>2 DEF IsLog
<1>2. PICK g : KeptAlong(now, touched, events, g) /\ KeptEvents(now, events, touched) = g[n]
  BY <1>0, KeptRun
<1>3. PICK h : KeptAlong(now, touched, more, h) /\ KeptEvents(now, more, touched) = h[n + 1]
  BY <1>1, KeptRun
<1> DEFINE S == {k \in Nat : k <= n => h[k] = g[k]}
<1>4. 0 \in S BY <1>2, <1>3 DEF KeptAlong
<1>5. ASSUME NEW k \in Nat, k \in S PROVE k + 1 \in S
  <2>1. SUFFICES ASSUME k + 1 <= n PROVE h[k + 1] = g[k + 1] OBVIOUS
  <2>2. k + 1 \in 1..n /\ k + 1 \in 1..(n + 1) /\ (k + 1) - 1 = k /\ h[k] = g[k] BY <1>1, <1>5, <2>1
  <2>3. h[k + 1] = KeepOne(now, touched, h[k], more[k + 1]) BY <1>1, <1>3, <2>2 DEF KeptAlong
  <2>4. g[k + 1] = KeepOne(now, touched, g[k], events[k + 1]) BY <1>0, <1>2, <2>2 DEF KeptAlong
  <2>. QED BY <1>1, <2>2, <2>3, <2>4
<1> HIDE DEF S
<1>6. n \in S BY <1>1, <1>4, <1>5, Induction
<1>7. h[n] = g[n] BY <1>1, <1>6 DEF S
<1>8. h[n + 1] = KeepOne(now, touched, h[n], more[n + 1])
  <2>1. n + 1 \in 1..(n + 1) /\ (n + 1) - 1 = n BY <1>1
  <2>. QED BY <1>1, <1>3, <2>1 DEF KeptAlong
<1>. QED BY <1>0, <1>1, <1>2, <1>3, <1>7, <1>8

\* Of the ticks before, nothing is kept.
LEMMA KeptOfOld ==
  ASSUME NEW now \in Int, NEW touched, NEW events, UpTo(events, now - 1)
  PROVE  KeptEvents(now, events, touched) = <<>>
<1>0. PICK n : n = Len(events) OBVIOUS
<1>1. n \in Nat /\ DOMAIN events = 1..n /\ IsLog(events) BY <1>0 DEF UpTo, IsLog
<1>2. PICK g : KeptAlong(now, touched, events, g) /\ KeptEvents(now, events, touched) = g[n]
  BY <1>0, <1>1, KeptRun
<1> DEFINE S == {k \in Nat : k <= n => g[k] = <<>>}
<1>3. 0 \in S BY <1>2 DEF KeptAlong
<1>4. ASSUME NEW k \in Nat, k \in S PROVE k + 1 \in S
  <2>1. SUFFICES ASSUME k + 1 <= n PROVE g[k + 1] = <<>> OBVIOUS
  <2>2. k + 1 \in 1..n /\ (k + 1) - 1 = k /\ g[k] = <<>> BY <1>1, <1>4, <2>1
  <2>3. g[k + 1] = KeepOne(now, touched, g[k], events[k + 1]) BY <1>0, <1>2, <2>2 DEF KeptAlong
  <2>4. events[k + 1].at <= now - 1 /\ events[k + 1].at \in Int BY <1>1, <2>2 DEF UpTo
  <2>5. ~Kept(now, events[k + 1], touched) BY <2>4 DEF Kept
  <2>. QED BY <2>2, <2>3, <2>5 DEF KeepOne
<1> HIDE DEF S
<1>5. n \in S BY <1>1, <1>3, <1>4, Induction
<1>. QED BY <1>1, <1>2, <1>5 DEF S

\* Who knows S and is told the kept events of tick i knows which of the touched
\* actors are present.
Trails(S, i, touched, st) ==
  LET kept == KeptEvents(i, st.events, touched)
  IN  /\ IsLog(st.events) /\ IsLog(kept)
      /\ \A k \in DOMAIN kept : kept[k].actor \in touched
      /\ \A a \in touched : a \in Told(S, kept) <=> a \in st.pending

LEMMA FireTrails ==
  ASSUME NEW S, NEW i \in Int, NEW touched, NEW st, NEW q, NEW x,
         Trails(S, i, touched, st), FiredOn(st, q, x, i)
  PROVE  Trails(S, i, touched, q)
<1>1. CASE q = st BY <1>1
<1>2. CASE \E e : /\ e.actor = x.actor /\ e.at = i
                  /\ q.events = Append(st.events, e) /\ q.pending = Heard(st.pending, e)
  <2>1. PICK e : /\ e.actor = x.actor /\ e.at = i
                 /\ q.events = Append(st.events, e) /\ q.pending = Heard(st.pending, e)
    BY <1>2
  <2>2. PICK h, kept : h = st.events /\ kept = KeptEvents(i, h, touched) OBVIOUS
  <2>3. /\ IsLog(h) /\ IsLog(kept)
        /\ \A k \in DOMAIN kept : kept[k].actor \in touched
        /\ \A a \in touched : a \in Told(S, kept) <=> a \in st.pending
    BY <2>2 DEF Trails
  <2>4. IsLog(Append(h, e)) BY <2>3, ToldMore
  <2>5. KeptEvents(i, Append(h, e), touched) = KeepOne(i, touched, kept, e) BY <2>2, <2>3, KeptMore
  <2>6. CASE x.actor \in touched
    <3>1. KeepOne(i, touched, kept, e) = Append(kept, e) BY <2>1, <2>6 DEF KeepOne, Kept
    <3>2. IsLog(Append(kept, e)) /\ Told(S, Append(kept, e)) = Heard(Told(S, kept), e)
      BY <2>3, ToldMore
    <3>3. \A k \in DOMAIN Append(kept, e) : Append(kept, e)[k].actor \in touched
      <4>1. PICK T : kept \in Seq(T) BY <2>3 DEF IsLog
      <4>2. kept \in Seq(T \cup {e}) BY <4>1
      <4>3. \A k \in DOMAIN Append(kept, e) :
              Append(kept, e)[k] = e \/ (k \in DOMAIN kept /\ Append(kept, e)[k] = kept[k])
        BY <4>2
      <4>. QED BY <2>1, <2>3, <2>6, <4>3
    <3>4. ASSUME NEW a \in touched
          PROVE  a \in Heard(Told(S, kept), e) <=> a \in Heard(st.pending, e)
      BY <2>3 DEF Heard
    <3>. QED BY <2>1, <2>2, <2>4, <2>5, <3>1, <3>2, <3>3, <3>4 DEF Trails
  <2>7. CASE x.actor \notin touched
    <3>1. KeepOne(i, touched, kept, e) = kept BY <2>1, <2>7 DEF KeepOne, Kept
    <3>3. ASSUME NEW a, a \in touched PROVE a \in Heard(st.pending, e) <=> a \in st.pending
      <4>1. a # e.actor BY <2>1, <2>7, <3>3
      <4>. QED BY <4>1 DEF Heard
    <3>. QED BY <2>1, <2>2, <2>3, <2>4, <2>5, <3>1, <3>3 DEF Trails
  <2>. QED BY <2>6, <2>7
<1>. QED BY <1>1, <1>2 DEF FiredOn

\* The kept ones of the events lead from the presence P to the presence Q.
KeptTells(now, events, touched, P, Q) ==
  IsLog(KeptEvents(now, events, touched)) /\ Told(P, KeptEvents(now, events, touched)) = Q

\* Two engines about to run the tick i, z with interactions of the touched
\* actors added.
Abreast(s, z, A, B, i, c, touched) ==
  /\ WellFormed(s.exists, A) /\ WellFormed(z.exists, B)
  /\ s.tick + 1 = i /\ z.tick + 1 = i /\ Longer(s.exists, z.exists, c)
  /\ z.present = s.present /\ z.settled = s.settled /\ CrashedNow(z) = CrashedNow(s)
  /\ UpTo(z.events, i - 1)
  /\ \A k \in DOMAIN z.exists : k > Len(s.exists) => z.exists[k].actor \in touched

\* Of an actor of whom the kept events are silent, every verdict of F has found it
\* as it wanted it.
Quiet(z, i, crashed, touched, st, F, a) ==
  a \in touched /\ a \notin crashed /\ Silent(KeptEvents(i, st.events, touched), a) =>
    \A k \in DueOf(z, i, a, F) : z.exists[k].state = TRUE <=> a \in z.present

LEMMA FireQuiet ==
  ASSUME NEW z, NEW i \in Int, NEW crashed, NEW touched, NEW st, NEW q, NEW F, NEW l, NEW a,
         Trails(z.present, i, touched, st), Quiet(z, i, crashed, touched, st, F, a),
         z.exists[l].state \in BOOLEAN, q = Fire(z, i, crashed, st, l)
  PROVE  Quiet(z, i, crashed, touched, q, F \cup {l}, a)
<1> DEFINE kept == KeptEvents(i, st.events, touched)
           now  == KeptEvents(i, q.events, touched)
           G    == F \cup {l}
<1>1. SUFFICES ASSUME a \in touched, a \notin crashed, Silent(now, a)
               PROVE  \A k \in DueOf(z, i, a, G) : z.exists[k].state = TRUE <=> a \in z.present
  BY DEF Quiet
<1>2. PICK x : x = z.exists[l] OBVIOUS
<1>3. FiredOn(st, q, x, i) BY <1>2, FireGives
<1>4. IsLog(st.events) /\ IsLog(kept) /\ (a \in Told(z.present, kept) <=> a \in st.pending)
  BY <1>1 DEF Trails
<1>5. CASE q = st
  <2>1. \A k \in DueOf(z, i, a, F) : z.exists[k].state = TRUE <=> a \in z.present
    BY <1>1, <1>5 DEF Quiet
  <2>2. a \in st.pending <=> a \in z.present BY <1>1, <1>4, <1>5, ToldBySilence
  <2>3. ASSUME l \in DueAt(z, i), x.actor = a PROVE x.state = TRUE <=> a \in st.pending
    <3>1. st = ApplyExist(st, x, i) BY <1>1, <1>2, <1>5, <2>3 DEF Fire
    <3>2. SUFFICES ASSUME ~(x.state = TRUE <=> a \in st.pending) PROVE FALSE OBVIOUS
    <3>3. PICK e : e = [kind |-> IF x.state THEN "spawn" ELSE "despawn", actor |-> x.actor, at |-> i]
      OBVIOUS
    <3>4. (a \in st.pending) # x.state BY <1>2, <3>2
    <3>5. st = [pending |-> IF x.state THEN st.pending \cup {x.actor} ELSE st.pending \ {x.actor},
                events  |-> Append(st.events, e)]
      BY <2>3, <3>1, <3>3, <3>4 DEF ApplyExist
    <3>6. st.pending = IF x.state THEN st.pending \cup {a} ELSE st.pending \ {a} BY <2>3, <3>5
    <3>. QED BY <1>2, <3>2, <3>6
  <2>4. ASSUME NEW k \in DueOf(z, i, a, G) PROVE z.exists[k].state = TRUE <=> a \in z.present
    <3>1. CASE k \in DueOf(z, i, a, F) BY <2>1, <3>1
    <3>2. CASE k \notin DueOf(z, i, a, F)
      <4>1. k = l /\ l \in DueAt(z, i) /\ x.actor = a BY <1>2, <3>2 DEF DueOf
      <4>. QED BY <1>2, <2>2, <2>3, <4>1
    <3>. QED BY <3>1, <3>2
  <2>. QED BY <2>4
<1>6. CASE q # st
  <2>1. PICK e : e.actor = x.actor /\ e.at = i /\ q.events = Append(st.events, e)
    BY <1>3, <1>6 DEF FiredOn
  <2>2. now = KeepOne(i, touched, kept, e) BY <1>4, <2>1, KeptMore
  <2>3. x.actor # a /\ Silent(kept, a)
    <3>1. CASE Kept(i, e, touched)
      <4>1. now = Append(kept, e) BY <2>2, <3>1 DEF KeepOne
      <4>2. PICK T : kept \in Seq(T) BY <1>4 DEF IsLog
      <4> HIDE DEF kept, now
      <4>3. kept \in Seq(T \cup {e}) BY <4>2
      <4>4. /\ Len(kept) + 1 \in DOMAIN now /\ now[Len(kept) + 1] = e
            /\ \A k \in DOMAIN kept : k \in DOMAIN now /\ now[k] = kept[k]
        BY <4>1, <4>3
      <4>. QED BY <1>1, <2>1, <4>4 DEF Silent
    <3>2. CASE ~Kept(i, e, touched)
      <4>1. now = kept BY <2>2, <3>2 DEF KeepOne
      <4>2. e.actor \notin touched BY <2>1, <3>2 DEF Kept
      <4>. QED BY <1>1, <2>1, <4>1, <4>2
    <3>. QED BY <3>1, <3>2
  <2>4. DueOf(z, i, a, G) = DueOf(z, i, a, F) BY <1>2, <2>3 DEF DueOf
  <2>. QED BY <1>1, <2>3, <2>4 DEF Quiet
<1>. QED BY <1>5, <1>6

\* The kept events of the verdicts tell of the touched actors, and of all that was
\* done to them.
LEMMA VerdictsTrail ==
  ASSUME NEW z, NEW i \in Int, NEW crashed, NEW touched, NEW B, WellFormed(z.exists, B),
         UpTo(z.events, i - 1)
  PROVE  /\ Trails(z.present, i, touched, ExistVerdicts(z, i, crashed))
         /\ \A a : Quiet(z, i, crashed, touched, ExistVerdicts(z, i, crashed), DOMAIN z.exists, a)
<1>0. PICK n : n = Len(z.exists) /\ Listed(z, n) BY WellFormedListed
<1>n. n \in Nat /\ DOMAIN z.exists = 1..n /\ \A k \in 1..n : IdOrder(n)[k] \in 1..n BY <1>0 DEF Listed
<1>1s. PICK g : VerdictSteps(z, i, crashed, n, g) BY <1>0, VerdictsRun
<1>1. /\ g[0] = BeforeVerdicts(z)
      /\ \A k \in 1..n : g[k] = Fire(z, i, crashed, g[k - 1], IdOrder(n)[k])
      /\ ExistVerdicts(z, i, crashed) = g[n]
  BY ONLY <1>1s DEF VerdictSteps
<1>f. Foremost(n, n) = DOMAIN z.exists /\ Foremost(n, 0) = {} BY <1>0, ForemostAll
<1> DEFINE Both(st, F) == /\ Trails(z.present, i, touched, st)
                          /\ \A a : Quiet(z, i, crashed, touched, st, F, a)
           S == {k \in Nat : k <= n => Both(g[k], Foremost(n, k))}
<1>2. 0 \in S
  <2>1. PICK st : st = g[0] OBVIOUS
  <2>2. st.pending = z.present /\ st.events = z.events BY <1>1, <2>1 DEF BeforeVerdicts
  <2>3. KeptEvents(i, z.events, touched) = <<>> BY KeptOfOld
  <2>4. IsLog(z.events) BY DEF UpTo
  <2>5. IsLog(<<>>) /\ Told(z.present, <<>>) = z.present /\ DOMAIN <<>> = {} BY ToldNothing
  <2>6. Trails(z.present, i, touched, st) BY <2>2, <2>3, <2>4, <2>5 DEF Trails
  <2>7. \A a : Quiet(z, i, crashed, touched, st, {}, a) BY DEF Quiet, DueOf
  <2>. QED BY <1>f, <2>1, <2>6, <2>7
<1>3. ASSUME NEW k \in Nat, k \in S PROVE k + 1 \in S
  <2>1. SUFFICES ASSUME k + 1 <= n PROVE Both(g[k + 1], Foremost(n, k + 1)) OBVIOUS
  <2>2. k + 1 \in 1..n /\ (k + 1) - 1 = k /\ Both(g[k], Foremost(n, k)) BY <1>n, <1>3, <2>1
  <2>3. PICK F, m, st, q : F = Foremost(n, k) /\ m = IdOrder(n)[k + 1] /\ st = g[k] /\ q = g[k + 1]
    OBVIOUS
  <2>4. Foremost(n, k + 1) = F \cup {m} BY <1>0, <2>1, <2>3, ForemostGrows
  <2>5. q = Fire(z, i, crashed, st, m) /\ z.exists[m].state \in BOOLEAN
    BY <1>n, <1>1, <2>2, <2>3 DEF WellFormed
  <2>6. Trails(z.present, i, touched, st) /\ \A a : Quiet(z, i, crashed, touched, st, F, a)
    BY <2>2, <2>3
  <2> HIDE DEF S, Both
  <2>7. PICK x : x = z.exists[m] OBVIOUS
  <2>8. FiredOn(st, q, x, i) BY <2>5, <2>7, FireGives
  <2>9. Trails(z.present, i, touched, q) BY <2>6, <2>8, FireTrails
  <2>10. ASSUME NEW a PROVE Quiet(z, i, crashed, touched, q, F \cup {m}, a)
    <3>1. Quiet(z, i, crashed, touched, st, F, a) BY <2>6
    <3>. QED BY <2>5, <2>6, <3>1, FireQuiet
  <2>. QED BY <2>3, <2>4, <2>9, <2>10 DEF Both
<1> HIDE DEF S
<1>4. n \in S BY <1>n, <1>2, <1>3, Induction
<1>5. Both(g[n], Foremost(n, n)) BY <1>n, <1>4 DEF S
<1> HIDE DEF Both
<1>6. Both(ExistVerdicts(z, i, crashed), DOMAIN z.exists) BY <1>f, <1>1, <1>5
<1>. QED BY <1>6 DEF Both

\* From the presence after the tick in s, the kept events of z lead to the
\* presence in z.
LEMMA TickKeeps ==
  ASSUME NEW s, NEW z, NEW A, NEW B, NEW i \in Int, NEW c, NEW touched, NEW acts, NEW acz,
         Abreast(s, z, A, B, i, c, touched), ~(Mode = "clip" /\ i = ClipTicks)
  PROVE  KeptTells(i, EngineTick(z, acz).events, touched,
                   EngineTick(s, acts).present, EngineTick(z, acz).present)
<1>0. /\ WellFormed(s.exists, A) /\ WellFormed(z.exists, B)
      /\ s.tick + 1 = i /\ z.tick + 1 = i /\ Longer(s.exists, z.exists, c)
      /\ z.present = s.present /\ z.settled = s.settled /\ CrashedNow(z) = CrashedNow(s)
      /\ UpTo(z.events, i - 1)
      /\ \A k \in DOMAIN z.exists : k > Len(s.exists) => z.exists[k].actor \in touched
  BY DEF Abreast
<1> USE <1>0
<1> DEFINE n == Len(s.exists)
           m == Len(z.exists)
<1>1. PICK cr : cr = CrashedNow(s) OBVIOUS
<1>2. /\ EngineTick(s, acts).present = ExistVerdicts(s, i, cr).pending
      /\ EngineTick(z, acz).present = ExistVerdicts(z, i, cr).pending
      /\ EngineTick(z, acz).events = ExistVerdicts(z, i, cr).events
  BY <1>1 DEF EngineTick
<1>3. /\ n \in Nat /\ DOMAIN s.exists = 1..n /\ m \in Nat /\ DOMAIN z.exists = 1..m BY DEF WellFormed
<1>4. /\ n <= m /\ \A k \in 1..n : z.exists[k] = s.exists[k] BY DEF Longer
<1>5. \A k \in 1..n : k \in DueAt(z, i) <=> k \in DueAt(s, i) BY <1>3, <1>4 DEF DueAt
<1>6. \A k \in DOMAIN z.exists : k > n => z.exists[k].actor \in touched OBVIOUS
<1>7. PICK v, w, kept : /\ v = ExistVerdicts(s, i, cr) /\ w = ExistVerdicts(z, i, cr)
                        /\ kept = KeptEvents(i, w.events, touched)
  OBVIOUS
<1>8. Trails(z.present, i, touched, w) /\ \A a : Quiet(z, i, cr, touched, w, DOMAIN z.exists, a)
  BY <1>7, VerdictsTrail
<1>9. /\ IsLog(kept) /\ \A k \in DOMAIN kept : kept[k].actor \in touched
      /\ \A a \in touched : a \in Told(z.present, kept) <=> a \in w.pending
  BY <1>7, <1>8 DEF Trails
<1> HIDE DEF n, m
<1>10. ASSUME NEW a PROVE a \in Told(v.pending, kept) <=> a \in w.pending
  <2>1. CASE \E k : Says(kept, a, k)
    <3>1. PICK k : Says(kept, a, k) BY <2>1
    <3>2. a \in touched BY <1>9, <3>1 DEF Says
    <3>3. a \in Told(v.pending, kept) <=> kept[k].kind = "spawn" BY <1>9, <3>1, ToldByLast
    <3>4. a \in Told(z.present, kept) <=> kept[k].kind = "spawn" BY <1>9, <3>1, ToldByLast
    <3>. QED BY <1>9, <3>2, <3>3, <3>4
  <2>2. CASE Silent(kept, a)
    <3>1. a \in Told(v.pending, kept) <=> a \in v.pending BY <2>2, ToldBySilence
    <3>2. a \in v.pending <=> a \in w.pending
      <4>1. CASE a \notin touched
        <5>1. DueOf(z, i, a, DOMAIN z.exists) = DueOf(s, i, a, DOMAIN s.exists)
          <6>1. ASSUME NEW k \in DOMAIN z.exists, z.exists[k].actor = a PROVE k \in DOMAIN s.exists
            BY <1>3, <1>6, <4>1, <6>1
          <6>2. ASSUME NEW k \in DOMAIN s.exists
                PROVE  /\ k \in DOMAIN z.exists /\ z.exists[k] = s.exists[k]
                       /\ k \in DueAt(z, i) <=> k \in DueAt(s, i)
            BY <1>3, <1>4, <1>5
          <6>. QED BY <6>1, <6>2 DEF DueOf
        <5>2. \A k \in DueOf(s, i, a, DOMAIN s.exists) : z.exists[k] = s.exists[k]
          BY <1>3, <1>4 DEF DueOf
        <5>3. a \in z.present <=> a \in s.present OBVIOUS
        <5>. QED BY <1>7, <5>1, <5>2, <5>3, VerdictsAgree
      <4>2. CASE a \in cr BY <1>7, <4>2, VerdictsSpare
      <4>3. CASE a \in touched /\ a \notin cr
        <5>1. a \in w.pending <=> a \in z.present BY <1>9, <2>2, <4>3, ToldBySilence
        <5>2. \A k \in DueOf(z, i, a, DOMAIN z.exists) : z.exists[k].state = TRUE <=> a \in z.present
          BY <1>7, <1>8, <2>2, <4>3 DEF Quiet
        <5>3. \A k \in DueOf(s, i, a, DOMAIN s.exists) :
                k \in DueOf(z, i, a, DOMAIN z.exists) /\ z.exists[k] = s.exists[k]
          <6>1. ASSUME NEW k \in DOMAIN s.exists
                PROVE  /\ k \in DOMAIN z.exists /\ z.exists[k] = s.exists[k]
                       /\ k \in DueAt(z, i) <=> k \in DueAt(s, i)
            BY <1>3, <1>4, <1>5
          <6>. QED BY <6>1 DEF DueOf
        <5>4. Verdict(s, i, v, DOMAIN s.exists, a) BY <1>7, <4>3, VerdictsDecide
        <5>5. a \in v.pending <=> a \in s.present BY <5>2, <5>3, <5>4 DEF Verdict
        <5>. QED BY <5>1, <5>5
      <4>. QED BY <4>1, <4>2, <4>3
    <3>. QED BY <3>1, <3>2
  <2>. QED BY <1>9, <2>1, <2>2, SaysOrSilent
<1>11. Told(v.pending, kept) = w.pending BY <1>10
<1>. QED BY <1>2, <1>7, <1>9, <1>11 DEF KeptTells

\* The events of a run are of the ticks it has passed.
LEMMA RunUpTo ==
  ASSUME NEW E, NEW inp, NEW line, NEW n, RunOf(E, inp, line, n), Buildable(inp), NEW j \in 0..n
  PROVE  UpTo(E[j].events, j)
<1> DEFINE S == {k \in Nat : k <= n => UpTo(E[k].events, k)}
<1>0. n \in Nat BY DEF RunOf
<1>1. ASSUME NEW s, NEW acts, NEW k \in Int, s.tick + 1 = k, s.exists = inp.exists, UpTo(s.events, k)
      PROVE  UpTo(EngineTick(s, acts).events, k)
  <2>1. PICK cr : cr = CrashedNow(s) OBVIOUS
  <2>2. EngineTick(s, acts).events = ExistVerdicts(s, k, cr).events BY <1>1, <2>1 DEF EngineTick
  <2>3. WellFormed(s.exists, inp.actors) BY <1>1 DEF Buildable
  <2>4. UpTo(ExistVerdicts(s, k, cr).events, k) BY <1>1, <2>3, VerdictsUpTo
  <2>. QED BY <2>2, <2>4
<1>2. 0 \in S
  <2>1. PICK s : s = NewSim(inp) OBVIOUS
  <2>2. s.tick + 1 = 0 /\ s.exists = inp.exists /\ s.events = <<>> BY <2>1 DEF NewSim
  <2>3. IsLog(s.events) /\ DOMAIN s.events = {} BY <2>2, ToldNothing
  <2>4. UpTo(s.events, 0) BY <2>3 DEF UpTo
  <2>5. E[0] = EngineTick(s, NoActs) BY <2>1 DEF RunOf, Parked0
  <2>. QED BY <1>1, <2>2, <2>4, <2>5
<1>3. ASSUME NEW k \in Nat, k \in S PROVE k + 1 \in S
  <2>1. SUFFICES ASSUME k + 1 <= n PROVE UpTo(E[k + 1].events, k + 1) OBVIOUS
  <2>2. k + 1 \in 1..n /\ k \in 0..n /\ (k + 1) - 1 = k /\ UpTo(E[k].events, k) BY <1>0, <1>3, <2>1
  <2>3. PICK acts : acts = ActionsAt(line, k, inp.actors) OBVIOUS
  <2>4. E[k + 1] = EngineTick(E[k], acts) BY <2>2, <2>3 DEF RunOf
  <2>5. PICK s : s = E[k] OBVIOUS
  <2>6. RunsAt(s, inp, k) BY <2>2, <2>5, RunServes
  <2>7. s.tick + 1 = k + 1 /\ s.exists = inp.exists BY <2>6 DEF RunsAt
  <2>8. UpTo(s.events, k + 1) BY <2>2, <2>5 DEF UpTo
  <2>. QED BY <1>1, <2>4, <2>5, <2>7, <2>8
<1> HIDE DEF S
<1>4. j \in Nat /\ j <= n BY <1>0
<1>5. j \in S BY <1>2, <1>3, <1>4, Induction
<1>. QED BY <1>4, <1>5 DEF S

LEMMA SameCrashes ==
  ASSUME NEW s, NEW z, NEW A, Alike(s, z, A), s.present \subseteq A
  PROVE  CrashedNow(z) = CrashedNow(s)
<1>1. \A a \in s.present : Collides(z, a) <=> Collides(s, a) BY DEF Collides, Alike
<1>. QED BY <1>1 DEF CrashedNow, Alike

\* Caught up, the kept events lead from who was present to who is present now.
LEMMA RebuildTells ==
  ASSUME NEW s, NEW inp, NEW cand, NEW line, NEW dg, Past(s, inp, line, dg), NEW m \in Nat, s.tick = m,
         Enlarges(inp, cand, m), NEW Z, RunOf(Z, cand, line, m), ~(Mode = "clip" /\ m = ClipTicks),
         NEW touched, \A k \in DOMAIN cand.exists : k > Len(inp.exists) => cand.exists[k].actor \in touched
  PROVE  KeptTells(m, Z[m].events, touched, s.present, Z[m].present)
<1>1. PICK E : RunOf(E, inp, line, m) /\ Alike(E[m], s, inp.actors) BY DEF Past, Retraced
<1>2. s.present = E[m].present BY <1>1 DEF Alike
<1>3. /\ Buildable(inp) /\ Buildable(cand) /\ Longer(inp.exists, cand.exists, m)
      /\ WellFormed(inp.exists, inp.actors) /\ WellFormed(cand.exists, cand.actors)
      /\ StartPresent \subseteq inp.actors
  BY DEF Enlarges, Buildable
<1>4. \E p, q, acts, acz :
        /\ E[m] = EngineTick(p, acts) /\ Z[m] = EngineTick(q, acz)
        /\ p.tick + 1 = m /\ p.exists = inp.exists /\ q.exists = cand.exists
        /\ p.present \subseteq inp.actors /\ Alike(p, q, inp.actors) /\ UpTo(q.events, m - 1)
  <2>1. CASE m = 0
    <3>1. PICK p, q : p = NewSim(inp) /\ q = NewSim(cand) OBVIOUS
    <3>2. E[m] = EngineTick(p, NoActs) /\ Z[m] = EngineTick(q, NoActs)
      BY <1>1, <2>1, <3>1 DEF RunOf, Parked0
    <3>3. /\ p.tick + 1 = m /\ p.exists = inp.exists /\ q.exists = cand.exists
          /\ p.present = StartPresent /\ q.events = <<>>
      BY <2>1, <3>1 DEF NewSim
    <3>4. Alike(p, q, inp.actors) BY <3>1 DEF NewSim, Alike, Enlarges
    <3>5. IsLog(q.events) /\ DOMAIN q.events = {} BY <3>3, ToldNothing
    <3>6. UpTo(q.events, m - 1) BY <3>5 DEF UpTo
    <3>. QED BY <1>3, <3>2, <3>3, <3>4, <3>6
  <2>2. CASE m # 0
    <3>1. PICK t \in Nat : t = m - 1 BY <2>2
    <3>2. m \in 1..m /\ t \in 0..m /\ t <= m /\ t < m /\ t + 1 = m BY <2>2, <3>1
    <3>3. PICK p, q : p = E[t] /\ q = Z[t] OBVIOUS
    <3>4. E[m] = EngineTick(p, ActionsAt(line, t, inp.actors))
          /\ Z[m] = EngineTick(q, ActionsAt(line, t, cand.actors))
      BY <1>1, <3>1, <3>2, <3>3 DEF RunOf
    <3>5. RunsAt(p, inp, t) /\ RunsAt(q, cand, t) BY <1>1, <1>3, <3>2, <3>3, RunServes
    <3>6. Alike(p, q, inp.actors) BY <1>1, <3>2, <3>3, RunsAlike
    <3>7. UpTo(q.events, t) BY <1>3, <3>2, <3>3, RunUpTo
    <3>8. /\ p.tick + 1 = m /\ p.exists = inp.exists /\ q.exists = cand.exists
          /\ p.present \subseteq inp.actors
      BY <3>2, <3>5 DEF RunsAt, Serves
    <3>. QED BY <3>1, <3>4, <3>6, <3>7, <3>8
  <2>. QED BY <2>1, <2>2
<1>5. PICK p, q, acts, acz :
        /\ E[m] = EngineTick(p, acts) /\ Z[m] = EngineTick(q, acz)
        /\ p.tick + 1 = m /\ p.exists = inp.exists /\ q.exists = cand.exists
        /\ p.present \subseteq inp.actors /\ Alike(p, q, inp.actors) /\ UpTo(q.events, m - 1)
  BY <1>4
<1>6. CrashedNow(q) = CrashedNow(p) BY <1>5, SameCrashes
<1>7. q.present = p.present /\ q.settled = p.settled /\ q.tick + 1 = m BY <1>5 DEF Alike
<1>8. /\ WellFormed(p.exists, inp.actors) /\ WellFormed(q.exists, cand.actors)
      /\ Longer(p.exists, q.exists, m)
      /\ \A k \in DOMAIN q.exists : k > Len(p.exists) => q.exists[k].actor \in touched
  BY <1>3, <1>5
<1>9. Abreast(p, q, inp.actors, cand.actors, m, m, touched)
  BY <1>5, <1>6, <1>7, <1>8 DEF Abreast
<1>10. KeptTells(m, EngineTick(q, acz).events, touched, EngineTick(p, acts).present, EngineTick(q, acz).present)
  <2>1. PICK A, B : A = inp.actors /\ B = cand.actors OBVIOUS
  <2>2. Abreast(p, q, A, B, m, m, touched) BY <1>9, <2>1
  <2>3. m \in Int OBVIOUS
  <2>. QED BY ONLY <2>2, <2>3, ~(Mode = "clip" /\ m = ClipTicks), TickKeeps
<1>. QED BY <1>2, <1>5, <1>10

-----------------------------------------------------------------------------
(* The events of a live commit.                                            *)

SpawnsTo(ops, k) == {j \in 1..k : ops[j].op = "spawn"}

\* One event for each of the first k ops.
Changes(w, ops, r, k) ==
  [j \in 1..k |-> IF ops[j].op = "spawn"
                  THEN [kind |-> "spawn", actor |-> r.spawned[Cardinality(SpawnsTo(ops, j))], at |-> w.sim.tick]
                  ELSE [kind |-> "despawn", actor |-> ops[j].id, at |-> w.sim.tick]]

\* They tell what the ops did to the presence.
OpsTold(w, ops, r, k) ==
  /\ Len(r.spawned) = Cardinality(SpawnsTo(ops, k))
  /\ IsLog(Changes(w, ops, r, k))
  /\ Told(w.sim.present, Changes(w, ops, r, k)) = (w.sim.present \cup Range(r.spawned)) \ r.despawned

LEMMA CountSpawns ==
  ASSUME NEW ops, NEW k \in Nat
  PROVE  /\ Cardinality(SpawnsTo(ops, k)) \in Nat
         /\ Cardinality(SpawnsTo(ops, k + 1)) =
              IF ops[k + 1].op = "spawn" THEN Cardinality(SpawnsTo(ops, k)) + 1
              ELSE Cardinality(SpawnsTo(ops, k))
         /\ \A j \in 1..k : Cardinality(SpawnsTo(ops, j)) <= Cardinality(SpawnsTo(ops, k))
                            /\ Cardinality(SpawnsTo(ops, j)) \in Nat
                            /\ (ops[j].op = "spawn" => Cardinality(SpawnsTo(ops, j)) > 0)
<1>1. ASSUME NEW j \in Nat PROVE IsFiniteSet(SpawnsTo(ops, j)) /\ Cardinality(SpawnsTo(ops, j)) \in Nat
  <2>1. SpawnsTo(ops, j) \subseteq 1..j /\ IsFiniteSet(1..j) BY FS_Interval DEF SpawnsTo
  <2>. QED BY <2>1, FS_Subset, FS_CardinalityType
<1>2. ASSUME ops[k + 1].op = "spawn"
      PROVE  Cardinality(SpawnsTo(ops, k + 1)) = Cardinality(SpawnsTo(ops, k)) + 1
  <2>1. SpawnsTo(ops, k + 1) = SpawnsTo(ops, k) \cup {k + 1} /\ k + 1 \notin SpawnsTo(ops, k)
    BY <1>2 DEF SpawnsTo
  <2>. QED BY <1>1, <2>1, FS_AddElement
<1>3. ASSUME ops[k + 1].op # "spawn"
      PROVE  Cardinality(SpawnsTo(ops, k + 1)) = Cardinality(SpawnsTo(ops, k))
  <2>1. SpawnsTo(ops, k + 1) = SpawnsTo(ops, k) BY <1>3 DEF SpawnsTo
  <2>. QED BY <2>1
<1>4. ASSUME NEW j \in 1..k
      PROVE  /\ Cardinality(SpawnsTo(ops, j)) <= Cardinality(SpawnsTo(ops, k))
             /\ ops[j].op = "spawn" => Cardinality(SpawnsTo(ops, j)) > 0
  <2>1. SpawnsTo(ops, j) \subseteq SpawnsTo(ops, k) BY DEF SpawnsTo
  <2>2. Cardinality(SpawnsTo(ops, j)) <= Cardinality(SpawnsTo(ops, k)) BY <1>1, <2>1, FS_Subset
  <2>3. ASSUME ops[j].op = "spawn" PROVE Cardinality(SpawnsTo(ops, j)) > 0
    <3>1. j \in SpawnsTo(ops, j) BY <2>3 DEF SpawnsTo
    <3>2. Cardinality(SpawnsTo(ops, j)) # 0 BY <1>1, <3>1, FS_EmptySet
    <3>. QED BY <1>1, <3>2
  <2>. QED BY <2>2, <2>3
<1>5. \A j \in 1..k : j \in Nat OBVIOUS
<1>. QED BY <1>1, <1>2, <1>3, <1>4, <1>5

\* The next op gives one change more, q having given at most one id more than r.
OneMore(w, ops, r, q, k) ==
  Changes(w, ops, q, k + 1) = Append(Changes(w, ops, r, k), Changes(w, ops, q, k + 1)[k + 1])

GivesOneMore(r, q) ==
  /\ \E S : r.spawned \in Seq(S)
  /\ q.spawned = r.spawned \/ \E id : q.spawned = Append(r.spawned, id)

LEMMA ChangesGrow ==
  ASSUME NEW w, NEW ops, NEW r, NEW q, NEW k \in Nat, OpsTold(w, ops, r, k), GivesOneMore(r, q)
  PROVE  OneMore(w, ops, r, q, k)
<1> DEFINE F == Changes(w, ops, r, k)
           G == Changes(w, ops, q, k + 1)
           c(j) == Cardinality(SpawnsTo(ops, j))
<1>0. PICK S : r.spawned \in Seq(S) BY DEF GivesOneMore
<1>1. \A j \in 1..Len(r.spawned) : q.spawned[j] = r.spawned[j]
  <2>1. CASE q.spawned = r.spawned BY <2>1
  <2>2. CASE \E id : q.spawned = Append(r.spawned, id)
    <3>1. PICK id : q.spawned = Append(r.spawned, id) BY <2>2
    <3>2. r.spawned \in Seq(S \cup {id}) BY <1>0
    <3>. QED BY <3>1, <3>2
  <2>. QED BY <2>1, <2>2 DEF GivesOneMore
<1>2. /\ DOMAIN F = 1..k /\ DOMAIN G = 1..(k + 1)
      /\ \A j \in 1..k : F[j] = IF ops[j].op = "spawn"
                  THEN [kind |-> "spawn", actor |-> r.spawned[c(j)], at |-> w.sim.tick]
                  ELSE [kind |-> "despawn", actor |-> ops[j].id, at |-> w.sim.tick]
      /\ \A j \in 1..(k + 1) : G[j] = IF ops[j].op = "spawn"
                  THEN [kind |-> "spawn", actor |-> q.spawned[c(j)], at |-> w.sim.tick]
                  ELSE [kind |-> "despawn", actor |-> ops[j].id, at |-> w.sim.tick]
  BY DEF Changes
<1>3. IsLog(F) /\ Len(r.spawned) = c(k) BY DEF OpsTold
<1>4. \A j \in 1..k : c(j) <= c(k) /\ c(j) \in Nat /\ (ops[j].op = "spawn" => c(j) > 0) BY CountSpawns
<1>5. c(k) \in Nat BY CountSpawns
<1>6. ASSUME NEW j \in 1..k PROVE G[j] = F[j]
  <2>1. j \in 1..(k + 1) OBVIOUS
  <2>2. CASE ops[j].op = "spawn"
    <3> HIDE DEF F, G, c
    <3>1. c(j) \in 1..Len(r.spawned) BY <1>3, <1>4, <1>5, <2>2
    <3>2. q.spawned[c(j)] = r.spawned[c(j)] BY <1>1, <3>1
    <3>. QED BY <1>2, <2>1, <2>2, <3>2
  <2>3. CASE ops[j].op # "spawn"
    <3> HIDE DEF F, G, c
    <3>. QED BY <1>2, <2>1, <2>3
  <2>. QED BY <2>2, <2>3
<1>7. PICK e : e = G[k + 1] OBVIOUS
<1>8. PICK T : F \in Seq(T) BY <1>3 DEF IsLog
<1> HIDE DEF F, G, c
<1>9. F \in Seq(T \cup {e}) /\ Len(F) = k BY <1>2, <1>8
<1>10. DOMAIN Append(F, e) = 1..(k + 1) /\ Append(F, e)[k + 1] = e
       /\ \A j \in 1..k : Append(F, e)[j] = F[j]
  BY <1>9
<1>11. \A j \in 1..(k + 1) : G[j] = Append(F, e)[j]
  <2>1. \A j \in 1..(k + 1) : j = k + 1 \/ j \in 1..k OBVIOUS
  <2>. QED BY <1>6, <1>7, <1>10, <2>1
<1>12. G = [j \in 1..(k + 1) |-> G[j]] /\ Append(F, e) = [j \in 1..(k + 1) |-> Append(F, e)[j]]
  <2>1. G = [j \in 1..(k + 1) |-> G[j]] BY DEF G, Changes
  <2>2. PICK V, h : V = T \cup {e} /\ h = Append(F, e) OBVIOUS
  <2>3. h \in Seq(V) /\ Len(h) = k + 1 BY <1>9, <2>2
  <2>4. h \in [1..(k + 1) -> V] BY <2>3
  <2>5. h = [j \in 1..(k + 1) |-> h[j]] BY <2>4
  <2>. QED BY <2>1, <2>2, <2>5
<1>13. G = Append(F, e) BY <1>11, <1>12
<1>. QED BY <1>7, <1>13 DEF F, G, OneMore

\* After k ops: the changes tell what the batch did to the presence.
RunsTold(w, ops, r, k) == RunsOn(w, ops, r, k) /\ (r.ok => OpsTold(w, ops, r, k))

LEMMA OpRunsTold ==
  ASSUME NEW w, Sound(w), NEW ops, NEW n \in Nat, DOMAIN ops = 1..n, NEW k \in Nat, k + 1 \in 1..n, NEW r,
         RunsTold(w, ops, r, k)
  PROVE  RunsTold(w, ops, ResolveOp(w, r, ops[k + 1]), k + 1)
<1> DEFINE q == ResolveOp(w, r, ops[k + 1])
           op == ops[k + 1]
<1>1. RunsOn(w, ops, q, k + 1)
  <2>1. (k + 1) - 1 = k OBVIOUS
  <2>2. RunsOn(w, ops, r, (k + 1) - 1) BY <2>1 DEF RunsTold
  <2>. QED BY <2>2, OpRunsOn
<1>2. ResolvedShape(r) BY DEF RunsTold, RunsOn, RunsWell
<1>3. SUFFICES ASSUME q.ok PROVE OpsTold(w, ops, q, k + 1) BY <1>1 DEF RunsTold
<1>4. r.ok
  <2>1. SUFFICES ASSUME ~r.ok PROVE FALSE OBVIOUS
  <2>2. q = r BY <2>1 DEF ResolveOp
  <2>. QED BY <1>3, <2>1, <2>2
<1>5. /\ Added(w, r) /\ Given(w, r) /\ Cardinality(SpawnsLeft(ops, k)) <= Cardinality(Free(w, r))
      /\ OpsTold(w, ops, r, k)
  BY <1>4 DEF RunsTold, RunsOn, RunsWell
<1>6. r.despawned \subseteq UsedIds(w, r) BY <1>5 DEF Added
<1>7. PICK S : r.spawned \in Seq(S) BY <1>5 DEF Given
<1> DEFINE e == Changes(w, ops, q, k + 1)[k + 1]
           F == Changes(w, ops, r, k)
           c(j) == Cardinality(SpawnsTo(ops, j))
           P == (w.sim.present \cup Range(r.spawned)) \ r.despawned
           Q == (w.sim.present \cup Range(q.spawned)) \ q.despawned
<1>8. k + 1 \in 1..(k + 1) OBVIOUS
<1>9. e = IF op.op = "spawn"
          THEN [kind |-> "spawn", actor |-> q.spawned[c(k + 1)], at |-> w.sim.tick]
          ELSE [kind |-> "despawn", actor |-> op.id, at |-> w.sim.tick]
  BY <1>8 DEF Changes
<1>10. c(k) \in Nat /\ c(k + 1) = IF op.op = "spawn" THEN c(k) + 1 ELSE c(k) BY CountSpawns
<1>11. IsLog(F) /\ Told(w.sim.present, F) = P /\ Len(r.spawned) = c(k) BY <1>5 DEF OpsTold
<1>12. /\ Len(q.spawned) = c(k + 1)
       /\ q.spawned = r.spawned \/ \E id : q.spawned = Append(r.spawned, id)
       /\ Q = Heard(P, e)
  <2>1. CASE op.op = "spawn"
    <3>1. q = ResolveSpawn(w, r, op) BY <1>4, <2>1 DEF ResolveOp
    <3>2. Free(w, r) # {}
      <4>1. SUFFICES ASSUME Free(w, r) = {} PROVE FALSE OBVIOUS
      <4>2. Cardinality(Free(w, r)) = 0 BY <4>1, FS_EmptySet
      <4>3. k + 1 \in SpawnsLeft(ops, k) BY <2>1 DEF SpawnsLeft
      <4>4. IsFiniteSet(SpawnsLeft(ops, k)) /\ Cardinality(SpawnsLeft(ops, k)) \in Nat
        BY CountsFinite
      <4>5. Cardinality(SpawnsLeft(ops, k)) # 0 BY <4>3, <4>4, FS_EmptySet
      <4>. QED BY <1>5, <4>2, <4>4, <4>5
    <3>3. PICK id : SpawnedAs(w, r, q, id) BY <1>2, <1>3, <1>5, <3>1, <3>2, SpawnAccepted
    <3> HIDE DEF q, F, c
    <3>4. /\ id \notin UsedIds(w, r) /\ q.spawned = Append(r.spawned, id)
          /\ q.despawned = r.despawned /\ Range(q.spawned) = Range(r.spawned) \cup {id}
      BY <3>3 DEF SpawnedAs
    <3>5. r.spawned \in Seq(S \cup {id}) BY <1>7
    <3>6. Len(q.spawned) = Len(r.spawned) + 1 /\ q.spawned[Len(r.spawned) + 1] = id BY <3>4, <3>5
    <3>7. Len(q.spawned) = c(k + 1) BY <1>10, <1>11, <2>1, <3>6
    <3>8. e.kind = "spawn" /\ e.actor = id
      <4>1. q.spawned[c(k + 1)] = id BY <1>10, <1>11, <2>1, <3>6
      <4> HIDE DEF e
      <4>. QED BY <1>9, <2>1, <4>1
    <3>9. Heard(P, e) = P \cup {id} BY <3>8 DEF Heard
    <3>10. id \notin r.despawned BY <1>6, <3>4
    <3>11. Q = P \cup {id} BY <3>4, <3>10
    <3>. QED BY <3>4, <3>7, <3>9, <3>11
  <2>2. CASE op.op # "spawn"
    <3>1. q = ResolveDespawn(w, r, op) BY <1>4, <2>2 DEF ResolveOp
    <3>2. DespawnedAs(w, r, q, op.id) BY <1>2, <1>3, <3>1, DespawnAccepted
    <3> HIDE DEF q, F, c
    <3>3. q.spawned = r.spawned /\ q.despawned = r.despawned \cup {op.id} BY <3>2 DEF DespawnedAs
    <3>4. e.kind = "despawn" /\ e.actor = op.id
      <4> HIDE DEF e
      <4>. QED BY <1>9, <2>2
    <3>5. Heard(P, e) = P \ {op.id} BY <3>4 DEF Heard
    <3>6. Q = P \ {op.id} BY <3>3
    <3>. QED BY <1>10, <1>11, <2>2, <3>3, <3>5, <3>6
  <2>. QED BY <2>1, <2>2
<1> HIDE DEF q
<1>13. Changes(w, ops, q, k + 1) = Append(F, e)
  <2>1. OpsTold(w, ops, r, k) /\ k \in Nat BY <1>5
  <2>2. GivesOneMore(r, q) BY <1>7, <1>12 DEF GivesOneMore
  <2>3. OneMore(w, ops, r, q, k) BY ONLY <2>1, <2>2, ChangesGrow
  <2>. QED BY <2>3 DEF OneMore
<1> HIDE DEF F, e, P, Q
<1>14. IsLog(Append(F, e)) /\ Told(w.sim.present, Append(F, e)) = Q BY <1>11, <1>12, ToldMore
<1>15. OpsTold(w, ops, q, k + 1) BY <1>12, <1>13, <1>14 DEF OpsTold, Q
<1>. QED BY <1>15 DEF q

\* The running engine after an accepted batch: its events tell who is present.
LEMMA LiveTells ==
  ASSUME NEW w, Sound(w), EngineShape(w.sim), NEW ops, NEW n \in Nat, DOMAIN ops = 1..n,
         Given(w, Unresolved(w)),
         Cardinality(SpawnsLeft(ops, 0)) <= Cardinality(Free(w, Unresolved(w))),
         Resolve(w, ops).ok, NEW known, NEW p, Tells(known, p, w.sim.events, w.sim.present)
  PROVE  LET q == LiveSim(w, ops, Resolve(w, ops)) IN Tells(known, p, q.events, q.present)
<1>1. ResolvedShape(Unresolved(w)) BY DEF ResolvedShape, Unresolved
<1>2. ops # <<>>
  <2>1. CASE ops = <<>>
    <3>1. Resolve(w, ops) = [Unresolved(w) EXCEPT !.ok = FALSE] BY <2>1 DEF Resolve
    <3>2. ~Resolve(w, ops).ok BY <1>1, <3>1 DEF ResolvedShape
    <3>. QED BY <3>2
  <2>. QED BY <2>1
<1>3. PICK g : /\ g[0] = Unresolved(w)
               /\ \A k \in 1..n : g[k] = ResolveOp(w, g[k - 1], ops[k])
               /\ Resolve(w, ops) = g[n]
  BY <1>2, ResolveRuns
<1> DEFINE S == {k \in Nat : k <= n => RunsTold(w, ops, g[k], k)}
<1>4. 0 \in S
  <2> DEFINE u == Unresolved(w)
             x == w.input.exists
  <2>1. u.exists = x /\ u.despawned = {} /\ u.spawned = <<>> BY DEF Unresolved
  <2>2. Range(u.spawned) = {} BY <2>1 DEF Range
  <2>3. UsedIds(w, u) = w.input.actors BY <2>2 DEF UsedIds
  <2>4. WellFormed(x, w.input.actors) /\ Len(x) \in Nat /\ DOMAIN x = 1..Len(x)
    BY DEF Sound, WellFormed
  <2> HIDE DEF u, x
  <2>5. \A a : NewFor(x, Len(x), a) = {} BY <2>4 DEF NewFor
  <2>6. Added(w, u) BY <2>1, <2>2, <2>3, <2>4, <2>5 DEF Added, AddedFor, x
  <2>7. RunsWell(w, ops, u, 0) BY <1>1 DEF RunsWell, u
  <2>8. OpsTold(w, ops, u, 0)
    <3>1. SpawnsTo(ops, 0) = {} BY DEF SpawnsTo
    <3>2. Len(u.spawned) = 0 /\ Cardinality(SpawnsTo(ops, 0)) = 0 BY <2>1, <3>1, FS_EmptySet
    <3>3. Changes(w, ops, u, 0) = <<>> BY DEF Changes
    <3>4. IsLog(<<>>) /\ Told(w.sim.present, <<>>) = w.sim.present BY ToldNothing
    <3>5. (w.sim.present \cup Range(u.spawned)) \ u.despawned = w.sim.present BY <2>1, <2>2
    <3>. QED BY <3>2, <3>3, <3>4, <3>5 DEF OpsTold
  <2>. QED BY <1>3, <2>6, <2>7, <2>8 DEF RunsOn, RunsTold, u
<1>5. ASSUME NEW k \in Nat, k \in S PROVE k + 1 \in S
  <2>1. SUFFICES ASSUME k + 1 <= n PROVE RunsTold(w, ops, g[k + 1], k + 1)
    OBVIOUS
  <2>2. k + 1 \in 1..n /\ (k + 1) - 1 = k /\ RunsTold(w, ops, g[k], k) BY <1>5, <2>1
  <2>3. g[k + 1] = ResolveOp(w, g[k], ops[k + 1]) BY <1>3, <2>2
  <2> HIDE DEF S
  <2>. QED BY <2>2, <2>3, OpRunsTold
<1> HIDE DEF S
<1>6. n \in S BY <1>4, <1>5, Induction
<1>7. PICK r : r = Resolve(w, ops) OBVIOUS
<1>8. OpsTold(w, ops, r, n) BY <1>3, <1>6, <1>7 DEF S, RunsTold
<1>9. PICK F : F = Changes(w, ops, r, n) OBVIOUS
<1>10. LiveEvents(w, ops, r) = w.sim.events \o F BY <1>9 DEF LiveEvents, Changes, SpawnsTo
<1>11. /\ LiveSim(w, ops, r).events = w.sim.events \o F
       /\ LiveSim(w, ops, r).present = (w.sim.present \cup Range(r.spawned)) \ r.despawned
  BY <1>10 DEF LiveSim, EngineShape
<1>12. IsLog(F) /\ Told(w.sim.present, F) = (w.sim.present \cup Range(r.spawned)) \ r.despawned
  BY <1>8, <1>9 DEF OpsTold
<1>13. PICK ev : ev = w.sim.events OBVIOUS
<1>14. IsLog(p) /\ IsLog(ev) /\ Told(known, p \o ev) = w.sim.present BY <1>13 DEF Tells
<1>15. IsLog(p \o ev) /\ IsLog(ev \o F) BY <1>12, <1>14, ToldInParts
<1>16. Told(known, (p \o ev) \o F) = Told(w.sim.present, F) BY <1>12, <1>14, <1>15, ToldInParts
<1>17. (p \o ev) \o F = p \o (ev \o F)
  <2>1. PICK A, B, C : p \in Seq(A) /\ ev \in Seq(B) /\ F \in Seq(C) BY <1>12, <1>14 DEF IsLog
  <2>2. PICK V : V = A \cup B \cup C OBVIOUS
  <2>3. p \in Seq(V) /\ ev \in Seq(V) /\ F \in Seq(V) BY <2>1, <2>2
  <2>. QED BY <2>3
<1>. QED BY <1>7, <1>11, <1>12, <1>13, <1>14, <1>15, <1>16, <1>17 DEF Tells

-----------------------------------------------------------------------------

\* Who is told the pending events and the engine's knows who is present.
Reported(s, x, pending, known) == BeforeTheEnd(x) => Tells(known, pending, s.events, s.present)

\* Between calls: in clip mode the engine's events say nothing that is not
\* known, so a rebuild may drop them with the engine.
ReportedAtRest(s, x, pending, known) ==
  /\ Reported(s, x, pending, known)
  /\ Mode = "clip" /\ BeforeTheEnd(x) => Told(known, pending) = s.present

ToldInv ==
  /\ Reported(sim, input.exists, pending_events, client)
  /\ job.kind # "advance" => ReportedAtRest(sim, input.exists, pending_events, client)
  /\ saved # NoCheckpoint =>
       ReportedAtRest(saved.state[1], saved.state[2].exists, saved.state[7], saved.client)

\* At the last tick of a clip nothing is due.
LEMMA NothingDueAtTheEnd ==
  ASSUME NEW s, NEW x, NEW A, Serves(s, x, A), BeforeTheEnd(x), s.tick \in Int,
         Mode = "clip", s.tick + 1 = ClipTicks
  PROVE  DueAt(s, s.tick + 1) = {}
<1> SUFFICES ASSUME NEW k \in DOMAIN s.exists, k \notin s.settled PROVE FALSE BY DEF DueAt
<1>1. k \in DOMAIN x /\ x[k] = s.exists[k] /\ s.exists[k].at \in Nat BY DEF Serves, WellFormed
<1>2. s.exists[k].at < ClipTicks BY <1>1 DEF BeforeTheEnd
<1>3. s.exists[k].at <= s.tick BY <1>1, <1>2
<1>. QED BY <1>3 DEF Serves

\* A new engine: its own presence already knows what its events say.
LEMMA NewEngineTells ==
  ASSUME NEW inp, NEW A, WellFormed(inp.exists, A)
  PROVE  LET q == Parked0(inp) IN Tells(q.present, <<>>, q.events, q.present)
<1>1. PICK s : s = NewSim(inp) OBVIOUS
<1>2. s.tick + 1 = 0 /\ s.exists = inp.exists /\ s.events = <<>> BY <1>1 DEF NewSim
<1>3. IsLog(<<>>) /\ Told(s.present, <<>>) = s.present /\ <<>> \o <<>> = <<>> BY ToldNothing
<1>4. Tells(s.present, <<>>, s.events, s.present) BY <1>2, <1>3 DEF Tells
<1>5. s.tick + 1 # ClipTicks BY <1>2, WorldAssumption
<1>6. PICK q : q = EngineTick(s, NoActs) OBVIOUS
<1>7. Tells(s.present, <<>>, EngineTick(s, NoActs).events, EngineTick(s, NoActs).present)
  <2>1. PICK known, p : known = s.present /\ p = <<>> OBVIOUS
  <2>2. Tells(known, p, s.events, s.present) /\ WellFormed(s.exists, A) BY <1>2, <1>4, <2>1
  <2>3. Tells(known, p, EngineTick(s, NoActs).events, EngineTick(s, NoActs).present)
    BY <1>5, <2>2, TickTells
  <2>. QED BY <2>1, <2>3
<1>8. PICK ev : ev = q.events OBVIOUS
<1>9. IsLog(ev) /\ Told(s.present, <<>> \o ev) = q.present BY <1>6, <1>7, <1>8 DEF Tells
<1>10. <<>> \o ev = ev BY <1>9 DEF IsLog
<1>11. Told(q.present, ev) = q.present
  <2>1. Told(s.present, ev) = q.present BY <1>9, <1>10
  <2>2. Told(Told(s.present, ev), ev) = Told(s.present, ev) BY <1>9, ToldAgain
  <2>. QED BY <2>1, <2>2
<1>12. Tells(q.present, <<>>, q.events, q.present) BY <1>3, <1>8, <1>9, <1>10, <1>11 DEF Tells
<1>. QED BY <1>1, <1>6, <1>12 DEF Parked0

LEMMA InitToldInv == Init => ToldInv
<1> SUFFICES ASSUME Init PROVE ToldInv OBVIOUS
<1>1. /\ sim = Parked0(input) /\ pending_events = <<>> /\ client = sim.present
      /\ ~(saved # NoCheckpoint)
  BY DEF Init
<1>2. WellFormed(input.exists, input.actors) BY InitServingInv DEF ServingInv, Serves
<1>3. Tells(client, pending_events, sim.events, sim.present) BY <1>1, <1>2, NewEngineTells
<1>4. Told(client, pending_events) = sim.present BY <1>1, ToldNothing
<1>. QED BY <1>1, <1>3, <1>4 DEF ToldInv, Reported, ReportedAtRest

\* What a rebuild reports: what was known leads, by the events it keeps, to who
\* is present in the new engine.
LEMMA RebuiltIsTold ==
  ASSUME IInv, LedgerInv, ServingInv, FiledInv, PastInv, ToldInv,
         job.kind = "rebuild", job.done = tick_count, NEW r, r = Resolve(World, job.ops),
         BeforeTheEnd(r.exists)
  PROVE  /\ IsLog(pending_events \o KeptEvents(sim.tick, job.cand.events, Touched(r)))
         /\ Told(client, pending_events \o KeptEvents(sim.tick, job.cand.events, Touched(r))) =
              job.cand.present
<1>1. PICK cand : cand = Candidate(World, r) OBVIOUS
<1>2. PICK ops : ops = job.ops OBVIOUS
<1>3. Approved(ops) /\ NamedOps(ops) /\ r = Resolve(World, ops) BY <1>2 DEF LedgerInv, FiledInv
<1>4. /\ Enlarges(input, cand, sim.tick)
      /\ \E k \in DOMAIN cand.exists : k > Len(Script) /\ cand.exists[k].at = sim.tick
  BY <1>1, <1>3, ApprovedEnlarges
<1>5. Mode = "clip" /\ OnTheWay(job, cand, timeline, tick_count) /\ Past(sim, input, timeline, digest)
  BY <1>1 DEF PastInv
<1>6. PICK e, m : e = job.cand /\ m = e.tick OBVIOUS
<1>7. PICK Z : RunOf(Z, cand, timeline, m) /\ e = Z[m] BY <1>5, <1>6 DEF OnTheWay
<1>8. m = sim.tick /\ m \in Nat
  <2>1. EngineAt(job.cand, job.done) /\ Standing(sim, tick_count, digest)
    BY RebuildStands DEF IInv
  <2>2. job.cand.tick = sim.tick BY <2>1 DEF EngineAt, Standing
  <2>. QED BY <1>6, <2>2, SimStands
<1>9. cand.exists = r.exists BY <1>1 DEF Candidate
<1>10. ~(Mode = "clip" /\ m = ClipTicks)
  <2>1. PICK k \in DOMAIN r.exists : r.exists[k].at = m BY <1>4, <1>8, <1>9
  <2>2. m < ClipTicks BY <1>5, <2>1 DEF BeforeTheEnd
  <2>. QED BY <1>8, <2>2, WorldAssumption
<1>11. PICK touched : touched = Touched(r) OBVIOUS
<1>12. ASSUME NEW k \in DOMAIN cand.exists, k > Len(input.exists) PROVE cand.exists[k].actor \in touched
  <2>1. Added(World, r) BY <1>3, ApprovedAdds DEF LedgerInv, ServingInv
  <2>2. World.input = input BY DEF World
  <2>3. PICK a : a = r.exists[k].actor OBVIOUS
  <2>4. AddedFor(r.exists, Len(input.exists), a, a \in Range(r.spawned) \/ a \in r.despawned,
                 a \in r.despawned)
    BY <2>1, <2>2 DEF Added
  <2>5. k \in NewFor(r.exists, Len(input.exists), a) BY <1>9, <1>12, <2>3 DEF NewFor
  <2>6. a \in Range(r.spawned) \/ a \in r.despawned BY <2>4, <2>5 DEF AddedFor
  <2>. QED BY <1>9, <1>11, <2>3, <2>6 DEF Touched
<1>13. KeptTells(m, e.events, touched, sim.present, e.present)
  <2>1. PICK s, inp, line, dg : s = sim /\ inp = input /\ line = timeline /\ dg = digest OBVIOUS
  <2>2. /\ Past(s, inp, line, dg) /\ s.tick = m /\ Enlarges(inp, cand, m) /\ RunOf(Z, cand, line, m)
        /\ \A k \in DOMAIN cand.exists : k > Len(inp.exists) => cand.exists[k].actor \in touched
    BY <1>4, <1>5, <1>7, <1>8, <1>12, <2>1
  <2>3. KeptTells(m, Z[m].events, touched, s.present, Z[m].present)
    BY ONLY <1>8, <1>10, <2>2, RebuildTells
  <2>. QED BY <1>7, <2>1, <2>3
<1>14. PICK kept : kept = KeptEvents(m, e.events, touched) OBVIOUS
<1>15. IsLog(kept) /\ Told(sim.present, kept) = e.present BY <1>13, <1>14 DEF KeptTells
<1>16. BeforeTheEnd(input.exists)
  <2>1. WellFormed(input.exists, input.actors) /\ WellFormed(cand.exists, cand.actors)
        /\ Longer(input.exists, cand.exists, sim.tick)
    BY <1>4 DEF Enlarges, Buildable
  <2>2. PICK x, y : x = input.exists /\ y = cand.exists OBVIOUS
  <2>3. DOMAIN x = 1..Len(x) /\ Len(x) \in Nat /\ DOMAIN y = 1..Len(y) /\ Len(y) \in Nat
        /\ Len(x) <= Len(y) /\ \A l \in 1..Len(x) : y[l] = x[l]
    BY <2>1, <2>2 DEF WellFormed, Longer
  <2>4. \A k \in DOMAIN x : k \in DOMAIN y /\ y[k] = x[k] BY <2>3
  <2>. QED BY <1>9, <2>2, <2>4 DEF BeforeTheEnd
<1>17. ReportedAtRest(sim, input.exists, pending_events, client) BY DEF ToldInv
<1>18. IsLog(pending_events) /\ Told(client, pending_events) = sim.present
  BY <1>5, <1>16, <1>17 DEF ReportedAtRest, Reported, Tells
<1>19. IsLog(pending_events \o kept) /\ Told(client, pending_events \o kept) = e.present
  BY <1>15, <1>18, ToldInParts
<1>. QED BY <1>6, <1>8, <1>11, <1>14, <1>19

LEMMA NextToldInv ==
  IInv /\ LedgerInv /\ ServingInv /\ FiledInv /\ PastInv /\ ToldInv /\ [Next]_vars => ToldInv'
<1> SUFFICES ASSUME IInv, LedgerInv, ServingInv, FiledInv, PastInv, ToldInv, [Next]_vars PROVE ToldInv'
  OBVIOUS
<1> DEFINE N == ReportedAtRest(sim, input.exists, pending_events, client)
           C == saved # NoCheckpoint =>
                  ReportedAtRest(saved.state[1], saved.state[2].exists, saved.state[7], saved.client)
<1>0. Reported(sim, input.exists, pending_events, client) /\ (job.kind # "advance" => N) /\ C
  BY DEF ToldInv
<1>idle. job = Idle => N BY <1>0 DEF Idle
<1>rest. ASSUME N', UNCHANGED saved PROVE ToldInv'
  BY <1>0, <1>rest DEF ToldInv, ReportedAtRest
<1>quiet. ASSUME N, UNCHANGED <<sim, input, pending_events, client, saved>> PROVE ToldInv'
  BY <1>rest, <1>quiet
<1>act. ASSUME NEW a, NEW action, Act(a, action) PROVE ToldInv'
  BY <1>idle, <1>quiet, <1>act DEF Act, Ready
<1>reject. ASSUME NEW ops \in Batches, RejectStructural(ops) PROVE ToldInv'
  BY <1>idle, <1>quiet, <1>reject DEF RejectStructural, StructuralReady, Ready
<1>live. ASSUME NEW ops \in Batches, CommitLive(ops) PROVE ToldInv'
  <2>1. PICK w, r : w = World /\ r = Resolve(w, ops) OBVIOUS
  <2>2. /\ Approved(ops) /\ job = Idle /\ Mode = "live" /\ sim' = LiveSim(w, ops, r)
        /\ UNCHANGED <<pending_events, client, saved>>
    BY <1>live, <2>1, BatchDomain DEF CommitLive, StructuralReady, Ready, Approved, Commit
  <2>3. Sound(w) BY <2>1, <2>2, ApprovedAdds DEF LedgerInv, ServingInv
  <2>4. PICK n \in Nat : DOMAIN ops = 1..n BY <2>2 DEF Approved
  <2>5. /\ r.ok /\ Given(w, Unresolved(w))
        /\ Cardinality(SpawnsLeft(ops, 0)) <= Cardinality(Free(w, Unresolved(w)))
    BY <2>1, <2>2, ApprovedStarts DEF LedgerInv, Approved
  <2>6. w.sim = sim BY <2>1 DEF World
  <2>7. EngineShape(w.sim) BY <2>6, SimStands
  <2>8. PICK c, p : c = client /\ p = pending_events OBVIOUS
  <2>9. Tells(c, p, w.sim.events, w.sim.present)
    BY <1>0, <2>2, <2>6, <2>8 DEF Reported, BeforeTheEnd
  <2>10. Tells(c, p, LiveSim(w, ops, r).events, LiveSim(w, ops, r).present)
    BY <2>1, <2>3, <2>4, <2>5, <2>7, <2>9, LiveTells
  <2>11. Tells(client', pending_events', sim'.events, sim'.present) BY <2>2, <2>8, <2>10
  <2>12. N' BY <2>2, <2>11 DEF ReportedAtRest, Reported
  <2>. QED BY <1>rest, <2>2, <2>12
<1>rebuild. ASSUME NEW ops \in Batches, BeginRebuild(ops) PROVE ToldInv'
  <2>1. job = Idle /\ UNCHANGED <<session, saved, client>>
    BY <1>rebuild DEF BeginRebuild, StructuralReady, Ready
  <2>. QED BY <1>idle, <1>quiet, <2>1 DEF session
<1>catchup. ASSUME CatchUp PROVE ToldInv'
  <2>1. job.kind # "advance" /\ UNCHANGED <<session, saved, client>> BY <1>catchup DEF CatchUp
  <2>. QED BY <1>0, <1>quiet, <2>1 DEF session
<1>commit. ASSUME CommitClip PROVE ToldInv'
  <2>1. PICK r : r = Resolve(World, job.ops) OBVIOUS
  <2>2. /\ job.kind = "rebuild" /\ job.done = tick_count /\ Commit(job.ops, r)
        /\ pending_events' = pending_events \o KeptEvents(sim.tick, job.cand.events, Touched(r))
        /\ sim' = [job.cand EXCEPT !.events = <<>>]
    BY <1>commit, <2>1 DEF CommitClip, Touched
  <2>3. input'.exists = r.exists /\ UNCHANGED <<client, saved>> BY <2>2 DEF Commit, Candidate
  <2>4. EngineShape(job.cand) BY <2>2, RebuildStands DEF IInv, EngineAt
  <2>5. sim'.events = <<>> /\ sim'.present = job.cand.present BY <2>2, <2>4 DEF EngineShape
  <2>6. ASSUME BeforeTheEnd(r.exists)
        PROVE  /\ Told(client, pending_events') = sim'.present
               /\ Tells(client, pending_events', <<>>, sim'.present)
    <3>1. PICK p : p = pending_events' OBVIOUS
    <3>2. IsLog(p) /\ Told(client, p) = sim'.present
      BY <2>1, <2>2, <2>5, <2>6, <3>1, RebuiltIsTold
    <3>3. p \o <<>> = p /\ IsLog(<<>>) BY <3>2, ToldNothing DEF IsLog
    <3>. QED BY <3>1, <3>2, <3>3 DEF Tells
  <2>7. N' BY <2>3, <2>5, <2>6 DEF ReportedAtRest, Reported
  <2>. QED BY <1>rest, <2>3, <2>7
<1>begin. ASSUME NEW ticks, BeginAdvance(ticks) PROVE ToldInv'
  <2>1. job = Idle /\ UNCHANGED <<session, saved, client>> BY <1>begin DEF BeginAdvance, Ready
  <2>. QED BY <1>idle, <1>quiet, <2>1 DEF session
<1>tick. ASSUME AdvanceTick PROVE ToldInv'
  <2>1. PICK t, l, a : job = [kind |-> "advance", ticks |-> t, left |-> l, acts |-> a]
    BY <1>tick DEF AdvanceTick, IInv, JobInv, Idle
  <2>2. /\ UNCHANGED <<input, pending_events, client, saved>> /\ sim' = EngineTick(sim, a)
        /\ job' = [job EXCEPT !.left = @ - 1]
    BY <1>tick, <2>1 DEF AdvanceTick
  <2>3. job'.kind = "advance" BY <2>1, <2>2
  <2>4. ASSUME BeforeTheEnd(input.exists)
        PROVE  Tells(client, pending_events, EngineTick(sim, a).events, EngineTick(sim, a).present)
    <3>1. Tells(client, pending_events, sim.events, sim.present) BY <1>0, <2>4 DEF Reported
    <3>2. Serves(sim, input.exists, input.actors) /\ sim.tick \in Int BY SimStands DEF ServingInv
    <3>3. PICK s, x, A, c, p : /\ s = sim /\ x = input.exists /\ A = input.actors
                               /\ c = client /\ p = pending_events
      OBVIOUS
    <3>4. Mode = "clip" /\ s.tick + 1 = ClipTicks => DueAt(s, s.tick + 1) = {}
      <4>1. Serves(s, x, A) /\ BeforeTheEnd(x) /\ s.tick \in Int BY <2>4, <3>2, <3>3
      <4>. QED BY <4>1, NothingDueAtTheEnd
    <3>5. Tells(c, p, s.events, s.present) /\ WellFormed(s.exists, A) BY <3>1, <3>2, <3>3 DEF Serves
    <3>6. Tells(c, p, EngineTick(s, a).events, EngineTick(s, a).present) BY <3>4, <3>5, TickTells
    <3>. QED BY <3>3, <3>6
  <2>5. Reported(sim, input.exists, pending_events, client)' BY <2>2, <2>4 DEF Reported
  <2>. QED BY <1>0, <2>2, <2>3, <2>5 DEF ToldInv
<1>end. ASSUME EndAdvance PROVE ToldInv'
  <2>1. /\ UNCHANGED <<input, saved>> /\ sim' = [sim EXCEPT !.events = <<>>]
        /\ pending_events' = <<>> /\ client' = Told(client, pending_events \o sim.events)
    BY <1>end DEF EndAdvance
  <2>2. EngineShape(sim) BY SimStands
  <2>3. sim'.events = <<>> /\ sim'.present = sim.present BY <2>1, <2>2 DEF EngineShape
  <2>4. BeforeTheEnd(input.exists) => client' = sim.present BY <1>0, <2>1 DEF Reported, Tells
  <2>5. IsLog(<<>>) /\ Told(sim.present, <<>>) = sim.present /\ <<>> \o <<>> = <<>> BY ToldNothing
  <2>6. Tells(sim.present, <<>>, <<>>, sim.present) BY <2>5 DEF Tells
  <2>7. N' BY <2>1, <2>3, <2>4, <2>5, <2>6 DEF ReportedAtRest, Reported
  <2>. QED BY <1>rest, <2>1, <2>7
<1>checkpoint. ASSUME Checkpoint PROVE ToldInv'
  <2>1. /\ saved'.state = session /\ saved'.client = client /\ job = Idle
        /\ UNCHANGED <<session, job, client>>
    BY <1>checkpoint DEF Checkpoint
  <2>2. /\ UNCHANGED <<sim, input, pending_events>>
        /\ saved'.state[1] = sim /\ saved'.state[2] = input /\ saved'.state[7] = pending_events
    BY <2>1 DEF session
  <2>. QED BY <1>0, <1>idle, <2>1, <2>2 DEF ToldInv
<1>restore. ASSUME Restore PROVE ToldInv'
  <2>1. /\ sim' = saved.state[1] /\ input' = saved.state[2] /\ pending_events' = saved.state[7]
        /\ client' = saved.client /\ saved # NoCheckpoint /\ saved' = NoCheckpoint
    BY <1>restore DEF Restore, Resume
  <2>2. N' BY <1>0, <2>1
  <2>. QED BY <2>1, <2>2 DEF ToldInv, ReportedAtRest
<1>stutter. CASE UNCHANGED vars
  <2>1. UNCHANGED <<sim, input, pending_events, client, job, saved>> BY <1>stutter DEF vars
  <2>. QED BY <1>0, <2>1 DEF ToldInv
<1>. QED
  BY <1>act, <1>reject, <1>live, <1>rebuild, <1>catchup, <1>commit, <1>begin, <1>tick, <1>end,
     <1>checkpoint, <1>restore, <1>stutter DEF Next, Command

\* Between calls the presence a client derives from the events it was given and
\* from those that wait is the engine's: through rebuilds, live commits,
\* advances and restores (rebuild's keep filter, drain_events_into, add_actor,
\* set_actor_presence).
THEOREM EventsExplainPresenceAlways == Spec => []EventsExplainPresence
<1>1. ToldInv => EventsExplainPresence
  <2> SUFFICES ASSUME ToldInv, NoTerminalAnchor
               PROVE  Told(client, pending_events \o sim.events) = sim.present
    BY DEF EventsExplainPresence
  <2>1. BeforeTheEnd(input.exists) BY DEF NoTerminalAnchor, BeforeTheEnd
  <2>. QED BY <2>1 DEF ToldInv, Reported, Tells
<1>. QED
  BY <1>1, InitIInv, NextIInv, InitLedgerInv, NextLedgerInv, InitServingInv, NextServingInv,
     InitFiledInv, NextFiledInv, InitPastInv, NextPastInv, InitToldInv, NextToldInv, PTL DEF Spec
=============================================================================
