----------------------------- MODULE WorldReplay -----------------------------
(***************************************************************************)
(* A world (possibly resumed from a checkpoint on the way) exports its log, *)
(* and replay_world_session_log re-executes the entries on a fresh world of *)
(* the same base input.  The original is WorldSession's own state; the      *)
(* replica is a second instance of it.                                      *)
(***************************************************************************)
EXTENDS WorldSession

VARIABLES
  exported, \* the log has been exported: the original is left alone
  rsim, rinput, rtick_count, ractor_counter, rexist_counter, rtimeline,
  rpending_events, rentries, rdigest, rjob, rsaved, rclient

Replica == INSTANCE WorldSession WITH
  sim <- rsim, input <- rinput, tick_count <- rtick_count,
  actor_counter <- ractor_counter, exist_counter <- rexist_counter,
  timeline <- rtimeline, pending_events <- rpending_events,
  entries <- rentries, digest <- rdigest, job <- rjob, saved <- rsaved,
  client <- rclient

replica == <<rsim, rinput, rtick_count, ractor_counter, rexist_counter, rtimeline,
             rpending_events, rentries, rdigest, rjob, rsaved, rclient>>
allVars == <<vars, exported, replica>>

ReplayInit == Init /\ Replica!Init /\ exported = FALSE

\* The original is called until its log is exported: Next, step by step.
Recording == ~exported /\ UNCHANGED <<exported, replica>>
Record ==
  \/ \E a \in ActIds, action \in {"hold", "drive", None} : Act(a, action) /\ Recording
  \/ \E ops \in Batches : RejectStructural(ops) /\ Recording
  \/ \E ops \in Batches : CommitLive(ops) /\ Recording
  \/ \E ops \in Batches : BeginRebuild(ops) /\ Recording
  \/ CatchUp /\ Recording
  \/ CommitClip /\ Recording
  \/ \E ticks \in 1..MaxAdvance : BeginAdvance(ticks) /\ Recording
  \/ AdvanceTick /\ Recording
  \/ EndAdvance /\ Recording
  \/ Checkpoint /\ Recording
  \/ Restore /\ Recording

ExportLog == ~exported /\ job = Idle /\ exported' = TRUE /\ UNCHANGED <<vars, replica>>

\* The replica executes: the original and its log stay as exported.
Replaying == exported /\ UNCHANGED <<vars, exported>>

\* The next entry of the log that the replica has not executed.
ToReplay(kind) ==
  /\ rjob = Idle
  /\ Len(rentries) < Len(entries)
  /\ entries[Len(rentries) + 1].kind = kind
NextEntry == entries[Len(rentries) + 1]
NextCommand(kind) == ToReplay("command") /\ NextEntry.cmd.kind = kind

ReplayAdvance == ToReplay("advance") /\ Replica!BeginAdvance(NextEntry.ticks) /\ Replaying
ReplayAct ==
  NextCommand("act") /\ Replica!Act(NextEntry.cmd.actor, NextEntry.cmd.action) /\ Replaying
ReplayStructural ==
  \/ NextCommand("structural") /\ Replica!RejectStructural(NextEntry.cmd.ops) /\ Replaying
  \/ NextCommand("structural") /\ Replica!CommitLive(NextEntry.cmd.ops) /\ Replaying
  \/ NextCommand("structural") /\ Replica!BeginRebuild(NextEntry.cmd.ops) /\ Replaying
ReplayJob ==
  \/ Replica!AdvanceTick /\ Replaying
  \/ Replica!EndAdvance /\ Replaying
  \/ Replica!CatchUp /\ Replaying
  \/ Replica!CommitClip /\ Replaying

\* replay_world_session_log returns.
Replayed == exported /\ rjob = Idle /\ Len(rentries) = Len(entries)
Return == Replayed /\ UNCHANGED allVars

\* A replay that could not execute the next entry would deadlock here.
ReplayNext ==
  \/ Record \/ ExportLog
  \/ ReplayAdvance \/ ReplayAct \/ ReplayStructural \/ ReplayJob
  \/ Return

ReplaySpec == ReplayInit /\ [][ReplayNext]_allVars

-----------------------------------------------------------------------------

\* "every command reproduces its recorded outcome (including rejections)": no
\* entry the replica has executed differs from the recorded one.
OutcomesMatch == \A k \in DOMAIN rentries : exported => rentries[k] = entries[k]

\* "the returned digest equals log.digest": once every entry is executed, the
\* same frames have been hashed in the same order, and the replica stands where
\* the original stood when it exported.
DigestReproduced == Replayed => rdigest = digest /\ Replica!Frame(rsim) = Frame(sim)
=============================================================================
