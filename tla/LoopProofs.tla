----------------------------- MODULE LoopProofs -----------------------------
(***************************************************************************)
(* The loops of a node stay in step: no read waits on a round that is      *)
(* over, and the hand-over of committed entries never has to stop the      *)
(* node.                                                                   *)
(***************************************************************************)
EXTENDS DurabilityProofs

\* The default prover; leaves with arithmetic or records cite SMT.
USE Zenon

(***************************************************************************)
(* Reads.                                                                  *)
(*                                                                         *)
(* The argument.  All reads that wait at a node have the token of its      *)
(* pending round, so one poll answers all of them or none.  A handler that *)
(* ends the round leaves a follower, which rejects what it holds.          *)
(***************************************************************************)
of_round(rd, ws) ==
  \A w \in ws : rd.pending /\ w.context = rd.context /\ w.index = rd.index

\* The reads of a node share its round.
LEMMA SharedRound ==
  ASSUME ReadsShareTheRound, NEW i \in Server
  PROVE  of_round(read[i], waiting[i])
  BY DEF of_round, ReadsShareTheRound

\* A step that leaves the reads of i on one round, and those of the others alone.
LEMMA ReadsOfOne ==
  ASSUME ReadsShareTheRound, NEW i \in Server, of_round(read'[i], waiting'[i]),
         \A j \in Server \ {i} : waiting'[j] = waiting[j] /\ read'[j] = read[j]
  PROVE  ReadsShareTheRound'
<1>1. ASSUME NEW j \in Server PROVE of_round(read'[j], waiting'[j])
  <2>1. CASE j = i
    BY <2>1
  <2>2. CASE j # i
    <3>1. waiting'[j] = waiting[j] /\ read'[j] = read[j]
      BY <2>2
    <3> QED BY <3>1, SharedRound
  <2> QED BY <2>1, <2>2
<1> QED BY <1>1 DEF of_round, ReadsShareTheRound

\* After the poll the reads left are those of the round left.
LEMMA PolledReads ==
  ASSUME TypeInv, ReadsShareTheRound, NEW i \in Server, NEW rd, NEW ws,
         poll_read_indexes(i, rd, ws), state'[i] = "Leader" => of_round(rd, ws)
  PROVE  ReadsShareTheRound'
<1> DEFINE done == {w \in ws : read_index_ready(i, rd, w)}
<1>1. /\ waiting' = [waiting EXCEPT ![i] = IF state'[i] = "Leader" THEN ws \ done ELSE {}]
      /\ read' = [read EXCEPT ![i] = IF done = {} THEN rd ELSE NoRead]
  BY DEF poll_read_indexes
<1>2. LoopOK
  BY InvGroups
<1>3. /\ waiting'[i] = IF state'[i] = "Leader" THEN ws \ done ELSE {}
      /\ read'[i] = IF done = {} THEN rd ELSE NoRead
      /\ \A j \in Server \ {i} : waiting'[j] = waiting[j] /\ read'[j] = read[j]
  BY <1>1, <1>2 DEF LoopOK
<1>4. state'[i] = "Leader" /\ done # {} => done = ws
  BY DEF read_index_ready, of_round
<1> HIDE DEF done
<1>5. of_round(read'[i], waiting'[i])
  <2>1. CASE state'[i] = "Leader" /\ done = {}
    <3>1. of_round(rd, ws) /\ waiting'[i] = ws \ done /\ read'[i] = rd
      BY <1>3, <2>1
    <3> QED BY <3>1 DEF of_round
  <2>2. CASE ~(state'[i] = "Leader" /\ done = {})
    <3>1. waiting'[i] = {}
      BY <1>3, <1>4, <2>2
    <3> QED BY <3>1 DEF of_round
  <2> QED BY <2>1, <2>2
<1> QED BY <1>3, <1>5, ReadsOfOne

\* A handler that keeps the round.
LEMMA ReadsKept ==
  ASSUME TypeInv, ReadsShareTheRound, NEW i \in Server,
         poll_read_indexes(i, read[i], waiting[i])
  PROVE  ReadsShareTheRound'
  BY SharedRound, PolledReads

\* A handler that leaves a follower.
LEMMA ReadsRejected ==
  ASSUME TypeInv, ReadsShareTheRound, NEW i \in Server, state'[i] # "Leader",
         NEW rd, NEW ws, poll_read_indexes(i, rd, ws)
  PROVE  ReadsShareTheRound'
  BY PolledReads

\* The timers, and the messages that leave the round alone or end it.
LEMMA MessageReads ==
  ASSUME TypeInv, ReadsShareTheRound, NEW i \in Server, NEW m,
         \/ StepDown(i, m) \/ handle_request_vote(i, m)
         \/ handle_request_vote_response(i, m) \/ handle_pre_vote(i, m)
         \/ handle_pre_vote_response(i, m) \/ AppendRejected(i, m)
         \/ handle_install_snapshot_response(i, m) \/ IgnoreResponse(i, m)
         \/ TickLeader(i) \/ TickIdle(i) \/ TickQuiet(i) \/ TickElection(i)
  PROVE  ReadsShareTheRound'
<1>1. RoleOK
  BY InvGroups
<1>2. CASE StepDown(i, m)
  <2>1. state' = [state EXCEPT ![i] = "Follower"]
        /\ poll_read_indexes(i, NoRead, waiting[i])
    BY <1>2 DEF StepDown, after_raft_activity
  <2>2. state'[i] # "Leader"
    BY <1>1, <2>1 DEF RoleOK
  <2> QED BY <2>1, <2>2, ReadsRejected
<1>3. CASE handle_request_vote(i, m)
  <2> DEFINE newer == m.term > term[i]
  <2>1. /\ state' = [state EXCEPT ![i] = IF newer THEN "Follower" ELSE @]
        /\ poll_read_indexes(i, IF newer THEN NoRead ELSE read[i], waiting[i])
    BY <1>3 DEF handle_request_vote, after_raft_activity
  <2>2. CASE newer
    <3>1. state'[i] # "Leader"
      BY <1>1, <2>1, <2>2 DEF RoleOK
    <3> QED BY <2>1, <2>2, <3>1, ReadsRejected
  <2>3. CASE ~newer
    BY <2>1, <2>3, ReadsKept
  <2> QED BY <2>2, <2>3
<1>4. CASE \/ handle_request_vote_response(i, m) \/ handle_pre_vote(i, m)
           \/ handle_pre_vote_response(i, m) \/ AppendRejected(i, m)
           \/ handle_install_snapshot_response(i, m) \/ IgnoreResponse(i, m)
           \/ TickLeader(i) \/ TickIdle(i) \/ TickQuiet(i) \/ TickElection(i)
  <2>1. poll_read_indexes(i, read[i], waiting[i])
    BY <1>4 DEF handle_request_vote_response, handle_pre_vote, handle_pre_vote_response,
         AppendRejected, handle_install_snapshot_response, IgnoreResponse, TickLeader,
         TickIdle, TickQuiet, TickElection, after_raft_activity
  <2> QED BY <2>1, ReadsKept
<1> QED BY <1>2, <1>3, <1>4

\* The requests of a leader: the receiver is a follower afterwards.
LEMMA LeaderRpcReads ==
  ASSUME TypeInv, ReadsShareTheRound, NEW i \in Server, NEW m,
         handle_append_entries(i, m) \/ handle_install_snapshot(i, m)
  PROVE  ReadsShareTheRound'
<1>1. RoleOK
  BY InvGroups
<1>2. \/ poll_read_indexes(i, read[i], waiting[i])
      \/ /\ state' = [state EXCEPT ![i] = "Follower"]
         /\ poll_read_indexes(i, read_after_leader_rpc(i, m), waiting[i])
  BY DEF handle_append_entries, handle_install_snapshot, prepare_for_leader_rpc,
         after_raft_activity
<1>3. state' = [state EXCEPT ![i] = "Follower"] => state'[i] # "Leader"
  BY <1>1 DEF RoleOK
<1> QED BY <1>2, <1>3, ReadsKept, ReadsRejected

\* An acknowledgement counts for the pending round and keeps its token.
LEMMA AcceptedReads ==
  ASSUME TypeInv, ReadsShareTheRound, NEW i \in Server, NEW m, AppendAccepted(i, m)
  PROVE  ReadsShareTheRound'
<1>1. poll_read_indexes(i, read_after_ack(i, m), waiting[i])
  BY DEF AppendAccepted, after_raft_activity
<1>2. read[i] \in Round
  BY InvGroups DEF LoopOK
<1>3. /\ read_after_ack(i, m).pending = read[i].pending
      /\ read_after_ack(i, m).context = read[i].context
      /\ read_after_ack(i, m).index = read[i].index
  <2> DEFINE rd == [read[i] EXCEPT !.acks = @ \cup {m.from}]
  <2>1. rd.pending = read[i].pending /\ rd.context = read[i].context
        /\ rd.index = read[i].index
    BY <1>2 DEF Round
  <2> HIDE DEF rd
  <2>2. read_after_ack(i, m) = rd \/ read_after_ack(i, m) = read[i]
    BY DEF read_after_ack, rd
  <2> QED BY <2>1, <2>2
<1>4. of_round(read_after_ack(i, m), waiting[i])
  BY <1>3, SharedRound DEF of_round
<1> QED BY <1>1, <1>4, PolledReads

\* A read that opens a round, or joins the pending one.
LEMMA RegisteredReads ==
  ASSUME TypeInv, ReadsShareTheRound, NEW i \in Server,
         JoinRead(i) \/ OpenRead(i) \/ OpenReadWithNoOp(i)
  PROVE  ReadsShareTheRound'
<1>1. CASE JoinRead(i)
  <2>1. /\ read[i].pending
        /\ poll_read_indexes(i, read[i], waiting[i] \cup {registered(read[i], FALSE)})
    BY <1>1 DEF JoinRead, RegisterRead
  <2>2. /\ registered(read[i], FALSE).context = read[i].context
        /\ registered(read[i], FALSE).index = read[i].index
    BY DEF registered
  <2>3. of_round(read[i], waiting[i] \cup {registered(read[i], FALSE)})
    BY <2>1, <2>2, SharedRound DEF of_round
  <2> QED BY <2>1, <2>3, PolledReads
<1>2. ASSUME NEW x, ~read[i].pending,
             poll_read_indexes(i, round_at(i, x),
                               waiting[i] \cup {registered(round_at(i, x), TRUE)})
      PROVE  ReadsShareTheRound'
  <2>1. waiting[i] = {}
    BY <1>2, SharedRound DEF of_round
  <2>2. /\ registered(round_at(i, x), TRUE).context = round_at(i, x).context
        /\ registered(round_at(i, x), TRUE).index = round_at(i, x).index
        /\ round_at(i, x).pending
    BY DEF registered, round_at
  <2>3. of_round(round_at(i, x), waiting[i] \cup {registered(round_at(i, x), TRUE)})
    BY <2>1, <2>2 DEF of_round
  <2> QED BY <1>2, <2>3, PolledReads
<1>3. CASE OpenRead(i)
  BY <1>2, <1>3 DEF OpenRead, RegisterRead
<1>4. CASE OpenReadWithNoOp(i)
  BY <1>2, <1>4 DEF OpenReadWithNoOp, RegisterRead
<1> QED BY <1>1, <1>3, <1>4

\* A cancelled read ends the round only when it is the last one.
LEMMA CancelledReads ==
  ASSUME TypeInv, ReadsShareTheRound, NEW i \in Server, NEW w \in waiting[i],
         CancelRead(i, w)
  PROVE  ReadsShareTheRound'
<1>1. /\ waiting' = [waiting EXCEPT ![i] = waiting[i] \ {w}]
      /\ read' = [read EXCEPT ![i] = round_after_cancel(i, w)]
  BY DEF CancelRead
<1>2. LoopOK
  BY InvGroups
<1>3. /\ waiting'[i] = waiting[i] \ {w} /\ read'[i] = round_after_cancel(i, w)
      /\ \A j \in Server \ {i} : waiting'[j] = waiting[j] /\ read'[j] = read[j]
  BY <1>1, <1>2 DEF LoopOK
<1>4. of_round(read'[i], waiting'[i])
  <2>1. CASE waiting[i] \ {w} = {}
    BY <1>3, <2>1 DEF of_round
  <2>2. CASE waiting[i] \ {w} # {}
    <3>1. PICK o \in waiting[i] \ {w} : TRUE
      BY <2>2
    <3>2. o.context = w.context /\ o.index = w.index
      BY SharedRound DEF of_round
    <3>3. round_after_cancel(i, w) = read[i]
      BY <3>2 DEF round_after_cancel
    <3>4. read'[i] = read[i] /\ waiting'[i] \subseteq waiting[i]
      BY <1>3, <3>3
    <3> QED BY <3>4, SharedRound DEF of_round
  <2> QED BY <2>1, <2>2
<1> QED BY <1>3, <1>4, ReadsOfOne

\* The other steps.
LEMMA OtherReads ==
  ASSUME TypeInv, ReadsShareTheRound, NEW i \in Server,
         \/ \E v \in Value : Propose(i, v)
         \/ ApplyCommittedEntry(i) \/ AcknowledgeApplied(i) \/ ExpireWrite(i)
         \/ CaptureSnapshot(i) \/ TakeSnapshot(i) \/ Crash(i) \/ Restart(i)
  PROVE  ReadsShareTheRound'
<1>1. CASE (\E v \in Value : Propose(i, v)) \/ AcknowledgeApplied(i) \/ TakeSnapshot(i)
  <2>1. poll_read_indexes(i, read[i], waiting[i])
    BY <1>1 DEF Propose, AcknowledgeApplied, TakeSnapshot, after_raft_activity
  <2> QED BY <2>1, ReadsKept
<1>2. CASE \/ ApplyCommittedEntry(i) \/ ExpireWrite(i) \/ CaptureSnapshot(i) \/ Restart(i)
  <2>1. UNCHANGED <<read, waiting>>
    BY <1>2 DEF ApplyCommittedEntry, ExpireWrite, CaptureSnapshot, Restart, loopVars, readVars
  <2> QED BY <2>1 DEF ReadsShareTheRound
<1>3. CASE Crash(i)
  <2>1. /\ read' = [read EXCEPT ![i] = NoRead] /\ waiting' = [waiting EXCEPT ![i] = {}]
    BY <1>3 DEF Crash
  <2>2. /\ waiting'[i] = {}
        /\ \A j \in Server \ {i} : waiting'[j] = waiting[j] /\ read'[j] = read[j]
    BY <2>1, InvGroups DEF LoopOK
  <2>3. of_round(read'[i], waiting'[i])
    BY <2>2 DEF of_round
  <2> QED BY <2>2, <2>3, ReadsOfOne
<1> QED BY <1>1, <1>2, <1>3

\* Every step keeps the reads of a node on one round.
LEMMA StepReads ==
  ASSUME TypeInv, ReadsShareTheRound, [Next]_vars
  PROVE  ReadsShareTheRound'
<1>1. ASSUME NEW i \in Server, NEW m \in msgs, Receive(i, m) PROVE ReadsShareTheRound'
  BY <1>1, MessageReads, LeaderRpcReads, AcceptedReads DEF Receive
<1>2. ASSUME UNCHANGED vars PROVE ReadsShareTheRound'
  BY <1>2 DEF vars, loopVars, readVars, ReadsShareTheRound
<1>3. ASSUME NEW i \in Server,
             TickLeader(i) \/ TickIdle(i) \/ TickQuiet(i) \/ TickElection(i)
      PROVE  ReadsShareTheRound'
  BY <1>3, MessageReads
<1>4. ASSUME NEW i \in Server, JoinRead(i) \/ OpenRead(i) \/ OpenReadWithNoOp(i)
      PROVE  ReadsShareTheRound'
  BY <1>4, RegisteredReads
<1>5. ASSUME NEW i \in Server, NEW w \in waiting[i], CancelRead(i, w)
      PROVE  ReadsShareTheRound'
  BY <1>5, CancelledReads
<1>6. ASSUME NEW i \in Server,
             \/ \E v \in Value : Propose(i, v)
             \/ ApplyCommittedEntry(i) \/ AcknowledgeApplied(i) \/ ExpireWrite(i)
             \/ CaptureSnapshot(i) \/ TakeSnapshot(i) \/ Crash(i) \/ Restart(i)
      PROVE  ReadsShareTheRound'
  BY <1>6, OtherReads
<1> QED BY <1>1, <1>2, <1>3, <1>4, <1>5, <1>6 DEF Next

\* No read is left waiting on a round that is over: whichever handler ends or
\* answers a round, a step-down, a cancelled or timed-out read or a restart
\* included, no read of it stays registered (read_index, poll_read_indexes,
\* cancel_raft_read, become_follower).
THEOREM ReadsKeepTheirRound == Spec => []ReadsShareTheRound
<1>1. Init => ReadsShareTheRound
  BY DEF Init, ReadsShareTheRound
<1>2. TypeInv /\ ReadsShareTheRound /\ [Next]_vars => ReadsShareTheRound'
  BY StepReads
<1> QED BY <1>1, <1>2, TypeInvariant, PTL DEF Spec

(***************************************************************************)
(* The hand-over of committed entries.                                     *)
(*                                                                         *)
(* The argument.  The KV loop is moved in three ways: by the entry in      *)
(* flight, by a snapshot from the leader, and by a restart.  The last two  *)
(* leave it at the index that the snapshot claims only if every snapshot   *)
(* covers exactly the entries up to its index, in memory, in a message and *)
(* on the disk of a node that is down; and a snapshot is installed only    *)
(* while no entry is in flight.                                            *)
(***************************************************************************)
whole_image(d) == Len(d.snapshot.state) = d.snapshot.index
whole_message(m) ==
  m.type = "InstallSnapshot" => Len(m.snapshot_data) = m.snapshot_index
WholeInv ==
  /\ \A i \in Server : Len(snapshot[i]) = log_offset[i]
  /\ \A m \in msgs : whole_message(m)
  /\ \A i \in Server : ~up[i] => whole_image(disk[i])

\* A leader sends the snapshot it holds.
LEMMA SentWhole ==
  ASSUME WholeInv, NEW i \in Server, NEW j
  PROVE  whole_message(make_install_snapshot(i, j))
<1>1. /\ make_install_snapshot(i, j).snapshot_data = snapshot[i]
      /\ make_install_snapshot(i, j).snapshot_index = log_offset[i]
  BY DEF make_install_snapshot
<1> QED BY <1>1 DEF WholeInv, whole_message

\* A heartbeat sends that, or entries.
LEMMA BroadcastWhole ==
  ASSUME WholeInv, NEW i \in Server, NEW lg, NEW pr, NEW rd,
         NEW m \in broadcast_heartbeat(i, lg, pr, rd)
  PROVE  whole_message(m)
<1>1. PICK j \in peers(i) :
        \/ m = make_install_snapshot(i, j)
        \/ m = make_append_entries(i, j, lg, pr[j].next,
                                   IF rd.pending THEN rd.context ELSE 0)
  BY DEF broadcast_heartbeat
<1>2. ASSUME NEW next, NEW context
      PROVE  make_append_entries(i, j, lg, next, context).type # "InstallSnapshot"
  BY DEF make_append_entries
<1> QED BY <1>1, <1>2, SentWhole DEF whole_message

\* What stays in flight, and what a handler adds to it.
LEMMA FlushedWhole ==
  ASSUME WholeInv, NEW in, NEW out, \A m \in out : whole_message(m),
         flush_raft_messages(in, out)
  PROVE  \A m \in msgs' : whole_message(m)
  BY DEF flush_raft_messages, WholeInv

\* A step of a running node that leaves the snapshots alone.
LEMMA WholeKept ==
  ASSUME TypeInv, WholeInv, NEW i \in Server, up[i],
         UNCHANGED <<up, snapshot, log_offset>>,
         UNCHANGED disk \/ \E d : Persist(i, d), \A m \in msgs' : whole_message(m)
  PROVE  WholeInv'
<1>1. disk = [n \in Server |-> disk[n]]
  BY InvGroups DEF WalsOK
<1>2. ASSUME NEW j \in Server, ~up[j] PROVE disk'[j] = disk[j]
  <2>1. CASE UNCHANGED disk
    BY <2>1
  <2>2. ASSUME NEW d, Persist(i, d) PROVE disk'[j] = disk[j]
    BY <1>1, <1>2, <2>2 DEF Persist
  <2> QED BY <2>1, <2>2
<1>3. ASSUME NEW j \in Server, ~up'[j] PROVE whole_image(disk'[j])
  BY <1>2, <1>3 DEF WholeInv
<1> QED BY <1>3 DEF WholeInv

\* The same, for a handler that queues whole snapshots only.
LEMMA WholeHandled ==
  ASSUME TypeInv, WholeInv, NEW i \in Server, up[i],
         UNCHANGED <<up, snapshot, log_offset>>,
         UNCHANGED disk \/ \E d : Persist(i, d),
         NEW in, NEW out, flush_raft_messages(in, out), \A m \in out : whole_message(m)
  PROVE  WholeInv'
  BY FlushedWhole, WholeKept

\* The same, for a handler that queues nothing.
LEMMA WholeSilent ==
  ASSUME TypeInv, WholeInv, NEW i \in Server, up[i],
         UNCHANGED <<up, snapshot, log_offset>>,
         UNCHANGED disk \/ \E d : Persist(i, d), NEW in, flush_raft_messages(in, {})
  PROVE  WholeInv'
<1>1. \A m \in msgs' : whole_message(m)
  BY DEF flush_raft_messages, WholeInv
<1> QED BY <1>1, WholeKept

\* Answers and requests for votes carry no snapshot.
LEMMA AnswersWhole ==
  ASSUME NEW i, NEW m, NEW t, NEW success, NEW x
  PROVE  /\ whole_message(append_response(i, m, t, success, x))
         /\ whole_message(snapshot_response(i, m, t, success, x))
         /\ whole_message(request_vote(i, x, "PreVote", t))
         /\ whole_message(request_vote(i, x, "RequestVote", t))
  BY DEF whole_message, append_response, snapshot_response, request_vote

\* Elections.
LEMMA ElectionWhole ==
  ASSUME TypeInv, WholeInv, NEW i \in Server, NEW m,
         \/ StepDown(i, m) \/ handle_request_vote(i, m)
         \/ handle_request_vote_response(i, m) \/ handle_pre_vote(i, m)
         \/ handle_pre_vote_response(i, m) \/ IgnoreResponse(i, m)
         \/ TickLeader(i) \/ TickIdle(i) \/ TickQuiet(i) \/ TickElection(i)
  PROVE  WholeInv'
<1>1. CASE StepDown(i, m)
  <2>1. /\ up[i] /\ UNCHANGED <<up, snapshot, log_offset>>
        /\ Persist(i, step_down_image(i, m.term)) /\ flush_raft_messages({m}, {})
    BY <1>1 DEF StepDown, ready, envVars, after_raft_activity
  <2> QED BY <2>1, WholeSilent
<1>2. CASE handle_request_vote(i, m)
  <2>1. PICK t, g :
          /\ up[i] /\ UNCHANGED <<up, snapshot, log_offset>>
          /\ Persist(i, vote_image(i, m))
          /\ flush_raft_messages({m}, {[type |-> "RequestVoteResponse", from |-> i,
               to |-> m.from, term |-> t, vote_granted |-> g]})
    BY <1>2 DEF handle_request_vote, Delivered, ready, envVars, after_raft_activity
  <2>2. whole_message([type |-> "RequestVoteResponse", from |-> i, to |-> m.from,
                       term |-> t, vote_granted |-> g])
    BY DEF whole_message
  <2> QED BY <2>1, <2>2, WholeHandled
<1>3. CASE handle_request_vote_response(i, m)
  <2>1. PICK out :
          /\ up[i] /\ UNCHANGED <<up, snapshot, log_offset, disk>>
          /\ flush_raft_messages({m}, out)
          /\ out = {} \/ out = broadcast_heartbeat(i, log[i], fresh_progress(i), read[i])
    BY <1>3 DEF handle_request_vote_response, counts_vote, Delivered, ready, envVars,
                persistVars, after_raft_activity
  <2> QED BY <2>1, BroadcastWhole, WholeHandled
<1>4. CASE handle_pre_vote(i, m)
  <2>1. PICK g, t :
          /\ up[i] /\ UNCHANGED <<up, snapshot, log_offset, disk>>
          /\ flush_raft_messages({m}, {[type |-> "PreVoteResponse", from |-> i,
               to |-> m.from, term |-> term[i], vote_granted |-> g, pre_vote_term |-> t]})
    BY <1>4 DEF handle_pre_vote, Delivered, ready, envVars, persistVars,
                after_raft_activity
  <2>2. whole_message([type |-> "PreVoteResponse", from |-> i, to |-> m.from,
                       term |-> term[i], vote_granted |-> g, pre_vote_term |-> t])
    BY DEF whole_message
  <2> QED BY <2>1, <2>2, WholeHandled
<1>5. CASE handle_pre_vote_response(i, m)
  <2>1. PICK out :
          /\ up[i] /\ UNCHANGED <<up, snapshot, log_offset>>
          /\ UNCHANGED disk \/ Persist(i, candidate_image(i))
          /\ flush_raft_messages({m}, out)
          /\ \/ out = {}
             \/ out = {request_vote(i, j, "RequestVote", term[i] + 1) : j \in peers(i)}
    BY <1>5 DEF handle_pre_vote_response, become_candidate, counts_pre_vote, Delivered,
                ready, envVars, after_raft_activity
  <2>2. \A o \in out : whole_message(o)
    BY <2>1, AnswersWhole
  <2> QED BY <2>1, <2>2, WholeHandled
<1>6. CASE TickLeader(i)
  <2>1. /\ up[i] /\ UNCHANGED <<up, snapshot, log_offset, disk>>
        /\ flush_raft_messages({}, broadcast_heartbeat(i, log[i], progress[i], read[i]))
    BY <1>6 DEF TickLeader, ready, envVars, persistVars, after_raft_activity
  <2> QED BY <2>1, BroadcastWhole, WholeHandled
<1>7. CASE TickElection(i)
  <2>1. /\ up[i] /\ UNCHANGED <<up, snapshot, log_offset, disk>>
        /\ flush_raft_messages({},
             {request_vote(i, j, "PreVote", term[i] + 1) : j \in peers(i)})
    BY <1>7 DEF TickElection, ready, persistVars, after_raft_activity
  <2>2. \A o \in {request_vote(i, j, "PreVote", term[i] + 1) : j \in peers(i)} :
          whole_message(o)
    BY AnswersWhole
  <2> QED BY <2>1, <2>2, WholeHandled
<1>8. CASE TickIdle(i) \/ TickQuiet(i) \/ IgnoreResponse(i, m)
  <2>1. PICK in :
          /\ up[i] /\ UNCHANGED <<up, snapshot, log_offset, disk>>
          /\ flush_raft_messages(in, {})
    BY <1>8 DEF TickIdle, TickQuiet, IgnoreResponse, ready, envVars, persistVars,
                after_raft_activity
  <2> QED BY <2>1, WholeSilent
<1> QED BY <1>1, <1>2, <1>3, <1>4, <1>5, <1>6, <1>7, <1>8

\* Replication, and the answer to a snapshot.
LEMMA ReplicationWhole ==
  ASSUME TypeInv, WholeInv, NEW i \in Server, NEW m,
         \/ handle_append_entries(i, m) \/ AppendAccepted(i, m)
         \/ AppendRejected(i, m) \/ handle_install_snapshot_response(i, m)
         \/ \E v \in Value : Propose(i, v)
  PROVE  WholeInv'
<1>1. CASE handle_append_entries(i, m)
  <2>1. PICK t, success, x :
          /\ up[i] /\ UNCHANGED <<up, snapshot, log_offset>>
          /\ UNCHANGED disk \/ \E d : Persist(i, d)
          /\ flush_raft_messages({m}, {append_response(i, m, t, success, x)})
    BY <1>1 DEF handle_append_entries, Delivered, ready, envVars, after_raft_activity
  <2>2. \A o \in {append_response(i, m, t, success, x)} : whole_message(o)
    BY AnswersWhole
  <2> QED BY <2>1, <2>2, WholeHandled
<1>2. CASE AppendAccepted(i, m)
  <2>1. /\ up[i] /\ UNCHANGED <<up, snapshot, log_offset>>
        /\ \E d : Persist(i, d)
        /\ flush_raft_messages({m}, {})
    BY <1>2 DEF AppendAccepted, acknowledges, Delivered, ready, envVars,
                after_raft_activity
  <2> QED BY <2>1, WholeSilent
<1>3. CASE AppendRejected(i, m)
  <2>1. PICK pr, out :
          /\ up[i] /\ UNCHANGED <<up, snapshot, log_offset, disk>>
          /\ flush_raft_messages({m}, out)
          /\ \/ out = {make_install_snapshot(i, m.from)}
             \/ out = broadcast_heartbeat(i, log[i], pr, read[i])
    BY <1>3 DEF AppendRejected, acknowledges, Delivered, ready, envVars, persistVars,
                after_raft_activity
  <2> QED BY <2>1, SentWhole, BroadcastWhole, WholeHandled
<1>4. CASE handle_install_snapshot_response(i, m)
  <2>1. /\ up[i] /\ UNCHANGED <<up, snapshot, log_offset, disk>>
        /\ flush_raft_messages({m},
             broadcast_heartbeat(i, log[i], progress_after(i, m), read[i]))
    BY <1>4 DEF handle_install_snapshot_response, installed, Delivered, ready, envVars,
                persistVars, after_raft_activity
  <2> QED BY <2>1, BroadcastWhole, WholeHandled
<1>5. ASSUME NEW v \in Value, Propose(i, v) PROVE WholeInv'
  <2>1. /\ up[i] /\ UNCHANGED <<up, snapshot, log_offset>>
        /\ Persist(i, propose_image(i, v))
        /\ flush_raft_messages({},
             broadcast_heartbeat(i, Append(log[i], proposal(i, v)), progress[i], read[i]))
    BY <1>5 DEF Propose, ready, envVars, after_raft_activity
  <2> QED BY <2>1, BroadcastWhole, WholeHandled
<1> QED BY <1>1, <1>2, <1>3, <1>4, <1>5

\* Reads, and what passes between the two loops.
LEMMA LoopWhole ==
  ASSUME TypeInv, WholeInv, NEW i \in Server,
         \/ JoinRead(i) \/ OpenRead(i) \/ OpenReadWithNoOp(i)
         \/ ApplyCommittedEntry(i) \/ AcknowledgeApplied(i) \/ ExpireWrite(i)
         \/ CaptureSnapshot(i) \/ \E w \in waiting[i] : CancelRead(i, w)
  PROVE  WholeInv'
<1>1. CASE JoinRead(i) \/ AcknowledgeApplied(i)
  <2>1. /\ up[i] /\ UNCHANGED <<up, snapshot, log_offset, disk>>
        /\ flush_raft_messages({}, {})
    BY <1>1 DEF JoinRead, AcknowledgeApplied, RegisterRead, ready, envVars, persistVars
  <2> QED BY <2>1, WholeSilent
<1>2. CASE OpenRead(i) \/ OpenReadWithNoOp(i)
  <2>1. PICK lg, rd :
          /\ up[i] /\ UNCHANGED <<up, snapshot, log_offset>>
          /\ UNCHANGED disk \/ Persist(i, propose_image(i, NoOp))
          /\ flush_raft_messages({}, broadcast_heartbeat(i, lg, progress[i], rd))
    BY <1>2 DEF OpenRead, OpenReadWithNoOp, RegisterRead, ready, envVars, persistVars
  <2> QED BY <2>1, BroadcastWhole, WholeHandled
<1>3. CASE \/ ApplyCommittedEntry(i) \/ ExpireWrite(i) \/ CaptureSnapshot(i)
           \/ \E w \in waiting[i] : CancelRead(i, w)
  <2>1. up[i] /\ UNCHANGED <<up, snapshot, log_offset, disk, msgs>>
    BY <1>3 DEF ApplyCommittedEntry, ExpireWrite, CaptureSnapshot, CancelRead, ready,
                envVars, persistVars
  <2> QED BY <2>1, WholeKept DEF WholeInv
<1> QED BY <1>1, <1>2, <1>3

\* A running node replaces its snapshot by one that covers what it claims.
LEMMA WholeReplaced ==
  ASSUME TypeInv, WholeInv, NEW i \in Server, up[i], UNCHANGED up,
         NEW st, NEW x, Len(st) = x, snapshot' = [snapshot EXCEPT ![i] = st],
         log_offset' = [log_offset EXCEPT ![i] = x],
         \E d : Persist(i, d), \A m \in msgs' : whole_message(m)
  PROVE  WholeInv'
<1>1. PersistOK /\ disk = [n \in Server |-> disk[n]]
  BY InvGroups DEF WalsOK
<1>2. PICK d : disk' = [disk EXCEPT ![i] = d]
  BY DEF Persist
<1>3. ASSUME NEW j \in Server PROVE Len(snapshot'[j]) = log_offset'[j]
  <2>1. CASE j = i
    BY <1>1, <2>1 DEF PersistOK
  <2>2. CASE j # i
    <3>1. snapshot'[j] = snapshot[j] /\ log_offset'[j] = log_offset[j]
      BY <1>1, <2>2 DEF PersistOK
    <3> QED BY <3>1 DEF WholeInv
  <2> QED BY <2>1, <2>2
<1>4. ASSUME NEW j \in Server, ~up'[j] PROVE whole_image(disk'[j])
  <2>1. j # i /\ ~up[j]
    BY <1>4
  <2>2. disk'[j] = disk[j]
    BY <1>1, <1>2, <2>1
  <2> QED BY <2>1, <2>2 DEF WholeInv
<1> QED BY <1>3, <1>4 DEF WholeInv

\* A compaction labels the captured state with the entries it holds.
LEMMA TakeSnapshotWhole ==
  ASSUME TypeInv, WholeInv, NEW i \in Server, TakeSnapshot(i)
  PROVE  WholeInv'
<1>1. up[i] /\ UNCHANGED up /\ flush_raft_messages({}, {})
  BY DEF TakeSnapshot, ready, envVars
<1>2. CASE ~takes_snapshot(i)
  <2>1. UNCHANGED <<snapshot, log_offset, disk>>
    BY <1>2 DEF TakeSnapshot
  <2> QED BY <1>1, <2>1, WholeSilent
<1>3. CASE takes_snapshot(i)
  <2>1. /\ snapshot' = [snapshot EXCEPT ![i] = capture[i].state]
        /\ log_offset' = [log_offset EXCEPT ![i] = Len(capture[i].state)]
        /\ Persist(i, take_snapshot_image(i))
    BY <1>3 DEF TakeSnapshot, captured_index
  <2>2. \A m \in msgs' : whole_message(m)
    BY <1>1 DEF flush_raft_messages, WholeInv
  <2> QED BY <1>1, <2>1, <2>2, WholeReplaced
<1> QED BY <1>2, <1>3

\* A snapshot from the leader is as whole as its message.
LEMMA InstallSnapshotWhole ==
  ASSUME TypeInv, WholeInv, NEW i \in Server, NEW m \in msgs,
         handle_install_snapshot(i, m)
  PROVE  WholeInv'
<1>1. up[i] /\ UNCHANGED up /\ m.type = "InstallSnapshot"
  BY DEF handle_install_snapshot, Delivered, ready, envVars
<1>2. PICK t, success, x : flush_raft_messages({m}, {snapshot_response(i, m, t, success, x)})
  BY DEF handle_install_snapshot, after_raft_activity
<1>3. \A o \in {snapshot_response(i, m, t, success, x)} : whole_message(o)
  BY AnswersWhole
<1>4. CASE /\ UNCHANGED <<snapshot, log_offset>>
           /\ UNCHANGED disk \/ Persist(i, newer_term_image(i, m))
  BY <1>1, <1>2, <1>3, <1>4, WholeHandled
<1>5. CASE /\ snapshot' = [snapshot EXCEPT ![i] = m.snapshot_data]
           /\ log_offset' = [log_offset EXCEPT ![i] = m.snapshot_index]
           /\ Persist(i, install_image(i, m))
  <2>1. Len(m.snapshot_data) = m.snapshot_index
    BY <1>1 DEF WholeInv, whole_message
  <2>2. \A o \in msgs' : whole_message(o)
    BY <1>2, <1>3, FlushedWhole
  <2> QED BY <1>1, <1>5, <2>1, <2>2, WholeReplaced
<1> QED BY <1>4, <1>5 DEF handle_install_snapshot, persistVars

\* An image of a running node's log holds the snapshot of the node.
LEMMA HeldWhole ==
  ASSUME WholeInv, NEW i \in Server, NEW d, NEW lg, NEW c,
         Image(d, held_snapshot(i), lg, c)
  PROVE  whole_image(d)
<1>1. d.snapshot = held_snapshot(i)
  BY DEF Image
<1>2. held_snapshot(i).state = snapshot[i] /\ held_snapshot(i).index = log_offset[i]
  BY DEF held_snapshot
<1> QED BY <1>1, <1>2 DEF WholeInv, whole_image

\* Whatever a dying process leaves in its WAL holds a whole snapshot.
LEMMA CrashImagesWhole ==
  ASSUME TypeInv, MirrorInv, WholeInv, NEW i \in Server, up[i], NEW d \in crash_images(i)
  PROVE  whole_image(d)
<1>1. ASSUME NEW m \in msgs PROVE whole_image(newer_term_image(i, m))
  BY NewerTermMirror, HeldWhole
<1>2. CASE d = disk[i]
  BY <1>2, MirrorFacts, HeldWhole
<1>3. ASSUME NEW m \in msgs, Delivered(i, m, "AppendEntries"), d \in torn_append_images(i, m)
      PROVE  whole_image(d)
  <2>1. PICK k \in 1 .. Len(m.entries) :
          /\ log_ok(i, m) /\ first_new(i, m, k) /\ ~overwrites_committed(i, m, k)
          /\ d \in append_entry_images(i, m, k)
    BY <1>3 DEF torn_append_images
  <2>2. PICK l \in k - 1 .. Len(m.entries) :
          d = save_entries(newer_term_image(i, m), m.prev_log_index + k,
                           SubSeq(m.entries, k, l))
    BY <2>1 DEF append_entry_images
  <2>3. m \in AppendEntries /\ m.type = "AppendEntries"
    BY <1>3, InvGroups, MessageKinds DEF LoopOK, Delivered
  <2>4. m.entries \in Seq(Entry)
    BY <2>3 DEF AppendEntries
  <2>5. Len(m.entries) \in Nat /\ k \in Nat /\ k >= 1 /\ l \in Int /\ l <= Len(m.entries)
    BY SMT, <2>4
  <2>6. CASE l \in k .. Len(m.entries)
    BY <2>1, <2>2, <2>3, <2>6, BatchImage, HeldWhole
  <2>7. CASE ~(l \in k .. Len(m.entries))
    <3>1. SubSeq(m.entries, k, l) = <<>>
      BY SMT, <2>4, <2>5, <2>7
    <3>2. d = newer_term_image(i, m)
      BY <2>2, <3>1 DEF save_entries
    <3> QED BY <1>1, <3>2
  <2> QED BY <2>6, <2>7
<1>4. ASSUME NEW m \in msgs, Delivered(i, m, "InstallSnapshot"),
             d \in torn_install_images(i, m)
      PROVE  whole_image(d)
  <2>1. d = snapshot_saved_image(i, m) /\ installs(i, m) /\ m.type = "InstallSnapshot"
    BY <1>4 DEF torn_install_images, Delivered
  <2> DEFINE rec == [index |-> m.snapshot_index, term |-> m.snapshot_term,
                     state |-> m.snapshot_data]
  <2>2. Image(d, rec, <<>>, m.snapshot_index)
    BY <2>1, InstallingImage
  <2>3. rec.index = m.snapshot_index /\ rec.state = m.snapshot_data
    OBVIOUS
  <2> HIDE DEF rec
  <2>4. d.snapshot = rec
    BY <2>2 DEF Image
  <2> QED BY <2>1, <2>3, <2>4 DEF WholeInv, whole_message, whole_image
<1> QED BY <1>1, <1>2, <1>3, <1>4, CrashImageOrigin

\* A crash leaves a whole snapshot on disk, and a restart takes it up.
LEMMA ProcessWhole ==
  ASSUME TypeInv, MirrorInv, WholeInv, NEW i \in Server, Crash(i) \/ Restart(i)
  PROVE  WholeInv'
<1>1. PersistOK /\ EnvOK /\ disk = [n \in Server |-> disk[n]]
  BY InvGroups DEF WalsOK
<1>2. PICK d, st, x :
        /\ snapshot' = [snapshot EXCEPT ![i] = st]
        /\ log_offset' = [log_offset EXCEPT ![i] = x] /\ Len(st) = x
        /\ disk' = [disk EXCEPT ![i] = d] /\ whole_image(d)
        /\ \A j \in Server \ {i} : up'[j] = up[j]
        /\ UNCHANGED msgs
  <2>1. CASE Crash(i)
    <3>1. PICK d \in crash_images(i) : disk' = [disk EXCEPT ![i] = d]
      BY <2>1 DEF Crash
    <3>2. /\ up[i] /\ up' = [up EXCEPT ![i] = FALSE]
          /\ snapshot' = [snapshot EXCEPT ![i] = <<>>]
          /\ log_offset' = [log_offset EXCEPT ![i] = 0] /\ UNCHANGED msgs
      BY <2>1 DEF Crash, ready
    <3>3. whole_image(d)
      BY <3>2, CrashImagesWhole
    <3>4. Len(<<>>) = 0
      BY SMT
    <3>5. \A j \in Server \ {i} : up'[j] = up[j]
      BY <1>1, <3>2 DEF EnvOK
    <3> QED BY <3>1, <3>2, <3>3, <3>4, <3>5
  <2>2. CASE Restart(i)
    <3>1. /\ ~up[i] /\ up' = [up EXCEPT ![i] = TRUE]
          /\ snapshot' = [snapshot EXCEPT ![i] = disk[i].snapshot.state]
          /\ log_offset' = [log_offset EXCEPT ![i] = disk[i].snapshot.index]
          /\ UNCHANGED <<disk, msgs>>
      BY <2>2 DEF Restart
    <3>2. whole_image(disk[i])
      BY <3>1 DEF WholeInv
    <3>3. Len(disk[i].snapshot.state) = disk[i].snapshot.index
      BY <3>2 DEF whole_image
    <3>4. disk' = [disk EXCEPT ![i] = disk[i]]
      BY <1>1, <3>1
    <3>5. \A j \in Server \ {i} : up'[j] = up[j]
      BY <1>1, <3>1 DEF EnvOK
    <3> QED BY <3>1, <3>2, <3>3, <3>4, <3>5
  <2> QED BY <2>1, <2>2
<1>3. ASSUME NEW j \in Server
      PROVE  Len(snapshot'[j]) = log_offset'[j] /\ (~up'[j] => whole_image(disk'[j]))
  <2>1. CASE j = i
    BY <1>1, <1>2, <2>1 DEF PersistOK
  <2>2. CASE j # i
    <3>1. /\ snapshot'[j] = snapshot[j] /\ log_offset'[j] = log_offset[j]
          /\ disk'[j] = disk[j] /\ up'[j] = up[j]
      BY <1>1, <1>2, <2>2 DEF PersistOK
    <3> QED BY <3>1 DEF WholeInv
  <2> QED BY <2>1, <2>2
<1> QED BY <1>2, <1>3 DEF WholeInv

\* Every step keeps the snapshots whole.
LEMMA StepWhole ==
  ASSUME TypeInv, MirrorInv, WholeInv, [Next]_vars
  PROVE  WholeInv'
<1>1. ASSUME NEW i \in Server, NEW m \in msgs, Receive(i, m) PROVE WholeInv'
  BY <1>1, ElectionWhole, ReplicationWhole, InstallSnapshotWhole DEF Receive
<1>2. ASSUME UNCHANGED vars PROVE WholeInv'
  BY <1>2 DEF vars, persistVars, envVars, WholeInv
<1>3. ASSUME NEW i \in Server,
             TickLeader(i) \/ TickIdle(i) \/ TickQuiet(i) \/ TickElection(i)
      PROVE  WholeInv'
  BY <1>3, ElectionWhole
<1>4. ASSUME NEW i \in Server, NEW v \in Value, Propose(i, v) PROVE WholeInv'
  BY <1>4, ReplicationWhole
<1>5. ASSUME NEW i \in Server,
             \/ JoinRead(i) \/ OpenRead(i) \/ OpenReadWithNoOp(i)
             \/ ApplyCommittedEntry(i) \/ AcknowledgeApplied(i) \/ ExpireWrite(i)
             \/ CaptureSnapshot(i) \/ \E w \in waiting[i] : CancelRead(i, w)
      PROVE  WholeInv'
  BY <1>5, LoopWhole
<1>6. ASSUME NEW i \in Server, TakeSnapshot(i) PROVE WholeInv'
  BY <1>6, TakeSnapshotWhole
<1>7. ASSUME NEW i \in Server, Crash(i) \/ Restart(i) PROVE WholeInv'
  BY <1>7, ProcessWhole
<1> QED BY <1>1, <1>2, <1>3, <1>4, <1>5, <1>6, <1>7 DEF Next

\* The hand-over of node i is in order, and none is open while a node is down.
in_step(i) ==
  /\ apply_in_flight[i] = NoApply => Len(store[i]) = last_applied[i]
  /\ apply_in_flight[i] # NoApply =>
       /\ apply_in_flight[i][1] = last_applied[i] + 1
       /\ apply_in_flight[i][1] <= commit_index[i]
       /\ Len(store[i]) \in {last_applied[i], last_applied[i] + 1}
HandoffInv ==
  \A i \in Server : in_step(i) /\ (~up[i] => apply_in_flight[i] = NoApply)

\* Nothing that the hand-over of node j depends on changes.
handoff_kept(j) ==
  /\ apply_in_flight'[j] = apply_in_flight[j] /\ store'[j] = store[j]
  /\ last_applied'[j] = last_applied[j] /\ commit_index'[j] = commit_index[j]
  /\ up'[j] = up[j]

\* A step of node i that leaves its hand-over in order.
LEMMA HandoffOfOne ==
  ASSUME HandoffInv, NEW i \in Server, in_step(i)', ~up'[i] => apply_in_flight'[i] = NoApply,
         \A j \in Server \ {i} : handoff_kept(j)
  PROVE  HandoffInv'
<1>1. ASSUME NEW j \in Server
      PROVE  in_step(j)' /\ (~up'[j] => apply_in_flight'[j] = NoApply)
  <2>1. CASE j = i
    BY <2>1
  <2>2. CASE j # i
    <3>1. handoff_kept(j)
      BY <2>2
    <3> QED BY <3>1 DEF HandoffInv, handoff_kept, in_step
  <2> QED BY <2>1, <2>2
<1> QED BY <1>1 DEF HandoffInv

\* The next entry goes to the KV loop when none is in flight.
LEMMA Dispatched ==
  ASSUME TypeInv, TypeInv', NEW i \in Server, NEW f, dispatch_next_committed_entry(i, f),
         f = NoApply => Len(store'[i]) = last_applied'[i],
         f # NoApply => /\ f[1] = last_applied'[i] + 1 /\ f[1] <= commit_index'[i]
                        /\ Len(store'[i]) \in {last_applied'[i], last_applied'[i] + 1}
  PROVE  in_step(i)' /\ \A j \in Server \ {i} : apply_in_flight'[j] = apply_in_flight[j]
<1> DEFINE e == next_entry_to_apply(i)'
<1>1. /\ apply_in_flight'[i] = IF f = NoApply /\ last_applied'[i] < commit_index'[i]
                                 THEN e ELSE f
      /\ \A j \in Server \ {i} : apply_in_flight'[j] = apply_in_flight[j]
  BY InvGroups DEF LoopOK, dispatch_next_committed_entry
<1>2. last_applied'[i] \in Nat /\ commit_index'[i] \in Nat
  BY DEF TypeInv, TypeOK
<1>3. e[1] = last_applied'[i] + 1
  BY DEF next_entry_to_apply
<1> HIDE DEF e
<1>4. CASE f = NoApply /\ last_applied'[i] < commit_index'[i]
  <2>1. last_applied'[i] + 1 <= commit_index'[i]
    BY SMT, <1>2, <1>4
  <2>2. apply_in_flight'[i] = e /\ Len(store'[i]) = last_applied'[i]
    BY <1>1, <1>4
  <2> QED BY <1>1, <1>3, <2>1, <2>2 DEF in_step
<1>5. CASE ~(f = NoApply /\ last_applied'[i] < commit_index'[i])
  <2>1. apply_in_flight'[i] = f
    BY <1>1, <1>5
  <2> QED BY <1>1, <2>1 DEF in_step
<1> QED BY <1>4, <1>5

\* A handler of a running node that applies nothing and commits, or does not.
LEMMA HandoffHandled ==
  ASSUME TypeInv, TypeInv', HandoffInv, NEW i \in Server, up[i],
         UNCHANGED <<up, last_applied, store>>,
         dispatch_next_committed_entry(i, apply_in_flight[i]),
         commit_index[i] <= commit_index'[i],
         \A j \in Server \ {i} : commit_index'[j] = commit_index[j]
  PROVE  HandoffInv'
<1>1. commit_index[i] \in Nat /\ commit_index'[i] \in Nat /\ last_applied[i] \in Nat
  BY DEF TypeInv, TypeOK
<1>2. in_step(i)
  BY DEF HandoffInv
<1>3. apply_in_flight[i] # NoApply => apply_in_flight[i][1] <= commit_index'[i]
  <2>1. ASSUME apply_in_flight[i] # NoApply PROVE apply_in_flight[i][1] <= commit_index'[i]
    <3> DEFINE x == apply_in_flight[i][1]
    <3>1. x = last_applied[i] + 1 /\ x <= commit_index[i]
      BY <1>2, <2>1 DEF in_step
    <3> HIDE DEF x
    <3>2. x <= commit_index'[i]
      BY SMT, <1>1, <3>1
    <3> QED BY <3>2 DEF x
  <2> QED BY <2>1
<1>4. last_applied'[i] = last_applied[i] /\ store'[i] = store[i]
  OBVIOUS
<1>5. in_step(i)' /\ \A j \in Server \ {i} : apply_in_flight'[j] = apply_in_flight[j]
  <2> DEFINE f == apply_in_flight[i]
  <2>1. f = NoApply => Len(store'[i]) = last_applied'[i]
    BY <1>2, <1>4 DEF in_step
  <2>2. f # NoApply => /\ f[1] = last_applied'[i] + 1 /\ f[1] <= commit_index'[i]
                       /\ Len(store'[i]) \in {last_applied'[i], last_applied'[i] + 1}
    BY <1>2, <1>3, <1>4 DEF in_step
  <2> QED BY <2>1, <2>2, Dispatched
<1>6. \A j \in Server \ {i} : handoff_kept(j)
  BY <1>5 DEF handoff_kept
<1>7. up'[i]
  OBVIOUS
<1> QED BY <1>5, <1>6, <1>7, HandoffOfOne

\* The handlers that leave the commit index alone.
LEMMA SteadyHandoff ==
  ASSUME TypeInv, TypeInv', HandoffInv, NEW i \in Server, up[i],
         UNCHANGED <<up, last_applied, store, commit_index>>,
         dispatch_next_committed_entry(i, apply_in_flight[i])
  PROVE  HandoffInv'
<1>1. commit_index[i] \in Nat
  BY DEF TypeInv, TypeOK
<1>2. commit_index[i] <= commit_index'[i]
  BY SMT, <1>1
<1> QED BY <1>2, HandoffHandled

\* Messages and timers.
LEMMA MessageHandoff ==
  ASSUME TypeInv, TypeInv', HandoffInv, NEW i \in Server, NEW m,
         \/ StepDown(i, m) \/ handle_request_vote(i, m)
         \/ handle_request_vote_response(i, m) \/ handle_pre_vote(i, m)
         \/ handle_pre_vote_response(i, m) \/ AppendRejected(i, m)
         \/ handle_install_snapshot_response(i, m) \/ IgnoreResponse(i, m)
         \/ TickLeader(i) \/ TickIdle(i) \/ TickQuiet(i) \/ TickElection(i)
  PROVE  HandoffInv'
<1>1. /\ up[i] /\ UNCHANGED <<up, last_applied, store, commit_index>>
      /\ dispatch_next_committed_entry(i, apply_in_flight[i])
  BY DEF StepDown, handle_request_vote, handle_request_vote_response, counts_vote,
         handle_pre_vote, handle_pre_vote_response, counts_pre_vote, AppendRejected,
         acknowledges, handle_install_snapshot_response, installed, IgnoreResponse,
         TickLeader, TickIdle, TickQuiet, TickElection, Delivered, ready, persistVars,
         applyVars, envVars, after_raft_activity
<1> QED BY <1>1, SteadyHandoff

\* Proposals, reads and compaction.
LEMMA ClientHandoff ==
  ASSUME TypeInv, TypeInv', HandoffInv, NEW i \in Server,
         \/ \E v \in Value : Propose(i, v)
         \/ JoinRead(i) \/ OpenRead(i) \/ OpenReadWithNoOp(i) \/ TakeSnapshot(i)
  PROVE  HandoffInv'
<1>1. /\ up[i] /\ UNCHANGED <<up, last_applied, store, commit_index>>
      /\ dispatch_next_committed_entry(i, apply_in_flight[i])
  BY DEF Propose, JoinRead, OpenRead, OpenReadWithNoOp, RegisterRead, TakeSnapshot, ready,
         persistVars, applyVars, envVars, after_raft_activity
<1> QED BY <1>1, SteadyHandoff

\* handle_append_entries never takes the commit index back.
LEMMA AppendEntriesHandoff ==
  ASSUME TypeInv, TypeInv', HandoffInv, NEW i \in Server, NEW m \in msgs,
         handle_append_entries(i, m)
  PROVE  HandoffInv'
<1>1. /\ up[i] /\ UNCHANGED <<up, last_applied, store>> /\ m.type = "AppendEntries"
      /\ dispatch_next_committed_entry(i, apply_in_flight[i])
  BY DEF handle_append_entries, Delivered, ready, applyVars, envVars, after_raft_activity
<1>2. CASE UNCHANGED commit_index
  BY <1>1, <1>2, SteadyHandoff
<1>3. ASSUME log_ok(i, m), NEW k \in 1 .. Len(m.entries) + 1, first_new(i, m, k),
             ~overwrites_committed(i, m, k), NEW c,
             c = follower_commit(i, m, spliced_log(i, m, k)),
             commit_index' = [commit_index EXCEPT ![i] = c]
      PROVE  HandoffInv'
  <2>1. m \in AppendEntries
    BY <1>1, InvGroups, MessageKinds DEF LoopOK
  <2>2. commit_index[i] <= c
    BY <1>3, <2>1, InvGroups, FollowerCommitOK
  <2>3. commit_index'[i] = c /\ \A j \in Server \ {i} : commit_index'[j] = commit_index[j]
    BY <1>3, InvGroups DEF PersistOK
  <2> QED BY <1>1, <2>2, <2>3, HandoffHandled
<1> QED BY <1>2, <1>3 DEF handle_append_entries

\* Nor does handle_append_entries_response.
LEMMA AppendAcceptedHandoff ==
  ASSUME TypeInv, TypeInv', HandoffInv, NEW i \in Server, NEW m, AppendAccepted(i, m)
  PROVE  HandoffInv'
<1>1. /\ up[i] /\ UNCHANGED <<up, last_applied, store>>
      /\ dispatch_next_committed_entry(i, apply_in_flight[i])
  BY DEF AppendAccepted, acknowledges, Delivered, ready, applyVars, envVars,
         after_raft_activity
<1>2. PICK c \in committable(i, progress_after(i, m)) \cup {commit_index[i]} :
        commit_index' = [commit_index EXCEPT ![i] = c]
  BY DEF AppendAccepted
<1>3. /\ commit_index[i] \in Nat /\ log_offset[i] \in Nat /\ log[i] \in Seq(Entry)
  BY InvGroups DEF PersistOK
<1>4. c = commit_index[i] \/ c \in commit_index[i] + 1 .. last_log_index(i)
  BY <1>2 DEF committable
<1>5. commit_index[i] <= c
  BY SMT, <1>3, <1>4 DEF last_log_index
<1>6. commit_index'[i] = c /\ \A j \in Server \ {i} : commit_index'[j] = commit_index[j]
  BY <1>2, InvGroups DEF PersistOK
<1> QED BY <1>1, <1>5, <1>6, HandoffHandled

\* An installed snapshot moves both loops, with no entry in flight.
LEMMA InstallSnapshotHandoff ==
  ASSUME TypeInv, TypeInv', WholeInv, HandoffInv, NEW i \in Server, NEW m \in msgs,
         handle_install_snapshot(i, m)
  PROVE  HandoffInv'
<1>1. /\ up[i] /\ UNCHANGED up /\ m.type = "InstallSnapshot"
      /\ dispatch_next_committed_entry(i, apply_in_flight[i])
  BY DEF handle_install_snapshot, Delivered, ready, envVars, after_raft_activity
<1>2. CASE UNCHANGED <<commit_index, last_applied, store>>
  BY <1>1, <1>2, SteadyHandoff
<1>3. CASE /\ installs(i, m)
           /\ store' = [store EXCEPT ![i] = m.snapshot_data]
           /\ last_applied' = [last_applied EXCEPT ![i] = m.snapshot_index]
           /\ commit_index' = [commit_index EXCEPT ![i] = m.snapshot_index]
  <2>1. apply_in_flight[i] = NoApply
    BY <1>3 DEF installs
  <2>2. PersistOK /\ ApplyOK
    BY InvGroups
  <2>3. /\ store'[i] = m.snapshot_data /\ last_applied'[i] = m.snapshot_index
        /\ \A j \in Server \ {i} : /\ store'[j] = store[j] /\ up'[j] = up[j]
                                   /\ last_applied'[j] = last_applied[j]
                                   /\ commit_index'[j] = commit_index[j]
    BY <1>1, <1>3, <2>2 DEF PersistOK, ApplyOK
  <2>4. Len(store'[i]) = last_applied'[i]
    BY <1>1, <2>3 DEF WholeInv, whole_message
  <2>5. in_step(i)' /\ \A j \in Server \ {i} : apply_in_flight'[j] = apply_in_flight[j]
    BY <1>1, <2>1, <2>4, Dispatched
  <2>6. \A j \in Server \ {i} : handoff_kept(j)
    BY <2>3, <2>5 DEF handoff_kept
  <2> QED BY <1>1, <2>5, <2>6, HandoffOfOne
<1> QED BY <1>2, <1>3 DEF handle_install_snapshot, persistVars

\* The KV loop applies the entry in flight, which is the next one.
LEMMA ApplyHandoff ==
  ASSUME TypeInv, HandoffInv, NEW i \in Server, ApplyCommittedEntry(i)
  PROVE  HandoffInv'
<1> DEFINE e == apply_in_flight[i][2]
<1>1. /\ up[i] /\ apply_in_flight[i] # NoApply
      /\ apply_in_flight[i][1] = Len(store[i]) + 1
      /\ store' = [store EXCEPT ![i] = Append(store[i], e)]
      /\ UNCHANGED <<up, apply_in_flight, last_applied, commit_index>>
  BY DEF ApplyCommittedEntry, envVars, persistVars
<1>2. apply_in_flight[i][1] = last_applied[i] + 1 /\ apply_in_flight[i][1] <= commit_index[i]
  BY <1>1 DEF HandoffInv, in_step
<1>3. store \in [Server -> Seq(Entry)] /\ last_applied[i] \in Nat
  BY InvGroups DEF ApplyOK
<1>4. apply_in_flight[i] \in Nat \X Entry
  BY <1>1, InvGroups DEF LoopOK
<1>5. e \in Entry
  BY <1>4
<1> HIDE DEF e
<1>6. store[i] \in Seq(Entry) /\ store'[i] = Append(store[i], e)
      /\ \A j \in Server \ {i} : store'[j] = store[j]
  BY <1>1, <1>3
<1>7. Len(store'[i]) = last_applied[i] + 1
  <2>1. Len(store'[i]) = Len(store[i]) + 1
    BY SMT, <1>5, <1>6
  <2> QED BY <1>1, <1>2, <2>1
<1>8. in_step(i)'
  BY <1>1, <1>2, <1>7 DEF in_step
<1>9. \A j \in Server \ {i} : handoff_kept(j)
  BY <1>1, <1>6 DEF handoff_kept
<1> QED BY <1>1, <1>8, <1>9, HandoffOfOne

\* Its acknowledgement brings last_applied_ up to the KV state.
LEMMA AcknowledgeHandoff ==
  ASSUME TypeInv, TypeInv', HandoffInv, NEW i \in Server, AcknowledgeApplied(i)
  PROVE  HandoffInv'
<1> DEFINE x == apply_in_flight[i][1]
<1>1. /\ up[i] /\ apply_in_flight[i] # NoApply /\ x <= Len(store[i])
      /\ last_applied' = [last_applied EXCEPT ![i] = x]
      /\ UNCHANGED <<up, store, commit_index>>
      /\ dispatch_next_committed_entry(i, NoApply)
  BY DEF AcknowledgeApplied, envVars, persistVars
<1>2. x = last_applied[i] + 1 /\ Len(store[i]) \in {last_applied[i], last_applied[i] + 1}
  BY <1>1 DEF HandoffInv, in_step
<1>3. ApplyOK
  BY InvGroups
<1> HIDE DEF x
<1>4. /\ last_applied'[i] = x /\ last_applied[i] \in Nat
      /\ \A j \in Server \ {i} : last_applied'[j] = last_applied[j]
  BY <1>1, <1>3 DEF ApplyOK
<1>5. Len(store[i]) = x
  BY SMT, <1>1, <1>2, <1>4
<1>6. Len(store'[i]) = last_applied'[i]
  BY <1>1, <1>4, <1>5
<1>7. in_step(i)' /\ \A j \in Server \ {i} : apply_in_flight'[j] = apply_in_flight[j]
  BY <1>1, <1>6, Dispatched
<1>8. \A j \in Server \ {i} : handoff_kept(j)
  BY <1>1, <1>4, <1>7 DEF handoff_kept
<1> QED BY <1>1, <1>7, <1>8, HandoffOfOne

\* Nothing of the hand-over changes.
LEMMA HandoffUntouched ==
  ASSUME HandoffInv, UNCHANGED <<up, apply_in_flight, store, last_applied, commit_index>>
  PROVE  HandoffInv'
  BY DEF HandoffInv, in_step

\* A crash takes the hand-over with it.
LEMMA CrashHandoff ==
  ASSUME TypeInv, HandoffInv, NEW i \in Server, Crash(i)
  PROVE  HandoffInv'
<1>1. /\ up' = [up EXCEPT ![i] = FALSE]
      /\ commit_index' = [commit_index EXCEPT ![i] = 0]
      /\ last_applied' = [last_applied EXCEPT ![i] = 0]
      /\ store' = [store EXCEPT ![i] = <<>>]
      /\ apply_in_flight' = [apply_in_flight EXCEPT ![i] = NoApply]
  BY DEF Crash
<1>2. PersistOK /\ ApplyOK /\ LoopOK /\ EnvOK
  BY InvGroups
<1>3. /\ apply_in_flight'[i] = NoApply /\ last_applied'[i] = 0 /\ store'[i] = <<>>
      /\ \A j \in Server \ {i} : handoff_kept(j)
  BY <1>1, <1>2 DEF PersistOK, ApplyOK, LoopOK, EnvOK, handoff_kept
<1>4. Len(<<>>) = 0
  BY SMT
<1>5. in_step(i)'
  BY <1>3, <1>4 DEF in_step
<1> QED BY <1>3, <1>5, HandoffOfOne

\* A restart replays the committed entries behind a whole snapshot.
LEMMA RestartHandoff ==
  ASSUME TypeInv, WholeInv, HandoffInv, NEW i \in Server, Restart(i)
  PROVE  HandoffInv'
<1> DEFINE d == disk[i]
           lg == restored_log(d)
           c == restored_commit(d)
           x == d.snapshot.index
           st == d.snapshot.state
<1>1. /\ ~up[i] /\ restorable(d) /\ up' = [up EXCEPT ![i] = TRUE]
      /\ commit_index' = [commit_index EXCEPT ![i] = c]
      /\ last_applied' = [last_applied EXCEPT ![i] = c]
      /\ store' = [store EXCEPT ![i] = st \o SubSeq(lg, 1, c - x)]
      /\ UNCHANGED apply_in_flight
  BY DEF Restart, loopVars
<1>2. PersistOK /\ ApplyOK /\ LoopOK /\ EnvOK /\ WalImageOK(d)
  BY InvGroups DEF WalsOK
<1>3. /\ lg \in Seq(Entry) /\ c \in Nat /\ x <= c /\ c <= x + Len(lg)
  BY <1>1, <1>2, RestoreOK
<1>4. Len(st) = x
  BY <1>1 DEF WholeInv, whole_image
<1>5. x \in Nat /\ st \in Seq(Entry)
  BY <1>2 DEF WalImageOK
<1>6. /\ last_applied'[i] = c /\ store'[i] = st \o SubSeq(lg, 1, c - x) /\ up'[i]
      /\ \A j \in Server \ {i} : handoff_kept(j)
  BY <1>1, <1>2 DEF PersistOK, ApplyOK, EnvOK, handoff_kept
<1> HIDE DEF d, lg, c, x, st
<1>7. Len(store'[i]) = c
  <2> DEFINE n == c - x
  <2>1. n \in Nat /\ n <= Len(lg) /\ x + n = c
    BY SMT, <1>3, <1>5
  <2> HIDE DEF n
  <2>2. SubSeq(lg, 1, n) \in Seq(Entry) /\ Len(SubSeq(lg, 1, n)) = n
    BY SMT, <1>3, <2>1, SliceOK
  <2>3. Len(st \o SubSeq(lg, 1, n)) = Len(st) + Len(SubSeq(lg, 1, n))
    BY <1>5, <2>2, ConcatOK
  <2> QED BY <1>4, <1>6, <2>1, <2>2, <2>3 DEF n
<1>8. apply_in_flight'[i] = NoApply
  BY <1>1 DEF HandoffInv
<1>9. in_step(i)'
  BY <1>6, <1>7, <1>8 DEF in_step
<1> QED BY <1>6, <1>8, <1>9, HandoffOfOne

\* Every step leaves the hand-over of every node in order.
LEMMA StepHandoff ==
  ASSUME TypeInv, WholeInv, HandoffInv, [Next]_vars
  PROVE  HandoffInv'
<1>0. TypeInv'
  BY StepTypes
<1>1. ASSUME NEW i \in Server, NEW m \in msgs, Receive(i, m) PROVE HandoffInv'
  BY <1>0, <1>1, MessageHandoff, AppendEntriesHandoff, AppendAcceptedHandoff,
     InstallSnapshotHandoff DEF Receive
<1>2. ASSUME UNCHANGED vars PROVE HandoffInv'
  BY <1>2, HandoffUntouched DEF vars, persistVars, applyVars, loopVars, envVars
<1>3. ASSUME NEW i \in Server,
             TickLeader(i) \/ TickIdle(i) \/ TickQuiet(i) \/ TickElection(i)
      PROVE  HandoffInv'
  BY <1>0, <1>3, MessageHandoff
<1>4. ASSUME NEW i \in Server,
             \/ \E v \in Value : Propose(i, v)
             \/ JoinRead(i) \/ OpenRead(i) \/ OpenReadWithNoOp(i) \/ TakeSnapshot(i)
      PROVE  HandoffInv'
  BY <1>0, <1>4, ClientHandoff
<1>5. ASSUME NEW i \in Server, ApplyCommittedEntry(i) \/ AcknowledgeApplied(i)
      PROVE  HandoffInv'
  BY <1>0, <1>5, ApplyHandoff, AcknowledgeHandoff
<1>6. ASSUME NEW i \in Server,
             \/ ExpireWrite(i) \/ CaptureSnapshot(i)
             \/ \E w \in waiting[i] : CancelRead(i, w)
      PROVE  HandoffInv'
  BY <1>6, HandoffUntouched DEF ExpireWrite, CaptureSnapshot, CancelRead, persistVars,
     applyVars, loopVars, envVars
<1>7. ASSUME NEW i \in Server, Crash(i) \/ Restart(i) PROVE HandoffInv'
  BY <1>7, CrashHandoff, RestartHandoff
<1> QED BY <1>1, <1>2, <1>3, <1>4, <1>5, <1>6, <1>7 DEF Next

\* The hand-over never has to stop the node: the entry in flight is always the
\* one after last_applied_ and the KV state is at it or just before it, through
\* every interleaving of the two loops, snapshots from the leader, crashes and
\* restarts (apply_committed_entry, acknowledge_applied, restore_snapshot).
THEOREM HandoffInOrder == Spec => []ApplyInOrder
<1>1. Init => WholeInv /\ HandoffInv
  <2> SUFFICES ASSUME Init PROVE WholeInv /\ HandoffInv
    OBVIOUS
  <2>1. Len(<<>>) = 0
    BY SMT
  <2>2. \A i \in Server : /\ snapshot[i] = <<>> /\ log_offset[i] = 0 /\ up[i]
                          /\ store[i] = <<>> /\ last_applied[i] = 0
                          /\ apply_in_flight[i] = NoApply
    BY DEF Init
  <2>3. msgs = {}
    BY DEF Init
  <2>4. WholeInv
    BY <2>1, <2>2, <2>3 DEF WholeInv
  <2> QED BY <2>1, <2>2, <2>4 DEF HandoffInv, in_step
<1>2. TypeInv /\ MirrorInv /\ WholeInv /\ HandoffInv /\ [Next]_vars
        => (WholeInv /\ HandoffInv)'
  BY StepWhole, StepHandoff
<1>3. HandoffInv => ApplyInOrder
  BY DEF HandoffInv, in_step, ApplyInOrder
<1> QED BY <1>1, <1>2, <1>3, MirrorInvariant, PTL DEF Spec
=============================================================================
