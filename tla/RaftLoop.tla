------------------------------ MODULE RaftLoop ------------------------------
(***************************************************************************)
(* What NodeRuntime does on the Raft loop after every handler, tick or     *)
(* client call: after_raft_activity() of src/app/node_runtime.cpp.         *)
(*                                                                         *)
(* Each of these operators is a conjunct of the action it closes.  They    *)
(* read the state the handler has left (term', commit_index', ...), as the *)
(* code does, and assign the variables of NodeRuntime.                     *)
(*                                                                         *)
(* after_raft_activity first stops the process, without sending anything,  *)
(* when a WAL sync has failed.  Such a step leaves on disk some prefix of  *)
(* the records the handler wrote: it is the action Crash of module         *)
(* Cluster, not a case of the actions here.                                *)
(***************************************************************************)
EXTENDS RaftState

next_entry_to_apply(i) ==
  <<last_applied[i] + 1, log[i][last_applied[i] + 1 - log_offset[i]]>>

\* A copy of the next committed entry is handed to the KV loop when none is
\* in flight.
dispatch_next_committed_entry(i, in_flight) ==
  apply_in_flight' = [apply_in_flight EXCEPT ![i] =
    IF in_flight = NoApply /\ last_applied'[i] < commit_index'[i]
      THEN next_entry_to_apply(i)'
      ELSE in_flight]

\* last_snapshot_index_ always equals log_offset_.
should_snapshot(i) ==
  /\ SnapshotThreshold > 0
  /\ last_applied[i] >= log_offset[i]
  /\ last_applied[i] - log_offset[i] >= SnapshotThreshold

maybe_capture_snapshot(i, captured) ==
  capture' = [capture EXCEPT ![i] =
    IF captured = Idle /\ should_snapshot(i)' THEN Requested ELSE captured]

\* Is w a read of the pending round rd, confirmed by a quorum and applied?
\* Asked of the state that the handler leaves.
read_index_ready(i, rd, w) ==
  /\ state'[i] = "Leader"
  /\ w.context = rd.context /\ w.index = rd.index
  /\ has_committed_entry_in_current_term(i)'
  /\ last_applied'[i] >= w.index
  /\ majority(rd.acks \cup {i})

\* Reads of the confirmed round are answered from the KV state; a node that
\* is no longer the leader rejects all it holds.  rd and ws are the pending
\* round and the registered reads that the handler leaves.
poll_read_indexes(i, rd, ws) ==
  LET done == {w \in ws : read_index_ready(i, rd, w)} IN
  /\ waiting' = [waiting EXCEPT ![i] =
                   IF state'[i] = "Leader" THEN ws \ done ELSE {}]
  /\ read' = [read EXCEPT ![i] = IF done = {} THEN rd ELSE NoRead]
  /\ served' = served \cup
       {[opened |-> w.opened, stale |-> Len(store'[i]) < w.floor] : w \in done}
  /\ observed' = IF done # {} /\ Len(store'[i]) > observed
                   THEN Len(store'[i]) ELSE observed

\* A bound on what is in flight, not a step of the code (where Peer replaces no
\* more than an unsent AppendEntries of the same stream): the network loses m.
superseded(m, out) ==
  \E o \in out : o.from = m.from /\ o.to = m.to

\* The messages the handler queued go out; in is what it consumed.
flush_raft_messages(in, out) ==
  msgs' = {m \in msgs : /\ Consume => m \notin in
                        /\ Supersede => ~superseded(m, out)} \cup out

after_raft_activity(i, rd, in, out) ==
  /\ dispatch_next_committed_entry(i, apply_in_flight[i])
  /\ poll_read_indexes(i, rd, waiting[i])
  /\ maybe_capture_snapshot(i, capture[i])
  /\ flush_raft_messages(in, out)

\* The handler's records are durable.
Persist(i, image) == disk' = [disk EXCEPT ![i] = image]

\* A message of this type has reached the Raft loop of i.
Delivered(i, m, type) == m.type = type /\ m.to = i /\ ready(i)
=============================================================================
