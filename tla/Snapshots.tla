----------------------------- MODULE Snapshots -----------------------------
(***************************************************************************)
(* Snapshots: capture on the KV loop, compaction on the Raft loop, and     *)
(* InstallSnapshot for a follower behind the compacted prefix.             *)
(*                                                                         *)
(* The serialised KV map is modelled by the sequence of entries that       *)
(* produced it, so its length is the applied index it stands for.          *)
(***************************************************************************)
EXTENDS Replication

serialized(i) == [status |-> "captured", state |-> store[i]]

\* maybe_capture_snapshot()'s task on the KV loop: serialise the state there
\* is now.
CaptureSnapshot(i) ==
  /\ ready(i) /\ capture[i].status = "requested"
  /\ capture' = [capture EXCEPT ![i] = serialized(i)]
  /\ UNCHANGED <<persistVars, roleVars, progress, next_read_context,
                 applyVars, apply_in_flight, readVars, envVars, disk, msgs,
                 elected>>

\* Faulty variant: the snapshot is labelled with the newest applied index.
SnapshotAtLastApplied(i) == last_applied[i]

captured_index(i) == Len(capture[i].state)

takes_snapshot(i) ==
  /\ captured_index(i) > log_offset[i]
  /\ captured_index(i) <= last_applied[i]

\* Faulty variant: the record of a local snapshot drops the suffix.
SnapshotDropsSuffix(i) ==
  save_snapshot(disk[i], captured_index(i), term_at(i, captured_index(i)),
                capture[i].state, TRUE)

take_snapshot_image(i) ==
  save_snapshot(disk[i], captured_index(i), term_at(i, captured_index(i)),
                capture[i].state, FALSE)

\* The captured state comes back to the Raft loop, after the acknowledgements
\* that the KV loop posted before it.
TakeSnapshot(i) ==
  /\ ready(i) /\ capture[i].status = "captured"
  /\ Len(capture[i].state) <= last_applied[i]
  /\ IF takes_snapshot(i)
       THEN /\ log' = [log EXCEPT ![i] =
                         SubSeq(@, captured_index(i) - log_offset[i] + 1, Len(@))]
            /\ log_offset' = [log_offset EXCEPT ![i] = captured_index(i)]
            /\ log_offset_term' = [log_offset_term EXCEPT ![i] =
                                     term_at(i, captured_index(i))]
            /\ snapshot' = [snapshot EXCEPT ![i] = capture[i].state]
            /\ Persist(i, take_snapshot_image(i))
       ELSE UNCHANGED <<log, log_offset, log_offset_term, snapshot, disk>>
  /\ UNCHANGED <<term, voted_for, commit_index, roleVars, progress,
                 next_read_context, applyVars, envVars, elected>>
  /\ dispatch_next_committed_entry(i, apply_in_flight[i])
  /\ poll_read_indexes(i, read[i], waiting[i])
  /\ maybe_capture_snapshot(i, Idle)
  /\ flush_raft_messages({}, {})

(***************************************************************************)
(* handle_install_snapshot()                                               *)
(***************************************************************************)
snapshot_response(i, m, t, success, match) ==
  [type |-> "InstallSnapshotResponse", from |-> i, to |-> m.from, term |-> t,
   success |-> success, match_index |-> match]

\* The state is never empty: KVStore::serialize() has bytes for an empty map too.
valid_snapshot(m) ==
  /\ m.snapshot_index # 0 /\ m.snapshot_term # 0
  /\ m.snapshot_term <= m.term

\* Faulty variant: a snapshot older than what is committed may be installed.
NeverStale(i, m) == FALSE

stale_snapshot(i, m) ==
  commit_index[i] > m.snapshot_index \/ last_applied[i] >= m.snapshot_index

known_index(i) ==
  IF commit_index[i] > last_applied[i] THEN commit_index[i] ELSE last_applied[i]

\* Faulty variant: the hard state is written in place of the snapshot.
SnapshotNotSaved(i, m) ==
  save_hard_state(newer_term_image(i, m), m.term, standing_vote(i, m),
                  m.snapshot_index)

\* The durable states the handler goes through: the new term, the snapshot,
\* the commit index.
snapshot_saved_image(i, m) ==
  save_snapshot(newer_term_image(i, m), m.snapshot_index, m.snapshot_term,
                m.snapshot_data, TRUE)
install_image(i, m) ==
  save_hard_state(snapshot_saved_image(i, m), m.term, standing_vote(i, m),
                  m.snapshot_index)

\* restore_snapshot() waits for the KV loop, which first runs a capture that
\* was posted before.
capture_before_restore(i) ==
  IF capture[i] = Requested THEN serialized(i) ELSE capture[i]

\* Faulty variant: an entry on its way to the KV loop is not waited for.
InstallsDuringApply(i, m) == valid_snapshot(m) /\ ~stale_snapshot(i, m)

installs(i, m) ==
  /\ valid_snapshot(m)
  /\ ~stale_snapshot(i, m)
  /\ apply_in_flight[i] = NoApply   \* restore_snapshot() refuses otherwise

handle_install_snapshot(i, m) ==
  /\ Delivered(i, m, "InstallSnapshot")
  /\ UNCHANGED <<votes, pre_votes, progress, next_read_context,
                 pending_writes, acked, envVars, elected>>
  /\ \/ /\ m.term < term[i]
        /\ UNCHANGED <<persistVars, state, lead, quiet, pending_pre_vote_term,
                       last_applied, store, disk>>
        /\ after_raft_activity(i, read[i], {m},
                               {snapshot_response(i, m, term[i], FALSE, 0)})
     \/ /\ prepare_for_leader_rpc(i, m)
        /\ ~installs(i, m)
        /\ Persist(i, newer_term_image(i, m))
        /\ UNCHANGED <<commit_index, log, log_offset, log_offset_term,
                       snapshot, last_applied, store>>
        /\ after_raft_activity(i, read_after_leader_rpc(i, m), {m},
             {IF valid_snapshot(m) /\ stale_snapshot(i, m)
                THEN snapshot_response(i, m, m.term, TRUE, known_index(i))
                ELSE snapshot_response(i, m, m.term, FALSE, 0)})
     \/ /\ prepare_for_leader_rpc(i, m)
        /\ installs(i, m)
        /\ store' = [store EXCEPT ![i] = m.snapshot_data]
        /\ log' = [log EXCEPT ![i] = <<>>]
        /\ log_offset' = [log_offset EXCEPT ![i] = m.snapshot_index]
        /\ log_offset_term' = [log_offset_term EXCEPT ![i] = m.snapshot_term]
        /\ snapshot' = [snapshot EXCEPT ![i] = m.snapshot_data]
        /\ last_applied' = [last_applied EXCEPT ![i] = m.snapshot_index]
        /\ commit_index' = [commit_index EXCEPT ![i] = m.snapshot_index]
        /\ Persist(i, install_image(i, m))
        /\ dispatch_next_committed_entry(i, apply_in_flight[i])
        /\ poll_read_indexes(i, read_after_leader_rpc(i, m), waiting[i])
        /\ maybe_capture_snapshot(i, capture_before_restore(i))
        /\ flush_raft_messages({m},
             {snapshot_response(i, m, m.term, TRUE, m.snapshot_index)})

\* The leader learns that a follower has the snapshot; replication goes on
\* from it.  A failure is ignored: the next heartbeat sends the snapshot again.
installed(i, m) ==
  /\ Delivered(i, m, "InstallSnapshotResponse")
  /\ state[i] = "Leader" /\ m.term = term[i] /\ m.success

handle_install_snapshot_response(i, m) ==
  /\ installed(i, m)
  /\ progress' = [progress EXCEPT ![i] = progress_after(i, m)]
  /\ UNCHANGED <<persistVars, roleVars, next_read_context, applyVars, envVars,
                 disk, elected>>
  /\ after_raft_activity(i, read[i], {m},
       broadcast_heartbeat(i, log[i], progress_after(i, m), read[i]))
=============================================================================
