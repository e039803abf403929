----------------------------- MODULE ReadIndex -----------------------------
(***************************************************************************)
(* Linearizable reads: begin_read() / read_index() open or join a round,   *)
(* AppendEntries responses confirm it (read_after_ack), poll_read_indexes  *)
(* answers, and a timed-out client cancels its read.                       *)
(*                                                                         *)
(* A registered read keeps its token, whether it opened the round, and the *)
(* history value observed when the client called: an index that some       *)
(* client had by then been told about.                                     *)
(***************************************************************************)
EXTENDS Snapshots

Read == [context : Nat, index : Nat, opened : BOOLEAN, floor : Nat]

registered(rd, opened) ==
  [context |-> rd.context, index |-> rd.index, opened |-> opened,
   floor |-> observed]

round_at(i, index) ==
  [pending |-> TRUE, index |-> index, context |-> next_read_context[i],
   acks |-> {}]

\* The tail of begin_read()'s task: the read is registered, then polled.
RegisterRead(i, rd, opened, out) ==
  /\ dispatch_next_committed_entry(i, apply_in_flight[i])
  /\ poll_read_indexes(i, rd, waiting[i] \cup {registered(rd, opened)})
  /\ maybe_capture_snapshot(i, capture[i])
  /\ flush_raft_messages({}, out)

\* A round is pending: the read joins it.
JoinRead(i) ==
  /\ ready(i) /\ state[i] = "Leader" /\ read[i].pending
  /\ Cardinality(waiting[i]) < MaxWaiting
  /\ UNCHANGED <<persistVars, roleVars, progress, next_read_context,
                 applyVars, envVars, disk, elected>>
  /\ RegisterRead(i, read[i], FALSE, {})

\* A new round at the commit index.
OpenRead(i) ==
  LET rd == round_at(i, commit_index[i]) IN
  /\ ready(i) /\ state[i] = "Leader" /\ ~read[i].pending
  /\ next_read_context[i] <= MaxReads
  /\ has_committed_entry_in_current_term(i)
  /\ next_read_context' = [next_read_context EXCEPT ![i] = @ + 1]
  /\ UNCHANGED <<persistVars, roleVars, progress, applyVars, envVars, disk,
                 elected>>
  /\ RegisterRead(i, rd, TRUE, broadcast_heartbeat(i, log[i], progress[i], rd))

\* A new round at an empty entry, which has to commit first.
OpenReadWithNoOp(i) ==
  LET rd == round_at(i, last_log_index(i) + 1)
      lg == Append(log[i], proposal(i, NoOp)) IN
  /\ ready(i) /\ state[i] = "Leader" /\ ~read[i].pending
  /\ next_read_context[i] <= MaxReads
  /\ last_log_index(i) < MaxLog
  /\ ~has_committed_entry_in_current_term(i)
  /\ next_read_context' = [next_read_context EXCEPT ![i] = @ + 1]
  /\ log' = [log EXCEPT ![i] = lg]
  /\ Persist(i, propose_image(i, NoOp))
  /\ UNCHANGED <<term, voted_for, commit_index, log_offset, log_offset_term,
                 snapshot, roleVars, progress, applyVars, envVars, elected>>
  /\ RegisterRead(i, rd, TRUE, broadcast_heartbeat(i, lg, progress[i], rd))

\* Faulty variant: the round ends with the first read cancelled.
RoundAlwaysEnds(i, w) == NoRead

\* The round ends with the last of its reads.
round_after_cancel(i, w) ==
  IF /\ w.context = read[i].context /\ w.index = read[i].index
     /\ \A o \in waiting[i] \ {w} : o.context # w.context \/ o.index # w.index
    THEN NoRead
    ELSE read[i]

\* cancel_raft_read(), after the client's read timed out.
CancelRead(i, w) ==
  /\ ready(i) /\ w \in waiting[i]
  /\ waiting' = [waiting EXCEPT ![i] = @ \ {w}]
  /\ read' = [read EXCEPT ![i] = round_after_cancel(i, w)]
  /\ UNCHANGED <<persistVars, roleVars, progress, next_read_context,
                 applyVars, apply_in_flight, capture, observed, served,
                 envVars, disk, msgs, elected>>
=============================================================================
