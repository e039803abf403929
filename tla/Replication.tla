---------------------------- MODULE Replication ----------------------------
(***************************************************************************)
(* Log replication: propose, AppendEntries and its response, the commit    *)
(* rule, and the hand-over of committed entries to the KV loop.            *)
(***************************************************************************)
EXTENDS Election

(***************************************************************************)
(* prepare_for_leader_rpc(): what a request of a current leader does to    *)
(* the receiver before it is looked at.  A request of an older term is     *)
(* refused and changes nothing.                                            *)
(***************************************************************************)
deposes(i, m) == m.term > term[i] \/ state[i] # "Follower"

prepare_for_leader_rpc(i, m) ==
  /\ m.term >= term[i]
  /\ term' = [term EXCEPT ![i] = m.term]
  /\ voted_for' = [voted_for EXCEPT ![i] = IF m.term > term[i] THEN None ELSE @]
  /\ state' = [state EXCEPT ![i] = "Follower"]
  /\ lead' = [lead EXCEPT ![i] = m.from]
  /\ quiet' = [quiet EXCEPT ![i] = FALSE]
  /\ pending_pre_vote_term' =
       [pending_pre_vote_term EXCEPT ![i] = IF deposes(i, m) THEN 0 ELSE @]

read_after_leader_rpc(i, m) == IF deposes(i, m) THEN NoRead ELSE read[i]

append_response(i, m, t, success, match) ==
  [type |-> "AppendEntriesResponse", from |-> i, to |-> m.from, term |-> t,
   success |-> success, match_index |-> match, read_context |-> m.read_context]

(***************************************************************************)
(* handle_append_entries()                                                 *)
(***************************************************************************)

\* Faulty variant: only the length of the log is compared.
LongEnough(i, m) == last_log_index(i) >= m.prev_log_index

log_ok(i, m) ==
  \/ m.prev_log_index = 0
  \/ /\ m.prev_log_index >= log_offset[i]
     /\ last_log_index(i) >= m.prev_log_index
     /\ term_at(i, m.prev_log_index) = m.prev_log_term

\* The k-th entry of m is not already in the log.
differs(i, m, k) ==
  LET x == m.prev_log_index + k IN
  /\ x > log_offset[i]
  /\ x > last_log_index(i) \/ term_at(i, x) # m.entries[k].term

\* k is the first entry of m to be written (one past the last if none is).
first_new(i, m, k) ==
  /\ k \in 1 .. Len(m.entries) + 1
  /\ \A l \in 1 .. k - 1 : ~differs(i, m, l)
  /\ k <= Len(m.entries) => differs(i, m, k)

\* A committed entry would be replaced: the handler gives up.
overwrites_committed(i, m, k) ==
  k <= Len(m.entries) /\ m.prev_log_index + k <= commit_index[i]

new_entries(m, k) == SubSeq(m.entries, k, Len(m.entries))

\* The log once the entries from the k-th on have been written.
spliced_log(i, m, k) ==
  IF k > Len(m.entries)
    THEN log[i]
    ELSE SubSeq(log[i], 1, m.prev_log_index + k - 1 - log_offset[i])
         \o new_entries(m, k)

\* The durable states the handler goes through: the new term, each prefix of
\* the batch of entries (one sync may tear it), and the commit index.
append_entry_images(i, m, k) ==
  {save_entries(newer_term_image(i, m), m.prev_log_index + k,
                SubSeq(m.entries, k, l)) : l \in k - 1 .. Len(m.entries)}

\* commit_index_ = min(leader_commit, last_log_index()), never backwards.
follower_commit(i, m, lg) ==
  IF m.leader_commit > commit_index[i]
    THEN IF m.leader_commit < log_offset[i] + Len(lg)
           THEN m.leader_commit
           ELSE log_offset[i] + Len(lg)
    ELSE commit_index[i]

append_entries_saved(i, m, k) ==
  save_entries(newer_term_image(i, m), m.prev_log_index + k,
               new_entries(m, k))

append_image(i, m, k, c) ==
  IF c > commit_index[i]
    THEN save_hard_state(append_entries_saved(i, m, k), m.term,
                         standing_vote(i, m), c)
    ELSE append_entries_saved(i, m, k)

handle_append_entries(i, m) ==
  /\ Delivered(i, m, "AppendEntries")
  /\ UNCHANGED <<log_offset, log_offset_term, snapshot, votes, pre_votes,
                 progress, next_read_context, applyVars, envVars, elected>>
  /\ \/ \* a request of a deposed leader
        /\ m.term < term[i]
        /\ UNCHANGED <<term, voted_for, state, lead, quiet,
                       pending_pre_vote_term, commit_index, log, disk>>
        /\ after_raft_activity(i, read[i], {m},
                               {append_response(i, m, term[i], FALSE, 0)})
     \/ \* the logs do not agree at prev_log_index
        /\ prepare_for_leader_rpc(i, m)
        /\ ~log_ok(i, m)
        /\ Persist(i, newer_term_image(i, m))
        /\ UNCHANGED <<commit_index, log>>
        /\ after_raft_activity(i, read_after_leader_rpc(i, m), {m},
                               {append_response(i, m, m.term, FALSE, 0)})
     \/ /\ prepare_for_leader_rpc(i, m)
        /\ log_ok(i, m)
        /\ \E k \in 1 .. Len(m.entries) + 1 :
             LET lg == spliced_log(i, m, k)
                 c  == follower_commit(i, m, lg) IN
             /\ first_new(i, m, k)
             /\ IF overwrites_committed(i, m, k)
                  THEN /\ Persist(i, newer_term_image(i, m))
                       /\ UNCHANGED <<commit_index, log>>
                       /\ after_raft_activity(i, read_after_leader_rpc(i, m), {m},
                            {append_response(i, m, m.term, FALSE, commit_index[i])})
                  ELSE /\ log' = [log EXCEPT ![i] = lg]
                       /\ commit_index' = [commit_index EXCEPT ![i] = c]
                       /\ Persist(i, append_image(i, m, k, c))
                       /\ after_raft_activity(i, read_after_leader_rpc(i, m), {m},
                            {append_response(i, m, m.term, TRUE,
                               m.prev_log_index + Len(m.entries))})

(***************************************************************************)
(* handle_append_entries_response(), at a leader of the response's term    *)
(***************************************************************************)
acknowledges(i, m) ==
  /\ Delivered(i, m, "AppendEntriesResponse")
  /\ state[i] = "Leader" /\ m.term = term[i]

\* Faulty variant: the follower is taken to hold the whole log.
OptimisticMatch(i, m) ==
  [progress[i] EXCEPT ![m.from] =
     [match |-> last_log_index(i), next |-> last_log_index(i) + 1]]

progress_after(i, m) ==
  [progress[i] EXCEPT ![m.from] =
     [match |-> m.match_index, next |-> m.match_index + 1]]

\* Faulty variant: an entry of an earlier term is committed by counting.
CommittableAnyTerm(i, pr) ==
  {x \in commit_index[i] + 1 .. last_log_index(i) :
     majority({i} \cup {j \in peers(i) : pr[j].match >= x})}

\* The entries of the current term that a majority holds.
committable(i, pr) ==
  {x \in commit_index[i] + 1 .. last_log_index(i) :
     /\ term_at(i, x) = term[i]
     /\ majority({i} \cup {j \in peers(i) : pr[j].match >= x})}

\* Faulty variant: any response confirms the pending round.
AnyAckConfirms(i, m) ==
  IF read[i].pending THEN [read[i] EXCEPT !.acks = @ \cup {m.from}] ELSE read[i]

\* The response confirms the pending ReadIndex round when it echoes its context.
read_after_ack(i, m) ==
  IF /\ read[i].pending /\ m.read_context # 0
     /\ m.read_context = read[i].context
    THEN [read[i] EXCEPT !.acks = @ \cup {m.from}]
    ELSE read[i]

\* Faulty variant: the new commit index is not made durable.
CommitNotSaved(i, c) == disk[i]

commit_image(i, c) ==
  IF c > commit_index[i]
    THEN save_hard_state(disk[i], term[i], voted_for[i], c)
    ELSE disk[i]

AppendAccepted(i, m) ==
  /\ acknowledges(i, m) /\ m.success
  /\ progress' = [progress EXCEPT ![i] = progress_after(i, m)]
  /\ \E c \in committable(i, progress_after(i, m)) \cup {commit_index[i]} :
       /\ \A x \in committable(i, progress_after(i, m)) : x <= c
       /\ commit_index' = [commit_index EXCEPT ![i] = c]
       /\ Persist(i, commit_image(i, c))
  /\ UNCHANGED <<term, voted_for, log, log_offset, log_offset_term, snapshot,
                 roleVars, next_read_context, applyVars, envVars, elected>>
  /\ after_raft_activity(i, read_after_ack(i, m), {m}, {})

\* The follower could not match: step back one entry and try again.
AppendRejected(i, m) ==
  LET next == IF progress[i][m.from].next > 1 THEN progress[i][m.from].next - 1
                                              ELSE progress[i][m.from].next
      pr == [progress[i] EXCEPT ![m.from].next = next] IN
  /\ acknowledges(i, m) /\ ~m.success
  /\ progress' = [progress EXCEPT ![i] = pr]
  /\ UNCHANGED <<persistVars, roleVars, next_read_context, applyVars, envVars,
                 disk, elected>>
  /\ after_raft_activity(i, read[i], {m},
       IF log_offset[i] > 0 /\ next <= log_offset[i]
         THEN {make_install_snapshot(i, m.from)}
         ELSE broadcast_heartbeat(i, log[i], pr, read[i]))

(***************************************************************************)
(* propose(), called for a client command                                  *)
(***************************************************************************)
proposal(i, data) == [term |-> term[i], data |-> data]

propose_image(i, data) ==
  save_entries(disk[i], last_log_index(i) + 1, <<proposal(i, data)>>)

Propose(i, v) ==
  LET lg == Append(log[i], proposal(i, v)) IN
  /\ ready(i) /\ state[i] = "Leader"
  /\ last_log_index(i) < MaxLog
  /\ log' = [log EXCEPT ![i] = lg]
  /\ Persist(i, propose_image(i, v))
  /\ pending_writes' = [pending_writes EXCEPT ![i] =
                          @ \cup {<<last_log_index(i) + 1, term[i]>>}]
  /\ UNCHANGED <<term, voted_for, commit_index, log_offset, log_offset_term,
                 snapshot, roleVars, progress, next_read_context,
                 last_applied, store, acked, envVars, elected>>
  /\ after_raft_activity(i, read[i], {},
                         broadcast_heartbeat(i, lg, progress[i], read[i]))

(***************************************************************************)
(* The apply handoff.  apply_committed_entry() runs on the KV loop; its    *)
(* acknowledgement is handled on the Raft loop and lets the next entry go. *)
(***************************************************************************)
ApplyCommittedEntry(i) ==
  LET x == apply_in_flight[i][1]
      e == apply_in_flight[i][2] IN
  /\ up[i] /\ apply_in_flight[i] # NoApply
  /\ x = Len(store[i]) + 1
  /\ store' = [store EXCEPT ![i] = Append(@, e)]
  /\ IF <<x, e.term>> \in pending_writes[i]
       THEN /\ acked' = acked \cup {<<x, e>>}
            /\ pending_writes' = [pending_writes EXCEPT ![i] = @ \ {<<x, e.term>>}]
            /\ observed' = IF x > observed THEN x ELSE observed
       ELSE UNCHANGED <<acked, pending_writes, observed>>
  /\ UNCHANGED <<persistVars, roleVars, progress, next_read_context,
                 last_applied, apply_in_flight, capture, read, waiting, served,
                 envVars, disk, msgs, elected>>

\* expire_client_requests(): the client is told that the outcome is unknown.
ExpireWrite(i) ==
  /\ ready(i) /\ timeouts < MaxTimeouts
  /\ timeouts' = timeouts + 1
  /\ \E w \in pending_writes[i] :
       pending_writes' = [pending_writes EXCEPT ![i] = @ \ {w}]
  /\ UNCHANGED <<persistVars, roleVars, progress, next_read_context,
                 last_applied, store, acked, loopVars, up, crashes, disk, msgs,
                 elected>>

AcknowledgeApplied(i) ==
  LET x == apply_in_flight[i][1] IN
  /\ up[i] /\ apply_in_flight[i] # NoApply
  /\ x <= Len(store[i])
  /\ x = last_applied[i] + 1 /\ x <= commit_index[i]
  /\ last_applied' = [last_applied EXCEPT ![i] = x]
  /\ UNCHANGED <<persistVars, roleVars, progress, next_read_context, store,
                 pending_writes, acked, envVars, disk, elected>>
  /\ dispatch_next_committed_entry(i, NoApply)
  /\ poll_read_indexes(i, read[i], waiting[i])
  /\ maybe_capture_snapshot(i, capture[i])
  /\ flush_raft_messages({}, {})
=============================================================================
