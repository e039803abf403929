------------------------------ MODULE Cluster ------------------------------
(***************************************************************************)
(* The cluster: every handler of every node, crashes at any point of a     *)
(* handler, and restarts from the WAL.                                     *)
(*                                                                         *)
(* Messages.  msgs is the set of messages handed to the transport.  It may *)
(* deliver them in any order, late or never; with Consume = FALSE also     *)
(* more than once, which is more than src/transport does.                  *)
(* Supersede narrows it to networks that lose a message once its sender    *)
(* has sent the same peer another one, and EagerApply narrows the          *)
(* schedules to those where the KV loop keeps up.                          *)
(***************************************************************************)
EXTENDS ReadIndex

(***************************************************************************)
(* Crash and restart.                                                      *)
(***************************************************************************)

\* What the WAL of i may hold if the process dies, or a sync fails, while an
\* input is handled: the records before its last sync, or a torn prefix of
\* the batch.  Nothing has been sent then.
torn_append_images(i, m) ==
  UNION {append_entry_images(i, m, k) :
           k \in {l \in 1 .. Len(m.entries) :
                    /\ m.term >= term[i] /\ log_ok(i, m) /\ first_new(i, m, l)
                    /\ ~overwrites_committed(i, m, l)}}
torn_install_images(i, m) ==
  IF m.term >= term[i] /\ installs(i, m) THEN {snapshot_saved_image(i, m)} ELSE {}

crash_images(i) ==
  {disk[i]}
  \cup {newer_term_image(i, m) : m \in
         {n \in msgs : n.to = i /\ n.type \in
                       {"RequestVote", "AppendEntries", "InstallSnapshot"}}}
  \cup (UNION {torn_append_images(i, m) : m \in
         {n \in msgs : Delivered(i, n, "AppendEntries")}})
  \cup (UNION {torn_install_images(i, m) : m \in
         {n \in msgs : Delivered(i, n, "InstallSnapshot")}})

\* The memory of the process is gone; its WAL is left as one of the images.
Crash(i) ==
  /\ ready(i) /\ crashes < MaxCrashes
  /\ crashes' = crashes + 1
  /\ up' = [up EXCEPT ![i] = FALSE]
  /\ \E d \in crash_images(i) : disk' = [disk EXCEPT ![i] = d]
  /\ term' = [term EXCEPT ![i] = 0]
  /\ voted_for' = [voted_for EXCEPT ![i] = None]
  /\ commit_index' = [commit_index EXCEPT ![i] = 0]
  /\ log' = [log EXCEPT ![i] = <<>>]
  /\ log_offset' = [log_offset EXCEPT ![i] = 0]
  /\ log_offset_term' = [log_offset_term EXCEPT ![i] = 0]
  /\ snapshot' = [snapshot EXCEPT ![i] = <<>>]
  /\ state' = [state EXCEPT ![i] = "Follower"]
  /\ lead' = [lead EXCEPT ![i] = None]
  /\ quiet' = [quiet EXCEPT ![i] = FALSE]
  /\ votes' = [votes EXCEPT ![i] = {}]
  /\ pre_votes' = [pre_votes EXCEPT ![i] = {}]
  /\ pending_pre_vote_term' = [pending_pre_vote_term EXCEPT ![i] = 0]
  /\ progress' = [progress EXCEPT ![i] = [j \in Server |-> [match |-> 0, next |-> 1]]]
  /\ next_read_context' = [next_read_context EXCEPT ![i] = 1]
  /\ read' = [read EXCEPT ![i] = NoRead]
  /\ waiting' = [waiting EXCEPT ![i] = {}]
  /\ last_applied' = [last_applied EXCEPT ![i] = 0]
  /\ store' = [store EXCEPT ![i] = <<>>]
  /\ pending_writes' = [pending_writes EXCEPT ![i] = {}]
  /\ apply_in_flight' = [apply_in_flight EXCEPT ![i] = NoApply]
  /\ capture' = [capture EXCEPT ![i] = Idle]
  /\ UNCHANGED <<timeouts, msgs, elected, acked, observed, served>>

\* recover_storage() and Raft::restore(): the snapshot is loaded and the
\* committed suffix replayed.
Restart(i) ==
  LET d == disk[i] IN
  /\ ~up[i] /\ restorable(d)
  /\ up' = [up EXCEPT ![i] = TRUE]
  /\ term' = [term EXCEPT ![i] = d.term]
  /\ voted_for' = [voted_for EXCEPT ![i] = d.vote]
  /\ commit_index' = [commit_index EXCEPT ![i] = restored_commit(d)]
  /\ log' = [log EXCEPT ![i] = restored_log(d)]
  /\ log_offset' = [log_offset EXCEPT ![i] = d.snapshot.index]
  /\ log_offset_term' = [log_offset_term EXCEPT ![i] = d.snapshot.term]
  /\ snapshot' = [snapshot EXCEPT ![i] = d.snapshot.state]
  /\ last_applied' = [last_applied EXCEPT ![i] = restored_commit(d)]
  /\ store' = [store EXCEPT ![i] = d.snapshot.state \o
       SubSeq(restored_log(d), 1, restored_commit(d) - d.snapshot.index)]
  /\ UNCHANGED <<roleVars, progress, next_read_context, pending_writes, acked,
                 loopVars, crashes, timeouts, disk, msgs, elected>>

(***************************************************************************)
(* The specification.                                                      *)
(***************************************************************************)
Init ==
  /\ term = [i \in Server |-> 0]
  /\ voted_for = [i \in Server |-> None]
  /\ commit_index = [i \in Server |-> 0]
  /\ log = [i \in Server |-> <<>>]
  /\ log_offset = [i \in Server |-> 0]
  /\ log_offset_term = [i \in Server |-> 0]
  /\ snapshot = [i \in Server |-> <<>>]
  /\ state = [i \in Server |-> "Follower"]
  /\ lead = [i \in Server |-> None]
  /\ quiet = [i \in Server |-> FALSE]
  /\ votes = [i \in Server |-> {}]
  /\ pre_votes = [i \in Server |-> {}]
  /\ pending_pre_vote_term = [i \in Server |-> 0]
  /\ progress = [i \in Server |-> [j \in Server |-> [match |-> 0, next |-> 1]]]
  /\ next_read_context = [i \in Server |-> 1]
  /\ read = [i \in Server |-> NoRead]
  /\ waiting = [i \in Server |-> {}]
  /\ last_applied = [i \in Server |-> 0]
  /\ store = [i \in Server |-> <<>>]
  /\ pending_writes = [i \in Server |-> {}]
  /\ apply_in_flight = [i \in Server |-> NoApply]
  /\ capture = [i \in Server |-> Idle]
  /\ up = [i \in Server |-> TRUE]
  /\ disk = [i \in Server |-> EmptyWal]
  /\ msgs = {} /\ crashes = 0 /\ timeouts = 0
  /\ elected = {} /\ acked = {} /\ observed = 0 /\ served = {}

\* A response that its handler returns from without doing anything: of an
\* older term or round, to a node that has another role by now, or a refusal
\* to install a snapshot.
IgnoreResponse(i, m) ==
  /\ m.type \in ResponseType /\ m.to = i /\ ready(i)
  /\ m.term <= term[i]
  /\ ~counts_vote(i, m) /\ ~counts_pre_vote(i, m)
  /\ ~acknowledges(i, m) /\ ~installed(i, m)
  /\ UNCHANGED <<persistVars, roleVars, progress, next_read_context,
                 applyVars, envVars, disk, elected>>
  /\ after_raft_activity(i, read[i], {m}, {})

\* handle_raft_message()
Receive(i, m) ==
  \/ StepDown(i, m)
  \/ handle_request_vote(i, m)
  \/ handle_request_vote_response(i, m)
  \/ handle_pre_vote(i, m)
  \/ handle_pre_vote_response(i, m)
  \/ handle_append_entries(i, m)
  \/ AppendAccepted(i, m)
  \/ AppendRejected(i, m)
  \/ handle_install_snapshot(i, m)
  \/ handle_install_snapshot_response(i, m)
  \/ IgnoreResponse(i, m)

Next ==
  \E i \in Server :
    \/ \E m \in msgs : Receive(i, m)
    \/ TickLeader(i)
    \/ TickIdle(i)
    \/ TickQuiet(i)
    \/ TickElection(i)
    \/ \E v \in Value : Propose(i, v)
    \/ ApplyCommittedEntry(i)
    \/ AcknowledgeApplied(i)
    \/ ExpireWrite(i)
    \/ CaptureSnapshot(i)
    \/ TakeSnapshot(i)
    \/ JoinRead(i)
    \/ OpenRead(i)
    \/ OpenReadWithNoOp(i)
    \/ \E w \in waiting[i] : CancelRead(i, w)
    \/ Crash(i)
    \/ Restart(i)

Spec == Init /\ [][Next]_vars
=============================================================================
