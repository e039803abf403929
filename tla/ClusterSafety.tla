--------------------------- MODULE ClusterSafety ---------------------------
(***************************************************************************)
(* What the cluster promises.                                              *)
(***************************************************************************)
EXTENDS Cluster

\* What WAL::recover may return.
WalImageOK(d) ==
  /\ d \in [term : Nat, vote : Server \cup {None}, commit : Nat,
             snapshot : [index : Nat, term : Nat, state : Seq(Entry)],
             entries : {d.entries}]
  /\ IsFiniteSet(DOMAIN d.entries) /\ DOMAIN d.entries \subseteq Nat
  /\ d.entries \in [DOMAIN d.entries -> Entry]

\* The type of every variable.
TypeOK ==
  /\ term \in [Server -> Nat] /\ voted_for \in [Server -> Server \cup {None}]
  /\ commit_index \in [Server -> Nat] /\ log \in [Server -> Seq(Entry)]
  /\ log_offset \in [Server -> Nat] /\ log_offset_term \in [Server -> Nat]
  /\ snapshot \in [Server -> Seq(Entry)]
  /\ state \in [Server -> State] /\ lead \in [Server -> Server \cup {None}]
  /\ quiet \in [Server -> BOOLEAN]
  /\ votes \in [Server -> SUBSET Server] /\ pre_votes \in [Server -> SUBSET Server]
  /\ pending_pre_vote_term \in [Server -> Nat]
  /\ progress \in [Server -> [Server -> Progress]]
  /\ read \in [Server -> Round] /\ next_read_context \in [Server -> Nat]
  /\ waiting \in [Server -> SUBSET Read]
  /\ last_applied \in [Server -> Nat] /\ store \in [Server -> Seq(Entry)]
  /\ apply_in_flight \in [Server -> {NoApply} \cup (Nat \X Entry)]
  /\ capture \in [Server -> Capture]
  /\ pending_writes \in [Server -> SUBSET (Nat \X Nat)]
  /\ up \in [Server -> BOOLEAN]
  /\ disk = [i \in Server |-> disk[i]] /\ \A i \in Server : WalImageOK(disk[i])
  /\ msgs \subseteq Message
  /\ elected \subseteq [term : Nat, leader : Server, votes : SUBSET Server]
  /\ acked \subseteq Nat \X Entry
  /\ observed \in Nat /\ served \subseteq [opened : BOOLEAN, stale : BOOLEAN]
  /\ crashes \in Nat /\ timeouts \in Nat

(***************************************************************************)
(* Elections.                                                              *)
(***************************************************************************)

\* No two nodes ever win the election of the same term, whatever is lost,
\* delayed or reordered and wherever voters crash (handle_request_vote,
\* handle_request_vote_response, save_hard_state).
ElectionSafety == \A e, f \in elected : e.term = f.term => e.leader = f.leader

\* On disk a term never goes back, and within a term a vote is never changed,
\* crashes and torn writes included (become_follower, become_candidate,
\* handle_request_vote).
VoteStands ==
  [][\A i \in Server :
       /\ disk[i].term <= disk'[i].term
       /\ disk[i].term = disk'[i].term => disk[i].vote \in {None, disk'[i].vote}]_vars

(***************************************************************************)
(* The WAL.                                                                *)
(***************************************************************************)

\* What a restart would recover is exactly what the running node holds: term,
\* vote, commit index, log and snapshot (every save_* call of raft.cpp).
DurableMatchesMemory ==
  \A i \in Server : up[i] =>
    /\ disk[i].term = term[i] /\ disk[i].vote = voted_for[i]
    /\ restored_commit(disk[i]) = commit_index[i]
    /\ restored_log(disk[i]) = log[i]
    /\ disk[i].snapshot = [index |-> log_offset[i], term |-> log_offset_term[i],
                           state |-> snapshot[i]]

\* At whatever point a node dies, Raft::restore accepts the WAL it leaves: no
\* index gap and no committed entry missing.
Recoverable == \A i \in Server : restorable(disk[i])

\* The entry that WAL image d has at index x, covered by the snapshot or not.
durable_entry(d, x) ==
  IF x <= d.snapshot.index THEN d.snapshot.state[x] ELSE d.entries[x]

(***************************************************************************)
(* Logs and state machines.                                                *)
(***************************************************************************)
holds(i, x) == log_offset[i] < x /\ x <= last_log_index(i)

\* Two logs that have an entry of the same term at an index have the same
\* entries up to it (handle_append_entries).
LogMatching ==
  \A i, j \in Server : \A x \in 1 .. last_log_index(i) :
    /\ holds(i, x) /\ holds(j, x)
    /\ log_entry(i, x).term = log_entry(j, x).term
    => \A y \in 1 .. x :
         holds(i, y) /\ holds(j, y) => log_entry(i, y) = log_entry(j, y)

\* A leader has every entry that a node of its term or an earlier one knows to
\* be committed (is_log_up_to_date, the current-term rule of
\* handle_append_entries_response).
LeaderCompleteness ==
  \A i, j \in Server :
    state[i] = "Leader" /\ up[j] /\ term[j] <= term[i] =>
      \A x \in 1 .. commit_index[j] :
        /\ x <= last_log_index(i)
        /\ holds(i, x) /\ holds(j, x) => log_entry(i, x) = log_entry(j, x)

\* The last index and term that WAL image d gives a restarted node.
durable_last(d) == d.snapshot.index + Cardinality(retained(d))
durable_last_term(d) ==
  IF retained(d) = {} THEN d.snapshot.term ELSE d.entries[durable_last(d)].term

\* i's log is at least as up to date as the durable logs of a majority.
Electable(i) ==
  majority({j \in Server :
    \/ durable_last_term(disk[i]) > durable_last_term(disk[j])
    \/ /\ durable_last_term(disk[i]) = durable_last_term(disk[j])
       /\ durable_last(disk[i]) >= durable_last(disk[j])})

\* Whoever could win an election now, alive or after a restart, has every
\* entry any node has made durable as committed (is_log_up_to_date, the
\* current-term rule of handle_append_entries_response, the WAL batches).
ElectableHaveCommitted ==
  \A i, j \in Server : Electable(i) =>
    \A x \in 1 .. restored_commit(disk[j]) :
      /\ x <= durable_last(disk[i])
      /\ durable_entry(disk[i], x) = durable_entry(disk[j], x)

\* A write acknowledged to its client is durable on a majority of the WALs.
AckedOnMajority ==
  \A a \in acked :
    majority({i \in Server :
                /\ a[1] <= restored_commit(disk[i]) \/ a[1] \in DOMAIN disk[i].entries
                /\ durable_entry(disk[i], a[1]) = a[2]})

\* "A write returns success after durable majority replication" (README.md), so
\* no majority can elect a leader without it: whoever could win an election now
\* has every acknowledged write (is_log_up_to_date, handle_install_snapshot).
AckedNeverLost ==
  \A a \in acked, i \in Server : Electable(i) =>
    a[1] <= durable_last(disk[i]) /\ durable_entry(disk[i], a[1]) = a[2]

\* The four indices of a node are in order, so that log_entry() is only asked
\* for an entry that log_ holds (take_snapshot, acknowledge_applied,
\* handle_append_entries, handle_install_snapshot, restore).
IndicesInOrder ==
  \A i \in Server :
    /\ log_offset[i] <= last_applied[i]
    /\ last_applied[i] <= commit_index[i]
    /\ commit_index[i] <= last_log_index(i)

\* The apply handoff never has to stop the node: the entry in flight is the
\* one after last_applied_, the KV state is at it or just before it, and with
\* none in flight the two loops agree (apply_committed_entry,
\* acknowledge_applied, restore_snapshot).
ApplyInOrder ==
  \A i \in Server :
    IF apply_in_flight[i] = NoApply
      THEN Len(store[i]) = last_applied[i]
      ELSE /\ apply_in_flight[i][1] = last_applied[i] + 1
           /\ apply_in_flight[i][1] <= commit_index[i]
           /\ Len(store[i]) \in {last_applied[i], last_applied[i] + 1}

(***************************************************************************)
(* Reads.                                                                  *)
(***************************************************************************)

\* No registered read is left on a round that is no longer pending
\* (read_index, finish_read_index, cancel_raft_read, become_follower).
ReadsShareTheRound ==
  \A i \in Server : \A w \in waiting[i] :
    read[i].pending /\ w.context = read[i].context /\ w.index = read[i].index

\* A read that opened its round returns a state no older than any state a
\* client had been told of when the read began.
OpenedReadsLinearizable == \A r \in served : r.opened => ~r.stale

\* "Linearizable reads" (raft.h): so does every read.
LinearizableReads == \A r \in served : ~r.stale
=============================================================================
