----------------------------- MODULE RaftState -----------------------------
(***************************************************************************)
(* The state of the cluster's Raft objects (class Raft, src/raft/raft.h),  *)
(* the parts of NodeRuntime that live on the same event loop, the WAL and  *)
(* the messages in flight, with the accessors and message constructors     *)
(* that the handlers share.                                                *)
(*                                                                         *)
(* Every variable but msgs and the history variables is a function of the  *)
(* server; a variable named after a field of the code (without its         *)
(* trailing underscore) is that field.                                     *)
(***************************************************************************)
EXTENDS Wal

CONSTANTS
  Server,             \* the static members (peers_)
  Value,              \* what a client command can be
  NoOp,               \* the empty entry that ReadIndex proposes
  SnapshotThreshold,  \* snapshot_threshold_; 0 disables capture
  Consume,            \* TRUE: a message is delivered at most once
  Supersede,          \* TRUE: a message is lost once its sender has sent
                      \* another one to the same peer
  EagerApply,         \* TRUE: committed entries are applied at once
  MaxTerm,            \* bound: no candidate goes past this term
  MaxLog,             \* bound: no entry is proposed past this index
  MaxReads,           \* bound: ReadIndex rounds opened by one process
  MaxWaiting,         \* bound: reads that may be waiting at a node
  MaxTimeouts,        \* bound: election timeouts and quiet periods in a behaviour
  MaxCrashes          \* bound: crashes in a behaviour

ASSUME ServerAssumption == IsFiniteSet(Server) /\ None \notin Server
ASSUME ValueAssumption == NoOp \notin Value
ASSUME BoundAssumption ==
  /\ SnapshotThreshold \in Nat
  /\ Consume \in BOOLEAN /\ Supersede \in BOOLEAN /\ EagerApply \in BOOLEAN
  /\ MaxTerm \in Nat /\ MaxLog \in Nat /\ MaxReads \in Nat
  /\ MaxWaiting \in Nat
  /\ MaxTimeouts \in Nat /\ MaxCrashes \in Nat

VARIABLES
  \* Raft fields that the WAL also holds
  term, voted_for, commit_index, log, log_offset, log_offset_term, snapshot,
  \* Raft fields that die with the process
  state, lead, quiet, votes, pre_votes, pending_pre_vote_term, progress,
  read, next_read_context, last_applied,
  \* NodeRuntime: the apply handoff, snapshot capture, clients, the KV state
  apply_in_flight, capture, waiting, pending_writes, store,
  \* the outside: processes, disks, messages
  up, disk, msgs, crashes, timeouts,
  \* history: elections won and the votes counted, writes acknowledged, what clients have seen
  elected, acked, observed, served

persistVars == <<term, voted_for, commit_index, log, log_offset,
                 log_offset_term, snapshot>>
ballotVars  == <<votes, pre_votes, pending_pre_vote_term>>
roleVars    == <<state, lead, quiet, ballotVars>>
readVars    == <<read, waiting, observed, served>>
applyVars   == <<last_applied, store, pending_writes, acked>>
loopVars    == <<apply_in_flight, capture, readVars>>
envVars     == <<up, crashes, timeouts>>
vars == <<persistVars, roleVars, progress, next_read_context, applyVars,
          loopVars, envVars, disk, msgs, elected>>

(***************************************************************************)
(* Values.                                                                 *)
(***************************************************************************)
State == {"Follower", "PreCandidate", "Candidate", "Leader"}
Entry == [term : Nat, data : Value \cup {NoOp}]
Progress == [match : Nat, next : Nat \ {0}]
Round == [pending : BOOLEAN, index : Nat, context : Nat, acks : SUBSET Server]
NoRead == [pending |-> FALSE, index |-> 0, context |-> 0, acks |-> {}]
NoApply == <<>>            \* apply_in_flight_ is empty

\* snapshot_capture_pending_ is false; the KV loop has been asked for its
\* state; the state is on its way back to the Raft loop.
Capture == [status : {"idle", "requested", "captured"}, state : Seq(Entry)]
Idle == [status |-> "idle", state |-> <<>>]
Requested == [status |-> "requested", state |-> <<>>]

(***************************************************************************)
(* Log accessors.  log_ is the sequence of the entries after log_offset_.  *)
(***************************************************************************)
last_log_index(i) == log_offset[i] + Len(log[i])
log_entry(i, x) == log[i][x - log_offset[i]]
last_log_term(i) ==
  IF log[i] = <<>> THEN log_offset_term[i] ELSE log[i][Len(log[i])].term

\* term_at for a given log, so that it can be used on a log just extended.
term_in(lg, off, off_term, x) ==
  IF x = 0 THEN 0
  ELSE IF x = off THEN off_term
  ELSE IF x < off \/ x > off + Len(lg) THEN 0
  ELSE lg[x - off].term
term_at(i, x) == term_in(log[i], log_offset[i], log_offset_term[i], x)

\* Faulty variant: the candidate's log is not looked at.
AnyLogWillDo(i, index, t) == TRUE

is_log_up_to_date(i, index, t) ==
  IF t # last_log_term(i)
    THEN t > last_log_term(i)
    ELSE index >= last_log_index(i)

has_committed_entry_in_current_term(i) ==
  commit_index[i] > 0 /\ term_at(i, commit_index[i]) = term[i]

\* Faulty variant: one member short of a majority is enough.
AtLeastHalf(S) == 2 * Cardinality(S) >= Cardinality(Server) - 1

\* total > peers_.size() / 2
majority(S) == 2 * Cardinality(S) > Cardinality(Server)

peers(i) == Server \ {i}

\* The Raft loop of i takes its next input.  With EagerApply no loop does
\* while an entry is on its way through the apply handoff.
ready(i) ==
  /\ up[i]
  /\ EagerApply => \A j \in Server : up[j] => apply_in_flight[j] = NoApply

(***************************************************************************)
(* Messages.                                                               *)
(***************************************************************************)
RequestVote == [type : {"RequestVote", "PreVote"}, from : Server, to : Server,
                term : Nat, last_log_index : Nat, last_log_term : Nat]
RequestVoteResponse == [type : {"RequestVoteResponse"}, from : Server,
                        to : Server, term : Nat, vote_granted : BOOLEAN]
PreVoteResponse == [type : {"PreVoteResponse"}, from : Server, to : Server,
                    term : Nat, vote_granted : BOOLEAN, pre_vote_term : Nat]
AppendEntries == [type : {"AppendEntries"}, from : Server, to : Server,
                  term : Nat, prev_log_index : Nat, prev_log_term : Nat,
                  entries : Seq(Entry), leader_commit : Nat, read_context : Nat]
AppendEntriesResponse == [type : {"AppendEntriesResponse"}, from : Server,
                          to : Server, term : Nat, success : BOOLEAN,
                          match_index : Nat, read_context : Nat]
InstallSnapshot == [type : {"InstallSnapshot"}, from : Server, to : Server,
                    term : Nat, snapshot_index : Nat, snapshot_term : Nat,
                    snapshot_data : Seq(Entry)]
InstallSnapshotResponse == [type : {"InstallSnapshotResponse"}, from : Server,
                            to : Server, term : Nat, success : BOOLEAN,
                            match_index : Nat]
Message == RequestVote \cup RequestVoteResponse \cup PreVoteResponse
           \cup AppendEntries \cup AppendEntriesResponse
           \cup InstallSnapshot \cup InstallSnapshotResponse

make_install_snapshot(i, j) ==
  [type |-> "InstallSnapshot", from |-> i, to |-> j, term |-> term[i],
   snapshot_index |-> log_offset[i], snapshot_term |-> log_offset_term[i],
   snapshot_data |-> snapshot[i]]

\* The AppendEntries that carries to j everything from next on in the log lg.
make_append_entries(i, j, lg, next, context) ==
  [type |-> "AppendEntries", from |-> i, to |-> j, term |-> term[i],
   prev_log_index |-> next - 1,
   prev_log_term |-> term_in(lg, log_offset[i], log_offset_term[i], next - 1),
   entries |-> SubSeq(lg, next - log_offset[i], Len(lg)),
   leader_commit |-> commit_index[i],
   read_context |-> context]

\* What broadcast_heartbeat() queues when the log, the progress map and the
\* pending read round are lg, pr and rd.
broadcast_heartbeat(i, lg, pr, rd) ==
  {IF pr[j].next <= log_offset[i]
     THEN make_install_snapshot(i, j)
     ELSE make_append_entries(i, j, lg, pr[j].next,
                              IF rd.pending THEN rd.context ELSE 0) :
   j \in peers(i)}
=============================================================================
