------------------------------ MODULE Election ------------------------------
(***************************************************************************)
(* Elections: the timers, PreVote, RequestVote and stepping down.          *)
(*                                                                         *)
(* Time.  quiet[i] is election_elapsed_ >= election_timeout_.  A timer     *)
(* fires at a random number of ticks in [election_timeout_,                *)
(* 2 * election_timeout_), so a non-leader's tick may turn quiet on, start *)
(* an election, or do neither.                                             *)
(***************************************************************************)
EXTENDS RaftLoop

ResponseType == {"RequestVoteResponse", "PreVoteResponse",
                 "AppendEntriesResponse", "InstallSnapshotResponse"}

\* The record become_follower() makes durable when the term advances.
step_down_image(i, t) == save_hard_state(disk[i], t, None, commit_index[i])

\* Every response handler starts by stepping down on a newer term.
StepDown(i, m) ==
  /\ m.type \in ResponseType /\ m.to = i /\ ready(i)
  /\ m.term > term[i]
  /\ term' = [term EXCEPT ![i] = m.term]
  /\ voted_for' = [voted_for EXCEPT ![i] = None]
  /\ state' = [state EXCEPT ![i] = "Follower"]
  /\ lead' = [lead EXCEPT ![i] = None]
  /\ quiet' = [quiet EXCEPT ![i] = FALSE]
  /\ pending_pre_vote_term' = [pending_pre_vote_term EXCEPT ![i] = 0]
  /\ Persist(i, step_down_image(i, m.term))
  /\ UNCHANGED <<commit_index, log, log_offset, log_offset_term, snapshot,
                 votes, pre_votes, progress, next_read_context, applyVars,
                 envVars, elected>>
  /\ after_raft_activity(i, NoRead, {m}, {})

(***************************************************************************)
(* tick()                                                                  *)
(***************************************************************************)
TickLeader(i) ==
  /\ ready(i) /\ state[i] = "Leader"
  /\ UNCHANGED <<persistVars, roleVars, progress, next_read_context,
                 applyVars, envVars, disk, elected>>
  /\ after_raft_activity(i, read[i], {},
                         broadcast_heartbeat(i, log[i], progress[i], read[i]))

\* A tick of a non-leader before either timeout: what is left to do, such as the
\* snapshot that is due after a restart, is done.
TickIdle(i) ==
  /\ ready(i) /\ state[i] # "Leader"
  /\ UNCHANGED <<persistVars, roleVars, progress, next_read_context,
                 applyVars, envVars, disk, elected>>
  /\ after_raft_activity(i, read[i], {}, {})

TickQuiet(i) ==
  /\ ready(i) /\ state[i] # "Leader" /\ ~quiet[i]
  /\ timeouts < MaxTimeouts /\ timeouts' = timeouts + 1
  /\ quiet' = [quiet EXCEPT ![i] = TRUE]
  /\ UNCHANGED <<persistVars, state, lead, ballotVars, progress,
                 next_read_context, applyVars, up, crashes, disk, elected>>
  /\ after_raft_activity(i, read[i], {}, {})

\* Faulty variant: a zero-based last index.
RequestVoteZeroBased(i, j, type, t) ==
  [type |-> type, from |-> i, to |-> j, term |-> t,
   last_log_index |-> last_log_index(i) - 1, last_log_term |-> last_log_term(i)]

request_vote(i, j, type, t) ==
  [type |-> type, from |-> i, to |-> j, term |-> t,
   last_log_index |-> last_log_index(i), last_log_term |-> last_log_term(i)]

\* become_pre_candidate() and pre_campaign().
TickElection(i) ==
  /\ ready(i) /\ state[i] # "Leader"
  /\ term[i] < MaxTerm
  /\ timeouts < MaxTimeouts /\ timeouts' = timeouts + 1
  /\ state' = [state EXCEPT ![i] = "PreCandidate"]
  /\ lead' = [lead EXCEPT ![i] = None]
  /\ quiet' = [quiet EXCEPT ![i] = FALSE]
  /\ pre_votes' = [pre_votes EXCEPT ![i] = {i}]
  /\ pending_pre_vote_term' = [pending_pre_vote_term EXCEPT ![i] = term[i] + 1]
  /\ UNCHANGED <<persistVars, votes, progress, next_read_context, applyVars,
                 up, crashes, disk, elected>>
  /\ after_raft_activity(i, read[i], {},
       {request_vote(i, j, "PreVote", term[i] + 1) : j \in peers(i)})

(***************************************************************************)
(* PreVote                                                                 *)
(***************************************************************************)
grants_pre_vote(i, m) ==
  /\ m.term > term[i]
  /\ lead[i] = None \/ quiet[i]
  /\ is_log_up_to_date(i, m.last_log_index, m.last_log_term)

handle_pre_vote(i, m) ==
  /\ Delivered(i, m, "PreVote")
  /\ UNCHANGED <<persistVars, roleVars, progress, next_read_context,
                 applyVars, envVars, disk, elected>>
  /\ after_raft_activity(i, read[i], {m},
       {[type |-> "PreVoteResponse", from |-> i, to |-> m.from,
         term |-> term[i], vote_granted |-> grants_pre_vote(i, m),
         pre_vote_term |-> m.term]})

\* The record become_candidate() makes durable.
candidate_image(i) ==
  save_hard_state(disk[i], term[i] + 1, i, commit_index[i])

\* become_candidate() and campaign(), on a majority of pre-votes.
become_candidate(i) ==
  /\ state' = [state EXCEPT ![i] = "Candidate"]
  /\ term' = [term EXCEPT ![i] = @ + 1]
  /\ lead' = [lead EXCEPT ![i] = None]
  /\ voted_for' = [voted_for EXCEPT ![i] = i]
  /\ votes' = [votes EXCEPT ![i] = {i}]
  /\ pending_pre_vote_term' = [pending_pre_vote_term EXCEPT ![i] = 0]
  /\ quiet' = [quiet EXCEPT ![i] = FALSE]
  /\ Persist(i, candidate_image(i))

\* A response to the current round of pre-votes.
counts_pre_vote(i, m) ==
  /\ Delivered(i, m, "PreVoteResponse")
  /\ m.term <= term[i]
  /\ state[i] = "PreCandidate"
  /\ m.pre_vote_term # 0 /\ m.pre_vote_term = pending_pre_vote_term[i]

handle_pre_vote_response(i, m) ==
  LET granted == IF m.vote_granted THEN pre_votes[i] \cup {m.from}
                                   ELSE pre_votes[i] IN
  /\ counts_pre_vote(i, m)
  /\ pre_votes' = [pre_votes EXCEPT ![i] = granted]
  /\ UNCHANGED <<commit_index, log, log_offset, log_offset_term, snapshot,
                 progress, next_read_context, applyVars, envVars, elected>>
  /\ \/ /\ ~majority(granted)
        /\ UNCHANGED <<term, voted_for, state, lead, quiet, votes,
                       pending_pre_vote_term, disk>>
        /\ after_raft_activity(i, read[i], {m}, {})
     \/ /\ majority(granted)
        /\ become_candidate(i)
        /\ after_raft_activity(i, read[i], {m},
             {request_vote(i, j, "RequestVote", term[i] + 1) : j \in peers(i)})

(***************************************************************************)
(* RequestVote                                                             *)
(***************************************************************************)
vote_term(i, m) == IF m.term > term[i] THEN m.term ELSE term[i]

\* Faulty variant: every RequestVote clears the vote.
VoteForgotten(i, m) == None

standing_vote(i, m) == IF m.term > term[i] THEN None ELSE voted_for[i]

\* Faulty variant: the vote already cast in this term is forgotten.
GrantsRepeatedly(i, m) ==
  /\ m.term >= term[i]
  /\ is_log_up_to_date(i, m.last_log_index, m.last_log_term)

grants_vote(i, m) ==
  /\ m.term >= term[i]
  /\ standing_vote(i, m) \in {None, m.from}
  /\ is_log_up_to_date(i, m.last_log_index, m.last_log_term)

\* The durable states the handler goes through: the new term, then the vote.
newer_term_image(i, m) ==
  IF m.term > term[i] THEN step_down_image(i, m.term) ELSE disk[i]

\* Faulty variant: the vote is answered but never written.
VoteNotSaved(i, m) == newer_term_image(i, m)

vote_image(i, m) ==
  IF grants_vote(i, m)
    THEN save_hard_state(newer_term_image(i, m), vote_term(i, m), m.from,
                         commit_index[i])
    ELSE newer_term_image(i, m)

handle_request_vote(i, m) ==
  LET newer == m.term > term[i]
      granted == grants_vote(i, m) IN
  /\ Delivered(i, m, "RequestVote")
  /\ term' = [term EXCEPT ![i] = vote_term(i, m)]
  /\ voted_for' = [voted_for EXCEPT ![i] =
                     IF granted THEN m.from ELSE standing_vote(i, m)]
  /\ state' = [state EXCEPT ![i] = IF newer THEN "Follower" ELSE @]
  /\ lead' = [lead EXCEPT ![i] = IF newer THEN None ELSE @]
  /\ pending_pre_vote_term' =
       [pending_pre_vote_term EXCEPT ![i] = IF newer THEN 0 ELSE @]
  /\ quiet' = [quiet EXCEPT ![i] = IF newer \/ granted THEN FALSE ELSE @]
  /\ Persist(i, vote_image(i, m))
  /\ UNCHANGED <<commit_index, log, log_offset, log_offset_term, snapshot,
                 votes, pre_votes, progress, next_read_context, applyVars,
                 envVars, elected>>
  /\ after_raft_activity(i, IF newer THEN NoRead ELSE read[i], {m},
       {[type |-> "RequestVoteResponse", from |-> i, to |-> m.from,
         term |-> vote_term(i, m), vote_granted |-> granted]})

\* become_leader(): the progress map starts over.
fresh_progress(i) ==
  [j \in Server |-> [match |-> 0, next |-> last_log_index(i) + 1]]

counts_vote(i, m) ==
  /\ Delivered(i, m, "RequestVoteResponse")
  /\ m.term = term[i]
  /\ state[i] = "Candidate"

handle_request_vote_response(i, m) ==
  LET granted == IF m.vote_granted THEN votes[i] \cup {m.from} ELSE votes[i] IN
  /\ counts_vote(i, m)
  /\ votes' = [votes EXCEPT ![i] = granted]
  /\ UNCHANGED <<persistVars, quiet, pre_votes, pending_pre_vote_term,
                 next_read_context, applyVars, envVars, disk>>
  /\ \/ /\ ~majority(granted)
        /\ UNCHANGED <<state, lead, progress, elected>>
        /\ after_raft_activity(i, read[i], {m}, {})
     \/ /\ majority(granted)
        /\ state' = [state EXCEPT ![i] = "Leader"]
        /\ lead' = [lead EXCEPT ![i] = i]
        /\ progress' = [progress EXCEPT ![i] = fresh_progress(i)]
        /\ elected' = elected \cup
             {[term |-> term[i], leader |-> i, votes |-> granted]}
        /\ after_raft_activity(i, read[i], {m},
             broadcast_heartbeat(i, log[i], fresh_progress(i), read[i]))
=============================================================================
