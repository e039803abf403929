--------------------------- MODULE ElectionProofs ---------------------------
(***************************************************************************)
(* At most one leader is elected in a term, and a durable vote stands.     *)
(*                                                                         *)
(* The argument.  A vote is "cast" once it is on its way to the candidate, *)
(* counted by a candidate of that term, or counted in an election won.     *)
(* Every vote cast is covered by the WAL of the voter: its durable term is *)
(* later, or it is that term and the durable vote is for that candidate.   *)
(* So a voter casts one vote in a term, whatever crashes in between, and   *)
(* two elections of a term, won with two majorities, share a voter.        *)
(***************************************************************************)
EXTENDS TypeProofs

\* The default prover; leaves with arithmetic or records cite SMT.
USE Zenon

Answered(n, t, c) ==
  \E m \in msgs : /\ m.type = "RequestVoteResponse" /\ m.vote_granted
                  /\ m.from = n /\ m.to = c /\ m.term = t
Counted(n, t, c) == state[c] = "Candidate" /\ term[c] = t /\ n \in votes[c]
Won(n, t, c) == \E e \in elected : e.term = t /\ e.leader = c /\ n \in e.votes
Cast(n, t, c) == Answered(n, t, c) \/ Counted(n, t, c) \/ Won(n, t, c)

promised(n, t, c) ==
  disk[n].term > t \/ (disk[n].term = t /\ disk[n].vote = c)

\* The inductive invariant.
BallotsDurable ==
  \A i \in Server : up[i] => term[i] = disk[i].term /\ voted_for[i] = disk[i].vote
DownIsFollower == \A i \in Server : ~up[i] => state[i] = "Follower"
CastIsPromised ==
  \A n, c \in Server : \A t \in Nat : Cast(n, t, c) => promised(n, t, c)
CastOnce ==
  \A n, c, b \in Server : \A t \in Nat : Cast(n, t, c) /\ Cast(n, t, b) => c = b
WonByMajority == \A e \in elected : majority(e.votes)
BallotInv ==
  BallotsDurable /\ DownIsFollower /\ CastIsPromised /\ CastOnce /\ WonByMajority

(***************************************************************************)
(* What a step of node i may do to the ballots.                            *)
(***************************************************************************)
OthersKept(i) ==
  \A n \in Server \ {i} :
    /\ disk'[n] = disk[n] /\ up'[n] = up[n]
    /\ term'[n] = term[n] /\ voted_for'[n] = voted_for[n]
    /\ state'[n] = state[n] /\ votes'[n] = votes[n]
VoteKept(i) ==
  /\ disk[i].term <= disk'[i].term
  /\ disk[i].term = disk'[i].term => disk[i].vote \in {None, disk'[i].vote}
BallotSaved(i) ==
  /\ up'[i] => term'[i] = disk'[i].term /\ voted_for'[i] = disk'[i].vote
  /\ ~up'[i] => state'[i] = "Follower"
AnswersSaved(i) ==
  \A m \in msgs' :
    \/ m \in msgs \/ m.type # "RequestVoteResponse" \/ ~m.vote_granted
    \/ m.from = i /\ m.term = disk'[i].term /\ m.to = disk'[i].vote
CountsCast(i) ==
  state'[i] = "Candidate" =>
    \A n \in votes'[i] :
      \/ Cast(n, term'[i], i)
      \/ n = i /\ disk'[i].term = term'[i] /\ disk'[i].vote = i
WinsByCast ==
  \A e \in elected' \ elected :
    majority(e.votes) /\ \A n \in e.votes : Cast(n, e.term, e.leader)
BallotStep(i) ==
  /\ OthersKept(i) /\ VoteKept(i) /\ BallotSaved(i) /\ AnswersSaved(i)
  /\ CountsCast(i) /\ WinsByCast

\* The types of what the invariant speaks of.
LEMMA BallotTypes ==
  ASSUME TypeInv
  PROVE  /\ \A n \in Server : /\ term[n] \in Nat /\ voted_for[n] \in Server \cup {None}
                              /\ disk[n].term \in Nat /\ disk[n].vote \in Server \cup {None}
                              /\ commit_index[n] \in Nat /\ WalImageOK(disk[n])
                              /\ votes[n] \subseteq Server
         /\ \A m \in msgs : m \in Message /\ m.term \in Nat /\ m.from \in Server
                            /\ m.to \in Server
         /\ \A e \in elected : e.term \in Nat /\ e.leader \in Server
                               /\ e.votes \subseteq Server
<1>1. PersistOK /\ RoleOK /\ LoopOK /\ WalsOK
  BY InvGroups
<1>2. \A n \in Server : WalImageOK(disk[n])
  BY <1>1 DEF WalsOK
<1>3. \A n \in Server : disk[n].term \in Nat /\ disk[n].vote \in Server \cup {None}
  BY <1>2 DEF WalImageOK
<1>4. \A n \in Server : /\ term[n] \in Nat /\ voted_for[n] \in Server \cup {None}
                        /\ commit_index[n] \in Nat /\ votes[n] \subseteq Server
  BY <1>1 DEF PersistOK, RoleOK
<1>5. \A m \in msgs : m \in Message /\ m.term \in Nat /\ m.from \in Server
                      /\ m.to \in Server
  BY <1>1, MessageKinds DEF LoopOK
<1>6. \A e \in elected : e.term \in Nat /\ e.leader \in Server /\ e.votes \subseteq Server
  BY <1>1 DEF RoleOK
<1> QED BY <1>2, <1>3, <1>4, <1>5, <1>6

\* A vote that is cast after the step was cast before it, or is the one that
\* the step has made durable.
LEMMA NewlyCast ==
  ASSUME TypeInv, NEW i \in Server, BallotStep(i),
         NEW n \in Server, NEW c \in Server, NEW t \in Nat, Cast(n, t, c)'
  PROVE  Cast(n, t, c) \/ (disk'[n].term = t /\ disk'[n].vote = c)
<1>1. CASE Answered(n, t, c)'
  <2>1. PICK m \in msgs' : /\ m.type = "RequestVoteResponse" /\ m.vote_granted
                           /\ m.from = n /\ m.to = c /\ m.term = t
    BY <1>1 DEF Answered
  <2>2. CASE m \in msgs
    BY <2>1, <2>2 DEF Cast, Answered
  <2>3. CASE m \notin msgs
    BY <2>1, <2>3 DEF BallotStep, AnswersSaved
  <2> QED BY <2>2, <2>3
<1>2. CASE Counted(n, t, c)'
  <2>1. state'[c] = "Candidate" /\ term'[c] = t /\ n \in votes'[c]
    BY <1>2 DEF Counted
  <2>2. CASE c = i
    BY <2>1, <2>2 DEF BallotStep, CountsCast
  <2>3. CASE c # i
    BY <2>1, <2>3 DEF BallotStep, OthersKept, Cast, Counted
  <2> QED BY <2>2, <2>3
<1>3. CASE Won(n, t, c)'
  <2>1. PICK e \in elected' : e.term = t /\ e.leader = c /\ n \in e.votes
    BY <1>3 DEF Won
  <2>2. CASE e \in elected
    BY <2>1, <2>2 DEF Cast, Won
  <2>3. CASE e \notin elected
    BY <2>1, <2>3 DEF BallotStep, WinsByCast
  <2> QED BY <2>2, <2>3
<1> QED BY <1>1, <1>2, <1>3 DEF Cast

\* A step of this kind keeps the invariant, and the durable votes.
LEMMA BallotStepKeepsInv ==
  ASSUME TypeInv, TypeInv', BallotInv, NEW i \in Server, BallotStep(i)
  PROVE  BallotInv' /\ \A n \in Server : VoteKept(n)
<1>1. \A n \in Server : VoteKept(n)
  BY SMT, BallotTypes DEF BallotStep, OthersKept, VoteKept
<1>2. BallotsDurable' /\ DownIsFollower'
  BY DEF BallotInv, BallotsDurable, DownIsFollower, BallotStep, OthersKept, BallotSaved
<1>3. ASSUME NEW n \in Server, NEW c \in Server, NEW t \in Nat, Cast(n, t, c)'
      PROVE  promised(n, t, c)'
  <2>1. CASE Cast(n, t, c)
    <3>1. promised(n, t, c)
      BY <2>1 DEF BallotInv, CastIsPromised
    <3>2. VoteKept(n) /\ None \notin Server
      BY <1>1, ServerAssumption
    <3>3. disk[n].term \in Nat /\ disk'[n].term \in Nat
      <4>1. WalsOK'
        BY TypeGroups DEF TypeInv, TypeOK, WalsOK
      <4>2. WalImageOK(disk'[n])
        BY <4>1 DEF WalsOK
      <4> QED BY <4>2, BallotTypes DEF WalImageOK
    <3> QED BY SMT, <3>1, <3>2, <3>3 DEF promised, VoteKept
  <2>2. CASE disk'[n].term = t /\ disk'[n].vote = c
    BY <2>2 DEF promised
  <2> QED BY <1>3, <2>1, <2>2, NewlyCast
<1>4. CastIsPromised'
  BY <1>3 DEF CastIsPromised
<1>5. ASSUME NEW n \in Server, NEW c \in Server, NEW b \in Server, NEW t \in Nat,
             Cast(n, t, c)', Cast(n, t, b)'
      PROVE  c = b
  <2>1. CASE Cast(n, t, c) /\ Cast(n, t, b)
    BY <2>1 DEF BallotInv, CastOnce
  <2>2. CASE disk'[n].term = t /\ disk'[n].vote = c
    BY SMT, <1>3, <1>5, <2>2 DEF promised
  <2>3. CASE disk'[n].term = t /\ disk'[n].vote = b
    BY SMT, <1>3, <1>5, <2>3 DEF promised
  <2> QED BY <1>5, <2>1, <2>2, <2>3, NewlyCast
<1>6. CastOnce'
  BY <1>5 DEF CastOnce
<1>7. WonByMajority'
  BY DEF WonByMajority, BallotInv, BallotStep, WinsByCast
<1> QED BY <1>1, <1>2, <1>4, <1>6, <1>7 DEF BallotInv

(***************************************************************************)
(* The ballot in a WAL image.                                              *)
(***************************************************************************)

\* A hard state that is not empty is the one recover() returns.
LEMMA HardStateBallot ==
  ASSUME NEW d, WalImageOK(d), NEW t, NEW v, NEW c, t # 0 \/ v # None \/ c # 0
  PROVE  save_hard_state(d, t, v, c).term = t /\ save_hard_state(d, t, v, c).vote = v
  BY DEF save_hard_state, WalImageOK

\* Entry records do not touch the hard state.
LEMMA EntriesBallot ==
  ASSUME NEW d, WalImageOK(d), NEW x, NEW es
  PROVE  /\ save_entries(d, x, es).term = d.term
         /\ save_entries(d, x, es).vote = d.vote
<1>1. CASE es = <<>>
  BY <1>1 DEF save_entries
<1>2. CASE es # <<>>
  <2> DEFINE f == [y \in {z \in DOMAIN d.entries : z < x} \cup x .. x + Len(es) - 1 |->
                     IF y < x THEN d.entries[y] ELSE es[y - x + 1]]
  <2>1. save_entries(d, x, es) = [d EXCEPT !.entries = f]
    BY <1>2 DEF save_entries
  <2> HIDE DEF f
  <2> QED BY <2>1 DEF WalImageOK
<1> QED BY <1>1, <1>2

\* The record of a newer term clears the vote.
LEMMA NewerTermBallot ==
  ASSUME TypeInv, BallotInv, NEW i \in Server, up[i], NEW m \in msgs
  PROVE  /\ WalImageOK(newer_term_image(i, m))
         /\ m.term > term[i] =>
              newer_term_image(i, m).term = m.term /\ newer_term_image(i, m).vote = None
         /\ ~(m.term > term[i]) => newer_term_image(i, m) = disk[i]
         /\ newer_term_image(i, m).vote = standing_vote(i, m)
         /\ m.term >= term[i] => newer_term_image(i, m).term = m.term
<1>1. PersistOK /\ WalsOK
  BY InvGroups
<1>2. m.term \in Nat /\ term[i] \in Nat /\ WalImageOK(disk[i])
  BY BallotTypes
<1>3. WalImageOK(newer_term_image(i, m))
  BY <1>1, <1>2, NewerTermOK
<1>4. term[i] = disk[i].term /\ voted_for[i] = disk[i].vote
  BY DEF BallotInv, BallotsDurable
<1>5. CASE m.term > term[i]
  <2>1. newer_term_image(i, m) = save_hard_state(disk[i], m.term, None, commit_index[i])
    BY <1>5 DEF newer_term_image, step_down_image
  <2>2. m.term # 0
    BY SMT, <1>2, <1>5
  <2>3. newer_term_image(i, m).term = m.term /\ newer_term_image(i, m).vote = None
    BY SMT, <1>2, <2>1, <2>2, HardStateBallot
  <2> QED BY <1>3, <1>5, <2>3 DEF standing_vote
<1>6. CASE ~(m.term > term[i])
  <2>1. newer_term_image(i, m) = disk[i]
    BY <1>6 DEF newer_term_image
  <2> QED BY SMT, <1>2, <1>3, <1>4, <1>6, <2>1 DEF standing_vote
<1> QED BY <1>5, <1>6

(***************************************************************************)
(* Steps that leave the ballots alone.                                     *)
(***************************************************************************)
NoVoteAnswer(out) == \A m \in out : m.type # "RequestVoteResponse"

\* The messages after a step are old ones or those the handler queued.
LEMMA OnlySent ==
  ASSUME NEW in, NEW out, flush_raft_messages(in, out)
  PROVE  msgs' \subseteq msgs \cup out
  BY DEF flush_raft_messages

\* The same, when the handler ends in after_raft_activity().
LEMMA OnlySentAfter ==
  ASSUME NEW i, NEW rd, NEW in, NEW out, after_raft_activity(i, rd, in, out)
  PROVE  msgs' \subseteq msgs \cup out
  BY OnlySent DEF after_raft_activity

\* A leader's heartbeats and snapshots answer no RequestVote.
LEMMA BroadcastAnswersNoVote ==
  ASSUME NEW i, NEW lg, NEW pr, NEW rd
  PROVE  /\ NoVoteAnswer(broadcast_heartbeat(i, lg, pr, rd))
         /\ \A j : make_install_snapshot(i, j).type # "RequestVoteResponse"
  BY SMT DEF NoVoteAnswer, broadcast_heartbeat, make_install_snapshot, make_append_entries

\* A step that sends no vote and changes neither term, vote nor the votes
\* counted, at most giving up the candidacy.
LEMMA BallotsAlone ==
  ASSUME TypeInv, BallotInv, NEW i \in Server, NEW out,
         msgs' \subseteq msgs \cup out, NoVoteAnswer(out),
         UNCHANGED <<term, voted_for, votes, elected, up>>,
         \A n \in Server \ {i} : disk'[n] = disk[n] /\ state'[n] = state[n],
         disk'[i].term = disk[i].term, disk'[i].vote = disk[i].vote,
         state'[i] = state[i] \/ (up[i] /\ state'[i] # "Candidate")
  PROVE  BallotStep(i)
<1>1. OthersKept(i)
  BY DEF OthersKept
<1>2. VoteKept(i)
  BY SMT, BallotTypes DEF VoteKept
<1>3. BallotSaved(i)
  BY DEF BallotSaved, BallotInv, BallotsDurable, DownIsFollower
<1>4. AnswersSaved(i)
  BY DEF AnswersSaved, NoVoteAnswer
<1>5. CountsCast(i)
  BY DEF CountsCast, Cast, Counted
<1>6. WinsByCast
  BY DEF WinsByCast
<1> QED BY <1>1, <1>2, <1>3, <1>4, <1>5, <1>6 DEF BallotStep

\* The common case: the disk and the role are not touched at all.
LEMMA BallotsUntouched ==
  ASSUME TypeInv, BallotInv, NEW i \in Server, NEW out,
         msgs' \subseteq msgs \cup out, NoVoteAnswer(out),
         UNCHANGED <<term, voted_for, votes, elected, up, disk, state>>
  PROVE  BallotStep(i)
  BY BallotsAlone

\* A Persist that keeps the ballot of the image, the role untouched.
LEMMA BallotsPersisted ==
  ASSUME TypeInv, BallotInv, NEW i \in Server, NEW out, NEW d,
         msgs' \subseteq msgs \cup out, NoVoteAnswer(out),
         UNCHANGED <<term, voted_for, votes, elected, up, state>>,
         Persist(i, d), d.term = disk[i].term, d.vote = disk[i].vote
  PROVE  BallotStep(i)
<1>1. disk = [n \in Server |-> disk[n]]
  BY InvGroups DEF WalsOK
<1>2. disk'[i] = d /\ \A n \in Server \ {i} : disk'[n] = disk[n]
  BY <1>1 DEF Persist
<1> QED BY <1>2, BallotsAlone

\* Ticks, pre-votes and the responses a leader reads do not touch ballots.
LEMMA TimerBallots ==
  ASSUME TypeInv, BallotInv, NEW i \in Server,
         TickLeader(i) \/ TickIdle(i) \/ TickQuiet(i) \/ TickElection(i)
  PROVE  BallotStep(i)
<1>1. CASE TickLeader(i)
  <2>1. UNCHANGED <<term, voted_for, votes, elected, up, disk, state>>
    BY <1>1 DEF TickLeader, persistVars, roleVars, ballotVars, envVars
  <2>2. msgs' \subseteq msgs \cup broadcast_heartbeat(i, log[i], progress[i], read[i])
    BY <1>1, OnlySentAfter DEF TickLeader
  <2> QED BY <2>1, <2>2, BroadcastAnswersNoVote, BallotsUntouched
<1>2. CASE TickQuiet(i)
  <2>1. UNCHANGED <<term, voted_for, votes, elected, up, disk, state>>
    BY <1>2 DEF TickQuiet, persistVars, ballotVars
  <2>2. msgs' \subseteq msgs \cup {} /\ NoVoteAnswer({})
    BY <1>2, OnlySentAfter DEF TickQuiet, NoVoteAnswer
  <2> QED BY <2>1, <2>2, BallotsUntouched
<1>3. CASE TickIdle(i)
  <2>1. UNCHANGED <<term, voted_for, votes, elected, up, disk, state>>
    BY <1>3 DEF TickIdle, persistVars, roleVars, ballotVars, envVars
  <2>2. msgs' \subseteq msgs \cup {} /\ NoVoteAnswer({})
    BY <1>3, OnlySentAfter DEF TickIdle, NoVoteAnswer
  <2> QED BY <2>1, <2>2, BallotsUntouched
<1>4. CASE TickElection(i)
  <2> DEFINE out == {request_vote(i, j, "PreVote", term[i] + 1) : j \in peers(i)}
  <2>1. UNCHANGED <<term, voted_for, votes, elected, up, disk>>
    BY <1>4 DEF TickElection, persistVars
  <2>2. /\ up[i] /\ state'[i] # "Candidate"
        /\ \A n \in Server \ {i} : state'[n] = state[n]
    <3>1. state \in [Server -> State] /\ state' = [state EXCEPT ![i] = "PreCandidate"]
      BY <1>4, InvGroups DEF TickElection, RoleOK
    <3> QED BY <1>4, <3>1 DEF TickElection, ready
  <2>3. NoVoteAnswer(out)
    BY SMT DEF NoVoteAnswer, request_vote
  <2>4. msgs' \subseteq msgs \cup out
    BY <1>4, OnlySentAfter DEF TickElection
  <2> HIDE DEF out
  <2> QED BY <2>1, <2>2, <2>3, <2>4, BallotsAlone
<1> QED BY <1>1, <1>2, <1>3, <1>4

\* A pre-vote, granted or refused, promises nothing.
LEMMA PreVoteBallots ==
  ASSUME TypeInv, BallotInv, NEW i \in Server, NEW m \in msgs, handle_pre_vote(i, m)
  PROVE  BallotStep(i)
<1> DEFINE out == {[type |-> "PreVoteResponse", from |-> i, to |-> m.from,
                    term |-> term[i], vote_granted |-> grants_pre_vote(i, m),
                    pre_vote_term |-> m.term]}
<1>1. UNCHANGED <<term, voted_for, votes, elected, up, disk, state>>
  BY DEF handle_pre_vote, persistVars, roleVars, ballotVars, envVars
<1>2. NoVoteAnswer(out)
  BY SMT DEF NoVoteAnswer
<1>3. msgs' \subseteq msgs \cup out
  BY OnlySentAfter DEF handle_pre_vote
<1> HIDE DEF out
<1> QED BY <1>1, <1>2, <1>3, BallotsUntouched

\* What a leader does with the answers to its requests leaves ballots alone.
LEMMA LeaderBallots ==
  ASSUME TypeInv, BallotInv, NEW i \in Server, NEW m \in msgs,
         \/ AppendAccepted(i, m) \/ AppendRejected(i, m)
         \/ handle_install_snapshot_response(i, m) \/ IgnoreResponse(i, m)
  PROVE  BallotStep(i)
<1>1. CASE AppendAccepted(i, m)
  <2>1. UNCHANGED <<term, voted_for, votes, elected, up, state>> /\ up[i]
    BY <1>1 DEF AppendAccepted, roleVars, ballotVars, envVars, acknowledges, Delivered, ready
  <2>3. PICK x \in committable(i, progress_after(i, m)) \cup {commit_index[i]} :
          Persist(i, commit_image(i, x))
    BY <1>1 DEF AppendAccepted
  <2>4. x \in Nat /\ commit_index[i] \in Nat /\ WalImageOK(disk[i])
    BY SMTT(30), BallotTypes DEF committable
  <2>5. term[i] = disk[i].term /\ voted_for[i] = disk[i].vote
    BY <2>1 DEF BallotInv, BallotsDurable
  <2>6. commit_image(i, x).term = disk[i].term /\ commit_image(i, x).vote = disk[i].vote
    <3>1. CASE x > commit_index[i]
      <4>1. x # 0
        BY SMT, <2>4, <3>1
      <4> QED BY SMT, <2>4, <2>5, <3>1, <4>1, HardStateBallot DEF commit_image
    <3>2. CASE ~(x > commit_index[i])
      BY <3>2 DEF commit_image
    <3> QED BY <3>1, <3>2
  <2>7. msgs' \subseteq msgs \cup {} /\ NoVoteAnswer({})
    BY <1>1, OnlySentAfter DEF AppendAccepted, NoVoteAnswer
  <2> QED BY <2>1, <2>3, <2>6, <2>7, BallotsPersisted
<1>2. CASE AppendRejected(i, m)
  <2>1. UNCHANGED <<term, voted_for, votes, elected, up, disk, state>>
    BY <1>2 DEF AppendRejected, persistVars, roleVars, ballotVars, envVars
  <2>2. PICK out : /\ msgs' \subseteq msgs \cup out
                   /\ \/ out = {make_install_snapshot(i, m.from)}
                      \/ \E pr : out = broadcast_heartbeat(i, log[i], pr, read[i])
    BY <1>2, OnlySentAfter DEF AppendRejected
  <2>3. NoVoteAnswer(out)
    BY SMTT(30), <2>2, BroadcastAnswersNoVote DEF NoVoteAnswer
  <2> QED BY <2>1, <2>2, <2>3, BallotsUntouched
<1>3. CASE handle_install_snapshot_response(i, m)
  <2>1. UNCHANGED <<term, voted_for, votes, elected, up, disk, state>>
    BY <1>3 DEF handle_install_snapshot_response, persistVars, roleVars, ballotVars, envVars
  <2>2. msgs' \subseteq msgs \cup
          broadcast_heartbeat(i, log[i], progress_after(i, m), read[i])
    BY <1>3, OnlySentAfter DEF handle_install_snapshot_response
  <2> QED BY <2>1, <2>2, BroadcastAnswersNoVote, BallotsUntouched
<1>4. CASE IgnoreResponse(i, m)
  <2>1. UNCHANGED <<term, voted_for, votes, elected, up, disk, state>>
    BY <1>4 DEF IgnoreResponse, persistVars, roleVars, ballotVars, envVars
  <2>2. msgs' \subseteq msgs \cup {} /\ NoVoteAnswer({})
    BY <1>4, OnlySentAfter DEF IgnoreResponse, NoVoteAnswer
  <2> QED BY <2>1, <2>2, BallotsUntouched
<1> QED BY <1>1, <1>2, <1>3, <1>4

\* A command is appended and the WAL gets an Entry record.
LEMMA ProposeBallots ==
  ASSUME TypeInv, BallotInv, NEW i \in Server, NEW v, Propose(i, v) 
  PROVE  BallotStep(i)
<1>1. UNCHANGED <<term, voted_for, votes, elected, up, state>>
  BY DEF Propose, roleVars, ballotVars, envVars
<1>2. Persist(i, propose_image(i, v))
  BY DEF Propose
<1>3. propose_image(i, v).term = disk[i].term /\ propose_image(i, v).vote = disk[i].vote
  BY SMT, BallotTypes, EntriesBallot DEF propose_image
<1>4. msgs' \subseteq msgs \cup broadcast_heartbeat(i, Append(log[i], proposal(i, v)),
                                                 progress[i], read[i])
  BY OnlySentAfter DEF Propose
<1> QED BY <1>1, <1>2, <1>3, <1>4, BroadcastAnswersNoVote, BallotsPersisted

\* The apply handoff, expiry and capture leave ballots alone.
LEMMA HandoffBallots ==
  ASSUME TypeInv, BallotInv, NEW i \in Server,
         \/ ApplyCommittedEntry(i) \/ AcknowledgeApplied(i) \/ ExpireWrite(i)
         \/ CaptureSnapshot(i) \/ \E w \in waiting[i] : CancelRead(i, w)
  PROVE  BallotStep(i)
<1>1. UNCHANGED <<term, voted_for, votes, elected, up, disk, state>>
  BY DEF ApplyCommittedEntry, AcknowledgeApplied, ExpireWrite, CaptureSnapshot,
         CancelRead, persistVars, roleVars, ballotVars, envVars
<1>2. msgs' \subseteq msgs \cup {} /\ NoVoteAnswer({})
  BY OnlySent DEF ApplyCommittedEntry, AcknowledgeApplied, ExpireWrite,
                  CaptureSnapshot, CancelRead, NoVoteAnswer
<1> QED BY <1>1, <1>2, BallotsUntouched

\* A compaction adds a Snapshot record.
LEMMA TakeSnapshotBallots ==
  ASSUME TypeInv, BallotInv, NEW i \in Server, TakeSnapshot(i)
  PROVE  BallotStep(i)
<1>1. UNCHANGED <<term, voted_for, votes, elected, up, state>>
  BY DEF TakeSnapshot, roleVars, ballotVars, envVars
<1>2. msgs' \subseteq msgs \cup {} /\ NoVoteAnswer({})
  BY OnlySent DEF TakeSnapshot, NoVoteAnswer
<1>3. CASE takes_snapshot(i)
  <2>1. Persist(i, take_snapshot_image(i))
    BY <1>3 DEF TakeSnapshot
  <2>2. /\ take_snapshot_image(i).term = disk[i].term
        /\ take_snapshot_image(i).vote = disk[i].vote
    <3> DEFINE sn == [index |-> captured_index(i), term |-> term_at(i, captured_index(i)),
                      state |-> capture[i].state]
               es == Restrict(disk[i].entries,
                              {y \in DOMAIN disk[i].entries : y > captured_index(i)})
    <3>1. take_snapshot_image(i) = [disk[i] EXCEPT !.snapshot = sn, !.entries = es]
      BY DEF take_snapshot_image, save_snapshot
    <3>2. WalImageOK(disk[i])
      BY BallotTypes
    <3> HIDE DEF sn, es
    <3> QED BY <3>1, <3>2 DEF WalImageOK
  <2> QED BY <1>1, <1>2, <2>1, <2>2, BallotsPersisted
<1>4. CASE ~takes_snapshot(i)
  <2>1. UNCHANGED disk
    BY <1>4 DEF TakeSnapshot
  <2> QED BY <1>1, <1>2, <2>1, BallotsUntouched
<1> QED BY <1>3, <1>4

\* Reads, with or without the empty entry, leave ballots alone.
LEMMA ReadBallots ==
  ASSUME TypeInv, BallotInv, NEW i \in Server,
         JoinRead(i) \/ OpenRead(i) \/ OpenReadWithNoOp(i)
  PROVE  BallotStep(i)
<1>1. UNCHANGED <<term, voted_for, votes, elected, up, state>>
  BY DEF JoinRead, OpenRead, OpenReadWithNoOp, persistVars, roleVars, ballotVars, envVars
<1>2. PICK out : /\ msgs' \subseteq msgs \cup out
                 /\ \/ out = {}
                    \/ \E lg, pr, rd : out = broadcast_heartbeat(i, lg, pr, rd)
  <2>1. CASE JoinRead(i)
    <3>1. msgs' \subseteq msgs \cup {}
      BY <2>1, OnlySent DEF JoinRead, RegisterRead
    <3> QED BY <3>1
  <2>2. CASE OpenRead(i)
    <3>1. msgs' \subseteq msgs \cup broadcast_heartbeat(i, log[i], progress[i],
                                                     round_at(i, commit_index[i]))
      BY <2>2, OnlySent DEF OpenRead, RegisterRead
    <3> QED BY <3>1
  <2>3. CASE OpenReadWithNoOp(i)
    <3>1. msgs' \subseteq msgs \cup
            broadcast_heartbeat(i, Append(log[i], proposal(i, NoOp)), progress[i],
                                round_at(i, last_log_index(i) + 1))
      BY <2>3, OnlySent DEF OpenReadWithNoOp, RegisterRead
    <3> QED BY <3>1
  <2> QED BY <2>1, <2>2, <2>3
<1>3. NoVoteAnswer(out)
  BY <1>2, BroadcastAnswersNoVote DEF NoVoteAnswer
<1>4. CASE JoinRead(i) \/ OpenRead(i)
  <2>1. UNCHANGED disk
    BY <1>4 DEF JoinRead, OpenRead
  <2> QED BY <1>1, <1>2, <1>3, <2>1, BallotsUntouched
<1>5. CASE OpenReadWithNoOp(i)
  <2>1. Persist(i, propose_image(i, NoOp))
    BY <1>5 DEF OpenReadWithNoOp
  <2>2. /\ propose_image(i, NoOp).term = disk[i].term
        /\ propose_image(i, NoOp).vote = disk[i].vote
    BY SMT, BallotTypes, EntriesBallot DEF propose_image
  <2> QED BY <1>1, <1>2, <1>3, <2>1, <2>2, BallotsPersisted
<1> QED BY <1>4, <1>5

(***************************************************************************)
(* Steps that change a ballot.                                             *)
(***************************************************************************)

\* A step of i that changes only i, and the WAL of i.
LEMMA OnlyOne ==
  ASSUME TypeInv, NEW i \in Server, NEW d, Persist(i, d),
         NEW t, NEW v, NEW s,
         term' = [term EXCEPT ![i] = t], voted_for' = [voted_for EXCEPT ![i] = v],
         state' = [state EXCEPT ![i] = s],
         \A n \in Server \ {i} : votes'[n] = votes[n] /\ up'[n] = up[n]
  PROVE  /\ OthersKept(i)
         /\ disk'[i] = d /\ term'[i] = t /\ voted_for'[i] = v /\ state'[i] = s
<1>1. PersistOK /\ RoleOK /\ WalsOK
  BY InvGroups
<1>2. disk = [n \in Server |-> disk[n]]
  BY <1>1 DEF WalsOK
<1>3. disk'[i] = d /\ \A n \in Server \ {i} : disk'[n] = disk[n]
  BY <1>2 DEF Persist
<1> QED BY <1>1, <1>3 DEF PersistOK, RoleOK, OthersKept

\* A response of a newer term: the new term is durable, with no vote.
LEMMA StepDownBallots ==
  ASSUME TypeInv, BallotInv, NEW i \in Server, NEW m \in msgs, StepDown(i, m)
  PROVE  BallotStep(i)
<1> DEFINE d == step_down_image(i, m.term)
<1>1. up[i] /\ m.term > term[i]
  BY DEF StepDown, ready
<1>2. UNCHANGED <<votes, up, elected>>
  BY DEF StepDown, envVars
<1>3. d = newer_term_image(i, m)
  BY <1>1 DEF newer_term_image
<1>4. d.term = m.term /\ d.vote = None
  BY <1>1, <1>3, NewerTermBallot
<1>5. /\ Persist(i, d)
      /\ term' = [term EXCEPT ![i] = m.term] /\ voted_for' = [voted_for EXCEPT ![i] = None]
      /\ state' = [state EXCEPT ![i] = "Follower"]
  BY DEF StepDown
<1> HIDE DEF d
<1>6. /\ OthersKept(i) /\ disk'[i] = d /\ term'[i] = m.term /\ voted_for'[i] = None
      /\ state'[i] = "Follower"
  BY <1>2, <1>5, OnlyOne
<1>7. msgs' \subseteq msgs
  BY SMT, OnlySentAfter DEF StepDown
<1>8. term[i] = disk[i].term /\ m.term \in Nat /\ term[i] \in Nat
  BY <1>1, BallotTypes DEF BallotInv, BallotsDurable
<1>9. VoteKept(i) /\ BallotSaved(i)
  BY SMT, <1>1, <1>2, <1>4, <1>6, <1>8 DEF VoteKept, BallotSaved
<1>10. AnswersSaved(i) /\ CountsCast(i) /\ WinsByCast
  BY <1>2, <1>6, <1>7 DEF AnswersSaved, CountsCast, WinsByCast
<1> QED BY <1>6, <1>9, <1>10 DEF BallotStep

\* A request of a leader that the receiver takes for one of its own or of a
\* newer term, if the WAL image it leaves carries the ballot.
LEMMA LeaderRpcBallots ==
  ASSUME TypeInv, BallotInv, NEW i \in Server, NEW m \in msgs, up[i],
         prepare_for_leader_rpc(i, m), UNCHANGED <<votes, up, elected>>,
         NEW d, Persist(i, d), d.term = m.term, d.vote = standing_vote(i, m),
         NEW out, msgs' \subseteq msgs \cup out, NoVoteAnswer(out)
  PROVE  BallotStep(i)
<1>1. /\ m.term >= term[i]
      /\ term' = [term EXCEPT ![i] = m.term]
      /\ voted_for' = [voted_for EXCEPT ![i] = standing_vote(i, m)]
      /\ state' = [state EXCEPT ![i] = "Follower"]
  BY DEF prepare_for_leader_rpc, standing_vote
<1>2. /\ OthersKept(i) /\ disk'[i] = d /\ term'[i] = m.term
      /\ voted_for'[i] = standing_vote(i, m) /\ state'[i] = "Follower"
  <2>1. PersistOK /\ RoleOK /\ disk = [n \in Server |-> disk[n]]
    BY InvGroups DEF WalsOK
  <2>2. disk'[i] = d /\ \A n \in Server \ {i} : disk'[n] = disk[n]
    BY <2>1 DEF Persist
  <2> QED BY <1>1, <2>1, <2>2 DEF PersistOK, RoleOK, OthersKept
<1>3. /\ term[i] = disk[i].term /\ voted_for[i] = disk[i].vote
      /\ m.term \in Nat /\ term[i] \in Nat
  BY BallotTypes DEF BallotInv, BallotsDurable
<1>4. VoteKept(i)
  <2>1. CASE m.term > term[i]
    BY SMT, <1>2, <1>3, <2>1 DEF VoteKept
  <2>2. CASE m.term = term[i]
    BY SMT, <1>2, <1>3, <2>2 DEF VoteKept, standing_vote
  <2> QED BY SMT, <1>1, <1>3, <2>1, <2>2
<1>5. BallotSaved(i)
  BY <1>2 DEF BallotSaved
<1>6. AnswersSaved(i) /\ CountsCast(i) /\ WinsByCast
  BY <1>2 DEF AnswersSaved, CountsCast, WinsByCast, NoVoteAnswer
<1> QED BY <1>2, <1>4, <1>5, <1>6 DEF BallotStep

\* AppendEntries: the ballot survives the Entry records and the commit index.
LEMMA AppendEntriesBallots ==
  ASSUME TypeInv, TypeInv', BallotInv, NEW i \in Server, NEW m \in msgs,
         handle_append_entries(i, m)
  PROVE  BallotStep(i)
<1>1. /\ UNCHANGED <<votes, up, elected>> /\ up[i]
      /\ m.type = "AppendEntries"
  BY DEF handle_append_entries, envVars, Delivered, ready
<1> DEFINE nt == newer_term_image(i, m)
<1>2. /\ WalImageOK(nt) /\ nt.vote = standing_vote(i, m)
      /\ m.term >= term[i] => nt.term = m.term
  BY <1>1, NewerTermBallot
<1> HIDE DEF nt
<1>3. \A t, s, x : NoVoteAnswer({append_response(i, m, t, s, x)})
  BY SMT DEF NoVoteAnswer, append_response
<1>4. CASE /\ m.term < term[i]
           /\ UNCHANGED <<term, voted_for, state, lead, quiet,
                          pending_pre_vote_term, commit_index, log, disk>>
           /\ after_raft_activity(i, read[i], {m},
                                  {append_response(i, m, term[i], FALSE, 0)})
  <2>1. msgs' \subseteq msgs \cup {append_response(i, m, term[i], FALSE, 0)}
    BY <1>4, OnlySentAfter
  <2> QED BY <1>1, <1>3, <1>4, <2>1, BallotsUntouched
<1>5. ASSUME prepare_for_leader_rpc(i, m), Persist(i, nt),
             NEW rd, NEW t, NEW s, NEW x,
             after_raft_activity(i, rd, {m}, {append_response(i, m, t, s, x)})
      PROVE  BallotStep(i)
  <2>1. msgs' \subseteq msgs \cup {append_response(i, m, t, s, x)}
    BY <1>5, OnlySentAfter
  <2>2. m.term >= term[i]
    BY <1>5 DEF prepare_for_leader_rpc
  <2> QED BY <1>1, <1>2, <1>3, <1>5, <2>1, <2>2, LeaderRpcBallots
<1>6. ASSUME prepare_for_leader_rpc(i, m), NEW k \in 1 .. Len(m.entries) + 1, NEW c,
             commit_index' = [commit_index EXCEPT ![i] = c],
             Persist(i, append_image(i, m, k, c)),
             NEW rd, NEW t, NEW s, NEW x,
             after_raft_activity(i, rd, {m}, {append_response(i, m, t, s, x)})
      PROVE  BallotStep(i)
  <2>1. msgs' \subseteq msgs \cup {append_response(i, m, t, s, x)}
    BY <1>6, OnlySentAfter
  <2>2. m.term >= term[i]
    BY <1>6 DEF prepare_for_leader_rpc
  <2>3. c \in Nat /\ commit_index[i] \in Nat
    <3>1. commit_index \in [Server -> Nat] /\ commit_index' \in [Server -> Nat]
      BY DEF TypeInv, TypeOK
    <3> QED BY <1>6, <3>1
  <2> DEFINE se == append_entries_saved(i, m, k)
  <2>4. WalImageOK(se) /\ se.term = m.term /\ se.vote = standing_vote(i, m)
    <3>1. m \in AppendEntries
      BY <1>1, BallotTypes, MessageKinds
    <3>2. m.prev_log_index \in Nat /\ m.entries \in Seq(Entry) /\ Len(m.entries) \in Nat
      BY SMT, <3>1 DEF AppendEntries
    <3>3. /\ k \in Nat /\ k >= 1 /\ m.prev_log_index + k \in Nat
          /\ Len(m.entries) <= Len(m.entries)
      BY SMT, <1>6, <3>2
    <3>4. new_entries(m, k) \in Seq(Entry)
      BY SMT, <3>2, <3>3, SliceOK DEF new_entries
    <3>5. se = save_entries(nt, m.prev_log_index + k, new_entries(m, k))
      BY DEF append_entries_saved, nt
    <3> QED BY SMT, <1>2, <2>2, <3>3, <3>4, <3>5, SaveEntriesOK, EntriesBallot
  <2> HIDE DEF se
  <2>5. /\ append_image(i, m, k, c).term = m.term
        /\ append_image(i, m, k, c).vote = standing_vote(i, m)
    <3>1. CASE c > commit_index[i]
      <4>1. c # 0
        BY SMT, <2>3, <3>1
      <4>2. append_image(i, m, k, c) = save_hard_state(se, m.term, standing_vote(i, m), c)
        BY <3>1 DEF append_image, se
      <4> QED BY SMT, <2>4, <4>1, <4>2, HardStateBallot
    <3>2. CASE ~(c > commit_index[i])
      BY <2>4, <3>2 DEF append_image, se
    <3> QED BY <3>1, <3>2
  <2> QED BY <1>1, <1>3, <1>6, <2>1, <2>5, LeaderRpcBallots
<1>7. CASE /\ prepare_for_leader_rpc(i, m)
           /\ ~log_ok(i, m)
           /\ Persist(i, newer_term_image(i, m))
           /\ UNCHANGED <<commit_index, log>>
           /\ after_raft_activity(i, read_after_leader_rpc(i, m), {m},
                                  {append_response(i, m, m.term, FALSE, 0)})
  BY <1>5, <1>7 DEF nt
<1>8. ASSUME prepare_for_leader_rpc(i, m), NEW k \in 1 .. Len(m.entries) + 1,
             Persist(i, newer_term_image(i, m)),
             after_raft_activity(i, read_after_leader_rpc(i, m), {m},
               {append_response(i, m, m.term, FALSE, commit_index[i])})
      PROVE  BallotStep(i)
  BY <1>5, <1>8 DEF nt
<1> QED BY <1>4, <1>6, <1>7, <1>8, Zenon DEF handle_append_entries

\* The records of an installed snapshot carry the ballot.
LEMMA InstallBallot ==
  ASSUME TypeInv, BallotInv, NEW i \in Server, up[i], NEW m \in msgs,
         m.type = "InstallSnapshot", m.term >= term[i]
  PROVE  /\ snapshot_saved_image(i, m).term = m.term
         /\ snapshot_saved_image(i, m).vote = standing_vote(i, m)
         /\ m.snapshot_index # 0 =>
              /\ install_image(i, m).term = m.term
              /\ install_image(i, m).vote = standing_vote(i, m)
<1> DEFINE nt == newer_term_image(i, m)
           sn == [index |-> m.snapshot_index, term |-> m.snapshot_term,
                  state |-> m.snapshot_data]
           sv == snapshot_saved_image(i, m)
<1>1. WalImageOK(nt) /\ nt.vote = standing_vote(i, m) /\ nt.term = m.term
  BY NewerTermBallot
<1>2. sv = [nt EXCEPT !.snapshot = sn, !.entries = <<>>]
  BY DEF snapshot_saved_image, save_snapshot
<1>3. m \in InstallSnapshot
  BY BallotTypes, MessageKinds
<1>4. WalImageOK(sv)
  BY <1>3, InvGroups, InstallImageOK
<1> HIDE DEF nt, sn
<1>5. sv.term = m.term /\ sv.vote = standing_vote(i, m)
  BY <1>1, <1>2 DEF WalImageOK
<1>6. install_image(i, m) = save_hard_state(sv, m.term, standing_vote(i, m), m.snapshot_index)
  BY DEF install_image
<1> HIDE DEF sv
<1>7. m.snapshot_index # 0 =>
        install_image(i, m).term = m.term /\ install_image(i, m).vote = standing_vote(i, m)
  BY SMT, <1>4, <1>6, HardStateBallot
<1> QED BY <1>5, <1>7 DEF sv

\* InstallSnapshot: refused, answered, or installed.
LEMMA InstallSnapshotBallots ==
  ASSUME TypeInv, BallotInv, NEW i \in Server, NEW m \in msgs,
         handle_install_snapshot(i, m)
  PROVE  BallotStep(i)
<1>1. /\ UNCHANGED <<votes, up, elected>> /\ up[i]
      /\ m.type = "InstallSnapshot"
  BY DEF handle_install_snapshot, envVars, Delivered, ready
<1>2. /\ newer_term_image(i, m).vote = standing_vote(i, m)
      /\ m.term >= term[i] => newer_term_image(i, m).term = m.term
  BY <1>1, NewerTermBallot
<1>3. \A t, s, x : NoVoteAnswer({snapshot_response(i, m, t, s, x)})
  BY SMT DEF NoVoteAnswer, snapshot_response
<1>4. CASE /\ m.term < term[i]
           /\ UNCHANGED <<persistVars, state, lead, quiet, pending_pre_vote_term,
                          last_applied, store, disk>>
           /\ after_raft_activity(i, read[i], {m},
                                  {snapshot_response(i, m, term[i], FALSE, 0)})
  <2>1. msgs' \subseteq msgs \cup {snapshot_response(i, m, term[i], FALSE, 0)}
    BY <1>4, OnlySentAfter
  <2>2. UNCHANGED <<term, voted_for, votes, elected, up, disk, state>>
    BY <1>1, <1>4 DEF persistVars
  <2> QED BY <1>3, <2>1, <2>2, BallotsUntouched
<1>5. CASE /\ prepare_for_leader_rpc(i, m)
           /\ ~installs(i, m)
           /\ Persist(i, newer_term_image(i, m))
           /\ UNCHANGED <<commit_index, log, log_offset, log_offset_term,
                          snapshot, last_applied, store>>
           /\ after_raft_activity(i, read_after_leader_rpc(i, m), {m},
                {IF valid_snapshot(m) /\ stale_snapshot(i, m)
                   THEN snapshot_response(i, m, m.term, TRUE, known_index(i))
                   ELSE snapshot_response(i, m, m.term, FALSE, 0)})
  <2> DEFINE out == {IF valid_snapshot(m) /\ stale_snapshot(i, m)
                       THEN snapshot_response(i, m, m.term, TRUE, known_index(i))
                       ELSE snapshot_response(i, m, m.term, FALSE, 0)}
  <2>1. msgs' \subseteq msgs \cup out
    BY <1>5, OnlySentAfter
  <2>2. NoVoteAnswer(out)
    <3>1. CASE valid_snapshot(m) /\ stale_snapshot(i, m)
      BY <1>3, <3>1
    <3>2. CASE ~(valid_snapshot(m) /\ stale_snapshot(i, m))
      BY <1>3, <3>2
    <3> QED BY <3>1, <3>2
  <2> HIDE DEF out
  <2>3. m.term >= term[i]
    BY <1>5 DEF prepare_for_leader_rpc
  <2> QED BY <1>1, <1>2, <1>5, <2>1, <2>2, <2>3, LeaderRpcBallots
<1>6. ASSUME prepare_for_leader_rpc(i, m), installs(i, m), Persist(i, install_image(i, m)),
             flush_raft_messages({m},
               {snapshot_response(i, m, m.term, TRUE, m.snapshot_index)})
      PROVE  BallotStep(i)
  <2>1. msgs' \subseteq msgs \cup {snapshot_response(i, m, m.term, TRUE, m.snapshot_index)}
    BY <1>6, OnlySent
  <2>2. m.term >= term[i] /\ m.snapshot_index # 0
    BY <1>6 DEF prepare_for_leader_rpc, installs, valid_snapshot
  <2>3. /\ install_image(i, m).term = m.term
        /\ install_image(i, m).vote = standing_vote(i, m)
    BY <1>1, <2>2, InstallBallot
  <2> QED BY <1>1, <1>3, <1>6, <2>1, <2>3, LeaderRpcBallots
<1> QED BY <1>4, <1>5, <1>6, Zenon DEF handle_install_snapshot

\* RequestVote: an answer that grants the vote is sent with the vote durable.
LEMMA RequestVoteBallots ==
  ASSUME TypeInv, BallotInv, NEW i \in Server, NEW m \in msgs, handle_request_vote(i, m)
  PROVE  BallotStep(i)
<1> DEFINE T == vote_term(i, m)
           V == IF grants_vote(i, m) THEN m.from ELSE standing_vote(i, m)
           d == vote_image(i, m)
           answer == [type |-> "RequestVoteResponse", from |-> i, to |-> m.from,
                      term |-> T, vote_granted |-> grants_vote(i, m)]
<1>1. /\ UNCHANGED <<votes, up, elected>> /\ up[i]
      /\ term' = [term EXCEPT ![i] = T] /\ voted_for' = [voted_for EXCEPT ![i] = V]
      /\ state' = [state EXCEPT ![i] = IF m.term > term[i] THEN "Follower" ELSE @]
      /\ Persist(i, d)
  BY DEF handle_request_vote, envVars, Delivered, ready
<1>2. msgs' \subseteq msgs \cup {answer}
  BY OnlySentAfter DEF handle_request_vote
<1>3. /\ m.term \in Nat /\ term[i] \in Nat /\ m.from \in Server
      /\ term[i] = disk[i].term /\ voted_for[i] = disk[i].vote
  BY <1>1, BallotTypes DEF BallotInv, BallotsDurable
<1>4. d.term = T /\ d.vote = V
  <2> DEFINE nt == newer_term_image(i, m)
  <2>1. WalImageOK(nt) /\ nt.vote = standing_vote(i, m) /\ nt.term = T
    BY <1>1, <1>3, NewerTermBallot DEF vote_term
  <2>2. m.from # None
    BY <1>3, ServerAssumption
  <2> HIDE DEF nt, T
  <2>3. CASE grants_vote(i, m)
    <3>1. d = save_hard_state(nt, T, m.from, commit_index[i]) /\ V = m.from
      BY <2>3 DEF vote_image, nt, T
    <3> HIDE DEF V, d
    <3> QED BY SMTT(30), <2>1, <2>2, <3>1, HardStateBallot
  <2>4. CASE ~grants_vote(i, m)
    BY <2>1, <2>4 DEF vote_image, nt
  <2> QED BY <2>3, <2>4
<1>5. /\ T >= term[i] /\ T \in Nat
      /\ T = term[i] => V = voted_for[i] \/ voted_for[i] = None
      /\ ~(m.term > term[i]) => T = term[i]
  BY SMTT(30), <1>3 DEF vote_term, grants_vote, standing_vote
<1>6. /\ answer.type = "RequestVoteResponse" /\ answer.from = i /\ answer.to = m.from
      /\ answer.term = T /\ (answer.vote_granted => V = m.from)
  OBVIOUS
<1> HIDE DEF T, V, d, answer
<1>7. /\ OthersKept(i) /\ disk'[i] = d /\ term'[i] = T /\ voted_for'[i] = V
      /\ state'[i] = IF m.term > term[i] THEN "Follower" ELSE state[i]
  <2>1. PersistOK /\ RoleOK /\ disk = [n \in Server |-> disk[n]]
    BY InvGroups DEF WalsOK
  <2>2. disk'[i] = d /\ \A n \in Server \ {i} : disk'[n] = disk[n]
    BY <1>1, <2>1 DEF Persist
  <2> QED BY <1>1, <2>1, <2>2 DEF PersistOK, RoleOK, OthersKept
<1>8. VoteKept(i)
  BY <1>3, <1>4, <1>5, <1>7 DEF VoteKept
<1>9. BallotSaved(i)
  BY <1>1, <1>4, <1>7 DEF BallotSaved
<1>10. AnswersSaved(i)
  BY <1>2, <1>4, <1>6, <1>7 DEF AnswersSaved
<1>11. CountsCast(i)
  BY SMTT(30), <1>1, <1>5, <1>7 DEF CountsCast, Cast, Counted
<1>12. WinsByCast
  BY <1>1 DEF WinsByCast
<1> QED BY <1>7, <1>8, <1>9, <1>10, <1>11, <1>12 DEF BallotStep

\* A majority of pre-votes: a new term begins with a vote for itself, durable
\* before the requests go out.
LEMMA PreVoteResponseBallots ==
  ASSUME TypeInv, BallotInv, NEW i \in Server, NEW m \in msgs,
         handle_pre_vote_response(i, m)
  PROVE  BallotStep(i)
<1>1. UNCHANGED <<up, elected>> /\ up[i]
  BY DEF handle_pre_vote_response, envVars, counts_pre_vote, Delivered, ready
<1>2. CASE /\ UNCHANGED <<term, voted_for, state, lead, quiet, votes,
                          pending_pre_vote_term, disk>>
           /\ after_raft_activity(i, read[i], {m}, {})
  <2>1. msgs' \subseteq msgs \cup {} /\ NoVoteAnswer({})
    BY <1>2, OnlySentAfter DEF NoVoteAnswer
  <2> QED BY <1>1, <1>2, <2>1, BallotsUntouched
<1>3. CASE /\ become_candidate(i)
           /\ after_raft_activity(i, read[i], {m},
                {request_vote(i, j, "RequestVote", term[i] + 1) : j \in peers(i)})
  <2> DEFINE out == {request_vote(i, j, "RequestVote", term[i] + 1) : j \in peers(i)}
             d == candidate_image(i)
  <2>1. msgs' \subseteq msgs \cup out
    BY <1>3, OnlySentAfter
  <2>2. NoVoteAnswer(out)
    BY SMTT(30) DEF NoVoteAnswer, request_vote
  <2>3. /\ term' = [term EXCEPT ![i] = @ + 1] /\ voted_for' = [voted_for EXCEPT ![i] = i]
        /\ state' = [state EXCEPT ![i] = "Candidate"] /\ votes' = [votes EXCEPT ![i] = {i}]
        /\ Persist(i, d)
    BY <1>3 DEF become_candidate
  <2>4. term[i] \in Nat /\ term[i] = disk[i].term /\ WalImageOK(disk[i])
    BY <1>1, BallotTypes DEF BallotInv, BallotsDurable
  <2>5. d.term = term[i] + 1 /\ d.vote = i
    <3>1. term[i] + 1 # 0
      BY SMT, <2>4
    <3> QED BY SMT, <2>4, <3>1, HardStateBallot DEF candidate_image
  <2> HIDE DEF out, d
  <2>6. /\ OthersKept(i) /\ disk'[i] = d /\ term'[i] = term[i] + 1
        /\ voted_for'[i] = i /\ state'[i] = "Candidate" /\ votes'[i] = {i}
    <3>1. PersistOK /\ RoleOK /\ disk = [n \in Server |-> disk[n]]
      BY InvGroups DEF WalsOK
    <3>2. disk'[i] = d /\ \A n \in Server \ {i} : disk'[n] = disk[n]
      BY <2>3, <3>1 DEF Persist
    <3> QED BY <1>1, <2>3, <3>1, <3>2 DEF PersistOK, RoleOK, OthersKept
  <2>7. VoteKept(i) /\ BallotSaved(i)
    BY SMTT(30), <1>1, <2>4, <2>5, <2>6 DEF VoteKept, BallotSaved
  <2>8. AnswersSaved(i)
    BY <2>1, <2>2 DEF AnswersSaved, NoVoteAnswer
  <2>9. CountsCast(i) /\ WinsByCast
    BY <1>1, <2>5, <2>6 DEF CountsCast, WinsByCast
  <2> QED BY <2>6, <2>7, <2>8, <2>9 DEF BallotStep
<1> QED BY <1>2, <1>3, Zenon DEF handle_pre_vote_response

\* A vote counted was cast; a majority of them elects.
LEMMA RequestVoteResponseBallots ==
  ASSUME TypeInv, BallotInv, NEW i \in Server, NEW m \in msgs,
         handle_request_vote_response(i, m)
  PROVE  BallotStep(i)
<1> DEFINE granted == IF m.vote_granted THEN votes[i] \cup {m.from} ELSE votes[i]
<1>1. /\ UNCHANGED <<term, voted_for, up, disk>> /\ up[i]
      /\ votes' = [votes EXCEPT ![i] = granted]
      /\ m.type = "RequestVoteResponse" /\ m.to = i /\ m.term = term[i]
      /\ state[i] = "Candidate"
  BY DEF handle_request_vote_response, persistVars, envVars, counts_vote, Delivered, ready
<1>2. \A n \in granted : Cast(n, term[i], i)
  <2> SUFFICES ASSUME NEW n \in granted PROVE Cast(n, term[i], i)
    OBVIOUS
  <2>1. CASE n \in votes[i]
    BY <1>1, <2>1 DEF Cast, Counted
  <2>2. CASE m.vote_granted /\ n = m.from
    BY <1>1, <2>2 DEF Cast, Answered
  <2> QED BY <2>1, <2>2
<1>3. \/ /\ UNCHANGED <<state, elected>>
         /\ after_raft_activity(i, read[i], {m}, {})
      \/ /\ majority(granted)
         /\ state' = [state EXCEPT ![i] = "Leader"]
         /\ elected' = elected \cup
              {[term |-> term[i], leader |-> i, votes |-> granted]}
         /\ after_raft_activity(i, read[i], {m},
              broadcast_heartbeat(i, log[i], fresh_progress(i), read[i]))
  BY DEF handle_request_vote_response
<1> HIDE DEF granted
<1>4. AnswersSaved(i)
  <2>1. CASE after_raft_activity(i, read[i], {m}, {})
    BY SMT, <2>1, OnlySentAfter DEF AnswersSaved
  <2>2. CASE after_raft_activity(i, read[i], {m},
               broadcast_heartbeat(i, log[i], fresh_progress(i), read[i]))
    <3>1. msgs' \subseteq msgs \cup broadcast_heartbeat(i, log[i], fresh_progress(i), read[i])
      BY <2>2, OnlySentAfter
    <3> QED BY <3>1, BroadcastAnswersNoVote DEF AnswersSaved, NoVoteAnswer
  <2> QED BY <1>3, <2>1, <2>2
<1>5. /\ OthersKept(i) /\ votes'[i] = granted
      /\ state' = state \/ state'[i] = "Leader"
  BY <1>1, <1>3, InvGroups DEF OthersKept, RoleOK
<1>6. VoteKept(i) /\ BallotSaved(i)
  BY SMTT(30), <1>1, BallotTypes DEF VoteKept, BallotSaved, BallotInv, BallotsDurable
<1>7. CountsCast(i)
  BY <1>1, <1>2, <1>5 DEF CountsCast
<1>8. WinsByCast
  BY SMTT(30), <1>2, <1>3 DEF WinsByCast
<1> QED BY <1>4, <1>5, <1>6, <1>7, <1>8 DEF BallotStep

\* Whatever a crash leaves in the WAL keeps the vote.
LEMMA CrashImageBallot ==
  ASSUME TypeInv, BallotInv, NEW i \in Server, up[i], NEW d \in crash_images(i)
  PROVE  \/ d.term = disk[i].term /\ d.vote = disk[i].vote
         \/ d.term \in Nat /\ d.term > disk[i].term
<1>1. ASSUME NEW m \in msgs, NEW e, e.term = newer_term_image(i, m).term,
             e.vote = newer_term_image(i, m).vote
      PROVE  \/ e.term = disk[i].term /\ e.vote = disk[i].vote
             \/ e.term \in Nat /\ e.term > disk[i].term
  <2>1. m.term \in Nat /\ term[i] = disk[i].term
    BY BallotTypes DEF BallotInv, BallotsDurable
  <2> QED BY <1>1, <2>1, NewerTermBallot
<1>2. \/ d = disk[i]
      \/ \E m \in msgs : d = newer_term_image(i, m)
      \/ \E m \in msgs : d \in torn_append_images(i, m)
      \/ \E m \in msgs : Delivered(i, m, "InstallSnapshot") /\ d \in torn_install_images(i, m)
  BY CrashImageOrigin
<1>3. ASSUME NEW m \in msgs, d = newer_term_image(i, m)
      PROVE  d.term = newer_term_image(i, m).term /\ d.vote = newer_term_image(i, m).vote
  BY <1>3
<1>4. ASSUME NEW m \in msgs, d \in torn_append_images(i, m)
      PROVE  d.term = newer_term_image(i, m).term /\ d.vote = newer_term_image(i, m).vote
  <2>1. PICK k \in 1 .. Len(m.entries) : d \in append_entry_images(i, m, k)
    BY <1>4 DEF torn_append_images
  <2>2. PICK l \in k - 1 .. Len(m.entries) :
          d = save_entries(newer_term_image(i, m), m.prev_log_index + k,
                           SubSeq(m.entries, k, l))
    BY <2>1 DEF append_entry_images
  <2> QED BY SMTT(30), <2>2, NewerTermBallot, EntriesBallot
<1>5. ASSUME NEW m \in msgs, Delivered(i, m, "InstallSnapshot"),
             d \in torn_install_images(i, m)
      PROVE  d.term = newer_term_image(i, m).term /\ d.vote = newer_term_image(i, m).vote
  <2>1. d = snapshot_saved_image(i, m) /\ m.term >= term[i] /\ m.type = "InstallSnapshot"
    BY <1>5 DEF torn_install_images, Delivered
  <2> QED BY <2>1, InstallBallot, NewerTermBallot
<1> QED BY <1>1, <1>2, <1>3, <1>4, <1>5

\* A crash forgets everything but the WAL.
LEMMA CrashBallots ==
  ASSUME TypeInv, BallotInv, NEW i \in Server, Crash(i)
  PROVE  BallotStep(i)
<1>1. /\ up[i] /\ up' = [up EXCEPT ![i] = FALSE]
      /\ state' = [state EXCEPT ![i] = "Follower"] /\ votes' = [votes EXCEPT ![i] = {}]
      /\ term' = [term EXCEPT ![i] = 0] /\ voted_for' = [voted_for EXCEPT ![i] = None]
      /\ UNCHANGED <<msgs, elected>>
  BY DEF Crash, ready
<1>2. PICK d \in crash_images(i) : disk' = [disk EXCEPT ![i] = d]
  BY DEF Crash
<1>3. PersistOK /\ RoleOK /\ EnvOK /\ disk = [n \in Server |-> disk[n]]
  BY InvGroups DEF WalsOK
<1>4. disk'[i] = d /\ \A n \in Server \ {i} : disk'[n] = disk[n]
  BY <1>2, <1>3
<1>5. OthersKept(i) /\ ~up'[i] /\ state'[i] = "Follower"
  BY <1>1, <1>3, <1>4 DEF OthersKept, PersistOK, RoleOK, EnvOK
<1>6. VoteKept(i)
  <2>1. disk[i].term \in Nat
    BY BallotTypes
  <2>2. \/ d.term = disk[i].term /\ d.vote = disk[i].vote
        \/ d.term \in Nat /\ d.term > disk[i].term
    BY <1>1, CrashImageBallot
  <2> QED BY SMTT(30), <1>4, <2>1, <2>2 DEF VoteKept
<1>7. BallotSaved(i) /\ AnswersSaved(i) /\ CountsCast(i) /\ WinsByCast
  BY <1>1, <1>5 DEF BallotSaved, AnswersSaved, CountsCast, WinsByCast
<1> QED BY <1>5, <1>6, <1>7 DEF BallotStep

\* A restart takes term and vote from the WAL and starts as a follower.
LEMMA RestartBallots ==
  ASSUME TypeInv, BallotInv, NEW i \in Server, Restart(i)
  PROVE  BallotStep(i)
<1>1. /\ ~up[i] /\ up' = [up EXCEPT ![i] = TRUE]
      /\ term' = [term EXCEPT ![i] = disk[i].term]
      /\ voted_for' = [voted_for EXCEPT ![i] = disk[i].vote]
      /\ UNCHANGED <<state, votes, disk, msgs, elected>>
  BY DEF Restart, roleVars, ballotVars
<1>2. state[i] = "Follower"
  BY <1>1 DEF BallotInv, DownIsFollower
<1>3. /\ OthersKept(i) /\ up'[i]
      /\ term'[i] = disk[i].term /\ voted_for'[i] = disk[i].vote
  BY <1>1, InvGroups DEF OthersKept, PersistOK, EnvOK
<1>4. VoteKept(i) /\ BallotSaved(i)
  BY SMTT(30), <1>1, <1>3, BallotTypes DEF VoteKept, BallotSaved
<1>5. AnswersSaved(i) /\ CountsCast(i) /\ WinsByCast
  BY <1>1, <1>2 DEF AnswersSaved, CountsCast, WinsByCast
<1> QED BY <1>3, <1>4, <1>5 DEF BallotStep

(***************************************************************************)
(* The theorems.                                                           *)
(***************************************************************************)

\* Nothing is promised before the first election.
LEMMA InitBallots ==
  ASSUME Init
  PROVE  BallotInv
<1>1. BallotsDurable /\ DownIsFollower
  BY DEF Init, BallotsDurable, DownIsFollower, EmptyWal
<1>2. \A n, c \in Server : \A t \in Nat : ~Cast(n, t, c)
  BY DEF Init, Cast, Answered, Counted, Won
<1>3. CastIsPromised /\ CastOnce
  BY <1>2 DEF CastIsPromised, CastOnce
<1>4. WonByMajority
  BY DEF Init, WonByMajority
<1> QED BY <1>1, <1>3, <1>4 DEF BallotInv

\* Every step of the cluster is a ballot step of some node, or changes nothing.
LEMMA EveryStepIsBallotStep ==
  ASSUME TypeInv, TypeInv', BallotInv, Next
  PROVE  (\E i \in Server : BallotStep(i)) \/ UNCHANGED vars
<1>1. ASSUME NEW i \in Server, NEW m \in msgs, Receive(i, m) PROVE BallotStep(i)
  <2>1. CASE StepDown(i, m) BY <2>1, StepDownBallots
  <2>2. CASE handle_request_vote(i, m) BY <2>2, RequestVoteBallots
  <2>3. CASE handle_request_vote_response(i, m) BY <2>3, RequestVoteResponseBallots
  <2>4. CASE handle_pre_vote(i, m) BY <2>4, PreVoteBallots
  <2>5. CASE handle_pre_vote_response(i, m) BY <2>5, PreVoteResponseBallots
  <2>6. CASE handle_append_entries(i, m) BY <2>6, AppendEntriesBallots
  <2>7. CASE handle_install_snapshot(i, m) BY <2>7, InstallSnapshotBallots
  <2>8. CASE \/ AppendAccepted(i, m) \/ AppendRejected(i, m)
             \/ handle_install_snapshot_response(i, m) \/ IgnoreResponse(i, m)
    BY <2>8, LeaderBallots
  <2> QED BY <1>1, <2>1, <2>2, <2>3, <2>4, <2>5, <2>6, <2>7, <2>8 DEF Receive
<1>2. ASSUME NEW i \in Server,
             TickLeader(i) \/ TickIdle(i) \/ TickQuiet(i) \/ TickElection(i)
      PROVE  BallotStep(i)
  BY <1>2, TimerBallots
<1>3. ASSUME NEW i \in Server, NEW v \in Value, Propose(i, v) PROVE BallotStep(i)
  BY <1>3, ProposeBallots
<1>4. ASSUME NEW i \in Server,
             \/ ApplyCommittedEntry(i) \/ AcknowledgeApplied(i) \/ ExpireWrite(i)
             \/ CaptureSnapshot(i) \/ \E w \in waiting[i] : CancelRead(i, w)
      PROVE  BallotStep(i)
  BY <1>4, HandoffBallots
<1>5. ASSUME NEW i \in Server, TakeSnapshot(i) PROVE BallotStep(i)
  BY <1>5, TakeSnapshotBallots
<1>6. ASSUME NEW i \in Server, JoinRead(i) \/ OpenRead(i) \/ OpenReadWithNoOp(i)
      PROVE  BallotStep(i)
  BY <1>6, ReadBallots
<1>7. ASSUME NEW i \in Server, Crash(i) PROVE BallotStep(i)
  BY <1>7, CrashBallots
<1>8. ASSUME NEW i \in Server, Restart(i) PROVE BallotStep(i)
  BY <1>8, RestartBallots
<1> QED BY <1>1, <1>2, <1>3, <1>4, <1>5, <1>6, <1>7, <1>8, Zenon DEF Next

\* A step in which nothing changes keeps the invariant and the votes.
LEMMA StutterBallots ==
  ASSUME TypeInv, BallotInv, UNCHANGED vars
  PROVE  BallotInv' /\ \A n \in Server : VoteKept(n)
<1>1. UNCHANGED <<term, voted_for, state, votes, up, disk, msgs, elected>>
  BY DEF vars, persistVars, roleVars, ballotVars, envVars
<1>2. BallotInv'
  BY SMTT(30), <1>1 DEF BallotInv, BallotsDurable, DownIsFollower, CastIsPromised, CastOnce,
              WonByMajority, Cast, Answered, Counted, Won, promised
<1>3. \A n \in Server : VoteKept(n)
  BY SMTT(30), <1>1, BallotTypes DEF VoteKept
<1> QED BY <1>2, <1>3

\* The invariant is inductive, and no step takes back a durable vote.
LEMMA StepBallots ==
  ASSUME TypeInv, BallotInv, [Next]_vars
  PROVE  BallotInv' /\ \A n \in Server : VoteKept(n)
<1>1. TypeInv'
  BY StepTypes
<1>2. CASE Next
  BY <1>1, <1>2, EveryStepIsBallotStep, BallotStepKeepsInv, StutterBallots
<1>3. CASE UNCHANGED vars
  BY <1>3, StutterBallots
<1> QED BY <1>2, <1>3

\* Two elections won in one term were won by one node.
LEMMA OneLeaderPerTerm ==
  ASSUME TypeInv, BallotInv
  PROVE  ElectionSafety
<1> SUFFICES ASSUME NEW e \in elected, NEW f \in elected, e.term = f.term
             PROVE  e.leader = f.leader
  BY DEF ElectionSafety
<1>1. /\ e.term \in Nat /\ e.leader \in Server /\ e.votes \subseteq Server
      /\ f.leader \in Server /\ f.votes \subseteq Server
  BY BallotTypes
<1>2. IsFiniteSet(Server) /\ IsFiniteSet(e.votes) /\ IsFiniteSet(f.votes)
  BY <1>1, ServerAssumption, FS_Subset
<1>3. /\ Cardinality(Server) \in Nat /\ Cardinality(e.votes) \in Nat
      /\ Cardinality(f.votes) \in Nat
  BY <1>2, FS_CardinalityType
<1>4. 2 * Cardinality(e.votes) > Cardinality(Server)
      /\ 2 * Cardinality(f.votes) > Cardinality(Server)
  BY DEF BallotInv, WonByMajority, majority
<1>5. Cardinality(e.votes) + Cardinality(f.votes) > Cardinality(Server)
  BY SMT, <1>3, <1>4
<1>6. e.votes \cap f.votes # {}
  BY <1>1, <1>2, <1>5, FS_MajoritiesIntersect
<1>7. PICK n \in Server : n \in e.votes /\ n \in f.votes
  BY <1>1, <1>6
<1>8. Cast(n, e.term, e.leader) /\ Cast(n, e.term, f.leader)
  BY <1>7 DEF Cast, Won
<1> QED BY <1>1, <1>7, <1>8 DEF BallotInv, CastOnce

\* The types and the ballots together.
THEOREM BallotInvariant == Spec => [](TypeInv /\ BallotInv)
<1>1. Init => TypeInv /\ BallotInv
  BY InitTypes, InitBallots
<1>2. TypeInv /\ BallotInv /\ [Next]_vars => (TypeInv /\ BallotInv)'
  BY StepTypes, StepBallots
<1> QED BY <1>1, <1>2, PTL DEF Spec

\* No two nodes ever win the election of one term: for any number of members,
\* whatever is lost, delayed, duplicated or reordered, and wherever voters
\* crash (handle_request_vote, handle_request_vote_response, become_candidate).
THEOREM ElectionSafe == Spec => []ElectionSafety
<1>1. TypeInv /\ BallotInv => ElectionSafety
  BY OneLeaderPerTerm
<1> QED BY <1>1, BallotInvariant, PTL

\* The durable term never goes back and a durable vote is never changed within
\* its term, through crashes in the middle of any handler.
THEOREM VotesStand == Spec => VoteStands
<1>1. TypeInv /\ BallotInv /\ [Next]_vars =>
        [\A i \in Server :
           /\ disk[i].term <= disk'[i].term
           /\ disk[i].term = disk'[i].term => disk[i].vote \in {None, disk'[i].vote}]_vars
  BY StepBallots DEF VoteKept
<1> QED BY <1>1, BallotInvariant, PTL DEF Spec, VoteStands
=============================================================================
