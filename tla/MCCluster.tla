----------------------------- MODULE MCCluster -----------------------------
(***************************************************************************)
(* Instances of the cluster for TLC.                                       *)
(***************************************************************************)
EXTENDS ClusterHistories

CONSTANTS s1, s2, s3    \* the three servers

Symmetry == Permutations(Server)

(***************************************************************************)
(* Later starting points, so that the bounds are left to what follows.     *)
(* Each is the state of a cluster without snapshots or crashes so far, in  *)
(* which every message not shown in msgs has been delivered or lost.  They *)
(* fix the role of every server, so runs from them use no symmetry.        *)
(***************************************************************************)
Quiescent ==
  /\ log_offset = [i \in Server |-> 0]
  /\ log_offset_term = [i \in Server |-> 0]
  /\ snapshot = [i \in Server |-> <<>>]
  /\ quiet = [i \in Server |-> FALSE]
  /\ pending_pre_vote_term = [i \in Server |-> 0]
  /\ apply_in_flight = [i \in Server |-> NoApply]
  /\ capture = [i \in Server |-> Idle]
  /\ up = [i \in Server |-> TRUE]
  /\ disk = [i \in Server |->
       save_entries(save_hard_state(EmptyWal, term[i], voted_for[i], commit_index[i]),
                    1, log[i])]
  /\ crashes = 0 /\ timeouts = 0

Unwritten ==
  /\ commit_index = [i \in Server |-> 0]
  /\ last_applied = [i \in Server |-> 0]
  /\ store = [i \in Server |-> <<>>]
  /\ acked = {} /\ observed = 0 /\ served = {}
  /\ next_read_context = [i \in Server |-> 1]
  /\ read = [i \in Server |-> NoRead]
  /\ waiting = [i \in Server |-> {}]
  /\ msgs = {}

\* l won term t with the vote of v.
won(t, l, v) == [term |-> t, leader |-> l, votes |-> {l, v}]

\* l has just won term 1 with the vote of v; its first heartbeats are lost and
\* the third node has heard of nothing.
ElectedBy(l, v) ==
  /\ term = [i \in Server |-> IF i \in {l, v} THEN 1 ELSE 0]
  /\ voted_for = [i \in Server |-> IF i \in {l, v} THEN l ELSE None]
  /\ log = [i \in Server |-> <<>>]
  /\ state = [i \in Server |-> IF i = l THEN "Leader" ELSE "Follower"]
  /\ lead = [i \in Server |-> IF i = l THEN l ELSE None]
  /\ votes = [i \in Server |-> IF i = l THEN {l, v} ELSE {}]
  /\ pre_votes = votes
  /\ progress = [i \in Server |-> [j \in Server |-> [match |-> 0, next |-> 1]]]
  /\ pending_writes = [i \in Server |-> {}]
  /\ elected = {won(1, l, v)}
  /\ Unwritten /\ Quiescent

\* l has won term 1 with the vote of v, and its first entry is committed,
\* applied and acknowledged; v has appended it and the third node has heard of
\* nothing.
EstablishedBy(l, v, x) ==
  LET entry == [term |-> 1, data |-> x] IN
  /\ term = [i \in Server |-> IF i \in {l, v} THEN 1 ELSE 0]
  /\ voted_for = [i \in Server |-> IF i \in {l, v} THEN l ELSE None]
  /\ log = [i \in Server |-> IF i \in {l, v} THEN <<entry>> ELSE <<>>]
  /\ state = [i \in Server |-> IF i = l THEN "Leader" ELSE "Follower"]
  /\ lead = [i \in Server |-> IF i \in {l, v} THEN l ELSE None]
  /\ votes = [i \in Server |-> IF i = l THEN {l, v} ELSE {}]
  /\ pre_votes = votes
  /\ progress = [i \in Server |-> [j \in Server |->
       IF i = l /\ j = v THEN [match |-> 1, next |-> 2] ELSE [match |-> 0, next |-> 1]]]
  /\ pending_writes = [i \in Server |-> {}]
  /\ elected = {won(1, l, v)}
  /\ commit_index = [i \in Server |-> IF i = l THEN 1 ELSE 0]
  /\ last_applied = commit_index
  /\ store = [i \in Server |-> IF i = l THEN <<entry>> ELSE <<>>]
  /\ acked = {<<1, entry>>} /\ observed = 1 /\ served = {}
  /\ next_read_context = [i \in Server |-> 1]
  /\ read = [i \in Server |-> NoRead]
  /\ waiting = [i \in Server |-> {}]
  /\ msgs = {}
  /\ Quiescent

\* a won term 1 and proposed an entry that reached no one; c won term 2 and
\* did the same; a has just won term 3.  b voted in all three elections, and c
\* has not heard of the last one.
ContestedBy(a, b, c, v) ==
  /\ term = [i \in Server |-> IF i = c THEN 2 ELSE 3]
  /\ voted_for = [i \in Server |-> IF i = c THEN c ELSE a]
  /\ log = [i \in Server |-> IF i = b THEN <<>>
              ELSE <<[term |-> IF i = a THEN 1 ELSE 2, data |-> v]>>]
  /\ state = [i \in Server |-> IF i = b THEN "Follower" ELSE "Leader"]
  /\ lead = [i \in Server |-> IF i = b THEN None ELSE i]
  /\ votes = [i \in Server |-> IF i = b THEN {} ELSE {i, b}]
  /\ pre_votes = votes
  /\ progress = [i \in Server |-> [j \in Server |->
       [match |-> 0, next |-> IF i = a THEN 2 ELSE 1]]]
  /\ pending_writes = [i \in Server |->
       IF i = b THEN {} ELSE {<<1, IF i = a THEN 1 ELSE 2>>}]
  /\ elected = {won(1, a, b), won(2, c, b), won(3, a, b)}
  /\ Unwritten /\ Quiescent

\* c won term 1, and its first entry is committed and acknowledged.  An answer
\* of b is on its way to c, to the first ReadIndex round that c has opened
\* (reading), from which b has also learnt the commit index, or to a heartbeat
\* before any.  Meanwhile a has won term 2 with the vote of b, which c has not
\* heard of.
DeposedBy(a, b, c, v, reading) ==
  LET entry == [term |-> 1, data |-> v]
      told  == IF reading THEN {b, c} ELSE {c} IN
  /\ term = [i \in Server |-> IF i = c THEN 1 ELSE 2]
  /\ voted_for = [i \in Server |-> IF i = c THEN c ELSE a]
  /\ log = [i \in Server |-> <<entry>>]
  /\ state = [i \in Server |-> IF i = b THEN "Follower" ELSE "Leader"]
  /\ lead = [i \in Server |-> IF i = b THEN None ELSE i]
  /\ votes = [i \in Server |-> IF i = b THEN {} ELSE {i, b}]
  /\ pre_votes = votes
  /\ progress = [i \in Server |-> [j \in Server |->
       IF i = c /\ j = b THEN [match |-> 1, next |-> 2]
       ELSE [match |-> 0, next |-> IF i = a THEN 2 ELSE 1]]]
  /\ pending_writes = [i \in Server |-> {}]
  /\ elected = {won(1, c, b), won(2, a, b)}
  /\ commit_index = [i \in Server |-> IF i \in told THEN 1 ELSE 0]
  /\ last_applied = commit_index
  /\ store = [i \in Server |-> IF i \in told THEN <<entry>> ELSE <<>>]
  /\ acked = {<<1, entry>>} /\ observed = 1 /\ served = {}
  /\ next_read_context = [i \in Server |-> IF i = c /\ reading THEN 2 ELSE 1]
  /\ read = [i \in Server |-> IF i = c /\ reading
       THEN [pending |-> TRUE, index |-> 1, context |-> 1, acks |-> {}] ELSE NoRead]
  /\ waiting = [i \in Server |-> IF i = c /\ reading
       THEN {[context |-> 1, index |-> 1, opened |-> TRUE, floor |-> 1]} ELSE {}]
  /\ msgs = {[type |-> "AppendEntriesResponse", from |-> b, to |-> c, term |-> 1,
              success |-> TRUE, match_index |-> 1,
              read_context |-> IF reading THEN 1 ELSE 0]}
  /\ Quiescent

InitElected == ElectedBy(s1, s2)
SpecElected == InitElected /\ [][Next]_vars

InitEstablished == \E v \in Value : EstablishedBy(s1, s2, v)
SpecEstablished == InitEstablished /\ [][Next]_vars

InitContested == \E v \in Value : ContestedBy(s1, s2, s3, v)
SpecContested == InitContested /\ [][Next]_vars

InitDeposed == \E v \in Value : DeposedBy(s1, s2, s3, v, FALSE)
SpecDeposed == InitDeposed /\ [][Next]_vars

InitReading == \E v \in Value : DeposedBy(s1, s2, s3, v, TRUE)
SpecReading == InitReading /\ [][Next]_vars
=============================================================================
