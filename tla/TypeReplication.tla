-------------------------- MODULE TypeReplication ---------------------------
(***************************************************************************)
(* The types and the order of the indices: the steps of replication and of *)
(* the hand-off to the KV loop.                                            *)
(***************************************************************************)
EXTENDS TypeFacts

\* The default prover; leaves with arithmetic or records cite SMT.
USE Zenon

\* What a request of a current leader changes before it is looked at.
LEMMA LeaderRpcTypes ==
  ASSUME TypeInv, NEW i \in Server, NEW m \in Message, prepare_for_leader_rpc(i, m)
  PROVE  /\ term' \in [Server -> Nat] /\ voted_for' \in [Server -> Server \cup {None}]
         /\ state' \in [Server -> State] /\ lead' \in [Server -> Server \cup {None}]
         /\ quiet' \in [Server -> BOOLEAN] /\ pending_pre_vote_term' \in [Server -> Nat]
         /\ read_after_leader_rpc(i, m) \in Round
<1>1. PersistOK /\ RoleOK /\ LoopOK
  BY InvGroups
<1>2. m.from \in Server /\ m.term \in Nat
  BY MessageKinds
<1>3. read_after_leader_rpc(i, m) \in Round
  BY <1>1 DEF read_after_leader_rpc, LoopOK, NoRead, Round
<1> QED BY <1>1, <1>2, <1>3 DEF prepare_for_leader_rpc, PersistOK, RoleOK, State

\* The first new entry of an AppendEntries comes right after an entry of the
\* log, or after its snapshot: the log has no gap there.
LEMMA CutInLog ==
  ASSUME PersistOK, NEW i \in Server, NEW m \in AppendEntries,
         NEW k \in 1 .. Len(m.entries) + 1, log_ok(i, m), first_new(i, m, k),
         k <= Len(m.entries)
  PROVE  m.prev_log_index + k - 1 - log_offset[i] \in 0 .. Len(log[i])
<1>1. /\ m.prev_log_index \in Nat /\ m.entries \in Seq(Entry)
      /\ log[i] \in Seq(Entry) /\ log_offset[i] \in Nat
      /\ Len(log[i]) \in Nat /\ Len(m.entries) \in Nat /\ k \in Nat
  <2>1. m.prev_log_index \in Nat /\ m.entries \in Seq(Entry)
    BY DEF AppendEntries
  <2>2. log[i] \in Seq(Entry) /\ log_offset[i] \in Nat
    BY DEF PersistOK
  <2> QED BY SMT, <2>1, <2>2
<1>2. m.prev_log_index + k > log_offset[i]
  BY DEF first_new, differs
<1>3. CASE k = 1
  <2>1. m.prev_log_index >= log_offset[i]
    BY SMT, <1>1, <1>2, <1>3
  <2>2. m.prev_log_index <= log_offset[i] + Len(log[i])
    BY SMT, <1>1 DEF log_ok, last_log_index
  <2> QED BY SMT, <1>1, <1>3, <2>1, <2>2
<1>4. CASE k > 1
  <2>1. k - 1 \in 1 .. k - 1 /\ ~differs(i, m, k - 1)
    BY SMT, <1>1, <1>4 DEF first_new
  <2>2. \/ m.prev_log_index + (k - 1) <= log_offset[i]
        \/ m.prev_log_index + (k - 1) <= last_log_index(i)
    BY SMT, <1>1, <2>1 DEF differs, last_log_index
  <2> QED BY SMT, <1>1, <1>2, <1>4, <2>2 DEF last_log_index
<1> QED BY SMT, <1>1, <1>3, <1>4

\* The log after the new entries of an AppendEntries have been written: it is
\* a log, it ends where the request ends, and it is not cut below what was
\* there before the first new entry.
LEMMA SplicedLogOK ==
  ASSUME PersistOK, NEW i \in Server, NEW m \in AppendEntries,
         NEW k \in 1 .. Len(m.entries) + 1, log_ok(i, m), first_new(i, m, k)
  PROVE  /\ spliced_log(i, m, k) \in Seq(Entry)
         /\ k <= Len(m.entries) =>
              log_offset[i] + Len(spliced_log(i, m, k)) =
                m.prev_log_index + Len(m.entries)
         /\ k > Len(m.entries) => spliced_log(i, m, k) = log[i]
<1>1. /\ m.prev_log_index \in Nat /\ m.entries \in Seq(Entry)
      /\ log[i] \in Seq(Entry) /\ log_offset[i] \in Nat
      /\ Len(log[i]) \in Nat /\ Len(m.entries) \in Nat /\ k \in Nat
  <2>1. m.prev_log_index \in Nat /\ m.entries \in Seq(Entry)
    BY DEF AppendEntries
  <2>2. log[i] \in Seq(Entry) /\ log_offset[i] \in Nat
    BY DEF PersistOK
  <2> QED BY SMT, <2>1, <2>2
<1>2. CASE k > Len(m.entries)
  BY SMT, <1>1, <1>2 DEF spliced_log
<1>3. CASE k <= Len(m.entries)
  <2> DEFINE n == m.prev_log_index + k - 1 - log_offset[i]
  <2>1. n \in Int /\ n >= 0 /\ n <= Len(log[i])
    BY SMT, <1>1, <1>3, CutInLog
  <2>2. /\ SubSeq(log[i], 1, n) \in Seq(Entry) /\ Len(SubSeq(log[i], 1, n)) = n
    BY SMT, <1>1, <2>1, SliceOK
  <2>3. /\ new_entries(m, k) \in Seq(Entry)
        /\ Len(new_entries(m, k)) = Len(m.entries) - k + 1
    <3>1. k >= 1 /\ Len(m.entries) <= Len(m.entries)
      BY SMT, <1>1
    <3>2. /\ SubSeq(m.entries, k, Len(m.entries)) \in Seq(Entry)
          /\ Len(SubSeq(m.entries, k, Len(m.entries))) = Len(m.entries) - k + 1
      BY SMT, <1>1, <1>3, <3>1, SliceOK
    <3> QED BY <3>2 DEF new_entries
  <2>4. spliced_log(i, m, k) = SubSeq(log[i], 1, n) \o new_entries(m, k)
    <3>1. ~(k > Len(m.entries))
      BY SMT, <1>1, <1>3
    <3> QED BY <3>1, Zenon DEF spliced_log
  <2> HIDE DEF n
  <2>5. /\ spliced_log(i, m, k) \in Seq(Entry)
        /\ Len(spliced_log(i, m, k)) = n + (Len(m.entries) - k + 1)
    BY <2>2, <2>3, <2>4, ConcatOK
  <2>6. log_offset[i] + (n + (Len(m.entries) - k + 1)) = m.prev_log_index + Len(m.entries)
    BY SMT, <1>1 DEF n
  <2> QED BY SMT, <1>1, <1>3, <2>5, <2>6
<1> QED BY SMT, <1>1, <1>2, <1>3

\* The log that handle_append_entries builds still reaches the commit index,
\* which never goes back.
LEMMA FollowerCommitOK ==
  ASSUME PersistOK, IndicesInOrder, NEW i \in Server, NEW m \in AppendEntries,
         NEW k \in 1 .. Len(m.entries) + 1, log_ok(i, m), first_new(i, m, k),
         ~overwrites_committed(i, m, k), NEW lg, lg = spliced_log(i, m, k),
         NEW c, c = follower_commit(i, m, lg)
  PROVE  /\ lg \in Seq(Entry) /\ Len(lg) \in Nat
         /\ commit_index[i] <= log_offset[i] + Len(lg)
         /\ c \in Nat /\ commit_index[i] <= c /\ c <= log_offset[i] + Len(lg)
<1>1. /\ commit_index[i] \in Nat /\ log_offset[i] \in Nat /\ log[i] \in Seq(Entry)
      /\ commit_index[i] <= log_offset[i] + Len(log[i])
  BY DEF PersistOK, IndicesInOrder, last_log_index
<1>2. m.prev_log_index \in Nat /\ m.entries \in Seq(Entry) /\ m.leader_commit \in Nat
  BY DEF AppendEntries
<1>3. lg \in Seq(Entry)
  BY SplicedLogOK
<1>4. Len(lg) \in Nat /\ Len(m.entries) \in Nat /\ k \in Nat
  BY SMT, <1>2, <1>3
<1>5. commit_index[i] <= log_offset[i] + Len(lg)
  <2>1. CASE k <= Len(m.entries)
    <3>1. log_offset[i] + Len(lg) = m.prev_log_index + Len(m.entries)
      BY <2>1, SplicedLogOK
    <3>2. m.prev_log_index + k > commit_index[i]
      BY SMT, <1>1, <1>2, <1>4, <2>1 DEF overwrites_committed
    <3> QED BY SMTT(30), <1>1, <1>2, <1>4, <2>1, <3>1, <3>2
  <2>2. CASE k > Len(m.entries)
    <3>1. lg = log[i]
      BY <2>2, SplicedLogOK
    <3> QED BY <1>1, <3>1
  <2> QED BY SMT, <1>4, <2>1, <2>2
<1> DEFINE last == log_offset[i] + Len(lg)
<1>6. last \in Nat /\ commit_index[i] <= last
  BY SMT, <1>1, <1>4, <1>5
<1>7. c = IF m.leader_commit > commit_index[i]
            THEN IF m.leader_commit < last THEN m.leader_commit ELSE last
            ELSE commit_index[i]
  BY DEF follower_commit
<1> HIDE DEF last
<1>8. c \in Nat /\ commit_index[i] <= c /\ c <= last
  BY SMT, <1>1, <1>2, <1>6, <1>7
<1> QED BY <1>3, <1>4, <1>5, <1>8 DEF last

\* An answer to AppendEntries is a well-formed message.
LEMMA AppendResponseOK ==
  ASSUME NEW i \in Server, NEW m \in AppendEntries, NEW t \in Nat,
         NEW success \in BOOLEAN, NEW x \in Nat
  PROVE  {append_response(i, m, t, success, x)} \in SUBSET Message
<1>1. m.from \in Server /\ m.read_context \in Nat
  BY DEF AppendEntries
<1>2. append_response(i, m, t, success, x) \in AppendEntriesResponse
  BY <1>1 DEF append_response, AppendEntriesResponse
<1> QED BY <1>2 DEF Message

\* The invariant survives handle_append_entries.
LEMMA AppendEntriesTypes ==
  ASSUME TypeInv, NEW i \in Server, NEW m \in msgs, handle_append_entries(i, m)
  PROVE  TypeInv'
<1>1. PersistOK /\ RoleOK /\ ApplyOK /\ LoopOK /\ EnvOK /\ WalsOK /\ IndicesInOrder
  BY InvGroups
<1>2. m \in Message /\ m.term \in Nat /\ m \in AppendEntries
  BY <1>1, MessageKinds DEF LoopOK, handle_append_entries, Delivered
<1>3. /\ UNCHANGED <<log_offset, log_offset_term, snapshot, votes, pre_votes,
                     progress, next_read_context, elected>>
      /\ ApplyOK' /\ EnvOK' /\ last_applied' = last_applied
  BY <1>1 DEF handle_append_entries, ApplyOK, EnvOK, applyVars, envVars
<1>4. /\ term[i] \in Nat /\ commit_index[i] \in Nat /\ read[i] \in Round
      /\ log[i] \in Seq(Entry) /\ log_offset[i] \in Nat /\ Len(log[i]) \in Nat
      /\ m.prev_log_index \in Nat /\ m.entries \in Seq(Entry)
      /\ Len(m.entries) \in Nat /\ m.leader_commit \in Nat
  <2>1. /\ m.prev_log_index \in Nat /\ m.entries \in Seq(Entry) /\ m.leader_commit \in Nat
    BY <1>2 DEF AppendEntries
  <2>2. /\ term[i] \in Nat /\ commit_index[i] \in Nat /\ read[i] \in Round
        /\ log[i] \in Seq(Entry) /\ log_offset[i] \in Nat
    BY <1>1 DEF PersistOK, LoopOK
  <2> QED BY SMT, <2>1, <2>2
<1>5. WalImageOK(newer_term_image(i, m))
  BY <1>1, <1>2, NewerTermOK
<1>6. CASE /\ m.term < term[i]
           /\ UNCHANGED <<term, voted_for, state, lead, quiet,
                          pending_pre_vote_term, commit_index, log, disk>>
           /\ after_raft_activity(i, read[i], {m},
                                  {append_response(i, m, term[i], FALSE, 0)})
  <2>1. PersistOK' /\ RoleOK' /\ WalsOK'
    BY <1>1, <1>3, <1>6 DEF PersistOK, RoleOK, WalsOK, WalImageOK
  <2>2. IndicesInOrder'
    BY <1>1, <1>3, <1>6, IndicesKept
  <2>3. {append_response(i, m, term[i], FALSE, 0)} \in SUBSET Message
    BY <1>2, <1>4, AppendResponseOK
  <2>4. LoopOK'
    BY <1>1, <1>3, <1>4, <1>6, <2>1, <2>2, <2>3, AfterOK
  <2> QED BY <1>3, <2>1, <2>2, <2>4, InvFromGroups
<1>7. ASSUME prepare_for_leader_rpc(i, m), Persist(i, newer_term_image(i, m)),
             UNCHANGED <<commit_index, log>>, NEW x \in Nat,
             after_raft_activity(i, read_after_leader_rpc(i, m), {m},
                                 {append_response(i, m, m.term, FALSE, x)})
      PROVE  TypeInv'
  <2>1. PersistOK' /\ RoleOK' /\ read_after_leader_rpc(i, m) \in Round
    BY <1>1, <1>2, <1>3, <1>7, LeaderRpcTypes DEF PersistOK, RoleOK
  <2>2. WalsOK'
    BY <1>1, <1>5, <1>7, PersistKeepsWalsOK
  <2>3. IndicesInOrder'
    BY <1>1, <1>3, <1>7, IndicesKept
  <2>4. {append_response(i, m, m.term, FALSE, x)} \in SUBSET Message
    BY <1>2, AppendResponseOK
  <2>5. LoopOK'
    BY <1>1, <1>3, <1>7, <2>1, <2>3, <2>4, AfterOK
  <2> QED BY <1>3, <2>1, <2>2, <2>3, <2>5, InvFromGroups
<1>8. ASSUME prepare_for_leader_rpc(i, m), log_ok(i, m),
             NEW k \in 1 .. Len(m.entries) + 1, first_new(i, m, k),
             ~overwrites_committed(i, m, k), NEW lg, lg = spliced_log(i, m, k),
             NEW c, c = follower_commit(i, m, lg),
             log' = [log EXCEPT ![i] = lg],
             commit_index' = [commit_index EXCEPT ![i] = c],
             Persist(i, append_image(i, m, k, c)),
             after_raft_activity(i, read_after_leader_rpc(i, m), {m},
               {append_response(i, m, m.term, TRUE, m.prev_log_index + Len(m.entries))})
      PROVE  TypeInv'
  <2>1. lg \in Seq(Entry) /\ Len(lg) \in Nat
    BY <1>1, <1>2, <1>8, FollowerCommitOK
  <2>2. c \in Nat /\ commit_index[i] <= c /\ c <= log_offset[i] + Len(lg)
    BY <1>1, <1>2, <1>8, FollowerCommitOK
  <2>3. PersistOK' /\ RoleOK' /\ read_after_leader_rpc(i, m) \in Round
    BY <1>1, <1>2, <1>3, <1>8, <2>1, <2>2, LeaderRpcTypes DEF PersistOK, RoleOK
  <2>4. IndicesInOrder'
    <3> SUFFICES ASSUME NEW j \in Server
                 PROVE  /\ log_offset'[j] <= last_applied'[j]
                        /\ last_applied'[j] <= commit_index'[j]
                        /\ commit_index'[j] <= log_offset'[j] + Len(log'[j])
      BY DEF IndicesInOrder, last_log_index
    <3>1. /\ log_offset[j] <= last_applied[j]
          /\ last_applied[j] <= commit_index[j]
          /\ commit_index[j] <= log_offset[j] + Len(log[j])
          /\ log_offset[j] \in Nat /\ last_applied[j] \in Nat /\ commit_index[j] \in Nat
      BY <1>1 DEF IndicesInOrder, last_log_index, PersistOK, ApplyOK
    <3>2. CASE j = i
      <4>1. commit_index'[j] = c /\ log'[j] = lg
        BY <1>1, <1>8, <3>2 DEF PersistOK
      <4> QED BY SMT, <1>3, <2>1, <2>2, <3>1, <3>2, <4>1
    <3>3. CASE j # i
      <4>1. commit_index'[j] = commit_index[j] /\ log'[j] = log[j]
        BY <1>1, <1>8, <3>3 DEF PersistOK
      <4> QED BY <1>3, <3>1, <4>1
    <3> QED BY <3>2, <3>3
  <2>5. WalsOK'
    <3>1. new_entries(m, k) \in Seq(Entry) /\ m.prev_log_index + k \in Nat
      <4>1. k \in Nat /\ k >= 1 /\ Len(m.entries) <= Len(m.entries)
        BY SMT, <1>4, <1>8
      <4>2. SubSeq(m.entries, k, Len(m.entries)) \in Seq(Entry)
        BY SMT, <1>4, <4>1, SliceOK
      <4> QED BY SMT, <1>4, <4>1, <4>2 DEF new_entries
    <3>2. WalImageOK(append_entries_saved(i, m, k))
      BY <1>5, <3>1, SaveEntriesOK DEF append_entries_saved
    <3>3. standing_vote(i, m) \in Server \cup {None}
      BY <1>1 DEF standing_vote, PersistOK
    <3>4. WalImageOK(append_image(i, m, k, c))
      BY <1>2, <2>2, <3>2, <3>3, SaveHardStateOK DEF append_image
    <3> QED BY <1>1, <1>8, <3>4, PersistKeepsWalsOK
  <2>6. LoopOK'
    <3>1. {append_response(i, m, m.term, TRUE, m.prev_log_index + Len(m.entries))}
            \in SUBSET Message
      <4>1. m.prev_log_index + Len(m.entries) \in Nat
        BY SMT, <1>4
      <4> QED BY <1>2, <4>1, AppendResponseOK
    <3> QED BY <1>1, <1>3, <1>8, <2>3, <2>4, <3>1, AfterOK
  <2> QED BY <1>3, <2>3, <2>4, <2>5, <2>6, InvFromGroups
<1>9. CASE /\ prepare_for_leader_rpc(i, m)
           /\ ~log_ok(i, m)
           /\ Persist(i, newer_term_image(i, m))
           /\ UNCHANGED <<commit_index, log>>
           /\ after_raft_activity(i, read_after_leader_rpc(i, m), {m},
                                  {append_response(i, m, m.term, FALSE, 0)})
  BY <1>7, <1>9
<1>10. ASSUME prepare_for_leader_rpc(i, m), log_ok(i, m),
              NEW k \in 1 .. Len(m.entries) + 1, first_new(i, m, k),
              overwrites_committed(i, m, k),
              Persist(i, newer_term_image(i, m)), UNCHANGED <<commit_index, log>>,
              after_raft_activity(i, read_after_leader_rpc(i, m), {m},
                {append_response(i, m, m.term, FALSE, commit_index[i])})
       PROVE  TypeInv'
  BY <1>4, <1>7, <1>10
<1> QED BY <1>6, <1>8, <1>9, <1>10, Zenon DEF handle_append_entries

\* A follower's acknowledgement leaves a well-formed progress map.
LEMMA ProgressAfterOK ==
  ASSUME RoleOK, NEW i \in Server, NEW m, m.from \in Server, m.match_index \in Nat
  PROVE  progress_after(i, m) \in [Server -> Progress]
<1>1. progress[i] \in [Server -> Progress]
  BY DEF RoleOK
<1>2. [match |-> m.match_index, next |-> m.match_index + 1] \in Progress
  BY SMT DEF Progress
<1> QED BY <1>1, <1>2 DEF progress_after

\* The invariant survives a successful answer in handle_append_entries_response.
LEMMA AppendAcceptedTypes ==
  ASSUME TypeInv, NEW i \in Server, NEW m \in msgs, AppendAccepted(i, m)
  PROVE  TypeInv'
<1>1. PersistOK /\ RoleOK /\ ApplyOK /\ LoopOK /\ EnvOK /\ WalsOK /\ IndicesInOrder
  BY InvGroups
<1>2. m \in AppendEntriesResponse
  BY <1>1, MessageKinds DEF LoopOK, AppendAccepted, acknowledges, Delivered
<1>3. m.from \in Server /\ m.match_index \in Nat
  BY <1>2 DEF AppendEntriesResponse
<1>4. PICK c \in committable(i, progress_after(i, m)) \cup {commit_index[i]} :
        /\ commit_index' = [commit_index EXCEPT ![i] = c]
        /\ Persist(i, commit_image(i, c))
  BY DEF AppendAccepted
<1>5. /\ term[i] \in Nat /\ voted_for[i] \in Server \cup {None}
      /\ commit_index[i] \in Nat /\ log_offset[i] \in Nat
      /\ Len(log[i]) \in Nat /\ read[i] \in Round /\ WalImageOK(disk[i])
  BY SMT, <1>1 DEF PersistOK, LoopOK, WalsOK
<1>6. c \in Nat /\ commit_index[i] <= c /\ c <= log_offset[i] + Len(log[i])
  BY SMT, <1>1, <1>4, <1>5 DEF committable, IndicesInOrder, last_log_index
<1>7. PersistOK' /\ ApplyOK' /\ EnvOK'
  BY <1>1, <1>4, <1>6
     DEF AppendAccepted, PersistOK, ApplyOK, EnvOK, applyVars, envVars
<1>8. RoleOK'
  <2>1. progress_after(i, m) \in [Server -> Progress]
    BY <1>1, <1>3, ProgressAfterOK
  <2> QED BY <1>1, <2>1 DEF AppendAccepted, RoleOK, roleVars, ballotVars
<1>9. IndicesInOrder'
  <2>1. UNCHANGED <<log, log_offset, last_applied>>
    BY DEF AppendAccepted, applyVars
  <2> SUFFICES ASSUME NEW j \in Server
               PROVE  /\ log_offset'[j] <= last_applied'[j]
                      /\ last_applied'[j] <= commit_index'[j]
                      /\ commit_index'[j] <= log_offset'[j] + Len(log'[j])
    BY DEF IndicesInOrder, last_log_index
  <2>2. /\ log_offset[j] <= last_applied[j]
        /\ last_applied[j] <= commit_index[j]
        /\ commit_index[j] <= log_offset[j] + Len(log[j])
        /\ last_applied[j] \in Nat /\ commit_index[j] \in Nat
    BY <1>1 DEF IndicesInOrder, last_log_index, PersistOK, ApplyOK
  <2>3. commit_index'[j] = IF j = i THEN c ELSE commit_index[j]
    BY <1>1, <1>4 DEF PersistOK
  <2> QED BY SMT, <1>6, <2>1, <2>2, <2>3
<1>10. WalsOK'
  <2>1. WalImageOK(commit_image(i, c))
    BY <1>5, <1>6, SaveHardStateOK DEF commit_image
  <2> QED BY <1>1, <1>4, <2>1, PersistKeepsWalsOK
<1>11. LoopOK'
  <2>1. read_after_ack(i, m) \in Round /\ {} \in SUBSET Message
    BY <1>3, <1>5 DEF read_after_ack, Round
  <2> QED BY <1>1, <1>7, <1>9, <2>1, AfterOK DEF AppendAccepted
<1> QED BY <1>7, <1>8, <1>9, <1>10, <1>11, InvFromGroups

\* The invariant survives a refusal in handle_append_entries_response.
LEMMA AppendRejectedTypes ==
  ASSUME TypeInv, NEW i \in Server, NEW m \in msgs, AppendRejected(i, m)
  PROVE  TypeInv'
<1> DEFINE next == IF progress[i][m.from].next > 1 THEN progress[i][m.from].next - 1
                                                   ELSE progress[i][m.from].next
           pr == [progress[i] EXCEPT ![m.from].next = next]
           out == IF log_offset[i] > 0 /\ next <= log_offset[i]
                    THEN {make_install_snapshot(i, m.from)}
                    ELSE broadcast_heartbeat(i, log[i], pr, read[i])
<1>1. PersistOK /\ RoleOK /\ ApplyOK /\ LoopOK /\ EnvOK /\ WalsOK /\ IndicesInOrder
  BY InvGroups
<1>2. m.from \in Server
  BY <1>1, MessageKinds DEF LoopOK
<1>3. /\ progress' = [progress EXCEPT ![i] = pr]
      /\ after_raft_activity(i, read[i], {m}, out)
      /\ UNCHANGED <<roleVars, next_read_context, elected>>
  BY DEF AppendRejected
<1>4. pr \in [Server -> Progress]
  <2>1. progress[i] \in [Server -> Progress]
    BY <1>1 DEF RoleOK
  <2>2. progress[i][m.from] \in Progress
    BY <1>2, <2>1
  <2>3. next \in Nat \ {0}
    BY SMT, <2>2 DEF Progress
  <2> HIDE DEF next
  <2>4. [progress[i][m.from] EXCEPT !.next = next] \in Progress
    BY <2>2, <2>3 DEF Progress
  <2>5. pr = [progress[i] EXCEPT ![m.from] = [progress[i][m.from] EXCEPT !.next = next]]
    BY <1>2, <2>1
  <2> QED BY <1>2, <2>1, <2>4, <2>5
<1>5. PersistOK' /\ ApplyOK' /\ EnvOK' /\ WalsOK'
  BY <1>1 DEF AppendRejected, PersistOK, ApplyOK, EnvOK, WalsOK, WalImageOK,
              persistVars, applyVars, envVars
<1>6. IndicesInOrder'
  BY <1>1, IndicesKept DEF AppendRejected, persistVars, applyVars
<1>7. out \in SUBSET Message
  <2>1. log[i] \in Seq(Entry) /\ read[i] \in Round
    BY <1>1 DEF PersistOK, LoopOK
  <2> HIDE DEF pr, next
  <2>2. broadcast_heartbeat(i, log[i], pr, read[i]) \in SUBSET Message
    BY <1>1, <1>4, <2>1, BroadcastOK
  <2>3. make_install_snapshot(i, m.from) \in InstallSnapshot
    BY <1>1, <1>2 DEF make_install_snapshot, InstallSnapshot, PersistOK
  <2> QED BY <2>2, <2>3 DEF Message
<1> HIDE DEF pr, out, next
<1>8. RoleOK'
  BY <1>1, <1>3, <1>4 DEF RoleOK, roleVars, ballotVars
<1>9. LoopOK'
  <2>1. read[i] \in Round
    BY <1>1 DEF LoopOK
  <2> QED BY <1>1, <1>3, <1>5, <1>6, <1>7, <2>1, AfterOK
<1> QED BY <1>5, <1>6, <1>8, <1>9, InvFromGroups

\* propose(): the log and the WAL get one entry more.
LEMMA ProposeOK ==
  ASSUME TypeInv, NEW i \in Server, NEW v \in Value \cup {NoOp},
         log' = [log EXCEPT ![i] = Append(log[i], proposal(i, v))],
         Persist(i, propose_image(i, v)),
         UNCHANGED <<term, voted_for, commit_index, log_offset, log_offset_term,
                     snapshot, last_applied>>
  PROVE  /\ Append(log[i], proposal(i, v)) \in Seq(Entry)
         /\ PersistOK' /\ IndicesInOrder' /\ WalsOK'
<1>1. PersistOK /\ ApplyOK /\ WalsOK /\ IndicesInOrder
  BY InvGroups
<1>2. /\ term[i] \in Nat /\ log[i] \in Seq(Entry) /\ Len(log[i]) \in Nat
      /\ log_offset[i] \in Nat /\ WalImageOK(disk[i])
  BY SMT, <1>1 DEF PersistOK, WalsOK
<1>3. proposal(i, v) \in Entry
  BY <1>2 DEF proposal, Entry
<1>4. /\ Append(log[i], proposal(i, v)) \in Seq(Entry)
      /\ Len(Append(log[i], proposal(i, v))) = Len(log[i]) + 1
  BY SMT, <1>2, <1>3
<1>5. PersistOK'
  BY <1>1, <1>4 DEF PersistOK
<1>6. IndicesInOrder'
  <2> SUFFICES ASSUME NEW j \in Server
               PROVE  /\ log_offset'[j] <= last_applied'[j]
                      /\ last_applied'[j] <= commit_index'[j]
                      /\ commit_index'[j] <= log_offset'[j] + Len(log'[j])
    BY DEF IndicesInOrder, last_log_index
  <2>1. /\ log_offset[j] <= last_applied[j]
        /\ last_applied[j] <= commit_index[j]
        /\ commit_index[j] <= log_offset[j] + Len(log[j])
        /\ log_offset[j] \in Nat /\ commit_index[j] \in Nat
    BY <1>1 DEF IndicesInOrder, last_log_index, PersistOK
  <2>2. log'[j] = IF j = i THEN Append(log[i], proposal(i, v)) ELSE log[j]
    BY <1>1 DEF PersistOK
  <2> QED BY SMT, <1>2, <1>4, <2>1, <2>2
<1>7. WalsOK'
  <2>1. <<proposal(i, v)>> \in Seq(Entry) /\ last_log_index(i) + 1 \in Nat
    BY SMTT(30), <1>2, <1>3 DEF last_log_index
  <2>2. WalImageOK(propose_image(i, v))
    BY <1>2, <2>1, SaveEntriesOK DEF propose_image
  <2> QED BY <1>1, <2>2, PersistKeepsWalsOK
<1> QED BY <1>4, <1>5, <1>6, <1>7

\* The invariant survives propose.
LEMMA ProposeTypes ==
  ASSUME TypeInv, NEW i \in Server, NEW v \in Value, Propose(i, v)
  PROVE  TypeInv'
<1> DEFINE lg == Append(log[i], proposal(i, v))
<1>1. PersistOK /\ RoleOK /\ ApplyOK /\ LoopOK /\ EnvOK /\ WalsOK /\ IndicesInOrder
  BY InvGroups
<1>2. /\ log' = [log EXCEPT ![i] = lg]
      /\ Persist(i, propose_image(i, v))
      /\ pending_writes' = [pending_writes EXCEPT ![i] =
                              @ \cup {<<last_log_index(i) + 1, term[i]>>}]
      /\ UNCHANGED <<term, voted_for, commit_index, log_offset, log_offset_term,
                     snapshot, roleVars, progress, next_read_context,
                     last_applied, store, acked, envVars, elected>>
      /\ after_raft_activity(i, read[i], {},
                             broadcast_heartbeat(i, lg, progress[i], read[i]))
  BY DEF Propose
<1>3. lg \in Seq(Entry) /\ PersistOK' /\ IndicesInOrder' /\ WalsOK'
  BY <1>2, ProposeOK
<1> HIDE DEF lg
<1>4. RoleOK' /\ EnvOK'
  BY <1>1, <1>2 DEF RoleOK, EnvOK, roleVars, ballotVars, envVars
<1>5. ApplyOK'
  <2>1. last_log_index(i) + 1 \in Nat /\ term[i] \in Nat
    BY SMT, <1>1 DEF last_log_index, PersistOK
  <2>2. pending_writes[i] \cup {<<last_log_index(i) + 1, term[i]>>} \in SUBSET (Nat \X Nat)
    BY SMT, <1>1, <2>1 DEF ApplyOK
  <2> QED BY <1>1, <1>2, <2>2 DEF ApplyOK
<1>6. LoopOK'
  <2>1. progress[i] \in [Server -> Progress] /\ read[i] \in Round
    BY <1>1 DEF RoleOK, LoopOK
  <2>2. broadcast_heartbeat(i, lg, progress[i], read[i]) \in SUBSET Message
    BY <1>1, <1>3, <2>1, BroadcastOK
  <2> QED BY <1>1, <1>2, <1>3, <1>5, <2>1, <2>2, AfterOK
<1> QED BY <1>3, <1>4, <1>5, <1>6, InvFromGroups

\* The invariant survives apply_committed_entry.
LEMMA ApplyCommittedEntryTypes ==
  ASSUME TypeInv, NEW i \in Server, ApplyCommittedEntry(i)
  PROVE  TypeInv'
<1> DEFINE x == apply_in_flight[i][1]
           e == apply_in_flight[i][2]
<1>1. PersistOK /\ RoleOK /\ ApplyOK /\ LoopOK /\ EnvOK /\ WalsOK /\ IndicesInOrder
  BY InvGroups
<1>2. x \in Nat /\ e \in Entry
  <2>1. apply_in_flight[i] \in Nat \X Entry
    BY <1>1 DEF LoopOK, ApplyCommittedEntry
  <2> QED BY <2>1
<1>3. /\ store' = [store EXCEPT ![i] = Append(store[i], e)]
      /\ \/ /\ acked' = acked \cup {<<x, e>>}
            /\ pending_writes' = [pending_writes EXCEPT ![i] = @ \ {<<x, e.term>>}]
            /\ observed' = IF x > observed THEN x ELSE observed
         \/ UNCHANGED <<acked, pending_writes, observed>>
      /\ UNCHANGED <<persistVars, roleVars, progress, next_read_context,
                 last_applied, apply_in_flight, capture, read, waiting, served,
                 envVars, disk, msgs, elected>>
  BY DEF ApplyCommittedEntry
<1> HIDE DEF x, e
<1>4. PersistOK' /\ RoleOK' /\ EnvOK' /\ WalsOK'
  BY <1>1, <1>3 DEF PersistOK, RoleOK, EnvOK, WalsOK, WalImageOK,
                    persistVars, roleVars, ballotVars, envVars
<1>5. IndicesInOrder'
  BY <1>1, <1>3, IndicesKept DEF persistVars
<1>6. ApplyOK'
  <2>1. Append(store[i], e) \in Seq(Entry)
    BY SMT, <1>1, <1>2 DEF ApplyOK
  <2>2. store' \in [Server -> Seq(Entry)] /\ last_applied' \in [Server -> Nat]
    BY <1>1, <1>3, <2>1 DEF ApplyOK
  <2>3. acked' \subseteq Nat \X Entry /\ pending_writes' \in [Server -> SUBSET (Nat \X Nat)]
    <3>1. pending_writes[i] \ {<<x, e.term>>} \in SUBSET (Nat \X Nat)
      BY <1>1 DEF ApplyOK
    <3>2. pending_writes' \in [Server -> SUBSET (Nat \X Nat)]
      BY <1>1, <1>3, <3>1 DEF ApplyOK
    <3>3. acked' \subseteq Nat \X Entry
      BY SMT, <1>1, <1>2, <1>3 DEF ApplyOK
    <3> QED BY <3>2, <3>3
  <2> QED BY <2>2, <2>3 DEF ApplyOK
<1>7. LoopOK'
  BY <1>1, <1>2, <1>3 DEF LoopOK
<1> QED BY <1>4, <1>5, <1>6, <1>7, InvFromGroups

\* The invariant survives acknowledge_applied.
LEMMA AcknowledgeAppliedTypes ==
  ASSUME TypeInv, NEW i \in Server, AcknowledgeApplied(i)
  PROVE  TypeInv'
<1> DEFINE x == apply_in_flight[i][1]
<1>1. PersistOK /\ RoleOK /\ ApplyOK /\ LoopOK /\ EnvOK /\ WalsOK /\ IndicesInOrder
  BY InvGroups
<1>2. /\ x = last_applied[i] + 1 /\ x <= commit_index[i]
      /\ last_applied' = [last_applied EXCEPT ![i] = x]
      /\ UNCHANGED <<persistVars, roleVars, progress, next_read_context, store,
                     pending_writes, acked, envVars, disk, elected>>
      /\ dispatch_next_committed_entry(i, NoApply)
      /\ poll_read_indexes(i, read[i], waiting[i])
      /\ maybe_capture_snapshot(i, capture[i])
      /\ flush_raft_messages({}, {})
  BY DEF AcknowledgeApplied
<1> HIDE DEF x
<1>3. x \in Nat
  BY SMTT(30), <1>1, <1>2 DEF ApplyOK
<1>4. PersistOK' /\ RoleOK' /\ EnvOK' /\ WalsOK'
  BY <1>1, <1>2 DEF PersistOK, RoleOK, EnvOK, WalsOK, WalImageOK,
                    persistVars, roleVars, ballotVars, envVars
<1>5. ApplyOK'
  BY <1>1, <1>2, <1>3 DEF ApplyOK
<1>6. IndicesInOrder'
  <2>1. UNCHANGED <<commit_index, log, log_offset>>
    BY <1>2 DEF persistVars
  <2> SUFFICES ASSUME NEW j \in Server
               PROVE  /\ log_offset'[j] <= last_applied'[j]
                      /\ last_applied'[j] <= commit_index'[j]
                      /\ commit_index'[j] <= log_offset'[j] + Len(log'[j])
    BY DEF IndicesInOrder, last_log_index
  <2>2. /\ log_offset[j] <= last_applied[j]
        /\ last_applied[j] <= commit_index[j]
        /\ commit_index[j] <= log_offset[j] + Len(log[j])
        /\ log_offset[j] \in Nat /\ last_applied[j] \in Nat
    BY <1>1 DEF IndicesInOrder, last_log_index, PersistOK, ApplyOK
  <2>3. last_applied'[j] = IF j = i THEN x ELSE last_applied[j]
    BY <1>1, <1>2 DEF ApplyOK
  <2> QED BY SMTT(30), <1>2, <2>1, <2>2, <2>3
<1>7. LoopOK'
  <2>1. /\ read[i] \in Round /\ waiting[i] \in SUBSET Read /\ capture[i] \in Capture
    BY <1>1 DEF LoopOK
  <2>2. apply_in_flight' \in [Server -> {NoApply} \cup (Nat \X Entry)]
    BY <1>1, <1>2, <1>4, <1>5, <1>6, DispatchOK
  <2>3. /\ read' \in [Server -> Round] /\ waiting' \in [Server -> SUBSET Read]
        /\ observed' \in Nat /\ served' \subseteq [opened : BOOLEAN, stale : BOOLEAN]
    BY <1>1, <1>2, <1>5, <2>1, PollOK
  <2>4. capture' \in [Server -> Capture]
    BY <1>1, <1>2, <2>1, CaptureOK
  <2>5. msgs' \subseteq Message
    <3>1. {} \in SUBSET Message
      OBVIOUS
    <3> QED BY <1>1, <1>2, <3>1, FlushOK
  <2> QED BY <2>2, <2>3, <2>4, <2>5 DEF LoopOK
<1> QED BY <1>4, <1>5, <1>6, <1>7, InvFromGroups

\* The invariant survives the expiry of a pending write.
LEMMA ExpireWriteTypes ==
  ASSUME TypeInv, NEW i \in Server, ExpireWrite(i)
  PROVE  TypeInv'
<1>1. PersistOK /\ RoleOK /\ ApplyOK /\ LoopOK /\ EnvOK /\ WalsOK /\ IndicesInOrder
  BY InvGroups
<1>2. PICK w \in pending_writes[i] :
        pending_writes' = [pending_writes EXCEPT ![i] = @ \ {w}]
  BY DEF ExpireWrite
<1>3. PersistOK' /\ RoleOK' /\ WalsOK' /\ EnvOK'
  <2>1. /\ timeouts' = timeouts + 1
        /\ UNCHANGED <<persistVars, roleVars, progress, next_read_context, up,
                       crashes, disk, elected>>
    BY DEF ExpireWrite
  <2>2. EnvOK'
    BY SMT, <1>1, <2>1 DEF EnvOK
  <2>3. PersistOK' /\ WalsOK'
    BY <1>1, <2>1 DEF PersistOK, WalsOK, WalImageOK, persistVars
  <2>4. RoleOK'
    BY <1>1, <2>1 DEF RoleOK, roleVars, ballotVars
  <2> QED BY <2>2, <2>3, <2>4
<1>4. LoopOK'
  BY <1>1 DEF ExpireWrite, LoopOK, loopVars, readVars
<1>5. IndicesInOrder'
  BY <1>1, IndicesKept DEF ExpireWrite, persistVars
<1>6. ApplyOK'
  <2>1. pending_writes[i] \ {w} \in SUBSET (Nat \X Nat)
    BY <1>1 DEF ApplyOK
  <2>2. pending_writes' \in [Server -> SUBSET (Nat \X Nat)]
    BY <1>1, <1>2, <2>1 DEF ApplyOK
  <2> QED BY <1>1, <2>2 DEF ExpireWrite, ApplyOK
<1> QED BY <1>3, <1>4, <1>5, <1>6, InvFromGroups
=============================================================================
