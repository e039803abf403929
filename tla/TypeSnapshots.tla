--------------------------- MODULE TypeSnapshots ----------------------------
(***************************************************************************)
(* The types and the order of the indices: the steps that take and install *)
(* snapshots.                                                              *)
(***************************************************************************)
EXTENDS TypeReplication

\* The default prover; leaves with arithmetic or records cite SMT.
USE Zenon

\* The serialized KV state is a capture.
LEMMA SerializedOK ==
  ASSUME ApplyOK, NEW i \in Server
  PROVE  serialized(i) \in Capture
  BY DEF ApplyOK, serialized, Capture

\* The invariant survives serializing the KV state.
LEMMA CaptureSnapshotTypes ==
  ASSUME TypeInv, NEW i \in Server, CaptureSnapshot(i)
  PROVE  TypeInv'
<1>1. PersistOK /\ RoleOK /\ ApplyOK /\ LoopOK /\ EnvOK /\ WalsOK /\ IndicesInOrder
  BY InvGroups
<1>2. PersistOK' /\ RoleOK' /\ ApplyOK' /\ WalsOK' /\ EnvOK'
  BY <1>1 DEF CaptureSnapshot, PersistOK, RoleOK, ApplyOK, EnvOK, WalsOK, WalImageOK,
              persistVars, roleVars, ballotVars, applyVars, envVars
<1>3. IndicesInOrder'
  BY <1>1, IndicesKept DEF CaptureSnapshot, persistVars, applyVars
<1>4. LoopOK'
  <2>1. capture' = [capture EXCEPT ![i] = serialized(i)]
    BY DEF CaptureSnapshot
  <2>2. UNCHANGED <<apply_in_flight, read, waiting, observed, served, msgs>>
    BY DEF CaptureSnapshot, readVars
  <2>3. serialized(i) \in Capture
    BY <1>1, SerializedOK
  <2> QED BY <1>1, <2>1, <2>2, <2>3 DEF LoopOK
<1> QED BY <1>2, <1>3, <1>4, InvFromGroups

\* The invariant survives take_snapshot.
LEMMA TakeSnapshotTypes ==
  ASSUME TypeInv, NEW i \in Server, TakeSnapshot(i)
  PROVE  TypeInv'
<1>1. PersistOK /\ RoleOK /\ ApplyOK /\ LoopOK /\ EnvOK /\ WalsOK /\ IndicesInOrder
  BY InvGroups
<1>2. /\ capture[i].state \in Seq(Entry) /\ captured_index(i) \in Nat
      /\ log[i] \in Seq(Entry) /\ log_offset[i] \in Nat /\ log_offset_term[i] \in Nat
      /\ Len(log[i]) \in Nat /\ WalImageOK(disk[i])
  <2>1. capture[i] \in Capture /\ log[i] \in Seq(Entry) /\ log_offset[i] \in Nat
        /\ log_offset_term[i] \in Nat /\ WalImageOK(disk[i])
    BY <1>1 DEF LoopOK, PersistOK, WalsOK
  <2>2. capture[i].state \in Seq(Entry)
    BY <2>1 DEF Capture
  <2> QED BY SMT, <2>1, <2>2 DEF captured_index
<1>3. UNCHANGED <<term, voted_for, commit_index, last_applied>>
      /\ RoleOK' /\ ApplyOK' /\ EnvOK'
  BY <1>1 DEF TakeSnapshot, RoleOK, ApplyOK, EnvOK, roleVars, ballotVars,
              applyVars, envVars
<1>4. PersistOK' /\ IndicesInOrder' /\ WalsOK'
  <2>1. CASE takes_snapshot(i)
    <3> DEFINE cut == SubSeq(log[i], captured_index(i) - log_offset[i] + 1, Len(log[i]))
    <3>1. /\ log' = [log EXCEPT ![i] = cut]
          /\ log_offset' = [log_offset EXCEPT ![i] = captured_index(i)]
          /\ log_offset_term' = [log_offset_term EXCEPT ![i] =
                                   term_at(i, captured_index(i))]
          /\ snapshot' = [snapshot EXCEPT ![i] = capture[i].state]
          /\ Persist(i, take_snapshot_image(i))
      BY <2>1 DEF TakeSnapshot
    <3>2. /\ captured_index(i) > log_offset[i]
          /\ captured_index(i) <= last_applied[i]
          /\ last_applied[i] <= commit_index[i]
          /\ commit_index[i] <= log_offset[i] + Len(log[i])
          /\ last_applied[i] \in Nat /\ commit_index[i] \in Nat
      BY <1>1, <2>1 DEF takes_snapshot, IndicesInOrder, last_log_index, PersistOK, ApplyOK
    <3>3. /\ cut \in Seq(Entry)
          /\ captured_index(i) + Len(cut) = log_offset[i] + Len(log[i])
      <4>1. /\ captured_index(i) - log_offset[i] + 1 >= 1
            /\ captured_index(i) - log_offset[i] + 1 \in Int
            /\ Len(log[i]) <= Len(log[i])
        BY SMT, <1>2, <3>2
      <4>2. /\ cut \in Seq(Entry)
            /\ Len(cut) = IF captured_index(i) - log_offset[i] + 1 <= Len(log[i])
                            THEN Len(log[i]) - (captured_index(i) - log_offset[i] + 1) + 1
                            ELSE 0
        BY SMT, <1>2, <4>1, SliceOK
      <4>3. captured_index(i) <= log_offset[i] + Len(log[i])
        BY SMT, <1>2, <3>2
      <4> HIDE DEF cut
      <4>4. CASE captured_index(i) - log_offset[i] + 1 <= Len(log[i])
        <5>1. Len(cut) = Len(log[i]) - (captured_index(i) - log_offset[i] + 1) + 1
          BY <4>2, <4>4
        <5> QED BY SMT, <1>2, <4>2, <5>1
      <4>5. CASE ~(captured_index(i) - log_offset[i] + 1 <= Len(log[i]))
        <5>1. Len(cut) = 0
          BY <4>2, <4>5
        <5> QED BY SMT, <1>2, <4>2, <4>3, <4>5, <5>1
      <4> QED BY <4>4, <4>5
    <3>4. term_at(i, captured_index(i)) \in Nat
      BY <1>2, TermInOK DEF term_at
    <3> HIDE DEF cut
    <3>5. PersistOK'
      BY <1>1, <1>2, <1>3, <3>1, <3>3, <3>4 DEF PersistOK
    <3>6. IndicesInOrder'
      <4> SUFFICES ASSUME NEW j \in Server
                   PROVE  /\ log_offset'[j] <= last_applied'[j]
                          /\ last_applied'[j] <= commit_index'[j]
                          /\ commit_index'[j] <= log_offset'[j] + Len(log'[j])
        BY DEF IndicesInOrder, last_log_index
      <4>1. /\ log_offset[j] <= last_applied[j]
            /\ last_applied[j] <= commit_index[j]
            /\ commit_index[j] <= log_offset[j] + Len(log[j])
        BY <1>1 DEF IndicesInOrder, last_log_index
      <4>2. CASE j = i
        <5>1. log_offset'[j] = captured_index(i) /\ log'[j] = cut
          BY <1>1, <3>1, <4>2 DEF PersistOK
        <5> QED BY <1>3, <3>2, <3>3, <4>2, <5>1
      <4>3. CASE j # i
        <5>1. log_offset'[j] = log_offset[j] /\ log'[j] = log[j]
          BY <1>1, <3>1, <4>3 DEF PersistOK
        <5> QED BY <1>3, <4>1, <5>1
      <4> QED BY <4>2, <4>3
    <3>7. WalsOK'
      <4>1. WalImageOK(take_snapshot_image(i))
        BY <1>2, <3>4, SaveSnapshotOK DEF take_snapshot_image
      <4> QED BY <1>1, <3>1, <4>1, PersistKeepsWalsOK
    <3> QED BY <3>5, <3>6, <3>7
  <2>2. CASE ~takes_snapshot(i)
    <3>1. UNCHANGED <<log, log_offset, log_offset_term, snapshot, disk>>
      BY <2>2 DEF TakeSnapshot
    <3>2. PersistOK' /\ WalsOK'
      BY <1>1, <1>3, <3>1 DEF PersistOK, WalsOK, WalImageOK
    <3> QED BY <1>1, <1>3, <3>1, <3>2, IndicesKept
  <2> QED BY <2>1, <2>2
<1>5. LoopOK'
  <2>1. /\ dispatch_next_committed_entry(i, apply_in_flight[i])
        /\ poll_read_indexes(i, read[i], waiting[i])
        /\ maybe_capture_snapshot(i, Idle)
        /\ flush_raft_messages({}, {})
    BY DEF TakeSnapshot
  <2>2. /\ read[i] \in Round /\ waiting[i] \in SUBSET Read
        /\ apply_in_flight[i] \in {NoApply} \cup (Nat \X Entry)
    BY <1>1 DEF LoopOK
  <2>3. Idle \in Capture
    BY SMT DEF Idle, Capture
  <2>4. apply_in_flight' \in [Server -> {NoApply} \cup (Nat \X Entry)]
    BY <1>1, <1>3, <1>4, <2>1, <2>2, DispatchOK
  <2>5. /\ read' \in [Server -> Round] /\ waiting' \in [Server -> SUBSET Read]
        /\ observed' \in Nat /\ served' \subseteq [opened : BOOLEAN, stale : BOOLEAN]
    BY <1>1, <1>3, <2>1, <2>2, PollOK
  <2>6. capture' \in [Server -> Capture]
    BY <1>1, <2>1, <2>3, CaptureOK
  <2>7. msgs' \subseteq Message
    <3>1. {} \in SUBSET Message
      OBVIOUS
    <3> QED BY <1>1, <2>1, <3>1, FlushOK
  <2> QED BY <2>4, <2>5, <2>6, <2>7 DEF LoopOK
<1> QED BY <1>3, <1>4, <1>5, InvFromGroups

\* An answer to InstallSnapshot is a well-formed message.
LEMMA SnapshotResponseOK ==
  ASSUME NEW i \in Server, NEW m \in InstallSnapshot, NEW t \in Nat,
         NEW success \in BOOLEAN, NEW x \in Nat
  PROVE  {snapshot_response(i, m, t, success, x)} \in SUBSET Message
<1>1. m.from \in Server
  BY DEF InstallSnapshot
<1>2. snapshot_response(i, m, t, success, x) \in InstallSnapshotResponse
  BY <1>1 DEF snapshot_response, InstallSnapshotResponse
<1> QED BY <1>2 DEF Message

\* The records of an installed snapshot.
LEMMA InstallImageOK ==
  ASSUME PersistOK, WalsOK, NEW i \in Server, NEW m \in InstallSnapshot
  PROVE  WalImageOK(snapshot_saved_image(i, m)) /\ WalImageOK(install_image(i, m))
<1>1. /\ m.term \in Nat /\ m.snapshot_index \in Nat /\ m.snapshot_term \in Nat
      /\ m.snapshot_data \in Seq(Entry)
  BY DEF InstallSnapshot
<1>2. WalImageOK(newer_term_image(i, m))
  BY <1>1, NewerTermOK
<1>3. WalImageOK(snapshot_saved_image(i, m))
  BY <1>1, <1>2, SaveSnapshotOK DEF snapshot_saved_image
<1>4. standing_vote(i, m) \in Server \cup {None}
  BY DEF standing_vote, PersistOK
<1> QED BY <1>1, <1>3, <1>4, SaveHardStateOK DEF install_image

\* The invariant survives handle_install_snapshot.
LEMMA InstallSnapshotTypes ==
  ASSUME TypeInv, NEW i \in Server, NEW m \in msgs, handle_install_snapshot(i, m)
  PROVE  TypeInv'
<1>1. PersistOK /\ RoleOK /\ ApplyOK /\ LoopOK /\ EnvOK /\ WalsOK /\ IndicesInOrder
  BY InvGroups
<1>2. m \in Message /\ m.term \in Nat /\ m \in InstallSnapshot
  BY <1>1, MessageKinds DEF LoopOK, handle_install_snapshot, Delivered
<1>3. /\ UNCHANGED <<votes, pre_votes, progress, next_read_context,
                     pending_writes, acked, elected>>
      /\ EnvOK'
  BY <1>1 DEF handle_install_snapshot, EnvOK, envVars
<1>4. /\ m.snapshot_index \in Nat /\ m.snapshot_term \in Nat
      /\ m.snapshot_data \in Seq(Entry)
  BY <1>2 DEF InstallSnapshot
<1>5. term[i] \in Nat /\ read[i] \in Round /\ known_index(i) \in Nat
  BY <1>1 DEF PersistOK, LoopOK, ApplyOK, known_index
<1>6. CASE /\ m.term < term[i]
           /\ UNCHANGED <<persistVars, state, lead, quiet, pending_pre_vote_term,
                          last_applied, store, disk>>
           /\ after_raft_activity(i, read[i], {m},
                                  {snapshot_response(i, m, term[i], FALSE, 0)})
  <2>1. PersistOK' /\ RoleOK' /\ ApplyOK' /\ WalsOK'
    BY <1>1, <1>3, <1>6 DEF PersistOK, RoleOK, ApplyOK, WalsOK, WalImageOK, persistVars
  <2>2. IndicesInOrder'
    BY <1>1, <1>6, IndicesKept DEF persistVars
  <2>3. {snapshot_response(i, m, term[i], FALSE, 0)} \in SUBSET Message
    BY <1>2, <1>5, SnapshotResponseOK
  <2>4. LoopOK'
    BY <1>1, <1>5, <1>6, <2>1, <2>2, <2>3, AfterOK
  <2> QED BY <1>3, <2>1, <2>2, <2>4, InvFromGroups
<1>7. CASE /\ prepare_for_leader_rpc(i, m)
           /\ Persist(i, newer_term_image(i, m))
           /\ UNCHANGED <<commit_index, log, log_offset, log_offset_term,
                          snapshot, last_applied, store>>
           /\ after_raft_activity(i, read_after_leader_rpc(i, m), {m},
                {IF valid_snapshot(m) /\ stale_snapshot(i, m)
                   THEN snapshot_response(i, m, m.term, TRUE, known_index(i))
                   ELSE snapshot_response(i, m, m.term, FALSE, 0)})
  <2>1. PersistOK' /\ RoleOK' /\ read_after_leader_rpc(i, m) \in Round
    BY <1>1, <1>2, <1>3, <1>7, LeaderRpcTypes DEF PersistOK, RoleOK
  <2>2. ApplyOK'
    BY <1>1, <1>3, <1>7 DEF ApplyOK
  <2>3. WalsOK'
    BY <1>1, <1>2, <1>7, NewerTermOK, PersistKeepsWalsOK
  <2>4. IndicesInOrder'
    BY <1>1, <1>7, IndicesKept
  <2>5. {IF valid_snapshot(m) /\ stale_snapshot(i, m)
           THEN snapshot_response(i, m, m.term, TRUE, known_index(i))
           ELSE snapshot_response(i, m, m.term, FALSE, 0)} \in SUBSET Message
    BY <1>2, <1>5, SnapshotResponseOK
  <2>6. LoopOK'
    BY <1>1, <1>7, <2>1, <2>2, <2>4, <2>5, AfterOK
  <2> QED BY <1>3, <2>1, <2>2, <2>3, <2>4, <2>6, InvFromGroups
<1>8. CASE /\ prepare_for_leader_rpc(i, m)
           /\ installs(i, m)
           /\ store' = [store EXCEPT ![i] = m.snapshot_data]
           /\ log' = [log EXCEPT ![i] = <<>>]
           /\ log_offset' = [log_offset EXCEPT ![i] = m.snapshot_index]
           /\ log_offset_term' = [log_offset_term EXCEPT ![i] = m.snapshot_term]
           /\ snapshot' = [snapshot EXCEPT ![i] = m.snapshot_data]
           /\ last_applied' = [last_applied EXCEPT ![i] = m.snapshot_index]
           /\ commit_index' = [commit_index EXCEPT ![i] = m.snapshot_index]
           /\ Persist(i, install_image(i, m))
           /\ dispatch_next_committed_entry(i, apply_in_flight[i])
           /\ poll_read_indexes(i, read_after_leader_rpc(i, m), waiting[i])
           /\ maybe_capture_snapshot(i, capture_before_restore(i))
           /\ flush_raft_messages({m},
                {snapshot_response(i, m, m.term, TRUE, m.snapshot_index)})
  <2>1. <<>> \in Seq(Entry) /\ Len(<<>>) = 0
    BY SMT
  <2>2. PersistOK' /\ RoleOK' /\ read_after_leader_rpc(i, m) \in Round
    BY <1>1, <1>2, <1>3, <1>4, <1>8, <2>1, LeaderRpcTypes DEF PersistOK, RoleOK
  <2>3. ApplyOK'
    BY <1>1, <1>3, <1>4, <1>8 DEF ApplyOK
  <2>4. WalsOK'
    BY <1>1, <1>2, <1>8, InstallImageOK, PersistKeepsWalsOK
  <2>5. IndicesInOrder'
    <3> SUFFICES ASSUME NEW j \in Server
                 PROVE  /\ log_offset'[j] <= last_applied'[j]
                        /\ last_applied'[j] <= commit_index'[j]
                        /\ commit_index'[j] <= log_offset'[j] + Len(log'[j])
      BY DEF IndicesInOrder, last_log_index
    <3>1. CASE j = i
      <4>1. /\ log_offset'[j] = m.snapshot_index /\ last_applied'[j] = m.snapshot_index
            /\ commit_index'[j] = m.snapshot_index /\ log'[j] = <<>>
        BY <1>1, <1>8, <3>1 DEF PersistOK, ApplyOK
      <4> QED BY SMT, <1>4, <2>1, <4>1
    <3>2. CASE j # i
      <4>1. /\ log_offset'[j] = log_offset[j] /\ last_applied'[j] = last_applied[j]
            /\ commit_index'[j] = commit_index[j] /\ log'[j] = log[j]
        BY <1>1, <1>8, <3>2 DEF PersistOK, ApplyOK
      <4> QED BY <1>1, <4>1 DEF IndicesInOrder, last_log_index
    <3> QED BY <3>1, <3>2
  <2>6. LoopOK'
    <3>1. /\ waiting[i] \in SUBSET Read
          /\ apply_in_flight[i] \in {NoApply} \cup (Nat \X Entry)
          /\ capture_before_restore(i) \in Capture
      BY <1>1, SerializedOK DEF LoopOK, capture_before_restore
    <3>2. apply_in_flight' \in [Server -> {NoApply} \cup (Nat \X Entry)]
      BY <1>1, <1>8, <2>2, <2>3, <2>5, <3>1, DispatchOK
    <3>3. /\ read' \in [Server -> Round] /\ waiting' \in [Server -> SUBSET Read]
          /\ observed' \in Nat /\ served' \subseteq [opened : BOOLEAN, stale : BOOLEAN]
      BY <1>1, <1>8, <2>2, <2>3, <3>1, PollOK
    <3>4. capture' \in [Server -> Capture]
      BY <1>1, <1>8, <3>1, CaptureOK
    <3>5. msgs' \subseteq Message
      <4>1. {snapshot_response(i, m, m.term, TRUE, m.snapshot_index)} \in SUBSET Message
        BY <1>2, <1>4, SnapshotResponseOK
      <4> QED BY <1>1, <1>8, <4>1, FlushOK
    <3> QED BY <3>2, <3>3, <3>4, <3>5 DEF LoopOK
  <2> QED BY <1>3, <2>2, <2>3, <2>4, <2>5, <2>6, InvFromGroups
<1> QED BY <1>6, <1>7, <1>8, Zenon DEF handle_install_snapshot

\* The invariant survives handle_install_snapshot_response.
LEMMA InstallSnapshotResponseTypes ==
  ASSUME TypeInv, NEW i \in Server, NEW m \in msgs,
         handle_install_snapshot_response(i, m)
  PROVE  TypeInv'
<1>1. PersistOK /\ RoleOK /\ ApplyOK /\ LoopOK /\ EnvOK /\ WalsOK /\ IndicesInOrder
  BY InvGroups
<1>2. m \in InstallSnapshotResponse
  BY <1>1, MessageKinds DEF LoopOK, handle_install_snapshot_response, installed, Delivered
<1>3. progress_after(i, m) \in [Server -> Progress]
  BY <1>1, <1>2, ProgressAfterOK DEF InstallSnapshotResponse
<1>4. PersistOK' /\ ApplyOK' /\ EnvOK' /\ WalsOK'
  BY <1>1 DEF handle_install_snapshot_response, PersistOK, ApplyOK, EnvOK, WalsOK,
              WalImageOK, persistVars, applyVars, envVars
<1>5. IndicesInOrder'
  BY <1>1, IndicesKept DEF handle_install_snapshot_response, persistVars, applyVars
<1>6. RoleOK'
  BY <1>1, <1>3 DEF handle_install_snapshot_response, RoleOK, roleVars, ballotVars
<1>7. LoopOK'
  <2>1. log[i] \in Seq(Entry) /\ read[i] \in Round
    BY <1>1 DEF PersistOK, LoopOK
  <2>2. broadcast_heartbeat(i, log[i], progress_after(i, m), read[i]) \in SUBSET Message
    BY <1>1, <1>3, <2>1, BroadcastOK
  <2> QED BY <1>1, <1>4, <1>5, <2>1, <2>2, AfterOK DEF handle_install_snapshot_response
<1> QED BY <1>4, <1>5, <1>6, <1>7, InvFromGroups

\* The invariant survives a response that its handler ignores.
LEMMA IgnoreResponseTypes ==
  ASSUME TypeInv, NEW i \in Server, NEW m \in msgs, IgnoreResponse(i, m)
  PROVE  TypeInv'
<1>1. PersistOK /\ RoleOK /\ ApplyOK /\ LoopOK /\ EnvOK /\ WalsOK /\ IndicesInOrder
  BY InvGroups
<1>2. PersistOK' /\ RoleOK' /\ ApplyOK' /\ EnvOK' /\ WalsOK'
  BY <1>1 DEF IgnoreResponse, PersistOK, RoleOK, ApplyOK, EnvOK, WalsOK, WalImageOK,
              persistVars, roleVars, ballotVars, applyVars, envVars
<1>3. IndicesInOrder'
  BY <1>1, IndicesKept DEF IgnoreResponse, persistVars, applyVars
<1>4. LoopOK'
  <2>1. read[i] \in Round /\ {} \in SUBSET Message
    BY <1>1 DEF LoopOK
  <2> QED BY <1>1, <1>2, <1>3, <2>1, AfterOK DEF IgnoreResponse
<1> QED BY <1>2, <1>3, <1>4, InvFromGroups
=============================================================================
