----------------------------- MODULE TypeProofs -----------------------------
(***************************************************************************)
(* Every variable keeps its type, and the indices of a node stay in order: *)
(* the steps of reads, crashes and restarts, and the theorems.             *)
(***************************************************************************)
EXTENDS TypeSnapshots

\* The default prover; leaves with arithmetic or records cite SMT.
USE Zenon

(***************************************************************************)
(* Reads.                                                                  *)
(***************************************************************************)

\* begin_read registers a well-formed read.
LEMMA RegisterReadOK ==
  ASSUME LoopOK, PersistOK', ApplyOK', IndicesInOrder', NEW i \in Server,
         NEW rd \in Round, NEW opened \in BOOLEAN, NEW out \in SUBSET Message,
         RegisterRead(i, rd, opened, out)
  PROVE  LoopOK'
<1>1. registered(rd, opened) \in Read
  BY DEF registered, Read, Round, LoopOK
<1>2. /\ waiting[i] \cup {registered(rd, opened)} \in SUBSET Read
      /\ apply_in_flight[i] \in {NoApply} \cup (Nat \X Entry)
      /\ capture[i] \in Capture
  BY <1>1 DEF LoopOK
<1>3. apply_in_flight' \in [Server -> {NoApply} \cup (Nat \X Entry)]
  BY <1>2, DispatchOK DEF RegisterRead
<1>4. /\ read' \in [Server -> Round] /\ waiting' \in [Server -> SUBSET Read]
      /\ observed' \in Nat /\ served' \subseteq [opened : BOOLEAN, stale : BOOLEAN]
  BY <1>2, PollOK DEF RegisterRead
<1>5. capture' \in [Server -> Capture]
  BY <1>2, CaptureOK DEF RegisterRead
<1>6. msgs' \subseteq Message
  BY FlushOK DEF RegisterRead
<1> QED BY <1>3, <1>4, <1>5, <1>6 DEF LoopOK

\* The invariant survives a read that joins a pending round.
LEMMA JoinReadTypes ==
  ASSUME TypeInv, NEW i \in Server, JoinRead(i)
  PROVE  TypeInv'
<1>1. PersistOK /\ RoleOK /\ ApplyOK /\ LoopOK /\ EnvOK /\ WalsOK /\ IndicesInOrder
  BY InvGroups
<1>2. PersistOK' /\ RoleOK' /\ ApplyOK' /\ EnvOK' /\ WalsOK'
  BY <1>1 DEF JoinRead, PersistOK, RoleOK, ApplyOK, EnvOK, WalsOK, WalImageOK,
              persistVars, roleVars, ballotVars, applyVars, envVars
<1>3. IndicesInOrder'
  BY <1>1, IndicesKept DEF JoinRead, persistVars, applyVars
<1>4. LoopOK'
  <2>1. read[i] \in Round /\ {} \in SUBSET Message /\ FALSE \in BOOLEAN
    BY <1>1 DEF LoopOK
  <2> QED BY <1>1, <1>2, <1>3, <2>1, RegisterReadOK DEF JoinRead
<1> QED BY <1>2, <1>3, <1>4, InvFromGroups

\* The invariant survives a read that opens a round.
LEMMA OpenReadTypes ==
  ASSUME TypeInv, NEW i \in Server, OpenRead(i)
  PROVE  TypeInv'
<1> DEFINE rd == round_at(i, commit_index[i])
<1>1. PersistOK /\ RoleOK /\ ApplyOK /\ LoopOK /\ EnvOK /\ WalsOK /\ IndicesInOrder
  BY InvGroups
<1>2. /\ next_read_context' = [next_read_context EXCEPT ![i] = @ + 1]
      /\ UNCHANGED <<persistVars, roleVars, progress, applyVars, envVars, disk, elected>>
      /\ RegisterRead(i, rd, TRUE, broadcast_heartbeat(i, log[i], progress[i], rd))
  BY DEF OpenRead
<1>3. rd \in Round
  BY <1>1 DEF round_at, Round, PersistOK, RoleOK
<1> HIDE DEF rd
<1>4. PersistOK' /\ ApplyOK' /\ EnvOK' /\ WalsOK'
  BY <1>1, <1>2 DEF PersistOK, ApplyOK, EnvOK, WalsOK, WalImageOK,
                    persistVars, applyVars, envVars
<1>5. RoleOK'
  BY SMT, <1>1, <1>2 DEF RoleOK, roleVars, ballotVars
<1>6. IndicesInOrder'
  BY <1>1, <1>2, IndicesKept DEF persistVars, applyVars
<1>7. LoopOK'
  <2>1. log[i] \in Seq(Entry) /\ progress[i] \in [Server -> Progress] /\ TRUE \in BOOLEAN
    BY <1>1 DEF PersistOK, RoleOK
  <2>2. broadcast_heartbeat(i, log[i], progress[i], rd) \in SUBSET Message
    BY <1>1, <1>3, <2>1, BroadcastOK
  <2> QED BY <1>1, <1>2, <1>3, <1>4, <1>6, <2>1, <2>2, RegisterReadOK
<1> QED BY <1>4, <1>5, <1>6, <1>7, InvFromGroups

\* The invariant survives a read that first proposes a no-op.
LEMMA OpenReadWithNoOpTypes ==
  ASSUME TypeInv, NEW i \in Server, OpenReadWithNoOp(i)
  PROVE  TypeInv'
<1> DEFINE rd == round_at(i, last_log_index(i) + 1)
           lg == Append(log[i], proposal(i, NoOp))
<1>1. PersistOK /\ RoleOK /\ ApplyOK /\ LoopOK /\ EnvOK /\ WalsOK /\ IndicesInOrder
  BY InvGroups
<1>2. /\ next_read_context' = [next_read_context EXCEPT ![i] = @ + 1]
      /\ log' = [log EXCEPT ![i] = lg]
      /\ Persist(i, propose_image(i, NoOp))
      /\ UNCHANGED <<term, voted_for, commit_index, log_offset, log_offset_term,
                     snapshot, roleVars, progress, applyVars, envVars, elected>>
      /\ RegisterRead(i, rd, TRUE, broadcast_heartbeat(i, lg, progress[i], rd))
  BY DEF OpenReadWithNoOp
<1>3. rd \in Round
  <2>1. last_log_index(i) + 1 \in Nat /\ next_read_context[i] \in Nat
    BY SMT, <1>1 DEF last_log_index, PersistOK, RoleOK
  <2> QED BY <2>1 DEF round_at, Round
<1>4. lg \in Seq(Entry) /\ PersistOK' /\ IndicesInOrder' /\ WalsOK'
  BY <1>2, ProposeOK DEF applyVars
<1> HIDE DEF rd, lg
<1>5. ApplyOK' /\ EnvOK'
  BY <1>1, <1>2 DEF ApplyOK, EnvOK, applyVars, envVars
<1>6. RoleOK'
  BY SMT, <1>1, <1>2 DEF RoleOK, roleVars, ballotVars
<1>7. LoopOK'
  <2>1. progress[i] \in [Server -> Progress] /\ TRUE \in BOOLEAN
    BY <1>1 DEF RoleOK
  <2>2. broadcast_heartbeat(i, lg, progress[i], rd) \in SUBSET Message
    BY <1>1, <1>3, <1>4, <2>1, BroadcastOK
  <2> QED BY <1>1, <1>2, <1>3, <1>4, <1>5, <2>1, <2>2, RegisterReadOK
<1> QED BY <1>4, <1>5, <1>6, <1>7, InvFromGroups

\* The invariant survives the cancellation of a read.
LEMMA CancelReadTypes ==
  ASSUME TypeInv, NEW i \in Server, NEW w \in waiting[i], CancelRead(i, w)
  PROVE  TypeInv'
<1>1. PersistOK /\ RoleOK /\ ApplyOK /\ LoopOK /\ EnvOK /\ WalsOK /\ IndicesInOrder
  BY InvGroups
<1>2. PersistOK' /\ RoleOK' /\ ApplyOK' /\ EnvOK' /\ WalsOK'
  BY <1>1 DEF CancelRead, PersistOK, RoleOK, ApplyOK, EnvOK, WalsOK, WalImageOK,
              persistVars, roleVars, ballotVars, applyVars, envVars
<1>3. IndicesInOrder'
  BY <1>1, IndicesKept DEF CancelRead, persistVars, applyVars
<1>4. LoopOK'
  <2>1. round_after_cancel(i, w) \in Round
    BY <1>1 DEF round_after_cancel, LoopOK, NoRead, Round
  <2>2. waiting[i] \ {w} \in SUBSET Read
    BY <1>1 DEF LoopOK
  <2> QED BY <1>1, <2>1, <2>2 DEF CancelRead, LoopOK
<1> QED BY <1>2, <1>3, <1>4, InvFromGroups

(***************************************************************************)
(* Crash and restart.                                                      *)
(***************************************************************************)

\* What a dying process may leave: its WAL as it was, or with the records of a
\* newer term, of part of a batch of entries or of a snapshot.
LEMMA CrashImageOrigin ==
  ASSUME NEW i \in Server, NEW d \in crash_images(i)
  PROVE  \/ d = disk[i]
         \/ \E m \in msgs : d = newer_term_image(i, m)
         \/ \E m \in msgs : Delivered(i, m, "AppendEntries") /\ d \in torn_append_images(i, m)
         \/ \E m \in msgs : Delivered(i, m, "InstallSnapshot") /\ d \in torn_install_images(i, m)
<1> DEFINE A == {newer_term_image(i, m) : m \in
                   {n \in msgs : n.to = i /\ n.type \in
                                 {"RequestVote", "AppendEntries", "InstallSnapshot"}}}
           B == UNION {torn_append_images(i, m) : m \in
                   {n \in msgs : Delivered(i, n, "AppendEntries")}}
           C == UNION {torn_install_images(i, m) : m \in
                   {n \in msgs : Delivered(i, n, "InstallSnapshot")}}
<1>1. crash_images(i) = {disk[i]} \cup A \cup B \cup C
  BY Zenon DEF crash_images
<1>2. d \in A => \E m \in msgs : d = newer_term_image(i, m)
  OBVIOUS
<1>3. d \in B => \E m \in msgs : /\ Delivered(i, m, "AppendEntries")
                                /\ d \in torn_append_images(i, m)
  OBVIOUS
<1>4. d \in C => \E m \in msgs : /\ Delivered(i, m, "InstallSnapshot")
                                /\ d \in torn_install_images(i, m)
  OBVIOUS
<1> HIDE DEF A, B, C
<1> QED BY <1>1, <1>2, <1>3, <1>4

\* Whatever a dying process leaves in its WAL is well formed.
LEMMA CrashImagesOK ==
  ASSUME TypeInv, NEW i \in Server, NEW d \in crash_images(i)
  PROVE  WalImageOK(d)
<1>1. PersistOK /\ LoopOK /\ WalsOK
  BY InvGroups
<1>2. ASSUME NEW m \in msgs PROVE WalImageOK(newer_term_image(i, m)) /\ m \in Message
  <2>1. m \in Message /\ m.term \in Nat
    BY <1>1, MessageKinds DEF LoopOK
  <2> QED BY <1>1, <2>1, NewerTermOK
<1>3. CASE d = disk[i]
  BY <1>1, <1>3 DEF WalsOK
<1>4. ASSUME NEW m \in msgs, d = newer_term_image(i, m) PROVE WalImageOK(d)
  BY <1>2, <1>4
<1>5. ASSUME NEW m \in msgs, Delivered(i, m, "AppendEntries"), d \in torn_append_images(i, m)
      PROVE  WalImageOK(d)
  <2>0. PICK k \in 1 .. Len(m.entries) : d \in append_entry_images(i, m, k)
    BY <1>5 DEF torn_append_images
  <2>1. PICK l \in k - 1 .. Len(m.entries) :
          d = save_entries(newer_term_image(i, m), m.prev_log_index + k,
                           SubSeq(m.entries, k, l))
    BY <2>0 DEF append_entry_images
  <2>2. m \in AppendEntries
    BY <1>2, <1>5, MessageKinds DEF Delivered
  <2>3. m.prev_log_index \in Nat /\ m.entries \in Seq(Entry)
    BY <2>2 DEF AppendEntries
  <2>4. /\ k \in Nat /\ k >= 1 /\ l \in Int /\ l <= Len(m.entries)
        /\ m.prev_log_index + k \in Nat
    BY SMT, <2>0, <2>1, <2>3
  <2>5. SubSeq(m.entries, k, l) \in Seq(Entry)
    BY SMT, <2>3, <2>4, SliceOK
  <2> QED BY <1>2, <2>1, <2>4, <2>5, SaveEntriesOK
<1>6. ASSUME NEW m \in msgs, Delivered(i, m, "InstallSnapshot"), d \in torn_install_images(i, m)
      PROVE  WalImageOK(d)
  <2>1. m \in InstallSnapshot
    BY <1>2, <1>6, MessageKinds DEF Delivered
  <2>2. d = snapshot_saved_image(i, m)
    BY <1>6 DEF torn_install_images
  <2> QED BY <1>1, <2>1, <2>2, InstallImageOK
<1> QED BY <1>3, <1>4, <1>5, <1>6, CrashImageOrigin, Zenon

\* The invariant survives a crash at any durable state of a handler.
LEMMA CrashTypes ==
  ASSUME TypeInv, NEW i \in Server, Crash(i)
  PROVE  TypeInv'
<1>1. PersistOK /\ RoleOK /\ ApplyOK /\ LoopOK /\ EnvOK /\ WalsOK /\ IndicesInOrder
  BY InvGroups
<1>2. /\ <<>> \in Seq(Entry) /\ Len(<<>>) = 0
      /\ NoRead \in Round /\ Idle \in Capture
      /\ [j \in Server |-> [match |-> 0, next |-> 1]] \in [Server -> Progress]
  BY SMT DEF NoRead, Round, Idle, Capture, Progress
<1>3. PersistOK'
  BY <1>1, <1>2 DEF Crash, PersistOK
<1>4. RoleOK'
  BY <1>1, <1>2 DEF Crash, RoleOK, State
<1>5. ApplyOK'
  <2>1. /\ pending_writes' = [pending_writes EXCEPT ![i] = {}] /\ UNCHANGED acked
        /\ last_applied' = [last_applied EXCEPT ![i] = 0]
        /\ store' = [store EXCEPT ![i] = <<>>]
    BY DEF Crash
  <2> QED BY <1>1, <1>2, <2>1 DEF ApplyOK
<1>6. LoopOK' /\ EnvOK'
  <2>1. /\ read' = [read EXCEPT ![i] = NoRead] /\ waiting' = [waiting EXCEPT ![i] = {}]
        /\ apply_in_flight' = [apply_in_flight EXCEPT ![i] = NoApply]
        /\ capture' = [capture EXCEPT ![i] = Idle]
        /\ up' = [up EXCEPT ![i] = FALSE] /\ crashes' = crashes + 1
        /\ UNCHANGED <<timeouts, msgs, observed, served>>
    BY DEF Crash
  <2> QED BY SMT, <1>1, <1>2, <2>1 DEF LoopOK, EnvOK
<1>7. IndicesInOrder'
  <2> SUFFICES ASSUME NEW j \in Server
               PROVE  /\ log_offset'[j] <= last_applied'[j]
                      /\ last_applied'[j] <= commit_index'[j]
                      /\ commit_index'[j] <= log_offset'[j] + Len(log'[j])
    BY DEF IndicesInOrder, last_log_index
  <2>1. CASE j = i
    <3>1. /\ log_offset'[j] = 0 /\ last_applied'[j] = 0
          /\ commit_index'[j] = 0 /\ log'[j] = <<>>
      BY <1>1, <2>1 DEF Crash, PersistOK, ApplyOK
    <3> QED BY SMT, <1>2, <3>1
  <2>2. CASE j # i
    <3>1. /\ log_offset'[j] = log_offset[j] /\ last_applied'[j] = last_applied[j]
          /\ commit_index'[j] = commit_index[j] /\ log'[j] = log[j]
      BY <1>1, <2>2 DEF Crash, PersistOK, ApplyOK
    <3> QED BY <1>1, <3>1 DEF IndicesInOrder, last_log_index
  <2> QED BY <2>1, <2>2
<1>8. WalsOK'
  <2>1. PICK d \in crash_images(i) : disk' = [disk EXCEPT ![i] = d]
    BY DEF Crash
  <2> QED BY <1>1, <2>1, CrashImagesOK, PersistKeepsWalsOK DEF Persist
<1> QED BY <1>3, <1>4, <1>5, <1>6, <1>7, <1>8, InvFromGroups

\* The invariant survives a restart from the WAL.
LEMMA RestartTypes ==
  ASSUME TypeInv, NEW i \in Server, Restart(i)
  PROVE  TypeInv'
<1> DEFINE d == disk[i]
           replayed == SubSeq(restored_log(d), 1, restored_commit(d) - d.snapshot.index)
<1>1. PersistOK /\ RoleOK /\ ApplyOK /\ LoopOK /\ EnvOK /\ WalsOK /\ IndicesInOrder
  BY InvGroups
<1>2. /\ restorable(d)
      /\ up' = [up EXCEPT ![i] = TRUE]
      /\ term' = [term EXCEPT ![i] = d.term]
      /\ voted_for' = [voted_for EXCEPT ![i] = d.vote]
      /\ commit_index' = [commit_index EXCEPT ![i] = restored_commit(d)]
      /\ log' = [log EXCEPT ![i] = restored_log(d)]
      /\ log_offset' = [log_offset EXCEPT ![i] = d.snapshot.index]
      /\ log_offset_term' = [log_offset_term EXCEPT ![i] = d.snapshot.term]
      /\ snapshot' = [snapshot EXCEPT ![i] = d.snapshot.state]
      /\ last_applied' = [last_applied EXCEPT ![i] = restored_commit(d)]
      /\ store' = [store EXCEPT ![i] = d.snapshot.state \o replayed]
      /\ UNCHANGED <<roleVars, progress, next_read_context, pending_writes, acked,
                     loopVars, crashes, timeouts, disk, msgs, elected>>
  BY DEF Restart
<1>3. WalImageOK(d)
  BY <1>1 DEF WalsOK
<1>4. /\ d.term \in Nat /\ d.vote \in Server \cup {None}
      /\ d.snapshot.index \in Nat /\ d.snapshot.term \in Nat
      /\ d.snapshot.state \in Seq(Entry)
  BY <1>3 DEF WalImageOK
<1> HIDE DEF d
<1>5. /\ restored_log(d) \in Seq(Entry) /\ restored_commit(d) \in Nat
      /\ d.snapshot.index <= restored_commit(d)
      /\ restored_commit(d) <= d.snapshot.index + Len(restored_log(d))
      /\ Len(restored_log(d)) \in Nat
  <2>1. restorable(d)
    BY <1>2
  <2>2. /\ restored_log(d) \in Seq(Entry) /\ restored_commit(d) \in Nat
        /\ d.snapshot.index <= restored_commit(d)
        /\ restored_commit(d) <= d.snapshot.index + Len(restored_log(d))
    BY <1>3, <2>1, RestoreOK
  <2>3. Len(restored_log(d)) \in Nat
    BY SMT, <2>2
  <2> QED BY <2>2, <2>3
<1>6. d.snapshot.state \o replayed \in Seq(Entry)
  <2>1. /\ restored_commit(d) - d.snapshot.index \in Int
        /\ restored_commit(d) - d.snapshot.index <= Len(restored_log(d))
    BY SMT, <1>4, <1>5
  <2>2. replayed \in Seq(Entry)
    BY SMT, <1>5, <2>1, SliceOK
  <2> QED BY <1>4, <2>2, ConcatOK
<1> HIDE DEF replayed
<1>7. PersistOK'
  BY <1>1, <1>2, <1>4, <1>5 DEF PersistOK
<1>8. RoleOK' /\ LoopOK'
  BY <1>1, <1>2 DEF RoleOK, LoopOK, roleVars, ballotVars, loopVars, readVars
<1>9. ApplyOK'
  BY <1>1, <1>2, <1>5, <1>6 DEF ApplyOK
<1>10. EnvOK' /\ WalsOK'
  BY <1>1, <1>2 DEF EnvOK, WalsOK, WalImageOK
<1>11. IndicesInOrder'
  <2> SUFFICES ASSUME NEW j \in Server
               PROVE  /\ log_offset'[j] <= last_applied'[j]
                      /\ last_applied'[j] <= commit_index'[j]
                      /\ commit_index'[j] <= log_offset'[j] + Len(log'[j])
    BY DEF IndicesInOrder, last_log_index
  <2>1. CASE j = i
    <3>1. /\ log_offset'[j] = d.snapshot.index /\ last_applied'[j] = restored_commit(d)
          /\ commit_index'[j] = restored_commit(d) /\ log'[j] = restored_log(d)
      BY <1>1, <1>2, <2>1 DEF PersistOK, ApplyOK
    <3> QED BY SMT, <1>4, <1>5, <3>1
  <2>2. CASE j # i
    <3>1. /\ log_offset'[j] = log_offset[j] /\ last_applied'[j] = last_applied[j]
          /\ commit_index'[j] = commit_index[j] /\ log'[j] = log[j]
      BY <1>1, <1>2, <2>2 DEF PersistOK, ApplyOK
    <3> QED BY <1>1, <3>1 DEF IndicesInOrder, last_log_index
  <2> QED BY <2>1, <2>2
<1> QED BY <1>7, <1>8, <1>9, <1>10, <1>11, InvFromGroups

(***************************************************************************)
(* The theorems.                                                           *)
(***************************************************************************)

\* The first start, with an empty WAL, has the types.
LEMMA InitTypes ==
  ASSUME Init
  PROVE  TypeInv
<1>1. /\ <<>> \in Seq(Entry) /\ Len(<<>>) = 0 /\ IsFiniteSet({}) /\ DOMAIN <<>> = {}
      /\ NoRead \in Round /\ Idle \in Capture
      /\ [match |-> 0, next |-> 1] \in Progress
  BY SMT, FS_EmptySet DEF NoRead, Round, Idle, Capture, Progress
<1>2. PersistOK /\ ApplyOK /\ EnvOK
  BY <1>1 DEF Init, PersistOK, ApplyOK, EnvOK
<1>3. RoleOK
  BY <1>1 DEF Init, RoleOK, State
<1>4. LoopOK
  BY <1>1 DEF Init, LoopOK
<1>5. WalImageOK(EmptyWal)
  BY SMT, <1>1 DEF WalImageOK, EmptyWal, NoSnapshot
<1>6. WalsOK
  <2>1. disk = [i \in Server |-> EmptyWal]
    BY DEF Init
  <2> HIDE DEF EmptyWal
  <2> QED BY <1>5, <2>1 DEF WalsOK
<1>7. IndicesInOrder
  BY SMT, <1>1 DEF Init, IndicesInOrder, last_log_index
<1> QED BY <1>2, <1>3, <1>4, <1>6, <1>7, TypeGroups DEF TypeInv

\* Whatever a message makes its receiver do keeps the types.
LEMMA ReceiveTypes ==
  ASSUME TypeInv, NEW i \in Server, NEW m \in msgs, Receive(i, m)
  PROVE  TypeInv'
<1>1. CASE StepDown(i, m) BY <1>1, StepDownTypes
<1>2. CASE handle_request_vote(i, m) BY <1>2, RequestVoteTypes
<1>3. CASE handle_request_vote_response(i, m) BY <1>3, RequestVoteResponseTypes
<1>4. CASE handle_pre_vote(i, m) BY <1>4, PreVoteTypes
<1>5. CASE handle_pre_vote_response(i, m) BY <1>5, PreVoteResponseTypes
<1>6. CASE handle_append_entries(i, m) BY <1>6, AppendEntriesTypes
<1>7. CASE AppendAccepted(i, m) BY <1>7, AppendAcceptedTypes
<1>8. CASE AppendRejected(i, m) BY <1>8, AppendRejectedTypes
<1>9. CASE handle_install_snapshot(i, m) BY <1>9, InstallSnapshotTypes
<1>10. CASE handle_install_snapshot_response(i, m) BY <1>10, InstallSnapshotResponseTypes
<1>11. CASE IgnoreResponse(i, m) BY <1>11, IgnoreResponseTypes
<1> QED BY <1>1, <1>2, <1>3, <1>4, <1>5, <1>6, <1>7, <1>8, <1>9, <1>10, <1>11
        DEF Receive

\* Every step keeps the types and the order of the indices.
LEMMA StepTypes ==
  ASSUME TypeInv, [Next]_vars
  PROVE  TypeInv'
<1>1. CASE UNCHANGED vars
  <2>1. /\ UNCHANGED <<term, voted_for, commit_index, log, log_offset,
                       log_offset_term, snapshot, state, lead, quiet, votes,
                       pre_votes, pending_pre_vote_term, progress,
                       next_read_context, read, waiting, last_applied, store,
                       pending_writes, apply_in_flight, capture, up, disk, msgs,
                       crashes, timeouts, elected, acked, observed, served>>
    BY <1>1, Zenon DEF vars, persistVars, roleVars, ballotVars, applyVars, loopVars,
                readVars, envVars
  <2> QED BY <2>1 DEF TypeInv, TypeOK, IndicesInOrder, last_log_index, WalImageOK
<1>2. ASSUME NEW i \in Server, NEW m \in msgs, Receive(i, m) PROVE TypeInv'
  BY <1>2, ReceiveTypes
<1>3. ASSUME NEW i \in Server, TickLeader(i) PROVE TypeInv'
  BY <1>3, TickLeaderTypes
<1>4. ASSUME NEW i \in Server, TickIdle(i) PROVE TypeInv'
  BY <1>4, TickIdleTypes
<1>5. ASSUME NEW i \in Server, TickQuiet(i) PROVE TypeInv'
  BY <1>5, TickQuietTypes
<1>6. ASSUME NEW i \in Server, TickElection(i) PROVE TypeInv'
  BY <1>6, TickElectionTypes
<1>7. ASSUME NEW i \in Server, NEW v \in Value, Propose(i, v) PROVE TypeInv'
  BY <1>7, ProposeTypes
<1>8. ASSUME NEW i \in Server, ApplyCommittedEntry(i) PROVE TypeInv'
  BY <1>8, ApplyCommittedEntryTypes
<1>9. ASSUME NEW i \in Server, AcknowledgeApplied(i) PROVE TypeInv'
  BY <1>9, AcknowledgeAppliedTypes
<1>10. ASSUME NEW i \in Server, ExpireWrite(i) PROVE TypeInv'
  BY <1>10, ExpireWriteTypes
<1>11. ASSUME NEW i \in Server, CaptureSnapshot(i) PROVE TypeInv'
  BY <1>11, CaptureSnapshotTypes
<1>12. ASSUME NEW i \in Server, TakeSnapshot(i) PROVE TypeInv'
  BY <1>12, TakeSnapshotTypes
<1>13. ASSUME NEW i \in Server, JoinRead(i) PROVE TypeInv'
  BY <1>13, JoinReadTypes
<1>14. ASSUME NEW i \in Server, OpenRead(i) PROVE TypeInv'
  BY <1>14, OpenReadTypes
<1>15. ASSUME NEW i \in Server, OpenReadWithNoOp(i) PROVE TypeInv'
  BY <1>15, OpenReadWithNoOpTypes
<1>16. ASSUME NEW i \in Server, NEW w \in waiting[i], CancelRead(i, w) PROVE TypeInv'
  BY <1>16, CancelReadTypes
<1>17. ASSUME NEW i \in Server, Crash(i) PROVE TypeInv'
  BY <1>17, CrashTypes
<1>18. ASSUME NEW i \in Server, Restart(i) PROVE TypeInv'
  BY <1>18, RestartTypes
<1> QED BY <1>1, <1>2, <1>3, <1>4, <1>5, <1>6, <1>7, <1>8, <1>9, <1>10, <1>11,
           <1>12, <1>13, <1>14, <1>15, <1>16, <1>17, <1>18, Zenon DEF Next

\* Types and index order hold together in every reachable state.
THEOREM TypeInvariant == Spec => []TypeInv
<1>1. Init => TypeInv
  BY InitTypes
<1>2. TypeInv /\ [Next]_vars => TypeInv'
  BY StepTypes
<1> QED BY <1>1, <1>2, PTL DEF Spec

\* Every variable of every node keeps its type, for any cluster, any values
\* and any bounds.
THEOREM TypeCorrect == Spec => []TypeOK
<1>1. TypeInv => TypeOK
  BY DEF TypeInv
<1> QED BY <1>1, TypeInvariant, PTL

\* On every node log_offset_ <= last_applied_ <= commit_index_ <=
\* last_log_index(), so log_entry() and next_entry_to_apply() never index
\* outside log_, after an install, a compaction and a restart included.
THEOREM IndicesCorrect == Spec => []IndicesInOrder
<1>1. TypeInv => IndicesInOrder
  BY DEF TypeInv
<1> QED BY <1>1, TypeInvariant, PTL
=============================================================================
