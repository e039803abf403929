----------------------------- MODULE TypeFacts ------------------------------
(***************************************************************************)
(* Every variable keeps its type, and the indices of a node stay in order: *)
(* the invariant, the operators, and the steps of an election.             *)
(***************************************************************************)
EXTENDS ClusterSafety, TLAPS, FiniteSetTheorems

\* The default prover; leaves with arithmetic or records cite SMT.
USE Zenon

(***************************************************************************)
(* The two are proved together: next_entry_to_apply() returns an entry     *)
(* because the indices are in order, and the indices are in order because  *)
(* of the types.  The types come in groups, one for each kind of state.    *)
(***************************************************************************)
PersistOK ==
  /\ term \in [Server -> Nat] /\ voted_for \in [Server -> Server \cup {None}]
  /\ commit_index \in [Server -> Nat] /\ log \in [Server -> Seq(Entry)]
  /\ log_offset \in [Server -> Nat] /\ log_offset_term \in [Server -> Nat]
  /\ snapshot \in [Server -> Seq(Entry)]
RoleOK ==
  /\ state \in [Server -> State] /\ lead \in [Server -> Server \cup {None}]
  /\ quiet \in [Server -> BOOLEAN]
  /\ votes \in [Server -> SUBSET Server] /\ pre_votes \in [Server -> SUBSET Server]
  /\ pending_pre_vote_term \in [Server -> Nat]
  /\ progress \in [Server -> [Server -> Progress]]
  /\ next_read_context \in [Server -> Nat]
  /\ elected \subseteq [term : Nat, leader : Server, votes : SUBSET Server]
ApplyOK ==
  /\ last_applied \in [Server -> Nat] /\ store \in [Server -> Seq(Entry)]
  /\ pending_writes \in [Server -> SUBSET (Nat \X Nat)]
  /\ acked \subseteq Nat \X Entry
LoopOK ==
  /\ read \in [Server -> Round] /\ waiting \in [Server -> SUBSET Read]
  /\ apply_in_flight \in [Server -> {NoApply} \cup (Nat \X Entry)]
  /\ capture \in [Server -> Capture]
  /\ observed \in Nat /\ served \subseteq [opened : BOOLEAN, stale : BOOLEAN]
  /\ msgs \subseteq Message
EnvOK ==
  /\ up \in [Server -> BOOLEAN] /\ crashes \in Nat /\ timeouts \in Nat
WalsOK ==
  disk = [i \in Server |-> disk[i]] /\ \A i \in Server : WalImageOK(disk[i])

TypeInv == TypeOK /\ IndicesInOrder

\* The groups are the whole of TypeOK.
LEMMA TypeGroups ==
  TypeOK <=> PersistOK /\ RoleOK /\ ApplyOK /\ LoopOK /\ EnvOK /\ WalsOK
  BY Zenon DEF TypeOK, PersistOK, RoleOK, ApplyOK, LoopOK, EnvOK, WalsOK

\* A message of a type has the fields of that type.
LEMMA MessageKinds ==
  ASSUME NEW m \in Message
  PROVE  /\ m.from \in Server /\ m.to \in Server /\ m.term \in Nat
         /\ m.type \in {"RequestVote", "PreVote"} => m \in RequestVote
         /\ m.type = "RequestVoteResponse" => m \in RequestVoteResponse
         /\ m.type = "PreVoteResponse" => m \in PreVoteResponse
         /\ m.type = "AppendEntries" => m \in AppendEntries
         /\ m.type = "AppendEntriesResponse" => m \in AppendEntriesResponse
         /\ m.type = "InstallSnapshot" => m \in InstallSnapshot
         /\ m.type = "InstallSnapshotResponse" => m \in InstallSnapshotResponse
  BY DEF Message, RequestVote, RequestVoteResponse, PreVoteResponse,
         AppendEntries, AppendEntriesResponse, InstallSnapshot,
         InstallSnapshotResponse

(***************************************************************************)
(* Operators on sequences and WAL images.                                  *)
(***************************************************************************)

\* A slice of a log that stays within it is a log.
LEMMA SliceOK ==
  ASSUME NEW S, NEW s \in Seq(S), NEW a \in Int, NEW b \in Int,
         a >= 1, b <= Len(s)
  PROVE  /\ SubSeq(s, a, b) \in Seq(S)
         /\ Len(SubSeq(s, a, b)) = IF a <= b THEN b - a + 1 ELSE 0
  BY SMT

\* Two logs in a row are a log, as long as both together.
LEMMA ConcatOK ==
  ASSUME NEW S, NEW s \in Seq(S), NEW t \in Seq(S)
  PROVE  s \o t \in Seq(S) /\ Len(s \o t) = Len(s) + Len(t)
  BY SMT

\* term_at() is a term.
LEMMA TermInOK ==
  ASSUME NEW lg \in Seq(Entry), NEW off \in Nat, NEW t \in Nat, NEW x \in Nat
  PROVE  term_in(lg, off, t, x) \in Nat
<1>1. ASSUME NEW k \in 1 .. Len(lg) PROVE lg[k].term \in Nat
  <2>1. lg[k] \in Entry
    BY SMT
  <2> QED BY <2>1 DEF Entry
<1>2. x > off /\ x <= off + Len(lg) => x - off \in 1 .. Len(lg)
  BY SMT
<1> QED BY SMT, <1>1, <1>2 DEF term_in

\* save_hard_state leaves a WAL that recover() reads as an image.
LEMMA SaveHardStateOK ==
  ASSUME NEW d, WalImageOK(d), NEW t \in Nat, NEW v \in Server \cup {None}, NEW c \in Nat
  PROVE  WalImageOK(save_hard_state(d, t, v, c))
  BY DEF WalImageOK, save_hard_state

\* So does a run of save_entry calls, which overrides the entries from the first
\* index on.
LEMMA SaveEntriesOK ==
  ASSUME NEW d, WalImageOK(d), NEW x \in Nat, NEW es \in Seq(Entry)
  PROVE  WalImageOK(save_entries(d, x, es))
<1>1. CASE es = <<>>
  BY <1>1 DEF save_entries
<1>2. CASE es # <<>>
  <2> DEFINE low == {y \in DOMAIN d.entries : y < x}
             new == x .. x + Len(es) - 1
             f == [y \in low \cup new |-> IF y < x THEN d.entries[y] ELSE es[y - x + 1]]
  <2>1. IsFiniteSet(low \cup new)
    <3>1. IsFiniteSet(low)
      BY FS_Subset DEF WalImageOK
    <3>2. IsFiniteSet(new)
      BY SMT, FS_Interval
    <3> QED BY <3>1, <3>2, FS_Union
  <2>2. low \cup new \subseteq Nat
    BY SMT DEF WalImageOK
  <2>3. ASSUME NEW y \in low \cup new PROVE f[y] \in Entry
    <3>1. CASE y < x
      BY SMT, <3>1 DEF WalImageOK
    <3>2. CASE ~(y < x)
      <4>1. y - x + 1 \in 1 .. Len(es)
        BY SMT, <2>2, <3>2
      <4> QED BY SMT, <3>2, <4>1
    <3> QED BY <3>1, <3>2
  <2>4. save_entries(d, x, es) = [d EXCEPT !.entries = f]
    BY <1>2 DEF save_entries
  <2> HIDE DEF f, low, new
  <2>5. DOMAIN f = low \cup new /\ f \in [DOMAIN f -> Entry]
    BY <2>3 DEF f
  <2> QED BY <2>1, <2>2, <2>4, <2>5 DEF WalImageOK
<1> QED BY <1>1, <1>2

\* So does save_snapshot, with and without discard_suffix.
LEMMA SaveSnapshotOK ==
  ASSUME NEW d, WalImageOK(d), NEW x \in Nat, NEW t \in Nat, NEW s \in Seq(Entry),
         NEW discard \in BOOLEAN
  PROVE  WalImageOK(save_snapshot(d, x, t, s, discard))
<1> DEFINE f == IF discard THEN <<>>
                ELSE Restrict(d.entries, {y \in DOMAIN d.entries : y > x})
<1>1. IsFiniteSet(DOMAIN f) /\ DOMAIN f \subseteq Nat /\ f \in [DOMAIN f -> Entry]
  <2>1. CASE discard
    <3>1. DOMAIN f = {} /\ f \in [{} -> Entry]
      BY SMT, <2>1
    <3>2. IsFiniteSet(DOMAIN f)
      BY <3>1, FS_EmptySet
    <3>3. f \in [DOMAIN f -> Entry]
      BY <3>1
    <3>4. DOMAIN f \subseteq Nat
      BY <3>1
    <3> QED BY <3>2, <3>3, <3>4
  <2>2. CASE ~discard
    <3>1. DOMAIN f = {y \in DOMAIN d.entries : y > x} /\ f \in [DOMAIN f -> Entry]
      BY <2>2 DEF WalImageOK, Restrict
    <3> QED BY <3>1, FS_Subset DEF WalImageOK
  <2> QED BY <2>1, <2>2
<1>2. save_snapshot(d, x, t, s, discard) =
        [d EXCEPT !.snapshot = [index |-> x, term |-> t, state |-> s], !.entries = f]
  BY DEF save_snapshot
<1> HIDE DEF f
<1>3. save_snapshot(d, x, t, s, discard) =
        [term |-> d.term, vote |-> d.vote, commit |-> d.commit,
         snapshot |-> [index |-> x, term |-> t, state |-> s], entries |-> f]
  BY <1>2 DEF WalImageOK
<1> QED BY SMT, <1>1, <1>3 DEF WalImageOK

\* What restore() makes of an image it accepts.
LEMMA RestoreOK ==
  ASSUME NEW d, WalImageOK(d), restorable(d)
  PROVE  /\ restored_log(d) \in Seq(Entry)
         /\ restored_commit(d) \in Nat
         /\ d.snapshot.index <= restored_commit(d)
         /\ restored_commit(d) <= d.snapshot.index + Len(restored_log(d))
<1>1. IsFiniteSet(retained(d)) /\ retained(d) \subseteq DOMAIN d.entries
  BY FS_Subset DEF WalImageOK, retained
<1>2. Cardinality(retained(d)) \in Nat
  BY <1>1, FS_CardinalityType
<1> DEFINE n == Cardinality(retained(d))
<1>3. d.snapshot.index \in Nat /\ d.commit \in Nat
  BY DEF WalImageOK
<1> HIDE DEF n
<1>4. ASSUME NEW k \in 1 .. n PROVE d.entries[d.snapshot.index + k] \in Entry
  <2>1. retained(d) = d.snapshot.index + 1 .. d.snapshot.index + n
    BY DEF restorable, n
  <2>2. d.snapshot.index + k \in retained(d)
    BY SMT, <2>1, <1>2, <1>3 DEF n
  <2> QED BY <2>2, <1>1 DEF WalImageOK
<1>5. restored_log(d) \in Seq(Entry) /\ Len(restored_log(d)) = n
  <2>1. restored_log(d) \in [1 .. n -> Entry]
    BY <1>4 DEF restored_log, n
  <2>2. n \in Nat
    BY <1>2 DEF n
  <2> QED BY SMT, <2>1, <2>2
<1> QED BY SMT, <1>2, <1>3, <1>5 DEF restorable, restored_commit, n

(***************************************************************************)
(* What every action ends with.                                            *)
(***************************************************************************)

\* A heartbeat round consists of well-formed messages.
LEMMA BroadcastOK ==
  ASSUME PersistOK, NEW i \in Server, NEW lg \in Seq(Entry),
         NEW pr \in [Server -> Progress], NEW rd \in Round
  PROVE  broadcast_heartbeat(i, lg, pr, rd) \subseteq Message
<1> SUFFICES ASSUME NEW j \in peers(i)
             PROVE  (IF pr[j].next <= log_offset[i]
                       THEN make_install_snapshot(i, j)
                       ELSE make_append_entries(i, j, lg, pr[j].next,
                              IF rd.pending THEN rd.context ELSE 0)) \in Message
  BY DEF broadcast_heartbeat
<1>1. /\ j \in Server /\ pr[j].next \in Nat /\ pr[j].next >= 1
      /\ log_offset[i] \in Nat /\ log_offset_term[i] \in Nat /\ term[i] \in Nat
      /\ commit_index[i] \in Nat /\ snapshot[i] \in Seq(Entry)
  BY SMTT(30) DEF peers, Progress, PersistOK
<1>2. make_install_snapshot(i, j) \in InstallSnapshot
  BY <1>1 DEF make_install_snapshot, InstallSnapshot
<1>3. ASSUME ~(pr[j].next <= log_offset[i])
      PROVE  make_append_entries(i, j, lg, pr[j].next,
               IF rd.pending THEN rd.context ELSE 0) \in AppendEntries
  <2>1. SubSeq(lg, pr[j].next - log_offset[i], Len(lg)) \in Seq(Entry)
    BY SMT, <1>1, <1>3, SliceOK
  <2>4. pr[j].next - 1 \in Nat
    BY SMT, <1>1
  <2>2. term_in(lg, log_offset[i], log_offset_term[i], pr[j].next - 1) \in Nat
    BY <1>1, <2>4, TermInOK
  <2>3. (IF rd.pending THEN rd.context ELSE 0) \in Nat
    BY DEF Round
  <2> QED BY <1>1, <2>1, <2>2, <2>3, <2>4 DEF make_append_entries, AppendEntries
<1> QED BY <1>2, <1>3 DEF Message

\* The entry handed to the KV loop is an entry of the log: the indices are in
\* order.
LEMMA DispatchOK ==
  ASSUME LoopOK, PersistOK', ApplyOK', IndicesInOrder', NEW i \in Server,
         NEW f \in {NoApply} \cup (Nat \X Entry),
         dispatch_next_committed_entry(i, f)
  PROVE  apply_in_flight' \in [Server -> {NoApply} \cup (Nat \X Entry)]
<1>1. ASSUME last_applied'[i] < commit_index'[i]
      PROVE  next_entry_to_apply(i)' \in Nat \X Entry
  <2>1. /\ last_applied'[i] \in Nat /\ log_offset'[i] \in Nat
        /\ commit_index'[i] \in Nat /\ log'[i] \in Seq(Entry)
    BY DEF PersistOK, ApplyOK
  <2>2. last_applied'[i] + 1 - log_offset'[i] \in 1 .. Len(log'[i])
    BY SMT, <1>1, <2>1 DEF IndicesInOrder, last_log_index
  <2>3. log'[i][last_applied'[i] + 1 - log_offset'[i]] \in Entry
    BY SMT, <2>1, <2>2
  <2>4. next_entry_to_apply(i)' = <<last_applied'[i] + 1,
                                    log'[i][last_applied'[i] + 1 - log_offset'[i]]>>
    BY Zenon DEF next_entry_to_apply
  <2> QED BY SMT, <2>1, <2>3, <2>4
<1>2. (IF f = NoApply /\ last_applied'[i] < commit_index'[i]
         THEN next_entry_to_apply(i)' ELSE f) \in {NoApply} \cup (Nat \X Entry)
  BY <1>1
<1> QED BY <1>2 DEF dispatch_next_committed_entry, LoopOK

\* poll_read_indexes answers reads and keeps the types of what it touches.
LEMMA PollOK ==
  ASSUME LoopOK, ApplyOK', NEW i \in Server, NEW rd \in Round,
         NEW ws \in SUBSET Read, poll_read_indexes(i, rd, ws)
  PROVE  /\ read' \in [Server -> Round] /\ waiting' \in [Server -> SUBSET Read]
         /\ observed' \in Nat /\ served' \subseteq [opened : BOOLEAN, stale : BOOLEAN]
<1> DEFINE done == {w \in ws : read_index_ready(i, rd, w)}
           answer(w) == [opened |-> w.opened, stale |-> Len(store'[i]) < w.floor]
<1>1. NoRead \in Round
  BY DEF NoRead, Round
<1>2. Len(store'[i]) \in Nat
  BY SMT DEF ApplyOK
<1>3. /\ waiting' = [waiting EXCEPT ![i] =
                   IF state'[i] = "Leader" THEN ws \ done ELSE {}]
      /\ read' = [read EXCEPT ![i] = IF done = {} THEN rd ELSE NoRead]
      /\ served' = served \cup {answer(w) : w \in done}
      /\ observed' = IF done # {} /\ Len(store'[i]) > observed
                       THEN Len(store'[i]) ELSE observed
  BY DEF poll_read_indexes
<1>4. done \subseteq Read
  OBVIOUS
<1> HIDE DEF done
<1>5. read' \in [Server -> Round]
  BY <1>1, <1>3 DEF LoopOK
<1>6. waiting' \in [Server -> SUBSET Read]
  <2>1. (IF state'[i] = "Leader" THEN ws \ done ELSE {}) \in SUBSET Read
    OBVIOUS
  <2> QED BY <1>3, <2>1 DEF LoopOK
<1>7. observed' \in Nat
  BY <1>2, <1>3 DEF LoopOK
<1>8. served' \subseteq [opened : BOOLEAN, stale : BOOLEAN]
  <2>1. ASSUME NEW w \in done
        PROVE  answer(w) \in [opened : BOOLEAN, stale : BOOLEAN]
    <3>1. w.opened \in BOOLEAN
      BY <1>4 DEF Read
    <3>2. (Len(store'[i]) < w.floor) \in BOOLEAN
      BY SMT
    <3> QED BY <3>1, <3>2
  <2> HIDE DEF answer
  <2> QED BY <1>3, <2>1 DEF LoopOK
<1> QED BY <1>5, <1>6, <1>7, <1>8

\* maybe_capture_snapshot leaves a capture state.
LEMMA CaptureOK ==
  ASSUME LoopOK, NEW i \in Server, NEW c \in Capture, maybe_capture_snapshot(i, c)
  PROVE  capture' \in [Server -> Capture]
<1>1. Requested \in Capture
  BY SMT DEF Requested, Capture
<1> QED BY <1>1 DEF maybe_capture_snapshot, LoopOK

\* flush_raft_messages sends well-formed messages only.
LEMMA FlushOK ==
  ASSUME LoopOK, NEW in, NEW out \in SUBSET Message, flush_raft_messages(in, out)
  PROVE  msgs' \subseteq Message
  BY DEF flush_raft_messages, LoopOK

\* after_raft_activity, which ends every handler, keeps the types of the loop.
LEMMA AfterOK ==
  ASSUME LoopOK, PersistOK', ApplyOK', IndicesInOrder', NEW i \in Server,
         NEW rd \in Round, NEW in, NEW out \in SUBSET Message,
         after_raft_activity(i, rd, in, out)
  PROVE  LoopOK'
<1>1. /\ apply_in_flight[i] \in {NoApply} \cup (Nat \X Entry)
      /\ waiting[i] \in SUBSET Read /\ capture[i] \in Capture
  BY DEF LoopOK
<1>2. apply_in_flight' \in [Server -> {NoApply} \cup (Nat \X Entry)]
  BY <1>1, DispatchOK DEF after_raft_activity
<1>3. /\ read' \in [Server -> Round] /\ waiting' \in [Server -> SUBSET Read]
      /\ observed' \in Nat /\ served' \subseteq [opened : BOOLEAN, stale : BOOLEAN]
  BY <1>1, PollOK DEF after_raft_activity
<1>4. capture' \in [Server -> Capture]
  BY <1>1, CaptureOK DEF after_raft_activity
<1>5. msgs' \subseteq Message
  BY FlushOK DEF after_raft_activity
<1> QED BY <1>2, <1>3, <1>4, <1>5 DEF LoopOK

(***************************************************************************)
(* The invariant, group by group, before and after a step.                 *)
(***************************************************************************)

\* The invariant gives every group of types and the order of the indices.
LEMMA InvGroups ==
  ASSUME TypeInv
  PROVE  PersistOK /\ RoleOK /\ ApplyOK /\ LoopOK /\ EnvOK /\ WalsOK /\ IndicesInOrder
  BY TypeGroups, Zenon DEF TypeInv

\* After a step the groups and the order of the indices give the invariant.
LEMMA InvFromGroups ==
  ASSUME PersistOK', RoleOK', ApplyOK', LoopOK', EnvOK', WalsOK', IndicesInOrder'
  PROVE  TypeInv'
  BY Zenon DEF TypeInv, TypeOK, PersistOK, RoleOK, ApplyOK, LoopOK, EnvOK, WalsOK

\* Replacing one WAL image by another leaves every WAL readable.
LEMMA PersistKeepsWalsOK ==
  ASSUME WalsOK, NEW i \in Server, NEW d, WalImageOK(d), Persist(i, d)
  PROVE  WalsOK'
<1>1. disk' = [disk EXCEPT ![i] = d] /\ DOMAIN disk = Server
  BY DEF Persist, WalsOK
<1>2. disk' = [j \in Server |-> disk'[j]]
  BY <1>1
<1>3. ASSUME NEW j \in Server PROVE WalImageOK(disk'[j])
  <2>1. disk'[j] = d \/ disk'[j] = disk[j]
    BY <1>1
  <2> QED BY <2>1 DEF WalsOK
<1> QED BY <1>2, <1>3 DEF WalsOK, WalImageOK

\* A step that leaves the four indices alone leaves them in order.
LEMMA IndicesKept ==
  ASSUME IndicesInOrder, UNCHANGED <<commit_index, log, log_offset, last_applied>>
  PROVE  IndicesInOrder'
  BY DEF IndicesInOrder, last_log_index

\* The record that a newer term makes durable.
LEMMA NewerTermOK ==
  ASSUME PersistOK, WalsOK, NEW i \in Server, NEW m, m.term \in Nat
  PROVE  WalImageOK(newer_term_image(i, m)) /\ WalImageOK(step_down_image(i, m.term))
<1>1. WalImageOK(disk[i]) /\ commit_index[i] \in Nat
  BY DEF WalsOK, PersistOK
<1>2. WalImageOK(step_down_image(i, m.term))
  BY <1>1, SaveHardStateOK DEF step_down_image
<1> QED BY <1>1, <1>2 DEF newer_term_image

(***************************************************************************)
(* Elections.                                                              *)
(***************************************************************************)

\* The invariant survives stepping down on a newer term.
LEMMA StepDownTypes ==
  ASSUME TypeInv, NEW i \in Server, NEW m \in msgs, StepDown(i, m)
  PROVE  TypeInv'
<1>1. PersistOK /\ RoleOK /\ ApplyOK /\ LoopOK /\ EnvOK /\ WalsOK /\ IndicesInOrder
  BY InvGroups
<1>2. m \in Message /\ m.term \in Nat
  BY <1>1, MessageKinds DEF LoopOK
<1>3. PersistOK'
  BY <1>1, <1>2 DEF StepDown, PersistOK
<1>4. RoleOK'
  BY <1>1 DEF StepDown, RoleOK, State
<1>5. ApplyOK' /\ EnvOK'
  BY <1>1 DEF StepDown, ApplyOK, EnvOK, applyVars, envVars
<1>6. IndicesInOrder'
  BY <1>1, IndicesKept DEF StepDown, applyVars
<1>7. WalsOK'
  BY <1>1, <1>2, NewerTermOK, PersistKeepsWalsOK DEF StepDown
<1>8. LoopOK'
  <2>1. NoRead \in Round /\ {} \in SUBSET Message
    BY DEF NoRead, Round
  <2> QED BY <1>1, <1>3, <1>5, <1>6, <2>1, AfterOK DEF StepDown
<1> QED BY <1>3, <1>4, <1>5, <1>6, <1>7, <1>8, InvFromGroups

\* The invariant survives a leader's tick.
LEMMA TickLeaderTypes ==
  ASSUME TypeInv, NEW i \in Server, TickLeader(i)
  PROVE  TypeInv'
<1>1. PersistOK /\ RoleOK /\ ApplyOK /\ LoopOK /\ EnvOK /\ WalsOK /\ IndicesInOrder
  BY InvGroups
<1>2. PersistOK' /\ RoleOK' /\ ApplyOK' /\ EnvOK' /\ WalsOK'
  BY <1>1 DEF TickLeader, PersistOK, RoleOK, ApplyOK, EnvOK, WalsOK, WalImageOK,
              persistVars, roleVars, ballotVars, applyVars, envVars
<1>3. IndicesInOrder'
  BY <1>1, IndicesKept DEF TickLeader, persistVars, applyVars
<1>4. LoopOK'
  <2>1. /\ log[i] \in Seq(Entry) /\ progress[i] \in [Server -> Progress]
        /\ read[i] \in Round
    BY <1>1 DEF PersistOK, RoleOK, LoopOK
  <2>2. broadcast_heartbeat(i, log[i], progress[i], read[i]) \in SUBSET Message
    BY <1>1, <2>1, BroadcastOK
  <2> QED BY <1>1, <1>2, <1>3, <2>1, <2>2, AfterOK DEF TickLeader
<1> QED BY <1>2, <1>3, <1>4, InvFromGroups

\* The invariant survives a tick before any timeout.
LEMMA TickIdleTypes ==
  ASSUME TypeInv, NEW i \in Server, TickIdle(i)
  PROVE  TypeInv'
<1>1. PersistOK /\ RoleOK /\ ApplyOK /\ LoopOK /\ EnvOK /\ WalsOK /\ IndicesInOrder
  BY InvGroups
<1>2. PersistOK' /\ RoleOK' /\ ApplyOK' /\ EnvOK' /\ WalsOK'
  BY <1>1 DEF TickIdle, PersistOK, RoleOK, ApplyOK, EnvOK, WalsOK, WalImageOK,
              persistVars, roleVars, ballotVars, applyVars, envVars
<1>3. IndicesInOrder'
  BY <1>1, IndicesKept DEF TickIdle, persistVars, applyVars
<1>4. LoopOK'
  <2>1. read[i] \in Round /\ {} \in SUBSET Message
    BY <1>1 DEF LoopOK
  <2> QED BY <1>1, <1>2, <1>3, <2>1, AfterOK DEF TickIdle
<1> QED BY <1>2, <1>3, <1>4, InvFromGroups

\* The invariant survives the tick at which the leader has been silent too long.
LEMMA TickQuietTypes ==
  ASSUME TypeInv, NEW i \in Server, TickQuiet(i)
  PROVE  TypeInv'
<1>1. PersistOK /\ RoleOK /\ ApplyOK /\ LoopOK /\ EnvOK /\ WalsOK /\ IndicesInOrder
  BY InvGroups
<1>2. PersistOK' /\ ApplyOK' /\ WalsOK'
  BY <1>1 DEF TickQuiet, PersistOK, ApplyOK, WalsOK, WalImageOK, persistVars, applyVars
<1>3. RoleOK' /\ EnvOK'
  BY SMT, <1>1 DEF TickQuiet, RoleOK, EnvOK, ballotVars
<1>4. IndicesInOrder'
  BY <1>1, IndicesKept DEF TickQuiet, persistVars, applyVars
<1>5. LoopOK'
  <2>1. read[i] \in Round /\ {} \in SUBSET Message
    BY <1>1 DEF LoopOK
  <2> QED BY <1>1, <1>2, <1>4, <2>1, AfterOK DEF TickQuiet
<1> QED BY <1>2, <1>3, <1>4, <1>5, InvFromGroups

\* The requests of a campaign are well formed.
LEMMA RequestVoteOK ==
  ASSUME PersistOK, NEW i \in Server, NEW t \in Nat,
         NEW type \in {"RequestVote", "PreVote"}
  PROVE  {request_vote(i, j, type, t) : j \in peers(i)} \in SUBSET Message
<1>1. log_offset[i] \in Nat /\ log_offset_term[i] \in Nat /\ log[i] \in Seq(Entry)
  BY DEF PersistOK
<1>2. last_log_index(i) \in Nat
  BY SMT, <1>1 DEF last_log_index
<1>3. last_log_term(i) \in Nat
  <2>1. CASE log[i] # <<>>
    <3>1. log[i][Len(log[i])] \in Entry
      BY SMT, <1>1, <2>1
    <3> QED BY <2>1, <3>1 DEF last_log_term, Entry
  <2> QED BY <1>1, <2>1 DEF last_log_term
<1>4. ASSUME NEW j \in peers(i) PROVE request_vote(i, j, type, t) \in RequestVote
  BY <1>2, <1>3 DEF request_vote, RequestVote, peers
<1> QED BY <1>4 DEF Message

\* The invariant survives a tick at the election timeout.
LEMMA TickElectionTypes ==
  ASSUME TypeInv, NEW i \in Server, TickElection(i)
  PROVE  TypeInv'
<1>1. PersistOK /\ RoleOK /\ ApplyOK /\ LoopOK /\ EnvOK /\ WalsOK /\ IndicesInOrder
  BY InvGroups
<1>2. PersistOK' /\ ApplyOK' /\ WalsOK'
  BY <1>1 DEF TickElection, PersistOK, ApplyOK, WalsOK, WalImageOK, persistVars, applyVars
<1>3. term[i] + 1 \in Nat
  BY SMT, <1>1 DEF PersistOK
<1>4. RoleOK' /\ EnvOK'
  BY SMTT(30), <1>1, <1>3 DEF TickElection, RoleOK, EnvOK, State
<1>5. IndicesInOrder'
  BY <1>1, IndicesKept DEF TickElection, persistVars, applyVars
<1>6. LoopOK'
  <2>1. read[i] \in Round
    BY <1>1 DEF LoopOK
  <2>2. {request_vote(i, j, "PreVote", term[i] + 1) : j \in peers(i)} \in SUBSET Message
    BY <1>1, <1>3, RequestVoteOK
  <2> QED BY <1>1, <1>2, <1>5, <2>1, <2>2, AfterOK DEF TickElection
<1> QED BY <1>2, <1>4, <1>5, <1>6, InvFromGroups

\* The invariant survives handle_pre_vote.
LEMMA PreVoteTypes ==
  ASSUME TypeInv, NEW i \in Server, NEW m \in msgs, handle_pre_vote(i, m)
  PROVE  TypeInv'
<1>1. PersistOK /\ RoleOK /\ ApplyOK /\ LoopOK /\ EnvOK /\ WalsOK /\ IndicesInOrder
  BY InvGroups
<1>2. PersistOK' /\ RoleOK' /\ ApplyOK' /\ EnvOK' /\ WalsOK'
  BY <1>1 DEF handle_pre_vote, PersistOK, RoleOK, ApplyOK, EnvOK, WalsOK, WalImageOK,
              persistVars, roleVars, ballotVars, applyVars, envVars
<1>3. IndicesInOrder'
  BY <1>1, IndicesKept DEF handle_pre_vote, persistVars, applyVars
<1>4. LoopOK'
  <2> DEFINE r == [type |-> "PreVoteResponse", from |-> i, to |-> m.from,
                   term |-> term[i], vote_granted |-> grants_pre_vote(i, m),
                   pre_vote_term |-> m.term]
  <2>1. read[i] \in Round /\ m \in Message /\ term[i] \in Nat
    BY <1>1 DEF LoopOK, PersistOK
  <2>2. grants_pre_vote(i, m) \in BOOLEAN
    BY DEF grants_pre_vote
  <2>3. m.from \in Server /\ m.term \in Nat
    BY <2>1, MessageKinds
  <2>4. r \in PreVoteResponse
    BY <2>1, <2>2, <2>3 DEF PreVoteResponse
  <2>5. {r} \in SUBSET Message
    BY <2>4 DEF Message
  <2>6. after_raft_activity(i, read[i], {m}, {r})
    BY DEF handle_pre_vote
  <2> HIDE DEF r
  <2> QED BY <1>1, <1>2, <1>3, <2>1, <2>5, <2>6, AfterOK
<1> QED BY <1>2, <1>3, <1>4, InvFromGroups

\* The invariant survives handle_pre_vote_response.
LEMMA PreVoteResponseTypes ==
  ASSUME TypeInv, NEW i \in Server, NEW m \in msgs, handle_pre_vote_response(i, m)
  PROVE  TypeInv'
<1> DEFINE granted == IF m.vote_granted THEN pre_votes[i] \cup {m.from}
                                        ELSE pre_votes[i]
<1>1. PersistOK /\ RoleOK /\ ApplyOK /\ LoopOK /\ EnvOK /\ WalsOK /\ IndicesInOrder
  BY InvGroups
<1>2. m \in Message /\ m.from \in Server
  BY <1>1, MessageKinds DEF LoopOK
<1>3. granted \in SUBSET Server
  BY <1>1, <1>2 DEF RoleOK
<1>4. pre_votes' = [pre_votes EXCEPT ![i] = granted]
  BY DEF handle_pre_vote_response
<1>5. ApplyOK' /\ EnvOK'
  BY <1>1 DEF handle_pre_vote_response, ApplyOK, EnvOK, applyVars, envVars
<1>6. IndicesInOrder'
  BY <1>1, IndicesKept DEF handle_pre_vote_response, applyVars
<1>7. term[i] + 1 \in Nat /\ commit_index[i] \in Nat /\ read[i] \in Round
      /\ {} \in SUBSET Message /\ WalImageOK(disk[i])
  BY SMT, <1>1 DEF PersistOK, LoopOK, WalsOK
<1>8. CASE ~majority(granted)
  <2>1. UNCHANGED <<term, voted_for, state, lead, quiet, votes,
                    pending_pre_vote_term, disk>>
        /\ after_raft_activity(i, read[i], {m}, {})
    BY <1>8 DEF handle_pre_vote_response
  <2> HIDE DEF granted
  <2>2. PersistOK' /\ WalsOK'
    BY <1>1, <2>1 DEF handle_pre_vote_response, PersistOK, WalsOK, WalImageOK
  <2>3. RoleOK'
    BY <1>1, <1>3, <1>4, <2>1 DEF handle_pre_vote_response, RoleOK
  <2>4. LoopOK'
    BY <1>1, <1>5, <1>6, <1>7, <2>1, <2>2, AfterOK
  <2> QED BY <1>5, <1>6, <2>2, <2>3, <2>4, InvFromGroups
<1>9. CASE majority(granted)
  <2>1. become_candidate(i)
        /\ after_raft_activity(i, read[i], {m},
             {request_vote(i, j, "RequestVote", term[i] + 1) : j \in peers(i)})
    BY <1>9 DEF handle_pre_vote_response
  <2> HIDE DEF granted
  <2>2. PersistOK'
    BY SMT, <1>1, <2>1 DEF handle_pre_vote_response, become_candidate, PersistOK
  <2>3. RoleOK'
    BY SMTT(30), <1>1, <1>3, <1>4, <2>1 DEF handle_pre_vote_response, become_candidate, RoleOK, State
  <2>4. WalsOK'
    <3>1. WalImageOK(candidate_image(i))
      BY <1>7, SaveHardStateOK DEF candidate_image
    <3> QED BY <1>1, <2>1, <3>1, PersistKeepsWalsOK DEF become_candidate
  <2>5. LoopOK'
    <3>1. {request_vote(i, j, "RequestVote", term[i] + 1) : j \in peers(i)} \in SUBSET Message
      BY <1>1, <1>7, RequestVoteOK
    <3> QED BY <1>1, <1>5, <1>6, <1>7, <2>1, <2>2, <3>1, AfterOK
  <2> QED BY <1>5, <1>6, <2>2, <2>3, <2>4, <2>5, InvFromGroups
<1> QED BY <1>8, <1>9

\* The invariant survives handle_request_vote.
LEMMA RequestVoteTypes ==
  ASSUME TypeInv, NEW i \in Server, NEW m \in msgs, handle_request_vote(i, m)
  PROVE  TypeInv'
<1>1. PersistOK /\ RoleOK /\ ApplyOK /\ LoopOK /\ EnvOK /\ WalsOK /\ IndicesInOrder
  BY InvGroups
<1>2. m \in Message /\ m.from \in Server /\ m.term \in Nat
  BY <1>1, MessageKinds DEF LoopOK
<1>3. /\ vote_term(i, m) \in Nat /\ standing_vote(i, m) \in Server \cup {None}
      /\ commit_index[i] \in Nat
  BY <1>1, <1>2 DEF vote_term, standing_vote, PersistOK
<1>4. PersistOK'
  BY <1>1, <1>2, <1>3 DEF handle_request_vote, PersistOK
<1>5. RoleOK'
  BY <1>1 DEF handle_request_vote, RoleOK, State
<1>6. ApplyOK' /\ EnvOK'
  BY <1>1 DEF handle_request_vote, ApplyOK, EnvOK, applyVars, envVars
<1>7. IndicesInOrder'
  BY <1>1, IndicesKept DEF handle_request_vote, applyVars
<1>8. WalsOK'
  <2>1. WalImageOK(newer_term_image(i, m))
    BY <1>1, <1>2, NewerTermOK
  <2>2. WalImageOK(vote_image(i, m))
    BY <1>2, <1>3, <2>1, SaveHardStateOK DEF vote_image
  <2> QED BY <1>1, <2>2, PersistKeepsWalsOK DEF handle_request_vote
<1>9. LoopOK'
  <2> DEFINE r == [type |-> "RequestVoteResponse", from |-> i, to |-> m.from,
                   term |-> vote_term(i, m), vote_granted |-> grants_vote(i, m)]
             rd == IF m.term > term[i] THEN NoRead ELSE read[i]
  <2>1. rd \in Round
    BY <1>1 DEF LoopOK, NoRead, Round
  <2>2. grants_vote(i, m) \in BOOLEAN
    BY DEF grants_vote
  <2>3. r \in RequestVoteResponse
    BY <1>2, <1>3, <2>2 DEF RequestVoteResponse
  <2>4. {r} \in SUBSET Message
    BY <2>3 DEF Message
  <2>5. after_raft_activity(i, rd, {m}, {r})
    BY DEF handle_request_vote
  <2> HIDE DEF r, rd
  <2> QED BY <1>1, <1>4, <1>6, <1>7, <2>1, <2>4, <2>5, AfterOK
<1> QED BY <1>4, <1>5, <1>6, <1>7, <1>8, <1>9, InvFromGroups

\* The invariant survives handle_request_vote_response.
LEMMA RequestVoteResponseTypes ==
  ASSUME TypeInv, NEW i \in Server, NEW m \in msgs, handle_request_vote_response(i, m)
  PROVE  TypeInv'
<1> DEFINE granted == IF m.vote_granted THEN votes[i] \cup {m.from} ELSE votes[i]
<1>1. PersistOK /\ RoleOK /\ ApplyOK /\ LoopOK /\ EnvOK /\ WalsOK /\ IndicesInOrder
  BY InvGroups
<1>2. m \in Message /\ m.from \in Server
  BY <1>1, MessageKinds DEF LoopOK
<1>3. granted \in SUBSET Server
  BY <1>1, <1>2 DEF RoleOK
<1>4. votes' = [votes EXCEPT ![i] = granted]
  BY DEF handle_request_vote_response
<1>5. PersistOK' /\ ApplyOK' /\ EnvOK' /\ WalsOK'
  BY <1>1 DEF handle_request_vote_response, PersistOK, ApplyOK, EnvOK, WalsOK,
              WalImageOK, persistVars, applyVars, envVars
<1>6. IndicesInOrder'
  BY <1>1, IndicesKept DEF handle_request_vote_response, persistVars, applyVars
<1>7. /\ term[i] \in Nat /\ read[i] \in Round /\ {} \in SUBSET Message
      /\ log[i] \in Seq(Entry) /\ log_offset[i] \in Nat
  BY <1>1 DEF PersistOK, LoopOK
<1>8. CASE ~majority(granted)
  <2>1. UNCHANGED <<state, lead, progress, elected>>
        /\ after_raft_activity(i, read[i], {m}, {})
    BY <1>8 DEF handle_request_vote_response
  <2> HIDE DEF granted
  <2>2. RoleOK'
    BY <1>1, <1>3, <1>4, <2>1 DEF handle_request_vote_response, RoleOK
  <2>3. LoopOK'
    BY <1>1, <1>5, <1>6, <1>7, <2>1, AfterOK
  <2> QED BY <1>5, <1>6, <2>2, <2>3, InvFromGroups
<1>9. CASE majority(granted)
  <2>1. /\ state' = [state EXCEPT ![i] = "Leader"]
        /\ lead' = [lead EXCEPT ![i] = i]
        /\ progress' = [progress EXCEPT ![i] = fresh_progress(i)]
        /\ elected' = elected \cup
             {[term |-> term[i], leader |-> i, votes |-> granted]}
        /\ after_raft_activity(i, read[i], {m},
             broadcast_heartbeat(i, log[i], fresh_progress(i), read[i]))
    BY <1>9 DEF handle_request_vote_response
  <2> HIDE DEF granted
  <2>2. fresh_progress(i) \in [Server -> Progress]
    BY SMTT(30), <1>7 DEF fresh_progress, Progress, last_log_index
  <2>3. RoleOK'
    <3>1. elected' \subseteq [term : Nat, leader : Server, votes : SUBSET Server]
      BY SMTT(30), <1>1, <1>3, <1>7, <2>1 DEF RoleOK
    <3>2. /\ state' \in [Server -> State] /\ lead' \in [Server -> Server \cup {None}]
          /\ votes' \in [Server -> SUBSET Server]
          /\ progress' \in [Server -> [Server -> Progress]]
      BY <1>1, <1>3, <1>4, <2>1, <2>2 DEF RoleOK, State
    <3> QED BY <1>1, <3>1, <3>2 DEF handle_request_vote_response, RoleOK
  <2>4. LoopOK'
    <3>1. broadcast_heartbeat(i, log[i], fresh_progress(i), read[i]) \in SUBSET Message
      BY <1>1, <1>7, <2>2, BroadcastOK
    <3> QED BY <1>1, <1>5, <1>6, <1>7, <2>1, <3>1, AfterOK
  <2> QED BY <1>5, <1>6, <2>3, <2>4, InvFromGroups
<1> QED BY <1>8, <1>9
=============================================================================
