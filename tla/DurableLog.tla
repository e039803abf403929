---------------------------- MODULE DurableLog ----------------------------
(***************************************************************************)
(* What Raft expects of its WAL: sync() makes the records saved since the  *)
(* last one durable, in order, and a node that dies leaves the effect of a *)
(* prefix of the records not yet synced.  These are the crash images of    *)
(* module Cluster; module WalFile implements this specification with the   *)
(* file that WAL writes and recover() reads.                               *)
(***************************************************************************)
EXTENDS Wal, SequencesExt

CONSTANT Record

VARIABLES
  disk,      \* the image that a restart recovers
  pending,   \* the records saved and not yet synced
  up

\* The effect of one record.
apply(d, r) ==
  CASE r.type = "HardState" -> save_hard_state(d, r.term, r.vote, r.commit)
    [] r.type = "Entry"     -> save_entries(d, r.index, <<r.entry>>)
    [] r.type = "Snapshot"  ->
         save_snapshot(d, r.index, r.term, r.state, r.discard_suffix)

Init == disk = EmptyWal /\ pending = <<>> /\ up = TRUE

Save(r) == up /\ pending' = Append(pending, r) /\ UNCHANGED <<disk, up>>

Sync ==
  /\ up
  /\ disk' = FoldLeft(apply, disk, pending) /\ pending' = <<>>
  /\ UNCHANGED up

Crash ==
  /\ up /\ up' = FALSE /\ pending' = <<>>
  /\ \E k \in 0 .. Len(pending) :
       disk' = FoldLeft(apply, disk, SubSeq(pending, 1, k))

Restart == ~up /\ up' = TRUE /\ UNCHANGED <<disk, pending>>

Next == (\E r \in Record : Save(r)) \/ Sync \/ Crash \/ Restart

Spec == Init /\ [][Next]_<<disk, pending, up>>
=============================================================================
