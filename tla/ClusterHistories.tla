-------------------------- MODULE ClusterHistories --------------------------
(***************************************************************************)
(* What the cluster promises about sequences of entries: one is a prefix   *)
(* of another.                                                             *)
(***************************************************************************)
EXTENDS ClusterSafety, SequencesExt

\* The entries that WAL image d has as committed.
durable_committed(d) ==
  d.snapshot.state \o
    [k \in 1 .. restored_commit(d) - d.snapshot.index |-> d.entries[d.snapshot.index + k]]

\* A node's durable commit index never goes back, and no durable committed
\* entry is ever rewritten (the truncation in handle_append_entries, the
\* snapshot records, torn batches).
CommittedStaysDurable ==
  [][\A i \in Server :
       IsPrefix(durable_committed(disk[i]), durable_committed(disk'[i]))]_vars

\* Any two state machines have applied the same entries in the same order, up
\* to where the shorter one is.
StateMachineSafety ==
  \A i, j \in Server : IsPrefix(store[i], store[j]) \/ IsPrefix(store[j], store[i])

\* The KV state of a node is what its own snapshot and log give, entry by entry,
\* although another loop applies the entries, captures the snapshot and has it
\* replaced (apply_committed_entry, maybe_capture_snapshot, restore_snapshot,
\* recover_storage).
StoreFollowsLog ==
  \A i \in Server : up[i] => IsPrefix(store[i], snapshot[i] \o log[i])

\* While a process runs its KV state only grows: neither applying nor
\* installing a snapshot takes back an applied entry.
StoreOnlyGrows ==
  [][\A i \in Server : up[i] /\ up'[i] => IsPrefix(store[i], store'[i])]_vars
=============================================================================
