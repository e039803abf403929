----------------------------- MODULE MCWalFile -----------------------------
(***************************************************************************)
(* Instances of the WAL for TLC.                                           *)
(***************************************************************************)
EXTENDS WalFile

CONSTANT s1    \* a node to vote for

hard_state(t, v, c) == [type |-> "HardState", term |-> t, vote |-> v, commit |-> c]
entry_at(x, t) == [type |-> "Entry", index |-> x, entry |-> [term |-> t]]
snapshot_at(x, discard) ==
  [type |-> "Snapshot", index |-> x, term |-> 1, state |-> <<x>>,
   discard_suffix |-> discard]

HardStates == {hard_state(0, None, 0), hard_state(2, s1, 1)}
Entries    == {entry_at(1, 1), entry_at(2, 1), entry_at(1, 2)}
Snapshots  == {snapshot_at(1, d) : d \in BOOLEAN}
=============================================================================
