-------------------------------- MODULE Wal --------------------------------
(***************************************************************************)
(* The write-ahead log of src/wal, seen through WAL::recover.              *)
(*                                                                         *)
(* A WAL file is a sequence of records that only grows.  What the rest of  *)
(* the system can observe of it is what WAL::recover computes: the last    *)
(* hard state, the last snapshot, and the entries that survive the         *)
(* truncations that later Entry and Snapshot records imply.  That result   *)
(* is an "image", and each save_* operator below is the effect on the      *)
(* image of one more record (or batch of records) made durable by sync().  *)
(*                                                                         *)
(* The recovered vector of entries is sorted by index with no index twice, *)
(* so an image keeps it as a function from indices to entries.             *)
(***************************************************************************)
EXTENDS Integers, Sequences, FiniteSets, Functions

CONSTANT None        \* node id 0: "no node"

NoSnapshot == [index |-> 0, term |-> 0, state |-> <<>>]

\* What recover() returns for a WAL with no record.
EmptyWal ==
  [term |-> 0, vote |-> None, commit |-> 0,
   snapshot |-> NoSnapshot, entries |-> <<>>]

\* A HardState record replaces the previous one.  An empty hard state is
\* never written.
save_hard_state(d, t, v, c) ==
  IF t = 0 /\ v = None /\ c = 0
    THEN d
    ELSE [d EXCEPT !.term = t, !.vote = v, !.commit = c]

\* Faulty variant: the entries after the new ones survive.
KeepsOldSuffix(d, first, es) ==
  [d EXCEPT !.entries =
     [x \in DOMAIN @ \cup first .. first + Len(es) - 1 |->
        IF x \in first .. first + Len(es) - 1 THEN es[x - first + 1] ELSE @[x]]]

\* The Entry records of es, at indices first, first + 1, ...  Each one erases
\* every recovered entry at or above its index and is then appended.
save_entries(d, first, es) ==
  IF es = <<>>
    THEN d
    ELSE [d EXCEPT !.entries =
            [x \in {y \in DOMAIN @ : y < first} \cup first .. first + Len(es) - 1 |->
               IF x < first THEN @[x] ELSE es[x - first + 1]]]

\* A Snapshot record erases the entries it covers, or all of them when it was
\* received by InstallSnapshot (discard_suffix).
save_snapshot(d, x, t, s, discard_suffix) ==
  [d EXCEPT !.snapshot = [index |-> x, term |-> t, state |-> s],
            !.entries  = IF discard_suffix
                           THEN <<>>
                           ELSE Restrict(@, {y \in DOMAIN @ : y > x})]

(***************************************************************************)
(* Raft::restore on the recovered image.                                   *)
(***************************************************************************)

\* Faulty variant: the hard state alone decides.
CommitOfHardState(d) == d.commit

restored_commit(d) ==
  IF d.commit > d.snapshot.index THEN d.commit ELSE d.snapshot.index

retained(d) == {x \in DOMAIN d.entries : x > d.snapshot.index}

\* restore() throws on an index gap and on a committed entry that is missing.
restorable(d) ==
  LET last == d.snapshot.index + Cardinality(retained(d)) IN
  /\ retained(d) = d.snapshot.index + 1 .. last
  /\ restored_commit(d) <= last

restored_log(d) ==
  [k \in 1 .. Cardinality(retained(d)) |-> d.entries[d.snapshot.index + k]]
=============================================================================
