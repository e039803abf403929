------------------------------ MODULE WalFile ------------------------------
(***************************************************************************)
(* The WAL as wal.cpp keeps it: records are encoded into buffer_, sync()   *)
(* appends the buffer to the file and flushes it, and recover() reads the  *)
(* records back, cuts off a damaged tail, and replays what is left.        *)
(*                                                                         *)
(* A record stands for its header and payload.  Damaged stands for bytes   *)
(* that recover() rejects: a header or payload cut short, a type it does   *)
(* not know, a checksum that differs.  The file is what a reader sees; its *)
(* first `flushed` records are those that fsync has covered.               *)
(*                                                                         *)
(* Two kinds of failure, in any order.  Exit: the process ends (killed, or *)
(* stopped because sync() failed), and whatever the kernel has of the file *)
(* stays.  PowerLoss: the machine stops, and of what fsync has not covered *)
(* any prefix stays.                                                       *)
(***************************************************************************)
EXTENDS Wal, SequencesExt

CONSTANTS
  HardState, Entry, Snapshot,   \* the records that may be saved
  Damaged,
  MaxRecords,                   \* bound: records saved
  MaxFailures                   \* bound: failures

ASSUME WalFileAssumption ==
  /\ Damaged \notin HardState \cup Entry \cup Snapshot
  /\ \A r \in HardState : r.type = "HardState"
  /\ \A r \in Entry : r.type = "Entry"
  /\ \A r \in Snapshot : r.type = "Snapshot"
  /\ MaxRecords \in Nat /\ MaxFailures \in Nat

VARIABLES
  running,     \* a process has the file open
  buffer,      \* buffer_
  failed,      \* failed_
  leftover,    \* what a failed sync() may or may not have written
  file, flushed,
  failures, saved,
  vouched      \* the records in the file when sync() last wrote and flushed

vars == <<running, buffer, failed, leftover, file, flushed, failures, saved,
          vouched>>

Record == HardState \cup Entry \cup Snapshot

(***************************************************************************)
(* recover(): the vector of entries is searched with lower_bound and       *)
(* upper_bound, which count the entries before the position they return.   *)
(***************************************************************************)
\* Faulty variant: an entry of the same index survives.
OffByOne(es, x) == Cardinality({k \in 1 .. Len(es) : es[k].index <= x})

lower_bound(es, x) == Cardinality({k \in 1 .. Len(es) : es[k].index < x})
upper_bound(es, x) == Cardinality({k \in 1 .. Len(es) : es[k].index <= x})

replay(v, r) ==
  CASE r.type = "HardState" ->
         [v EXCEPT !.term = r.term, !.vote = r.vote, !.commit = r.commit]
    [] r.type = "Entry" ->
         [v EXCEPT !.entries = SubSeq(@, 1, lower_bound(@, r.index)) \o <<r>>]
    [] r.type = "Snapshot" ->
         [v EXCEPT !.snapshot =
                     [index |-> r.index, term |-> r.term, state |-> r.state],
                   !.entries =
                     IF r.discard_suffix THEN <<>>
                     ELSE SubSeq(@, upper_bound(@, r.index) + 1, Len(@))]

damaged(f) == \E k \in 1 .. Len(f) : f[k] = Damaged

\* The records before the first damaged one.
readable(f) ==
  IF damaged(f)
    THEN SubSeq(f, 1, (CHOOSE k \in 1 .. Len(f) :
                         f[k] = Damaged /\ ~damaged(SubSeq(f, 1, k - 1))) - 1)
    ELSE f

\* All records of the file that were written whole.
whole(f) == SelectSeq(f, LAMBDA r : r # Damaged)

recovered(f) == FoldLeft(replay, EmptyWal, readable(f))

(***************************************************************************)
(* Writing.                                                                *)
(***************************************************************************)

\* append_record(); save_hard_state() leaves out an empty hard state.
Save(r) ==
  /\ running /\ saved < MaxRecords
  /\ saved' = saved + 1
  /\ buffer' = IF r.type = "HardState" /\ r.term = 0 /\ r.vote = None /\ r.commit = 0
                 THEN buffer ELSE Append(buffer, r)
  /\ UNCHANGED <<running, failed, leftover, file, flushed, failures, vouched>>

\* Faulty variant: a handle whose flush failed is used again.
NeverRefuses == FALSE

refuses == failed

\* sync() returns true: nothing to write, or fwrite, fflush and fsync succeed.
SyncDone ==
  /\ running /\ ~refuses
  /\ file' = file \o buffer /\ buffer' = <<>>
  /\ flushed' = IF buffer = <<>> THEN flushed ELSE Len(file')
  /\ vouched' = IF buffer = <<>> THEN vouched ELSE whole(file')
  /\ UNCHANGED <<running, failed, leftover, failures, saved>>

\* One of the three fails: from then on sync() returns false.  How much was
\* written shows when the file is read again.
SyncFails ==
  /\ running /\ ~refuses /\ buffer # <<>>
  /\ failed' = TRUE /\ leftover' = buffer /\ buffer' = <<>>
  /\ UNCHANGED <<running, file, flushed, failures, saved, vouched>>

\* What the file may hold after a failure that spares its first n records: more
\* of what was to be written, the last record cut short or not.
unwritten == IF failed THEN leftover ELSE buffer
remains(n) ==
  LET all == file \o unwritten IN
  {SubSeq(all, 1, k) : k \in n .. Len(all)}
    \cup {Append(SubSeq(all, 1, k), Damaged) : k \in n .. Len(all) - 1}

Ends ==
  /\ running' = FALSE /\ buffer' = <<>> /\ leftover' = <<>> /\ failed' = FALSE
  /\ failures < MaxFailures /\ failures' = failures + 1
  /\ UNCHANGED <<saved, vouched>>

\* The process is killed, or ends and closes the file.
Exit ==
  /\ running
  /\ file' \in remains(Len(file))
  /\ UNCHANGED flushed
  /\ Ends

PowerLoss ==
  /\ file' \in remains(flushed)
  /\ flushed' = Len(file')
  /\ Ends

(***************************************************************************)
(* WAL::open and recover().  If the tail cannot be repaired it throws, and *)
(* the node does not start.                                                *)
(***************************************************************************)

\* Faulty variant: new records are appended behind the damaged tail.
TailKept(f) == f

\* Faulty variant: the last record that can be read is cut off too.
CutsTooMuch(f) ==
  IF damaged(f) /\ readable(f) # <<>> THEN Front(readable(f)) ELSE readable(f)

repaired(f) == readable(f)

Recover ==
  /\ ~running /\ running' = TRUE
  /\ file' = repaired(file)
  /\ flushed' = IF damaged(file) THEN Len(readable(file)) ELSE flushed
  /\ UNCHANGED <<buffer, failed, leftover, failures, saved, vouched>>

Init ==
  /\ running = TRUE /\ buffer = <<>> /\ failed = FALSE /\ leftover = <<>>
  /\ file = <<>> /\ flushed = 0
  /\ failures = 0 /\ saved = 0 /\ vouched = <<>>

Next ==
  \/ \E r \in Record : Save(r)
  \/ SyncDone \/ SyncFails \/ Exit \/ PowerLoss \/ Recover

Spec == Init /\ [][Next]_vars

(***************************************************************************)
(* What the WAL promises.                                                  *)
(***************************************************************************)

\* The type of every variable; fsync has covered records that are there.
TypeOK ==
  /\ running \in BOOLEAN /\ failed \in BOOLEAN
  /\ buffer \in Seq(Record) /\ leftover \in Seq(Record)
  /\ file \in Seq(Record \cup {Damaged}) /\ flushed \in 0 .. Len(file)
  /\ failures \in Nat /\ saved \in Nat
  /\ vouched \in Seq(Record)

\* The entries that recover() searches are sorted by index, none twice,
\* whatever was saved: the binary searches find what they look for.
BinarySearchSound ==
  LET es == recovered(file).entries IN
  \A k, l \in 1 .. Len(es) : k < l => es[k].index < es[l].index

\* The records in the file when a sync() that had something to write returned
\* true are read back after exits, power losses and restarts in any order, in
\* their order and with nothing before them ("BLOCKS until data is physically on
\* disk").  A sync() with nothing to write flushes nothing: of records that a
\* process wrote, died before flushing, and the next one recovered, it says true
\* although a power loss may still take them.
VouchedSurvives == IsPrefix(vouched, readable(file))

\* The image of module Wal that a recovered state stands for.
image(v) ==
  [v EXCEPT !.entries =
     [x \in {@[k].index : k \in 1 .. Len(@)} |->
        @[lower_bound(@, x) + 1].entry]]

\* A power loss takes records that were recovered and have not been flushed since.
TakesBack == PowerLoss /\ flushed < Len(file)

\* A file that is written, torn, repaired and replayed is a log of which a
\* failure keeps what was synced and a prefix of the rest.  The one exception is
\* a power loss that follows an exit before the next flush.
durable == INSTANCE DurableLog WITH
  disk <- image(recovered(file)), pending <- unwritten, up <- running
ImplementsDurableLog ==
  /\ durable!Init
  /\ [][durable!Next \/ TakesBack]_<<image(recovered(file)), unwritten, running>>
=============================================================================
