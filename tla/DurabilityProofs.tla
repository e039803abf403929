-------------------------- MODULE DurabilityProofs --------------------------
(***************************************************************************)
(* What a node holds in memory is what its WAL would give it back, and at  *)
(* whatever point it dies Raft::restore accepts what it leaves.            *)
(*                                                                         *)
(* The argument.  The WAL of a running node is an image of its memory: the *)
(* entries after the snapshot are exactly those of log_.  Each save_* call *)
(* turns an image of the old memory into one of the new.  The images that  *)
(* a crash may leave are images of some log too, one that still reaches    *)
(* the commit index, because a batch starts behind it.                     *)
(***************************************************************************)
EXTENDS ElectionProofs

\* The default prover; leaves with arithmetic or records cite SMT.
USE Zenon

\* The WAL image d gives back the log lg behind the snapshot sn, and the commit
\* index c.
Image(d, sn, lg, c) ==
  /\ d.snapshot = sn
  /\ DOMAIN d.entries = sn.index + 1 .. sn.index + Len(lg)
  /\ \A x \in sn.index + 1 .. sn.index + Len(lg) : d.entries[x] = lg[x - sn.index]
  /\ restored_commit(d) = c

\* The entries after the snapshot have no gap and reach the commit index.
Solid(d) ==
  \E n \in Nat :
    /\ DOMAIN d.entries = d.snapshot.index + 1 .. d.snapshot.index + n
    /\ restored_commit(d) <= d.snapshot.index + n

SnapshotRecord == [index : Nat, term : Nat, state : Seq(Entry)]
held_snapshot(i) ==
  [index |-> log_offset[i], term |-> log_offset_term[i], state |-> snapshot[i]]

\* The inductive invariant.
Mirrors(i) == Image(disk[i], held_snapshot(i), log[i], commit_index[i])
MirrorInv == \A i \in Server : (up[i] => Mirrors(i)) /\ Solid(disk[i])

(***************************************************************************)
(* What the records of the WAL do to an image.                             *)
(***************************************************************************)

\* The fields of an image.
LEMMA ImageFields ==
  ASSUME NEW d, WalImageOK(d)
  PROVE  /\ d = [term |-> d.term, vote |-> d.vote, commit |-> d.commit,
                 snapshot |-> d.snapshot, entries |-> d.entries]
         /\ d.commit \in Nat /\ d.snapshot \in SnapshotRecord
         /\ d.snapshot.index \in Nat
<1>1. d \in [term : Nat, vote : Server \cup {None}, commit : Nat,
             snapshot : SnapshotRecord, entries : {d.entries}]
  BY DEF WalImageOK, SnapshotRecord
<1>2. d.commit \in Nat /\ d.snapshot \in SnapshotRecord
  BY <1>1
<1>3. d.snapshot.index \in Nat
  BY <1>2 DEF SnapshotRecord
<1>4. d = [term |-> d.term, vote |-> d.vote, commit |-> d.commit,
           snapshot |-> d.snapshot, entries |-> d.entries]
  BY <1>1
<1> QED BY <1>2, <1>3, <1>4

\* The elements of a log that was cut after the n-th entry and extended by es.
LEMMA SpliceElements ==
  ASSUME NEW lg \in Seq(Entry), NEW n \in 0 .. Len(lg), NEW es \in Seq(Entry)
  PROVE  /\ Len(SubSeq(lg, 1, n) \o es) = n + Len(es)
         /\ \A k \in 1 .. n : (SubSeq(lg, 1, n) \o es)[k] = lg[k]
         /\ \A k \in 1 .. Len(es) : (SubSeq(lg, 1, n) \o es)[n + k] = es[k]
<1> DEFINE s == SubSeq(lg, 1, n)
<1>1. n \in Nat /\ n <= Len(lg) /\ Len(es) \in Nat
  BY SMT
<1>2. s \in Seq(Entry) /\ Len(s) = n /\ \A k \in 1 .. n : s[k] = lg[k]
  BY SMT, <1>1
<1> HIDE DEF s
<1>3. /\ Len(s \o es) = n + Len(es)
      /\ \A k \in 1 .. n : (s \o es)[k] = lg[k]
      /\ \A k \in 1 .. Len(es) : (s \o es)[n + k] = es[k]
  <2>1. Len(s \o es) = n + Len(es)
    BY SMT, <1>1, <1>2
  <2>2. ASSUME NEW k \in 1 .. n PROVE (s \o es)[k] = lg[k]
    BY SMT, <1>1, <1>2
  <2>3. ASSUME NEW k \in 1 .. Len(es) PROVE (s \o es)[n + k] = es[k]
    BY SMT, <1>1, <1>2
  <2> QED BY <2>1, <2>2, <2>3
<1> QED BY <1>3 DEF s

\* The elements of a log without its first n entries.
LEMMA SuffixElements ==
  ASSUME NEW lg \in Seq(Entry), NEW n \in 0 .. Len(lg)
  PROVE  /\ Len(SubSeq(lg, n + 1, Len(lg))) = Len(lg) - n
         /\ \A k \in 1 .. Len(lg) - n : SubSeq(lg, n + 1, Len(lg))[k] = lg[n + k]
<1>1. n \in Nat /\ n <= Len(lg) /\ Len(lg) \in Nat
  BY SMT
<1>2. Len(SubSeq(lg, n + 1, Len(lg))) = Len(lg) - n
  BY SMT, <1>1
<1>3. ASSUME NEW k \in 1 .. Len(lg) - n
      PROVE  SubSeq(lg, n + 1, Len(lg))[k] = lg[n + k]
  BY SMT, <1>1
<1> QED BY <1>2, <1>3

\* A HardState record changes the commit index only.
LEMMA HardStateImage ==
  ASSUME NEW d, WalImageOK(d), NEW sn \in SnapshotRecord, NEW lg, NEW c0,
         Image(d, sn, lg, c0), NEW t \in Nat, NEW v, NEW c \in Nat, c >= sn.index,
         t # 0 \/ v # None \/ c # 0
  PROVE  Image(save_hard_state(d, t, v, c), sn, lg, c)
<1> DEFINE e == save_hard_state(d, t, v, c)
<1>1. sn.index \in Nat
  BY DEF SnapshotRecord
<1>2. e = [d EXCEPT !.term = t, !.vote = v, !.commit = c]
  BY DEF save_hard_state
<1> HIDE DEF e
<1>3. e.snapshot = d.snapshot /\ e.entries = d.entries /\ e.commit = c
  BY <1>2 DEF WalImageOK
<1>4. restored_commit(e) = c
  BY SMT, <1>1, <1>3 DEF restored_commit, Image
<1> QED BY <1>3, <1>4 DEF Image, e

\* The indices of a log of l entries after index a, cut after the n-th entry and
\* extended by e entries.
LEMMA SplicedIndices ==
  ASSUME NEW a \in Nat, NEW l \in Nat, NEW n \in Nat, n <= l, NEW e \in Nat
  PROVE  {y \in a + 1 .. a + l : y < a + n + 1} \cup
           a + n + 1 .. a + n + 1 + e - 1 = a + 1 .. a + n + e
  BY SMTT(30)

\* Where index x is in the log before the cut, or in the extension.
LEMMA SplicedPosition ==
  ASSUME NEW a \in Nat, NEW l \in Nat, NEW n \in Nat, n <= l, NEW e \in Nat,
         NEW x \in a + 1 .. a + n + e
  PROVE  /\ x < a + n + 1 => x - a \in 1 .. n /\ x \in a + 1 .. a + l
         /\ ~(x < a + n + 1) => /\ x - (a + n + 1) + 1 \in 1 .. e
                                /\ n + (x - (a + n + 1) + 1) = x - a
  BY SMTT(30)

\* A batch of Entry records cuts the log at its first index and extends it.
LEMMA EntriesImage ==
  ASSUME NEW d, WalImageOK(d), NEW sn \in SnapshotRecord, NEW lg \in Seq(Entry), NEW c,
         Image(d, sn, lg, c), NEW n \in 0 .. Len(lg), NEW es \in Seq(Entry), es # <<>>
  PROVE  Image(save_entries(d, sn.index + n + 1, es), sn, SubSeq(lg, 1, n) \o es, c)
<1> DEFINE first == sn.index + n + 1
           low == {y \in DOMAIN d.entries : y < first}
           new == first .. first + Len(es) - 1
           f == [y \in low \cup new |->
                   IF y < first THEN d.entries[y] ELSE es[y - first + 1]]
           e == save_entries(d, first, es)
           lg2 == SubSeq(lg, 1, n) \o es
<1>1. /\ sn.index \in Nat /\ Len(lg) \in Nat /\ Len(es) \in Nat /\ n \in Nat
      /\ n <= Len(lg) /\ first \in Nat
  <2>1. sn.index \in Nat
    BY DEF SnapshotRecord
  <2> QED BY SMT, <2>1
<1>2. e = [d EXCEPT !.entries = f]
  BY DEF save_entries
<1>3. DOMAIN f = low \cup new
  OBVIOUS
<1>4. /\ DOMAIN d.entries = sn.index + 1 .. sn.index + Len(lg)
      /\ \A x \in sn.index + 1 .. sn.index + Len(lg) : d.entries[x] = lg[x - sn.index]
  BY DEF Image
<1>5. /\ Len(lg2) = n + Len(es)
      /\ \A k \in 1 .. n : lg2[k] = lg[k]
      /\ \A k \in 1 .. Len(es) : lg2[n + k] = es[k]
  BY SpliceElements
<1> HIDE DEF lg2
<1>6. low \cup new = sn.index + 1 .. sn.index + n + Len(es)
  <2>1. low = {y \in sn.index + 1 .. sn.index + Len(lg) : y < first}
    BY <1>4
  <2> HIDE DEF low
  <2> QED BY SMTT(30), <1>1, <2>1, SplicedIndices
<1>7. ASSUME NEW x \in sn.index + 1 .. sn.index + n + Len(es)
      PROVE  f[x] = lg2[x - sn.index]
  <2>1. f[x] = IF x < first THEN d.entries[x] ELSE es[x - first + 1]
    BY <1>6
  <2> HIDE DEF f, low, new
  <2>2. CASE x < first
    <3>1. x - sn.index \in 1 .. n /\ x \in sn.index + 1 .. sn.index + Len(lg)
      BY <1>1, <2>2, SplicedPosition
    <3> QED BY <1>4, <1>5, <2>1, <2>2, <3>1
  <2>3. CASE ~(x < first)
    <3> DEFINE k == x - first + 1
    <3>1. k \in 1 .. Len(es) /\ n + k = x - sn.index
      BY SMTT(30), <1>1, <2>3, SplicedPosition
    <3> HIDE DEF k
    <3>2. f[x] = es[k]
      BY <2>1, <2>3 DEF k
    <3> QED BY <1>5, <3>1, <3>2
  <2> QED BY <2>2, <2>3
<1> HIDE DEF f, low, new, e
<1>8. e.snapshot = d.snapshot /\ e.entries = f /\ e.commit = d.commit
  BY <1>2 DEF WalImageOK
<1>9. restored_commit(e) = c
  BY <1>8 DEF restored_commit, Image
<1>10. sn.index + Len(lg2) = sn.index + n + Len(es)
  BY SMT, <1>1, <1>5
<1>11. Image(e, sn, lg2, c)
  BY <1>3, <1>6, <1>7, <1>8, <1>9, <1>10 DEF Image
<1> QED BY <1>11 DEF e, lg2

\* The Snapshot record of a compaction covers the entries up to its index.
LEMMA CompactedImage ==
  ASSUME NEW d, WalImageOK(d), NEW sn \in SnapshotRecord, NEW lg \in Seq(Entry),
         NEW c \in Nat, Image(d, sn, lg, c),
         NEW x \in Nat, x > sn.index, x <= sn.index + Len(lg), x <= c, NEW t, NEW st
  PROVE  Image(save_snapshot(d, x, t, st, FALSE), [index |-> x, term |-> t, state |-> st],
               SubSeq(lg, x - sn.index + 1, Len(lg)), c)
<1> DEFINE kept == {y \in DOMAIN d.entries : y > x}
           f == Restrict(d.entries, kept)
           rec == [index |-> x, term |-> t, state |-> st]
           e == save_snapshot(d, x, t, st, FALSE)
           lg2 == SubSeq(lg, x - sn.index + 1, Len(lg))
<1>1. sn.index \in Nat /\ Len(lg) \in Nat
  <2>1. sn.index \in Nat
    BY DEF SnapshotRecord
  <2> QED BY SMT, <2>1
<1>2. /\ DOMAIN d.entries = sn.index + 1 .. sn.index + Len(lg)
      /\ \A y \in sn.index + 1 .. sn.index + Len(lg) : d.entries[y] = lg[y - sn.index]
      /\ restored_commit(d) = c /\ d.snapshot = sn
  BY DEF Image
<1>3. e = [d EXCEPT !.snapshot = rec, !.entries = f]
  BY DEF save_snapshot
<1>4. DOMAIN f = kept /\ \A y \in kept : f[y] = d.entries[y]
  BY DEF Restrict
<1>5. kept = x + 1 .. sn.index + Len(lg)
  BY SMT, <1>1, <1>2
<1>6. /\ Len(lg2) = sn.index + Len(lg) - x
      /\ \A k \in 1 .. sn.index + Len(lg) - x : lg2[k] = lg[x - sn.index + k]
  <2> DEFINE n == x - sn.index
  <2>1. n \in 0 .. Len(lg) /\ Len(lg) - n = sn.index + Len(lg) - x
    BY SMT, <1>1
  <2> HIDE DEF n
  <2>2. /\ Len(SubSeq(lg, n + 1, Len(lg))) = Len(lg) - n
        /\ \A k \in 1 .. Len(lg) - n : SubSeq(lg, n + 1, Len(lg))[k] = lg[n + k]
    BY <2>1, SuffixElements
  <2> QED BY <2>1, <2>2 DEF n
<1> HIDE DEF f, kept, rec, e, lg2
<1>7. e.snapshot = rec /\ e.entries = f /\ e.commit = d.commit
  BY <1>3 DEF WalImageOK
<1>8. rec.index = x
  BY DEF rec
<1>9. d.commit \in Nat
  BY ImageFields
<1>10. restored_commit(e) = c
  BY SMT, <1>1, <1>2, <1>7, <1>8, <1>9 DEF restored_commit
<1>11. x + Len(lg2) = sn.index + Len(lg)
  BY SMT, <1>1, <1>6
<1>12. ASSUME NEW y \in x + 1 .. sn.index + Len(lg)
       PROVE  f[y] = lg2[y - x]
  <2>1. /\ y \in sn.index + 1 .. sn.index + Len(lg)
        /\ y - x \in 1 .. sn.index + Len(lg) - x
        /\ x - sn.index + (y - x) = y - sn.index
    BY SMT, <1>1
  <2>2. f[y] = lg[y - sn.index]
    BY <1>2, <1>4, <1>5, <2>1
  <2>3. lg2[y - x] = lg[x - sn.index + (y - x)]
    BY <1>6, <2>1
  <2> QED BY <2>1, <2>2, <2>3
<1>13. Image(e, rec, lg2, c)
  BY <1>4, <1>5, <1>7, <1>8, <1>10, <1>11, <1>12 DEF Image
<1> QED BY <1>13 DEF e, rec, lg2

\* The Snapshot record of an installed snapshot leaves no entry.
LEMMA InstalledImage ==
  ASSUME NEW d, WalImageOK(d), NEW sn, NEW lg, NEW c \in Nat, Image(d, sn, lg, c),
         NEW x \in Nat, c <= x, NEW t, NEW st
  PROVE  Image(save_snapshot(d, x, t, st, TRUE), [index |-> x, term |-> t, state |-> st],
               <<>>, x)
<1> DEFINE rec == [index |-> x, term |-> t, state |-> st]
           e == save_snapshot(d, x, t, st, TRUE)
<1>1. e = [d EXCEPT !.snapshot = rec, !.entries = <<>>]
  BY DEF save_snapshot
<1> HIDE DEF rec, e
<1>2. e.snapshot = rec /\ e.entries = <<>> /\ e.commit = d.commit
  BY <1>1 DEF WalImageOK
<1>3. rec.index = x
  BY DEF rec
<1>4. d.commit \in Nat /\ d.snapshot.index \in Nat /\ restored_commit(d) = c
  BY ImageFields DEF Image
<1>5. restored_commit(e) = x
  BY SMT, <1>2, <1>3, <1>4 DEF restored_commit
<1>6. DOMAIN <<>> = x + 1 .. x + Len(<<>>) /\ x + 1 .. x + Len(<<>>) = {}
  BY SMT
<1>7. Image(e, rec, <<>>, x)
  BY <1>2, <1>3, <1>5, <1>6 DEF Image
<1> QED BY <1>7 DEF e, rec

\* An image of a log that reaches the commit index is solid.
LEMMA ImageSolid ==
  ASSUME NEW d, NEW sn, NEW lg \in Seq(Entry), NEW c, Image(d, sn, lg, c),
         c <= sn.index + Len(lg)
  PROVE  Solid(d)
<1>1. Len(lg) \in Nat
  BY SMT
<1> QED BY <1>1 DEF Image, Solid

\* What restore() makes of a solid WAL: it accepts it, and the WAL is an image
\* of the log it builds.
LEMMA SolidRestores ==
  ASSUME NEW d, WalImageOK(d), Solid(d)
  PROVE  /\ restorable(d)
         /\ Image(d, d.snapshot, restored_log(d), restored_commit(d))
<1>1. PICK n \in Nat : /\ DOMAIN d.entries = d.snapshot.index + 1 .. d.snapshot.index + n
                       /\ restored_commit(d) <= d.snapshot.index + n
  BY DEF Solid
<1>2. d.snapshot.index \in Nat
  BY ImageFields
<1>3. retained(d) = d.snapshot.index + 1 .. d.snapshot.index + n
  BY SMT, <1>1, <1>2 DEF retained
<1>4. Cardinality(retained(d)) = n
  <2> DEFINE a == d.snapshot.index + 1
             b == d.snapshot.index + n
  <2>1. a \in Int /\ b \in Int /\ b - a + 1 = n /\ (a > b => n = 0)
    BY SMT, <1>2
  <2> HIDE DEF a, b
  <2>2. Cardinality(a .. b) = IF a > b THEN 0 ELSE b - a + 1
    BY <2>1, FS_Interval
  <2>3. retained(d) = a .. b
    BY <1>3 DEF a, b
  <2> QED BY <2>1, <2>2, <2>3
<1>5. restorable(d)
  BY <1>1, <1>3, <1>4 DEF restorable
<1>6. restored_log(d) = [k \in 1 .. n |-> d.entries[d.snapshot.index + k]]
  BY <1>4 DEF restored_log
<1>7. Len(restored_log(d)) = n
  BY SMT, <1>6
<1>8. ASSUME NEW x \in d.snapshot.index + 1 .. d.snapshot.index + n
      PROVE  d.entries[x] = restored_log(d)[x - d.snapshot.index]
  <2>1. x - d.snapshot.index \in 1 .. n /\ d.snapshot.index + (x - d.snapshot.index) = x
    BY SMT, <1>2
  <2> QED BY <1>6, <2>1
<1> QED BY <1>1, <1>5, <1>7, <1>8 DEF Image

\* What a WAL that is an image of a log gives back is that log.
LEMMA ImageRestored ==
  ASSUME NEW d, WalImageOK(d), NEW sn, NEW lg \in Seq(Entry), NEW c, Image(d, sn, lg, c),
         Solid(d)
  PROVE  restored_log(d) = lg
<1>1. /\ d.snapshot = sn /\ sn.index \in Nat /\ Len(lg) \in Nat
      /\ DOMAIN d.entries = sn.index + 1 .. sn.index + Len(lg)
      /\ \A x \in sn.index + 1 .. sn.index + Len(lg) : d.entries[x] = lg[x - sn.index]
  <2>1. d.snapshot = sn /\ d.snapshot.index \in Nat
    BY ImageFields DEF Image
  <2>2. Len(lg) \in Nat
    BY SMT
  <2> QED BY <2>1, <2>2 DEF Image
<1>2. /\ DOMAIN d.entries = sn.index + 1 .. sn.index + Len(restored_log(d))
      /\ Image(d, d.snapshot, restored_log(d), restored_commit(d))
  BY <1>1, SolidRestores DEF Image
<1>3. restorable(d)
  BY SolidRestores
<1>4. restored_log(d) \in Seq(Entry)
  BY <1>3, RestoreOK
<1>5. Len(restored_log(d)) = Len(lg)
  BY SMT, <1>1, <1>2, <1>4
<1>6. ASSUME NEW k \in 1 .. Len(lg) PROVE restored_log(d)[k] = lg[k]
  <2> DEFINE x == sn.index + k
  <2>1. x \in sn.index + 1 .. sn.index + Len(lg) /\ x - sn.index = k
    BY SMT, <1>1
  <2> HIDE DEF x
  <2>2. d.entries[x] = restored_log(d)[x - sn.index]
    BY <1>1, <1>2, <1>5, <2>1 DEF Image
  <2>3. d.entries[x] = lg[x - sn.index]
    BY <1>1, <2>1
  <2> QED BY <2>1, <2>2, <2>3
<1> QED BY SMT, <1>4, <1>5, <1>6

(***************************************************************************)
(* What a step of node i may do.                                           *)
(***************************************************************************)
MirrorKept(j) ==
  /\ disk'[j] = disk[j] /\ up'[j] = up[j] /\ commit_index'[j] = commit_index[j]
  /\ log'[j] = log[j] /\ log_offset'[j] = log_offset[j]
  /\ log_offset_term'[j] = log_offset_term[j] /\ snapshot'[j] = snapshot[j]
MirrorStep(i) ==
  /\ \A j \in Server \ {i} : MirrorKept(j)
  /\ up'[i] => Mirrors(i)'
  /\ ~up'[i] => Solid(disk'[i])

\* A step of this kind keeps the invariant.
LEMMA MirrorStepKeepsInv ==
  ASSUME TypeInv', MirrorInv, NEW i \in Server, MirrorStep(i)
  PROVE  MirrorInv'
<1>1. ASSUME NEW j \in Server, up'[j] PROVE Mirrors(j)'
  <2>1. CASE j = i
    BY <1>1, <2>1 DEF MirrorStep
  <2>2. CASE j # i
    <3>1. MirrorKept(j)
      BY <2>2 DEF MirrorStep
    <3>2. Mirrors(j)
      BY <1>1, <3>1 DEF MirrorInv, MirrorKept
    <3> QED BY <3>1, <3>2 DEF MirrorKept, Mirrors, held_snapshot
  <2> QED BY <2>1, <2>2
<1>2. ASSUME NEW j \in Server PROVE Solid(disk'[j])
  <2>1. CASE up'[j]
    <3>1. Image(disk'[j], held_snapshot(j)', log'[j], commit_index'[j])
      BY <1>1, <2>1 DEF Mirrors
    <3>2. /\ log'[j] \in Seq(Entry) /\ commit_index'[j] <= log_offset'[j] + Len(log'[j])
      BY DEF TypeInv, TypeOK, IndicesInOrder, last_log_index
    <3>3. held_snapshot(j)'.index = log_offset'[j]
      BY DEF held_snapshot
    <3> QED BY <3>1, <3>2, <3>3, ImageSolid
  <2>2. CASE ~up'[j] /\ j = i
    BY <2>2 DEF MirrorStep
  <2>3. CASE ~up'[j] /\ j # i
    BY <2>3 DEF MirrorStep, MirrorKept, MirrorInv
  <2> QED BY <2>1, <2>2, <2>3
<1> QED BY <1>1, <1>2 DEF MirrorInv

\* Neither the WAL of a node nor what it mirrors changes.
LEMMA MirrorUntouched ==
  ASSUME MirrorInv, UNCHANGED <<disk, up, commit_index, log, log_offset,
                                log_offset_term, snapshot>>
  PROVE  MirrorInv'
<1> SUFFICES ASSUME NEW j \in Server
             PROVE  (up'[j] => Mirrors(j)') /\ Solid(disk'[j])
  BY DEF MirrorInv
<1>1. Mirrors(j)' <=> Mirrors(j)
  BY DEF Mirrors, held_snapshot
<1>2. disk'[j] = disk[j] /\ up'[j] = up[j]
  OBVIOUS
<1> QED BY <1>1, <1>2 DEF MirrorInv

\* What the invariant says of a running node.
LEMMA MirrorFacts ==
  ASSUME TypeInv, MirrorInv, NEW i \in Server, up[i]
  PROVE  /\ Image(disk[i], held_snapshot(i), log[i], commit_index[i])
         /\ WalImageOK(disk[i]) /\ held_snapshot(i) \in SnapshotRecord
         /\ held_snapshot(i).index = log_offset[i]
         /\ term[i] \in Nat /\ commit_index[i] \in Nat /\ log_offset[i] \in Nat
         /\ log[i] \in Seq(Entry) /\ Len(log[i]) \in Nat /\ last_applied[i] \in Nat
         /\ log_offset[i] <= last_applied[i] /\ last_applied[i] <= commit_index[i]
         /\ commit_index[i] <= log_offset[i] + Len(log[i])
         /\ log_offset[i] <= commit_index[i]
<1>1. PersistOK /\ ApplyOK /\ WalsOK /\ IndicesInOrder
  BY InvGroups
<1>2. /\ term[i] \in Nat /\ commit_index[i] \in Nat /\ log_offset[i] \in Nat
      /\ log_offset_term[i] \in Nat /\ snapshot[i] \in Seq(Entry)
      /\ log[i] \in Seq(Entry) /\ last_applied[i] \in Nat
  BY <1>1 DEF PersistOK, ApplyOK
<1>3. Len(log[i]) \in Nat
  BY SMT, <1>2
<1>4. held_snapshot(i) \in SnapshotRecord /\ held_snapshot(i).index = log_offset[i]
  BY <1>2 DEF held_snapshot, SnapshotRecord
<1>5. /\ log_offset[i] <= last_applied[i] /\ last_applied[i] <= commit_index[i]
      /\ commit_index[i] <= log_offset[i] + Len(log[i])
  BY <1>1 DEF IndicesInOrder, last_log_index
<1>6. log_offset[i] <= commit_index[i]
  BY SMT, <1>2, <1>5
<1> QED BY <1>1, <1>2, <1>3, <1>4, <1>5, <1>6 DEF MirrorInv, Mirrors, WalsOK

\* The node stays up, and only it writes: image d is one of its new memory.
LEMMA MirrorPersisted ==
  ASSUME TypeInv, NEW i \in Server, NEW d, Persist(i, d), up[i], UNCHANGED up,
         NEW lg, NEW c, NEW x, NEW t, NEW st,
         log' = [log EXCEPT ![i] = lg], commit_index' = [commit_index EXCEPT ![i] = c],
         log_offset' = [log_offset EXCEPT ![i] = x],
         log_offset_term' = [log_offset_term EXCEPT ![i] = t],
         snapshot' = [snapshot EXCEPT ![i] = st],
         Image(d, [index |-> x, term |-> t, state |-> st], lg, c)
  PROVE  MirrorStep(i)
<1>1. PersistOK /\ WalsOK
  BY InvGroups
<1>2. disk = [n \in Server |-> disk[n]]
  BY <1>1 DEF WalsOK
<1>3. disk'[i] = d /\ \A n \in Server \ {i} : disk'[n] = disk[n]
  BY <1>2 DEF Persist
<1>4. \A n \in Server \ {i} : MirrorKept(n)
  BY <1>1, <1>3 DEF PersistOK, MirrorKept
<1>5. /\ log'[i] = lg /\ commit_index'[i] = c /\ log_offset'[i] = x
      /\ log_offset_term'[i] = t /\ snapshot'[i] = st
  BY <1>1 DEF PersistOK
<1>6. Mirrors(i)' <=> Image(d, [index |-> x, term |-> t, state |-> st], lg, c)
  BY <1>3, <1>5 DEF Mirrors, held_snapshot
<1> QED BY <1>4, <1>6 DEF MirrorStep

\* The node stays up and keeps what it mirrors: a new term or vote is written.
LEMMA MirrorRewritten ==
  ASSUME TypeInv, NEW i \in Server, NEW d, Persist(i, d), up[i],
         UNCHANGED <<up, commit_index, log, log_offset, log_offset_term, snapshot>>,
         Image(d, held_snapshot(i), log[i], commit_index[i])
  PROVE  MirrorStep(i)
<1>1. PersistOK
  BY InvGroups
<1>2. /\ log' = [log EXCEPT ![i] = log[i]]
      /\ commit_index' = [commit_index EXCEPT ![i] = commit_index[i]]
      /\ log_offset' = [log_offset EXCEPT ![i] = log_offset[i]]
      /\ log_offset_term' = [log_offset_term EXCEPT ![i] = log_offset_term[i]]
      /\ snapshot' = [snapshot EXCEPT ![i] = snapshot[i]]
  BY <1>1 DEF PersistOK
<1>3. Image(d, [index |-> log_offset[i], term |-> log_offset_term[i],
                state |-> snapshot[i]], log[i], commit_index[i])
  BY DEF held_snapshot
<1> QED BY <1>2, <1>3, MirrorPersisted

\* A term or vote written with the commit index of the node.
LEMMA HardStateMirror ==
  ASSUME TypeInv, MirrorInv, NEW i \in Server, up[i], NEW d, WalImageOK(d),
         Image(d, held_snapshot(i), log[i], commit_index[i]),
         NEW t \in Nat, t # 0, NEW v
  PROVE  Image(save_hard_state(d, t, v, commit_index[i]), held_snapshot(i), log[i],
               commit_index[i])
<1>1. /\ held_snapshot(i) \in SnapshotRecord /\ commit_index[i] \in Nat
      /\ log_offset[i] \in Nat
      /\ held_snapshot(i).index = log_offset[i] /\ log_offset[i] <= commit_index[i]
  BY MirrorFacts
<1>2. commit_index[i] >= held_snapshot(i).index
  BY SMT, <1>1
<1> QED BY <1>1, <1>2, HardStateImage

\* The record of a newer term.
LEMMA NewerTermMirror ==
  ASSUME TypeInv, MirrorInv, NEW i \in Server, up[i], NEW m \in msgs
  PROVE  /\ Image(newer_term_image(i, m), held_snapshot(i), log[i], commit_index[i])
         /\ WalImageOK(newer_term_image(i, m))
<1>1. m.term \in Nat /\ m \in Message /\ PersistOK /\ WalsOK
  BY InvGroups, BallotTypes
<1>2. WalImageOK(newer_term_image(i, m))
  BY <1>1, NewerTermOK
<1>3. /\ Image(disk[i], held_snapshot(i), log[i], commit_index[i])
      /\ WalImageOK(disk[i]) /\ term[i] \in Nat
  BY MirrorFacts
<1>4. CASE m.term > term[i]
  <2>1. m.term # 0
    BY SMT, <1>1, <1>3, <1>4
  <2>2. newer_term_image(i, m) = save_hard_state(disk[i], m.term, None, commit_index[i])
    BY <1>4 DEF newer_term_image, step_down_image
  <2> QED BY <1>1, <1>2, <1>3, <2>1, <2>2, HardStateMirror
<1>5. CASE ~(m.term > term[i])
  <2>1. newer_term_image(i, m) = disk[i]
    BY <1>5 DEF newer_term_image
  <2> QED BY <1>2, <1>3, <2>1
<1> QED BY <1>4, <1>5

(***************************************************************************)
(* Steps that write a term or a vote, or nothing.                          *)
(***************************************************************************)

\* A response of a newer term.
LEMMA StepDownMirror ==
  ASSUME TypeInv, MirrorInv, NEW i \in Server, NEW m \in msgs, StepDown(i, m)
  PROVE  MirrorStep(i)
<1>1. /\ up[i] /\ m.term > term[i] /\ Persist(i, step_down_image(i, m.term))
      /\ UNCHANGED <<up, commit_index, log, log_offset, log_offset_term, snapshot>>
  BY DEF StepDown, ready, envVars
<1>2. step_down_image(i, m.term) = newer_term_image(i, m)
  BY <1>1 DEF newer_term_image
<1> QED BY <1>1, <1>2, NewerTermMirror, MirrorRewritten

\* RequestVote: the new term, then the vote.
LEMMA RequestVoteMirror ==
  ASSUME TypeInv, MirrorInv, NEW i \in Server, NEW m \in msgs, handle_request_vote(i, m)
  PROVE  MirrorStep(i)
<1>1. /\ up[i] /\ Persist(i, vote_image(i, m))
      /\ UNCHANGED <<up, commit_index, log, log_offset, log_offset_term, snapshot>>
      /\ m.type = "RequestVote"
  BY DEF handle_request_vote, Delivered, ready, envVars
<1>2. /\ Image(newer_term_image(i, m), held_snapshot(i), log[i], commit_index[i])
      /\ WalImageOK(newer_term_image(i, m))
  BY <1>1, NewerTermMirror
<1>3. Image(vote_image(i, m), held_snapshot(i), log[i], commit_index[i])
  <2>1. CASE ~grants_vote(i, m)
    BY <1>2, <2>1 DEF vote_image
  <2>2. CASE grants_vote(i, m)
    <3>1. /\ vote_term(i, m) \in Nat /\ m.from # None
          /\ commit_index[i] \in Nat /\ held_snapshot(i) \in SnapshotRecord
          /\ commit_index[i] >= held_snapshot(i).index
      <4>1. /\ m.term \in Nat /\ m.from \in Server /\ term[i] \in Nat
            /\ commit_index[i] \in Nat /\ held_snapshot(i) \in SnapshotRecord
            /\ held_snapshot(i).index = log_offset[i] /\ log_offset[i] \in Nat
            /\ log_offset[i] <= commit_index[i]
        BY <1>1, BallotTypes, MirrorFacts
      <4>2. vote_term(i, m) \in Nat
        BY <4>1 DEF vote_term
      <4>3. commit_index[i] >= held_snapshot(i).index
        BY SMT, <4>1
      <4> QED BY <4>1, <4>2, <4>3, ServerAssumption
    <3>2. vote_image(i, m) = save_hard_state(newer_term_image(i, m), vote_term(i, m),
                                             m.from, commit_index[i])
      BY <2>2 DEF vote_image
    <3> QED BY <1>2, <3>1, <3>2, HardStateImage
  <2> QED BY <2>1, <2>2
<1> QED BY <1>1, <1>3, MirrorRewritten

\* PreVoteResponse: a majority makes a candidate, which writes its vote.
LEMMA PreVoteResponseMirror ==
  ASSUME TypeInv, TypeInv', MirrorInv, NEW i \in Server, NEW m \in msgs,
         handle_pre_vote_response(i, m)
  PROVE  MirrorInv'
<1>1. /\ up[i]
      /\ UNCHANGED <<up, commit_index, log, log_offset, log_offset_term, snapshot>>
      /\ UNCHANGED disk \/ Persist(i, candidate_image(i))
  BY DEF handle_pre_vote_response, become_candidate, counts_pre_vote, Delivered, ready,
         envVars
<1>2. CASE UNCHANGED disk
  BY <1>1, <1>2, MirrorUntouched
<1>3. CASE Persist(i, candidate_image(i))
  <2>1. /\ Image(disk[i], held_snapshot(i), log[i], commit_index[i])
        /\ WalImageOK(disk[i]) /\ term[i] \in Nat
    BY <1>1, MirrorFacts
  <2>2. term[i] + 1 \in Nat /\ term[i] + 1 # 0
    BY SMT, <2>1
  <2>3. Image(candidate_image(i), held_snapshot(i), log[i], commit_index[i])
    BY <1>1, <2>1, <2>2, HardStateMirror DEF candidate_image
  <2> QED BY <1>1, <1>3, <2>3, MirrorRewritten, MirrorStepKeepsInv
<1> QED BY <1>1, <1>2, <1>3

(***************************************************************************)
(* Steps that write entries.                                               *)
(***************************************************************************)

\* A batch of new entries, or a prefix of it, makes the WAL an image of the log
\* cut and extended, which still reaches the commit index.
LEMMA BatchImage ==
  ASSUME TypeInv, MirrorInv, NEW i \in Server, up[i], NEW m \in msgs,
         m.type = "AppendEntries", NEW k \in 1 .. Len(m.entries),
         log_ok(i, m), first_new(i, m, k), ~overwrites_committed(i, m, k),
         NEW l \in k .. Len(m.entries)
  PROVE  LET n == m.prev_log_index + k - 1 - log_offset[i]
             lg == SubSeq(log[i], 1, n) \o SubSeq(m.entries, k, l)
             d == save_entries(newer_term_image(i, m), m.prev_log_index + k,
                               SubSeq(m.entries, k, l))
         IN /\ Image(d, held_snapshot(i), lg, commit_index[i])
            /\ lg \in Seq(Entry) /\ commit_index[i] <= log_offset[i] + Len(lg)
            /\ WalImageOK(d)
<1> DEFINE n == m.prev_log_index + k - 1 - log_offset[i]
           es == SubSeq(m.entries, k, l)
           lg == SubSeq(log[i], 1, n) \o es
           d0 == newer_term_image(i, m)
           d == save_entries(d0, m.prev_log_index + k, es)
<1>1. /\ log[i] \in Seq(Entry) /\ Len(log[i]) \in Nat /\ log_offset[i] \in Nat
      /\ held_snapshot(i) \in SnapshotRecord /\ held_snapshot(i).index = log_offset[i]
      /\ commit_index[i] \in Nat
  BY MirrorFacts
<1>2. m \in AppendEntries
  BY BallotTypes, InvGroups, MessageKinds DEF LoopOK
<1>3. m.prev_log_index \in Nat /\ m.entries \in Seq(Entry)
  BY <1>2 DEF AppendEntries
<1>4. /\ k \in Nat /\ l \in Nat /\ k >= 1 /\ k <= l /\ l <= Len(m.entries)
      /\ k <= Len(m.entries) /\ Len(m.entries) \in Nat
      /\ k \in 1 .. Len(m.entries) + 1 /\ m.prev_log_index + k \in Nat
  BY SMT, <1>3
<1>5. n \in 0 .. Len(log[i])
  BY <1>2, <1>4, InvGroups, CutInLog
<1>6. n \in Nat /\ n <= Len(log[i]) /\ m.prev_log_index + k = log_offset[i] + n + 1
  <2>1. m.prev_log_index + k = log_offset[i] + n + 1
    BY SMT, <1>1, <1>3, <1>4
  <2> HIDE DEF n
  <2>2. n \in Nat /\ n <= Len(log[i])
    BY SMT, <1>1, <1>5
  <2> QED BY <2>1, <2>2
<1>7. m.prev_log_index + k > commit_index[i]
  BY SMT, <1>1, <1>3, <1>4 DEF overwrites_committed
<1> HIDE DEF n
<1>8. es \in Seq(Entry) /\ Len(es) = l - k + 1
  BY SMT, <1>3, <1>4, SliceOK
<1> HIDE DEF es
<1>9. es # <<>> /\ Len(es) >= 1
  BY SMT, <1>4, <1>8
<1>10. Image(d0, held_snapshot(i), log[i], commit_index[i]) /\ WalImageOK(d0)
  BY NewerTermMirror
<1> HIDE DEF d0
<1>11. Image(d, held_snapshot(i), lg, commit_index[i])
  <2>1. Image(save_entries(d0, held_snapshot(i).index + n + 1, es), held_snapshot(i), lg,
              commit_index[i])
    BY <1>1, <1>5, <1>8, <1>9, <1>10, EntriesImage
  <2> QED BY <1>1, <1>6, <2>1
<1>12. WalImageOK(d)
  BY <1>4, <1>8, <1>10, SaveEntriesOK
<1>13. lg \in Seq(Entry) /\ Len(lg) = n + Len(es)
  <2>1. SubSeq(log[i], 1, n) \in Seq(Entry)
    BY SMT, <1>1, <1>6, SliceOK
  <2>2. Len(lg) = n + Len(es)
    BY <1>1, <1>5, <1>8, SpliceElements
  <2> QED BY <1>8, <2>1, <2>2, ConcatOK
<1> HIDE DEF lg, d
<1>14. commit_index[i] <= log_offset[i] + Len(lg)
  <2>1. log_offset[i] + n + 1 > commit_index[i]
    BY <1>6, <1>7
  <2>2. Len(es) \in Nat
    BY SMT, <1>4, <1>8
  <2>3. commit_index[i] <= log_offset[i] + (n + Len(es))
    BY SMT, <1>1, <1>6, <2>1, <2>2
  <2> QED BY <1>13, <2>3
<1> QED BY <1>11, <1>12, <1>13, <1>14 DEF n, es, lg, d0, d

\* What handle_append_entries writes is an image of the log it builds.
LEMMA AppendImage ==
  ASSUME TypeInv, MirrorInv, NEW i \in Server, up[i], NEW m \in msgs,
         m.type = "AppendEntries", NEW k \in 1 .. Len(m.entries) + 1,
         log_ok(i, m), first_new(i, m, k), ~overwrites_committed(i, m, k),
         NEW c, c = follower_commit(i, m, spliced_log(i, m, k))
  PROVE  Image(append_image(i, m, k, c), held_snapshot(i), spliced_log(i, m, k), c)
<1> DEFINE lg == spliced_log(i, m, k)
           d == append_entries_saved(i, m, k)
<1>1. /\ log[i] \in Seq(Entry) /\ Len(log[i]) \in Nat /\ log_offset[i] \in Nat
      /\ held_snapshot(i) \in SnapshotRecord /\ held_snapshot(i).index = log_offset[i]
      /\ commit_index[i] \in Nat /\ log_offset[i] <= commit_index[i]
      /\ commit_index[i] <= log_offset[i] + Len(log[i])
  BY MirrorFacts
<1>2. m \in AppendEntries
  BY InvGroups, MessageKinds DEF LoopOK
<1>3. /\ m.prev_log_index \in Nat /\ m.entries \in Seq(Entry) /\ m.leader_commit \in Nat
      /\ m.term \in Nat
  BY <1>2 DEF AppendEntries
<1>4. Len(m.entries) \in Nat /\ k \in Nat /\ k >= 1
  BY SMT, <1>3
<1>5. /\ Image(d, held_snapshot(i), lg, commit_index[i]) /\ WalImageOK(d)
      /\ lg \in Seq(Entry) /\ commit_index[i] <= log_offset[i] + Len(lg)
  <2>1. CASE k > Len(m.entries)
    <3>1. new_entries(m, k) = <<>>
      BY SMT, <1>3, <1>4, <2>1 DEF new_entries
    <3>2. d = newer_term_image(i, m)
      BY <3>1 DEF append_entries_saved, save_entries
    <3>3. lg = log[i]
      BY <2>1 DEF spliced_log
    <3> QED BY <1>1, <3>2, <3>3, NewerTermMirror
  <2>2. CASE ~(k > Len(m.entries))
    <3>1. k \in 1 .. Len(m.entries) /\ Len(m.entries) \in k .. Len(m.entries)
      BY SMT, <1>4, <2>2
    <3> QED BY <2>2, <3>1, BatchImage DEF append_entries_saved, spliced_log, new_entries
  <2> QED BY <2>1, <2>2
<1> HIDE DEF lg, d
<1>6. Len(lg) \in Nat
  BY SMT, <1>5
<1>7. c \in Nat /\ c >= commit_index[i]
  <2>1. c \in Nat /\ commit_index[i] <= c
    BY <1>2, InvGroups, FollowerCommitOK
  <2> QED BY SMT, <1>1, <2>1
<1>8. CASE c > commit_index[i]
  <2>1. c >= held_snapshot(i).index /\ c # 0
    BY SMT, <1>1, <1>7, <1>8
  <2>2. append_image(i, m, k, c) = save_hard_state(d, m.term, standing_vote(i, m), c)
    BY <1>8 DEF append_image, d
  <2>3. Image(append_image(i, m, k, c), held_snapshot(i), lg, c)
    BY <1>1, <1>3, <1>5, <1>7, <2>1, <2>2, HardStateImage
  <2> QED BY <2>3 DEF lg
<1>9. CASE ~(c > commit_index[i])
  <2>1. c = commit_index[i]
    BY SMT, <1>1, <1>7, <1>9
  <2>2. append_image(i, m, k, c) = d
    BY <1>9 DEF append_image, d
  <2> QED BY <1>5, <2>1, <2>2 DEF lg
<1> QED BY <1>8, <1>9

\* The node stays up and keeps its snapshot: image d is one of its new log and
\* commit index.
LEMMA MirrorRelogged ==
  ASSUME TypeInv, NEW i \in Server, NEW d, Persist(i, d), up[i],
         UNCHANGED <<up, log_offset, log_offset_term, snapshot>>,
         NEW lg, log' = [log EXCEPT ![i] = lg],
         NEW c, commit_index' = [commit_index EXCEPT ![i] = c],
         Image(d, held_snapshot(i), lg, c)
  PROVE  MirrorStep(i)
<1>1. PersistOK
  BY InvGroups
<1>2. /\ log_offset' = [log_offset EXCEPT ![i] = log_offset[i]]
      /\ log_offset_term' = [log_offset_term EXCEPT ![i] = log_offset_term[i]]
      /\ snapshot' = [snapshot EXCEPT ![i] = snapshot[i]]
  BY <1>1 DEF PersistOK
<1>3. Image(d, [index |-> log_offset[i], term |-> log_offset_term[i],
                state |-> snapshot[i]], lg, c)
  BY DEF held_snapshot
<1> QED BY <1>2, <1>3, MirrorPersisted

\* handle_append_entries: nothing, the new term, or the new log.
LEMMA AppendEntriesMirror ==
  ASSUME TypeInv, TypeInv', MirrorInv, NEW i \in Server, NEW m \in msgs,
         handle_append_entries(i, m)
  PROVE  MirrorInv'
<1>1. /\ up[i] /\ m.type = "AppendEntries"
      /\ UNCHANGED <<up, log_offset, log_offset_term, snapshot>>
  BY DEF handle_append_entries, Delivered, ready, envVars
<1>2. CASE UNCHANGED <<commit_index, log, disk>>
  BY <1>1, <1>2, MirrorUntouched
<1>3. CASE Persist(i, newer_term_image(i, m)) /\ UNCHANGED <<commit_index, log>>
  BY <1>1, <1>3, NewerTermMirror, MirrorRewritten, MirrorStepKeepsInv
<1>4. ASSUME log_ok(i, m), NEW k \in 1 .. Len(m.entries) + 1, first_new(i, m, k),
             ~overwrites_committed(i, m, k), NEW c,
             c = follower_commit(i, m, spliced_log(i, m, k)),
             log' = [log EXCEPT ![i] = spliced_log(i, m, k)],
             commit_index' = [commit_index EXCEPT ![i] = c],
             Persist(i, append_image(i, m, k, c))
      PROVE  MirrorInv'
  <2>1. Image(append_image(i, m, k, c), held_snapshot(i), spliced_log(i, m, k), c)
    BY <1>1, <1>4, AppendImage
  <2> QED BY <1>1, <1>4, <2>1, MirrorRelogged, MirrorStepKeepsInv
<1> QED BY <1>2, <1>3, <1>4 DEF handle_append_entries

\* handle_append_entries_response: a higher commit index is written.
LEMMA AppendAcceptedMirror ==
  ASSUME TypeInv, TypeInv', MirrorInv, NEW i \in Server, NEW m, AppendAccepted(i, m)
  PROVE  MirrorInv'
<1>1. /\ up[i] /\ UNCHANGED <<up, log, log_offset, log_offset_term, snapshot>>
  BY DEF AppendAccepted, acknowledges, Delivered, ready, envVars
<1>2. PICK c \in committable(i, progress_after(i, m)) \cup {commit_index[i]} :
        /\ commit_index' = [commit_index EXCEPT ![i] = c]
        /\ Persist(i, commit_image(i, c))
  BY DEF AppendAccepted
<1>3. PersistOK
  BY InvGroups
<1>4. log' = [log EXCEPT ![i] = log[i]]
  BY <1>1, <1>3 DEF PersistOK
<1>5. /\ Image(disk[i], held_snapshot(i), log[i], commit_index[i]) /\ WalImageOK(disk[i])
      /\ held_snapshot(i) \in SnapshotRecord /\ held_snapshot(i).index = log_offset[i]
      /\ term[i] \in Nat /\ commit_index[i] \in Nat /\ log_offset[i] \in Nat
      /\ log_offset[i] <= commit_index[i] /\ Len(log[i]) \in Nat
  BY <1>1, MirrorFacts
<1>6. c \in Nat /\ c >= commit_index[i]
  <2>1. c = commit_index[i] \/ c \in commit_index[i] + 1 .. last_log_index(i)
    BY <1>2 DEF committable
  <2> QED BY SMT, <1>5, <2>1 DEF last_log_index
<1>7. Image(commit_image(i, c), held_snapshot(i), log[i], c)
  <2>1. CASE c > commit_index[i]
    <3>1. c >= held_snapshot(i).index /\ c # 0
      BY SMT, <1>5, <1>6, <2>1
    <3> QED BY <1>5, <1>6, <2>1, <3>1, HardStateImage DEF commit_image
  <2>2. CASE ~(c > commit_index[i])
    <3>1. c = commit_index[i]
      BY SMT, <1>5, <1>6, <2>2
    <3> QED BY <1>5, <2>2, <3>1 DEF commit_image
  <2> QED BY <2>1, <2>2
<1> QED BY <1>1, <1>2, <1>4, <1>7, MirrorRelogged, MirrorStepKeepsInv

\* propose(), for a command or for the empty entry of a read.
LEMMA ProposedMirror ==
  ASSUME TypeInv, TypeInv', MirrorInv, NEW i \in Server, up[i],
         NEW v \in Value \cup {NoOp}, Persist(i, propose_image(i, v)),
         log' = [log EXCEPT ![i] = Append(log[i], proposal(i, v))],
         UNCHANGED <<up, commit_index, log_offset, log_offset_term, snapshot>>
  PROVE  MirrorInv'
<1> DEFINE e == proposal(i, v)
<1>1. /\ Image(disk[i], held_snapshot(i), log[i], commit_index[i]) /\ WalImageOK(disk[i])
      /\ held_snapshot(i) \in SnapshotRecord /\ held_snapshot(i).index = log_offset[i]
      /\ log[i] \in Seq(Entry) /\ Len(log[i]) \in Nat /\ term[i] \in Nat
  BY MirrorFacts
<1>2. e \in Entry
  BY <1>1 DEF proposal, Entry
<1> HIDE DEF e
<1>3. <<e>> \in Seq(Entry) /\ <<e>> # <<>> /\ Len(log[i]) \in 0 .. Len(log[i])
  BY SMT, <1>1, <1>2
<1>4. SubSeq(log[i], 1, Len(log[i])) \o <<e>> = Append(log[i], e)
  <2>1. ASSUME NEW lg \in Seq(Entry) PROVE SubSeq(lg, 1, Len(lg)) = lg
    BY SMT
  <2>2. ASSUME NEW lg \in Seq(Entry) PROVE lg \o <<e>> = Append(lg, e)
    BY SMT, <1>2
  <2> QED BY <1>1, <2>1, <2>2
<1>5. Image(save_entries(disk[i], held_snapshot(i).index + Len(log[i]) + 1, <<e>>),
            held_snapshot(i), SubSeq(log[i], 1, Len(log[i])) \o <<e>>, commit_index[i])
  BY <1>1, <1>3, EntriesImage
<1>6. propose_image(i, v) =
        save_entries(disk[i], held_snapshot(i).index + Len(log[i]) + 1, <<e>>)
  BY <1>1 DEF propose_image, last_log_index, e
<1>7. Image(propose_image(i, v), held_snapshot(i), Append(log[i], proposal(i, v)),
            commit_index[i])
  BY <1>4, <1>5, <1>6 DEF e
<1>8. commit_index' = [commit_index EXCEPT ![i] = commit_index[i]]
  BY InvGroups DEF PersistOK
<1> QED BY <1>7, <1>8, MirrorRelogged, MirrorStepKeepsInv

(***************************************************************************)
(* Steps that write a snapshot.                                            *)
(***************************************************************************)

\* A compaction moves the covered entries from the log to the snapshot.
LEMMA TakeSnapshotMirror ==
  ASSUME TypeInv, TypeInv', MirrorInv, NEW i \in Server, TakeSnapshot(i)
  PROVE  MirrorInv'
<1>1. up[i] /\ UNCHANGED <<up, commit_index>>
  BY DEF TakeSnapshot, ready, envVars
<1>2. CASE ~takes_snapshot(i)
  BY <1>1, <1>2, MirrorUntouched DEF TakeSnapshot
<1>3. CASE takes_snapshot(i)
  <2> DEFINE x == captured_index(i)
             t == term_at(i, x)
             st == capture[i].state
             off == held_snapshot(i).index
             lg == SubSeq(log[i], x - log_offset[i] + 1, Len(log[i]))
  <2>1. /\ log' = [log EXCEPT ![i] = lg] /\ log_offset' = [log_offset EXCEPT ![i] = x]
        /\ log_offset_term' = [log_offset_term EXCEPT ![i] = t]
        /\ snapshot' = [snapshot EXCEPT ![i] = st] /\ Persist(i, take_snapshot_image(i))
    BY <1>3 DEF TakeSnapshot
  <2>2. /\ Image(disk[i], held_snapshot(i), log[i], commit_index[i]) /\ WalImageOK(disk[i])
        /\ held_snapshot(i) \in SnapshotRecord /\ off = log_offset[i]
        /\ log[i] \in Seq(Entry) /\ Len(log[i]) \in Nat /\ commit_index[i] \in Nat
        /\ log_offset[i] \in Nat /\ last_applied[i] \in Nat
        /\ last_applied[i] <= commit_index[i]
        /\ commit_index[i] <= log_offset[i] + Len(log[i])
    BY <1>1, MirrorFacts
  <2>3. x \in Nat
    <3>1. capture[i] \in Capture
      BY InvGroups DEF LoopOK
    <3>2. capture[i].state \in Seq(Entry)
      BY <3>1 DEF Capture
    <3> QED BY SMT, <3>2 DEF captured_index
  <2>4. x > log_offset[i] /\ x <= last_applied[i]
    BY <1>3 DEF takes_snapshot
  <2>5. take_snapshot_image(i) = save_snapshot(disk[i], x, t, st, FALSE)
    BY DEF take_snapshot_image
  <2> HIDE DEF x, t, st
  <2>6. x <= commit_index[i] /\ x <= log_offset[i] + Len(log[i])
    BY SMT, <2>2, <2>3, <2>4
  <2>7. Image(save_snapshot(disk[i], x, t, st, FALSE),
              [index |-> x, term |-> t, state |-> st], lg, commit_index[i])
    BY <2>2, <2>3, <2>4, <2>6, CompactedImage
  <2>8. commit_index' = [commit_index EXCEPT ![i] = commit_index[i]]
    BY <1>1, InvGroups DEF PersistOK
  <2> QED BY <1>1, <2>1, <2>5, <2>7, <2>8, MirrorPersisted, MirrorStepKeepsInv
<1> QED BY <1>2, <1>3

\* The record of a snapshot from the leader, before the commit index follows.
LEMMA InstallingImage ==
  ASSUME TypeInv, MirrorInv, NEW i \in Server, up[i], NEW m \in msgs,
         m.type = "InstallSnapshot", installs(i, m)
  PROVE  /\ Image(snapshot_saved_image(i, m),
                  [index |-> m.snapshot_index, term |-> m.snapshot_term,
                   state |-> m.snapshot_data], <<>>, m.snapshot_index)
         /\ WalImageOK(snapshot_saved_image(i, m))
         /\ m.snapshot_index \in Nat /\ m.snapshot_index # 0 /\ m.term \in Nat
         /\ [index |-> m.snapshot_index, term |-> m.snapshot_term,
             state |-> m.snapshot_data] \in SnapshotRecord
<1>1. m \in InstallSnapshot
  BY InvGroups, MessageKinds DEF LoopOK
<1>2. /\ m.snapshot_index \in Nat /\ m.snapshot_term \in Nat /\ m.term \in Nat
      /\ m.snapshot_data \in Seq(Entry)
  BY <1>1 DEF InstallSnapshot
<1>3. m.snapshot_index # 0 /\ ~(commit_index[i] > m.snapshot_index)
  BY DEF installs, valid_snapshot, stale_snapshot
<1>4. commit_index[i] \in Nat
  BY MirrorFacts
<1>5. commit_index[i] <= m.snapshot_index
  BY SMT, <1>2, <1>3, <1>4
<1>6. /\ Image(newer_term_image(i, m), held_snapshot(i), log[i], commit_index[i])
      /\ WalImageOK(newer_term_image(i, m))
  BY NewerTermMirror
<1>7. WalImageOK(snapshot_saved_image(i, m))
  BY <1>1, InvGroups, InstallImageOK
<1>8. Image(snapshot_saved_image(i, m),
            [index |-> m.snapshot_index, term |-> m.snapshot_term,
             state |-> m.snapshot_data], <<>>, m.snapshot_index)
  BY <1>2, <1>4, <1>5, <1>6, InstalledImage DEF snapshot_saved_image
<1>9. [index |-> m.snapshot_index, term |-> m.snapshot_term,
       state |-> m.snapshot_data] \in SnapshotRecord
  BY <1>2 DEF SnapshotRecord
<1> QED BY <1>2, <1>3, <1>7, <1>8, <1>9

\* handle_install_snapshot: nothing, the new term, or the new snapshot.
LEMMA InstallSnapshotMirror ==
  ASSUME TypeInv, TypeInv', MirrorInv, NEW i \in Server, NEW m \in msgs,
         handle_install_snapshot(i, m)
  PROVE  MirrorInv'
<1>1. up[i] /\ m.type = "InstallSnapshot" /\ UNCHANGED up
  BY DEF handle_install_snapshot, Delivered, ready, envVars
<1>2. CASE UNCHANGED <<persistVars, disk>>
  BY <1>1, <1>2, MirrorUntouched DEF persistVars
<1>3. CASE /\ Persist(i, newer_term_image(i, m))
           /\ UNCHANGED <<commit_index, log, log_offset, log_offset_term, snapshot>>
  BY <1>1, <1>3, NewerTermMirror, MirrorRewritten, MirrorStepKeepsInv
<1>4. CASE /\ installs(i, m)
           /\ log' = [log EXCEPT ![i] = <<>>]
           /\ log_offset' = [log_offset EXCEPT ![i] = m.snapshot_index]
           /\ log_offset_term' = [log_offset_term EXCEPT ![i] = m.snapshot_term]
           /\ snapshot' = [snapshot EXCEPT ![i] = m.snapshot_data]
           /\ commit_index' = [commit_index EXCEPT ![i] = m.snapshot_index]
           /\ Persist(i, install_image(i, m))
  <2> DEFINE rec == [index |-> m.snapshot_index, term |-> m.snapshot_term,
                     state |-> m.snapshot_data]
  <2>1. /\ Image(snapshot_saved_image(i, m), rec, <<>>, m.snapshot_index)
        /\ WalImageOK(snapshot_saved_image(i, m)) /\ rec \in SnapshotRecord
        /\ m.snapshot_index \in Nat /\ m.snapshot_index # 0 /\ m.term \in Nat
    BY <1>1, <1>4, InstallingImage
  <2>2. m.snapshot_index >= rec.index
    BY SMT, <2>1
  <2> HIDE DEF rec
  <2>3. Image(install_image(i, m), rec, <<>>, m.snapshot_index)
    BY <2>1, <2>2, HardStateImage DEF install_image
  <2> QED BY <1>1, <1>4, <2>3, MirrorPersisted, MirrorStepKeepsInv DEF rec
<1> QED BY <1>2, <1>3, <1>4 DEF handle_install_snapshot

(***************************************************************************)
(* Steps that write nothing.                                               *)
(***************************************************************************)

\* The messages and timers that touch no durable state.
LEMMA QuietMessagesMirror ==
  ASSUME MirrorInv, NEW i \in Server, NEW m,
         \/ handle_request_vote_response(i, m) \/ handle_pre_vote(i, m)
         \/ AppendRejected(i, m) \/ handle_install_snapshot_response(i, m)
         \/ IgnoreResponse(i, m)
         \/ TickLeader(i) \/ TickIdle(i) \/ TickQuiet(i) \/ TickElection(i)
  PROVE  MirrorInv'
<1>1. UNCHANGED <<persistVars, up, disk>>
  BY DEF handle_request_vote_response, handle_pre_vote, AppendRejected,
         handle_install_snapshot_response, IgnoreResponse, TickLeader, TickIdle,
         TickQuiet, TickElection, envVars
<1> QED BY <1>1, MirrorUntouched DEF persistVars

\* The hand-over to the KV loop, the captures and the reads that write no entry.
LEMMA HandoffMirror ==
  ASSUME MirrorInv, NEW i \in Server,
         \/ ApplyCommittedEntry(i) \/ AcknowledgeApplied(i) \/ ExpireWrite(i)
         \/ CaptureSnapshot(i) \/ \E w \in waiting[i] : CancelRead(i, w)
         \/ JoinRead(i) \/ OpenRead(i)
  PROVE  MirrorInv'
<1>1. UNCHANGED <<persistVars, up, disk>>
  BY DEF ApplyCommittedEntry, AcknowledgeApplied, ExpireWrite, CaptureSnapshot, CancelRead,
         JoinRead, OpenRead, envVars
<1> QED BY <1>1, MirrorUntouched DEF persistVars

(***************************************************************************)
(* Crash and restart.                                                      *)
(***************************************************************************)

\* Whatever a dying process leaves in its WAL is solid.
LEMMA CrashImagesSolid ==
  ASSUME TypeInv, MirrorInv, NEW i \in Server, up[i], NEW d \in crash_images(i)
  PROVE  Solid(d)
<1>1. ASSUME NEW m \in msgs PROVE Solid(newer_term_image(i, m))
  <2>1. /\ log[i] \in Seq(Entry) /\ held_snapshot(i).index = log_offset[i]
        /\ commit_index[i] <= log_offset[i] + Len(log[i])
    BY MirrorFacts
  <2> QED BY <2>1, NewerTermMirror, ImageSolid
<1>2. CASE d = disk[i]
  BY <1>2 DEF MirrorInv
<1>3. ASSUME NEW m \in msgs, Delivered(i, m, "AppendEntries"), d \in torn_append_images(i, m)
      PROVE  Solid(d)
  <2>1. PICK k \in 1 .. Len(m.entries) :
          /\ log_ok(i, m) /\ first_new(i, m, k) /\ ~overwrites_committed(i, m, k)
          /\ d \in append_entry_images(i, m, k)
    BY <1>3 DEF torn_append_images
  <2>2. PICK l \in k - 1 .. Len(m.entries) :
          d = save_entries(newer_term_image(i, m), m.prev_log_index + k,
                           SubSeq(m.entries, k, l))
    BY <2>1 DEF append_entry_images
  <2>3. m \in AppendEntries /\ m.type = "AppendEntries"
    BY <1>3, InvGroups, MessageKinds DEF LoopOK, Delivered
  <2>4. m.entries \in Seq(Entry)
    BY <2>3 DEF AppendEntries
  <2>5. Len(m.entries) \in Nat /\ k \in Nat /\ k >= 1 /\ l \in Int /\ l <= Len(m.entries)
    BY SMT, <2>4
  <2>6. CASE l \in k .. Len(m.entries)
    <3> DEFINE n == m.prev_log_index + k - 1 - log_offset[i]
               lg == SubSeq(log[i], 1, n) \o SubSeq(m.entries, k, l)
    <3>1. /\ Image(d, held_snapshot(i), lg, commit_index[i])
          /\ lg \in Seq(Entry) /\ commit_index[i] <= log_offset[i] + Len(lg)
      BY <2>1, <2>2, <2>3, <2>6, BatchImage
    <3> HIDE DEF lg
    <3>2. held_snapshot(i).index = log_offset[i]
      BY MirrorFacts
    <3> QED BY <3>1, <3>2, ImageSolid
  <2>7. CASE ~(l \in k .. Len(m.entries))
    <3>1. SubSeq(m.entries, k, l) = <<>>
      BY SMT, <2>4, <2>5, <2>7
    <3>2. d = newer_term_image(i, m)
      BY <2>2, <3>1 DEF save_entries
    <3> QED BY <1>1, <3>2
  <2> QED BY <2>6, <2>7
<1>4. ASSUME NEW m \in msgs, Delivered(i, m, "InstallSnapshot"),
             d \in torn_install_images(i, m)
      PROVE  Solid(d)
  <2>1. d = snapshot_saved_image(i, m) /\ installs(i, m) /\ m.type = "InstallSnapshot"
    BY <1>4 DEF torn_install_images, Delivered
  <2> DEFINE rec == [index |-> m.snapshot_index, term |-> m.snapshot_term,
                     state |-> m.snapshot_data]
  <2>2. Image(d, rec, <<>>, m.snapshot_index) /\ m.snapshot_index \in Nat
    BY <2>1, InstallingImage
  <2>3. rec.index = m.snapshot_index
    OBVIOUS
  <2> HIDE DEF rec
  <2>4. m.snapshot_index <= rec.index + Len(<<>>) /\ <<>> \in Seq(Entry)
    BY SMT, <2>2, <2>3
  <2> QED BY <2>2, <2>4, ImageSolid
<1> QED BY <1>1, <1>2, <1>3, <1>4, CrashImageOrigin

\* A crash leaves a solid WAL.
LEMMA CrashMirror ==
  ASSUME TypeInv, TypeInv', MirrorInv, NEW i \in Server, Crash(i)
  PROVE  MirrorInv'
<1>1. /\ up[i] /\ up' = [up EXCEPT ![i] = FALSE]
      /\ commit_index' = [commit_index EXCEPT ![i] = 0]
      /\ log' = [log EXCEPT ![i] = <<>>] /\ log_offset' = [log_offset EXCEPT ![i] = 0]
      /\ log_offset_term' = [log_offset_term EXCEPT ![i] = 0]
      /\ snapshot' = [snapshot EXCEPT ![i] = <<>>]
  BY DEF Crash, ready
<1>2. PICK d \in crash_images(i) : disk' = [disk EXCEPT ![i] = d]
  BY DEF Crash
<1>3. PersistOK /\ EnvOK /\ disk = [n \in Server |-> disk[n]]
  BY InvGroups DEF WalsOK
<1>4. disk'[i] = d /\ \A n \in Server \ {i} : disk'[n] = disk[n]
  BY <1>2, <1>3
<1>5. \A n \in Server \ {i} : MirrorKept(n)
  BY <1>1, <1>3, <1>4 DEF PersistOK, EnvOK, MirrorKept
<1>6. ~up'[i]
  BY <1>1, <1>3 DEF EnvOK
<1>7. Solid(d)
  BY <1>1, CrashImagesSolid
<1> QED BY <1>4, <1>5, <1>6, <1>7, MirrorStepKeepsInv DEF MirrorStep

\* A restart builds the memory that the WAL is an image of.
LEMMA RestartMirror ==
  ASSUME TypeInv, TypeInv', MirrorInv, NEW i \in Server, Restart(i)
  PROVE  MirrorInv'
<1> DEFINE d == disk[i]
<1>1. /\ up' = [up EXCEPT ![i] = TRUE]
      /\ commit_index' = [commit_index EXCEPT ![i] = restored_commit(d)]
      /\ log' = [log EXCEPT ![i] = restored_log(d)]
      /\ log_offset' = [log_offset EXCEPT ![i] = d.snapshot.index]
      /\ log_offset_term' = [log_offset_term EXCEPT ![i] = d.snapshot.term]
      /\ snapshot' = [snapshot EXCEPT ![i] = d.snapshot.state] /\ UNCHANGED disk
  BY DEF Restart
<1>2. PersistOK /\ EnvOK /\ WalImageOK(d)
  BY InvGroups DEF WalsOK
<1>3. Image(d, d.snapshot, restored_log(d), restored_commit(d))
  BY <1>2, SolidRestores DEF MirrorInv
<1>4. /\ \A n \in Server \ {i} : MirrorKept(n)
      /\ up'[i] /\ disk'[i] = d
      /\ commit_index'[i] = restored_commit(d) /\ log'[i] = restored_log(d)
      /\ log_offset'[i] = d.snapshot.index /\ log_offset_term'[i] = d.snapshot.term
      /\ snapshot'[i] = d.snapshot.state
  BY <1>1, <1>2 DEF PersistOK, EnvOK, MirrorKept
<1>5. held_snapshot(i)' = d.snapshot
  <2>1. d.snapshot \in SnapshotRecord
    BY <1>2, ImageFields
  <2>2. d.snapshot = [index |-> d.snapshot.index, term |-> d.snapshot.term,
                      state |-> d.snapshot.state]
    BY <2>1 DEF SnapshotRecord
  <2> QED BY <1>4, <2>2 DEF held_snapshot
<1> HIDE DEF d
<1>6. Mirrors(i)'
  BY <1>3, <1>4, <1>5 DEF Mirrors
<1> QED BY <1>4, <1>6, MirrorStepKeepsInv DEF MirrorStep

(***************************************************************************)
(* The theorems.                                                           *)
(***************************************************************************)

\* An empty WAL is an image of the memory of a fresh node.
LEMMA InitMirror ==
  ASSUME Init
  PROVE  MirrorInv
<1> SUFFICES ASSUME NEW i \in Server PROVE Mirrors(i) /\ Solid(disk[i])
  BY DEF MirrorInv
<1> DEFINE sn == NoSnapshot
<1>1. /\ disk[i] = EmptyWal /\ log[i] = <<>> /\ commit_index[i] = 0
      /\ held_snapshot(i) = sn
  BY DEF Init, held_snapshot, NoSnapshot
<1>2. /\ EmptyWal.snapshot = sn /\ EmptyWal.entries = <<>> /\ EmptyWal.commit = 0
      /\ sn.index = 0
  BY DEF EmptyWal, NoSnapshot
<1> HIDE DEF sn
<1>3. DOMAIN <<>> = 0 + 1 .. 0 + Len(<<>>) /\ 0 + 1 .. 0 + Len(<<>>) = {}
      /\ <<>> \in Seq(Entry) /\ 0 <= 0 + Len(<<>>)
  BY SMT
<1>4. restored_commit(EmptyWal) = 0
  BY <1>2 DEF restored_commit
<1>5. Image(EmptyWal, sn, <<>>, 0)
  BY <1>2, <1>3, <1>4 DEF Image
<1>6. Solid(EmptyWal)
  BY <1>2, <1>3, <1>5, ImageSolid
<1> QED BY <1>1, <1>5, <1>6 DEF Mirrors

\* Every step keeps the WALs images of the memories.
LEMMA StepMirror ==
  ASSUME TypeInv, MirrorInv, [Next]_vars
  PROVE  MirrorInv'
<1>0. TypeInv'
  BY StepTypes
<1>1. ASSUME NEW i \in Server, NEW m \in msgs, Receive(i, m) PROVE MirrorInv'
  <2>1. CASE StepDown(i, m) BY <1>0, <2>1, StepDownMirror, MirrorStepKeepsInv
  <2>2. CASE handle_request_vote(i, m)
    BY <1>0, <2>2, RequestVoteMirror, MirrorStepKeepsInv
  <2>3. CASE handle_pre_vote_response(i, m) BY <1>0, <2>3, PreVoteResponseMirror
  <2>4. CASE handle_append_entries(i, m) BY <1>0, <2>4, AppendEntriesMirror
  <2>5. CASE AppendAccepted(i, m) BY <1>0, <2>5, AppendAcceptedMirror
  <2>6. CASE handle_install_snapshot(i, m) BY <1>0, <2>6, InstallSnapshotMirror
  <2>7. CASE \/ handle_request_vote_response(i, m) \/ handle_pre_vote(i, m)
             \/ AppendRejected(i, m) \/ handle_install_snapshot_response(i, m)
             \/ IgnoreResponse(i, m)
    BY <2>7, QuietMessagesMirror
  <2> QED BY <1>1, <2>1, <2>2, <2>3, <2>4, <2>5, <2>6, <2>7 DEF Receive
<1>2. ASSUME NEW i \in Server,
             TickLeader(i) \/ TickIdle(i) \/ TickQuiet(i) \/ TickElection(i)
      PROVE  MirrorInv'
  BY <1>2, QuietMessagesMirror
<1>3. ASSUME NEW i \in Server, NEW v \in Value, Propose(i, v) PROVE MirrorInv'
  BY <1>0, <1>3, ProposedMirror DEF Propose, ready, envVars
<1>4. ASSUME NEW i \in Server,
             \/ ApplyCommittedEntry(i) \/ AcknowledgeApplied(i) \/ ExpireWrite(i)
             \/ CaptureSnapshot(i) \/ \E w \in waiting[i] : CancelRead(i, w)
             \/ JoinRead(i) \/ OpenRead(i)
      PROVE  MirrorInv'
  BY <1>4, HandoffMirror
<1>5. ASSUME NEW i \in Server, TakeSnapshot(i) PROVE MirrorInv'
  BY <1>0, <1>5, TakeSnapshotMirror
<1>6. ASSUME NEW i \in Server, OpenReadWithNoOp(i) PROVE MirrorInv'
  BY <1>0, <1>6, ProposedMirror DEF OpenReadWithNoOp, ready, envVars
<1>7. ASSUME NEW i \in Server, Crash(i) PROVE MirrorInv'
  BY <1>0, <1>7, CrashMirror
<1>8. ASSUME NEW i \in Server, Restart(i) PROVE MirrorInv'
  BY <1>0, <1>8, RestartMirror
<1>9. ASSUME UNCHANGED vars PROVE MirrorInv'
  BY <1>9, MirrorUntouched DEF vars, persistVars, envVars
<1> QED BY <1>1, <1>2, <1>3, <1>4, <1>5, <1>6, <1>7, <1>8, <1>9 DEF Next

\* The types, the ballots and the images together.
THEOREM MirrorInvariant == Spec => [](TypeInv /\ BallotInv /\ MirrorInv)
<1>1. Init => TypeInv /\ BallotInv /\ MirrorInv
  BY InitTypes, InitBallots, InitMirror
<1>2. TypeInv /\ BallotInv /\ MirrorInv /\ [Next]_vars
        => (TypeInv /\ BallotInv /\ MirrorInv)'
  BY StepTypes, StepBallots, StepMirror
<1> QED BY <1>1, <1>2, PTL DEF Spec

\* What a restart would recover is exactly what the running node holds: the
\* term and the vote, the snapshot, every entry of log_ and commit_index_.  So
\* nothing the node has answered or sent can be lost by a crash between two
\* inputs (save_hard_state, save_entry, save_snapshot and sync in raft.cpp,
\* against Raft::restore).
THEOREM MemoryIsDurable == Spec => []DurableMatchesMemory
<1>1. TypeInv /\ BallotInv /\ MirrorInv => DurableMatchesMemory
  <2> SUFFICES ASSUME TypeInv, BallotInv, MirrorInv, NEW i \in Server, up[i]
               PROVE  /\ disk[i].term = term[i] /\ disk[i].vote = voted_for[i]
                      /\ restored_commit(disk[i]) = commit_index[i]
                      /\ restored_log(disk[i]) = log[i]
                      /\ disk[i].snapshot = held_snapshot(i)
    BY DEF DurableMatchesMemory, held_snapshot
  <2>1. /\ Image(disk[i], held_snapshot(i), log[i], commit_index[i])
        /\ WalImageOK(disk[i]) /\ log[i] \in Seq(Entry)
    BY MirrorFacts
  <2>2. restored_log(disk[i]) = log[i]
    BY <2>1, ImageRestored DEF MirrorInv
  <2>3. disk[i].term = term[i] /\ disk[i].vote = voted_for[i]
    BY DEF BallotInv, BallotsDurable
  <2> QED BY <2>1, <2>2, <2>3 DEF Image
<1> QED BY <1>1, MirrorInvariant, PTL

\* Wherever a handler is cut off, by a crash between two syncs or within a batch
\* of entries, Raft::restore accepts what is left: the entries after the
\* snapshot have no gap and no committed entry is missing.
THEOREM AlwaysRecoverable == Spec => []Recoverable
<1>1. TypeInv /\ MirrorInv => Recoverable
  BY InvGroups, SolidRestores DEF WalsOK, MirrorInv, Recoverable
<1> QED BY <1>1, MirrorInvariant, PTL
=============================================================================
