# Verification of raft-kv-store

TLA+ models of the replicated key-value store, the TLC runs that check them on
small instances, and TLAPS proofs of what matters most for instances of any
size. Definitions keep the names of the code (`handle_append_entries`,
`commit_index`, ...); `PROJECT.json` maps each of them to the lines it models,
and lists runs, mutants, hazards, findings and theorems.

## The system and its models

A node has three event loops. The *Raft loop* owns class `Raft` and its WAL, the
*KV loop* (`store_io_`) owns the state machine and the client sessions, the *peer
loop* owns the connections to the other two nodes. They share nothing but posted
tasks, two atomic flags and the admission counters of the transport.

| Part | Source | Modules |
|---|---|---|
| WAL contents, as `WAL::recover` computes them | `wal/wal.cpp` | `Wal` |
| State, log accessors, message constructors | `raft/raft.h`, `raft/proto.h` | `RaftState` |
| What follows every handler on the Raft loop | `app/node_runtime.cpp` | `RaftLoop` |
| Timers, PreVote, RequestVote | `raft/raft.cpp` | `Election` |
| Propose, AppendEntries, commit, apply handoff | `raft/raft.cpp`, `app/node_runtime.cpp` | `Replication` |
| Capture, compaction, InstallSnapshot | the same | `Snapshots` |
| Linearizable reads | the same | `ReadIndex` |
| The cluster: all handlers, crash, restart | the same | `Cluster` |
| What the cluster promises | | `ClusterSafety`, `ClusterHistories` |
| The WAL file: buffer, sync, damage, repair, replay | `wal/wal.cpp` | `WalFile` |
| What Raft expects of the WAL | | `DurableLog` |
| Peer connection: queue, retries, stop | `transport/peer.cpp`, `transport/server.cpp` | `Transport` |
| What Raft expects of the transport | | `Network` |
| Sessions, client requests, shutdown | `server/resp_server.cpp`, `app/node_runtime.cpp` | `ClientService` |

The modules from `Wal` to `Cluster` extend each other in that order. `MC*`
modules hold the instances for TLC.

**The cluster.** Every action is a whole handler: it changes the fields of `Raft`,
leaves on `disk` the records it synced, and ends with `after_raft_activity`, which
hands over a committed entry, polls reads, asks for a snapshot and sends the
queued messages. A process may die at any point of a handler: `Crash` leaves any
image that the records written so far can give (`crash_images`), a torn batch
included, and nothing is sent. A WAL sync that fails does the same to a process,
so it is this action too. `Restart` is `recover_storage`.

The KV loop has steps of its own (`ApplyCommittedEntry`, `CaptureSnapshot`), so
the two loops of a node interleave. The KV map is modelled by the sequence of
entries that produced it: two different maps are never the same in the model.

Time is abstract. `quiet` says that no leader was heard for an election timeout,
which is all that PreVote asks of the clock; a timer of a non-leader may fire at
any tick. Reads and writes may time out whenever they are pending.

Three constants narrow the environment, so that a run can spend its states where
its question is. `Consume`: a message is delivered at most once (what `Transport`
guarantees); FALSE adds duplicates. `Supersede`: a message is lost once its sender
has sent the same peer another one; this is a bound on what is in flight, not a
step of the code, which replaces no more than an unsent AppendEntries of the same
term and round (see `Transport`). `EagerApply`: the KV loop keeps up.

**The transport.** One node towards one other. Asio operations under way are
variables apart from the flags of `Peer::Impl`, because a handler still runs
after the flags it belongs to were reset. `Network` is what `Cluster` assumes of
it with `Consume = TRUE`.

**The WAL file.** A file is a sequence of records, of which fsync has covered a
prefix. A killed process may leave any prefix of what it was writing, the last
record cut short; a power failure may also take back what was not flushed.
`DurableLog` is the WAL of module `Cluster`: records take effect in order, and a
crash keeps a prefix of those not yet synced. `WalFile` implements it under a
mapping that replays the file, with one exception: a power failure that follows
the death of a process before the next flush (`TakesBack`; see *Findings*).

**The client side.** Sessions with their strands, the tables of pending requests,
and the tasks the two loops post to each other. Of Raft remains what these
operations can see: it leads or not, commits in order, loses proposals, confirms
reads. `PING` stands for every command that is answered at once.

## Runs

| Run | Question | Distinct states |
|---|---|---|
| `elections` | Is there one leader per term, and does the vote on disk stand, with messages lost, reordered and duplicated and a crash in the middle? | 109,605 |
| `replication` | Does every later leader have what was committed, is an acknowledged write on a majority of the disks, and do the state machines agree? | 74,320 |
| `contested` | Are conflicting logs of two leaders repaired without touching a committed entry, with a crash in the middle? | 100,686 |
| `snapshots` | Can every WAL be restored, and is nothing committed or applied taken back, when snapshots, delayed messages and a crash meet? | 171,298 |
| `handoff` | Do the loops of a node stay in step at different speeds, and does the KV state follow the log, while snapshots are captured and installed? | 110,102 |
| `reads` | Are reads that opened their round linearizable, and is no read left on a dead round? | 365,507 |
| `transport` | Are no wake-ups lost and counters exact; does it implement `Network`; do queue and stop make progress? | 139,346 |
| `wal_file` | Is what `sync` flushed recovered after exits and power losses in any order; does the file implement `DurableLog`? | 263,747 |
| `client` | Does each request get exactly one true answer, in order, and does the node stop clean? | 254,160 |

Three more runs show disagreements between the code and what is said of it; see
*Findings*. Each property of a passing run has a mutant in `PROJECT.json`: a
faulty variant of one definition (they stand next to it in the modules) under
which TLC finds the property violated.

### Bounds

Three servers, as the constructor of `Raft` demands. `MaxTerm`, `MaxLog`,
`MaxReads`, `MaxWaiting`, `MaxTimeouts` and `MaxCrashes` bound behaviours, and are
small because the interesting cases need few steps: two candidates in one term,
two leaders with one conflicting entry each, one snapshot with one entry behind
it, one crash. What needs a history starts from it: `MCCluster` defines states in
the middle of a behaviour, with everything not shown delivered or lost (a new
leader; a leader with a committed entry; two leaders with conflicting logs and a third term; a deposed leader that
does not know it). These fix the role of each server, so only `elections`, which
starts from `Init`, uses symmetry. The mutants confirm that the bounds are wide
enough for the mistakes the properties are there to catch.

The transport has limits of 2 frames and 4 bytes with frames of 1 and 2 bytes, 3
sends and 2 faults, so that the queue fills, frames replace each other and a
connection is lost twice. The WAL file has 4 records out of 7 different ones
and 2 failures; the client side 2 connections, 2 commands and 1 change of
leadership.

Deadlock checking is off where a system really may stop: a node that was told to,
or a file when failures are used up.

### Fairness

Safety runs assume none. `transport` assumes that Asio runs posted tasks and
completes the operations it was given (weak fairness of each completion), and
that a stopping node tells its peers; nothing of the network, and of the other
node only where the property itself says so (`<>[]listening`). `client` assumes
that both loops run what is posted to them, that strands do, and that the request
timer fires again and again; nothing of Raft, which may never commit anything, and
nothing of clients. That is what `io_context::run` and `steady_timer` provide.

## Proofs

`TypeFacts`, `TypeReplication`, `TypeSnapshots` and `TypeProofs` prove, for any
finite set of servers and any values and bounds,

- `TypeCorrect`: `Spec => []TypeOK`;
- `IndicesCorrect`: `Spec => []IndicesInOrder`, that is
  `log_offset <= last_applied <= commit_index <= last_log_index` at every node.

Neither is inductive alone, so they are proved together: the entry handed to the
KV loop exists because the indices are in order, and the order rests on the types.
A restart takes its indices from the disk, so `TypeOK` also says that every WAL
image a crash may leave is well formed (`WalImageOK`). `TypeInv`, their conjunction,
is proved action by action, with the lemmas about WAL images in `TypeFacts`.

`ElectionProofs` proves

- `ElectionSafe`: `Spec => []ElectionSafety`;
- `VotesStand`: `Spec => VoteStands`.

The argument: a vote that was counted, or that is in a message on its way, is on
the voter's disk, or the voter's disk has moved to a later term; a vote on disk is
never changed within its term; and two majorities meet. The invariant
(`BallotInv`) relates messages, the candidates' tallies, the elections won
and the disks, and it holds with duplicated and reordered messages and with
crashes between any two records. The proof that two majorities meet counts
cardinalities (`FiniteSetTheorems`).

`DurabilityProofs` proves

- `MemoryIsDurable`: `Spec => []DurableMatchesMemory`, what `restore()` would
  build from the WAL of a running node is what the node holds;
- `AlwaysRecoverable`: `Spec => []Recoverable`, `restore()` never throws on what a
  crash has left.

The recovered log is a function of the cardinality of a set of indices, which no
step preserves in an obvious way. The invariant (`MirrorInv`) says it without
counting: the WAL of a running node is an *image* of its memory (its entries are
exactly those after the snapshot, at their indices), and every WAL is *solid* (no
gap after the snapshot, and the entries reach the commit index). One lemma for
each kind of record says what it does to an image; one for each action that its
records lead from an image of the old memory to one of the new. A torn batch
leaves a solid WAL because a batch starts behind the commit index
(`overwrites_committed`) and right after an entry of the log (`CutInLog`).

`LoopProofs` proves

- `ReadsKeepTheirRound`: `Spec => []ReadsShareTheRound`;
- `HandoffInOrder`: `Spec => []ApplyInOrder`, the two loops of a node never find
  each other at an index they did not expect.

The first is inductive with the types: every handler that ends a round leaves a
follower, which rejects what it holds, or answers all reads of it at once. The
second needs that snapshots are *whole* (`WholeInv`: as many entries as their index
says, at the nodes, in the WALs and in messages), because an installed snapshot
sets `last_applied_` from its index and the KV state from its contents.

The assumptions of these proofs are those of `RaftState`: the servers are a finite
set without `None`, `NoOp` is not a client value, bounds are naturals. TLC
evaluates them in every run.

`TransportProofs` proves, for any limits and any number of frames and faults (the
assumption is `TransportAssumption`),

- `QueueNeverStalls`: `Spec => []NeverStalls`, queued frames always have a wake-up
  on its way;
- `QueueKeepsOrder`: `Spec => []QueueInOrder`;
- `TransportIsNetwork`: `Spec => ImplementsNetwork`.

`WakeInv` ties the flags of `Peer::Impl` to the Asio operations that are really
under way; `OrderInv` says that the numbers of the frames rise along the queue;
`AirInv` that each frame not yet written has a higher number than all that were
ever put on a connection, so that no frame is put there, and received, twice.

Model-checked only: log matching, leader completeness and what rests on them,
linearizability, the WAL file and the client side. `ReservationsExact` adds up the
bytes of a queue, and the replay of a file of any length is a recursion over it:
both take an induction over data, which is out of the reach of the proof system.
So is liveness (`QueueDrains`, `StopCompletes`, `EveryRequestAnswered`,
`StopsClean`).

## Findings

Each of the first three has a run that ends in a counterexample.

1. `stale_reads`: *a read that joins a pending round may be stale.* `read_index()`
   (`raft.cpp:789`) gives it the token of the round, whose acknowledgements may have
   been sent before the read began. A leader deposed in between answers it with an
   older state than its successor has already acknowledged. Reads that open their
   round are linearizable (`reads`). `raft.h:93` promises "Linearizable reads".
2. `lost_suffix`: *installing a snapshot discards acknowledged entries.*
   `handle_install_snapshot` (`raft.cpp:911`) drops the whole log, also entries
   after the snapshot that the follower has acknowledged and the leader counted.
   An acknowledged write is then on one disk, and until it is sent again the other
   two nodes can elect a leader without it, which makes the loss final, against
   README.md:41, "after durable majority replication". In the last state of the
   run `AckedOnMajority` and `ElectableHaveCommitted` are false too, and an
   election later so are `LeaderCompleteness` and `StateMachineSafety`: the runs
   that check these four have snapshots off. What `snapshots` and `handoff` check
   with snapshots on is about each node by itself.
3. `peer_down`: *a node that is down can stop a healthy one.* Frames of different
   ReadIndex rounds do not replace each other in the queue of a peer; when 512
   are queued `reserve()` refuses (`peer.cpp:96`) and `flush_raft_messages` stops
   the node, against README.md:59, "Two communicating, healthy nodes can make
   progress". The run has the limit at 3.

Two more, without a run of their own:

- A leader does not reset `election_elapsed_` when it is elected, and does not
  advance it. One that had gone an election timeout without a leader when it won
  keeps granting pre-votes, although it sends heartbeats itself (`raft.cpp:351`).
- `recover()` of an undamaged file does not flush it (`wal.cpp:453`), and `sync()`
  with an empty buffer returns true (`wal.cpp:255`). Records that were written and
  not flushed when a process died are used by the next one, and a power failure
  after that can take them back, although `wal.h:51` says of `sync` "BLOCKS until
  data is physically on disk". `VouchedSurvives` therefore counts only a `sync` that
  had something to write, which flushes the recovered records as well, and
  `ImplementsDurableLog` excepts this power failure. `Cluster` does not have it: its
  crashes keep what a restart has recovered.

## Not modelled

- The RESP codec, frame headers and the byte buffer: sequential byte handling.
  What a session or a connection sees of it is modelled: a chunk of input yields
  some whole commands or frames, or an error that closes the connection and drops
  the commands of the chunk (`ClientService`, `Transport`).
- The map of `KVStore` and its serialised form, for which the sequence of applied
  entries stands; msgpack; checksums, for which damaged records stand.
- Sizes: the 16 MiB limits of a WAL record and of a frame.
- Wrap-around of 64-bit terms, indices, contexts and request ids.
- WAL directories and file names (the node uses one file), options, logging, and
  the timeout of `restore_snapshot` on a KV loop that hangs.
