----------------------------- MODULE Transport -----------------------------
(***************************************************************************)
(* The peer transport (src/transport) of one node towards one other: the   *)
(* bounded outbound queue of Peer::Impl, its connection and retries, and   *)
(* the Server that reads the frames at the other end.                      *)
(*                                                                         *)
(* The Raft loop calls Peer::send (reserve, then a task posted to the      *)
(* strand); everything else of the peer runs on its strand, one task or    *)
(* completion handler at a time.  A variable named after a field of        *)
(* Peer::Impl is that field.  The operations that Asio has under way are   *)
(* variables of their own (resolving, connecting, writing, timing): a      *)
(* handler still runs after the flags it belongs to have been reset.       *)
(*                                                                         *)
(* A frame is the number of its send() call, its size, and the stream it   *)
(* belongs to: what an AppendEntries must have in common with another to   *)
(* replace it (from, to, term, read_context), or NoStream.                 *)
(***************************************************************************)
EXTENDS Integers, Sequences, FiniteSets

CONSTANTS
  Stream, NoStream, Size,
  kMaxPendingFrames, kMaxPendingBytes,
  MaxSends,           \* bound: calls of send()
  MaxFaults           \* bound: connections and nodes that fail

ASSUME TransportAssumption ==
  /\ NoStream \notin Stream
  /\ Size \subseteq Nat \ {0}
  /\ kMaxPendingFrames \in Nat /\ kMaxPendingBytes \in Nat
  /\ MaxSends \in Nat /\ MaxFaults \in Nat

VARIABLES
  sends, node_stopping,          \* NodeRuntime: calls so far, stopping_
  posted,                        \* tasks posted to the strand
  outbound, pending_frames, pending_bytes,
  stop_requested, stopped, connected, connect_in_progress,
  write_in_progress, retry_pending,
  resolving, connecting, writing, timing,
  wire,                          \* frames sent on the connection, not yet read
  alive,                         \* the other end of the connection is open
  old,                           \* the same for connections already given up
  listening, faults,             \* the other node's Server; faults so far
  received                       \* what its message handler got

queueVars  == <<outbound, pending_frames, pending_bytes>>
stopVars   == <<stop_requested, stopped>>
flagVars   == <<connected, connect_in_progress, write_in_progress, retry_pending>>
opVars     == <<resolving, connecting, writing, timing>>
serverVars == <<listening, faults, received>>
wireVars   == <<wire, alive, old>>
vars == <<sends, node_stopping, posted, queueVars, stopVars, flagVars, opVars,
          wireVars, serverVars>>

Frame == [n : Nat, stream : Stream \cup {NoStream}, size : Size]
StopTask == [n |-> 0, stream |-> NoStream, size |-> 0]    \* posted stop_now()
NoWrite == <<>>

stopping == stopped \/ stop_requested

(***************************************************************************)
(* The Raft loop: flush_raft_messages() and request_stop().                *)
(***************************************************************************)
reserve(f) ==
  /\ ~stop_requested
  /\ pending_frames < kMaxPendingFrames
  /\ f.size <= kMaxPendingBytes - pending_bytes

Send(f) ==
  /\ ~node_stopping /\ sends < MaxSends /\ f.n = sends + 1
  /\ sends' = sends + 1
  /\ IF reserve(f)
       THEN /\ pending_frames' = pending_frames + 1
            /\ pending_bytes' = pending_bytes + f.size
            /\ posted' = Append(posted, f)
            /\ UNCHANGED node_stopping
       ELSE \* "peer transport outbound queue exhausted"
            /\ node_stopping' = TRUE
            /\ UNCHANGED <<posted, pending_frames, pending_bytes>>
  /\ UNCHANGED <<outbound, stopVars, flagVars, opVars, wireVars, serverVars>>

\* The node is told to stop for another reason.
StopNode ==
  /\ ~node_stopping /\ node_stopping' = TRUE
  /\ UNCHANGED <<sends, posted, queueVars, stopVars, flagVars, opVars,
                 wireVars, serverVars>>

\* stop_on_raft_loop()'s task on the peer loop, and Peer::request_stop().
StopPeer ==
  /\ node_stopping /\ ~stop_requested
  /\ stop_requested' = TRUE
  /\ posted' = Append(posted, StopTask)
  /\ UNCHANGED <<sends, node_stopping, queueVars, stopped, flagVars, opVars,
                 wireVars, serverVars>>

\* The bytes that the frames of a queue hold.
bytes(q) ==
  LET sum[k \in 0 .. Len(q)] == IF k = 0 THEN 0 ELSE sum[k - 1] + q[k].size
  IN  sum[Len(q)]

(***************************************************************************)
(* Steps that several handlers of the strand end with.  out is the queue   *)
(* they leave; none of them is called when the peer is stopping.           *)
(***************************************************************************)
write_next(out, is_connected, is_writing) ==
  LET starts == is_connected /\ ~is_writing /\ out # <<>> IN
  /\ write_in_progress' = (is_writing \/ starts)
  /\ writing' = IF starts THEN [frame |-> Head(out), sent |-> FALSE]
                ELSE IF is_writing THEN writing ELSE NoWrite

connect(out, is_connected, is_retrying) ==
  LET starts == ~is_connected /\ ~connect_in_progress /\ ~is_retrying
                /\ out # <<>> IN
  /\ connect_in_progress' = (connect_in_progress \/ starts)
  /\ resolving' = (resolving \/ starts)

\* Faulty variant: a failed attempt is not followed by another.
NoRetry == UNCHANGED <<retry_pending, timing>>

schedule_retry ==
  LET starts == outbound # <<>> /\ ~retry_pending IN
  /\ retry_pending' = (retry_pending \/ starts)
  /\ timing' = (timing \/ starts)

\* The socket is closed: what was sent on it may still arrive.
closed_wires == IF wire = <<>> THEN old ELSE old \cup {wire}

(***************************************************************************)
(* The task that enqueue() posts.                                          *)
(***************************************************************************)
RunsFrame == posted # <<>> /\ Head(posted) # StopTask

\* Faulty variant: a dropped frame keeps its reservation.
DropsUnreleased ==
  /\ RunsFrame /\ stopping
  /\ posted' = Tail(posted)
  /\ UNCHANGED <<sends, node_stopping, queueVars, stopVars, flagVars, opVars,
                 wireVars, serverVars>>

DropFrame ==
  /\ RunsFrame /\ stopping
  /\ posted' = Tail(posted)
  /\ pending_frames' = pending_frames - 1
  /\ pending_bytes' = pending_bytes - Head(posted).size
  /\ UNCHANGED <<sends, node_stopping, outbound, stopVars, flagVars, opVars,
                 wireVars, serverVars>>

\* Faulty variant: a frame that is being written may be replaced too.
ReplacesInFlight(f) ==
  /\ f.stream # NoStream /\ outbound # <<>>
  /\ outbound[Len(outbound)].stream = f.stream

\* The last frame of the queue is an older AppendEntries of the same stream,
\* and no write owns its bytes.
replaces(f) ==
  /\ ~(write_in_progress /\ Len(outbound) = 1)
  /\ f.stream # NoStream /\ outbound # <<>>
  /\ outbound[Len(outbound)].stream = f.stream

\* Faulty variant: the size of the new frame is released.
ReleasesNewSize(f) == f.size

replaced_size(f) == outbound[Len(outbound)].size

ReplaceFrame ==
  LET f == Head(posted)
      out == [outbound EXCEPT ![Len(outbound)] = f] IN
  /\ RunsFrame /\ ~stopping /\ replaces(f)
  /\ posted' = Tail(posted)
  /\ outbound' = out
  /\ pending_frames' = pending_frames - 1
  /\ pending_bytes' = pending_bytes - replaced_size(f)
  /\ write_next(out, connected, write_in_progress)
  /\ UNCHANGED <<sends, node_stopping, stopVars, connected,
                 connect_in_progress, retry_pending, resolving, connecting,
                 timing, wireVars, serverVars>>

PushFrame ==
  LET f == Head(posted)
      out == Append(outbound, f) IN
  /\ RunsFrame /\ ~stopping /\ ~replaces(f)
  /\ posted' = Tail(posted)
  /\ outbound' = out
  /\ write_next(out, connected, write_in_progress)
  /\ connect(out, connected, retry_pending)
  /\ UNCHANGED <<sends, node_stopping, pending_frames, pending_bytes,
                 stopVars, connected, retry_pending, connecting, timing,
                 wireVars, serverVars>>

(***************************************************************************)
(* Completion handlers.                                                    *)
(***************************************************************************)

\* The handler of async_resolve.
ResolveDone ==
  /\ resolving /\ resolving' = FALSE
  /\ \/ /\ stopping
        /\ UNCHANGED <<connect_in_progress, retry_pending, timing, connecting,
                       faults>>
     \/ /\ ~stopping /\ faults < MaxFaults /\ faults' = faults + 1
        /\ connect_in_progress' = FALSE
        /\ schedule_retry
        /\ UNCHANGED connecting
     \/ /\ ~stopping
        /\ connecting' = TRUE
        /\ UNCHANGED <<connect_in_progress, retry_pending, timing, faults>>
  /\ UNCHANGED <<sends, node_stopping, posted, queueVars, stopVars, connected,
                 write_in_progress, writing, wireVars, listening, received>>

\* The handler of async_connect; Server::accept_next() at the other end.
ConnectDone ==
  /\ connecting /\ connecting' = FALSE
  /\ connect_in_progress' = FALSE
  /\ \/ /\ stopping
        /\ UNCHANGED <<connected, write_in_progress, writing, retry_pending,
                       timing, wireVars>>
     \/ /\ ~stopping /\ ~listening
        /\ connected' = FALSE /\ write_in_progress' = FALSE
        /\ schedule_retry
        /\ UNCHANGED <<writing, wireVars>>
     \/ /\ ~stopping /\ listening
        /\ connected' = TRUE /\ alive' = TRUE /\ wire' = <<>>
        /\ write_next(outbound, TRUE, write_in_progress)
        /\ UNCHANGED <<retry_pending, timing, old>>
  /\ UNCHANGED <<sends, node_stopping, posted, queueVars, stopVars, resolving,
                 serverVars>>

\* The kernel has taken all bytes of the frame.  If the other end is gone
\* they go nowhere.
FrameSent ==
  /\ writing # NoWrite /\ ~writing.sent /\ ~stopped
  /\ writing' = [writing EXCEPT !.sent = TRUE]
  /\ wire' = IF alive THEN Append(wire, writing.frame) ELSE wire
  /\ UNCHANGED <<sends, node_stopping, posted, queueVars, stopVars, flagVars,
                 resolving, connecting, timing, alive, old, serverVars>>

\* The handler of async_write.
WriteDone ==
  /\ writing # NoWrite
  /\ \/ \* stopping: stop_now() sees to the queue
        /\ stopping
        /\ write_in_progress' = FALSE /\ writing' = NoWrite
        /\ UNCHANGED <<queueVars, connected, retry_pending, timing, wireVars>>
     \/ \* an error: the frame stays at the head of the queue
        /\ ~stopping /\ ~writing.sent /\ ~alive
        /\ connected' = FALSE /\ write_in_progress' = FALSE /\ writing' = NoWrite
        /\ old' = closed_wires /\ wire' = <<>>
        /\ schedule_retry
        /\ UNCHANGED <<queueVars, alive>>
     \/ /\ ~stopping /\ writing.sent
        /\ outbound' = Tail(outbound)
        /\ pending_frames' = pending_frames - 1
        /\ pending_bytes' = pending_bytes - writing.frame.size
        /\ write_next(Tail(outbound), connected, FALSE)
        /\ UNCHANGED <<connected, retry_pending, timing, wireVars>>
  /\ UNCHANGED <<sends, node_stopping, posted, stopVars, connect_in_progress,
                 resolving, connecting, serverVars>>

\* The handler of the retry timer.
RetryDone ==
  /\ timing /\ timing' = FALSE
  /\ retry_pending' = FALSE
  /\ IF stopping
       THEN UNCHANGED <<connect_in_progress, resolving>>
       ELSE connect(outbound, connected, FALSE)
  /\ UNCHANGED <<sends, node_stopping, posted, queueVars, stopVars, connected,
                 write_in_progress, connecting, writing, wireVars, serverVars>>

\* stop_now().  The operations under way complete later, as cancelled.
RunStop ==
  /\ posted # <<>> /\ Head(posted) = StopTask
  /\ posted' = Tail(posted)
  /\ stopped' = TRUE
  /\ connected' = FALSE /\ connect_in_progress' = FALSE
  /\ write_in_progress' = FALSE /\ retry_pending' = FALSE
  /\ pending_frames' = pending_frames - Len(outbound)
  /\ pending_bytes' = pending_bytes - bytes(outbound)
  /\ outbound' = <<>>
  /\ old' = closed_wires /\ wire' = <<>> /\ alive' = FALSE
  /\ UNCHANGED <<sends, node_stopping, stop_requested, opVars, serverVars>>

(***************************************************************************)
(* The other end: Server::Connection reads whole frames and dispatches     *)
(* them.  Connections fail, and the other node may be down for a while.    *)
(***************************************************************************)
Receive ==
  /\ \/ /\ wire # <<>>
        /\ received' = Append(received, Head(wire))
        /\ wire' = Tail(wire) /\ UNCHANGED old
     \/ \E w \in old :
          /\ received' = Append(received, Head(w))
          /\ old' = (old \ {w}) \cup (IF Len(w) = 1 THEN {} ELSE {Tail(w)})
          /\ UNCHANGED wire
  /\ UNCHANGED <<sends, node_stopping, posted, queueVars, stopVars, flagVars,
                 opVars, alive, listening, faults>>

\* The connection is lost, or Connection::finish() closes it; an idle sender
\* does not notice.  The frames on it are gone, or the other end has them and
\* has yet to read them.
ConnectionLost ==
  /\ faults < MaxFaults /\ faults' = faults + 1
  /\ \/ alive /\ alive' = FALSE /\ wire' \in {<<>>, wire} /\ UNCHANGED old
     \/ \E w \in old : old' = old \ {w} /\ UNCHANGED <<alive, wire>>
  /\ UNCHANGED <<sends, node_stopping, posted, queueVars, stopVars, flagVars,
                 opVars, listening, received>>

\* The other node stops or dies, and is started again.
ServerDown ==
  /\ listening /\ faults < MaxFaults /\ faults' = faults + 1
  /\ listening' = FALSE /\ alive' = FALSE /\ wire' = <<>> /\ old' = {}
  /\ UNCHANGED <<sends, node_stopping, posted, queueVars, stopVars, flagVars,
                 opVars, received>>

ServerUp ==
  /\ ~listening /\ listening' = TRUE
  /\ UNCHANGED <<sends, node_stopping, posted, queueVars, stopVars, flagVars,
                 opVars, wireVars, faults, received>>

(***************************************************************************)
(* The specification.                                                      *)
(***************************************************************************)
Init ==
  /\ sends = 0 /\ node_stopping = FALSE
  /\ posted = <<>> /\ outbound = <<>>
  /\ pending_frames = 0 /\ pending_bytes = 0
  /\ stop_requested = FALSE /\ stopped = FALSE
  /\ connected = FALSE /\ connect_in_progress = FALSE
  /\ write_in_progress = FALSE /\ retry_pending = FALSE
  /\ resolving = FALSE /\ connecting = FALSE
  /\ writing = NoWrite /\ timing = FALSE
  /\ wire = <<>> /\ alive = FALSE /\ old = {}
  /\ listening \in BOOLEAN /\ faults = 0
  /\ received = <<>>

Next ==
  \/ \E s \in Stream \cup {NoStream}, z \in Size :
       Send([n |-> sends + 1, stream |-> s, size |-> z])
  \/ StopNode \/ StopPeer
  \/ DropFrame \/ ReplaceFrame \/ PushFrame \/ RunStop
  \/ ResolveDone \/ ConnectDone \/ FrameSent \/ WriteDone \/ RetryDone
  \/ Receive \/ ConnectionLost \/ ServerDown \/ ServerUp

Spec == Init /\ [][Next]_vars

\* Asio runs every posted task and completes every operation it was given, and
\* a node that stops tells its peers.  Nothing is asked of the other node or
\* of the network.
Fairness ==
  /\ WF_vars(StopPeer)
  /\ WF_vars(DropFrame \/ ReplaceFrame \/ PushFrame \/ RunStop)
  /\ WF_vars(ResolveDone) /\ WF_vars(ConnectDone)
  /\ WF_vars(FrameSent) /\ WF_vars(WriteDone) /\ WF_vars(RetryDone)

FairSpec == Spec /\ Fairness

(***************************************************************************)
(* What the transport promises.                                            *)
(***************************************************************************)
frames(q) == {q[k] : k \in {l \in 1 .. Len(q) : q[l] # StopTask}}

\* The type of every variable.
TypeOK ==
  /\ sends \in Nat /\ node_stopping \in BOOLEAN
  /\ posted \in Seq(Frame \cup {StopTask}) /\ outbound \in Seq(Frame)
  /\ pending_frames \in Nat /\ pending_bytes \in Nat
  /\ stop_requested \in BOOLEAN /\ stopped \in BOOLEAN
  /\ connected \in BOOLEAN /\ connect_in_progress \in BOOLEAN
  /\ write_in_progress \in BOOLEAN /\ retry_pending \in BOOLEAN
  /\ resolving \in BOOLEAN /\ connecting \in BOOLEAN /\ timing \in BOOLEAN
  /\ writing \in {NoWrite} \cup [frame : Frame, sent : BOOLEAN]
  /\ wire \in Seq(Frame) /\ alive \in BOOLEAN /\ old \subseteq Seq(Frame)
  /\ listening \in BOOLEAN /\ faults \in Nat /\ received \in Seq(Frame)

\* No wake-up is lost: while frames are queued something is under way that
\* will look at the queue again - a connection attempt, a retry timer or a
\* write (enqueue, connect, schedule_retry, write_next).
NeverStalls ==
  outbound # <<>> /\ ~stopping =>
    \/ connect_in_progress /\ (resolving \/ connecting)
    \/ retry_pending /\ timing
    \/ write_in_progress /\ writing # NoWrite

\* The admission counters, which the Raft loop reads, count exactly the frames
\* that the strand still holds, and the bytes of them, also while frames are
\* replaced, written and dropped (reserve, release, stop_now).
ReservationsExact ==
  /\ pending_frames = Cardinality(frames(posted)) + Len(outbound)
  /\ pending_bytes = bytes(posted) + bytes(outbound)
  /\ pending_frames <= kMaxPendingFrames /\ pending_bytes <= kMaxPendingBytes

\* Frames leave in the order in which they were sent, and the frame being
\* written is the head of the queue: replacing the last frame never moves a
\* frame across another (enqueue, write_next).
QueueInOrder ==
  LET q == outbound \o posted IN
  /\ \A k, l \in 1 .. Len(q) : k < l /\ q[l] # StopTask => q[k].n < q[l].n
  /\ write_in_progress => outbound # <<>> /\ writing.frame = Head(outbound)

\* What is handed to the transport is received at most once or lost; nothing
\* else is ever received.
network == INSTANCE Network WITH
  in_flight <- (frames(posted) \cup frames(outbound) \cup frames(wire)
                \cup UNION {frames(w) : w \in old}) \ frames(received)
ImplementsNetwork == network!Spec

\* If the other node is up for good, every frame that is queued gets out of
\* the queue: it is sent, replaced by a newer one, or dropped by a stop.
QueueDrains ==
  <>[]listening => \A k \in 1 .. MaxSends :
    (\E f \in frames(posted \o outbound) : f.n = k)
      ~> (\A f \in frames(posted \o outbound) : f.n # k)

\* A node that stops gets its peer loop to finish: no operation is left and
\* every reservation is released.
StopCompletes ==
  node_stopping ~> /\ posted = <<>> /\ pending_frames = 0 /\ pending_bytes = 0
                   /\ ~resolving /\ ~connecting /\ writing = NoWrite /\ ~timing

\* "Two communicating, healthy nodes can make progress": a node whose peer loop
\* has caught up is not stopped by what it cannot send to a third node that is
\* down (reserve, flush_raft_messages).
PeerDownIsHarmless ==
  [][~listening /\ posted = <<>> /\ ~node_stopping /\ sends' # sends
       => ~node_stopping']_vars
=============================================================================
