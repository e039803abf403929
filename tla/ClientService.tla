--------------------------- MODULE ClientService ---------------------------
(***************************************************************************)
(* The client side of a node: RespServer and the RespSession of every      *)
(* connection, and the part of NodeRuntime that turns commands into        *)
(* proposals and ReadIndex rounds, answers them, expires them, and stops   *)
(* the node.                                                               *)
(*                                                                         *)
(* Two threads.  raft_io_ runs raft_tasks in order; store_io_ runs         *)
(* store_tasks in order and, between them, the handlers of the server, of  *)
(* the sessions (each has a strand) and of the request timer.  Raft itself *)
(* is module Cluster; here it leads or not, commits what was proposed in   *)
(* order, loses proposals while it does not lead, and confirms reads.      *)
(*                                                                         *)
(* A command is its number in its connection and its kind: "PING" stands   *)
(* for every command answered at once, "GET" for reads, "SET" for writes.  *)
(***************************************************************************)
EXTENDS Integers, FiniteSets, FiniteSetsExt, SequencesExt

CONSTANTS
  Session,
  Kinds,          \* kinds of command the clients send
  MaxCommands,    \* bound: commands the clients send
  MaxChanges      \* bound: changes of leadership

ASSUME ClientAssumption ==
  /\ IsFiniteSet(Session) /\ Kinds \subseteq {"PING", "GET", "SET"}
  /\ MaxCommands \in Nat /\ MaxChanges \in Nat

VARIABLES
  sent, taken, delivered,       \* a client's commands, those read, its replies
  accepted, reading,            \* an async_read_some is under way
  pending_commands, awaiting_reply, active_request_id, write_in_progress, closed,
  write_buffer, strand,         \* strand: handlers posted to the session
  server,                       \* RespServer: "running", "stopping", "stopped"
  next_request_id, pending_writes, pending_reads, applied, store_tasks,
  raft_read_indexes, apply_in_flight, log, committed, leading, changes, raft_tasks,
  stopping

clientVars  == <<sent, taken, delivered>>
sessionVars == <<accepted, reading, pending_commands, awaiting_reply,
                 active_request_id, write_in_progress, closed, write_buffer>>
requestVars == <<next_request_id, pending_writes, pending_reads>>
raftVars    == <<raft_read_indexes, apply_in_flight, log, committed, leading, changes>>
vars == <<clientVars, sessionVars, strand, server, requestVars, applied,
          store_tasks, raftVars, raft_tasks, stopping>>

task(op, id) == [op |-> op, id |-> id]
Stop == task("stop", 0)
Nothing == 0   \* apply_in_flight_ without a value

Pending == pending_writes \cup pending_reads

\* A ReplyCallback was called: on_reply() is posted to the session's strand.
reply(r, answer) == [op |-> "reply", to |-> r, answer |-> answer]

\* The strands once the requests rs have got the answer.
answered(rs, answer) ==
  [s \in Session |->
     strand[s] \o SetToSeq({reply(r, answer) : r \in {q \in rs : q.session = s}})]

(***************************************************************************)
(* Stopping.  request_stop() is called from both threads; the first call   *)
(* posts stop_on_raft_loop() behind the tasks q of the Raft loop.          *)
(***************************************************************************)
request_stop(q) ==
  /\ stopping' = TRUE
  /\ raft_tasks' = IF stopping THEN q ELSE Append(q, Stop)

\* A termination signal.
Signal ==
  /\ ~stopping
  /\ request_stop(raft_tasks)
  /\ UNCHANGED <<clientVars, sessionVars, strand, server, requestVars, applied,
                 store_tasks, raftVars>>

(***************************************************************************)
(* RespSession.                                                            *)
(***************************************************************************)

\* Faulty variant: the id that means "no request" is given out.
AllocatesZero == next_request_id - 1

allocate_request_id == next_request_id

\* Faulty variant: the command dispatched stays in the queue.
KeepsFront(q) == q

pop_front(q) == Tail(q)

\* begin_write() and begin_read(): the request is registered, then posted.
begin(op, r) ==
  /\ next_request_id' = next_request_id + 1
  /\ raft_tasks' = Append(raft_tasks, task(op, r.id))
  /\ UNCHANGED strand

begin_write(r) ==
  /\ begin("propose", r)
  /\ pending_writes' = pending_writes \cup {r}
  /\ UNCHANGED pending_reads

begin_read(r) ==
  /\ begin("read_index", r)
  /\ pending_reads' = pending_reads \cup {r}
  /\ UNCHANGED pending_writes

handle_client_command(kind, r) ==
  \/ /\ kind = "PING"
     /\ strand' = answered({r}, "value")
     /\ UNCHANGED <<requestVars, raft_tasks>>
  \/ kind = "SET" /\ begin_write(r)
  \/ kind = "GET" /\ begin_read(r)

close(s) ==
  /\ closed' = [closed EXCEPT ![s] = TRUE]
  /\ reading' = [reading EXCEPT ![s] = FALSE]

\* dispatch_next() on an idle session s with the commands q: the next command,
\* or another read.  The handler throws on a command it does not know whose
\* name has a line break in it, and the session closes.
dispatch_next(s, q) ==
  \/ /\ q = <<>>
     /\ reading' = [reading EXCEPT ![s] = TRUE]
     /\ pending_commands' = [pending_commands EXCEPT ![s] = q]
     /\ UNCHANGED <<awaiting_reply, active_request_id, closed, strand, requestVars,
                    raft_tasks>>
  \/ /\ q # <<>>
     /\ pending_commands' = [pending_commands EXCEPT ![s] = pop_front(q)]
     /\ awaiting_reply' = [awaiting_reply EXCEPT ![s] = TRUE]
     /\ active_request_id' = [active_request_id EXCEPT ![s] = @ + 1]
     /\ \/ /\ handle_client_command(Head(q).kind,
               [id |-> IF Head(q).kind = "PING" THEN 0 ELSE allocate_request_id,
                session |-> s, request |-> active_request_id[s] + 1,
                number |-> Head(q).number])
           /\ reading' = [reading EXCEPT ![s] = FALSE]
           /\ UNCHANGED closed
        \/ /\ Head(q).kind = "PING"
           /\ close(s)
           /\ UNCHANGED <<strand, requestVars, raft_tasks>>

\* The client writes another command, pipelined or not.
ClientSend(s, kind) ==
  /\ accepted[s] /\ ~closed[s]
  /\ MapThenSumSet(LAMBDA c : Len(sent[c]), Session) < MaxCommands
  /\ sent' = [sent EXCEPT ![s] = Append(@, [number |-> Len(@) + 1, kind |-> kind])]
  /\ UNCHANGED <<taken, delivered, sessionVars, strand, server, requestVars, applied,
                 store_tasks, raftVars, raft_tasks, stopping>>

\* on_read(): the next k commands are decoded and the first dispatched.
OnRead(s, k) ==
  /\ reading[s] /\ k \in 1..Len(sent[s]) - taken[s]
  /\ taken' = [taken EXCEPT ![s] = @ + k]
  /\ dispatch_next(s, SubSeq(sent[s], taken[s] + 1, taken[s] + k))
  /\ UNCHANGED <<sent, delivered, accepted, write_in_progress, write_buffer,
                 server, applied, store_tasks, raftVars, stopping>>

\* on_read(): the client is gone, or what it sent is no command.
ReadFails(s) ==
  /\ reading[s]
  /\ close(s)
  /\ UNCHANGED <<clientVars, accepted, pending_commands, awaiting_reply,
                 active_request_id, write_in_progress, write_buffer, strand, server,
                 requestVars, applied, store_tasks, raftVars, raft_tasks, stopping>>

expected(s, h) ==
  ~closed[s] /\ awaiting_reply[s] /\ h.to.request = active_request_id[s]

\* The next handler of the session's strand: on_reply(), or close().
SessionHandler(s) ==
  /\ strand[s] # <<>>
  /\ strand' = [strand EXCEPT ![s] = Tail(@)]
  /\ LET h == Head(strand[s]) IN
     \/ /\ h.op = "stop"
        /\ close(s)
        /\ UNCHANGED <<awaiting_reply, write_in_progress, write_buffer>>
     \/ /\ h.op = "reply" /\ expected(s, h)
        /\ awaiting_reply' = [awaiting_reply EXCEPT ![s] = FALSE]
        /\ write_in_progress' = [write_in_progress EXCEPT ![s] = TRUE]
        /\ write_buffer' = [write_buffer EXCEPT ![s] = <<h>>]
        /\ UNCHANGED <<reading, closed>>
     \/ /\ h.op = "reply" /\ ~expected(s, h)
        /\ UNCHANGED <<reading, closed, awaiting_reply, write_in_progress, write_buffer>>
  /\ UNCHANGED <<clientVars, accepted, pending_commands, active_request_id, server,
                 requestVars, applied, store_tasks, raftVars, raft_tasks, stopping>>

\* The completion of async_write: the client has the reply, or the connection
\* failed.
WriteDone(s, ok) ==
  /\ write_in_progress[s]
  /\ write_in_progress' = [write_in_progress EXCEPT ![s] = FALSE]
  /\ write_buffer' = [write_buffer EXCEPT ![s] = <<>>]
  /\ delivered' = IF ok THEN [delivered EXCEPT ![s] = @ \o write_buffer[s]] ELSE delivered
  /\ \/ /\ ok /\ ~closed[s]
        /\ dispatch_next(s, pending_commands[s])
     \/ /\ ~ok \/ closed[s]
        /\ close(s)
        /\ UNCHANGED <<pending_commands, awaiting_reply, active_request_id, strand,
                       requestVars, raft_tasks>>
  /\ UNCHANGED <<sent, taken, accepted, server, applied, store_tasks, raftVars, stopping>>

(***************************************************************************)
(* RespServer.                                                             *)
(***************************************************************************)
Accept(s) ==
  /\ ~accepted[s] /\ server # "stopped"
  /\ accepted' = [accepted EXCEPT ![s] = TRUE]
  /\ reading' = [reading EXCEPT ![s] = TRUE]
  /\ UNCHANGED <<clientVars, pending_commands, awaiting_reply, active_request_id,
                 write_in_progress, closed, write_buffer, strand, server, requestVars,
                 applied, store_tasks, raftVars, raft_tasks, stopping>>

\* Faulty variant: only the acceptor is closed.
ForgetsSessions == {}

stopped_sessions == {s \in Session : accepted[s] /\ ~closed[s]}

\* stop_on_strand().
StopServer ==
  /\ server = "stopping" /\ server' = "stopped"
  /\ strand' = [s \in Session |->
       IF s \in stopped_sessions THEN Append(strand[s], Stop) ELSE strand[s]]
  /\ UNCHANGED <<clientVars, sessionVars, requestVars, applied, store_tasks, raftVars,
                 raft_tasks, stopping>>

(***************************************************************************)
(* The Raft loop.                                                          *)
(***************************************************************************)
tasks(op, ids) == SetToSeq({task(op, id) : id \in ids})

\* Faulty variant: a node that no longer leads also rejects its proposals.
RejectsProposals(reads) ==
  tasks("reject_read", reads) \o tasks("reject_write", Range(log))

rejections(reads) == tasks("reject_read", reads)

\* after_raft_activity() with the registered reads, the proposals lg of which
\* cm are committed, the role, the apply in flight, and the tasks q posted so
\* far: the next committed entry is handed over, and the reads are polled.
after_raft_activity(reads, lg, cm, leads, in_flight, q) ==
  LET dispatches == in_flight = Nothing /\ cm > 0
      posted == IF dispatches THEN Append(q, task("apply", Head(lg))) ELSE q IN
  /\ apply_in_flight' = IF dispatches THEN Head(lg) ELSE in_flight
  /\ log' = IF dispatches THEN Tail(lg) ELSE lg
  /\ committed' = IF dispatches THEN cm - 1 ELSE cm
  /\ leading' = leads
  /\ \/ /\ ~leads
        /\ raft_read_indexes' = {} /\ store_tasks' = posted \o rejections(reads)
     \/ /\ leads   \* the round is confirmed and applied: every read of it completes
        /\ raft_read_indexes' = {} /\ store_tasks' = posted \o tasks("complete_read", reads)
     \/ /\ leads
        /\ raft_read_indexes' = reads /\ store_tasks' = posted

\* The next task of the Raft loop is an op, which the loop still runs.
RunsRaftTask(op) ==
  /\ raft_tasks # <<>> /\ Head(raft_tasks).op = op /\ ~stopping
  /\ raft_tasks' = Tail(raft_tasks)

RunPropose ==
  /\ RunsRaftTask("propose")
  /\ LET id == Head(raft_tasks).id IN
     \/ /\ leading
        /\ after_raft_activity(raft_read_indexes, Append(log, id), committed, leading,
                               apply_in_flight, store_tasks)
     \/ /\ ~leading
        /\ after_raft_activity(raft_read_indexes, log, committed, leading, apply_in_flight,
                               Append(store_tasks, task("reject_write", id)))
  /\ UNCHANGED <<clientVars, sessionVars, strand, server, requestVars, applied, changes,
                 stopping>>

RunReadIndex ==
  /\ RunsRaftTask("read_index")
  /\ LET id == Head(raft_tasks).id IN
     \/ /\ leading
        /\ after_raft_activity(raft_read_indexes \cup {id}, log, committed, leading,
                               apply_in_flight, store_tasks)
     \/ /\ ~leading
        /\ after_raft_activity(raft_read_indexes, log, committed, leading, apply_in_flight,
                               Append(store_tasks, task("reject_read", id)))
  /\ UNCHANGED <<clientVars, sessionVars, strand, server, requestVars, applied, changes,
                 stopping>>

\* The WAL cannot be synchronized: the request is refused and the node stops.
\* A refused write may be in the file.
StorageFails ==
  /\ raft_tasks # <<>> /\ ~stopping /\ leading
  /\ \/ /\ Head(raft_tasks).op = "propose"
        /\ store_tasks' = Append(store_tasks, task("fail_write", Head(raft_tasks).id))
     \/ /\ Head(raft_tasks).op = "read_index"
        /\ store_tasks' = Append(store_tasks, task("reject_read", Head(raft_tasks).id))
  /\ request_stop(Tail(raft_tasks))
  /\ UNCHANGED <<clientVars, sessionVars, strand, server, requestVars, applied, raftVars>>

\* acknowledge_applied().
RunApplied ==
  /\ RunsRaftTask("applied")
  /\ after_raft_activity(raft_read_indexes, log, committed, leading, Nothing, store_tasks)
  /\ UNCHANGED <<clientVars, sessionVars, strand, server, requestVars, applied, changes,
                 stopping>>

\* cancel_raft_read(), which runs on a stopping node too.
RunCancel ==
  /\ raft_tasks # <<>> /\ Head(raft_tasks).op = "cancel"
  /\ raft_tasks' = Tail(raft_tasks)
  /\ raft_read_indexes' = raft_read_indexes \ {Head(raft_tasks).id}
  /\ UNCHANGED <<clientVars, sessionVars, strand, server, requestVars, applied,
                 store_tasks, apply_in_flight, log, committed, leading, changes, stopping>>

\* A stopping node runs its other tasks to no effect.
SkipTask ==
  /\ raft_tasks # <<>> /\ stopping
  /\ Head(raft_tasks).op \in {"propose", "read_index", "applied"}
  /\ raft_tasks' = Tail(raft_tasks)
  /\ UNCHANGED <<clientVars, sessionVars, strand, server, requestVars, applied,
                 store_tasks, raftVars, stopping>>

\* stop_on_raft_loop().
RunStop ==
  /\ raft_tasks # <<>> /\ Head(raft_tasks) = Stop
  /\ raft_tasks' = Tail(raft_tasks)
  /\ store_tasks' = Append(store_tasks, Stop)
  /\ UNCHANGED <<clientVars, sessionVars, strand, server, requestVars, applied, raftVars,
                 stopping>>

\* A tick or a message changes the role, advances the commit index, drops a
\* proposal another leader has overwritten, or only confirms reads.
RaftStep ==
  /\ ~stopping
  /\ \/ /\ changes < MaxChanges /\ changes' = changes + 1
        /\ after_raft_activity(raft_read_indexes, log, committed, ~leading,
                               apply_in_flight, store_tasks)
     \/ /\ committed < Len(log) /\ UNCHANGED changes
        /\ after_raft_activity(raft_read_indexes, log, committed + 1, leading,
                               apply_in_flight, store_tasks)
     \/ /\ committed < Len(log) /\ ~leading /\ UNCHANGED changes
        /\ after_raft_activity(raft_read_indexes, Front(log), committed, leading,
                               apply_in_flight, store_tasks)
     \/ /\ raft_read_indexes # {} /\ UNCHANGED changes
        /\ after_raft_activity(raft_read_indexes, log, committed, leading,
                               apply_in_flight, store_tasks)
  /\ UNCHANGED <<clientVars, sessionVars, strand, server, requestVars, applied,
                 raft_tasks, stopping>>

(***************************************************************************)
(* The store loop.                                                         *)
(***************************************************************************)
requested(id) == {r \in Pending : r.id = id}

\* reject_write(), reject_read(), complete_write(), complete_read(): a request
\* that is no longer pending is ignored.
finish(rs, answer) ==
  /\ pending_writes' = pending_writes \ rs
  /\ pending_reads' = pending_reads \ rs
  /\ strand' = answered(rs, answer)
  /\ UNCHANGED next_request_id

\* Faulty variant: the readers are forgotten.
TellsWriters == pending_writes

told_at_stop == Pending

RunStoreTask ==
  /\ store_tasks # <<>> /\ store_tasks' = Tail(store_tasks)
  /\ LET t == Head(store_tasks) IN
     \/ /\ t.op \in {"reject_write", "reject_read"}
        /\ finish(requested(t.id), "NOT_LEADER")
        /\ UNCHANGED <<applied, raft_tasks, server>>
     \/ /\ t.op = "fail_write"
        /\ finish(requested(t.id), "TRYAGAIN")
        /\ UNCHANGED <<applied, raft_tasks, server>>
     \/ /\ t.op = "complete_read"
        /\ finish(requested(t.id), "value")
        /\ UNCHANGED <<applied, raft_tasks, server>>
     \/ /\ t.op = "apply" /\ ~stopping   \* apply_committed_entry()
        /\ applied' = applied \cup {t.id}
        /\ finish(requested(t.id), "OK")
        /\ raft_tasks' = Append(raft_tasks, task("applied", t.id))
        /\ UNCHANGED server
     \/ /\ t.op = "apply" /\ stopping
        /\ UNCHANGED <<requestVars, strand, applied, raft_tasks, server>>
     \/ /\ t = Stop
        /\ pending_writes' = {} /\ pending_reads' = {}
        /\ strand' = answered(told_at_stop, "TRYAGAIN")
        /\ server' = "stopping"
        /\ UNCHANGED <<next_request_id, applied, raft_tasks>>
  /\ UNCHANGED <<clientVars, sessionVars, raftVars, stopping>>

\* Faulty variant: only the deadlines of writes are looked at.
PollsWrites == pending_writes

polled == Pending

\* Faulty variant: the Raft loop is not told of a read that expired.
NeverCancels(r) == <<>>

cancellation(r) ==
  IF r \in pending_reads THEN <<task("cancel", r.id)>> ELSE <<>>

\* expire_client_requests(): the deadline of request id has passed.
Expire(id) ==
  /\ ~stopping
  /\ \E r \in polled :
       /\ r.id = id
       /\ finish({r}, "TRYAGAIN")
       /\ raft_tasks' = raft_tasks \o cancellation(r)
  /\ UNCHANGED <<clientVars, sessionVars, server, applied, store_tasks, raftVars,
                 stopping>>

RequestId == 1..MaxCommands

\* A node that has just become leader, before its first client connects.
Init ==
  /\ sent = [s \in Session |-> <<>>] /\ taken = [s \in Session |-> 0]
  /\ delivered = [s \in Session |-> <<>>]
  /\ accepted = [s \in Session |-> FALSE] /\ reading = [s \in Session |-> FALSE]
  /\ pending_commands = [s \in Session |-> <<>>]
  /\ awaiting_reply = [s \in Session |-> FALSE]
  /\ active_request_id = [s \in Session |-> 0]
  /\ write_in_progress = [s \in Session |-> FALSE]
  /\ closed = [s \in Session |-> FALSE] /\ write_buffer = [s \in Session |-> <<>>]
  /\ strand = [s \in Session |-> <<>>] /\ server = "running"
  /\ next_request_id = 1 /\ pending_writes = {} /\ pending_reads = {}
  /\ applied = {} /\ store_tasks = <<>>
  /\ raft_read_indexes = {} /\ apply_in_flight = Nothing
  /\ log = <<>> /\ committed = 0 /\ leading = TRUE /\ changes = 0
  /\ raft_tasks = <<>> /\ stopping = FALSE

RaftLoop ==
  RunPropose \/ RunReadIndex \/ StorageFails \/ RunApplied \/ RunCancel \/ SkipTask \/ RunStop

Next ==
  \/ \E s \in Session :
       \/ Accept(s) \/ SessionHandler(s) \/ ReadFails(s)
       \/ \E kind \in Kinds : ClientSend(s, kind)
       \/ \E k \in 1..MaxCommands : OnRead(s, k)
       \/ \E ok \in BOOLEAN : WriteDone(s, ok)
  \/ RaftLoop \/ RaftStep \/ RunStoreTask \/ StopServer \/ Signal
  \/ \E id \in RequestId : Expire(id)

\* Both loops run what is posted to them, the strands too, and the request
\* timer fires again and again.  Nothing is assumed of Raft or of the clients.
Fairness ==
  /\ WF_vars(RaftLoop) /\ WF_vars(RunStoreTask) /\ WF_vars(StopServer)
  /\ \A s \in Session : WF_vars(SessionHandler(s))
  /\ \A id \in RequestId : WF_vars(Expire(id))

Spec == Init /\ [][Next]_vars /\ Fairness

(***************************************************************************)
(* Properties.                                                             *)
(***************************************************************************)

\* The state is what the fields of RespSession and NodeRuntime can hold; a
\* request has a non-zero id.
TypeOK ==
  /\ \A s \in Session :
       /\ taken[s] \in 0..Len(sent[s])
       /\ Len(pending_commands[s]) <= taken[s]
       /\ active_request_id[s] \in 0..MaxCommands
       /\ \A x \in {accepted, reading, awaiting_reply, write_in_progress, closed} :
            x[s] \in BOOLEAN
  /\ server \in {"running", "stopping", "stopped"}
  /\ \A r \in Pending : r.id \in RequestId /\ r.session \in Session
  /\ raft_read_indexes \subseteq RequestId /\ Range(log) \subseteq RequestId
  /\ committed \in 0..Len(log) /\ apply_in_flight \in RequestId \cup {Nothing}
  /\ leading \in BOOLEAN /\ stopping \in BOOLEAN

\* A client gets the replies of its commands in the order of the commands, one
\* for each, however they were pipelined and whichever of them timed out.
RepliesInOrder ==
  \A s \in Session : \A i \in 1..Len(delivered[s]) : delivered[s][i].to.number = i

\* A session that waits for a reply on an open connection will get exactly one:
\* its request is pending once, or its reply is posted once, across expiry,
\* completion, rejection and shutdown, which race for it.
RequestsAccounted ==
  \A s \in Session :
    awaiting_reply[s] /\ ~closed[s] =>
      LET mine(r) == r.session = s /\ r.request = active_request_id[s]
          posted == SelectSeq(strand[s], LAMBDA h : h.op = "reply" /\ mine(h.to)) IN
      Cardinality({r \in Pending : mine(r)}) + Len(posted) = 1

\* What a client is told of a write is true: OK only once the write is applied,
\* and NOT_LEADER only of a write that is not in the log of this node, so that
\* it is safe to send it again.  Anything else is TRYAGAIN.
OutcomesTruthful ==
  \A s \in Session : \A h \in Range(delivered[s]) :
    /\ h.answer = "OK" => h.to.id \in applied
    /\ h.answer = "NOT_LEADER" =>
         h.to.id \notin applied \cup Range(log) \cup {apply_in_flight}

\* A read registered on the Raft loop has a client that waits for it, or an
\* answer or a cancellation on its way: none keeps a ReadIndex round alive for
\* ever.
NoOrphanReads ==
  \A id \in raft_read_indexes :
    stopping \/ requested(id) # {} \/ task("cancel", id) \in Range(raft_tasks)

\* Every command dispatched is answered, or its connection closed, even if Raft
\* never commits anything again, and even if the node stops meanwhile.
EveryRequestAnswered ==
  \A s \in Session : awaiting_reply[s] ~> (~awaiting_reply[s] \/ closed[s])

\* A node told to stop closes every connection it has accepted, for good.
StopsClean == stopping ~> [](\A s \in Session : accepted[s] => closed[s])
=============================================================================
