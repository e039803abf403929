-------------------------- MODULE TransportProofs --------------------------
(***************************************************************************)
(* The queue of a peer never waits for nothing and keeps its order, and    *)
(* the transport implements the network that the cluster assumes.          *)
(*                                                                         *)
(* The argument for the first.  A flag of Peer::Impl is set exactly while  *)
(* the operation it stands for is under way, of connecting, waiting and    *)
(* writing at most one is, and each handler that ends one starts another   *)
(* if the queue is not empty.                                              *)
(***************************************************************************)
EXTENDS Transport, SequenceTheorems, TLAPS

\* The types that the argument needs.
FlagTypes ==
  /\ connected \in BOOLEAN /\ connect_in_progress \in BOOLEAN
  /\ write_in_progress \in BOOLEAN /\ retry_pending \in BOOLEAN
  /\ resolving \in BOOLEAN /\ connecting \in BOOLEAN /\ timing \in BOOLEAN
  /\ stopped \in BOOLEAN /\ stop_requested \in BOOLEAN
  /\ writing = NoWrite \/ writing = [frame |-> writing.frame, sent |-> writing.sent]
QueueTypes ==
  /\ sends \in Nat
  /\ outbound \in Seq(Frame) /\ posted \in Seq(Frame \cup {StopTask})

\* The inductive invariant behind NeverStalls.
FlagsMatch ==
  /\ connect_in_progress <=> resolving \/ connecting
  /\ ~(resolving /\ connecting)
  /\ retry_pending <=> timing
  /\ write_in_progress <=> writing # NoWrite
OneAtATime ==
  /\ write_in_progress => connected /\ outbound # <<>>
  /\ connect_in_progress => ~connected /\ ~retry_pending
  /\ retry_pending => ~connected
SomeoneLooks ==
  outbound # <<>> => connect_in_progress \/ retry_pending \/ write_in_progress
Awake == ~stopping => FlagsMatch /\ OneAtATime /\ SomeoneLooks
WakeInv == FlagTypes /\ QueueTypes /\ Awake

\* A write under way is told from none.
LEMMA WritesAreSomething ==
  ASSUME NEW f, NEW b
  PROVE  [frame |-> f, sent |-> b] # NoWrite
  BY SMT DEF NoWrite

\* What is pushed, popped and replaced at the end of a queue.
LEMMA QueueFacts ==
  ASSUME NEW S, NEW q \in Seq(S)
  PROVE  /\ \A x \in S : Append(q, x) \in Seq(S) /\ Append(q, x) # <<>>
         /\ q # <<>> => Tail(q) \in Seq(S) /\ Head(q) \in S
         /\ q # <<>> => \A x \in S : /\ [q EXCEPT ![Len(q)] = x] \in Seq(S)
                                     /\ [q EXCEPT ![Len(q)] = x] # <<>>
<1>1. \A x \in S : Append(q, x) \in Seq(S) /\ Append(q, x) # <<>>
  BY AppendProperties
<1>2. q # <<>> => Tail(q) \in Seq(S) /\ Head(q) \in S
  BY HeadTailProperties
<1>3. ASSUME q # <<>>, NEW x \in S
      PROVE  /\ [q EXCEPT ![Len(q)] = x] \in Seq(S)
             /\ [q EXCEPT ![Len(q)] = x] # <<>>
  <2>1. Len(q) \in 1 .. Len(q)
    BY <1>3, EmptySeq, LenProperties, SMT
  <2>2. [q EXCEPT ![Len(q)] = x] \in Seq(S) /\ Len([q EXCEPT ![Len(q)] = x]) = Len(q)
    BY <2>1, ExceptSeq
  <2>3. Len(q) # Len(<<>>)
    BY <2>1, EmptySeq, SMT
  <2> QED BY <2>2, <2>3
<1> QED BY <1>1, <1>2, <1>3

\* What a step may do to the tasks posted.
LEMMA PostedFacts ==
  ASSUME QueueTypes
  PROVE  /\ \A x \in Frame \cup {StopTask} : Append(posted, x) \in Seq(Frame \cup {StopTask})
         /\ posted # <<>> => Tail(posted) \in Seq(Frame \cup {StopTask})
         /\ RunsFrame => Head(posted) \in Frame
<1>1. posted \in Seq(Frame \cup {StopTask})
  BY DEF QueueTypes
<1>2. posted # <<>> => Head(posted) \in Frame \cup {StopTask}
  BY <1>1, QueueFacts, Zenon
<1> QED BY <1>1, <1>2, QueueFacts, Zenon DEF RunsFrame

\* The same for the outbound queue.
LEMMA OutboundFacts ==
  ASSUME QueueTypes
  PROVE  /\ \A x \in Frame : Append(outbound, x) \in Seq(Frame) /\ Append(outbound, x) # <<>>
         /\ outbound # <<>> => Tail(outbound) \in Seq(Frame)
         /\ outbound # <<>> =>
              \A x \in Frame : /\ [outbound EXCEPT ![Len(outbound)] = x] \in Seq(Frame)
                              /\ [outbound EXCEPT ![Len(outbound)] = x] # <<>>
  BY QueueFacts, Zenon DEF QueueTypes

\* Every step keeps the types of the queues.
LEMMA StepQueueTypes ==
  ASSUME WakeInv, Next
  PROVE  QueueTypes'
<1> USE PostedFacts, OutboundFacts DEF WakeInv
<1>1. ASSUME NEW s \in Stream \cup {NoStream}, NEW z \in Size,
             Send([n |-> sends + 1, stream |-> s, size |-> z])
      PROVE  QueueTypes'
  <2> DEFINE f == [n |-> sends + 1, stream |-> s, size |-> z]
  <2>1. f \in Frame /\ sends + 1 \in Nat
    BY DEF Frame, QueueTypes
  <2> HIDE DEF f
  <2>2. sends' = sends + 1 /\ outbound' = outbound
        /\ posted' \in {posted, Append(posted, f)}
    BY <1>1 DEF Send, f
  <2> QED BY <2>1, <2>2 DEF QueueTypes
<1>2. CASE StopPeer
  BY <1>2 DEF StopPeer, queueVars, QueueTypes
<1>3. CASE DropFrame
  BY <1>3 DEF DropFrame, RunsFrame, QueueTypes
<1>4. CASE ReplaceFrame
  BY <1>4 DEF ReplaceFrame, RunsFrame, replaces, QueueTypes
<1>5. CASE PushFrame
  BY <1>5 DEF PushFrame, RunsFrame, QueueTypes
<1>6. CASE RunStop
  BY <1>6 DEF RunStop, QueueTypes
<1>7. CASE WriteDone
  BY <1>7 DEF WriteDone, queueVars, QueueTypes, Awake, FlagsMatch, OneAtATime
<1>8. CASE StopNode \/ ResolveDone \/ ConnectDone \/ FrameSent \/ RetryDone
           \/ Receive \/ ConnectionLost \/ ServerDown \/ ServerUp
  BY <1>8 DEF StopNode, ResolveDone, ConnectDone, FrameSent, RetryDone, Receive,
              ConnectionLost, ServerDown, ServerUp, queueVars, QueueTypes
<1> QED BY <1>1, <1>2, <1>3, <1>4, <1>5, <1>6, <1>7, <1>8 DEF Next

\* The steps of the Raft loop and of the outside do not touch the connection.
Aside ==
  \/ \E s \in Stream \cup {NoStream}, z \in Size :
       Send([n |-> sends + 1, stream |-> s, size |-> z])
  \/ StopNode \/ DropFrame \/ Receive \/ ConnectionLost \/ ServerDown \/ ServerUp

\* They leave the flags, the operations and the queue alone.
LEMMA AsideKeepsFlags ==
  ASSUME Aside
  PROVE  /\ UNCHANGED <<connected, connect_in_progress, write_in_progress, retry_pending>>
         /\ UNCHANGED <<resolving, connecting, writing, timing>>
         /\ UNCHANGED <<stop_requested, stopped, outbound>>
<1> USE DEF stopVars, flagVars, opVars, queueVars
<1>1. CASE \E s \in Stream \cup {NoStream}, z \in Size :
             Send([n |-> sends + 1, stream |-> s, size |-> z])
  BY <1>1, Zenon DEF Send
<1>2. CASE StopNode
  BY <1>2 DEF StopNode
<1>3. CASE DropFrame
  BY <1>3 DEF DropFrame
<1>4. CASE Receive
  BY <1>4 DEF Receive
<1>5. CASE ConnectionLost \/ ServerDown \/ ServerUp
  BY <1>5 DEF ConnectionLost, ServerDown, ServerUp
<1> QED BY <1>1, <1>2, <1>3, <1>4, <1>5 DEF Aside

\* Every step keeps the types of the flags.
LEMMA StepFlagTypes ==
  ASSUME FlagTypes, Next
  PROVE  FlagTypes'
<1> USE DEF FlagTypes, stopVars, flagVars, opVars, write_next, connect, schedule_retry
<1>1. CASE Aside
  BY <1>1, AsideKeepsFlags
<1>10. CASE FrameSent
  BY <1>10 DEF FrameSent
<1>2. CASE StopPeer
  BY <1>2 DEF StopPeer
<1>3. CASE ReplaceFrame
  BY <1>3 DEF ReplaceFrame
<1>4. CASE PushFrame
  BY <1>4 DEF PushFrame
<1>5. CASE RunStop
  BY <1>5 DEF RunStop
<1>6. CASE ResolveDone
  BY <1>6 DEF ResolveDone
<1>7. CASE ConnectDone
  <2>1. UNCHANGED <<stop_requested, stopped, resolving>>
        /\ ~connecting' /\ ~connect_in_progress'
    BY <1>7 DEF ConnectDone
  <2>2. CASE UNCHANGED <<connected, write_in_progress, writing, retry_pending, timing>>
    BY <1>7, <2>1, <2>2 DEF ConnectDone
  <2>3. CASE ~connected' /\ ~write_in_progress' /\ schedule_retry /\ writing' = writing
    BY <1>7, <2>1, <2>3 DEF ConnectDone
  <2>4. CASE connected' /\ write_next(outbound, TRUE, write_in_progress)
             /\ UNCHANGED <<retry_pending, timing>>
    BY <1>7, <2>1, <2>4 DEF ConnectDone
  <2> QED BY <1>7, <2>2, <2>3, <2>4 DEF ConnectDone
<1>8. CASE WriteDone
  <2>1. UNCHANGED <<stop_requested, stopped, connect_in_progress, resolving, connecting>>
    BY <1>8 DEF WriteDone
  <2>2. CASE ~write_in_progress' /\ writing' = NoWrite
    BY <1>8, <2>1, <2>2 DEF WriteDone
  <2>3. CASE write_next(Tail(outbound), connected, FALSE)
             /\ UNCHANGED <<connected, retry_pending, timing>>
    BY <2>1, <2>3
  <2> QED BY <1>8, <2>2, <2>3 DEF WriteDone
<1>9. CASE RetryDone
  BY <1>9 DEF RetryDone
<1> QED BY <1>1, <1>2, <1>3, <1>4, <1>5, <1>6, <1>7, <1>8, <1>9, <1>10, Zenon DEF Next, Aside

\* Every step leaves someone to look at the queue.
LEMMA StepAwake ==
  ASSUME WakeInv, Next
  PROVE  Awake'
<1> SUFFICES ASSUME ~stopping'
             PROVE  FlagsMatch' /\ OneAtATime' /\ SomeoneLooks'
  BY DEF Awake
<1>1. stopped' = FALSE /\ stop_requested' = FALSE /\ ~stopping
      /\ FlagsMatch /\ OneAtATime /\ SomeoneLooks
  <2>1. stopped => stopped'
    BY Zenon DEF Next, Send, StopNode, StopPeer, DropFrame, ReplaceFrame, PushFrame, RunStop,
          ResolveDone, ConnectDone, FrameSent, WriteDone, RetryDone, Receive,
          ConnectionLost, ServerDown, ServerUp, stopVars
  <2>2. stop_requested => stop_requested'
    BY Zenon DEF Next, Send, StopNode, StopPeer, DropFrame, ReplaceFrame, PushFrame, RunStop,
          ResolveDone, ConnectDone, FrameSent, WriteDone, RetryDone, Receive,
          ConnectionLost, ServerDown, ServerUp, stopVars
  <2>3. FlagTypes'
    BY StepFlagTypes DEF WakeInv
  <2> QED BY <2>1, <2>2, <2>3, Zenon DEF stopping, WakeInv, Awake, FlagTypes
<1> USE <1>1 DEF FlagsMatch, OneAtATime, SomeoneLooks, flagVars, opVars, queueVars
<1>2. CASE Aside
  BY <1>2, AsideKeepsFlags
<1>3. CASE StopPeer \/ RunStop
  BY <1>3 DEF StopPeer, RunStop
<1>4. CASE ReplaceFrame
  BY <1>4, PostedFacts, OutboundFacts, WritesAreSomething
  DEF ReplaceFrame, replaces, write_next, WakeInv, FlagTypes
<1>5. CASE PushFrame
  BY <1>5, PostedFacts, OutboundFacts, WritesAreSomething
  DEF PushFrame, write_next, connect, WakeInv, FlagTypes
<1>6. CASE ResolveDone
  <2>1. UNCHANGED <<connected, write_in_progress, writing, outbound>> /\ resolving /\ ~resolving'
    BY <1>6 DEF ResolveDone
  <2>2. CASE ~connect_in_progress' /\ schedule_retry /\ connecting' = connecting
    BY <2>1, <2>2 DEF schedule_retry, WakeInv, FlagTypes
  <2>3. CASE connecting' /\ UNCHANGED <<connect_in_progress, retry_pending, timing>>
    BY <2>1, <2>3 DEF WakeInv, FlagTypes
  <2> QED BY <1>6, <2>2, <2>3 DEF ResolveDone
<1>7. CASE ConnectDone
  <2>1. UNCHANGED <<resolving, outbound>> /\ connecting
        /\ ~connecting' /\ ~connect_in_progress'
    BY <1>7 DEF ConnectDone
  <2>2. CASE ~connected' /\ ~write_in_progress' /\ schedule_retry /\ writing' = writing
    BY <2>1, <2>2 DEF schedule_retry, WakeInv, FlagTypes
  <2>3. CASE connected' /\ write_next(outbound, TRUE, write_in_progress)
             /\ UNCHANGED <<retry_pending, timing>>
    BY <2>1, <2>3, WritesAreSomething DEF write_next, WakeInv, FlagTypes
  <2> QED BY <1>7, <2>2, <2>3 DEF ConnectDone
<1>8. CASE FrameSent
  BY <1>8, WritesAreSomething DEF FrameSent, WakeInv, FlagTypes
<1>9. CASE WriteDone
  BY <1>9, WritesAreSomething
  DEF WriteDone, schedule_retry, write_next, WakeInv, FlagTypes
<1>10. CASE RetryDone
  BY <1>10 DEF RetryDone, connect, WakeInv, FlagTypes
<1> QED BY <1>2, <1>3, <1>4, <1>5, <1>6, <1>7, <1>8, <1>9, <1>10, Zenon DEF Next, Aside

\* The inductive invariant holds at first.
LEMMA InitWake ==
  ASSUME Init
  PROVE  WakeInv
<1>1. FlagTypes
  BY DEF Init, FlagTypes
<1>2. QueueTypes
  BY EmptySeq DEF Init, QueueTypes
<1>3. Awake
  BY DEF Init, Awake, FlagsMatch, OneAtATime, SomeoneLooks
<1> QED BY <1>1, <1>2, <1>3 DEF WakeInv

\* Every step keeps the inductive invariant.
LEMMA StepWake ==
  ASSUME WakeInv, [Next]_vars
  PROVE  WakeInv'
<1>1. CASE Next
  BY <1>1, StepFlagTypes, StepQueueTypes, StepAwake, Zenon DEF WakeInv
<1>2. CASE UNCHANGED vars
  BY <1>2 DEF vars, queueVars, stopVars, flagVars, opVars, WakeInv, FlagTypes,
     QueueTypes, Awake, FlagsMatch, OneAtATime, SomeoneLooks, stopping
<1> QED BY <1>1, <1>2

\* No wake-up is lost, for any limits of the queue, any frames and any number
\* of faults: while a frame is queued, an attempt to connect, a retry timer or
\* a write is under way whose handler looks at the queue (enqueue, connect,
\* schedule_retry, write_next and the handlers of their operations).
THEOREM QueueNeverStalls == Spec => []NeverStalls
<1>1. Init => WakeInv
  BY InitWake
<1>2. WakeInv /\ [Next]_vars => WakeInv'
  BY StepWake
<1>3. WakeInv => NeverStalls
  BY DEF WakeInv, Awake, FlagsMatch, SomeoneLooks, NeverStalls
<1> QED BY <1>1, <1>2, <1>3, PTL DEF Spec

(***************************************************************************)
(* The order of the queue.  The calls of send() are numbered: the numbers  *)
(* grow along the queue and along the tasks posted behind it.              *)
(***************************************************************************)
Numbered ==
  /\ \A k \in 1 .. Len(outbound) : outbound[k].n <= sends
  /\ \A k \in 1 .. Len(posted) : posted[k].n <= sends
Growing ==
  /\ \A k, l \in 1 .. Len(outbound) : k < l => outbound[k].n < outbound[l].n
  /\ \A k, l \in 1 .. Len(posted) :
       k < l /\ posted[l] # StopTask => posted[k].n < posted[l].n
  /\ \A k \in 1 .. Len(outbound), l \in 1 .. Len(posted) :
       posted[l] # StopTask => outbound[k].n < posted[l].n
WritesHead == write_in_progress => outbound # <<>> /\ writing.frame = Head(outbound)
OrderInv == Numbered /\ Growing

\* Every element has a number.
LEMMA ElementTypes ==
  ASSUME QueueTypes
  PROVE  /\ Len(outbound) \in Nat /\ Len(posted) \in Nat
         /\ \A k \in 1 .. Len(outbound) : outbound[k] \in Frame /\ outbound[k].n \in Nat
         /\ \A k \in 1 .. Len(posted) : posted[k].n \in Nat
<1>1. \A k \in 1 .. Len(outbound) : outbound[k] \in Frame
  BY ElementOfSeq DEF QueueTypes
<1>2. \A k \in 1 .. Len(posted) : posted[k] \in Frame \cup {StopTask}
  BY ElementOfSeq DEF QueueTypes
<1>3. Len(outbound) \in Nat /\ Len(posted) \in Nat
  BY LenProperties DEF QueueTypes
<1> QED BY <1>1, <1>2, <1>3 DEF Frame, StopTask

\* A task is posted behind the others.
LEMMA PostKeepsOrder ==
  ASSUME QueueTypes, OrderInv, NEW x \in Frame \cup {StopTask},
         posted' = Append(posted, x), outbound' = outbound, sends' \in Nat,
         \/ x = StopTask /\ sends' = sends
         \/ x.n = sends + 1 /\ sends' = sends + 1
  PROVE  OrderInv'
<1>1. /\ Len(posted') = Len(posted) + 1
      /\ \A k \in 1 .. Len(posted) : posted'[k] = posted[k]
      /\ posted'[Len(posted) + 1] = x
  BY AppendProperties DEF QueueTypes
<1>2. x.n \in Nat /\ StopTask.n = 0
  BY DEF Frame, StopTask
<1>3. Numbered'
  BY <1>1, <1>2, ElementTypes DEF OrderInv, Numbered, QueueTypes
<1>4. Growing'
  BY SMTT(60), <1>1, <1>2, ElementTypes DEF OrderInv, Numbered, Growing, QueueTypes
<1> QED BY <1>3, <1>4 DEF OrderInv

\* A task is run: its frame is dropped, pushed, or put in the place of the last.
LEMMA RunKeepsOrder ==
  ASSUME QueueTypes, OrderInv, posted # <<>>, posted' = Tail(posted), sends' = sends,
         \/ outbound' \in {outbound, <<>>}
         \/ Head(posted) \in Frame /\ outbound' = Append(outbound, Head(posted))
         \/ /\ Head(posted) \in Frame /\ outbound # <<>>
            /\ outbound' = [outbound EXCEPT ![Len(outbound)] = Head(posted)]
  PROVE  OrderInv'
<1> DEFINE f == Head(posted)
<1>1. /\ Len(posted') = Len(posted) - 1 /\ Len(posted) \in Nat \ {0} /\ f = posted[1]
      /\ \A k \in 1 .. Len(posted') : posted'[k] = posted[k + 1]
  BY HeadTailProperties, EmptySeq, LenProperties DEF QueueTypes
<1>2. f \in Frame => f # StopTask
  BY TransportAssumption DEF Frame, StopTask
<1> HIDE DEF f
<1>3. CASE outbound' \in {outbound, <<>>}
  <2>1. \A k \in 1 .. Len(outbound') : k \in 1 .. Len(outbound) /\ outbound'[k] = outbound[k]
    BY <1>3, EmptySeq
  <2>2. \A k \in 1 .. Len(posted') : k + 1 \in 1 .. Len(posted) /\ posted'[k] = posted[k + 1]
    BY <1>1
  <2>3. Numbered'
    BY <2>1, <2>2 DEF OrderInv, Numbered
  <2>4. \A k, l \in 1 .. Len(posted') :
          k < l /\ posted'[l] # StopTask => posted'[k].n < posted'[l].n
    BY <2>2 DEF OrderInv, Growing
  <2>5. /\ \A k, l \in 1 .. Len(outbound') : k < l => outbound'[k].n < outbound'[l].n
        /\ \A k \in 1 .. Len(outbound'), l \in 1 .. Len(posted') :
             posted'[l] # StopTask => outbound'[k].n < posted'[l].n
    BY <2>1, <2>2 DEF OrderInv, Growing
  <2> QED BY <2>3, <2>4, <2>5 DEF OrderInv, Growing
<1>4. CASE f \in Frame /\ outbound' = Append(outbound, f)
  <2>1. /\ Len(outbound') = Len(outbound) + 1 /\ outbound'[Len(outbound) + 1] = f
        /\ \A k \in 1 .. Len(outbound) : outbound'[k] = outbound[k]
    BY <1>4, AppendProperties DEF QueueTypes
  <2> QED BY <1>1, <1>2, <1>4, <2>1, ElementTypes DEF OrderInv, Numbered, Growing
<1>5. CASE /\ f \in Frame /\ outbound # <<>>
           /\ outbound' = [outbound EXCEPT ![Len(outbound)] = f]
  <2>1. Len(outbound) \in 1 .. Len(outbound)
    BY <1>5, EmptySeq, LenProperties DEF QueueTypes
  <2>2. /\ Len(outbound') = Len(outbound)
        /\ \A k \in 1 .. Len(outbound) :
             outbound'[k] = IF k = Len(outbound) THEN f ELSE outbound[k]
    BY <1>5, <2>1, ExceptSeq DEF QueueTypes
  <2>0. f.n <= sends /\ \A k \in 1 .. Len(outbound) : outbound[k].n < f.n
    BY <1>1, <1>2, <1>5 DEF OrderInv, Numbered, Growing
  <2>3. Numbered'
    <3>1. \A k \in 1 .. Len(outbound') : outbound'[k].n <= sends'
      BY <2>0, <2>2 DEF OrderInv, Numbered
    <3>2. \A k \in 1 .. Len(posted') : posted'[k].n <= sends'
      BY <1>1 DEF OrderInv, Numbered
    <3> QED BY <3>1, <3>2 DEF Numbered
  <2>4. \A k, l \in 1 .. Len(outbound') : k < l => outbound'[k].n < outbound'[l].n
    <3> SUFFICES ASSUME NEW k \in 1 .. Len(outbound), NEW l \in 1 .. Len(outbound), k < l
                 PROVE  outbound'[k].n < outbound'[l].n
      BY <2>2
    <3>1. k # Len(outbound) /\ outbound'[k] = outbound[k]
      BY <2>1, <2>2
    <3>2. CASE l = Len(outbound)
      BY <2>0, <2>2, <3>1, <3>2
    <3>3. CASE l # Len(outbound)
      BY <2>2, <3>1, <3>3 DEF OrderInv, Growing
    <3> QED BY <3>2, <3>3
  <2>5. \A k, l \in 1 .. Len(posted') :
          k < l /\ posted'[l] # StopTask => posted'[k].n < posted'[l].n
    BY <1>1 DEF OrderInv, Growing
  <2>6. \A k \in 1 .. Len(outbound'), l \in 1 .. Len(posted') :
          posted'[l] # StopTask => outbound'[k].n < posted'[l].n
    BY <1>1, <2>1, <2>2, ElementTypes DEF OrderInv, Growing
  <2> QED BY <2>3, <2>4, <2>5, <2>6 DEF OrderInv, Growing
<1> QED BY <1>3, <1>4, <1>5 DEF f

\* A frame that was written leaves the queue.
LEMMA PopKeepsOrder ==
  ASSUME QueueTypes, OrderInv, outbound # <<>>, outbound' = Tail(outbound),
         UNCHANGED <<posted, sends>>
  PROVE  OrderInv'
<1>1. /\ Len(outbound') = Len(outbound) - 1
      /\ \A k \in 1 .. Len(outbound') : outbound'[k] = outbound[k + 1]
  BY HeadTailProperties DEF QueueTypes
<1> QED BY <1>1, ElementTypes DEF OrderInv, Numbered, Growing

\* Every step keeps the order.
LEMMA StepOrder ==
  ASSUME WakeInv, OrderInv, Next
  PROVE  OrderInv'
<1>1. QueueTypes /\ (UNCHANGED <<posted, outbound, sends>> => OrderInv')
  BY DEF WakeInv, OrderInv, Numbered, Growing
<1>2. ASSUME NEW s \in Stream \cup {NoStream}, NEW z \in Size,
             Send([n |-> sends + 1, stream |-> s, size |-> z])
      PROVE  OrderInv'
  <2> DEFINE f == [n |-> sends + 1, stream |-> s, size |-> z]
  <2>1. f \in Frame /\ f.n = sends + 1 /\ sends + 1 \in Nat
    BY <1>1 DEF Frame, QueueTypes
  <2> HIDE DEF f
  <2>2. /\ sends' = sends + 1 /\ outbound' = outbound
        /\ posted' \in {posted, Append(posted, f)}
    BY <1>2 DEF Send, f
  <2>3. CASE posted' = Append(posted, f)
    BY <1>1, <2>1, <2>2, <2>3, PostKeepsOrder
  <2>4. CASE posted' = posted
    <3>1. \A m \in Nat : m <= sends => m <= sends'
      BY <1>1, <2>2 DEF QueueTypes
    <3>3. Numbered'
      BY <1>1, <2>2, <2>4, <3>1, ElementTypes, Zenon DEF OrderInv, Numbered
    <3>2. Growing'
      BY <2>2, <2>4 DEF OrderInv, Growing
    <3> QED BY <3>2, <3>3 DEF OrderInv
  <2> QED BY <2>2, <2>3, <2>4
<1>3. CASE StopPeer
  BY <1>1, <1>3, PostKeepsOrder DEF StopPeer, queueVars, QueueTypes
<1>4. CASE DropFrame
  BY <1>1, <1>4, RunKeepsOrder DEF DropFrame, RunsFrame
<1>5. CASE ReplaceFrame
  BY <1>1, <1>5, RunKeepsOrder, PostedFacts DEF ReplaceFrame, RunsFrame, replaces
<1>6. CASE PushFrame
  BY <1>1, <1>6, RunKeepsOrder, PostedFacts DEF PushFrame, RunsFrame
<1>7. CASE RunStop
  BY <1>1, <1>7, RunKeepsOrder DEF RunStop
<1>8. CASE WriteDone
  BY <1>1, <1>8, PopKeepsOrder
  DEF WriteDone, queueVars, WakeInv, Awake, FlagsMatch, OneAtATime
<1>9. CASE StopNode \/ ResolveDone \/ ConnectDone \/ FrameSent \/ RetryDone
           \/ Receive \/ ConnectionLost \/ ServerDown \/ ServerUp
  BY <1>1, <1>9 DEF StopNode, ResolveDone, ConnectDone, FrameSent, RetryDone, Receive,
              ConnectionLost, ServerDown, ServerUp, queueVars
<1> QED BY <1>2, <1>3, <1>4, <1>5, <1>6, <1>7, <1>8, <1>9 DEF Next

\* Every step keeps the frame being written at the head of the queue.
LEMMA StepWritesHead ==
  ASSUME WakeInv, WritesHead, Next
  PROVE  WritesHead'
<1> USE DEF WritesHead, flagVars, opVars, queueVars
<1>1. CASE Aside
  BY <1>1, AsideKeepsFlags
<1>2. CASE StopPeer \/ ResolveDone \/ RetryDone
  BY <1>2 DEF StopPeer, ResolveDone, RetryDone
<1>3. CASE ReplaceFrame
  <2> DEFINE out == [outbound EXCEPT ![Len(outbound)] = Head(posted)]
  <2>1. /\ outbound' = out /\ write_next(out, connected, write_in_progress)
        /\ ~(write_in_progress /\ Len(outbound) = 1) /\ outbound # <<>>
    BY <1>3 DEF ReplaceFrame, replaces
  <2>2. out # <<>> /\ (write_in_progress => Head(out) = Head(outbound))
    <3>1. Head(posted) \in Frame /\ out \in Seq(Frame) /\ out # <<>>
      BY <1>3, <2>1, PostedFacts, OutboundFacts DEF ReplaceFrame, WakeInv
    <3>2. Len(outbound) \in Nat \ {0}
      BY <2>1, EmptySeq, LenProperties DEF WakeInv, QueueTypes
    <3>3. \A j \in 1 .. Len(outbound) :
            out[j] = IF j = Len(outbound) THEN Head(posted) ELSE outbound[j]
      BY <3>1, <3>2, ExceptSeq DEF WakeInv, QueueTypes
    <3>4. write_in_progress => out[1] = outbound[1]
      BY <2>1, <3>2, <3>3
    <3> QED BY <2>1, <3>1, <3>4 DEF WakeInv, QueueTypes
  <2> HIDE DEF out
  <2> QED BY <2>1, <2>2 DEF write_next, WakeInv, FlagTypes
<1>4. CASE PushFrame
  <2> DEFINE out == Append(outbound, Head(posted))
  <2>1. /\ outbound' = out /\ write_next(out, connected, write_in_progress)
    BY <1>4 DEF PushFrame
  <2>2. out # <<>> /\ (write_in_progress => Head(out) = Head(outbound))
    BY <1>4, PostedFacts, OutboundFacts, AppendProperties DEF PushFrame, WakeInv, QueueTypes
  <2> HIDE DEF out
  <2> QED BY <2>1, <2>2 DEF write_next, WakeInv, FlagTypes
<1>5. CASE RunStop
  BY <1>5 DEF RunStop
<1>6. CASE ConnectDone
  <2>1. outbound' = outbound
    BY <1>6 DEF ConnectDone
  <2>2. CASE UNCHANGED <<write_in_progress, writing>> \/ ~write_in_progress'
    BY <2>1, <2>2
  <2>3. CASE write_next(outbound, TRUE, write_in_progress)
    BY <2>1, <2>3 DEF write_next, WakeInv, FlagTypes
  <2> QED BY <1>6, <2>2, <2>3 DEF ConnectDone
<1>7. CASE FrameSent
  BY <1>7 DEF FrameSent, WakeInv, FlagTypes
<1>8. CASE WriteDone
  <2>1. CASE ~write_in_progress'
    BY <2>1
  <2>2. CASE outbound' = Tail(outbound) /\ write_next(Tail(outbound), connected, FALSE)
    BY <2>2 DEF write_next, WakeInv, FlagTypes
  <2> QED BY <1>8, <2>1, <2>2 DEF WriteDone
<1> QED BY <1>1, <1>2, <1>3, <1>4, <1>5, <1>6, <1>7, <1>8, Zenon DEF Next, Aside

\* Along the queue and the tasks behind it the order is that of the numbers.
LEMMA OrderOfQueue ==
  ASSUME QueueTypes, OrderInv, WritesHead
  PROVE  QueueInOrder
<1> DEFINE q == outbound \o posted
           a == Len(outbound)
           b == Len(posted)
<1>1. outbound \in Seq(Frame \cup {StopTask}) /\ posted \in Seq(Frame \cup {StopTask})
  BY SeqMonotonic DEF QueueTypes
<1>2. /\ a \in Nat /\ b \in Nat /\ Len(q) = a + b
      /\ \A k \in 1 .. a + b : q[k] = IF k <= a THEN outbound[k] ELSE posted[k - a]
  BY <1>1, ConcatProperties, ElementTypes
<1> HIDE DEF q
<1>3. ASSUME NEW k \in 1 .. Len(q), NEW l \in 1 .. Len(q), k < l, q[l] # StopTask
      PROVE  q[k].n < q[l].n
  <2>1. CASE l <= a
    BY <1>2, <1>3, <2>1 DEF OrderInv, Growing
  <2>2. CASE l > a /\ k <= a
    <3>1. l - a \in 1 .. b /\ k \in 1 .. a /\ q[l] = posted[l - a] /\ q[k] = outbound[k]
      BY <1>2, <1>3, <2>2
    <3> QED BY <1>3, <3>1 DEF OrderInv, Growing
  <2>3. CASE k > a
    <3>1. /\ l - a \in 1 .. b /\ k - a \in 1 .. b /\ k - a < l - a
          /\ q[l] = posted[l - a] /\ q[k] = posted[k - a]
      BY <1>2, <1>3, <2>3
    <3> QED BY <1>3, <3>1 DEF OrderInv, Growing
  <2> QED BY <1>2, <1>3, <2>1, <2>2, <2>3
<1> QED BY <1>3 DEF QueueInOrder, WritesHead, q

\* Types, flags and order hold together at first.
LEMMA InitQueue ==
  ASSUME Init
  PROVE  WakeInv /\ OrderInv /\ WritesHead
<1>1. OrderInv /\ WritesHead
  BY EmptySeq DEF Init, OrderInv, Numbered, Growing, WritesHead
<1> QED BY <1>1, InitWake

\* Every step keeps them.
LEMMA StepQueue ==
  ASSUME WakeInv, OrderInv, WritesHead, [Next]_vars
  PROVE  (WakeInv /\ OrderInv /\ WritesHead)'
<1>1. CASE Next
  BY <1>1, StepWake, StepOrder, StepWritesHead
<1>2. CASE UNCHANGED vars
  <2>1. (OrderInv /\ WritesHead)'
    BY <1>2 DEF vars, queueVars, flagVars, opVars, OrderInv, Numbered, Growing, WritesHead
  <2> QED BY <2>1, StepWake
<1> QED BY <1>1, <1>2

\* Frames leave the queue in the order in which the Raft loop sent them, and
\* the buffer handed to async_write is that of the head of the queue, for any
\* limits, frames and faults: a newer AppendEntries that takes the place of the
\* last frame overtakes none (enqueue, write_next, stop_now).
THEOREM QueueKeepsOrder == Spec => []QueueInOrder
<1>1. Init => WakeInv /\ OrderInv /\ WritesHead
  BY InitQueue
<1>2. WakeInv /\ OrderInv /\ WritesHead /\ [Next]_vars
        => (WakeInv /\ OrderInv /\ WritesHead)'
  BY StepQueue
<1>3. WakeInv /\ OrderInv /\ WritesHead => QueueInOrder
  BY OrderOfQueue DEF WakeInv
<1> QED BY <1>1, <1>2, <1>3, PTL DEF Spec

(***************************************************************************)
(* The transport implements the network that the cluster assumes.          *)
(*                                                                         *)
(* The argument.  A step that neither sends nor receives leaves no frame   *)
(* in flight that was not in flight before: the abstract network stutters  *)
(* or loses frames.  A step that receives takes a frame that was not       *)
(* received before, because every frame is put on a connection only once:  *)
(* it is written when its number is higher than that of any frame written  *)
(* before, and a write that fails has put nothing there.                   *)
(***************************************************************************)

\* The frames on connections already given up, and all that have been put on
\* a connection and not been lost.
Lingering == UNION {frames(w) : w \in old}
Air == frames(wire) \cup frames(received) \cup Lingering

\* The inductive invariant.
AirTypes ==
  /\ wire \in Seq(Frame) /\ received \in Seq(Frame)
  /\ old \subseteq Seq(Frame) /\ <<>> \notin old
WriteFlag == ~stopped => (write_in_progress <=> writing # NoWrite)
Distinct(q) == \A k, l \in 1 .. Len(q) : k # l => q[k] # q[l]
Apart(p, q) == frames(p) \cap frames(q) = {}
AirApart ==
  /\ Distinct(wire) /\ Apart(wire, received)
  /\ \A w \in old : Distinct(w) /\ Apart(w, received) /\ Apart(w, wire)
  /\ \A v, w \in old : v # w => Apart(v, w)
Fresh(f) == \A g \in Air : g.n < f.n
AirNumbered == \A g \in Air : g.n <= sends
PostedFresh == \A f \in frames(posted) : Fresh(f)
TailFresh == \A k \in 1 .. Len(outbound) : k > 1 => Fresh(outbound[k])
HeadFresh ==
  ~stopping /\ outbound # <<>> /\ (writing = NoWrite \/ ~writing.sent)
    => Fresh(Head(outbound))
WriteFresh == ~stopped /\ writing # NoWrite /\ ~writing.sent => Fresh(writing.frame)
AirBehind == AirNumbered /\ PostedFresh /\ TailFresh /\ HeadFresh /\ WriteFresh
AirInv == AirTypes /\ WriteFlag /\ AirApart /\ AirBehind
QueueInv == WakeInv /\ OrderInv /\ WritesHead

(***************************************************************************)
(* The frames of a queue.                                                  *)
(***************************************************************************)
\* An empty queue has no frames.
LEMMA FramesEmpty == frames(<<>>) = {}
  BY DEF frames

\* The task of stop_now() is not a frame.
LEMMA FrameIsNoStop == StopTask \notin Frame
  BY TransportAssumption DEF Frame, StopTask

\* The frames of a queue that holds nothing else.
LEMMA FramesOf ==
  ASSUME NEW q \in Seq(Frame)
  PROVE  /\ frames(q) = {q[k] : k \in 1 .. Len(q)}
         /\ frames(q) \subseteq Frame
<1>1. \A k \in 1 .. Len(q) : q[k] \in Frame
  BY ElementOfSeq
<1> QED BY <1>1, FrameIsNoStop DEF frames

\* A task is posted.
LEMMA FramesAppend ==
  ASSUME NEW q \in Seq(Frame \cup {StopTask}), NEW x \in Frame \cup {StopTask}
  PROVE  frames(Append(q, x)) = frames(q) \cup ({x} \ {StopTask})
<1> DEFINE r == Append(q, x)
<1>1. /\ Len(r) = Len(q) + 1 /\ r[Len(q) + 1] = x /\ Len(q) \in Nat
      /\ \A k \in 1 .. Len(q) : r[k] = q[k]
  BY AppendProperties, LenProperties
<1> HIDE DEF r
<1>2. frames(r) \subseteq frames(q) \cup ({x} \ {StopTask})
  BY <1>1 DEF frames
<1>3. frames(q) \subseteq frames(r)
  BY <1>1 DEF frames
<1>4. x # StopTask => x \in frames(r)
  BY <1>1 DEF frames
<1> QED BY <1>2, <1>3, <1>4 DEF r

\* A task is run.
LEMMA FramesTail ==
  ASSUME NEW q \in Seq(Frame \cup {StopTask}), q # <<>>
  PROVE  frames(q) = frames(Tail(q)) \cup ({Head(q)} \ {StopTask})
<1> DEFINE r == Tail(q)
<1>1. /\ Len(r) = Len(q) - 1 /\ Head(q) = q[1] /\ Len(q) \in Nat \ {0}
      /\ \A k \in 1 .. Len(r) : r[k] = q[k + 1]
  BY HeadTailProperties, LenProperties, EmptySeq
<1> HIDE DEF r
<1>2. frames(q) \subseteq frames(r) \cup ({Head(q)} \ {StopTask})
  <2> SUFFICES ASSUME NEW k \in 1 .. Len(q), q[k] # StopTask, k # 1
               PROVE  q[k] \in frames(r)
    BY <1>1 DEF frames
  <2>1. k - 1 \in 1 .. Len(r) /\ r[k - 1] = q[k]
    BY <1>1
  <2> QED BY <2>1 DEF frames
<1>3. frames(r) \subseteq frames(q)
  <2> SUFFICES ASSUME NEW k \in 1 .. Len(r), r[k] # StopTask
               PROVE  r[k] \in frames(q)
    BY DEF frames
  <2>1. k + 1 \in 1 .. Len(q) /\ r[k] = q[k + 1]
    BY <1>1
  <2> QED BY <2>1 DEF frames
<1>4. Head(q) # StopTask => Head(q) \in frames(q)
  BY <1>1 DEF frames
<1> QED BY <1>2, <1>3, <1>4 DEF r

\* A frame is added to a queue of frames.
LEMMA FramesPushed ==
  ASSUME NEW q \in Seq(Frame), NEW x \in Frame
  PROVE  Append(q, x) \in Seq(Frame) /\ frames(Append(q, x)) = frames(q) \cup {x}
<1>1. q \in Seq(Frame \cup {StopTask})
  BY SeqMonotonic
<1>2. frames(Append(q, x)) = frames(q) \cup ({x} \ {StopTask})
  BY <1>1, FramesAppend
<1> QED BY <1>2, FrameIsNoStop, AppendProperties

\* The last frame is replaced.
LEMMA FramesReplaced ==
  ASSUME NEW q \in Seq(Frame), q # <<>>, NEW x \in Frame
  PROVE  frames([q EXCEPT ![Len(q)] = x]) \subseteq frames(q) \cup {x}
<1> DEFINE r == [q EXCEPT ![Len(q)] = x]
<1>1. Len(q) \in 1 .. Len(q)
  BY EmptySeq, LenProperties
<1>2. /\ r \in Seq(Frame) /\ Len(r) = Len(q)
      /\ \A k \in 1 .. Len(q) : r[k] = IF k = Len(q) THEN x ELSE q[k]
  BY <1>1, ExceptSeq
<1> HIDE DEF r
<1>3. frames(r) \subseteq frames(q) \cup {x}
  BY <1>2, FramesOf
<1> QED BY <1>3 DEF r

(***************************************************************************)
(* What may happen to the frames on connections.                           *)
(***************************************************************************)

\* Frames on connections stay or are lost.
LEMMA LosesFrames ==
  ASSUME AirTypes, AirApart, wire' \in {wire, <<>>}, old' \subseteq old, received' = received
  PROVE  AirTypes' /\ AirApart' /\ Air' \subseteq Air
<1>1. AirTypes'
  BY EmptySeq DEF AirTypes
<1>2. Distinct(<<>>) /\ \A q : Apart(<<>>, q) /\ Apart(q, <<>>)
  BY FramesEmpty, EmptySeq DEF Distinct, Apart
<1>3. AirApart'
  BY <1>2, Zenon DEF AirApart
<1>4. Air' \subseteq Air
  BY FramesEmpty, Zenon DEF Air, Lingering
<1> QED BY <1>1, <1>3, <1>4

\* The connection is closed; what is on it may still arrive.
LEMMA ClosesConnection ==
  ASSUME AirTypes, AirApart, old' = closed_wires, wire' = <<>>, received' = received
  PROVE  AirTypes' /\ AirApart' /\ Air' \subseteq Air
<1>1. CASE wire = <<>>
  BY <1>1, LosesFrames DEF closed_wires
<1>2. CASE wire # <<>>
  <2>1. old' = old \cup {wire}
    BY <1>2 DEF closed_wires
  <2>2. AirTypes'
    BY <1>2, <2>1, EmptySeq DEF AirTypes
  <2>3. Distinct(<<>>) /\ \A q : Apart(<<>>, q) /\ Apart(q, <<>>)
    BY FramesEmpty, EmptySeq DEF Distinct, Apart
  <2>4. \A v, w : Apart(v, w) => Apart(w, v)
    BY DEF Apart
  <2>5. AirApart'
    BY <2>1, <2>3, <2>4, Zenon DEF AirApart
  <2>6. Air' \subseteq Air
    BY <2>1, FramesEmpty, Zenon DEF Air, Lingering
  <2> QED BY <2>2, <2>5, <2>6
<1> QED BY <1>1, <1>2

\* The frames behind the head are others than the head.
LEMMA TailDistinct ==
  ASSUME NEW q \in Seq(Frame), q # <<>>, Distinct(q)
  PROVE  /\ Tail(q) \in Seq(Frame) /\ Distinct(Tail(q)) /\ Head(q) \in Frame
         /\ frames(q) = frames(Tail(q)) \cup {Head(q)}
         /\ Head(q) \notin frames(Tail(q))
<1> DEFINE r == Tail(q)
<1>1. /\ Len(r) = Len(q) - 1 /\ Head(q) = q[1] /\ Len(q) \in Nat \ {0}
      /\ \A k \in 1 .. Len(r) : r[k] = q[k + 1]
      /\ r \in Seq(Frame) /\ Head(q) \in Frame
  BY HeadTailProperties, LenProperties, EmptySeq
<1>2. q \in Seq(Frame \cup {StopTask})
  BY SeqMonotonic
<1>3. frames(q) = frames(r) \cup {Head(q)}
  BY <1>1, <1>2, FramesTail, FrameIsNoStop
<1> HIDE DEF r
<1>4. Distinct(r)
  BY <1>1 DEF Distinct
<1>5. Head(q) \notin frames(r)
  <2>1. \A k \in 1 .. Len(r) : r[k] # q[1]
    BY <1>1 DEF Distinct
  <2> QED BY <1>1, <2>1, FramesOf
<1> QED BY <1>1, <1>3, <1>4, <1>5 DEF r

\* A frame is received from the connection.
LEMMA ReceivesFromWire ==
  ASSUME AirTypes, AirApart, wire # <<>>, received' = Append(received, Head(wire)),
         wire' = Tail(wire), old' = old
  PROVE  /\ AirTypes' /\ AirApart' /\ Air' \subseteq Air
         /\ Head(wire) \in frames(wire) /\ Head(wire) \notin frames(received)
         /\ frames(wire) = frames(wire') \cup {Head(wire)}
         /\ frames(received') = frames(received) \cup {Head(wire)}
<1> DEFINE f == Head(wire)
<1>1. /\ wire' \in Seq(Frame) /\ Distinct(wire') /\ f \in Frame
      /\ frames(wire) = frames(wire') \cup {f} /\ f \notin frames(wire')
  BY TailDistinct DEF AirTypes, AirApart
<1>2. received' \in Seq(Frame) /\ frames(received') = frames(received) \cup {f}
  BY <1>1, FramesPushed DEF AirTypes
<1> HIDE DEF f
<1>3. AirTypes'
  BY <1>1, <1>2 DEF AirTypes
<1>4. AirApart'
  BY <1>1, <1>2, Zenon DEF AirApart, Apart
<1>5. Air' \subseteq Air
  BY <1>1, <1>2, Zenon DEF Air, Lingering
<1>6. f \notin frames(received)
  BY <1>1 DEF AirApart, Apart
<1> QED BY <1>1, <1>2, <1>3, <1>4, <1>5, <1>6 DEF f

\* A frame is received from a connection that was given up.
LEMMA ReceivesFromOld ==
  ASSUME AirTypes, AirApart, NEW w \in old, received' = Append(received, Head(w)),
         old' = (old \ {w}) \cup (IF Len(w) = 1 THEN {} ELSE {Tail(w)}), wire' = wire
  PROVE  /\ AirTypes' /\ AirApart' /\ Air' \subseteq Air
         /\ Head(w) \in frames(w) /\ Head(w) \notin frames(received)
         /\ frames(received') = frames(received) \cup {Head(w)}
         /\ Lingering = Lingering' \cup {Head(w)}
<1> DEFINE f == Head(w)
           r == Tail(w)
<1>1. w \in Seq(Frame) /\ w # <<>> /\ Distinct(w)
  BY DEF AirTypes, AirApart
<1>2. /\ r \in Seq(Frame) /\ Distinct(r) /\ f \in Frame
      /\ frames(w) = frames(r) \cup {f} /\ f \notin frames(r)
  BY <1>1, TailDistinct
<1>3. received' \in Seq(Frame) /\ frames(received') = frames(received) \cup {f}
  BY <1>2, FramesPushed DEF AirTypes
<1>4. Len(r) = Len(w) - 1 /\ Len(w) \in Nat /\ Len(<<>>) = 0 /\ (Len(r) = 0 => r = <<>>)
  BY <1>1, <1>2, HeadTailProperties, LenProperties, EmptySeq
<1> HIDE DEF f, r
<1>5. \A v \in old' : (v \in old /\ v # w) \/ (v = r /\ r # <<>>)
  <2> SUFFICES ASSUME NEW v \in old', ~(v \in old /\ v # w)
               PROVE  v = r /\ r # <<>>
    OBVIOUS
  <2>1. Len(w) # 1 /\ v = r
    BY DEF r
  <2>2. Len(r) # Len(<<>>)
    BY <1>4, <2>1
  <2> QED BY <2>1, <2>2
<1>6. \A v \in old : v # w => v \in old'
  OBVIOUS
<1>7. r \in old' \/ frames(r) = {}
  <2>1. CASE Len(w) = 1
    <3>1. r = <<>>
      BY <1>4, <2>1
    <3> QED BY <3>1, FramesEmpty
  <2>2. CASE Len(w) # 1
    BY <2>2 DEF r
  <2> QED BY <2>1, <2>2
<1>8. AirTypes'
  BY <1>2, <1>3, <1>5, Zenon DEF AirTypes
<1>9. f \notin frames(received) /\ \A v \in old : v # w => f \notin frames(v)
  BY <1>2 DEF AirApart, Apart
<1>10. f \notin frames(wire) /\ frames(r) \cap frames(wire) = {}
       /\ frames(r) \cap frames(received) = {}
       /\ \A v \in old : v # w => frames(r) \cap frames(v) = {}
  BY <1>2 DEF AirApart, Apart
<1>11. AirApart'
  <2>1. Distinct(wire') /\ Apart(wire', received')
    BY <1>3, <1>10 DEF AirApart, Apart
  <2>2. \A v \in old' : Distinct(v) /\ Apart(v, received') /\ Apart(v, wire')
    <3> SUFFICES ASSUME NEW v \in old'
                 PROVE  Distinct(v) /\ Apart(v, received') /\ Apart(v, wire')
      OBVIOUS
    <3>1. CASE v = r
      BY <1>2, <1>3, <1>10, <3>1 DEF Apart
    <3>2. CASE v \in old /\ v # w
      <4>1. Distinct(v) /\ Apart(v, received) /\ Apart(v, wire) /\ f \notin frames(v)
        BY <1>9, <3>2 DEF AirApart
      <4> QED BY <1>3, <4>1 DEF Apart
    <3> QED BY <1>5, <3>1, <3>2
  <2>3. \A u, v \in old' : u # v => Apart(u, v)
    <3> SUFFICES ASSUME NEW u \in old', NEW v \in old', u # v
                 PROVE  Apart(u, v)
      OBVIOUS
    <3>1. CASE u \in old /\ u # w /\ v \in old /\ v # w
      BY <3>1 DEF AirApart
    <3>2. CASE u = r /\ v \in old /\ v # w
      BY <3>2, <1>10 DEF Apart
    <3>3. CASE v = r /\ u \in old /\ u # w
      BY <3>3, <1>10 DEF Apart
    <3> QED BY <1>5, <3>1, <3>2, <3>3
  <2> QED BY <2>1, <2>2, <2>3, Zenon DEF AirApart
<1>12. Lingering' \subseteq Lingering
  BY <1>2, <1>5, Zenon DEF Lingering
<1>13. Lingering \subseteq Lingering' \cup {f}
  <2> SUFFICES ASSUME NEW v \in old, NEW g \in frames(v), g # f
               PROVE  g \in Lingering'
    BY Zenon DEF Lingering
  <2>1. CASE v = w
    BY <1>2, <1>7, <2>1, Zenon DEF Lingering
  <2>2. CASE v # w
    BY <1>6, <2>2, Zenon DEF Lingering
  <2> QED BY <2>1, <2>2
<1>15. f \in Lingering
  BY <1>2, Zenon DEF Lingering
<1>14. Air' \subseteq Air
  BY <1>3, <1>12, <1>15 DEF Air
<1> QED BY <1>2, <1>3, <1>8, <1>9, <1>11, <1>12, <1>13, <1>14, <1>15 DEF f

\* A frame with a higher number than any on a connection is put on one.
LEMMA SendsFrame ==
  ASSUME AirTypes, AirApart, NEW f \in Frame, Fresh(f),
         wire' = Append(wire, f), UNCHANGED <<old, received>>
  PROVE  AirTypes' /\ AirApart' /\ Air' = Air \cup {f}
<1>1. f \notin Air
  BY DEF Fresh, Frame
<1>2. wire' \in Seq(Frame) /\ frames(wire') = frames(wire) \cup {f}
  BY FramesPushed DEF AirTypes
<1>3. Distinct(wire')
  <2>1. /\ Len(wire') = Len(wire) + 1 /\ wire'[Len(wire) + 1] = f /\ Len(wire) \in Nat
        /\ \A k \in 1 .. Len(wire) : wire'[k] = wire[k]
    BY AppendProperties, LenProperties DEF AirTypes
  <2>2. \A k \in 1 .. Len(wire) : wire[k] # f
    BY <1>1, FramesOf DEF Air, AirTypes
  <2>3. \A k \in 1 .. Len(wire') : k \in 1 .. Len(wire) \/ k = Len(wire) + 1
    BY <2>1
  <2> QED BY <2>1, <2>2, <2>3 DEF Distinct, AirApart
<1>4. AirTypes'
  BY <1>2 DEF AirTypes
<1>5. AirApart'
  <2>1. f \notin frames(received) /\ \A w \in old : f \notin frames(w)
    BY <1>1, Zenon DEF Air, Lingering
  <2>2. Apart(wire', received)
    BY <1>2, <2>1, Zenon DEF AirApart, Apart
  <2>3. \A w \in old : Apart(w, wire')
    BY <1>2, <2>1, Zenon DEF AirApart, Apart
  <2>4. /\ \A w \in old : Distinct(w) /\ Apart(w, received)
        /\ \A v, w \in old : v # w => Apart(v, w)
    BY Zenon DEF AirApart
  <2> QED BY <1>3, <2>2, <2>3, <2>4, Zenon DEF AirApart, Apart
<1>6. Air' = Air \cup {f}
  BY <1>2, Zenon DEF Air, Lingering
<1> QED BY <1>4, <1>5, <1>6

(***************************************************************************)
(* The steps of the transport.                                             *)
(***************************************************************************)

\* Until stop_now() has run, the flag says whether a write is under way.
LEMMA StepWriteFlag ==
  ASSUME WakeInv, WriteFlag, Next
  PROVE  WriteFlag'
<1> USE DEF WriteFlag, stopVars, flagVars, opVars
<1>1. CASE Aside
  BY <1>1, AsideKeepsFlags
<1>2. CASE StopPeer \/ ResolveDone \/ RetryDone
  BY <1>2 DEF StopPeer, ResolveDone, RetryDone
<1>3. CASE ReplaceFrame
  BY <1>3, WritesAreSomething DEF ReplaceFrame, write_next, stopping, WakeInv, FlagTypes
<1>4. CASE PushFrame
  BY <1>4, WritesAreSomething DEF PushFrame, write_next, stopping, WakeInv, FlagTypes
<1>5. CASE RunStop
  BY <1>5 DEF RunStop
<1>6. CASE ConnectDone
  <2>1. UNCHANGED stopped
    BY <1>6 DEF ConnectDone
  <2>2. CASE stopping
    BY <1>6, <2>2 DEF ConnectDone
  <2>3. CASE ~stopping
    BY <1>6, <2>1, <2>3, StepAwake
    DEF ConnectDone, stopping, WakeInv, FlagTypes, Awake, FlagsMatch, Next
  <2> QED BY <2>2, <2>3
<1>7. CASE FrameSent
  BY <1>7, WritesAreSomething DEF FrameSent, WakeInv, FlagTypes
<1>8. CASE WriteDone
  BY <1>8, WritesAreSomething DEF WriteDone, write_next, WakeInv, FlagTypes
<1> QED BY <1>1, <1>2, <1>3, <1>4, <1>5, <1>6, <1>7, <1>8, Zenon DEF Next, Aside

\* A frame that is ahead of all on connections stays so while none is added.
LEMMA StaysFresh ==
  ASSUME Air' \subseteq Air, NEW f, Fresh(f)
  PROVE  \A g \in Air' : g.n < f.n
  BY DEF Fresh

\* Every step but FrameSent puts no frame on a connection.
LEMMA StepAirSmaller ==
  ASSUME AirTypes, AirApart, Next, ~FrameSent
  PROVE  AirTypes' /\ AirApart' /\ Air' \subseteq Air
<1> USE DEF wireVars, serverVars
<1>1. CASE \/ \E s \in Stream \cup {NoStream}, z \in Size :
                Send([n |-> sends + 1, stream |-> s, size |-> z])
           \/ StopNode \/ StopPeer \/ DropFrame \/ ReplaceFrame \/ PushFrame
           \/ ResolveDone \/ RetryDone
  <2>1. UNCHANGED <<wire, old, received>>
    BY <1>1, Zenon DEF Send, StopNode, StopPeer, DropFrame, ReplaceFrame, PushFrame,
                ResolveDone, RetryDone
  <2> QED BY <2>1, LosesFrames
<1>2. CASE RunStop
  BY <1>2, ClosesConnection DEF RunStop
<1>3. CASE ConnectDone
  <2>1. wire' \in {wire, <<>>} /\ old' = old /\ received' = received
    BY <1>3 DEF ConnectDone
  <2> QED BY <2>1, LosesFrames
<1>4. CASE WriteDone
  <2>1. received' = received
    BY <1>4 DEF WriteDone
  <2>2. CASE UNCHANGED <<wire, old>>
    BY <2>1, <2>2, LosesFrames
  <2>3. CASE old' = closed_wires /\ wire' = <<>>
    BY <2>1, <2>3, ClosesConnection
  <2> QED BY <1>4, <2>2, <2>3 DEF WriteDone
<1>5. CASE Receive
  <2>1. CASE wire # <<>> /\ received' = Append(received, Head(wire))
             /\ wire' = Tail(wire) /\ UNCHANGED old
    BY <2>1, ReceivesFromWire
  <2>2. ASSUME NEW w \in old, received' = Append(received, Head(w)),
               old' = (old \ {w}) \cup (IF Len(w) = 1 THEN {} ELSE {Tail(w)}), UNCHANGED wire
        PROVE  AirTypes' /\ AirApart' /\ Air' \subseteq Air
    BY <2>2, ReceivesFromOld
  <2> QED BY <1>5, <2>1, <2>2 DEF Receive
<1>6. CASE ConnectionLost \/ ServerDown \/ ServerUp
  <2>1. wire' \in {wire, <<>>} /\ old' \subseteq old /\ received' = received
    BY <1>6 DEF ConnectionLost, ServerDown, ServerUp
  <2> QED BY <2>1, LosesFrames
<1> QED BY <1>1, <1>2, <1>3, <1>4, <1>5, <1>6, Zenon DEF Next

\* The frames on connections have numbers.
LEMMA AirFrames ==
  ASSUME AirTypes
  PROVE  Air \subseteq Frame /\ \A g \in Air : g.n \in Nat
<1>1. frames(wire) \subseteq Frame /\ frames(received) \subseteq Frame
  BY FramesOf DEF AirTypes
<1>2. \A w \in old : frames(w) \subseteq Frame
  BY FramesOf DEF AirTypes
<1>3. Air \subseteq Frame
  BY <1>1, <1>2, Zenon DEF Air, Lingering
<1> QED BY <1>3 DEF Frame

\* A step that leaves the queue and the write alone.
LEMMA QueueKept ==
  ASSUME AirBehind, Air' \subseteq Air, UNCHANGED <<outbound, writing>>,
         stopping => stopping', stopped => stopped'
  PROVE  TailFresh' /\ HeadFresh' /\ WriteFresh'
  BY Zenon DEF AirBehind, TailFresh, HeadFresh, WriteFresh, Fresh

\* write_next() starts to write the head of the queue, which is fresh.
LEMMA WriteNextFresh ==
  ASSUME WakeInv, AirBehind, Air' \subseteq Air, ~stopping, NEW out, NEW c,
         outbound' = out, write_next(out, c, write_in_progress),
         out # <<>> /\ (writing = NoWrite \/ ~writing.sent) => Fresh(Head(out))
  PROVE  HeadFresh' /\ WriteFresh'
<1>1. write_in_progress <=> writing # NoWrite
  BY DEF WakeInv, Awake, FlagsMatch
<1>2. ~stopped
  BY DEF stopping
<1>3. CASE writing' = [frame |-> Head(out), sent |-> FALSE] /\ writing = NoWrite /\ out # <<>>
  <2>1. Fresh(Head(out)) /\ writing'.frame = Head(out)
    BY <1>3
  <2> QED BY <2>1 DEF HeadFresh, WriteFresh, Fresh
<1>4. CASE writing' = writing
  BY <1>2, <1>4, Zenon DEF AirBehind, HeadFresh, WriteFresh, Fresh
<1>5. writing' = writing
      \/ (writing' = [frame |-> Head(out), sent |-> FALSE] /\ writing = NoWrite /\ out # <<>>)
  BY <1>1 DEF write_next
<1> QED BY <1>3, <1>4, <1>5

\* What is posted is ahead of what is on connections.
LEMMA StepPostedFresh ==
  ASSUME QueueInv, AirInv, Next, Air' \subseteq Air
  PROVE  AirNumbered' /\ PostedFresh'
<1>1. QueueTypes /\ AirNumbered /\ PostedFresh
  BY DEF QueueInv, WakeInv, AirInv, AirBehind
<1>2. \A g \in Air : g.n \in Nat
  BY AirFrames DEF AirInv
<1>3. ASSUME NEW s \in Stream \cup {NoStream}, NEW z \in Size,
             Send([n |-> sends + 1, stream |-> s, size |-> z])
      PROVE  AirNumbered' /\ PostedFresh'
  <2> DEFINE f == [n |-> sends + 1, stream |-> s, size |-> z]
  <2>1. f \in Frame /\ f.n = sends + 1 /\ sends \in Nat
    BY <1>1 DEF Frame, QueueTypes
  <2> HIDE DEF f
  <2>2. sends' = sends + 1 /\ posted' \in {posted, Append(posted, f)}
    BY <1>3 DEF Send, f
  <2>3. AirNumbered'
    BY <1>1, <1>2, <2>1, <2>2 DEF AirNumbered
  <2>4. Fresh(f)
    BY <1>1, <1>2, <2>1 DEF AirNumbered, Fresh
  <2>5. frames(posted') \subseteq frames(posted) \cup {f}
    BY <1>1, <2>1, <2>2, FramesAppend DEF QueueTypes
  <2> QED BY <1>1, <2>3, <2>4, <2>5, Zenon DEF PostedFresh, Fresh
<1>4. ASSUME sends' = sends, frames(posted') \subseteq frames(posted)
      PROVE  AirNumbered' /\ PostedFresh'
  BY <1>1, <1>4, Zenon DEF AirNumbered, PostedFresh, Fresh
<1>5. CASE StopPeer
  <2>1. sends' = sends /\ posted' = Append(posted, StopTask)
    BY <1>5 DEF StopPeer
  <2>2. frames(posted') \subseteq frames(posted)
    BY <1>1, <2>1, FramesAppend DEF QueueTypes
  <2> QED BY <1>4, <2>1, <2>2
<1>6. CASE DropFrame \/ ReplaceFrame \/ PushFrame \/ RunStop
  <2>1. sends' = sends /\ posted # <<>> /\ posted' = Tail(posted)
    BY <1>6 DEF DropFrame, ReplaceFrame, PushFrame, RunStop, RunsFrame
  <2>2. frames(posted') \subseteq frames(posted)
    BY <1>1, <2>1, FramesTail DEF QueueTypes
  <2> QED BY <1>4, <2>1, <2>2
<1>7. CASE \/ StopNode \/ ResolveDone \/ ConnectDone \/ FrameSent \/ WriteDone
           \/ RetryDone \/ Receive \/ ConnectionLost \/ ServerDown \/ ServerUp
  <2>1. UNCHANGED <<sends, posted>>
    BY <1>7, Zenon DEF StopNode, ResolveDone, ConnectDone, FrameSent, WriteDone, RetryDone,
                Receive, ConnectionLost, ServerDown, ServerUp
  <2> QED BY <1>4, <2>1
<1> QED BY <1>3, <1>5, <1>6, <1>7, Zenon DEF Next

\* So is what is queued and not yet written.
LEMMA StepQueueFresh ==
  ASSUME QueueInv, AirInv, Next, ~FrameSent, Air' \subseteq Air
  PROVE  TailFresh' /\ HeadFresh' /\ WriteFresh'
<1> USE DEF queueVars, flagVars, opVars, stopVars
<1>1. WakeInv /\ QueueTypes /\ AirBehind /\ WriteFlag /\ OrderInv /\ WritesHead
  BY DEF QueueInv, WakeInv, AirInv
<1>2. CASE Aside \/ StopPeer \/ ResolveDone \/ RetryDone
  <2>1. UNCHANGED <<outbound, writing, stopped>> /\ (stopping => stopping')
    <3>1. CASE Aside
      BY <3>1, AsideKeepsFlags DEF stopping
    <3>2. CASE StopPeer
      BY <3>2 DEF StopPeer, stopping
    <3>3. CASE ResolveDone
      BY <3>3 DEF ResolveDone, stopping
    <3>4. CASE RetryDone
      BY <3>4 DEF RetryDone, stopping
    <3> QED BY <1>2, <3>1, <3>2, <3>3, <3>4
  <2> QED BY <1>1, <2>1, QueueKept
<1>3. CASE RunStop
  BY <1>3, EmptySeq DEF RunStop, TailFresh, HeadFresh, WriteFresh
<1>4. CASE ReplaceFrame
  <2> DEFINE f == Head(posted)
             out == [outbound EXCEPT ![Len(outbound)] = f]
  <2>1. /\ f \in Frame /\ posted # <<>> /\ f # StopTask /\ ~stopping /\ outbound # <<>>
        /\ outbound' = out /\ write_next(out, connected, write_in_progress)
        /\ ~(write_in_progress /\ Len(outbound) = 1)
    BY <1>1, <1>4, PostedFacts DEF ReplaceFrame, RunsFrame, replaces
  <2>2. Fresh(f)
    BY <1>1, <2>1, FramesTail DEF AirBehind, PostedFresh, QueueTypes
  <2>3. Len(outbound) \in 1 .. Len(outbound) /\ Head(outbound) = outbound[1]
    BY <1>1, <2>1, EmptySeq, LenProperties DEF QueueTypes
  <2>4. /\ out \in Seq(Frame) /\ Len(out) = Len(outbound)
        /\ \A k \in 1 .. Len(outbound) :
             out[k] = IF k = Len(outbound) THEN f ELSE outbound[k]
    BY <1>1, <2>1, <2>3, ExceptSeq DEF QueueTypes
  <2>5. Head(out) = out[1]
    BY <2>4
  <2> HIDE DEF out, f
  <2>6. TailFresh'
    <3>1. \A k \in 1 .. Len(out) : k > 1 => Fresh(out[k])
      BY <1>1, <2>2, <2>4 DEF AirBehind, TailFresh
    <3> QED BY <2>1, <3>1 DEF TailFresh, Fresh
  <2>7. writing = NoWrite \/ ~writing.sent => Fresh(Head(out))
    BY <1>1, <2>1, <2>2, <2>3, <2>4, <2>5 DEF AirBehind, HeadFresh
  <2> QED BY <1>1, <2>1, <2>6, <2>7, WriteNextFresh
<1>5. CASE PushFrame
  <2> DEFINE f == Head(posted)
             out == Append(outbound, f)
  <2>1. /\ f \in Frame /\ posted # <<>> /\ f # StopTask /\ ~stopping
        /\ outbound' = out /\ write_next(out, connected, write_in_progress)
    BY <1>1, <1>5, PostedFacts DEF PushFrame, RunsFrame
  <2>2. Fresh(f)
    BY <1>1, <2>1, FramesTail DEF AirBehind, PostedFresh, QueueTypes
  <2>3. /\ out \in Seq(Frame) /\ Len(out) = Len(outbound) + 1 /\ Len(outbound) \in Nat
        /\ out[Len(outbound) + 1] = f
        /\ \A k \in 1 .. Len(outbound) : out[k] = outbound[k]
    BY <1>1, <2>1, AppendProperties, LenProperties DEF QueueTypes
  <2>4. /\ Head(out) = out[1] /\ (outbound # <<>> => Head(outbound) = outbound[1])
        /\ (outbound # <<>> => Len(outbound) # 0) /\ (outbound = <<>> => Len(outbound) = 0)
    BY <1>1, <2>3, EmptySeq DEF QueueTypes
  <2> HIDE DEF out, f
  <2>5. TailFresh'
    <3>1. \A k \in 1 .. Len(out) : k > 1 => Fresh(out[k])
      BY <1>1, <2>2, <2>3 DEF AirBehind, TailFresh
    <3> QED BY <2>1, <3>1 DEF TailFresh, Fresh
  <2>6. writing = NoWrite \/ ~writing.sent => Fresh(Head(out))
    <3>1. CASE outbound = <<>>
      BY <2>2, <2>3, <2>4, <3>1
    <3>2. CASE outbound # <<>>
      <4>1. Head(out) = Head(outbound)
        BY <2>3, <2>4, <3>2
      <4> QED BY <1>1, <2>1, <3>2, <4>1 DEF AirBehind, HeadFresh
    <3> QED BY <3>1, <3>2
  <2> QED BY <1>1, <2>1, <2>5, <2>6, WriteNextFresh
<1>6. CASE ConnectDone
  <2>1. UNCHANGED <<outbound, stopped, stop_requested>>
    BY <1>6 DEF ConnectDone
  <2>2. TailFresh'
    BY <1>1, <2>1, Zenon DEF AirBehind, TailFresh, Fresh
  <2>3. CASE UNCHANGED writing
    BY <1>1, <2>1, <2>3, QueueKept DEF stopping
  <2>4. CASE ~stopping /\ write_next(outbound, TRUE, write_in_progress)
    BY <1>1, <2>1, <2>2, <2>4, WriteNextFresh DEF AirBehind, HeadFresh
  <2> QED BY <1>6, <2>3, <2>4 DEF ConnectDone
<1>7. CASE WriteDone
  <2>1. CASE stopping /\ writing' = NoWrite /\ UNCHANGED <<outbound, stopped, stop_requested>>
    BY <1>1, <2>1, Zenon DEF AirBehind, TailFresh, HeadFresh, WriteFresh, Fresh, stopping
  <2>2. CASE ~stopping /\ ~writing.sent /\ writing' = NoWrite
             /\ UNCHANGED <<outbound, stopped, stop_requested>>
    BY <1>1, <2>2, Zenon DEF AirBehind, TailFresh, HeadFresh, WriteFresh, Fresh, stopping
  <2>3. CASE ~stopping /\ writing # NoWrite /\ outbound' = Tail(outbound)
             /\ write_next(Tail(outbound), connected, FALSE)
    <3> DEFINE out == Tail(outbound)
    <3>1. outbound # <<>>
      BY <1>1, <2>3 DEF WriteFlag, WritesHead, stopping
    <3>2. /\ out \in Seq(Frame) /\ Len(out) = Len(outbound) - 1 /\ Len(outbound) \in Nat
          /\ \A k \in 1 .. Len(out) : out[k] = outbound[k + 1]
      BY <1>1, <3>1, HeadTailProperties, LenProperties DEF QueueTypes
    <3>3. out # <<>> => Head(out) = out[1] /\ 1 \in 1 .. Len(out)
      BY <3>2, EmptySeq, LenProperties
    <3>4. writing' \in {NoWrite, [frame |-> Head(out), sent |-> FALSE]}
          /\ (writing' # NoWrite => out # <<>>)
      BY <2>3 DEF write_next
    <3> HIDE DEF out
    <3>5. \A k \in 1 .. Len(out) : Fresh(out[k])
      BY <1>1, <3>2 DEF AirBehind, TailFresh
    <3>6. out # <<>> => Fresh(Head(out))
      BY <3>3, <3>5
    <3>7. outbound' = out
      BY <2>3 DEF out
    <3>8. writing' # NoWrite => writing'.frame = Head(out)
      BY <3>4
    <3>9. TailFresh' /\ HeadFresh'
      BY <3>5, <3>6, <3>7, Zenon DEF TailFresh, HeadFresh, Fresh
    <3>10. WriteFresh'
      BY <3>4, <3>6, <3>8, Zenon DEF WriteFresh, Fresh
    <3> QED BY <3>9, <3>10
  <2> QED BY <1>7, <2>1, <2>2, <2>3 DEF WriteDone
<1> QED BY <1>2, <1>3, <1>4, <1>5, <1>6, <1>7, Zenon DEF Next, Aside

\* The frame being written goes out: it is the head of the queue.
LEMMA StepFrameSent ==
  ASSUME QueueInv, AirInv, FrameSent
  PROVE  /\ AirTypes' /\ AirApart' /\ AirBehind'
         /\ frames(wire') \subseteq frames(wire) \cup frames(outbound)
<1> DEFINE f == writing.frame
<1> USE DEF queueVars, stopVars, serverVars
<1>1. /\ writing # NoWrite /\ ~writing.sent /\ ~stopped /\ outbound # <<>>
      /\ f = Head(outbound)
  BY DEF FrameSent, AirInv, WriteFlag, QueueInv, WritesHead
<1>2. QueueTypes /\ OrderInv /\ AirTypes /\ AirApart /\ AirBehind
  BY DEF QueueInv, WakeInv, AirInv
<1>3. f \in Frame /\ f = outbound[1] /\ 1 \in 1 .. Len(outbound) /\ f.n \in Nat
  <2>1. f \in Frame /\ f = outbound[1]
    BY <1>1, <1>2, HeadTailProperties DEF QueueTypes
  <2>2. 1 \in 1 .. Len(outbound)
    BY <1>1, <1>2, EmptySeq, LenProperties DEF QueueTypes
  <2> QED BY <2>1, <2>2 DEF Frame
<1>4. Fresh(f)
  BY <1>1, <1>2 DEF AirBehind, WriteFresh
<1>5. /\ UNCHANGED <<sends, posted, outbound, old, received>>
      /\ writing' # NoWrite /\ writing'.sent /\ wire' \in {wire, Append(wire, f)}
  BY <1>1, WritesAreSomething DEF FrameSent, QueueInv, WakeInv, FlagTypes
<1> HIDE DEF f
<1>6. AirTypes' /\ AirApart' /\ Air' \subseteq Air \cup {f}
      /\ frames(wire') \subseteq frames(wire) \cup {f}
  <2>1. CASE wire' = wire
    BY <1>2, <1>5, <2>1, LosesFrames
  <2>2. CASE wire' = Append(wire, f)
    BY <1>2, <1>3, <1>4, <1>5, <2>2, SendsFrame, FramesPushed DEF AirTypes
  <2> QED BY <1>5, <2>1, <2>2
<1>7. AirNumbered'
  <2>1. f.n <= sends
    BY <1>2, <1>3 DEF OrderInv, Numbered
  <2> QED BY <1>2, <1>5, <1>6, <2>1, Zenon DEF AirBehind, AirNumbered
<1>8. PostedFresh'
  <2>1. \A g \in frames(posted) : f.n < g.n
    BY <1>2, <1>3 DEF OrderInv, Growing, frames
  <2> QED BY <1>2, <1>5, <1>6, <2>1, Zenon DEF AirBehind, PostedFresh, Fresh
<1>9. TailFresh'
  <2>1. \A k \in 1 .. Len(outbound) : k > 1 => f.n < outbound[k].n
    BY <1>2, <1>3 DEF OrderInv, Growing
  <2> QED BY <1>2, <1>5, <1>6, <2>1, Zenon DEF AirBehind, TailFresh, Fresh
<1>10. HeadFresh' /\ WriteFresh'
  BY <1>5 DEF HeadFresh, WriteFresh
<1>11. f \in frames(outbound)
  BY <1>2, <1>3, FramesOf DEF QueueTypes
<1> QED BY <1>6, <1>7, <1>8, <1>9, <1>10, <1>11 DEF AirBehind

\* The inductive invariant holds.
LEMMA AirInvariant == Spec => [](QueueInv /\ AirInv)
<1>1. Init => QueueInv /\ AirInv
  <2> SUFFICES ASSUME Init PROVE QueueInv /\ AirInv
    OBVIOUS
  <2>1. QueueInv
    BY InitQueue DEF QueueInv
  <2>2. AirTypes /\ WriteFlag
    BY EmptySeq DEF Init, AirTypes, WriteFlag
  <2>3. AirApart
    BY FramesEmpty, EmptySeq DEF Init, AirApart, Distinct, Apart
  <2>4. Air = {} /\ frames(posted) = {}
    BY FramesEmpty DEF Init, Air, Lingering
  <2>5. AirBehind
    BY <2>4 DEF AirBehind, AirNumbered, PostedFresh, TailFresh, HeadFresh, WriteFresh, Fresh
  <2> QED BY <2>1, <2>2, <2>3, <2>5 DEF AirInv
<1>2. ASSUME QueueInv, AirInv, [Next]_vars
      PROVE  (QueueInv /\ AirInv)'
  <2>1. QueueInv'
    BY <1>2, StepQueue DEF QueueInv
  <2>2. CASE FrameSent
    <3>1. Next
      BY <2>2 DEF Next
    <3> QED BY <1>2, <2>1, <2>2, <3>1, StepFrameSent, StepWriteFlag DEF AirInv, QueueInv
  <2>3. CASE Next /\ ~FrameSent
    <3>1. AirTypes' /\ AirApart' /\ Air' \subseteq Air
      BY <1>2, <2>3, StepAirSmaller DEF AirInv
    <3>2. AirBehind'
      BY <1>2, <2>3, <3>1, StepPostedFresh, StepQueueFresh DEF AirBehind
    <3> QED BY <1>2, <2>1, <2>3, <3>1, <3>2, StepWriteFlag DEF AirInv, QueueInv
  <2>4. CASE UNCHANGED vars
    <3>1. AirInv'
      BY <1>2, <2>4 DEF vars, queueVars, stopVars, flagVars, opVars, wireVars, serverVars,
         AirInv, AirTypes, WriteFlag, AirApart, AirBehind, AirNumbered, PostedFresh,
         TailFresh, HeadFresh, WriteFresh, Fresh, Air, Lingering, stopping
    <3> QED BY <2>1, <3>1
  <2> QED BY <1>2, <2>2, <2>3, <2>4
<1> QED BY <1>1, <1>2, PTL DEF Spec

(***************************************************************************)
(* The refinement.                                                         *)
(***************************************************************************)
InFlight ==
  (frames(posted) \cup frames(outbound) \cup frames(wire) \cup Lingering)
    \ frames(received)
NetworkStep == network!Next \/ UNCHANGED <<sends, InFlight, received>>

\* A step that neither sends nor receives loses frames or does nothing.
LEMMA LosingStep ==
  ASSUME UNCHANGED <<sends, received>>, InFlight' \subseteq InFlight
  PROVE  NetworkStep
<1>1. CASE InFlight' = InFlight
  BY <1>1 DEF NetworkStep
<1>2. CASE InFlight' # InFlight
  <2> DEFINE S == InFlight \ InFlight'
  <2>1. S # {} /\ S \in SUBSET InFlight /\ InFlight' = InFlight \ S
    BY <1>2
  <2> HIDE DEF S
  <2>2. \E T \in SUBSET InFlight : T # {} /\ InFlight' = InFlight \ T
    BY <2>1
  <2> QED BY <2>2 DEF NetworkStep, network!Next, network!Lose, InFlight, Lingering
<1> QED BY <1>1, <1>2

\* What is left in flight if frames only move along.
LEMMA FramesMove ==
  ASSUME received' = received,
         frames(posted') \subseteq frames(posted),
         frames(outbound') \subseteq frames(outbound) \cup frames(posted),
         frames(wire') \subseteq frames(wire) \cup frames(outbound),
         Lingering' \subseteq Lingering \cup frames(wire)
  PROVE  InFlight' \subseteq InFlight
  BY DEF InFlight

\* Peer::send() hands over a frame or refuses it.
LEMMA SendStep ==
  ASSUME QueueInv, AirInv, NEW s \in Stream \cup {NoStream}, NEW z \in Size,
         Send([n |-> sends + 1, stream |-> s, size |-> z])
  PROVE  NetworkStep
<1> DEFINE f == [n |-> sends + 1, stream |-> s, size |-> z]
<1>1. f \in Frame /\ f.n = sends + 1 /\ sends \in Nat
  BY DEF Frame, QueueInv, WakeInv, QueueTypes
<1> HIDE DEF f
<1>2. /\ sends' = sends + 1 /\ UNCHANGED <<outbound, wire, old, received>>
      /\ posted' \in {posted, Append(posted, f)}
  BY DEF Send, f, wireVars, serverVars
<1>3. CASE posted' = posted
  <2>1. InFlight' = InFlight
    BY <1>2, <1>3 DEF InFlight, Lingering
  <2> QED BY <1>2, <2>1 DEF NetworkStep, network!Next, network!Refuse, InFlight, Lingering
<1>4. CASE posted' = Append(posted, f)
  <2>1. frames(posted') = frames(posted) \cup {f}
    BY <1>1, <1>4, FramesAppend, FrameIsNoStop DEF QueueInv, WakeInv, QueueTypes
  <2>2. f \notin frames(received)
    <3>1. \A g \in Air : g.n \in Nat /\ g.n <= sends
      BY AirFrames, Zenon DEF AirInv, AirBehind, AirNumbered
    <3>2. \A g \in Air : g.n # sends + 1
      BY <1>1, <3>1
    <3>3. f \notin Air
      BY <1>1, <3>2, Zenon
    <3> QED BY <3>3, Zenon DEF Air
  <2>3. InFlight' = InFlight \cup {f}
    BY <1>2, <2>1, <2>2 DEF InFlight, Lingering
  <2>4. f \in InFlight' /\ f.n = sends + 1 /\ sends' = sends + 1 /\ received' = received
    BY <1>1, <1>2, <2>3
  <2> QED BY <2>3, <2>4 DEF NetworkStep, network!Next, network!Send, InFlight, Lingering
<1> QED BY <1>2, <1>3, <1>4

\* The Server at the other end gets a frame.
LEMMA ReceiveStep ==
  ASSUME AirInv, Receive
  PROVE  NetworkStep
<1> USE DEF queueVars
<1>1. UNCHANGED <<sends, posted, outbound>> /\ AirTypes /\ AirApart
  BY DEF Receive, AirInv
<1>2. ASSUME NEW f \in frames(wire) \cup Lingering, f \notin frames(received),
             received' = Append(received, f),
             frames(received') = frames(received) \cup {f},
             frames(wire) \cup Lingering = (frames(wire') \cup Lingering') \cup {f}
      PROVE  NetworkStep
  <2>1. f \in InFlight /\ InFlight' = InFlight \ {f}
    BY <1>1, <1>2 DEF InFlight
  <2> QED BY <1>1, <1>2, <2>1
          DEF NetworkStep, network!Next, network!Deliver, InFlight, Lingering
<1>3. CASE wire # <<>> /\ received' = Append(received, Head(wire))
           /\ wire' = Tail(wire) /\ UNCHANGED old
  <2>1. Lingering' = Lingering
    BY <1>3 DEF Lingering
  <2> QED BY <1>1, <1>2, <1>3, <2>1, ReceivesFromWire
<1>4. ASSUME NEW w \in old, received' = Append(received, Head(w)),
             old' = (old \ {w}) \cup (IF Len(w) = 1 THEN {} ELSE {Tail(w)}), UNCHANGED wire
      PROVE  NetworkStep
  <2>1. /\ Head(w) \notin frames(received) /\ Lingering = Lingering' \cup {Head(w)}
        /\ frames(received') = frames(received) \cup {Head(w)}
    BY <1>1, <1>4, ReceivesFromOld
  <2> QED BY <1>2, <1>4, <2>1
<1> QED BY <1>3, <1>4 DEF Receive

\* Every step of the transport is one of the network, or none.
LEMMA StepRefines ==
  ASSUME QueueInv, AirInv, Next
  PROVE  NetworkStep
<1> USE DEF queueVars, wireVars, serverVars
<1>1. QueueTypes /\ AirTypes /\ AirApart
  BY DEF QueueInv, WakeInv, AirInv
<1>2. ASSUME UNCHANGED <<sends, received>>, UNCHANGED <<wire, old>>,
             frames(posted') \subseteq frames(posted),
             frames(outbound') \subseteq frames(outbound) \cup frames(posted)
      PROVE  NetworkStep
  <2>1. frames(wire') = frames(wire) /\ Lingering' = Lingering
    BY <1>2 DEF Lingering
  <2> QED BY <1>2, <2>1, FramesMove, LosingStep
<1>3. ASSUME posted # <<>>, posted' = Tail(posted)
      PROVE  /\ frames(posted') \subseteq frames(posted)
             /\ Head(posted) # StopTask => Head(posted) \in frames(posted)
  BY <1>1, <1>3, FramesTail DEF QueueTypes
<1>4. closed_wires \subseteq old \cup {wire}
  BY DEF closed_wires
<1>5. CASE \E s \in Stream \cup {NoStream}, z \in Size :
             Send([n |-> sends + 1, stream |-> s, size |-> z])
  BY <1>5, SendStep
<1>6. CASE Receive
  BY <1>6, ReceiveStep
<1>7. CASE StopNode \/ ResolveDone \/ RetryDone
  <2>1. UNCHANGED <<sends, received, wire, old, posted, outbound>>
    BY <1>7 DEF StopNode, ResolveDone, RetryDone
  <2> QED BY <1>2, <2>1
<1>8. CASE StopPeer
  <2>1. UNCHANGED <<sends, received, wire, old, outbound>> /\ posted' = Append(posted, StopTask)
    BY <1>8 DEF StopPeer
  <2>2. frames(posted') \subseteq frames(posted)
    BY <1>1, <2>1, FramesAppend DEF QueueTypes
  <2> QED BY <1>2, <2>1, <2>2
<1>9. CASE DropFrame
  <2>1. UNCHANGED <<sends, received, wire, old, outbound>>
        /\ posted # <<>> /\ posted' = Tail(posted)
    BY <1>9 DEF DropFrame, RunsFrame
  <2> QED BY <1>2, <1>3, <2>1
<1>10. CASE ReplaceFrame \/ PushFrame
  <2>1. /\ UNCHANGED <<sends, received, wire, old>>
        /\ posted # <<>> /\ posted' = Tail(posted) /\ Head(posted) # StopTask
        /\ \/ outbound' = Append(outbound, Head(posted))
           \/ /\ outbound # <<>>
              /\ outbound' = [outbound EXCEPT ![Len(outbound)] = Head(posted)]
    BY <1>10 DEF ReplaceFrame, PushFrame, RunsFrame, replaces
  <2>2. Head(posted) \in Frame /\ Head(posted) \in frames(posted)
    BY <1>1, <1>3, <2>1, PostedFacts DEF RunsFrame
  <2>3. frames(outbound') \subseteq frames(outbound) \cup {Head(posted)}
    BY <1>1, <2>1, <2>2, FramesPushed, FramesReplaced DEF QueueTypes
  <2> QED BY <1>2, <1>3, <2>1, <2>2, <2>3
<1>11. CASE RunStop
  <2>1. /\ UNCHANGED <<sends, received>> /\ posted # <<>> /\ posted' = Tail(posted)
        /\ outbound' = <<>> /\ wire' = <<>> /\ old' = closed_wires
    BY <1>11 DEF RunStop
  <2>2. Lingering' \subseteq Lingering \cup frames(wire)
    BY <1>4, <2>1, Zenon DEF Lingering
  <2>3. frames(posted') \subseteq frames(posted) /\ frames(outbound') = {} /\ frames(wire') = {}
    BY <1>3, <2>1, FramesEmpty
  <2> QED BY <2>1, <2>2, <2>3, FramesMove, LosingStep
<1>12. CASE ConnectDone \/ ConnectionLost \/ ServerDown \/ ServerUp
  <2>1. /\ UNCHANGED <<sends, received, posted, outbound>>
        /\ wire' \in {wire, <<>>} /\ old' \subseteq old
    BY <1>12 DEF ConnectDone, ConnectionLost, ServerDown, ServerUp
  <2>2. Lingering' \subseteq Lingering
    BY <2>1, Zenon DEF Lingering
  <2>3. frames(wire') \subseteq frames(wire)
    BY <2>1, FramesEmpty
  <2> QED BY <2>1, <2>2, <2>3, FramesMove, LosingStep
<1>13. CASE FrameSent
  <2>1. UNCHANGED <<sends, received, posted, outbound, old>>
    BY <1>13 DEF FrameSent
  <2>2. Lingering' = Lingering
    BY <2>1 DEF Lingering
  <2>3. frames(wire') \subseteq frames(wire) \cup frames(outbound)
    BY <1>13, StepFrameSent
  <2> QED BY <2>1, <2>2, <2>3, FramesMove, LosingStep
<1>14. CASE WriteDone
  <2>1. /\ UNCHANGED <<sends, received, posted>>
        /\ outbound' = outbound \/ (outbound' = Tail(outbound) /\ ~stopping)
        /\ UNCHANGED <<wire, old>> \/ (wire' = <<>> /\ old' = closed_wires)
        /\ writing # NoWrite
    BY <1>14 DEF WriteDone
  <2>2. Lingering' \subseteq Lingering \cup frames(wire)
    BY <1>4, <2>1, Zenon DEF Lingering
  <2>3. frames(wire') \subseteq frames(wire)
    BY <2>1, FramesEmpty
  <2>4. frames(outbound') \subseteq frames(outbound)
    <3>1. CASE outbound' = outbound
      BY <3>1
    <3>2. CASE outbound' = Tail(outbound) /\ ~stopping
      <4>1. outbound # <<>>
        BY <2>1, <3>2 DEF QueueInv, WakeInv, Awake, FlagsMatch, OneAtATime
      <4>2. outbound \in Seq(Frame \cup {StopTask})
        BY <1>1, SeqMonotonic DEF QueueTypes
      <4> QED BY <3>2, <4>1, <4>2, FramesTail
    <3> QED BY <2>1, <3>1, <3>2
  <2> QED BY <2>1, <2>2, <2>3, <2>4, FramesMove, LosingStep
<1> QED BY <1>5, <1>6, <1>7, <1>8, <1>9, <1>10, <1>11, <1>12, <1>13, <1>14, Zenon DEF Next

\* The transport is a network that receives every frame handed to send() at
\* most once or loses it, and receives nothing else, for any limits, frames and
\* faults, retries and stops included (Peer::Impl, Server::Connection): what
\* module Cluster takes for granted with Consume = TRUE.
THEOREM TransportIsNetwork == Spec => ImplementsNetwork
<1>1. Init => network!Init
  <2> SUFFICES ASSUME Init PROVE network!Init
    OBVIOUS
  <2>1. sends = 0 /\ received = <<>> /\ InFlight = {}
    BY FramesEmpty DEF Init, InFlight, Lingering
  <2> QED BY <2>1 DEF network!Init, InFlight, Lingering
<1>2. QueueInv /\ AirInv /\ [Next]_vars
        => [network!Next]_<<sends, InFlight, received>>
  <2> SUFFICES ASSUME QueueInv, AirInv, [Next]_vars
               PROVE  NetworkStep
    BY DEF NetworkStep
  <2>1. CASE Next
    BY <2>1, StepRefines
  <2>2. CASE UNCHANGED vars
    <3>1. UNCHANGED <<sends, InFlight, received>>
      BY <2>2 DEF vars, queueVars, wireVars, serverVars, InFlight, Lingering
    <3> QED BY <3>1 DEF NetworkStep
  <2> QED BY <2>1, <2>2
<1> QED
  BY <1>1, <1>2, AirInvariant, PTL DEF Spec, ImplementsNetwork, network!Spec, InFlight, Lingering
=============================================================================
