--------------------------- MODULE PeerScheduler ---------------------------
(***************************************************************************)
(* The outgoing queue of one relayd connection: relay/scheduler.go with    *)
(* the goroutines of relay/fabric_hub.go that use it.  Senders are the     *)
(* read loops that forward a frame to this connection and the callers of   *)
(* enqueueControl; the writer is writeLoop; any handler may close.         *)
(*                                                                         *)
(* Every action is one critical section of s.mu, one channel operation or  *)
(* one write of the socket.  The payload of a frame is its sender and its  *)
(* number; sizes are kept because both budgets count them.                 *)
(***************************************************************************)
EXTENDS Naturals, Sequences, SequencesExt, FiniteSets

CONSTANTS Streams,             \* stream ids of the outer envelope
          NoStream,            \* the empty stream id
          Senders,
          NoFrame,
          FrameSizes,          \* sizes a frame may have
          MaxFrameBytes,
          MaxQueuedEnvelopes,
          MaxQueuedBytes,
          Traffic,             \* <<stream, control>> of the frames that arrive
          MaxFrames            \* bound: frames that arrive

ASSUME SchedulerAssumption ==
    /\ NoStream \notin Streams
    /\ MaxFrameBytes \in Nat \ {0} /\ FrameSizes \subseteq 1..MaxFrameBytes
    /\ MaxQueuedEnvelopes \in Nat \ {0} /\ MaxQueuedBytes \in Nat \ {0}
    /\ Traffic \subseteq (Streams \cup {NoStream}) \X BOOLEAN
    /\ MaxFrames \in Nat

(* newPeerScheduler                                                        *)
AtLeast(a, b) == IF a >= b THEN a ELSE b
AtMost(a, b)  == IF a <= b THEN a ELSE b
MaxDataCount  == MaxQueuedEnvelopes
                 - AtMost(AtLeast(1, MaxQueuedEnvelopes \div 8), MaxQueuedEnvelopes)
MaxDataBytes  == MaxQueuedBytes
                 - AtMost(AtLeast(MaxQueuedBytes \div 8, MaxFrameBytes), MaxQueuedBytes)

(* The default budgets hold at least one frame of each priority.  A        *)
(* connection whose data budget is smaller than a frame never sends it.    *)
ASSUME FramesFit ==
    MaxDataCount > 0 /\ MaxFrameBytes <= MaxDataBytes

LaneIds == Streams \cup {NoStream}   \* NoStream stands for "_unclassified"
Frames  == [from : Senders, n : 0..MaxFrames, stream : LaneIds,
            control : BOOLEAN, size : FrameSizes]

VARIABLES control,      \* frames that bypass the lanes
          lanes,        \* dataByStream
          streamOrder,  \* round-robin order of the lanes that hold frames
          nextStream,   \* zero-based index into streamOrder
          queued,       \* the four counters
          signal,       \* the token of the channel the writer waits on
          space,        \* the token of the channel refused senders wait on
          sender,       \* per sender: pc and the frame it could not enqueue
          writer,       \* pc and the frame it took last
          conn,         \* "open", then the three steps of conn.close
          arrived       \* frames numbered so far

schedQueue == <<control, lanes, streamOrder, nextStream, queued>>
schedVars  == <<control, lanes, streamOrder, nextStream, queued, signal, space,
                sender, writer, conn, arrived>>

NothingQueued == [bytes |-> 0, count |-> 0, dataBytes |-> 0, dataCount |-> 0]

SchedInit ==
    /\ control = <<>>
    /\ lanes = [l \in LaneIds |-> <<>>]
    /\ streamOrder = <<>>
    /\ nextStream = 0
    /\ queued = NothingQueued
    /\ signal = FALSE /\ space = FALSE
    /\ sender = [s \in Senders |-> [pc |-> "idle", frame |-> NoFrame]]
    /\ writer = [pc |-> "parked", frame |-> NoFrame]
    /\ conn = "open"
    /\ arrived = 0

-----------------------------------------------------------------------------
(* Senders: conn.enqueue, enqueueWait                                      *)

QueueFull(f) ==
    \/ queued.bytes + f.size > MaxQueuedBytes
    \/ queued.count >= MaxQueuedEnvelopes

(* Mutated form: small frames are admitted up to the whole queue.          *)
DataBytesFull(f) == ~f.control /\ queued.dataBytes + f.size > MaxDataBytes

DataFull(f) ==
    /\ ~f.control
    /\ \/ queued.dataBytes + f.size > MaxDataBytes
       \/ queued.dataCount >= MaxDataCount

(* Mutated form: control ignores what its stream has queued.               *)
OvertakesAlways(f) == f.control

(* A control frame bypasses the lanes unless its stream has frames queued. *)
BypassesLanes(f) == f.control /\ (f.stream = NoStream \/ lanes[f.stream] = <<>>)

SlowConsumer(f) == QueueFull(f) \/ (~BypassesLanes(f) /\ DataFull(f))

Budget(f) == IF f.control THEN 0 ELSE 1

Counted(f) == [bytes     |-> queued.bytes + f.size,
               count     |-> queued.count + 1,
               dataBytes |-> queued.dataBytes + Budget(f) * f.size,
               dataCount |-> queued.dataCount + Budget(f)]

Uncounted(f) == [bytes     |-> queued.bytes - f.size,
                 count     |-> queued.count - 1,
                 dataBytes |-> queued.dataBytes - Budget(f) * f.size,
                 dataCount |-> queued.dataCount - Budget(f)]

(* Mutated form: a lane takes a place in the order for each frame.         *)
PlacePerFrame(l) == Append(streamOrder, l)

OrderWith(l) == IF lanes[l] = <<>> THEN Append(streamOrder, l) ELSE streamOrder

EnqueueLocked(f) ==
    /\ queued' = Counted(f)
    /\ signal' = TRUE
    /\ IF BypassesLanes(f)
       THEN /\ control' = Append(control, f)
            /\ UNCHANGED <<lanes, streamOrder>>
       ELSE /\ lanes' = [lanes EXCEPT ![f.stream] = Append(@, f)]
            /\ streamOrder' = OrderWith(f.stream)
            /\ UNCHANGED control
    /\ UNCHANGED nextStream

(* One turn of enqueueWait's loop, under the lock.  done is not consulted  *)
(* before the queue refuses.                                               *)
EnqueueTurn(s, f) ==
    \/ /\ ~SlowConsumer(f)
       /\ EnqueueLocked(f)
       /\ sender' = [sender EXCEPT ![s] = [pc |-> "idle", frame |-> NoFrame]]
    \/ /\ SlowConsumer(f)
       /\ sender' = [sender EXCEPT ![s] = [pc |-> "waiting", frame |-> f]]
       /\ UNCHANGED <<schedQueue, signal>>

ForwardFrame(s) ==
    /\ sender[s].pc = "idle"
    /\ arrived < MaxFrames
    /\ arrived' = arrived + 1
    /\ \E kind \in Traffic, size \in FrameSizes :
         EnqueueTurn(s, [from |-> s, n |-> arrived', stream |-> kind[1],
                         control |-> kind[2], size |-> size])
    /\ UNCHANGED <<space, writer, conn>>

RetryEnqueue(s) ==
    /\ sender[s].pc = "woken"
    /\ EnqueueTurn(s, sender[s].frame)
    /\ UNCHANGED <<space, writer, conn, arrived>>

WakeForSpace(s) ==
    /\ sender[s].pc = "waiting" /\ space
    /\ space' = FALSE
    /\ sender' = [sender EXCEPT ![s].pc = "woken"]
    /\ UNCHANGED <<schedQueue, signal, writer, conn, arrived>>

(* ctx.Done of the sender, or done of this connection: the enqueue fails   *)
(* and the sender's own connection ends (serve returns the error).         *)
EnqueueFails(s) ==
    /\ sender[s].pc = "waiting"
    /\ sender' = [sender EXCEPT ![s].pc = "gone", ![s].frame = NoFrame]
    /\ UNCHANGED <<schedQueue, signal, space, writer, conn, arrived>>

SenderReleased(s) == conn = "closed" /\ EnqueueFails(s)

-----------------------------------------------------------------------------
(* The writer: next, signalSpace and the write                             *)

(* nextStream after the lane at index (zero-based) was served              *)
AfterRemoval(index) ==
    IF Len(streamOrder) = 1 THEN 0 ELSE index % (Len(streamOrder) - 1)
AfterService(index) == (index + 1) % Len(streamOrder)

TakeControl ==
    /\ control # <<>>
    /\ control' = Tail(control)
    /\ queued' = Uncounted(Head(control))
    /\ writer' = [pc |-> "taken", frame |-> Head(control)]
    /\ UNCHANGED <<lanes, streamOrder, nextStream>>

TakeFromLane ==
    /\ control = <<>> /\ streamOrder # <<>>
    /\ LET index == nextStream % Len(streamOrder)
           lane  == streamOrder[index + 1]
           frame == Head(lanes[lane])
       IN  /\ lanes[lane] # <<>>
           /\ lanes' = [lanes EXCEPT ![lane] = Tail(@)]
           /\ IF Len(lanes[lane]) = 1
              THEN /\ streamOrder' = RemoveAt(streamOrder, index + 1)
                   /\ nextStream' = AfterRemoval(index)
              ELSE /\ nextStream' = AfterService(index)
                   /\ UNCHANGED streamOrder
           /\ queued' = Uncounted(frame)
           /\ writer' = [pc |-> "taken", frame |-> frame]
    /\ UNCHANGED control

(* The loop over streamOrder looks at the same lane every time round       *)
(* (nextStream does not move when a lane is empty), so one look decides.   *)
NothingToTake ==
    /\ control = <<>>
    /\ streamOrder # <<>>
         => lanes[streamOrder[(nextStream % Len(streamOrder)) + 1]] = <<>>
    /\ writer' = [writer EXCEPT !.pc = "parked"]
    /\ UNCHANGED schedQueue

WriterNext ==
    /\ writer.pc = "scan"
    /\ TakeControl \/ TakeFromLane \/ NothingToTake
    /\ UNCHANGED <<signal, space, sender, conn, arrived>>

WriterWakes ==
    /\ writer.pc = "parked" /\ signal
    /\ signal' = FALSE
    /\ writer' = [writer EXCEPT !.pc = "scan"]
    /\ UNCHANGED <<schedQueue, space, sender, conn, arrived>>

(* Mutated form: space freed by a control frame wakes nobody.              *)
SignalsForDataOnly == IF writer.frame.control THEN space ELSE TRUE

SignalSpace == TRUE

WriterSignals ==
    /\ writer.pc = "taken"
    /\ space' = SignalSpace
    /\ writer' = [writer EXCEPT !.pc = "writing"]
    /\ UNCHANGED <<schedQueue, signal, sender, conn, arrived>>

WriteSucceeds ==
    /\ writer.pc = "writing" /\ conn = "open"
    /\ writer' = [writer EXCEPT !.pc = "scan"]
    /\ UNCHANGED <<schedQueue, signal, space, sender, conn, arrived>>

(* A write error or its ten-second timeout closes the connection.          *)
WriteFails ==
    /\ writer.pc = "writing"
    /\ writer' = [writer EXCEPT !.pc = "stopped"]
    /\ conn' = IF conn = "open" THEN "socket" ELSE conn
    /\ UNCHANGED <<schedQueue, signal, space, sender, arrived>>

WriterCancelled ==
    /\ writer.pc = "parked" /\ conn # "open"
    /\ writer' = [writer EXCEPT !.pc = "stopped"]
    /\ UNCHANGED <<schedQueue, signal, space, sender, conn, arrived>>

-----------------------------------------------------------------------------
(* conn.close: the socket, then scheduler.close, then done                 *)

CloseSocket ==
    /\ conn = "open"
    /\ conn' = "socket"
    /\ UNCHANGED <<schedQueue, signal, space, sender, writer, arrived>>

(* Mutated form: the data counters survive the queue they counted.         *)
KeepsDataCounters == [NothingQueued EXCEPT !.dataBytes = queued.dataBytes,
                                           !.dataCount = queued.dataCount]

CountersAfterClose == NothingQueued

CloseQueue ==
    /\ conn = "socket"
    /\ conn' = "drained"
    /\ control' = <<>>
    /\ lanes' = [l \in LaneIds |-> <<>>]
    /\ streamOrder' = <<>>
    /\ queued' = CountersAfterClose
    /\ UNCHANGED <<nextStream, signal, space, sender, writer, arrived>>

CloseDone ==
    /\ conn = "drained"
    /\ conn' = "closed"
    /\ UNCHANGED <<schedQueue, signal, space, sender, writer, arrived>>

-----------------------------------------------------------------------------
SenderStep(s) == RetryEnqueue(s) \/ WakeForSpace(s) \/ SenderReleased(s)

WriterStep == WriterNext \/ WriterWakes \/ WriterSignals \/ WriteSucceeds \/ WriterCancelled

CloserStep == CloseQueue \/ CloseDone

SchedNext ==
    \/ \E s \in Senders : \/ ForwardFrame(s) \/ WakeForSpace(s)
                          \/ RetryEnqueue(s) \/ EnqueueFails(s)
    \/ WriterNext \/ WriterWakes \/ WriterSignals
    \/ WriteSucceeds \/ WriteFails \/ WriterCancelled
    \/ CloseSocket \/ CloseQueue \/ CloseDone

(* The goroutines run: a write ends or times out, a woken sender retries,  *)
(* a started close goes on.  Frames may stop arriving.                     *)
SchedFairness ==
    /\ WF_schedVars(WriterStep)
    /\ WF_schedVars(writer.pc = "writing" /\ conn # "open" /\ WriteFails)
    /\ WF_schedVars(CloserStep)
    /\ \A s \in Senders : WF_schedVars(SenderStep(s))

SchedSpec == SchedInit /\ [][SchedNext]_schedVars /\ SchedFairness

-----------------------------------------------------------------------------
(* Every variable has its type.                                            *)
SchedTypeOK ==
    /\ control \in Seq(Frames)
    /\ lanes \in [LaneIds -> Seq(Frames)]
    /\ streamOrder \in Seq(LaneIds)
    /\ nextStream \in Nat
    /\ queued \in [bytes : Nat, count : Nat, dataBytes : Nat, dataCount : Nat]
    /\ signal \in BOOLEAN /\ space \in BOOLEAN
    /\ sender \in [Senders -> [pc : {"idle", "waiting", "woken", "gone"},
                               frame : Frames \cup {NoFrame}]]
    /\ writer \in [pc : {"scan", "taken", "writing", "parked", "stopped"},
                   frame : Frames \cup {NoFrame}]
    /\ conn \in {"open", "socket", "drained", "closed"}
    /\ arrived \in 0..MaxFrames

(* Frames the queue holds.  No two frames are equal: a frame has a number. *)
QueuedFrames == Range(control) \cup UNION {Range(lanes[l]) : l \in LaneIds}

Holding(Test(_)) == Cardinality({f \in QueuedFrames : Test(f)})

(* A frame of n bytes holds its bytes 1..n.                                *)
BytesOf(S) == UNION {{f} \X (1..f.size) : f \in S}

HoldingBytes(Test(_)) == Cardinality(BytesOf({f \in QueuedFrames : Test(f)}))

(* The round-robin order names exactly the lanes that hold frames, each    *)
(* once.  next serves nothing else: a lane missing from the order, or an   *)
(* empty lane in it, would stop the connection's data for good             *)
(* (scheduler.go:114-116, 174-194).                                        *)
LanesAreScheduled ==
    /\ \A l \in LaneIds : lanes[l] # <<>> <=> l \in Range(streamOrder)
    /\ \A i, j \in DOMAIN streamOrder : streamOrder[i] = streamOrder[j] => i = j

(* However the senders interleave with the writer and with close, the      *)
(* four counters that admit frames say what the queue holds, in frames and *)
(* in bytes, all of it and the data alone: a leak would narrow the         *)
(* connection for the rest of its life (scheduler.go:123-124, 149-152,     *)
(* 195-201).  A frame queued twice would be counted twice.                 *)
CountersMatchQueue ==
    /\ queued.count = Holding(LAMBDA f : TRUE)
    /\ queued.bytes = HoldingBytes(LAMBDA f : TRUE)
    /\ queued.dataCount = Holding(LAMBDA f : ~f.control)
    /\ queued.dataBytes = HoldingBytes(LAMBDA f : ~f.control)

(* Bulk data alone never refuses a control frame of any legal size: when   *)
(* one has to wait, other control frames hold the reserve                  *)
(* (scheduler.go:102-104).                                                 *)
BulkNeverBlocksControl ==
    (\/ queued.count >= MaxQueuedEnvelopes
     \/ queued.bytes + MaxFrameBytes > MaxQueuedBytes)
    => Holding(LAMBDA f : f.control) > 0

(* No wake-up is lost: with one token for all the refused senders, each    *)
(* of them gets its turn, or the connection ends (scheduler.go:62-86,      *)
(* 133-138).                                                               *)
RefusedSendersProceed ==
    \A s \in Senders : []<>(sender[s].pc # "waiting")

(* The queue is a FIFO per stream, across priorities (scheduler.go:93-97). *)
(* Frames without a stream id are ordered within their priority only.      *)
OrderDomains == (Streams \X {"both"}) \cup ({NoStream} \X {"control", "data"})
OrderDomain(f) ==
    <<f.stream, IF f.stream # NoStream THEN "both"
                ELSE IF f.control THEN "control" ELSE "data">>

(* Those of a sequence, in its order: SelectSeq, as a recursive function.  *)
FramesOf(d, seq) ==
    LET upTo[k \in 0 .. Len(seq)] ==
            IF k = 0 THEN <<>>
            ELSE IF OrderDomain(seq[k]) = d THEN Append(upTo[k - 1], seq[k])
            ELSE upTo[k - 1]
    IN  upTo[Len(seq)]

PendingOf(d) == FramesOf(d, control) \o FramesOf(d, lanes[d[1]])

Fifo == INSTANCE StreamFifo WITH
            Lanes   <- OrderDomains,
            Frames  <- Frames,
            LaneOf  <- OrderDomain,
            pending <- [d \in OrderDomains |-> PendingOf(d)],
            taken   <- writer.frame

StreamsStayOrdered == Fifo!FifoSpec
=============================================================================
