------------------------------ MODULE DataStream ------------------------------
(***************************************************************************)
(* The exchange of row batches between plan fragments: DataStreamSender and  *)
(* its Channels (be/src/runtime/data-stream-sender.cc) on one side,          *)
(* DataStreamMgr and its StreamControlBlocks (data-stream-mgr.cc) with the   *)
(* ExchangeNode that reads them on the other, and the TransmitData calls     *)
(* between them, which may fail and are retried once.                        *)
(*                                                                           *)
(* Every receiver is on a node of its own and is created before any sender   *)
(* starts: the coordinator starts a fragment only after the fragments it     *)
(* sends to have been prepared.  A sender has one Channel per receiver, and  *)
(* each Channel an rpc thread with at most one call.  A call is served by a  *)
(* handler, a thread of the receiver's server.                               *)
(***************************************************************************)
EXTENDS Integers, Sequences, FiniteSets

CONSTANTS
    Senders,
    NumReceivers,   \* the number of channels of each sender
    Broadcast,      \* broadcast_, or else rows are partitioned by hash
    NumRows,        \* bound on the rows each sender sends
    Capacity,       \* rows in a channel's batch_
    BufferLimit,    \* buffer_limit_, in rows
    MaxFaults,      \* bound on failing connections and calls
    LateFaults      \* a call may fail although its request has arrived

Receivers == 1 .. NumReceivers
Buffers == {1, 2}

ASSUME StreamAssumption ==
    /\ IsFiniteSet(Senders) /\ Senders # {}
    /\ NumReceivers \in Nat \ {0} /\ NumRows \in Nat /\ Capacity \in Nat \ {0}
    /\ BufferLimit \in Nat /\ MaxFaults \in Nat
    /\ Broadcast \in BOOLEAN /\ LateFaults \in BOOLEAN

VARIABLES
    sender,     \* per sender: where it is, rows sent, its channel and its buffers
    channel,    \* per sender and receiver, the Channel
    handlers,   \* the calls being served
    recvr,      \* per receiver, its control block and its thread
    mgr,        \* per receiver's node: who holds DataStreamMgr's lock_, and where
    sent,       \* history: the rows given to each channel
    received,   \* history: the rows of each channel that GetBatch returned
    faults      \* the failures so far, and whether one was of a call that had arrived

vars == <<sender, channel, handlers, recvr, mgr, sent, received, faults>>

-------------------------------------------------------------------------------
(* State *)

NewSender == [pc |-> "ready", failed |-> FALSE, row |-> 0, chan |-> 1, current |-> 1,
              buffers |-> [b \in Buffers |-> <<>>]]

\* item is the buffer that was offered to rpc_thread_ and not yet taken: one of the
\* sender's, or the channel's thrift_batch_; pc, kind and rows are of the call the
\* channel is in.
NoItem == 0
Own == 3

NewChannel == [batch |-> <<>>, thrift |-> <<>>, item |-> NoItem, in_flight |-> FALSE,
               ok |-> TRUE, pc |-> "idle", kind |-> "data", rows |-> <<>>, eos |-> "no"]

NewRecvr == [registered |-> TRUE, cancelled |-> FALSE, queue |-> <<>>, buffered |-> 0,
             remaining |-> Cardinality(Senders), timer |-> FALSE,
             pc |-> "get", outcome |-> "open"]

Init ==
    /\ sender = [s \in Senders |-> NewSender]
    /\ channel = [s \in Senders |-> [r \in Receivers |-> NewChannel]]
    /\ handlers = {}
    /\ recvr = [r \in Receivers |-> NewRecvr]
    /\ mgr = [r \in Receivers |-> "free"]
    /\ sent = [s \in Senders |-> [r \in Receivers |-> <<>>]]
    /\ received = sent
    /\ faults = [n |-> 0, late |-> FALSE]

Unused == <<handlers, recvr, mgr, received, faults>>

-------------------------------------------------------------------------------
(* The sender's own thread *)

\* SendBatch, once the previous rpc is over and its status is OK: the buffer is
\* offered to rpc_thread_, which has room for it.
Offered(c, item) == [c EXCEPT !.in_flight = TRUE, !.item = item]

\* An error of Send ends the fragment, which is closed; the coordinator learns of it.
Fails(q) == [q EXCEPT !.pc = "close", !.chan = 1, !.failed = TRUE]

\* Whole batches go to every channel, or each row to the channel of its hash.
Whole == Broadcast \/ NumReceivers = 1

\* Send of a whole batch: it is serialized into the current buffer, ...
Send(s) ==
    /\ Whole
    /\ sender[s].pc = "ready"
    /\ \E size \in 1 .. Capacity :
          LET first == sender[s].row + 1
              last == sender[s].row + size
          IN  /\ last <= NumRows
              /\ sender' = [sender EXCEPT ![s].pc = "send", ![s].row = last, ![s].chan = 1,
                               ![s].buffers[sender[s].current] = [i \in 1 .. size |-> first + i - 1]]
    /\ UNCHANGED <<channel, sent>> /\ UNCHANGED Unused

NextBuffer(b) == 3 - b

\* ... which is then offered to one channel after the other.  SendBatch waits for
\* the channel's last rpc; its error ends Send, and the fragment.
SendBatch(s) ==
    LET r == sender[s].chan
        c == channel[s][r]
    IN  /\ sender[s].pc = "send"
        /\ ~ c.in_flight
        /\ \/ /\ c.ok
              /\ channel' = [channel EXCEPT ![s][r] = Offered(c, sender[s].current)]
              /\ sent' = [sent EXCEPT ![s][r] = @ \o sender[s].buffers[sender[s].current]]
              /\ sender' = IF r < NumReceivers
                           THEN [sender EXCEPT ![s].chan = r + 1]
                           ELSE [sender EXCEPT ![s].pc = "ready",
                                               ![s].current = NextBuffer(@)]
           \/ /\ ~ c.ok
              /\ sender' = [sender EXCEPT ![s] = Fails(@)]
              /\ UNCHANGED <<channel, sent>>
        /\ UNCHANGED Unused

\* Send, partitioning, for one row: AddRow copies it into the channel's batch_.
AddRow(s, r) ==
    LET c == channel[s][r]
        row == sender[s].row + 1
    IN  /\ ~ Whole
        /\ sender[s].pc = "ready"
        /\ row <= NumRows
        /\ Len(c.batch) < Capacity
        /\ channel' = [channel EXCEPT ![s][r].batch = Append(@, row)]
        /\ sent' = [sent EXCEPT ![s][r] = Append(@, row)]
        /\ sender' = [sender EXCEPT ![s].row = row]
        /\ UNCHANGED Unused

\* A full batch_ goes first: SendCurrentBatch waits for the rpc, serializes into
\* thrift_batch_, resets batch_ and calls SendBatch.
SendFullBatch(s, r) ==
    LET c == channel[s][r]
        row == sender[s].row + 1
    IN  /\ ~ Whole
        /\ sender[s].pc = "ready"
        /\ row <= NumRows
        /\ Len(c.batch) = Capacity
        /\ ~ c.in_flight
        /\ \/ /\ c.ok
              /\ channel' = [channel EXCEPT ![s][r] =
                               [Offered(c, Own) EXCEPT !.thrift = c.batch, !.batch = <<row>>]]
              /\ sent' = [sent EXCEPT ![s][r] = Append(@, row)]
              /\ sender' = [sender EXCEPT ![s].row = row]
           \/ /\ ~ c.ok
              /\ channel' = [channel EXCEPT ![s][r].thrift = c.batch, ![s][r].batch = <<>>]
              /\ sender' = [sender EXCEPT ![s] = Fails(@)]
              /\ UNCHANGED sent
        /\ UNCHANGED Unused

\* The fragment is done, or has failed or was cancelled.
StartClose(s) ==
    /\ sender[s].pc = "ready"
    /\ sender' = [sender EXCEPT ![s].pc = "close", ![s].chan = 1]
    /\ UNCHANGED <<channel, sent>> /\ UNCHANGED Unused

\* Mutant: rows left in batch_ are not sent.
CloseFlushNothing(s) ==
    /\ sender[s].pc = "close"
    /\ sender' = [sender EXCEPT ![s].pc = "status"]
    /\ UNCHANGED <<channel, sent>> /\ UNCHANGED Unused

\* CloseInternal of the next channel: rows left in batch_ are sent.
CloseFlush(s) ==
    LET r == sender[s].chan
        c == channel[s][r]
    IN  /\ sender[s].pc = "close"
        /\ \/ /\ c.batch = <<>>
              /\ sender' = [sender EXCEPT ![s].pc = "status"]
              /\ UNCHANGED channel
           \/ /\ c.batch # <<>> /\ ~ c.in_flight /\ c.ok
              /\ channel' = [channel EXCEPT ![s][r] =
                               [Offered(c, Own) EXCEPT !.thrift = c.batch, !.batch = <<>>]]
              /\ sender' = [sender EXCEPT ![s].pc = "status"]
           \/ /\ c.batch # <<>> /\ ~ c.in_flight /\ ~ c.ok
              /\ channel' = [channel EXCEPT ![s][r].thrift = c.batch, ![s][r].batch = <<>>]
              /\ sender' = [sender EXCEPT ![s].pc = "drain"]
        /\ UNCHANGED sent /\ UNCHANGED Unused

-------------------------------------------------------------------------------
(* Calls *)

Call(s, r, kind, rows, n) == [s |-> s, r |-> r, kind |-> kind, rows |-> rows, n |-> n,
                              orphan |-> FALSE, pc |-> "find", timer |-> FALSE]

InCall(c, pc, kind, rows) == [c EXCEPT !.pc = pc, !.kind = kind, !.rows = rows]

\* A connection or a call fails; late, if the call's request had arrived.
Fault(late) ==
    /\ faults.n < MaxFaults
    /\ late => LateFaults
    /\ faults' = [n |-> faults.n + 1, late |-> faults.late \/ late]

\* GetSendStatus, then the end-of-stream call, on the sender's own thread; an
\* earlier error, or no connection, ends CloseInternal.
CloseStatus(s) ==
    LET r == sender[s].chan
        c == channel[s][r]
    IN  /\ sender[s].pc = "status"
        /\ ~ c.in_flight
        /\ \/ /\ c.ok
              /\ handlers' = handlers \cup {Call(s, r, "eos", <<>>, 1)}
              /\ channel' = [channel EXCEPT ![s][r] =
                               [InCall(c, "call", "eos", <<>>) EXCEPT !.eos = "sent"]]
              /\ sender' = [sender EXCEPT ![s].pc = "eos"]
              /\ UNCHANGED faults
           \/ /\ c.ok
              /\ Fault(FALSE)
              /\ sender' = [sender EXCEPT ![s].pc = "drain"]
              /\ channel' = [channel EXCEPT ![s][r].eos = "failed"]
              /\ UNCHANGED handlers
           \/ /\ ~ c.ok
              /\ sender' = [sender EXCEPT ![s].pc = "drain"]
              /\ UNCHANGED <<channel, handlers, faults>>
        /\ UNCHANGED <<recvr, mgr, sent, received>>

\* rpc_thread_.DrainAndShutdown, then the next channel.
CloseDrain(s) ==
    LET r == sender[s].chan
    IN  /\ sender[s].pc = "drain"
        /\ channel[s][r].item = NoItem /\ channel[s][r].pc = "idle"
        /\ sender' = IF r < NumReceivers
                     THEN [sender EXCEPT ![s].pc = "close", ![s].chan = r + 1]
                     ELSE [sender EXCEPT ![s].pc = "done"]
        /\ UNCHANGED <<channel, sent>> /\ UNCHANGED Unused

Contents(s, c) == IF c.item = Own THEN c.thrift ELSE sender[s].buffers[c.item]

\* Mutant: a connection that fails leaves rpc_status_ as it was.
TransmitDataForgets(s, r) ==
    LET c == channel[s][r]
        taken == [c EXCEPT !.item = NoItem]
    IN  /\ c.item # NoItem
        /\ c.pc = "idle"
        /\ \/ /\ handlers' = handlers \cup {Call(s, r, "data", Contents(s, c), 1)}
              /\ channel' = [channel EXCEPT ![s][r] =
                               InCall(taken, "call", "data", Contents(s, c))]
              /\ UNCHANGED faults
           \/ /\ Fault(FALSE)
              /\ channel' = [channel EXCEPT ![s][r] = [taken EXCEPT !.in_flight = FALSE]]
              /\ UNCHANGED handlers
        /\ UNCHANGED <<sender, recvr, mgr, sent, received>>

\* TransmitData, on the rpc thread: the batch is copied out of its buffer, and
\* sent if there is a connection.
TransmitData(s, r) ==
    LET c == channel[s][r]
        taken == [c EXCEPT !.item = NoItem]
    IN  /\ c.item # NoItem
        /\ c.pc = "idle"
        /\ \/ /\ handlers' = handlers \cup {Call(s, r, "data", Contents(s, c), 1)}
              /\ channel' = [channel EXCEPT ![s][r] =
                               InCall(taken, "call", "data", Contents(s, c))]
              /\ UNCHANGED faults
           \/ /\ Fault(FALSE)
              /\ channel' = [channel EXCEPT ![s][r] =
                               [taken EXCEPT !.ok = FALSE, !.in_flight = FALSE]]
              /\ UNCHANGED handlers
        /\ UNCHANGED <<sender, recvr, mgr, sent, received>>

\* The end of a call, on the rpc thread (rpc_status_, rpc_in_flight_) or, for
\* end-of-stream, on the sender's thread.
EndCall(s, r, ok) ==
    LET c == channel[s][r]
    IN  IF c.kind = "data"
        THEN /\ channel' = [channel EXCEPT ![s][r] =
                              [c EXCEPT !.pc = "idle", !.in_flight = FALSE, !.ok = ok]]
             /\ UNCHANGED sender
        ELSE /\ channel' = [channel EXCEPT ![s][r] =
                              [c EXCEPT !.pc = "idle", !.eos = IF ok THEN "ok" ELSE "failed"]]
             /\ sender' = [sender EXCEPT ![s].pc = "drain"]

\* The handler whose answer the channel waits for.
ServedBy(s, r) == {h \in handlers : h.s = s /\ h.r = r /\ ~ h.orphan}

CallReturns(s, r) ==
    /\ channel[s][r].pc # "idle"
    /\ \E h \in ServedBy(s, r) : h.pc = "done" /\ handlers' = handlers \ {h}
    /\ EndCall(s, r, TRUE)
    /\ UNCHANGED <<recvr, mgr, sent, received, faults>>

\* A TTransportException: the request was lost on its way, or it is served although
\* nobody waits for the answer any more.
Lost(h) ==
    \/ /\ h.pc = "find"
       /\ Fault(FALSE)
       /\ handlers' = handlers \ {h}
    \/ /\ Fault(TRUE)
       /\ handlers' = (handlers \ {h}) \cup
                         (IF h.pc = "done" THEN {} ELSE {[h EXCEPT !.orphan = TRUE]})

\* The first exception is caught and the connection reopened, the second ends the
\* call with an error.
CallThrows(s, r) ==
    /\ channel[s][r].pc \in {"call", "retry"}
    /\ \E h \in ServedBy(s, r) : Lost(h)
    /\ \/ /\ channel[s][r].pc = "call"
          /\ channel' = [channel EXCEPT ![s][r].pc = "reopen"]
          /\ UNCHANGED sender
       \/ /\ channel[s][r].pc = "retry"
          /\ EndCall(s, r, FALSE)
    /\ UNCHANGED <<recvr, mgr, sent, received>>

\* Reopen, and the second and last attempt.
Retry(s, r) ==
    LET c == channel[s][r]
    IN  /\ c.pc = "reopen"
        /\ \/ /\ handlers' = handlers \cup {Call(s, r, c.kind, c.rows, 2)}
              /\ channel' = [channel EXCEPT ![s][r] = InCall(c, "retry", c.kind, c.rows)]
              /\ UNCHANGED <<sender, faults>>
           \/ /\ Fault(FALSE)
              /\ EndCall(s, r, FALSE)
              /\ UNCHANGED handlers
        /\ UNCHANGED <<recvr, mgr, sent, received>>

-------------------------------------------------------------------------------
(* The receiver's server: one handler per call *)

Size(rows) == Len(rows)

\* A handler goes on at pc; one nobody waits for goes away when it is done.
Moved(hs, h, pc) ==
    (hs \ {h}) \cup (IF pc = "done" /\ h.orphan THEN {}
                     ELSE {[h EXCEPT !.pc = pc, !.timer = FALSE]})

\* data_removal_.notify_one(): one handler that waits, if any, is woken.
Waiters(hs, r) == {h \in hs : h.r = r /\ h.pc = "wait"}

\* Mutant: nobody is notified.
WokenNobody(hs, r) == {hs}

Woken(hs, r) ==
    IF Waiters(hs, r) = {} THEN {hs}
    ELSE {(hs \ {h}) \cup {[h EXCEPT !.pc = "woken"]} : h \in Waiters(hs, r)}

\* data_arrival_.notify_one(): the receiver's thread is the only one that waits.
Arrival(q) == [q EXCEPT !.pc = IF @ = "wait" THEN "get" ELSE @]

\* AddData and CloseSender look the control block up; without one they return OK.
FindControlBlock(h) ==
    /\ h.pc = "find"
    /\ mgr[h.r] = "free"
    /\ handlers' = Moved(handlers, h, IF ~ recvr[h.r].registered THEN "done"
                                      ELSE IF h.kind = "eos" THEN "dec" ELSE "add")
    /\ UNCHANGED <<sender, channel, recvr, mgr, sent, received, faults>>

\* There is something in the queue and this batch would push it over the limit.
BufferFull(q, rows) == q.queue # <<>> /\ q.buffered + Size(rows) > BufferLimit

\* AddBatch, up to its end or to the next wait, with the block's lock_ held.  A
\* handler that was waiting gives up buffer_wall_timer_lock_ if it had it and
\* then wakes another.
AddBatch(h) ==
    LET q == recvr[h.r]
        freed == [q EXCEPT !.timer = @ /\ ~ h.timer]
    IN  /\ h.pc \in {"add", "woken"}
        /\ \E hs \in IF h.timer THEN Woken(handlers, h.r) ELSE {handlers} :
              \/ /\ q.cancelled
                 /\ recvr' = [recvr EXCEPT ![h.r] = freed]
                 /\ handlers' = Moved(hs, h, "done")
              \/ /\ ~ q.cancelled
                 /\ BufferFull(q, h.rows)
                 /\ recvr' = [recvr EXCEPT ![h.r].timer = TRUE]
                 /\ handlers' = (hs \ {h}) \cup
                                {[h EXCEPT !.pc = "wait", !.timer = ~ freed.timer]}
              \/ /\ ~ q.cancelled
                 /\ ~ BufferFull(q, h.rows)
                 /\ recvr' = [recvr EXCEPT ![h.r] =
                                Arrival([freed EXCEPT
                                    !.queue = Append(@, [s |-> h.s, rows |-> h.rows]),
                                    !.buffered = @ + Size(h.rows)])]
                 /\ handlers' = Moved(hs, h, "done")
        /\ UNCHANGED <<sender, channel, mgr, sent, received, faults>>

AddSpurious(h) ==
    /\ h.pc = "wait"
    /\ handlers' = (handlers \ {h}) \cup {[h EXCEPT !.pc = "woken"]}
    /\ UNCHANGED <<sender, channel, recvr, mgr, sent, received, faults>>

\* Mutant: min for max.
DecrementSendersToZero(h) ==
    /\ h.pc = "dec"
    /\ recvr' = [recvr EXCEPT ![h.r] = Arrival([@ EXCEPT !.remaining = 0])]
    /\ handlers' = Moved(handlers, h, "done")
    /\ UNCHANGED <<sender, channel, mgr, sent, received, faults>>

\* Mutant: the receiver is not notified of the end of the stream.
DecrementSendersSilent(h) ==
    /\ h.pc = "dec"
    /\ recvr' = [recvr EXCEPT ![h.r].remaining = IF @ > 0 THEN @ - 1 ELSE 0]
    /\ handlers' = Moved(handlers, h, "done")
    /\ UNCHANGED <<sender, channel, mgr, sent, received, faults>>

\* CloseSender of a stream that was found; the last one wakes the receiver.
DecrementSenders(h) ==
    LET q == recvr[h.r]
        left == IF q.remaining > 0 THEN q.remaining - 1 ELSE 0
        after == [q EXCEPT !.remaining = left]
    IN  /\ h.pc = "dec"
        /\ recvr' = [recvr EXCEPT ![h.r] = IF left = 0 THEN Arrival(after) ELSE after]
        /\ handlers' = Moved(handlers, h, "done")
        /\ UNCHANGED <<sender, channel, mgr, sent, received, faults>>

-------------------------------------------------------------------------------
(* The receiver's thread, and cancellation *)

HasBatch(q) == ~ q.cancelled /\ q.queue # <<>>

\* GetBatch, up to its return or to the next wait.
GetBatch(r) ==
    LET q == recvr[r]
        ends(outcome) == [q EXCEPT !.pc = "close", !.outcome = outcome]
    IN  /\ q.pc = "get"
        /\ \/ /\ q.cancelled
              /\ recvr' = [recvr EXCEPT ![r] = ends("cancelled")]
              /\ UNCHANGED <<handlers, received>>
           \/ /\ ~ q.cancelled /\ q.queue = <<>> /\ q.remaining > 0
              /\ recvr' = [recvr EXCEPT ![r].pc = "wait"]
              /\ UNCHANGED <<handlers, received>>
           \/ /\ ~ q.cancelled /\ q.queue = <<>> /\ q.remaining = 0
              /\ recvr' = [recvr EXCEPT ![r] = ends("eos")]
              /\ UNCHANGED <<handlers, received>>
           \/ /\ HasBatch(q)
              /\ recvr' = [recvr EXCEPT ![r].queue = Tail(@),
                                        ![r].buffered = @ - Size(Head(q.queue).rows)]
              /\ received' = [received EXCEPT ![Head(q.queue).s][r] = @ \o Head(q.queue).rows]
              /\ handlers' \in Woken(handlers, r)
        /\ UNCHANGED <<sender, channel, mgr, sent, faults>>

GetSpurious(r) ==
    /\ recvr[r].pc = "wait"
    /\ recvr' = [recvr EXCEPT ![r].pc = "get"]
    /\ UNCHANGED <<sender, channel, handlers, mgr, sent, received, faults>>

\* The ExchangeNode has its limit, or its fragment an error: it reads no more.
ReachedLimit(r) ==
    /\ recvr[r].pc = "get"
    /\ recvr' = [recvr EXCEPT ![r].pc = "close", ![r].outcome = "limit"]
    /\ UNCHANGED <<sender, channel, handlers, mgr, sent, received, faults>>

\* DataStreamMgr::Cancel of the receiver's fragment: CancelStream is called with
\* the manager's lock_ held.
Cancel(r) ==
    /\ mgr[r] = "free"
    /\ recvr[r].registered /\ ~ recvr[r].cancelled
    /\ recvr' = [recvr EXCEPT ![r].cancelled = TRUE]
    /\ mgr' = [mgr EXCEPT ![r] = "cancel wakes"]
    /\ UNCHANGED <<sender, channel, handlers, sent, received, faults>>

\* Close: DeregisterRecvr calls CancelStream, which returns at once if the stream
\* was cancelled already.
DeregisterRecvr(r) ==
    /\ recvr[r].pc = "close"
    /\ mgr[r] = "free"
    /\ \/ /\ recvr[r].cancelled
          /\ recvr' = [recvr EXCEPT ![r].pc = "closed", ![r].registered = FALSE]
          /\ UNCHANGED mgr
       \/ /\ ~ recvr[r].cancelled
          /\ recvr' = [recvr EXCEPT ![r].cancelled = TRUE]
          /\ mgr' = [mgr EXCEPT ![r] = "close wakes"]
    /\ UNCHANGED <<sender, channel, handlers, sent, received, faults>>

\* is_cancelled_ is set and nobody has been notified of it yet.
WakesPending(r) == mgr[r] \in {"cancel wakes", "close wakes"}

\* Mutant: the handlers are not notified.
CancelWakesReceiver(r) ==
    /\ WakesPending(r)
    /\ recvr' = [recvr EXCEPT ![r] = Arrival(@)]
    /\ mgr' = [mgr EXCEPT ![r] = IF @ = "cancel wakes" THEN "cancel deletes"
                                 ELSE "close deletes"]
    /\ UNCHANGED <<sender, channel, handlers, sent, received, faults>>

\* Both notify_all, without the block's lock_.
CancelWakes(r) ==
    /\ WakesPending(r)
    /\ recvr' = [recvr EXCEPT ![r] = Arrival(@)]
    /\ handlers' = {IF h \in Waiters(handlers, r) THEN [h EXCEPT !.pc = "woken"] ELSE h
                       : h \in handlers}
    /\ mgr' = [mgr EXCEPT ![r] = IF @ = "cancel wakes" THEN "cancel deletes"
                                 ELSE "close deletes"]
    /\ UNCHANGED <<sender, channel, sent, received, faults>>

\* The batches left in batch_queue_ are deleted, again without the lock_.
CancelDeletes(r) ==
    /\ mgr[r] \in {"cancel deletes", "close deletes"}
    /\ recvr' = IF mgr[r] = "close deletes"
                THEN [recvr EXCEPT ![r].pc = "closed", ![r].registered = FALSE]
                ELSE recvr
    /\ mgr' = [mgr EXCEPT ![r] = "free"]
    /\ UNCHANGED <<sender, channel, handlers, sent, received, faults>>

-------------------------------------------------------------------------------

SenderStep(s) == SendBatch(s) \/ CloseFlush(s) \/ CloseStatus(s) \/ CloseDrain(s)
ChannelStep(s, r) == TransmitData(s, r) \/ CallReturns(s, r) \/ Retry(s, r)
HandlerStep(h) == FindControlBlock(h) \/ AddBatch(h) \/ DecrementSenders(h)
RecvrStep(r) == GetBatch(r) \/ DeregisterRecvr(r)
CancelStep(r) == CancelWakes(r) \/ CancelDeletes(r)

Next ==
    \/ \E s \in Senders : \/ Send(s) \/ StartClose(s) \/ SenderStep(s)
                          \/ \E r \in Receivers : \/ AddRow(s, r) \/ SendFullBatch(s, r)
                                                  \/ ChannelStep(s, r) \/ CallThrows(s, r)
    \/ \E h \in handlers : HandlerStep(h) \/ AddSpurious(h)
    \/ \E r \in Receivers : \/ RecvrStep(r) \/ CancelStep(r)
                            \/ GetSpurious(r) \/ ReachedLimit(r) \/ Cancel(r)

Spec == Init /\ [][Next]_vars

\* Every thread goes on running: the fragments, the rpc threads, the server's
\* threads and the receiving fragment, which reads until its stream ends.  When
\* Send has reported an error the coordinator cancels the receiver's fragment.
FragmentStep(s) ==
    \/ Send(s) \/ StartClose(s) \/ SenderStep(s)
    \/ \E r \in Receivers : AddRow(s, r) \/ SendFullBatch(s, r)

CancelFailed(r) == (\E s \in Senders : sender[s].failed) /\ Cancel(r)

Fairness ==
    /\ \A s \in Senders : WF_vars(FragmentStep(s))
    /\ \A s \in Senders, r \in Receivers :
          /\ WF_vars(ChannelStep(s, r))
          /\ WF_vars(\E h \in handlers : h.s = s /\ h.r = r /\ HandlerStep(h))
    /\ \A r \in Receivers :
          WF_vars(RecvrStep(r)) /\ WF_vars(CancelStep(r)) /\ WF_vars(CancelFailed(r))

FairSpec == Spec /\ Fairness

-------------------------------------------------------------------------------
(* Properties *)

Batches == UNION {[1 .. n -> 1 .. NumRows] : n \in 1 .. Capacity}

Promise == INSTANCE Exchange WITH
    ended <- {r \in Receivers : recvr[r].outcome = "eos"},
    void <- faults.late

\* The stream keeps the promise of module Exchange: a receiver gets the rows that
\* each sender's Send was given, in order, none twice and none left out, and
\* GetBatch reports end-of-stream only when it has returned them all and nobody
\* sends any more -- across the two buffers that Send alternates between, the rpc
\* threads, the retries of calls that were lost, and the full receive buffer.  The
\* promise is void from the first call on that fails after its request arrived.
KeepsPromise == Promise!Spec

\* "number of senders which haven't closed the channel yet": num_remaining_senders_
\* counts every sender that has not begun to close its channel, so that a batch
\* finds it positive (the DCHECK_GTs of AddBatch and DecrementSenders) and
\* end-of-stream is not reported while one may still send.
RemainingCounts ==
    \A r \in Receivers :
        /\ recvr[r].remaining >= Cardinality({s \in Senders : channel[s][r].eos = "no"})
        /\ ~ recvr[r].cancelled =>
              \A h \in handlers : h.r = r /\ h.pc \in {"add", "wait", "woken", "dec"} =>
                                     recvr[r].remaining > 0

\* num_remaining_senders_ is right as long as no call has failed after its request
\* had arrived, whatever else is lost and retried.
RemainingCountsUnlessLate == ~ faults.late => RemainingCounts

\* A handler that waits in AddBatch for room: GetBatch still has a batch to take and
\* will notify, or another handler has been woken and goes on, or CancelStream is
\* about to notify all.
SendersWoken(r) ==
    Waiters(handlers, r) # {} =>
        IF recvr[r].cancelled THEN WakesPending(r)
        ELSE \/ recvr[r].queue # <<>>
             \/ \E h \in handlers : h.r = r /\ h.pc = "woken"

\* While GetBatch waits there is no batch for it, somebody may still send, and a
\* cancellation has yet to notify.
ReceiverWoken(r) ==
    recvr[r].pc = "wait" => /\ recvr[r].queue = <<>> /\ recvr[r].remaining > 0
                            /\ recvr[r].cancelled => WakesPending(r)

\* No wakeup is lost on either side of the buffer, with one notify_one per batch
\* taken and the notifications of CancelStream sent after lock_ was released.
WaitersWoken == \A r \in Receivers : SendersWoken(r) /\ ReceiverWoken(r)

\* A sender that closes its channels gets done: it is never left waiting for an
\* rpc that is stuck in a full buffer.
SendersFinish ==
    \A s \in Senders : (sender[s].pc = "close") ~> (sender[s].pc = "done")

\* A receiver ends when every sender has got its end-of-stream through, and when
\* Send has failed somewhere.
ReceiverEnds ==
    \A r \in Receivers :
        ((\A s \in Senders : channel[s][r].eos = "ok") \/ (\E s \in Senders : sender[s].failed))
            ~> (recvr[r].pc = "closed")

===============================================================================
