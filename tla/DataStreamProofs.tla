--------------------------- MODULE DataStreamProofs ---------------------------
(***************************************************************************)
(* Proofs about DataStream, for every number of senders, receivers, rows and *)
(* failures and for every size of the buffers: no wakeup is lost, the        *)
(* receiver's count of senders is right, and the stream implements module    *)
(* Exchange.                                                                 *)
(***************************************************************************)
EXTENDS DataStream, TLAPS

Rows == 1 .. NumRows

SenderRec == [pc : {"ready", "send", "close", "status", "eos", "drain", "done"},
              failed : BOOLEAN, row : 0 .. NumRows, chan : Receivers, current : Buffers,
              buffers : [Buffers -> Seq(Rows)]]

ChannelRec == [batch : Seq(Rows), thrift : Seq(Rows), item : 0 .. 3, in_flight : BOOLEAN,
               ok : BOOLEAN, pc : {"idle", "call", "reopen", "retry"}, kind : {"data", "eos"},
               rows : Seq(Rows), eos : {"no", "sent", "ok", "failed"}]

HandlerRec == [s : Senders, r : Receivers, kind : {"data", "eos"}, rows : Seq(Rows),
               n : {1, 2}, orphan : BOOLEAN, timer : BOOLEAN,
               pc : {"find", "add", "dec", "wait", "woken", "done"}]

Entry == [s : Senders, rows : Seq(Rows)]

RecvrRec == [registered : BOOLEAN, cancelled : BOOLEAN, queue : Seq(Entry), buffered : Int,
             remaining : Nat, timer : BOOLEAN, pc : {"get", "wait", "close", "closed"},
             outcome : {"open", "cancelled", "eos", "limit"}]

TypeInv ==
    /\ sender \in [Senders -> SenderRec]
    /\ channel \in [Senders -> [Receivers -> ChannelRec]]
    /\ handlers \in SUBSET HandlerRec
    /\ recvr \in [Receivers -> RecvrRec]
    /\ mgr \in [Receivers -> {"free", "cancel wakes", "close wakes",
                              "cancel deletes", "close deletes"}]
    /\ sent \in [Senders -> [Receivers -> Seq(Rows)]]
    /\ received \in [Senders -> [Receivers -> Seq(Rows)]]
    /\ faults \in [n : Nat, late : BOOLEAN]

\* Where the receiver's thread is, against its control block q and whoever has the
\* manager's lock_, m.
RecvrOK(q, m) ==
    /\ m # "free" => q.cancelled
    /\ m \in {"close wakes", "close deletes"} => q.pc = "close"
    /\ ~ q.registered => q.cancelled
    /\ q.pc \in {"get", "wait"} <=> q.outcome = "open"

\* How far the thread of a sender q is, against its channels cs.  A buffer that a
\* channel has yet to take is not the one the next Send writes.
SenderOK(q, cs) ==
    /\ q.pc \in {"ready", "send"} => \A r \in Receivers : cs[r].eos = "no"
    /\ q.pc \in {"close", "status"} => \A r \in Receivers : r >= q.chan => cs[r].eos = "no"
    /\ q.pc \in {"eos", "drain"} => \A r \in Receivers : r > q.chan => cs[r].eos = "no"
    /\ q.pc \in {"status", "eos"} => cs[q.chan].batch = <<>>
    /\ q.pc = "send" => Whole /\ Len(q.buffers[q.current]) \in 1 .. Capacity
    /\ q.pc = "ready" => \A r \in Receivers : cs[r].item # q.current
    /\ q.pc = "send" =>
          \A r \in Receivers : IF r < q.chan THEN cs[r].item # NextBuffer(q.current)
                               ELSE cs[r].item # q.current
    /\ Whole => \A r \in Receivers : cs[r].batch = <<>>

\* What is offered to a channel's rpc thread.
Offer(q, c) == IF c.item = Own THEN c.thrift ELSE q.buffers[c.item]

\* What the channel c for r is doing, and what it still has to deliver.
ChannelOK(q, r, c) ==
    /\ c.in_flight <=> (c.item # NoItem \/ (c.pc # "idle" /\ c.kind = "data"))
    /\ c.item # NoItem => c.pc = "idle" /\ Offer(q, c) # <<>>
    /\ c.pc # "idle" /\ c.kind = "data" => c.rows # <<>>
    /\ c.in_flight => c.ok /\ c.eos = "no"
    /\ c.pc # "idle" /\ c.kind = "eos" => c.eos = "sent"
    /\ c.eos = "sent" => c.pc # "idle" /\ c.kind = "eos" /\ q.pc = "eos" /\ q.chan = r
    /\ c.eos \in {"sent", "ok"} => c.ok /\ c.batch = <<>>

SideOK(q, cs) ==
    /\ q \in SenderRec /\ cs \in [Receivers -> ChannelRec]
    /\ SenderOK(q, cs)
    /\ \A r \in Receivers : ChannelOK(q, r, cs[r])

\* A handler serves the call that channel c is in.
Serves(h, c) ==
    /\ ~ h.orphan
    /\ c.pc \in {"call", "retry"} /\ h.kind = c.kind /\ h.rows = c.rows
    /\ IF h.kind = "data" THEN h.pc \in {"find", "add", "wait", "woken", "done"}
       ELSE h.pc \in {"find", "dec", "done"}

\* As long as every call that failed was lost on its way, a channel in a call has at
\* most one handler, and every handler a channel that waits for it.
HandlersOK(hs, chan) ==
    /\ \A h \in hs : Serves(h, chan[h.s][h.r])
    /\ \A g, h \in hs : g.s = h.s /\ g.r = h.r => g = h

Served(hs, s, r) == \E h \in hs : h.s = s /\ h.r = r /\ h.pc = "done"

\* The end-of-stream of s has been counted by r, which is no longer registered or
\* has decremented its count for it.
Counted(hs, s, r, c) == c.eos = "ok" \/ (c.eos = "sent" /\ Served(hs, s, r))

Uncounted(hs, chan, r) == {s \in Senders : ~ Counted(hs, s, r, chan[s][r])}

\* rows are the elements of seq after the first a, up to the b-th.
Segment(seq, a, rows, b) ==
    /\ b = a + Len(rows) /\ b <= Len(seq)
    /\ \A k \in 1 .. Len(rows) : seq[a + k] = rows[k]

\* The rows given to a channel are those that were received, then those of the
\* entries of s in the queue, one after the other -- at[i] is how many there are up
\* to the i-th entry -- and, as long as no call has failed, those on their way
\* (out) and those in batch_.
Chain(q, s, given, got, at) ==
    /\ Segment(given, 0, got, at[0])
    /\ \A i \in 1 .. Len(q) : IF q[i].s = s THEN Segment(given, at[i-1], q[i].rows, at[i])
                             ELSE at[i] = at[i-1]

Rest(given, a, out, batch) ==
    \E b \in 0 .. Len(given) : Segment(given, a, out, b) /\ Segment(given, b, batch, Len(given))

Pipe(q, s, given, got, ok, out, batch) ==
    \E at \in [0 .. Len(q) -> 0 .. Len(given)] :
        Chain(q, s, given, got, at) /\ (ok => Rest(given, at[Len(q)], out, batch))

Outstanding(hs, s, r, q, c) ==
    IF c.item # NoItem THEN Offer(q, c)
    ELSE IF c.pc # "idle" /\ c.kind = "data" /\ ~ Served(hs, s, r) THEN c.rows
    ELSE <<>>

\* What holds whatever fails ...
Inv ==
    /\ TypeInv
    /\ \A r \in Receivers : RecvrOK(recvr[r], mgr[r])
    /\ \A s \in Senders : SideOK(sender[s], channel[s])

\* ... and until a call fails whose request has arrived.
HandlerInv == HandlersOK(handlers, channel)

CountInv == \A r \in Receivers : recvr[r].remaining >= Cardinality(Uncounted(handlers, channel, r))

EndInv ==
    \A r \in Receivers : recvr[r].outcome = "eos" => \A s \in Senders : channel[s][r].eos # "no"

QueueInv ==
    \A r \in Receivers : \A i \in 1 .. Len(recvr[r].queue) : recvr[r].queue[i].rows # <<>>

PipeInv ==
    \A s \in Senders, r \in Receivers :
        ~ recvr[r].cancelled =>
            Pipe(recvr[r].queue, s, sent[s][r], received[s][r], channel[s][r].ok,
                 Outstanding(handlers, s, r, sender[s], channel[s][r]), channel[s][r].batch)

Prompt == HandlerInv /\ CountInv /\ EndInv /\ QueueInv /\ PipeInv

PromptInv == ~ faults.late => Prompt

\* What the theorems about finite sets say of sets of senders: SendersCount proves it at the end
\* of the module, where these theorems are instantiated, since the time a step takes to prove
\* grows with the number of theorems before it.
SetsOfSenders ==
    \A U \in SUBSET Senders :
        /\ Cardinality(U) \in Nat
        /\ Cardinality(U) = 0 => U = {}
        /\ \A V \in SUBSET U : Cardinality(V) <= Cardinality(U)
        /\ \A s \in U : Cardinality(U \ {s}) = Cardinality(U) - 1

-------------------------------------------------------------------------------
(* Segments and pipes *)

\* Two segments, one after the other, are one.
LEMMA SegmentJoin ==
    ASSUME NEW seq \in Seq(Rows), NEW one \in Seq(Rows), NEW two \in Seq(Rows),
           NEW a \in Nat, NEW b \in Nat, NEW c \in Nat,
           Segment(seq, a, one, b), Segment(seq, b, two, c)
    PROVE  Segment(seq, a, one \o two, c)
BY DEF Segment

\* The empty segment.
LEMMA SegmentEmpty ==
    ASSUME NEW seq \in Seq(Rows), NEW a \in 0 .. Len(seq), NEW b \in Nat
    PROVE  Segment(seq, a, <<>>, b) <=> b = a
BY DEF Segment

\* A segment from the beginning is a prefix.
LEMMA SegmentPrefix ==
    ASSUME NEW seq \in Seq(Rows), NEW rows \in Seq(Rows), NEW b \in Nat,
           Segment(seq, 0, rows, b)
    PROVE  rows = SubSeq(seq, 1, b) /\ b = Len(rows) /\ b <= Len(seq)
BY DEF Segment

\* One row more.
LEMMA AppendOne ==
    ASSUME NEW seq \in Seq(Rows), NEW row \in Rows
    PROVE  Append(seq, row) = seq \o <<row>> /\ <<row>> \in Seq(Rows)
OBVIOUS

\* A queue whose first entry is received.
LEMMA PipeTake ==
    ASSUME NEW q \in Seq(Entry), q # <<>>, NEW s, NEW given \in Seq(Rows), NEW got \in Seq(Rows),
           NEW ok, NEW out, NEW batch, Pipe(q, s, given, got, ok, out, batch)
    PROVE  LET more == IF Head(q).s = s THEN got \o Head(q).rows ELSE got
           IN  /\ Pipe(Tail(q), s, given, more, ok, out, batch)
               /\ more = SubSeq(given, 1, Len(more)) /\ Len(more) <= Len(given)
<1> DEFINE more == IF Head(q).s = s THEN got \o Head(q).rows ELSE got
           T == Tail(q)
<1>1. PICK at \in [0 .. Len(q) -> 0 .. Len(given)] :
            /\ Chain(q, s, given, got, at) /\ (ok => Rest(given, at[Len(q)], out, batch))
  BY Zenon DEF Pipe
<1>2. /\ Len(q) \in Nat \ {0} /\ Head(q) = q[1] /\ q[1] \in Entry /\ T \in Seq(Entry)
      /\ Len(T) = Len(q) - 1 /\ \A i \in 1 .. Len(T) : T[i] = q[i+1]
  OBVIOUS
<1>3. more \in Seq(Rows)
  BY <1>2 DEF Entry
<1>4. Segment(given, 0, more, at[1])
  <2>1. Segment(given, 0, got, at[0])
    BY <1>1, Zenon DEF Chain
  <2>2. IF q[1].s = s THEN Segment(given, at[0], q[1].rows, at[1]) ELSE at[1] = at[0]
    BY <1>1, <1>2 DEF Chain
  <2>3. q[1].rows \in Seq(Rows) /\ at[0] \in Nat /\ at[1] \in Nat
    <3>1. 0 \in 0 .. Len(q) /\ 1 \in 0 .. Len(q) /\ Len(given) \in Nat
      BY <1>2
    <3>2. at[0] \in 0 .. Len(given) /\ at[1] \in 0 .. Len(given)
      BY <3>1, Zenon
    <3> QED BY <3>1, <3>2, <1>2 DEF Entry
  <2>4. CASE q[1].s = s
    BY <2>1, <2>2, <2>3, <2>4, <1>2, SegmentJoin, Zenon
  <2>5. CASE q[1].s # s
    BY <2>1, <2>2, <2>5, <1>2, Zenon
  <2> QED BY <2>4, <2>5, Zenon
<1> DEFINE next == [i \in 0 .. Len(T) |-> at[i+1]]
<1>5. next \in [0 .. Len(T) -> 0 .. Len(given)] /\ next[0] = at[1] /\ next[Len(T)] = at[Len(q)]
  BY <1>2
<1>6. ASSUME NEW i \in 1 .. Len(T)
      PROVE  IF T[i].s = s THEN Segment(given, next[i-1], T[i].rows, next[i]) ELSE next[i] = next[i-1]
  <2>1. i + 1 \in 1 .. Len(q) /\ T[i] = q[i+1] /\ next[i-1] = at[(i+1)-1] /\ next[i] = at[i+1]
    BY <1>2
  <2> QED BY <2>1, <1>1, Zenon DEF Chain
<1> HIDE DEF more, T
<1>7. Pipe(T, s, given, more, ok, out, batch)
  BY <1>1, <1>4, <1>5, <1>6, Zenon DEF Pipe, Chain
<1>8. more = SubSeq(given, 1, Len(more)) /\ Len(more) <= Len(given)
  <2>1. Len(given) \in Nat /\ 1 \in 0 .. Len(q)
    BY <1>2
  <2>2. at[1] \in Nat
    BY <2>1
  <2> QED BY <1>3, <1>4, <2>2, SegmentPrefix
<1> QED BY <1>7, <1>8, Zenon DEF more, T

-------------------------------------------------------------------------------
(* The sender's side: a sender's thread and its channels *)

-------------------------------------------------------------------------------
(* The steps of a sender keep Inv *)

\* What Inv says of a sender.
LEMMA SideOf ==
    ASSUME Inv, NEW s \in Senders
    PROVE  /\ SideOK(sender[s], channel[s])
           /\ sender[s] \in SenderRec /\ channel[s] \in [Receivers -> ChannelRec]
           /\ sender = [sender EXCEPT ![s] = sender[s]]
           /\ sender[s].chan \in Receivers
BY Zenon DEF Inv, SideOK, TypeInv, SenderRec

\* There is a first channel.
LEMMA FirstChannel == 1 \in Receivers
BY StreamAssumption DEF Receivers

\* An error ends Send.
LEMMA FailsRec ==
    ASSUME NEW q \in SenderRec
    PROVE  Fails(q) \in SenderRec /\ Fails(q).buffers = q.buffers /\ Fails(q).pc = "close"
BY FirstChannel, Zenon DEF Fails, SenderRec

\* A connection or a call fails.
LEMMA FaultTyped ==
    ASSUME Inv, NEW late \in BOOLEAN, Fault(late)
    PROVE  faults' \in [n : Nat, late : BOOLEAN] /\ (faults'.late <=> faults.late \/ late)
<1>1. faults \in [n : Nat, late : BOOLEAN]
  BY Zenon DEF Inv, TypeInv
<1>2. faults.n + 1 \in Nat /\ (faults.late \/ late) \in BOOLEAN
  BY <1>1
<1>3. faults' = [n |-> faults.n + 1, late |-> faults.late \/ late]
  BY Zenon DEF Fault
<1> QED BY <1>2, <1>3, Zenon

\* A handler that is lost, and whether the promise is.
LEMMA LostTyped ==
    ASSUME Inv, NEW h \in handlers, Lost(h)
    PROVE  /\ handlers' \in SUBSET HandlerRec /\ faults' \in [n : Nat, late : BOOLEAN]
           /\ faults.late => faults'.late
           /\ ~ faults'.late => h.pc = "find" /\ handlers' = handlers \ {h}
<1>1. h \in HandlerRec /\ handlers \in SUBSET HandlerRec
  BY Zenon DEF Inv, TypeInv
<1>2. [h EXCEPT !.orphan = TRUE] \in HandlerRec
  BY <1>1, Zenon DEF HandlerRec
<1>3. CASE h.pc = "find" /\ Fault(FALSE) /\ handlers' = handlers \ {h}
  BY <1>1, <1>3, FaultTyped, Zenon
<1>4. CASE /\ Fault(TRUE)
           /\ handlers' = (handlers \ {h}) \cup
                             (IF h.pc = "done" THEN {} ELSE {[h EXCEPT !.orphan = TRUE]})
  BY <1>1, <1>2, <1>4, FaultTyped, Zenon
<1> QED BY <1>3, <1>4, Zenon DEF Lost

-------------------------------------------------------------------------------
(* The steps of a receiver's node keep Inv *)

MgrStates == {"free", "cancel wakes", "close wakes", "cancel deletes", "close deletes"}

\* What Inv says of a receiver.
LEMMA RecvrOf ==
    ASSUME Inv, NEW r \in Receivers
    PROVE  /\ recvr[r] \in RecvrRec /\ mgr[r] \in MgrStates /\ RecvrOK(recvr[r], mgr[r])
           /\ recvr = [recvr EXCEPT ![r] = recvr[r]] /\ mgr = [mgr EXCEPT ![r] = mgr[r]]
           /\ handlers \in SUBSET HandlerRec
           /\ received \in [Senders -> [Receivers -> Seq(Rows)]]
BY Zenon DEF Inv, TypeInv, MgrStates

\* notify_one leaves handlers.
LEMMA WokenTyped ==
    ASSUME NEW hs \in SUBSET HandlerRec, NEW r, NEW hs2 \in Woken(hs, r)
    PROVE  hs2 \in SUBSET HandlerRec
<1>1. \A h \in HandlerRec : [h EXCEPT !.pc = "woken"] \in HandlerRec
  BY Zenon DEF HandlerRec
<1> QED BY <1>1 DEF Woken, Waiters

\* Inv holds initially ...
LEMMA InitInv ==
    ASSUME SetsOfSenders, Init
    PROVE  Inv
<1>1. <<>> \in Seq(Rows) /\ <<>> \in Seq(Entry) /\ 0 \in 0 .. NumRows /\ 0 \in 0 .. 3
  BY StreamAssumption
<1>2. NewSender \in SenderRec
  <2>1. [b \in Buffers |-> <<>>] \in [Buffers -> Seq(Rows)]
    BY <1>1, Zenon
  <2>2. 1 \in Buffers
    BY Zenon DEF Buffers
  <2> QED BY <1>1, <2>1, <2>2, FirstChannel, Zenon DEF NewSender, SenderRec
<1>3. NewChannel \in ChannelRec
  BY <1>1, Zenon DEF NewChannel, ChannelRec, NoItem
<1>4. NewRecvr \in RecvrRec
  <2>1. Cardinality(Senders) \in Nat
    BY Zenon DEF SetsOfSenders
  <2> QED BY <1>1, <2>1 DEF NewRecvr, RecvrRec
<1>5. TypeInv
  <2>1. sender \in [Senders -> SenderRec] /\ channel \in [Senders -> [Receivers -> ChannelRec]]
    BY <1>2, <1>3, Zenon DEF Init
  <2>2. recvr \in [Receivers -> RecvrRec] /\ handlers \in SUBSET HandlerRec
    BY <1>4, Zenon DEF Init
  <2>3. sent \in [Senders -> [Receivers -> Seq(Rows)]] /\ received = sent
    BY <1>1, Zenon DEF Init
  <2>4. faults \in [n : Nat, late : BOOLEAN]
    BY Zenon DEF Init
  <2> QED BY <2>1, <2>2, <2>3, <2>4, Zenon DEF Init, TypeInv
<1>6. ASSUME NEW r \in Receivers PROVE RecvrOK(recvr[r], mgr[r])
  BY Zenon DEF Init, RecvrOK, NewRecvr
<1>7. ASSUME NEW s \in Senders PROVE SideOK(sender[s], channel[s])
  <2>1. sender[s] = NewSender /\ \A r \in Receivers : channel[s][r] = NewChannel
    BY Zenon DEF Init
  <2>2. sender[s] \in SenderRec /\ channel[s] \in [Receivers -> ChannelRec]
    BY <1>5, Zenon DEF TypeInv
  <2>3. SenderOK(sender[s], channel[s])
    BY <2>1 DEF SenderOK, NewSender, NewChannel, NoItem
  <2>4. \A r \in Receivers : ChannelOK(sender[s], r, channel[s][r])
    BY <2>1 DEF ChannelOK, NewSender, NewChannel, NoItem
  <2> QED BY <2>2, <2>3, <2>4, Zenon DEF SideOK
<1> QED BY <1>5, <1>6, <1>7, Zenon DEF Inv

\* ... and is kept by every step.
LEMMA NextInv ==
    Inv /\ [Next]_vars =>
        Inv'
\* One channel of a sender changes, and the sender's thread moves.
<1>OneChannel.
  ASSUME NEW q, NEW cs, SideOK(q, cs), NEW r \in Receivers, NEW q2 \in SenderRec,
         NEW d \in ChannelRec, SenderOK(q2, [cs EXCEPT ![r] = d]), ChannelOK(q2, r, d),
         \A i \in Receivers : i # r => ChannelOK(q2, i, cs[i])
  PROVE  SideOK(q2, [cs EXCEPT ![r] = d])
  BY <1>OneChannel, Zenon DEF SideOK
\* The other channels are as they were if the thread moves and neither a buffer nor
\* an end-of-stream call is at stake.
<1>OtherChannel.
  ASSUME NEW q, NEW cs, SideOK(q, cs), NEW i \in Receivers, NEW q2 \in SenderRec,
         q2.buffers = q.buffers, cs[i].eos # "sent"
  PROVE  ChannelOK(q2, i, cs[i])
  BY <1>OtherChannel, Zenon DEF SideOK, ChannelOK, Offer
\* Only the channel that is being closed is in an end-of-stream call.
<1>OneCloses.
  ASSUME NEW q, NEW cs, SideOK(q, cs), NEW i \in Receivers, cs[i].eos = "sent"
  PROVE  q.pc = "eos" /\ q.chan = i
  BY <1>OneCloses, Zenon DEF SideOK, ChannelOK
\* Send of a whole batch.
<1>SendSide.
  ASSUME NEW q, NEW cs, SideOK(q, cs), q.pc = "ready", Whole,
         NEW size \in 1 .. Capacity, q.row + size <= NumRows
  PROVE  SideOK([q EXCEPT !.pc = "send", !.row = q.row + size, !.chan = 1,
                   !.buffers[q.current] = [i \in 1 .. size |-> q.row + 1 + i - 1]], cs)
  <2> USE <1>SendSide
  <2> DEFINE rows == [i \in 1 .. size |-> q.row + 1 + i - 1]
             q2 == [q EXCEPT !.pc = "send", !.row = q.row + size, !.chan = 1,
                       !.buffers[q.current] = rows]
  <2>1. q \in SenderRec /\ cs \in [Receivers -> ChannelRec] /\ SenderOK(q, cs)
        /\ \A r \in Receivers : ChannelOK(q, r, cs[r])
    BY Zenon DEF SideOK
  <2>2. q.row \in 0 .. NumRows /\ q.current \in Buffers /\ q.buffers \in [Buffers -> Seq(Rows)]
    BY <2>1, Zenon DEF SenderRec
  <2>3. rows \in Seq(Rows) /\ Len(rows) = size
    <3>1. size \in Nat /\ NumRows \in Nat /\ q.row \in Nat
      BY <2>2, StreamAssumption
    <3>2. \A i \in 1 .. size : q.row + 1 + i - 1 \in Rows
      BY <3>1 DEF Rows
    <3> QED BY <3>1, <3>2
  <2> HIDE DEF rows
  <2>4. [q.buffers EXCEPT ![q.current] = rows] \in [Buffers -> Seq(Rows)]
    BY <2>2, <2>3, Zenon
  <2>5. q.row + size \in 0 .. NumRows /\ 1 \in Receivers
    BY <2>2, StreamAssumption DEF Receivers
  <2>6. /\ q2 \in SenderRec /\ q2.pc = "send" /\ q2.chan = 1 /\ q2.current = q.current
        /\ q2.buffers = [q.buffers EXCEPT ![q.current] = rows]
    BY <2>1, <2>4, <2>5, Zenon DEF SenderRec
  <2> HIDE DEF q2
  <2>7. \A r \in Receivers : cs[r].eos = "no" /\ cs[r].item # q.current /\ ~ (r < 1)
    BY <2>1, StreamAssumption DEF SenderOK, Receivers
  <2>8. SenderOK(q2, cs)
    <3>1. Len(q2.buffers[q2.current]) \in 1 .. Capacity
      BY <2>2, <2>3, <2>6, Zenon
    <3> QED BY <3>1, <2>1, <2>6, <2>7, Zenon DEF SenderOK
  <2>9. ASSUME NEW r \in Receivers PROVE ChannelOK(q2, r, cs[r])
    <3>1. Offer(q2, cs[r]) = Offer(q, cs[r]) \/ cs[r].item = NoItem
      <4>1. cs[r] \in ChannelRec
        BY <2>1, Zenon
      <4>2. cs[r].item \in 0 .. 3
        BY <4>1, Zenon DEF ChannelRec
      <4> QED BY <2>2, <2>6, <2>7, <4>2 DEF Offer, NoItem, Own, Buffers
    <3>2. ChannelOK(q, r, cs[r]) /\ cs[r].eos = "no"
      BY <2>1, <2>7, Zenon
    <3> QED BY <3>1, <3>2, Zenon DEF ChannelOK
  <2>10. SideOK(q2, cs)
    BY <2>1, <2>6, <2>8, <2>9, Zenon DEF SideOK
  <2> QED BY <2>10, Zenon DEF q2, rows
\* The thread moves on to close its channels or the next one of them.
<1>MoveSide.
  ASSUME NEW q, NEW cs, SideOK(q, cs), NEW q2 \in SenderRec, q2.buffers = q.buffers,
         \/ q.pc \in {"ready", "send"} /\ q2.pc = "close"
         \/ q.pc = "close" /\ q2.pc = "status" /\ q2.chan = q.chan /\ cs[q.chan].batch = <<>>
         \/ q.pc \in {"close", "status"} /\ q2.pc = "drain" /\ q2.chan = q.chan
         \/ q.pc = "drain" /\ q2.pc = "close" /\ q2.chan = q.chan + 1
         \/ q.pc = "drain" /\ q2.pc = "done"
  PROVE  SideOK(q2, cs)
  <2> USE <1>MoveSide
  <2>1. q \in SenderRec /\ cs \in [Receivers -> ChannelRec] /\ SenderOK(q, cs) /\ q.pc # "eos"
    BY Zenon DEF SideOK
  <2>2. q.chan \in Int /\ q2.chan \in Int /\ Receivers \subseteq Int
    BY <2>1, StreamAssumption DEF SenderRec, Receivers
  <2>3. SenderOK(q2, cs)
    <3>1. CASE q.pc \in {"ready", "send"} /\ q2.pc = "close"
      BY <2>1, <3>1, Zenon DEF SenderOK
    <3>2. CASE q.pc = "close" /\ q2.pc = "status" /\ q2.chan = q.chan /\ cs[q.chan].batch = <<>>
      BY <2>1, <3>2, Zenon DEF SenderOK
    <3>3. CASE q.pc \in {"close", "status"} /\ q2.pc = "drain" /\ q2.chan = q.chan
      <4>1. \A r \in Receivers : r > q.chan => r >= q.chan
        BY ONLY <2>2
      <4> QED BY <2>1, <3>3, <4>1, Zenon DEF SenderOK
    <3>4. CASE q.pc = "drain" /\ q2.pc = "close" /\ q2.chan = q.chan + 1
      <4>1. \A r \in Receivers : r >= q2.chan => r > q.chan
        BY ONLY <2>2, <3>4
      <4> QED BY <2>1, <3>4, <4>1, Zenon DEF SenderOK
    <3>5. CASE q.pc = "drain" /\ q2.pc = "done"
      BY <2>1, <3>5, Zenon DEF SenderOK
    <3> QED BY <3>1, <3>2, <3>3, <3>4, <3>5, Zenon
  <2>4. \A i \in Receivers : ChannelOK(q2, i, cs[i])
    BY <2>1, <1>OneCloses, <1>OtherChannel, Zenon
  <2> QED BY <2>1, <2>3, <2>4, Zenon DEF SideOK
\* SendBatch of the current buffer.
<1>SendBatchSide.
  ASSUME NEW q, NEW cs, SideOK(q, cs), NEW r \in Receivers, q.pc = "send", r = q.chan,
         ~ cs[r].in_flight, cs[r].ok
  PROVE  SideOK(IF r < NumReceivers THEN [q EXCEPT !.chan = r + 1]
                ELSE [q EXCEPT !.pc = "ready", !.current = NextBuffer(q.current)],
                [cs EXCEPT ![r] = Offered(cs[r], q.current)])
  <2> USE <1>SendBatchSide
  <2> DEFINE q2 == IF r < NumReceivers THEN [q EXCEPT !.chan = r + 1]
                   ELSE [q EXCEPT !.pc = "ready", !.current = NextBuffer(q.current)]
             d == Offered(cs[r], q.current)
             ds == [cs EXCEPT ![r] = d]
  <2>1. q \in SenderRec /\ cs \in [Receivers -> ChannelRec] /\ SenderOK(q, cs)
        /\ ChannelOK(q, r, cs[r]) /\ cs[r] \in ChannelRec
    BY Zenon DEF SideOK
  <2>2. q.current \in Buffers /\ q.chan = r /\ NumReceivers \in Nat /\ Receivers \subseteq Nat
        /\ NextBuffer(q.current) \in Buffers /\ NextBuffer(NextBuffer(q.current)) = q.current
        /\ NextBuffer(q.current) # q.current
    BY <2>1, StreamAssumption DEF SenderRec, Receivers, NextBuffer, Buffers
  <2>3. q2 \in SenderRec /\ q2.buffers = q.buffers
    <3>1. CASE r < NumReceivers
      <4>1. r + 1 \in Receivers
        BY <2>2, <3>1 DEF Receivers
      <4> QED BY <2>1, <3>1, <4>1, Zenon DEF SenderRec
    <3>2. CASE ~ (r < NumReceivers)
      BY <2>1, <2>2, <3>2, Zenon DEF SenderRec
    <3> QED BY <3>1, <3>2, Zenon
  <2>4. /\ d \in ChannelRec /\ d.item = q.current /\ d.in_flight = TRUE
        /\ d.batch = cs[r].batch /\ d.eos = cs[r].eos /\ d.ok = cs[r].ok /\ d.pc = cs[r].pc
        /\ d.kind = cs[r].kind
    <3>1. q.current \in 0 .. 3
      BY <2>2 DEF Buffers
    <3> QED BY <2>1, <3>1, Zenon DEF ChannelRec, Offered
  <2> HIDE DEF d
  <2>5. /\ ds \in [Receivers -> ChannelRec] /\ ds[r] = d
        /\ \A i \in Receivers : i # r => ds[i] = cs[i]
    BY <2>1, <2>4, Zenon
  <2>6. \A i \in Receivers : cs[i].eos = "no"
    BY <2>1, Zenon DEF SenderOK
  <2>7. q.current \in {1, 2} /\ Len(q.buffers[q.current]) > 0 /\ cs[r].item = NoItem
        /\ cs[r].pc = "idle"
    <3>1. Len(q.buffers[q.current]) \in 1 .. Capacity
      BY <2>1, Zenon DEF SenderOK
    <3>2. cs[r].kind \in {"data", "eos"}
      BY <2>1, Zenon DEF ChannelRec
    <3> QED BY <2>1, <2>2, <2>6, <3>1, <3>2, StreamAssumption DEF ChannelOK, Buffers
  <2>8. ChannelOK(q2, r, d)
    <3>1. Offer(q2, d) = q.buffers[q.current]
      BY <2>3, <2>4, <2>7 DEF Offer, Own
    <3>2. Offer(q2, d) # <<>>
      BY <3>1, <2>7
    <3> QED BY <2>1, <2>4, <2>6, <2>7, <3>2 DEF ChannelOK, NoItem
  <2>9. \A i \in Receivers : i # r => ChannelOK(q2, i, cs[i])
    BY <2>3, <2>6, <1>OtherChannel, Zenon
  <2>10. SenderOK(q2, ds)
    <3> HIDE DEF ds
    <3>1. \A i \in Receivers : ds[i].eos = "no" /\ (Whole => ds[i].batch = <<>>)
      BY <2>1, <2>4, <2>5, <2>6 DEF SenderOK
    <3>2. CASE r < NumReceivers
      <4>1. q2.pc = "send" /\ q2.chan = r + 1 /\ q2.current = q.current
        BY <2>1, <3>2, Zenon DEF SenderRec
      <4>2. \A i \in Receivers : IF i < r + 1 THEN ds[i].item # NextBuffer(q.current)
                                 ELSE ds[i].item # q.current
        BY <2>1, <2>2, <2>4, <2>5 DEF SenderOK
      <4> QED BY <2>1, <2>3, <3>1, <4>1, <4>2 DEF SenderOK
    <3>3. CASE ~ (r < NumReceivers)
      <4>1. q2.pc = "ready" /\ q2.current = NextBuffer(q.current)
        BY <2>1, <3>3, Zenon DEF SenderRec
      <4>2. \A i \in Receivers : ds[i].item # NextBuffer(q.current)
        BY <2>1, <2>2, <2>4, <2>5, <3>3 DEF SenderOK, Receivers
      <4> QED BY <2>1, <3>1, <4>1, <4>2 DEF SenderOK
    <3> QED BY <3>2, <3>3, Zenon
  <2> HIDE DEF q2
  <2>11. SideOK(q2, ds)
    BY <2>3, <2>4, <2>8, <2>9, <2>10, <1>OneChannel, Zenon
  <2> QED BY <2>11, Zenon DEF q2, d
\* A channel whose thread is free: not in a call, and nothing is offered to it.
<1>FreeChannel.
  ASSUME NEW q, NEW cs, SideOK(q, cs), NEW r \in Receivers, ~ cs[r].in_flight,
         cs[r].eos = "no"
  PROVE  cs[r].item = NoItem /\ cs[r].pc = "idle" /\ cs[r] \in ChannelRec
  <2> USE <1>FreeChannel
  <2>1. ChannelOK(q, r, cs[r]) /\ cs[r] \in ChannelRec
    BY Zenon DEF SideOK
  <2>2. cs[r].kind \in {"data", "eos"}
    BY <2>1, Zenon DEF ChannelRec
  <2> QED BY <2>1, <2>2, Zenon DEF ChannelOK
\* AddRow: the row is copied into batch_.
<1>AddRowSide.
  ASSUME NEW q, NEW cs, SideOK(q, cs), NEW r \in Receivers, q.pc = "ready", ~ Whole,
         q.row + 1 <= NumRows
  PROVE  SideOK([q EXCEPT !.row = q.row + 1],
                [cs EXCEPT ![r] = [cs[r] EXCEPT !.batch = Append(cs[r].batch, q.row + 1)]])
  <2> USE <1>AddRowSide
  <2> DEFINE q2 == [q EXCEPT !.row = q.row + 1]
             d == [cs[r] EXCEPT !.batch = Append(cs[r].batch, q.row + 1)]
             ds == [cs EXCEPT ![r] = d]
  <2>1. q \in SenderRec /\ cs \in [Receivers -> ChannelRec] /\ SenderOK(q, cs)
        /\ ChannelOK(q, r, cs[r]) /\ cs[r] \in ChannelRec
    BY Zenon DEF SideOK
  <2>2. q.row + 1 \in 0 .. NumRows /\ q.row + 1 \in Rows
    BY <2>1, StreamAssumption DEF SenderRec, Rows
  <2>3. /\ q2 \in SenderRec /\ q2.buffers = q.buffers /\ q2.pc = "ready"
        /\ q2.current = q.current
    BY <2>1, <2>2, Zenon DEF SenderRec
  <2>4. /\ d \in ChannelRec /\ d.item = cs[r].item /\ d.in_flight = cs[r].in_flight
        /\ d.eos = cs[r].eos /\ d.ok = cs[r].ok /\ d.pc = cs[r].pc
        /\ d.kind = cs[r].kind /\ d.rows = cs[r].rows /\ d.thrift = cs[r].thrift
    <3>1. cs[r].batch \in Seq(Rows)
      BY <2>1, Zenon DEF ChannelRec
    <3>2. Append(cs[r].batch, q.row + 1) \in Seq(Rows)
      BY <2>2, <3>1
    <3> QED BY <2>1, <3>2, Zenon DEF ChannelRec
  <2> HIDE DEF d, q2
  <2>5. /\ ds \in [Receivers -> ChannelRec] /\ ds[r] = d
        /\ \A i \in Receivers : i # r => ds[i] = cs[i]
    BY <2>1, <2>4, Zenon
  <2>6. \A i \in Receivers : cs[i].eos = "no"
    BY <2>1, Zenon DEF SenderOK
  <2>7. ChannelOK(q2, r, d)
    BY <2>1, <2>3, <2>4, <2>6 DEF ChannelOK, Offer
  <2>8. \A i \in Receivers : i # r => ChannelOK(q2, i, cs[i])
    BY <2>3, <2>6, <1>OtherChannel, Zenon
  <2>9. SenderOK(q2, ds)
    <3> HIDE DEF ds
    <3> QED BY <2>1, <2>3, <2>4, <2>5, <2>6 DEF SenderOK
  <2>10. SideOK(q2, ds)
    BY <2>3, <2>4, <2>7, <2>8, <2>9, <1>OneChannel, Zenon
  <2> QED BY <2>10, Zenon DEF q2, d
\* SendCurrentBatch, from AddRow or from CloseInternal.
<1>FlushSide.
  ASSUME NEW q, NEW cs, SideOK(q, cs), NEW r \in Receivers, ~ cs[r].in_flight,
         cs[r].batch # <<>>, NEW q2 \in SenderRec, q2.buffers = q.buffers,
         NEW batch \in Seq(Rows),
         \/ q.pc = "ready" /\ q2.pc = "ready" /\ q2.current = q.current
         \/ q.pc = "ready" /\ q2.pc = "close"
         \/ /\ q.pc = "close" /\ q2.pc \in {"status", "drain"}
            /\ q.chan = r /\ q2.chan = r /\ batch = <<>>
  PROVE  /\ cs[r].ok =>
              SideOK(q2, [cs EXCEPT ![r] = [Offered(cs[r], Own) EXCEPT !.thrift = cs[r].batch,
                                                                      !.batch = batch]])
         /\ ~ cs[r].ok =>
              SideOK(q2, [cs EXCEPT ![r] = [cs[r] EXCEPT !.thrift = cs[r].batch,
                                                        !.batch = batch]])
  <2> USE <1>FlushSide
  <2>1. q \in SenderRec /\ cs \in [Receivers -> ChannelRec] /\ SenderOK(q, cs) /\ q.pc # "eos"
    BY Zenon DEF SideOK
  <2>2. ~ Whole
    BY <2>1, Zenon DEF SenderOK
  <2>3. q.chan \in Int /\ q2.chan \in Int /\ Receivers \subseteq Int /\ q.current \in {1, 2}
    BY <2>1, StreamAssumption DEF SenderRec, Receivers, Buffers
  <2>4. cs[r].eos = "no"
    BY <2>1, <2>3 DEF SenderOK
  <2>5. ASSUME NEW d \in ChannelRec, d.item \in {NoItem, Own}, d.eos = "no", d.batch = batch,
               ChannelOK(q2, r, d)
        PROVE  SideOK(q2, [cs EXCEPT ![r] = d])
    <3> DEFINE ds == [cs EXCEPT ![r] = d]
    <3>1. /\ ds \in [Receivers -> ChannelRec] /\ ds[r] = d
          /\ \A i \in Receivers : i # r => ds[i] = cs[i]
      BY <2>1, Zenon
    <3> HIDE DEF ds
    <3>2. SenderOK(q2, ds)
      BY <2>1, <2>2, <2>3, <2>4, <2>5, <3>1 DEF SenderOK, NoItem, Own
    <3>3. \A i \in Receivers : i # r => ChannelOK(q2, i, cs[i])
      BY <2>1, <1>OneCloses, <1>OtherChannel
    <3> QED BY <2>5, <3>2, <3>3, <1>OneChannel, Zenon DEF ds
  <2>6. ChannelOK(q, r, cs[r]) /\ cs[r] \in ChannelRec /\ cs[r].item = NoItem
        /\ cs[r].pc = "idle"
    BY <2>4, <1>FreeChannel, Zenon DEF SideOK
  <2>7. cs[r].batch \in Seq(Rows) /\ Own \in 0 .. 3
    BY <2>6 DEF ChannelRec, Own
  <2>8. CASE cs[r].ok
    <3> DEFINE d == [Offered(cs[r], Own) EXCEPT !.thrift = cs[r].batch, !.batch = batch]
    <3>1. /\ d \in ChannelRec /\ d.item = Own /\ d.in_flight = TRUE /\ d.thrift = cs[r].batch
          /\ d.batch = batch /\ d.eos = cs[r].eos /\ d.ok = cs[r].ok /\ d.pc = cs[r].pc
          /\ d.kind = cs[r].kind
      BY <2>6, <2>7, Zenon DEF ChannelRec, Offered
    <3> HIDE DEF d
    <3>2. ChannelOK(q2, r, d)
      BY <2>4, <2>6, <2>8, <3>1 DEF ChannelOK, Offer, NoItem, Own
    <3>3. SideOK(q2, [cs EXCEPT ![r] = d])
      BY <2>4, <2>5, <3>1, <3>2, Zenon
    <3> QED BY <2>8, <3>3, Zenon DEF d
  <2>9. CASE ~ cs[r].ok
    <3> DEFINE d == [cs[r] EXCEPT !.thrift = cs[r].batch, !.batch = batch]
    <3>1. /\ d \in ChannelRec /\ d.item = NoItem /\ d.in_flight = cs[r].in_flight
          /\ d.batch = batch /\ d.eos = cs[r].eos /\ d.ok = cs[r].ok /\ d.pc = cs[r].pc
          /\ d.kind = cs[r].kind
      BY <2>6, <2>7, Zenon DEF ChannelRec
    <3> HIDE DEF d
    <3>2. ChannelOK(q2, r, d)
      BY <2>4, <2>6, <2>9, <3>1, Zenon DEF ChannelOK
    <3>3. SideOK(q2, [cs EXCEPT ![r] = d])
      BY <2>4, <2>5, <3>1, <3>2, Zenon
    <3> QED BY <2>9, <3>3, Zenon DEF d
  <2> QED BY <2>8, <2>9, Zenon
\* The end-of-stream call begins, or there is no connection for it.
<1>StatusSide.
  ASSUME NEW q, NEW cs, SideOK(q, cs), NEW r \in Receivers, q.pc = "status", q.chan = r,
         ~ cs[r].in_flight, cs[r].ok
  PROVE  /\ SideOK([q EXCEPT !.pc = "eos"],
                   [cs EXCEPT ![r] = [InCall(cs[r], "call", "eos", <<>>) EXCEPT !.eos = "sent"]])
         /\ SideOK([q EXCEPT !.pc = "drain"], [cs EXCEPT ![r] = [cs[r] EXCEPT !.eos = "failed"]])
  <2> USE <1>StatusSide
  <2>1. q \in SenderRec /\ cs \in [Receivers -> ChannelRec] /\ SenderOK(q, cs)
        /\ ChannelOK(q, r, cs[r]) /\ cs[r] \in ChannelRec
    BY Zenon DEF SideOK
  <2>2. q.chan \in Int /\ Receivers \subseteq Int
    BY <2>1, StreamAssumption DEF SenderRec, Receivers
  <2>3. cs[r].eos = "no" /\ cs[r].batch = <<>>
    BY <2>1, <2>2 DEF SenderOK
  <2>4. cs[r].item = NoItem /\ cs[r].pc = "idle"
    BY <2>3, <1>FreeChannel, Zenon
  <2>5. ASSUME NEW q2 \in SenderRec, q2.buffers = q.buffers, q2.chan = r,
               q2.pc \in {"eos", "drain"}, NEW d \in ChannelRec, d.item = NoItem,
               d.batch = <<>>, ChannelOK(q2, r, d)
        PROVE  SideOK(q2, [cs EXCEPT ![r] = d])
    <3> DEFINE ds == [cs EXCEPT ![r] = d]
    <3>1. /\ ds \in [Receivers -> ChannelRec] /\ ds[r] = d
          /\ \A i \in Receivers : i # r => ds[i] = cs[i]
      BY <2>1, Zenon
    <3> HIDE DEF ds
    <3>2. SenderOK(q2, ds)
      BY <2>1, <2>2, <2>5, <3>1 DEF SenderOK
    <3>3. \A i \in Receivers : i # r => ChannelOK(q2, i, cs[i])
      BY <2>5, <1>OneCloses, <1>OtherChannel, Zenon
    <3> QED BY <2>5, <3>2, <3>3, <1>OneChannel, Zenon DEF ds
  <2>6. SideOK([q EXCEPT !.pc = "eos"],
               [cs EXCEPT ![r] = [InCall(cs[r], "call", "eos", <<>>) EXCEPT !.eos = "sent"]])
    <3> DEFINE q2 == [q EXCEPT !.pc = "eos"]
               d == [InCall(cs[r], "call", "eos", <<>>) EXCEPT !.eos = "sent"]
    <3>1. q2 \in SenderRec /\ q2.buffers = q.buffers /\ q2.chan = r /\ q2.pc = "eos"
      BY <2>1, Zenon DEF SenderRec
    <3>2. /\ d \in ChannelRec /\ d.item = NoItem /\ d.batch = <<>> /\ d.in_flight = cs[r].in_flight
          /\ d.eos = "sent" /\ d.ok = cs[r].ok /\ d.pc = "call" /\ d.kind = "eos"
      <4>1. <<>> \in Seq(Rows)
        OBVIOUS
      <4> QED BY <2>1, <2>3, <2>4, <4>1, Zenon DEF ChannelRec, InCall
    <3> HIDE DEF q2, d
    <3>3. ChannelOK(q2, r, d)
      BY <3>1, <3>2, Zenon DEF ChannelOK
    <3>4. SideOK(q2, [cs EXCEPT ![r] = d])
      BY <2>5, <3>1, <3>2, <3>3, Zenon
    <3> QED BY <3>4, Zenon DEF q2, d
  <2>7. SideOK([q EXCEPT !.pc = "drain"], [cs EXCEPT ![r] = [cs[r] EXCEPT !.eos = "failed"]])
    <3> DEFINE q2 == [q EXCEPT !.pc = "drain"]
               d == [cs[r] EXCEPT !.eos = "failed"]
    <3>1. q2 \in SenderRec /\ q2.buffers = q.buffers /\ q2.chan = r /\ q2.pc = "drain"
      BY <2>1, Zenon DEF SenderRec
    <3>2. /\ d \in ChannelRec /\ d.item = NoItem /\ d.batch = <<>> /\ d.in_flight = cs[r].in_flight
          /\ d.eos = "failed" /\ d.ok = cs[r].ok /\ d.pc = "idle"
      BY <2>1, <2>3, <2>4, Zenon DEF ChannelRec
    <3> HIDE DEF q2, d
    <3>3. ChannelOK(q2, r, d)
      BY <3>1, <3>2, Zenon DEF ChannelOK
    <3>4. SideOK(q2, [cs EXCEPT ![r] = d])
      BY <2>5, <3>1, <3>2, <3>3, Zenon
    <3> QED BY <3>4, Zenon DEF q2, d
  <2> QED BY <2>6, <2>7, Zenon
\* TransmitData: the rows are in a call, or there is no connection for it.
<1>TransmitSide.
  ASSUME NEW q, NEW cs, SideOK(q, cs), NEW r \in Receivers, cs[r].item # NoItem
  PROVE  LET taken == [cs[r] EXCEPT !.item = NoItem]
         IN  /\ SideOK(q, [cs EXCEPT ![r] = InCall(taken, "call", "data", Offer(q, cs[r]))])
             /\ SideOK(q, [cs EXCEPT ![r] = [taken EXCEPT !.ok = FALSE, !.in_flight = FALSE]])
             /\ Offer(q, cs[r]) \in Seq(Rows)
  <2> USE <1>TransmitSide
  <2> DEFINE taken == [cs[r] EXCEPT !.item = NoItem]
  <2>1. q \in SenderRec /\ cs \in [Receivers -> ChannelRec] /\ SenderOK(q, cs)
        /\ ChannelOK(q, r, cs[r]) /\ cs[r] \in ChannelRec
    BY Zenon DEF SideOK
  <2>2. cs[r].in_flight /\ cs[r].pc = "idle" /\ cs[r].eos = "no" /\ cs[r].ok
        /\ Offer(q, cs[r]) # <<>>
    BY <2>1, Zenon DEF ChannelOK
  <2>3. Offer(q, cs[r]) \in Seq(Rows)
    <3>1. cs[r].thrift \in Seq(Rows) /\ cs[r].item \in 0 .. 3 /\ q.buffers \in [Buffers -> Seq(Rows)]
      BY <2>1, Zenon DEF ChannelRec, SenderRec
    <3> QED BY <3>1 DEF Offer, Buffers, NoItem, Own
  <2>4. /\ taken \in ChannelRec /\ taken.item = NoItem /\ taken.batch = cs[r].batch
        /\ taken.eos = cs[r].eos /\ taken.in_flight = cs[r].in_flight /\ taken.ok = cs[r].ok
        /\ taken.pc = cs[r].pc
    <3>1. NoItem \in 0 .. 3
      BY DEF NoItem
    <3> QED BY <2>1, <3>1, Zenon DEF ChannelRec
  <2> HIDE DEF taken
  <2>5. ASSUME NEW d \in ChannelRec, d.item = NoItem, d.batch = cs[r].batch, d.eos = cs[r].eos,
               ChannelOK(q, r, d)
        PROVE  SideOK(q, [cs EXCEPT ![r] = d])
    <3> DEFINE ds == [cs EXCEPT ![r] = d]
    <3>1. /\ ds \in [Receivers -> ChannelRec] /\ ds[r] = d
          /\ \A i \in Receivers : i # r => ds[i] = cs[i]
      BY <2>1, Zenon
    <3>2. q.chan \in Receivers /\ q.current \in {1, 2} /\ NextBuffer(q.current) \in {1, 2}
      BY <2>1 DEF SenderRec, Buffers, NextBuffer
    <3> HIDE DEF ds
    <3>3. SenderOK(q, ds)
      BY <2>1, <2>5, <3>1, <3>2 DEF SenderOK, NoItem
    <3>4. \A i \in Receivers : i # r => ChannelOK(q, i, cs[i])
      BY Zenon DEF SideOK
    <3> QED BY <2>1, <2>5, <3>3, <3>4, <1>OneChannel, Zenon DEF ds
  <2>6. SideOK(q, [cs EXCEPT ![r] = InCall(taken, "call", "data", Offer(q, cs[r]))])
    <3> DEFINE d == InCall(taken, "call", "data", Offer(q, cs[r]))
    <3>1. /\ d \in ChannelRec /\ d.item = NoItem /\ d.batch = cs[r].batch /\ d.eos = cs[r].eos
          /\ d.in_flight = cs[r].in_flight /\ d.ok = cs[r].ok /\ d.pc = "call" /\ d.kind = "data"
          /\ d.rows = Offer(q, cs[r])
      BY <2>3, <2>4, Zenon DEF ChannelRec, InCall
    <3> HIDE DEF d
    <3>2. ChannelOK(q, r, d)
      BY <2>2, <3>1, Zenon DEF ChannelOK
    <3>3. SideOK(q, [cs EXCEPT ![r] = d])
      BY <2>5, <3>1, <3>2, Zenon
    <3> QED BY <3>3, Zenon DEF d
  <2>7. SideOK(q, [cs EXCEPT ![r] = [taken EXCEPT !.ok = FALSE, !.in_flight = FALSE]])
    <3> DEFINE d == [taken EXCEPT !.ok = FALSE, !.in_flight = FALSE]
    <3>1. /\ d \in ChannelRec /\ d.item = NoItem /\ d.batch = cs[r].batch /\ d.eos = cs[r].eos
          /\ d.in_flight = FALSE /\ d.pc = cs[r].pc
      BY <2>4, Zenon DEF ChannelRec
    <3> HIDE DEF d
    <3>2. ChannelOK(q, r, d)
      BY <2>2, <3>1, Zenon DEF ChannelOK
    <3>3. SideOK(q, [cs EXCEPT ![r] = d])
      BY <2>5, <3>1, <3>2, Zenon
    <3> QED BY <3>3, Zenon DEF d
  <2> QED BY <2>3, <2>6, <2>7, Zenon DEF taken
\* A call is interrupted, and tried again.
<1>RetrySide.
  ASSUME NEW q, NEW cs, SideOK(q, cs), NEW r \in Receivers, cs[r].pc # "idle",
         NEW pc \in {"reopen", "retry"}
  PROVE  SideOK(q, [cs EXCEPT ![r] = [cs[r] EXCEPT !.pc = pc]])
  <2> USE <1>RetrySide
  <2> DEFINE d == [cs[r] EXCEPT !.pc = pc]
             ds == [cs EXCEPT ![r] = d]
  <2>1. q \in SenderRec /\ cs \in [Receivers -> ChannelRec] /\ SenderOK(q, cs)
        /\ ChannelOK(q, r, cs[r]) /\ cs[r] \in ChannelRec
    BY Zenon DEF SideOK
  <2>2. /\ d \in ChannelRec /\ d.item = cs[r].item /\ d.batch = cs[r].batch /\ d.eos = cs[r].eos
        /\ d.in_flight = cs[r].in_flight /\ d.ok = cs[r].ok /\ d.pc = pc /\ d.kind = cs[r].kind
        /\ d.rows = cs[r].rows
    BY <2>1, Zenon DEF ChannelRec
  <2> HIDE DEF d
  <2>3. ds \in [Receivers -> ChannelRec] /\ ds[r] = d
        /\ \A i \in Receivers : i # r => ds[i] = cs[i]
    BY <2>1, <2>2, Zenon
  <2> HIDE DEF ds
  <2>4. SenderOK(q, ds)
    <3>1. q.chan \in Receivers
      BY <2>1, Zenon DEF SenderRec
    <3> QED BY <2>1, <2>2, <2>3, <3>1 DEF SenderOK
  <2>5. ChannelOK(q, r, d)
    BY <2>1, <2>2, Zenon DEF ChannelOK
  <2>6. \A i \in Receivers : i # r => ChannelOK(q, i, cs[i])
    BY Zenon DEF SideOK
  <2>7. SideOK(q, ds)
    BY <2>1, <2>2, <2>4, <2>5, <2>6, <1>OneChannel, Zenon DEF ds
  <2> QED BY <2>7, Zenon DEF d, ds
\* A call ends.
<1>EndCallSide.
  ASSUME NEW q, NEW cs, SideOK(q, cs), NEW r \in Receivers, cs[r].pc # "idle",
         NEW ok \in BOOLEAN
  PROVE  /\ cs[r].kind = "data" =>
              SideOK(q, [cs EXCEPT ![r] = [cs[r] EXCEPT !.pc = "idle", !.in_flight = FALSE,
                                                       !.ok = ok]])
         /\ cs[r].kind # "data" =>
              SideOK([q EXCEPT !.pc = "drain"],
                     [cs EXCEPT ![r] = [cs[r] EXCEPT !.pc = "idle",
                                          !.eos = IF ok THEN "ok" ELSE "failed"]])
  <2> USE <1>EndCallSide
  <2>1. q \in SenderRec /\ cs \in [Receivers -> ChannelRec] /\ SenderOK(q, cs)
        /\ ChannelOK(q, r, cs[r]) /\ cs[r] \in ChannelRec
    BY Zenon DEF SideOK
  <2>2. q.chan \in Receivers /\ cs[r].kind \in {"data", "eos"}
    BY <2>1, Zenon DEF SenderRec, ChannelRec
  <2>3. CASE cs[r].kind = "data"
    <3> DEFINE d == [cs[r] EXCEPT !.pc = "idle", !.in_flight = FALSE, !.ok = ok]
               ds == [cs EXCEPT ![r] = d]
    <3>1. /\ d \in ChannelRec /\ d.item = cs[r].item /\ d.batch = cs[r].batch /\ d.eos = cs[r].eos
          /\ d.in_flight = FALSE /\ d.pc = "idle" /\ d.kind = cs[r].kind
      BY <2>1, Zenon DEF ChannelRec
    <3> HIDE DEF d
    <3>2. ds \in [Receivers -> ChannelRec] /\ ds[r] = d
          /\ \A i \in Receivers : i # r => ds[i] = cs[i]
      BY <2>1, <3>1, Zenon
    <3> HIDE DEF ds
    <3>3. SenderOK(q, ds)
      BY <2>1, <2>2, <3>1, <3>2 DEF SenderOK
    <3>4. ChannelOK(q, r, d)
      BY <2>1, <2>3, <3>1, Zenon DEF ChannelOK
    <3>5. \A i \in Receivers : i # r => ChannelOK(q, i, cs[i])
      BY Zenon DEF SideOK
    <3>6. SideOK(q, ds)
      BY <2>1, <3>1, <3>3, <3>4, <3>5, <1>OneChannel, Zenon DEF ds
    <3> QED BY <2>3, <3>6, Zenon DEF d, ds
  <2>4. CASE cs[r].kind # "data"
    <3> DEFINE q2 == [q EXCEPT !.pc = "drain"]
               e == IF ok THEN "ok" ELSE "failed"
               d == [cs[r] EXCEPT !.pc = "idle", !.eos = e]
               ds == [cs EXCEPT ![r] = d]
    <3>1. e \in {"ok", "failed"}
      BY Zenon
    <3> HIDE DEF e
    <3>2. /\ d \in ChannelRec /\ d.item = cs[r].item /\ d.batch = cs[r].batch /\ d.eos = e
          /\ d.in_flight = cs[r].in_flight /\ d.ok = cs[r].ok /\ d.pc = "idle"
          /\ d.kind = cs[r].kind
      BY <2>1, <3>1, Zenon DEF ChannelRec
    <3> HIDE DEF d
    <3>3. ds \in [Receivers -> ChannelRec] /\ ds[r] = d
          /\ \A i \in Receivers : i # r => ds[i] = cs[i]
      BY <2>1, <3>2, Zenon
    <3> HIDE DEF ds
    <3>4. cs[r].eos = "sent" /\ cs[r].item = NoItem /\ q.pc = "eos" /\ q.chan = r
      BY <2>1, <2>2, <2>4, Zenon DEF ChannelOK
    <3>5. q2 \in SenderRec /\ q2.pc = "drain" /\ q2.chan = r /\ q2.buffers = q.buffers
      BY <2>1, <3>4, Zenon DEF SenderRec
    <3> HIDE DEF q2
    <3>6. SenderOK(q2, ds)
      <4>1. r \in Int /\ Receivers \subseteq Int
        BY StreamAssumption DEF Receivers
      <4> QED BY <2>1, <3>2, <3>3, <3>4, <3>5, <4>1 DEF SenderOK
    <3>7. ChannelOK(q2, r, d)
      BY <2>1, <3>1, <3>2, <3>4, Zenon DEF ChannelOK
    <3>8. \A i \in Receivers : i # r => ChannelOK(q2, i, cs[i])
      BY <3>4, <3>5, <1>OneCloses, <1>OtherChannel
    <3>9. SideOK(q2, ds)
      BY <3>2, <3>5, <3>6, <3>7, <3>8, <1>OneChannel, Zenon DEF ds
    <3> QED BY <2>4, <3>9, Zenon DEF d, ds, q2, e
  <2> QED BY <2>3, <2>4, Zenon
\* One sender and its channels change, and the receivers do not.
<1>SideKept.
  ASSUME Inv, NEW s \in Senders, NEW q, NEW cs, SideOK(q, cs),
         sender' = [sender EXCEPT ![s] = q], channel' = [channel EXCEPT ![s] = cs],
         UNCHANGED <<recvr, mgr>>, handlers' \in SUBSET HandlerRec,
         sent' \in [Senders -> [Receivers -> Seq(Rows)]], UNCHANGED received,
         faults' \in [n : Nat, late : BOOLEAN]
  PROVE  Inv'
  <2> USE <1>SideKept
  <2>1. TypeInv /\ q \in SenderRec /\ cs \in [Receivers -> ChannelRec]
    BY Zenon DEF Inv, SideOK
  <2>2. TypeInv'
    BY <2>1, Zenon DEF TypeInv
  <2>3. \A r \in Receivers : RecvrOK(recvr[r], mgr[r])'
    BY Zenon DEF Inv
  <2>4. ASSUME NEW i \in Senders PROVE SideOK(sender'[i], channel'[i])
    <3>1. CASE i = s
      BY <2>1, <3>1, Zenon DEF TypeInv
    <3>2. CASE i # s
      <4>1. sender'[i] = sender[i] /\ channel'[i] = channel[i]
        BY <2>1, <3>2, Zenon DEF TypeInv
      <4> QED BY <4>1, Zenon DEF Inv
    <3> QED BY <3>1, <3>2, Zenon
  <2> QED BY <2>2, <2>3, <2>4, Zenon DEF Inv
\* The same, when only the sender's thread moves.
<1>ThreadKept.
  ASSUME Inv, NEW s \in Senders, NEW q, SideOK(q, channel[s]),
         sender' = [sender EXCEPT ![s] = q], UNCHANGED <<channel, sent>>, UNCHANGED Unused
  PROVE  Inv'
  <2> USE <1>ThreadKept
  <2>1. TypeInv
    BY Zenon DEF Inv
  <2>2. channel' = [channel EXCEPT ![s] = channel[s]]
    BY <2>1, Zenon DEF TypeInv
  <2> QED BY <2>1, <2>2, <1>SideKept, Zenon DEF TypeInv, Unused
\* A channel changes.
<1>ChannelKept.
  ASSUME Inv, NEW s \in Senders, NEW r \in Receivers, NEW q, NEW d,
         SideOK(q, [channel[s] EXCEPT ![r] = d]),
         sender' = [sender EXCEPT ![s] = q], channel' = [channel EXCEPT ![s][r] = d],
         UNCHANGED <<recvr, mgr>>, handlers' \in SUBSET HandlerRec,
         sent' \in [Senders -> [Receivers -> Seq(Rows)]], UNCHANGED received,
         faults' \in [n : Nat, late : BOOLEAN]
  PROVE  Inv'
  <2> USE <1>ChannelKept
  <2>1. channel' = [channel EXCEPT ![s] = [channel[s] EXCEPT ![r] = d]]
    BY Zenon
  <2> QED BY <2>1, <1>SideKept, Zenon
\* Rows are given to a channel.
<1>SentTyped.
  ASSUME Inv, NEW s \in Senders, NEW r \in Receivers, NEW rows \in Seq(Rows),
         sent' = [sent EXCEPT ![s][r] = @ \o rows]
  PROVE  sent' \in [Senders -> [Receivers -> Seq(Rows)]]
  <2> USE <1>SentTyped
  <2>1. sent \in [Senders -> [Receivers -> Seq(Rows)]]
    BY Zenon DEF Inv, TypeInv
  <2>2. sent[s] \in [Receivers -> Seq(Rows)] /\ sent[s][r] \in Seq(Rows)
    BY <2>1, Zenon
  <2>3. sent[s][r] \o rows \in Seq(Rows)
    BY <2>2
  <2>4. [sent[s] EXCEPT ![r] = sent[s][r] \o rows] \in [Receivers -> Seq(Rows)]
    BY <2>2, <2>3, Zenon
  <2> QED BY <2>1, <2>4, Zenon
\* Send, of a whole batch, keeps Inv.
<1>SendKept.
  ASSUME Inv, NEW s \in Senders, Send(s)
  PROVE  Inv'
  <2> USE <1>SendKept
  <2>1. PICK size \in 1 .. Capacity :
           /\ sender[s].row + size <= NumRows
           /\ sender' = [sender EXCEPT ![s].pc = "send", ![s].row = sender[s].row + size,
                            ![s].chan = 1,
                            ![s].buffers[sender[s].current] =
                                [i \in 1 .. size |-> sender[s].row + 1 + i - 1]]
    BY Zenon DEF Send
  <2> DEFINE q == [sender[s] EXCEPT !.pc = "send", !.row = sender[s].row + size, !.chan = 1,
                     !.buffers[sender[s].current] = [i \in 1 .. size |-> sender[s].row + 1 + i - 1]]
  <2>2. sender' = [sender EXCEPT ![s] = q]
    BY <2>1, ZenonT(60)
  <2>3. SideOK(q, channel[s])
    BY <2>1, SideOf, <1>SendSide, Zenon DEF Send
  <2> HIDE DEF q
  <2> QED BY <2>2, <2>3, <1>ThreadKept, Zenon DEF Send
\* So does the beginning of Close, ...
<1>StartCloseKept.
  ASSUME Inv, NEW s \in Senders, StartClose(s)
  PROVE  Inv'
  <2> USE <1>StartCloseKept
  <2> DEFINE q == [sender[s] EXCEPT !.pc = "close", !.chan = 1]
  <2>1. sender' = [sender EXCEPT ![s] = q]
    BY Zenon DEF StartClose
  <2>2. q \in SenderRec /\ q.buffers = sender[s].buffers /\ q.pc = "close"
    BY SideOf, FirstChannel, Zenon DEF SenderRec
  <2> HIDE DEF q
  <2>3. SideOK(q, channel[s])
    BY <2>2, SideOf, <1>MoveSide, Zenon DEF StartClose
  <2> QED BY <2>1, <2>3, <1>ThreadKept, Zenon DEF StartClose
\* ... the offer of the batch to the next channel, ...
<1>SendBatchKept.
  ASSUME Inv, NEW s \in Senders, SendBatch(s)
  PROVE  Inv'
  <2> USE <1>SendBatchKept
  <2> DEFINE r == sender[s].chan
             c == channel[s][r]
             rows == sender[s].buffers[sender[s].current]
  <2>1. r \in Receivers /\ SideOK(sender[s], channel[s]) /\ sender[s] \in SenderRec
    BY SideOf, Zenon
  <2>2. CASE c.ok
    <3> DEFINE q == IF r < NumReceivers THEN [sender[s] EXCEPT !.chan = r + 1]
                    ELSE [sender[s] EXCEPT !.pc = "ready", !.current = NextBuffer(sender[s].current)]
               d == Offered(c, sender[s].current)
    <3>1. channel' = [channel EXCEPT ![s][r] = d] /\ sent' = [sent EXCEPT ![s][r] = @ \o rows]
          /\ sender' = [sender EXCEPT ![s] = q] /\ UNCHANGED Unused
      BY <2>2, Zenon DEF SendBatch
    <3>2. SideOK(q, [channel[s] EXCEPT ![r] = d])
      BY <2>1, <2>2, <1>SendBatchSide, Zenon DEF SendBatch
    <3>3. rows \in Seq(Rows)
      BY <2>1, Zenon DEF SenderRec
    <3> HIDE DEF q, d, rows
    <3>4. sent' \in [Senders -> [Receivers -> Seq(Rows)]]
      BY <2>1, <3>1, <3>3, <1>SentTyped, Zenon
    <3> HIDE DEF r
    <3> QED BY <2>1, <3>1, <3>2, <3>4, <1>ChannelKept, Zenon DEF Unused, Inv, TypeInv
  <2>3. CASE ~ c.ok
    <3>1. sender' = [sender EXCEPT ![s] = Fails(sender[s])] /\ UNCHANGED <<channel, sent>>
          /\ UNCHANGED Unused /\ sender[s].pc = "send"
      BY <2>3, Zenon DEF SendBatch
    <3>2. SideOK(Fails(sender[s]), channel[s])
      BY <2>1, <3>1, FailsRec, <1>MoveSide, Zenon
    <3> QED BY <3>1, <3>2, <1>ThreadKept, Zenon
  <2> QED BY <2>2, <2>3, Zenon
\* ... a row added to batch_, ...
<1>AddRowKept.
  ASSUME Inv, NEW s \in Senders, NEW r \in Receivers, AddRow(s, r)
  PROVE  Inv'
  <2> USE <1>AddRowKept
  <2> DEFINE c == channel[s][r]
             row == sender[s].row + 1
             q == [sender[s] EXCEPT !.row = row]
             d == [c EXCEPT !.batch = Append(c.batch, row)]
  <2>1. SideOK(sender[s], channel[s]) /\ sender[s] \in SenderRec
    BY SideOf, Zenon
  <2>2. /\ channel' = [channel EXCEPT ![s][r] = d] /\ sender' = [sender EXCEPT ![s] = q]
        /\ sent' = [sent EXCEPT ![s][r] = Append(sent[s][r], row)] /\ UNCHANGED Unused
    BY Zenon DEF AddRow
  <2>3. SideOK(q, [channel[s] EXCEPT ![r] = d])
    BY <2>1, <1>AddRowSide, Zenon DEF AddRow
  <2>4. <<row>> \in Seq(Rows)
    BY <2>1, StreamAssumption DEF AddRow, SenderRec, Rows
  <2>5. sent[s][r] \in Seq(Rows)
    BY ZenonT(60) DEF Inv, TypeInv
  <2> HIDE DEF q, d, row, c
  <2>6. sent' = [sent EXCEPT ![s][r] = @ \o <<row>>]
    <3>1. Append(sent[s][r], row) = sent[s][r] \o <<row>>
      BY <2>4, <2>5
    <3> QED BY <2>2, <3>1, Zenon
  <2>7. sent' \in [Senders -> [Receivers -> Seq(Rows)]]
    BY <2>4, <2>6, <1>SentTyped, Zenon
  <2> QED BY <2>2, <2>3, <2>7, <1>ChannelKept, Zenon DEF Unused, Inv, TypeInv
\* ... a full batch_ sent first, ...
<1>SendFullBatchKept.
  ASSUME Inv, NEW s \in Senders, NEW r \in Receivers, SendFullBatch(s, r)
  PROVE  Inv'
  <2> USE <1>SendFullBatchKept
  <2> DEFINE c == channel[s][r]
             row == sender[s].row + 1
  <2>1. SideOK(sender[s], channel[s]) /\ sender[s] \in SenderRec
    BY SideOf
  <2>2. c.batch # <<>> /\ ~ c.in_flight /\ sender[s].pc = "ready"
    BY StreamAssumption, Zenon DEF SendFullBatch
  <2>3. CASE c.ok
    <3> DEFINE q == [sender[s] EXCEPT !.row = row]
               d == [Offered(c, Own) EXCEPT !.thrift = c.batch, !.batch = <<row>>]
    <3>1. /\ channel' = [channel EXCEPT ![s][r] = d] /\ sender' = [sender EXCEPT ![s] = q]
          /\ sent' = [sent EXCEPT ![s][r] = Append(sent[s][r], row)] /\ UNCHANGED Unused
      BY <2>3, Zenon DEF SendFullBatch
    <3>2. row \in Rows /\ row \in 0 .. NumRows
      BY <2>1, StreamAssumption DEF SendFullBatch, SenderRec, Rows
    <3>3. q \in SenderRec /\ q.buffers = sender[s].buffers /\ q.pc = "ready"
          /\ q.current = sender[s].current
      BY <2>1, <2>2, <3>2, Zenon DEF SenderRec
    <3> HIDE DEF q, row
    <3>4. <<row>> \in Seq(Rows)
      BY <3>2
    <3>5. SideOK(q, [channel[s] EXCEPT ![r] = d])
      BY <2>1, <2>2, <2>3, <3>3, <3>4, <1>FlushSide, Zenon
    <3>6. sent[s][r] \in Seq(Rows)
      BY Zenon DEF Inv, TypeInv
    <3> HIDE DEF d, c
    <3>7. sent' = [sent EXCEPT ![s][r] = @ \o <<row>>]
      <4>1. Append(sent[s][r], row) = sent[s][r] \o <<row>>
        BY <3>2, <3>6, AppendOne, Zenon
      <4> QED BY <3>1, <4>1, Zenon
    <3>8. sent' \in [Senders -> [Receivers -> Seq(Rows)]]
      BY <3>4, <3>7, <1>SentTyped, Zenon
    <3> QED BY <3>1, <3>5, <3>8, <1>ChannelKept, Zenon DEF Unused, Inv, TypeInv
  <2>4. CASE ~ c.ok
    <3> DEFINE d == [c EXCEPT !.thrift = c.batch, !.batch = <<>>]
    <3>1. /\ channel' = [channel EXCEPT ![s][r] = d] /\ UNCHANGED sent
          /\ sender' = [sender EXCEPT ![s] = Fails(sender[s])] /\ UNCHANGED Unused
      BY <2>4, ZenonT(60) DEF SendFullBatch
    <3>2. <<>> \in Seq(Rows)
      OBVIOUS
    <3>3. SideOK(Fails(sender[s]), [channel[s] EXCEPT ![r] = d])
      BY <2>1, <2>2, <2>4, <3>2, FailsRec, <1>FlushSide, Zenon
    <3> HIDE DEF d, c
    <3> QED BY <3>1, <3>3, <1>ChannelKept, Zenon DEF Unused, Inv, TypeInv
  <2> QED BY <2>3, <2>4, Zenon
\* ... the last rows sent by CloseInternal, ...
<1>CloseFlushKept.
  ASSUME Inv, NEW s \in Senders, CloseFlush(s)
  PROVE  Inv'
  <2> USE <1>CloseFlushKept
  <2> DEFINE r == sender[s].chan
             c == channel[s][r]
             q(pc) == [sender[s] EXCEPT !.pc = pc]
  <2>1. r \in Receivers /\ SideOK(sender[s], channel[s]) /\ sender[s] \in SenderRec
        /\ sender[s].pc = "close"
    BY SideOf, Zenon DEF CloseFlush
  <2>2. /\ q("status") \in SenderRec /\ q("status").buffers = sender[s].buffers
        /\ q("status").pc = "status" /\ q("status").chan = r
        /\ q("drain") \in SenderRec /\ q("drain").buffers = sender[s].buffers
        /\ q("drain").pc = "drain" /\ q("drain").chan = r
    BY <2>1, Zenon DEF SenderRec
  <2>3. <<>> \in Seq(Rows) /\ UNCHANGED sent /\ UNCHANGED Unused
    <3>1. UNCHANGED sent /\ UNCHANGED Unused
      BY Zenon DEF CloseFlush
    <3> QED BY <3>1
  <2>4. CASE c.batch = <<>>
    <3>1. sender' = [sender EXCEPT ![s] = q("status")] /\ UNCHANGED channel
      BY <2>4, Zenon DEF CloseFlush
    <3>2. SideOK(q("status"), channel[s])
      BY <2>1, <2>2, <2>4, <1>MoveSide, Zenon
    <3> HIDE DEF q
    <3> QED BY <2>3, <3>1, <3>2, <1>ThreadKept, Zenon
  <2>5. CASE c.batch # <<>> /\ c.ok
    <3> DEFINE d == [Offered(c, Own) EXCEPT !.thrift = c.batch, !.batch = <<>>]
    <3>1. /\ sender' = [sender EXCEPT ![s] = q("status")] /\ ~ c.in_flight
          /\ channel' = [channel EXCEPT ![s][r] = d]
      BY <2>5, Zenon DEF CloseFlush
    <3> HIDE DEF q
    <3>2. SideOK(q("status"), [channel[s] EXCEPT ![r] = d])
      BY <2>1, <2>2, <2>3, <2>5, <3>1, <1>FlushSide, Zenon
    <3> HIDE DEF d, c, r
    <3> QED BY <2>1, <2>3, <3>1, <3>2, <1>ChannelKept, Zenon DEF Unused, Inv, TypeInv
  <2>6. CASE c.batch # <<>> /\ ~ c.ok
    <3> DEFINE d == [c EXCEPT !.thrift = c.batch, !.batch = <<>>]
    <3>1. /\ sender' = [sender EXCEPT ![s] = q("drain")] /\ ~ c.in_flight
          /\ channel' = [channel EXCEPT ![s][r] = d]
      <4>1. /\ sender' = [sender EXCEPT ![s].pc = "drain"] /\ ~ c.in_flight
            /\ channel' = [channel EXCEPT ![s][r].thrift = c.batch, ![s][r].batch = <<>>]
        BY <2>6, Zenon DEF CloseFlush
      <4> HIDE DEF r
      <4> QED BY <4>1, Zenon
    <3> HIDE DEF q
    <3>2. SideOK(q("drain"), [channel[s] EXCEPT ![r] = d])
      BY <2>1, <2>2, <2>3, <2>6, <3>1, <1>FlushSide, Zenon
    <3> HIDE DEF d, c, r
    <3> QED BY <2>1, <2>3, <3>1, <3>2, <1>ChannelKept, Zenon DEF Unused, Inv, TypeInv
  <2> QED BY <2>4, <2>5, <2>6, Zenon
\* A new call.
<1>CallTyped.
  ASSUME NEW s \in Senders, NEW r \in Receivers, NEW kind \in {"data", "eos"},
         NEW rows \in Seq(Rows), NEW n \in {1, 2}
  PROVE  Call(s, r, kind, rows, n) \in HandlerRec
  BY <1>CallTyped, Zenon DEF Call, HandlerRec
\* ... its end-of-stream call, ...
<1>CloseStatusKept.
  ASSUME Inv, NEW s \in Senders, CloseStatus(s)
  PROVE  Inv'
  <2> USE <1>CloseStatusKept
  <2> DEFINE r == sender[s].chan
             c == channel[s][r]
  <2>1. r \in Receivers /\ SideOK(sender[s], channel[s]) /\ sender[s] \in SenderRec
        /\ sender[s].pc = "status" /\ ~ c.in_flight
    BY SideOf, Zenon DEF CloseStatus
  <2>2. UNCHANGED <<recvr, mgr, sent, received>>
    BY Zenon DEF CloseStatus
  <2>3. CASE /\ c.ok
             /\ handlers' = handlers \cup {Call(s, r, "eos", <<>>, 1)}
             /\ channel' = [channel EXCEPT ![s][r] =
                              [InCall(c, "call", "eos", <<>>) EXCEPT !.eos = "sent"]]
             /\ sender' = [sender EXCEPT ![s].pc = "eos"]
             /\ UNCHANGED faults
    <3> DEFINE q == [sender[s] EXCEPT !.pc = "eos"]
               d == [InCall(c, "call", "eos", <<>>) EXCEPT !.eos = "sent"]
    <3>1. SideOK(q, [channel[s] EXCEPT ![r] = d])
      BY <2>1, <2>3, <1>StatusSide, Zenon
    <3>2. sender' = [sender EXCEPT ![s] = q] /\ channel' = [channel EXCEPT ![s][r] = d]
      BY <2>3, Zenon
    <3>3. <<>> \in Seq(Rows)
      OBVIOUS
    <3>4. handlers' \in SUBSET HandlerRec
      <4>1. Call(s, r, "eos", <<>>, 1) \in HandlerRec
        BY <2>1, <3>3, <1>CallTyped, Zenon
      <4> QED BY <2>3, <4>1, Zenon DEF Inv, TypeInv
    <3> HIDE DEF q, d, c, r
    <3> QED BY <2>1, <2>2, <2>3, <3>1, <3>2, <3>4, <1>ChannelKept, Zenon DEF Inv, TypeInv
  <2>4. CASE /\ c.ok
             /\ Fault(FALSE)
             /\ sender' = [sender EXCEPT ![s].pc = "drain"]
             /\ channel' = [channel EXCEPT ![s][r].eos = "failed"]
             /\ UNCHANGED handlers
    <3> DEFINE q == [sender[s] EXCEPT !.pc = "drain"]
               d == [c EXCEPT !.eos = "failed"]
    <3>1. SideOK(q, [channel[s] EXCEPT ![r] = d])
      BY <2>1, <2>4, <1>StatusSide, Zenon
    <3>2. sender' = [sender EXCEPT ![s] = q] /\ channel' = [channel EXCEPT ![s][r] = d]
      BY <2>4, Zenon
    <3>3. faults' \in [n : Nat, late : BOOLEAN]
      BY <2>4, FaultTyped, Zenon
    <3> HIDE DEF q, d, c, r
    <3> QED BY <2>1, <2>2, <2>4, <3>1, <3>2, <3>3, <1>ChannelKept, Zenon DEF Inv, TypeInv
  <2>5. CASE /\ ~ c.ok
             /\ sender' = [sender EXCEPT ![s].pc = "drain"]
             /\ UNCHANGED <<channel, handlers, faults>>
    <3> DEFINE q == [sender[s] EXCEPT !.pc = "drain"]
    <3>1. q \in SenderRec /\ q.buffers = sender[s].buffers /\ q.pc = "drain" /\ q.chan = r
      BY <2>1, Zenon DEF SenderRec
    <3>2. sender' = [sender EXCEPT ![s] = q]
      BY <2>5, Zenon
    <3> HIDE DEF q
    <3>3. SideOK(q, channel[s])
      BY <2>1, <3>1, <1>MoveSide, Zenon
    <3> QED BY <2>2, <2>5, <3>2, <3>3, <1>ThreadKept, Zenon DEF Unused
  <2> QED BY <2>3, <2>4, <2>5, Zenon DEF CloseStatus
\* ... and the end of the rpc thread.
<1>CloseDrainKept.
  ASSUME Inv, NEW s \in Senders, CloseDrain(s)
  PROVE  Inv'
  <2> USE <1>CloseDrainKept
  <2> DEFINE r == sender[s].chan
             q == IF r < NumReceivers THEN [sender[s] EXCEPT !.pc = "close", !.chan = r + 1]
                  ELSE [sender[s] EXCEPT !.pc = "done"]
  <2>1. r \in Receivers /\ SideOK(sender[s], channel[s]) /\ sender[s] \in SenderRec
        /\ sender[s].pc = "drain"
    BY SideOf, Zenon DEF CloseDrain
  <2>2. sender' = [sender EXCEPT ![s] = q] /\ UNCHANGED <<channel, sent>> /\ UNCHANGED Unused
    BY Zenon DEF CloseDrain
  <2>3. CASE r < NumReceivers
    <3>1. r + 1 \in Receivers
      BY <2>1, <2>3, StreamAssumption DEF Receivers
    <3>2. q \in SenderRec /\ q.buffers = sender[s].buffers /\ q.pc = "close" /\ q.chan = r + 1
      BY <2>1, <2>3, <3>1, Zenon DEF SenderRec
    <3> HIDE DEF q
    <3>3. SideOK(q, channel[s])
      BY <2>1, <3>2, <1>MoveSide, Zenon
    <3> QED BY <2>2, <3>3, <1>ThreadKept, Zenon
  <2>4. CASE ~ (r < NumReceivers)
    <3>1. q \in SenderRec /\ q.buffers = sender[s].buffers /\ q.pc = "done"
      BY <2>1, <2>4, Zenon DEF SenderRec
    <3> HIDE DEF q
    <3>2. SideOK(q, channel[s])
      BY <2>1, <3>1, <1>MoveSide, Zenon
    <3> QED BY <2>2, <3>2, <1>ThreadKept, Zenon
  <2> QED BY <2>3, <2>4, Zenon
\* The rpc thread takes a batch and keeps Inv.
<1>TransmitDataKept.
  ASSUME Inv, NEW s \in Senders, NEW r \in Receivers, TransmitData(s, r)
  PROVE  Inv'
  <2> USE <1>TransmitDataKept
  <2> DEFINE c == channel[s][r]
             taken == [c EXCEPT !.item = NoItem]
             rows == Offer(sender[s], c)
  <2>1. SideOK(sender[s], channel[s]) /\ sender = [sender EXCEPT ![s] = sender[s]]
    BY SideOf, Zenon
  <2>2. UNCHANGED <<sender, recvr, mgr, sent, received>> /\ c.item # NoItem
    BY Zenon DEF TransmitData
  <2>3. Contents(s, c) = rows
    BY Zenon DEF Contents, Offer
  <2>4. /\ SideOK(sender[s], [channel[s] EXCEPT ![r] = InCall(taken, "call", "data", rows)])
        /\ SideOK(sender[s], [channel[s] EXCEPT ![r] = [taken EXCEPT !.ok = FALSE,
                                                                    !.in_flight = FALSE]])
        /\ rows \in Seq(Rows)
    BY <2>1, <2>2, <1>TransmitSide, Zenon
  <2>5. CASE /\ handlers' = handlers \cup {Call(s, r, "data", rows, 1)}
             /\ channel' = [channel EXCEPT ![s][r] = InCall(taken, "call", "data", rows)]
             /\ UNCHANGED faults
    <3> DEFINE d == InCall(taken, "call", "data", rows)
    <3> HIDE DEF d, rows
    <3>1. Call(s, r, "data", rows, 1) \in HandlerRec
      BY <2>4, <1>CallTyped, Zenon
    <3>2. handlers' \in SUBSET HandlerRec
      BY <2>5, <3>1, Zenon DEF Inv, TypeInv
    <3>3. SideOK(sender[s], [channel[s] EXCEPT ![r] = d]) /\ channel' = [channel EXCEPT ![s][r] = d]
      BY <2>4, <2>5, Zenon DEF d
    <3>4. sender' = [sender EXCEPT ![s] = sender[s]]
      BY <2>1, <2>2, Zenon
    <3> QED BY <2>2, <2>5, <3>2, <3>3, <3>4, <1>ChannelKept, Zenon DEF Inv, TypeInv
  <2>6. CASE /\ Fault(FALSE)
             /\ channel' = [channel EXCEPT ![s][r] =
                              [taken EXCEPT !.ok = FALSE, !.in_flight = FALSE]]
             /\ UNCHANGED handlers
    <3> DEFINE d == [taken EXCEPT !.ok = FALSE, !.in_flight = FALSE]
    <3> HIDE DEF d
    <3>1. faults' \in [n : Nat, late : BOOLEAN]
      BY <2>6, FaultTyped, Zenon
    <3>2. SideOK(sender[s], [channel[s] EXCEPT ![r] = d]) /\ channel' = [channel EXCEPT ![s][r] = d]
      BY <2>4, <2>6, Zenon DEF d
    <3>3. sender' = [sender EXCEPT ![s] = sender[s]]
      BY <2>1, <2>2
    <3> QED BY <2>2, <2>6, <3>1, <3>2, <3>3, <1>ChannelKept, Zenon DEF Inv, TypeInv
  <2> QED BY <2>3, <2>5, <2>6, Zenon DEF TransmitData
\* A call ends, whatever becomes of its handler.
<1>EndCallKept.
  ASSUME Inv, NEW s \in Senders, NEW r \in Receivers, NEW ok \in BOOLEAN, EndCall(s, r, ok),
         channel[s][r].pc # "idle", UNCHANGED <<recvr, mgr, sent, received>>,
         handlers' \in SUBSET HandlerRec, faults' \in [n : Nat, late : BOOLEAN]
  PROVE  Inv'
  <2> USE <1>EndCallKept
  <2> DEFINE c == channel[s][r]
  <2>1. SideOK(sender[s], channel[s]) /\ sender = [sender EXCEPT ![s] = sender[s]]
    BY SideOf, Zenon
  <2>2. CASE c.kind = "data"
    <3> DEFINE d == [c EXCEPT !.pc = "idle", !.in_flight = FALSE, !.ok = ok]
    <3>1. channel' = [channel EXCEPT ![s][r] = d] /\ UNCHANGED sender
      BY <2>2, Zenon DEF EndCall
    <3>2. SideOK(sender[s], [channel[s] EXCEPT ![r] = d])
      BY <2>1, <2>2, <1>EndCallSide, Zenon
    <3>3. sender' = [sender EXCEPT ![s] = sender[s]]
      BY <2>1, <3>1, Zenon
    <3> HIDE DEF d
    <3> QED BY <3>1, <3>2, <3>3, <1>ChannelKept, Zenon DEF Inv, TypeInv
  <2>3. CASE c.kind # "data"
    <3> DEFINE q == [sender[s] EXCEPT !.pc = "drain"]
               d == [c EXCEPT !.pc = "idle", !.eos = IF ok THEN "ok" ELSE "failed"]
    <3>1. channel' = [channel EXCEPT ![s][r] = d] /\ sender' = [sender EXCEPT ![s] = q]
      BY <2>3, Zenon DEF EndCall
    <3>2. SideOK(q, [channel[s] EXCEPT ![r] = d])
      BY <2>1, <2>3, <1>EndCallSide, Zenon
    <3> HIDE DEF d, q
    <3> QED BY <3>1, <3>2, <1>ChannelKept, Zenon DEF Inv, TypeInv
  <2> QED BY <2>2, <2>3, Zenon
\* So does a call that returns, ...
<1>CallReturnsKept.
  ASSUME Inv, NEW s \in Senders, NEW r \in Receivers, CallReturns(s, r)
  PROVE  Inv'
  <2> USE <1>CallReturnsKept
  <2>1. handlers' \in SUBSET HandlerRec /\ faults' \in [n : Nat, late : BOOLEAN]
    BY Zenon DEF CallReturns, Inv, TypeInv
  <2> QED BY <2>1, <1>EndCallKept, Zenon DEF CallReturns
\* ... one that fails, ...
<1>CallThrowsKept.
  ASSUME Inv, NEW s \in Senders, NEW r \in Receivers, CallThrows(s, r)
  PROVE  Inv'
  <2> USE <1>CallThrowsKept
  <2> DEFINE d == [channel[s][r] EXCEPT !.pc = "reopen"]
  <2>1. PICK h \in handlers : Lost(h)
    BY Zenon DEF CallThrows, ServedBy
  <2>2. handlers' \in SUBSET HandlerRec /\ faults' \in [n : Nat, late : BOOLEAN]
    BY <2>1, LostTyped, Zenon
  <2>3. UNCHANGED <<recvr, mgr, sent, received>> /\ channel[s][r].pc # "idle"
    BY Zenon DEF CallThrows
  <2>4. CASE EndCall(s, r, FALSE)
    BY <2>2, <2>3, <2>4, <1>EndCallKept, Zenon
  <2>5. CASE channel' = [channel EXCEPT ![s][r].pc = "reopen"] /\ UNCHANGED sender
    <3>1. channel' = [channel EXCEPT ![s][r] = d] /\ sender' = [sender EXCEPT ![s] = sender[s]]
      BY <2>5, SideOf, Zenon
    <3>2. SideOK(sender[s], [channel[s] EXCEPT ![r] = d])
      BY <2>3, SideOf, <1>RetrySide, Zenon
    <3> HIDE DEF d
    <3> QED BY <2>2, <2>3, <3>1, <3>2, <1>ChannelKept, Zenon DEF Inv, TypeInv
  <2> QED BY <2>4, <2>5, Zenon DEF CallThrows
\* ... and its retry.
<1>RetryKept.
  ASSUME Inv, NEW s \in Senders, NEW r \in Receivers, Retry(s, r)
  PROVE  Inv'
  <2> USE <1>RetryKept
  <2> DEFINE c == channel[s][r]
             d == [c EXCEPT !.pc = "retry"]
  <2>1. UNCHANGED <<recvr, mgr, sent, received>> /\ c.pc = "reopen"
    BY Zenon DEF Retry
  <2>2. c \in ChannelRec /\ handlers \in SUBSET HandlerRec /\ faults \in [n : Nat, late : BOOLEAN]
    <3>1. channel \in [Senders -> [Receivers -> ChannelRec]]
      BY Zenon DEF Inv, TypeInv
    <3>2. handlers \in SUBSET HandlerRec
      BY Zenon DEF Inv, TypeInv
    <3>3. faults \in [n : Nat, late : BOOLEAN]
      BY Zenon DEF Inv, TypeInv
    <3> QED BY <3>1, <3>2, <3>3, Zenon
  <2>3. CASE Fault(FALSE) /\ EndCall(s, r, FALSE) /\ UNCHANGED handlers
    BY <2>1, <2>2, <2>3, FaultTyped, <1>EndCallKept, Zenon
  <2>4. CASE /\ handlers' = handlers \cup {Call(s, r, c.kind, c.rows, 2)}
             /\ channel' = [channel EXCEPT ![s][r] = InCall(c, "retry", c.kind, c.rows)]
             /\ UNCHANGED <<sender, faults>>
    <3>1. InCall(c, "retry", c.kind, c.rows) = d
      BY <2>2, Zenon DEF InCall, ChannelRec
    <3>2. channel' = [channel EXCEPT ![s][r] = d] /\ sender' = [sender EXCEPT ![s] = sender[s]]
      BY <2>4, <3>1, SideOf, Zenon
    <3>3. SideOK(sender[s], [channel[s] EXCEPT ![r] = d])
      BY <2>1, SideOf, <1>RetrySide, Zenon
    <3>4. c.kind \in {"data", "eos"} /\ c.rows \in Seq(Rows)
      BY <2>2, Zenon DEF ChannelRec
    <3>5. Call(s, r, c.kind, c.rows, 2) \in HandlerRec
      BY <3>4, <1>CallTyped, Zenon
    <3>6. handlers' \in SUBSET HandlerRec
      BY <2>2, <2>4, <3>5, Zenon
    <3> HIDE DEF d, c
    <3> QED BY <2>1, <2>2, <2>4, <3>2, <3>3, <3>6, <1>ChannelKept, Zenon DEF Inv, TypeInv
  <2> QED BY <2>3, <2>4, Zenon DEF Retry
\* One receiver changes, and the senders do not.
<1>RecvrKept.
  ASSUME Inv, NEW r \in Receivers, NEW q \in RecvrRec, NEW m \in MgrStates, RecvrOK(q, m),
         recvr' = [recvr EXCEPT ![r] = q], mgr' = [mgr EXCEPT ![r] = m],
         handlers' \in SUBSET HandlerRec, UNCHANGED <<sender, channel, sent, faults>>,
         received' \in [Senders -> [Receivers -> Seq(Rows)]]
  PROVE  Inv'
  <2> USE <1>RecvrKept
  <2>1. TypeInv
    BY Zenon DEF Inv
  <2>2. TypeInv'
    BY <2>1, Zenon DEF TypeInv, MgrStates
  <2>3. ASSUME NEW i \in Receivers PROVE RecvrOK(recvr'[i], mgr'[i])
    <3>1. CASE i = r
      BY <2>1, <3>1, Zenon DEF TypeInv
    <3>2. CASE i # r
      <4>1. recvr'[i] = recvr[i] /\ mgr'[i] = mgr[i]
        BY <2>1, <3>2, Zenon DEF TypeInv
      <4> QED BY <4>1, Zenon DEF Inv
    <3> QED BY <3>1, <3>2, Zenon
  <2>4. \A s \in Senders : SideOK(sender[s], channel[s])'
    BY Zenon DEF Inv
  <2> QED BY <2>2, <2>3, <2>4, Zenon DEF Inv
\* A handler goes on.
<1>MovedTyped.
  ASSUME NEW hs \in SUBSET HandlerRec, NEW h \in HandlerRec,
         NEW pc \in {"find", "add", "dec", "wait", "woken", "done"}
  PROVE  Moved(hs, h, pc) \in SUBSET HandlerRec
  <2> USE <1>MovedTyped
  <2>1. [h EXCEPT !.pc = pc, !.timer = FALSE] \in HandlerRec
    BY Zenon DEF HandlerRec
  <2> QED BY <2>1, Zenon DEF Moved
\* A handler that looks up its control block keeps Inv.
<1>FindKept.
  ASSUME Inv, NEW h \in handlers, FindControlBlock(h)
  PROVE  Inv'
  <2> USE <1>FindKept
  <2>1. h \in HandlerRec
    BY Zenon DEF Inv, TypeInv
  <2>2. h.r \in Receivers
    BY <2>1, Zenon DEF HandlerRec
  <2> DEFINE pc == IF ~ recvr[h.r].registered THEN "done"
                   ELSE IF h.kind = "eos" THEN "dec" ELSE "add"
  <2>3. handlers' = Moved(handlers, h, pc) /\ UNCHANGED <<sender, channel, recvr, mgr, sent, received, faults>>
    BY Zenon DEF FindControlBlock
  <2>4. pc \in {"find", "add", "dec", "wait", "woken", "done"}
    BY Zenon
  <2> HIDE DEF pc
  <2>5. handlers' \in SUBSET HandlerRec
    BY <2>1, <2>2, <2>3, <2>4, <1>MovedTyped, RecvrOf, Zenon
  <2> QED BY <2>2, <2>3, <2>5, RecvrOf, <1>RecvrKept, Zenon
\* The receiver's thread may be notified.
<1>ArrivalOK.
  ASSUME NEW q \in RecvrRec, NEW m, RecvrOK(q, m)
  PROVE  /\ Arrival(q) \in RecvrRec /\ RecvrOK(Arrival(q), m) /\ Arrival(q).pc # "wait"
         /\ \A i \in {"registered", "cancelled", "queue", "buffered", "remaining", "timer",
                      "outcome"} : Arrival(q)[i] = q[i]
         /\ q.pc # "wait" => Arrival(q).pc = q.pc
  <2> USE <1>ArrivalOK
  <2> DEFINE pc == IF q.pc = "wait" THEN "get" ELSE q.pc
  <2>1. pc \in {"get", "close", "closed"} /\ (q.pc # "wait" => pc = q.pc)
        /\ (q.pc \in {"get", "wait"} <=> pc \in {"get", "wait"})
    BY Zenon DEF RecvrRec
  <2> HIDE DEF pc
  <2>2. Arrival(q) = [q EXCEPT !.pc = pc]
    BY Zenon DEF Arrival, pc
  <2>3. /\ Arrival(q) \in RecvrRec /\ Arrival(q).pc = pc
        /\ Arrival(q).registered = q.registered /\ Arrival(q).cancelled = q.cancelled
        /\ Arrival(q).queue = q.queue /\ Arrival(q).buffered = q.buffered
        /\ Arrival(q).remaining = q.remaining /\ Arrival(q).timer = q.timer
        /\ Arrival(q).outcome = q.outcome
    BY <2>1, <2>2, Zenon DEF RecvrRec
  <2> QED BY <2>1, <2>3, Zenon DEF RecvrOK
\* AddBatch keeps Inv: it never adds to a queue anything but a batch of some sender.
<1>AddBatchKept.
  ASSUME Inv, NEW h \in handlers, AddBatch(h)
  PROVE  Inv'
  <2> USE <1>AddBatchKept
  <2> DEFINE q == recvr[h.r]
             freed == [q EXCEPT !.timer = q.timer /\ ~ h.timer]
  <2>1. h \in HandlerRec
    BY Zenon DEF Inv, TypeInv
  <2>2. h.r \in Receivers /\ h.s \in Senders /\ h.rows \in Seq(Rows)
        /\ h.pc \in {"find", "add", "dec", "wait", "woken", "done"}
    BY <2>1, Zenon DEF HandlerRec
  <2>3. q \in RecvrRec /\ RecvrOK(q, mgr[h.r]) /\ mgr[h.r] \in MgrStates
        /\ mgr = [mgr EXCEPT ![h.r] = mgr[h.r]] /\ handlers \in SUBSET HandlerRec
        /\ received \in [Senders -> [Receivers -> Seq(Rows)]]
    BY <2>2, RecvrOf, Zenon
  <2>4. /\ freed \in RecvrRec /\ freed.queue = q.queue /\ freed.pc = q.pc
        /\ freed.cancelled = q.cancelled /\ freed.registered = q.registered
        /\ freed.outcome = q.outcome /\ freed.buffered = q.buffered
        /\ freed.remaining = q.remaining
    <3>1. (q.timer /\ ~ h.timer) \in BOOLEAN
      BY Zenon
    <3> QED BY <2>3, <3>1, Zenon DEF RecvrRec
  <2>5. UNCHANGED <<sender, channel, mgr, sent, received, faults>> /\ h.pc \in {"add", "woken"}
    BY Zenon DEF AddBatch
  <2>6. ASSUME NEW n \in RecvrRec, RecvrOK(n, mgr[h.r]), recvr' = [recvr EXCEPT ![h.r] = n],
               handlers' \in SUBSET HandlerRec
        PROVE  Inv'
    BY <2>2, <2>3, <2>5, <2>6, <1>RecvrKept, Zenon
  <2>7. PICK hs \in IF h.timer THEN Woken(handlers, h.r) ELSE {handlers} :
           \/ /\ q.cancelled
              /\ recvr' = [recvr EXCEPT ![h.r] = freed]
              /\ handlers' = Moved(hs, h, "done")
           \/ /\ ~ q.cancelled
              /\ BufferFull(q, h.rows)
              /\ recvr' = [recvr EXCEPT ![h.r].timer = TRUE]
              /\ handlers' = (hs \ {h}) \cup {[h EXCEPT !.pc = "wait", !.timer = ~ freed.timer]}
           \/ /\ ~ q.cancelled
              /\ ~ BufferFull(q, h.rows)
              /\ recvr' = [recvr EXCEPT ![h.r] =
                             Arrival([freed EXCEPT
                                 !.queue = Append(freed.queue, [s |-> h.s, rows |-> h.rows]),
                                 !.buffered = freed.buffered + Size(h.rows)])]
              /\ handlers' = Moved(hs, h, "done")
    BY Zenon DEF AddBatch
  <2>8. hs \in SUBSET HandlerRec
    BY <2>3, <2>7, WokenTyped, Zenon
  <2>9. Moved(hs, h, "done") \in SUBSET HandlerRec
    BY <2>1, <2>8, <1>MovedTyped, Zenon
  <2>10. CASE q.cancelled /\ recvr' = [recvr EXCEPT ![h.r] = freed] /\ handlers' = Moved(hs, h, "done")
    <3>1. RecvrOK(freed, mgr[h.r])
      BY <2>3, <2>4, Zenon DEF RecvrOK
    <3> QED BY <2>4, <2>6, <2>9, <2>10, <3>1, Zenon
  <2>11. CASE /\ recvr' = [recvr EXCEPT ![h.r].timer = TRUE]
              /\ handlers' = (hs \ {h}) \cup {[h EXCEPT !.pc = "wait", !.timer = ~ freed.timer]}
    <3> DEFINE n == [q EXCEPT !.timer = TRUE]
    <3>1. /\ n \in RecvrRec /\ n.queue = q.queue /\ n.pc = q.pc
          /\ n.cancelled = q.cancelled /\ n.registered = q.registered /\ n.outcome = q.outcome
      BY <2>3, Zenon DEF RecvrRec
    <3>2. recvr' = [recvr EXCEPT ![h.r] = n]
      BY <2>11, Zenon
    <3> HIDE DEF n
    <3>3. RecvrOK(n, mgr[h.r])
      BY <2>3, <3>1, Zenon DEF RecvrOK
    <3>4. (~ freed.timer) \in BOOLEAN
      BY Zenon
    <3>5. [h EXCEPT !.pc = "wait", !.timer = ~ freed.timer] \in HandlerRec
      BY <2>1, <3>4, Zenon DEF HandlerRec
    <3>6. handlers' \in SUBSET HandlerRec
      BY <2>8, <2>11, <3>5, Zenon
    <3> QED BY <2>6, <3>1, <3>2, <3>3, <3>6, Zenon
  <2>12. CASE /\ ~ q.cancelled
              /\ recvr' = [recvr EXCEPT ![h.r] =
                             Arrival([freed EXCEPT
                                 !.queue = Append(freed.queue, [s |-> h.s, rows |-> h.rows]),
                                 !.buffered = freed.buffered + Size(h.rows)])]
              /\ handlers' = Moved(hs, h, "done")
    <3> HIDE DEF freed
    <3> DEFINE e == [s |-> h.s, rows |-> h.rows]
               n == [freed EXCEPT !.queue = Append(freed.queue, e),
                                  !.buffered = freed.buffered + Size(h.rows)]
    <3>1. e \in Entry
      BY <2>2, Zenon DEF Entry
    <3>2. freed.queue \in Seq(Entry) /\ freed.buffered \in Int
      BY <2>4, Zenon DEF RecvrRec
    <3>3. Append(freed.queue, e) \in Seq(Entry) /\ freed.buffered + Size(h.rows) \in Int
      BY <2>2, <3>1, <3>2 DEF Size
    <3>4. /\ n \in RecvrRec /\ n.pc = q.pc /\ n.cancelled = q.cancelled
          /\ n.registered = q.registered /\ n.outcome = q.outcome
      BY <2>4, <3>3, Zenon DEF RecvrRec
    <3>5. recvr' = [recvr EXCEPT ![h.r] = Arrival(n)]
      BY <2>12, Zenon
    <3> HIDE DEF n
    <3>6. RecvrOK(n, mgr[h.r])
      BY <2>3, <3>4, Zenon DEF RecvrOK
    <3> QED BY <2>6, <2>9, <2>12, <3>4, <3>5, <3>6, <1>ArrivalOK, Zenon
  <2> QED BY <2>7, <2>10, <2>11, <2>12, Zenon
\* A handler that wakes by itself keeps Inv.
<1>SpuriousKept.
  ASSUME Inv, NEW h \in handlers, AddSpurious(h)
  PROVE  Inv'
  <2> USE <1>SpuriousKept
  <2>1. h \in HandlerRec /\ handlers \in SUBSET HandlerRec
    BY Zenon DEF Inv, TypeInv
  <2>2. h.r \in Receivers /\ [h EXCEPT !.pc = "woken"] \in HandlerRec
    BY <2>1, Zenon DEF HandlerRec
  <2>3. handlers' \in SUBSET HandlerRec
    BY <2>1, <2>2, Zenon DEF AddSpurious
  <2> QED BY <2>2, <2>3, RecvrOf, <1>RecvrKept, Zenon DEF AddSpurious
\* CloseSender keeps Inv.
<1>DecrementKept.
  ASSUME Inv, NEW h \in handlers, DecrementSenders(h)
  PROVE  Inv'
  <2> USE <1>DecrementKept
  <2> DEFINE q == recvr[h.r]
             left == IF q.remaining > 0 THEN q.remaining - 1 ELSE 0
             after == [q EXCEPT !.remaining = left]
  <2>1. h \in HandlerRec
    BY Zenon DEF Inv, TypeInv
  <2>2. h.r \in Receivers
    BY <2>1, Zenon DEF HandlerRec
  <2>3. q \in RecvrRec /\ RecvrOK(q, mgr[h.r]) /\ mgr[h.r] \in MgrStates
        /\ mgr = [mgr EXCEPT ![h.r] = mgr[h.r]] /\ handlers \in SUBSET HandlerRec
        /\ received \in [Senders -> [Receivers -> Seq(Rows)]]
    BY <2>2, RecvrOf, Zenon
  <2>4. /\ UNCHANGED <<sender, channel, mgr, sent, received, faults>>
        /\ handlers' = Moved(handlers, h, "done")
        /\ recvr' = [recvr EXCEPT ![h.r] = IF left = 0 THEN Arrival(after) ELSE after]
    BY Zenon DEF DecrementSenders
  <2>5. left \in Nat
    BY <2>3 DEF RecvrRec
  <2> HIDE DEF left
  <2>6. /\ after \in RecvrRec /\ after.pc = q.pc /\ after.cancelled = q.cancelled
        /\ after.registered = q.registered /\ after.outcome = q.outcome
    BY <2>3, <2>5, Zenon DEF RecvrRec
  <2> HIDE DEF after
  <2>7. RecvrOK(after, mgr[h.r])
    BY <2>3, <2>6, Zenon DEF RecvrOK
  <2>8. handlers' \in SUBSET HandlerRec
    BY <2>1, <2>3, <2>4, <1>MovedTyped, Zenon
  <2> DEFINE n == IF left = 0 THEN Arrival(after) ELSE after
  <2>9. n \in RecvrRec /\ RecvrOK(n, mgr[h.r])
    BY <2>6, <2>7, <1>ArrivalOK, Zenon
  <2> HIDE DEF n
  <2> QED BY <2>2, <2>3, <2>4, <2>8, <2>9, <1>RecvrKept, Zenon DEF n
\* Only the thread of the receiver moves.
<1>RecvrMoves.
  ASSUME Inv, NEW r \in Receivers, NEW pc \in {"get", "wait", "close"},
         NEW outcome \in {"open", "cancelled", "eos", "limit"},
         pc \in {"get", "wait"} <=> outcome = "open", recvr[r].pc \in {"get", "wait"},
         recvr' = [recvr EXCEPT ![r] = [recvr[r] EXCEPT !.pc = pc, !.outcome = outcome]],
         UNCHANGED <<sender, channel, handlers, mgr, sent, received, faults>>
  PROVE  Inv'
  <2> USE <1>RecvrMoves
  <2> DEFINE q == recvr[r]
             n == [q EXCEPT !.pc = pc, !.outcome = outcome]
  <2>1. q \in RecvrRec /\ RecvrOK(q, mgr[r]) /\ mgr[r] \in MgrStates
        /\ mgr = [mgr EXCEPT ![r] = mgr[r]] /\ handlers \in SUBSET HandlerRec
        /\ received \in [Senders -> [Receivers -> Seq(Rows)]]
    BY RecvrOf, Zenon
  <2>2. /\ n \in RecvrRec /\ n.pc = pc /\ n.outcome = outcome /\ n.cancelled = q.cancelled
        /\ n.registered = q.registered
    BY <2>1, Zenon DEF RecvrRec
  <2> HIDE DEF n
  <2>3. RecvrOK(n, mgr[r])
    BY <2>1, <2>2, Zenon DEF RecvrOK
  <2> QED BY <2>1, <2>2, <2>3, <1>RecvrKept, Zenon DEF n
\* GetBatch keeps Inv.
<1>GetBatchKept.
  ASSUME Inv, NEW r \in Receivers, GetBatch(r)
  PROVE  Inv'
  <2> USE <1>GetBatchKept
  <2> DEFINE q == recvr[r]
  <2>1. q \in RecvrRec /\ RecvrOK(q, mgr[r]) /\ mgr[r] \in MgrStates
        /\ mgr = [mgr EXCEPT ![r] = mgr[r]] /\ handlers \in SUBSET HandlerRec
        /\ received \in [Senders -> [Receivers -> Seq(Rows)]]
    BY RecvrOf, Zenon
  <2>2. q.pc = "get" /\ UNCHANGED <<sender, channel, mgr, sent, faults>>
    BY Zenon DEF GetBatch
  <2>3. q.outcome = "open"
    BY <2>1, <2>2, Zenon DEF RecvrOK
  <2>4. ASSUME NEW outcome \in {"cancelled", "eos"}, UNCHANGED <<handlers, received>>,
               recvr' = [recvr EXCEPT ![r] = [q EXCEPT !.pc = "close", !.outcome = outcome]]
        PROVE  Inv'
    BY <2>2, <2>4, <1>RecvrMoves, Zenon
  <2>5. CASE recvr' = [recvr EXCEPT ![r].pc = "wait"] /\ UNCHANGED <<handlers, received>>
    <3>1. [q EXCEPT !.pc = "wait"] = [q EXCEPT !.pc = "wait", !.outcome = "open"]
      BY <2>1, <2>3, Zenon DEF RecvrRec
    <3>2. recvr' = [recvr EXCEPT ![r] = [q EXCEPT !.pc = "wait", !.outcome = "open"]]
      BY <2>5, <3>1, Zenon
    <3> HIDE DEF q
    <3> QED BY <2>2, <2>5, <3>2, <1>RecvrMoves, Zenon DEF q
  <2>6. CASE /\ HasBatch(q)
             /\ recvr' = [recvr EXCEPT ![r].queue = Tail(@),
                                       ![r].buffered = @ - Size(Head(q.queue).rows)]
             /\ received' = [received EXCEPT ![Head(q.queue).s][r] = @ \o Head(q.queue).rows]
             /\ handlers' \in Woken(handlers, r)
    <3> DEFINE e == Head(q.queue)
               n == [q EXCEPT !.queue = Tail(q.queue), !.buffered = q.buffered - Size(e.rows)]
    <3>1. q.queue \in Seq(Entry) /\ q.queue # <<>> /\ q.buffered \in Int
      BY <2>1, <2>6, Zenon DEF RecvrRec, HasBatch
    <3>2. e \in Entry /\ Tail(q.queue) \in Seq(Entry)
      BY <3>1
    <3>3. e.s \in Senders /\ e.rows \in Seq(Rows)
      BY <3>2, Zenon DEF Entry
    <3>4. recvr' = [recvr EXCEPT ![r] = n]
      BY <2>6, Zenon
    <3> HIDE DEF e
    <3>5. q.buffered - Size(e.rows) \in Int
      BY <3>1, <3>3 DEF Size
    <3>6. /\ n \in RecvrRec /\ n.pc = q.pc /\ n.cancelled = q.cancelled
          /\ n.registered = q.registered /\ n.outcome = q.outcome
      BY <2>1, <3>2, <3>5, Zenon DEF RecvrRec
    <3> HIDE DEF n
    <3>7. RecvrOK(n, mgr[r])
      BY <2>1, <3>6, Zenon DEF RecvrOK
    <3>8. handlers' \in SUBSET HandlerRec
      BY <2>1, <2>6, WokenTyped, Zenon
    <3>9. received' \in [Senders -> [Receivers -> Seq(Rows)]]
      <4>1. received' = [received EXCEPT ![e.s][r] = @ \o e.rows]
        BY <2>6, Zenon DEF e
      <4>2. received[e.s] \in [Receivers -> Seq(Rows)] /\ received[e.s][r] \in Seq(Rows)
        BY <2>1, <3>3, Zenon
      <4>3. received[e.s][r] \o e.rows \in Seq(Rows)
        BY <3>3, <4>2
      <4>4. [received[e.s] EXCEPT ![r] = received[e.s][r] \o e.rows] \in [Receivers -> Seq(Rows)]
        BY <4>2, <4>3, Zenon
      <4> QED BY <2>1, <4>1, <4>4, Zenon
    <3> QED BY <2>1, <2>2, <3>4, <3>6, <3>7, <3>8, <3>9, <1>RecvrKept, Zenon
  <2> QED BY <2>4, <2>5, <2>6, Zenon DEF GetBatch
\* The other steps of the receiver's thread keep Inv.
<1>ThreadMovesKept.
  ASSUME Inv, NEW r \in Receivers, GetSpurious(r) \/ ReachedLimit(r)
  PROVE  Inv'
  <2> USE <1>ThreadMovesKept
  <2> DEFINE q == recvr[r]
  <2>1. q \in RecvrRec /\ RecvrOK(q, mgr[r]) /\ q.pc \in {"get", "wait"}
        /\ UNCHANGED <<sender, channel, handlers, mgr, sent, received, faults>>
    BY RecvrOf, Zenon DEF GetSpurious, ReachedLimit
  <2>2. CASE recvr' = [recvr EXCEPT ![r].pc = "get"]
    <3>1. q.outcome = "open"
      BY <2>1, Zenon DEF RecvrOK
    <3>2. [q EXCEPT !.pc = "get"] = [q EXCEPT !.pc = "get", !.outcome = "open"]
      BY <2>1, <3>1, Zenon DEF RecvrRec
    <3>3. recvr' = [recvr EXCEPT ![r] = [q EXCEPT !.pc = "get", !.outcome = "open"]]
      BY <2>2, <3>2, Zenon
    <3> QED BY <2>1, <3>3, <1>RecvrMoves, Zenon
  <2>3. CASE recvr' = [recvr EXCEPT ![r].pc = "close", ![r].outcome = "limit"]
    <3>1. recvr' = [recvr EXCEPT ![r] = [q EXCEPT !.pc = "close", !.outcome = "limit"]]
      BY <2>3, Zenon
    <3> QED BY <2>1, <3>1, <1>RecvrMoves, Zenon
  <2> QED BY <2>2, <2>3, Zenon DEF GetSpurious, ReachedLimit
\* Cancel and DeregisterRecvr keep Inv.
<1>CancelKept.
  ASSUME Inv, NEW r \in Receivers, Cancel(r) \/ DeregisterRecvr(r)
  PROVE  Inv'
  <2> USE <1>CancelKept
  <2> DEFINE q == recvr[r]
  <2>1. q \in RecvrRec /\ RecvrOK(q, mgr[r]) /\ mgr[r] = "free"
        /\ mgr = [mgr EXCEPT ![r] = mgr[r]] /\ handlers \in SUBSET HandlerRec
        /\ received \in [Senders -> [Receivers -> Seq(Rows)]]
        /\ UNCHANGED <<sender, channel, handlers, sent, received, faults>>
    BY RecvrOf, Zenon DEF Cancel, DeregisterRecvr
  <2>2. CASE /\ recvr' = [recvr EXCEPT ![r].cancelled = TRUE]
             /\ \/ mgr' = [mgr EXCEPT ![r] = "cancel wakes"]
                \/ q.pc = "close" /\ mgr' = [mgr EXCEPT ![r] = "close wakes"]
    <3> DEFINE n == [q EXCEPT !.cancelled = TRUE]
    <3>1. recvr' = [recvr EXCEPT ![r] = n]
      BY <2>2, Zenon
    <3>2. /\ n \in RecvrRec /\ n.pc = q.pc /\ n.cancelled = TRUE
          /\ n.registered = q.registered /\ n.outcome = q.outcome
      BY <2>1, Zenon DEF RecvrRec
    <3> HIDE DEF n
    <3>3. RecvrOK(n, "cancel wakes") /\ (q.pc = "close" => RecvrOK(n, "close wakes"))
      BY <2>1, <3>2, Zenon DEF RecvrOK
    <3>4. "cancel wakes" \in MgrStates /\ "close wakes" \in MgrStates
      BY Zenon DEF MgrStates
    <3> QED BY <2>1, <2>2, <3>1, <3>2, <3>3, <3>4, <1>RecvrKept, Zenon
  <2>3. CASE /\ q.pc = "close" /\ q.cancelled /\ UNCHANGED mgr
             /\ recvr' = [recvr EXCEPT ![r].pc = "closed", ![r].registered = FALSE]
    <3> DEFINE n == [q EXCEPT !.pc = "closed", !.registered = FALSE]
    <3>1. recvr' = [recvr EXCEPT ![r] = n]
      BY <2>3, Zenon
    <3>2. /\ n \in RecvrRec /\ n.pc = "closed" /\ n.cancelled = q.cancelled
          /\ n.registered = FALSE /\ n.outcome = q.outcome
      BY <2>1, Zenon DEF RecvrRec
    <3> HIDE DEF n
    <3>3. RecvrOK(n, mgr[r]) /\ mgr[r] \in MgrStates
      BY <2>1, <2>3, <3>2, Zenon DEF RecvrOK, MgrStates
    <3> QED BY <2>1, <2>3, <3>1, <3>2, <3>3, <1>RecvrKept, Zenon
  <2> QED BY <2>2, <2>3, Zenon DEF Cancel, DeregisterRecvr
\* The notifications of CancelStream keep Inv.
<1>CancelWakesKept.
  ASSUME Inv, NEW r \in Receivers, CancelWakes(r)
  PROVE  Inv'
  <2> USE <1>CancelWakesKept
  <2> DEFINE q == recvr[r]
             m == IF mgr[r] = "cancel wakes" THEN "cancel deletes" ELSE "close deletes"
  <2>1. q \in RecvrRec /\ RecvrOK(q, mgr[r]) /\ mgr[r] \in MgrStates
        /\ handlers \in SUBSET HandlerRec /\ received \in [Senders -> [Receivers -> Seq(Rows)]]
    BY RecvrOf, Zenon
  <2>2. /\ UNCHANGED <<sender, channel, sent, received, faults>> /\ WakesPending(r)
        /\ recvr' = [recvr EXCEPT ![r] = Arrival(q)] /\ mgr' = [mgr EXCEPT ![r] = m]
        /\ handlers' = {IF h \in Waiters(handlers, r) THEN [h EXCEPT !.pc = "woken"] ELSE h
                           : h \in handlers}
    BY Zenon DEF CancelWakes
  <2>3. m \in MgrStates /\ RecvrOK(q, m)
    BY <2>1, <2>2, Zenon DEF RecvrOK, WakesPending, MgrStates
  <2> HIDE DEF m
  <2>4. Arrival(q) \in RecvrRec /\ RecvrOK(Arrival(q), m)
    BY <2>1, <2>3, <1>ArrivalOK, Zenon
  <2>5. \A h \in HandlerRec : [h EXCEPT !.pc = "woken"] \in HandlerRec
    BY Zenon DEF HandlerRec
  <2>6. handlers' \in SUBSET HandlerRec
    BY <2>1, <2>2, <2>5, Zenon
  <2> QED BY <2>1, <2>2, <2>3, <2>4, <2>6, <1>RecvrKept, Zenon
\* The end of CancelStream keeps Inv.
<1>CancelDeletesKept.
  ASSUME Inv, NEW r \in Receivers, CancelDeletes(r)
  PROVE  Inv'
  <2> USE <1>CancelDeletesKept
  <2> DEFINE q == recvr[r]
             n == IF mgr[r] = "close deletes" THEN [q EXCEPT !.pc = "closed", !.registered = FALSE]
                  ELSE q
  <2>1. q \in RecvrRec /\ RecvrOK(q, mgr[r]) /\ recvr = [recvr EXCEPT ![r] = q]
        /\ handlers \in SUBSET HandlerRec /\ received \in [Senders -> [Receivers -> Seq(Rows)]]
    BY RecvrOf, Zenon
  <2>2. /\ UNCHANGED <<sender, channel, handlers, sent, received, faults>>
        /\ mgr[r] \in {"cancel deletes", "close deletes"} /\ mgr' = [mgr EXCEPT ![r] = "free"]
        /\ recvr' = IF mgr[r] = "close deletes"
                    THEN [recvr EXCEPT ![r].pc = "closed", ![r].registered = FALSE] ELSE recvr
    BY Zenon DEF CancelDeletes
  <2>3. recvr' = [recvr EXCEPT ![r] = n]
    <3>1. CASE mgr[r] = "close deletes"
      BY <2>2, <3>1, Zenon
    <3>2. CASE mgr[r] # "close deletes"
      BY <2>1, <2>2, <3>2, Zenon
    <3> QED BY <3>1, <3>2, Zenon
  <2>4. n \in RecvrRec /\ RecvrOK(n, "free")
    <3>1. CASE mgr[r] = "close deletes"
      <4>1. /\ n \in RecvrRec /\ n.pc = "closed" /\ n.cancelled = q.cancelled
            /\ n.registered = FALSE /\ n.outcome = q.outcome
        BY <2>1, <3>1, Zenon DEF RecvrRec
      <4> HIDE DEF n
      <4> QED BY <2>1, <3>1, <4>1, Zenon DEF RecvrOK
    <3>2. CASE mgr[r] # "close deletes"
      BY <2>1, <3>2, Zenon DEF RecvrOK
    <3> QED BY <3>1, <3>2, Zenon
  <2> HIDE DEF n
  <2>5. "free" \in MgrStates
    BY Zenon DEF MgrStates
  <2> QED BY <2>1, <2>2, <2>3, <2>4, <2>5, <1>RecvrKept, Zenon
<1> SUFFICES ASSUME Inv, [Next]_vars
             PROVE  Inv'
  BY Zenon
<1>1. ASSUME NEW s \in Senders, Send(s) \/ StartClose(s) \/ SenderStep(s) PROVE Inv'
  BY <1>1, <1>SendKept, <1>StartCloseKept, <1>SendBatchKept, <1>CloseFlushKept, <1>CloseStatusKept,
     <1>CloseDrainKept, Zenon DEF SenderStep
<1>2. ASSUME NEW s \in Senders, NEW r \in Receivers,
             AddRow(s, r) \/ SendFullBatch(s, r) \/ ChannelStep(s, r) \/ CallThrows(s, r)
      PROVE  Inv'
  BY <1>2, <1>AddRowKept, <1>SendFullBatchKept, <1>TransmitDataKept, <1>CallReturnsKept, <1>RetryKept,
     <1>CallThrowsKept, Zenon DEF ChannelStep
<1>3. ASSUME NEW h \in handlers, HandlerStep(h) \/ AddSpurious(h) PROVE Inv'
  BY <1>3, <1>FindKept, <1>AddBatchKept, <1>DecrementKept, <1>SpuriousKept, Zenon DEF HandlerStep
<1>4. ASSUME NEW r \in Receivers,
             RecvrStep(r) \/ CancelStep(r) \/ GetSpurious(r) \/ ReachedLimit(r) \/ Cancel(r)
      PROVE  Inv'
  BY <1>4, <1>GetBatchKept, <1>ThreadMovesKept, <1>CancelKept, <1>CancelWakesKept, <1>CancelDeletesKept
    , Zenon DEF RecvrStep, CancelStep
<1>5. CASE UNCHANGED vars
  BY <1>5, Zenon DEF vars, Inv, TypeInv
<1> QED BY <1>1, <1>2, <1>3, <1>4, <1>5, Zenon DEF Next

-------------------------------------------------------------------------------
(* No wakeup is lost *)

Waiting(hs, r) == \E h \in hs : h.r = r /\ h.pc = "wait"

Awake(hs, r) == \E h \in hs : h.r = r /\ h.pc = "woken"

WokenOK(hs, r, q, m) ==
    /\ Waiting(hs, r) => IF q.cancelled THEN m \in {"cancel wakes", "close wakes"}
                         ELSE q.queue # <<>> \/ Awake(hs, r)
    /\ q.pc = "wait" => /\ q.queue = <<>> /\ q.remaining > 0
                        /\ q.cancelled => m \in {"cancel wakes", "close wakes"}

AllWoken == \A r \in Receivers : WokenOK(handlers, r, recvr[r], mgr[r])

\* Init, and every step, keeps WaitersWoken.
LEMMA NextWoken ==
    Inv /\ WaitersWoken /\ [Next]_vars =>
        WaitersWoken'
\* WaitersWoken says WokenOK of every receiver.
<1>WokenDef. WaitersWoken <=> AllWoken
  <2>1. ASSUME NEW r \in Receivers
        PROVE  SendersWoken(r) /\ ReceiverWoken(r) <=> WokenOK(handlers, r, recvr[r], mgr[r])
    <3>1. Waiters(handlers, r) # {} <=> Waiting(handlers, r)
      BY Zenon DEF Waiters, Waiting
    <3>2. ReceiverWoken(r) <=>
            (recvr[r].pc = "wait" => /\ recvr[r].queue = <<>> /\ recvr[r].remaining > 0
                                     /\ recvr[r].cancelled => mgr[r] \in {"cancel wakes", "close wakes"})
      BY Zenon DEF ReceiverWoken, WakesPending
    <3>3. SendersWoken(r) <=>
            (Waiting(handlers, r) =>
               IF recvr[r].cancelled THEN mgr[r] \in {"cancel wakes", "close wakes"}
               ELSE recvr[r].queue # <<>> \/ Awake(handlers, r))
      BY <3>1, Zenon DEF SendersWoken, WakesPending, Awake
    <3> QED BY <3>2, <3>3, Zenon DEF WokenOK
  <2> QED BY <2>1, Zenon DEF WaitersWoken, AllWoken
\* A receiver that stays as it was, while nobody begins to wait for it and those who
\* were woken remain so.
<1>WokenSame.
  ASSUME NEW hs, NEW r, NEW q, NEW m, WokenOK(hs, r, q, m), NEW hs2,
         Waiting(hs2, r) => Waiting(hs, r), Awake(hs, r) => Awake(hs2, r)
  PROVE  WokenOK(hs2, r, q, m)
  BY <1>WokenSame, Zenon DEF WokenOK
\* A handler of another receiver is replaced.
<1>WokenElsewhere.
  ASSUME NEW hs, NEW hs2, NEW r, \A h \in hs : h.r = r => h \in hs2,
         \A h \in hs2 : h.r = r => h \in hs
  PROVE  (Waiting(hs2, r) => Waiting(hs, r)) /\ (Awake(hs, r) => Awake(hs2, r))
  BY <1>WokenElsewhere, Zenon DEF Waiting, Awake
\* A step of the sending side neither waits nor wakes.
<1>WokenSending.
  ASSUME WaitersWoken, UNCHANGED <<recvr, mgr>>,
         \A r \in Receivers : /\ Waiting(handlers', r) => Waiting(handlers, r)
                              /\ Awake(handlers, r) => Awake(handlers', r)
  PROVE  WaitersWoken'
  <2> USE <1>WokenSending
  <2>1. AllWoken
    BY <1>WokenDef, Zenon
  <2>2. AllWoken'
    BY <2>1, <1>WokenSame, Zenon DEF AllWoken
  <2> QED BY <2>2, <1>WokenDef, PTL
\* A call begins, or ends, at a handler that does not wait.
<1>WokenCalls.
  ASSUME NEW hs, NEW hs2, NEW h, h.pc \notin {"wait", "woken"}, NEW r,
         hs2 = hs \cup {h} \/ hs2 = hs \ {h} \/ hs2 = hs
  PROVE  (Waiting(hs2, r) => Waiting(hs, r)) /\ (Awake(hs, r) => Awake(hs2, r))
  BY <1>WokenCalls, Zenon DEF Waiting, Awake
\* Only the control block of r changes, with what waits for it.
<1>WokenReceiving.
  ASSUME Inv, WaitersWoken, NEW r \in Receivers, NEW q, NEW m,
         recvr' = [recvr EXCEPT ![r] = q], mgr' = [mgr EXCEPT ![r] = m],
         \A i \in Receivers \ {r} : /\ Waiting(handlers', i) => Waiting(handlers, i)
                                    /\ Awake(handlers, i) => Awake(handlers', i),
         WokenOK(handlers', r, q, m)
  PROVE  WaitersWoken'
  <2> USE <1>WokenReceiving
  <2>1. ASSUME NEW i \in Receivers PROVE WokenOK(handlers', i, recvr'[i], mgr'[i])
    <3>1. recvr \in [Receivers -> RecvrRec] /\ mgr \in [Receivers -> MgrStates]
      BY Zenon DEF Inv, TypeInv, MgrStates
    <3>2. CASE i = r
      BY <3>1, <3>2, Zenon
    <3>3. CASE i # r
      <4>1. recvr'[i] = recvr[i] /\ mgr'[i] = mgr[i]
        BY <3>1, <3>3, Zenon
      <4> QED BY <3>3, <4>1, <1>WokenDef, <1>WokenSame, Zenon DEF AllWoken
    <3> QED BY <3>2, <3>3, Zenon
  <2>2. AllWoken'
    BY <2>1, Zenon DEF AllWoken
  <2> QED BY <2>2, <1>WokenDef, PTL
\* The steps of a sender wake nobody and put nobody to sleep.
<1>SendingWoken.
  ASSUME Inv, WaitersWoken, NEW s \in Senders, NEW r \in Receivers,
         \/ Send(s) \/ StartClose(s) \/ SendBatch(s) \/ CloseFlush(s) \/ CloseDrain(s)
         \/ AddRow(s, r) \/ SendFullBatch(s, r)
  PROVE  WaitersWoken'
  <2> USE <1>SendingWoken
  <2>1. UNCHANGED <<handlers, recvr, mgr>>
    BY Zenon DEF Send, StartClose, SendBatch, CloseFlush, CloseDrain, AddRow, SendFullBatch, Unused
  <2> QED BY <2>1, <1>WokenSending, Zenon
\* The same for calls that begin and return ...
<1>CallingWoken.
  ASSUME Inv, WaitersWoken, NEW s \in Senders, NEW r \in Receivers,
         CloseStatus(s) \/ TransmitData(s, r) \/ Retry(s, r) \/ CallReturns(s, r)
  PROVE  WaitersWoken'
  <2> USE <1>CallingWoken
  <2>1. UNCHANGED <<recvr, mgr>>
    BY Zenon DEF CloseStatus, TransmitData, Retry, CallReturns
  <2>2. \A i, kind, rows, n : Call(s, i, kind, rows, n).pc = "find"
    BY Zenon DEF Call
  <2>3. \E h : /\ h.pc \notin {"wait", "woken"}
               /\ handlers' = handlers \cup {h} \/ handlers' = handlers \ {h} \/ handlers' = handlers
    <3>1. ASSUME NEW i, NEW kind, NEW rows, NEW n,
                 handlers' = handlers \cup {Call(s, i, kind, rows, n)} \/ UNCHANGED handlers
          PROVE  <2>3
      BY <2>2, <3>1, Zenon
    <3>2. CASE CloseStatus(s)
      <4>1. handlers' = handlers \cup {Call(s, sender[s].chan, "eos", <<>>, 1)} \/ UNCHANGED handlers
        BY <3>2, Zenon DEF CloseStatus
      <4> QED BY <3>1, <4>1, Zenon
    <3>3. CASE TransmitData(s, r)
      <4>1. handlers' = handlers \cup {Call(s, r, "data", Contents(s, channel[s][r]), 1)} \/ UNCHANGED handlers
        BY <3>3, Zenon DEF TransmitData
      <4> QED BY <3>1, <4>1, Zenon
    <3>4. CASE Retry(s, r)
      <4>1. handlers' = handlers \cup {Call(s, r, channel[s][r].kind, channel[s][r].rows, 2)} \/ UNCHANGED handlers
        BY <3>4, Zenon DEF Retry
      <4> QED BY <3>1, <4>1, Zenon
    <3>5. CASE CallReturns(s, r)
      BY <3>5, Zenon DEF CallReturns
    <3> QED BY <3>2, <3>3, <3>4, <3>5, Zenon
  <2> QED BY <2>1, <2>3, <1>WokenCalls, <1>WokenSending, Zenon
\* ... and for one that fails: a handler that waits goes on waiting without its caller.
<1>ThrowsWoken.
  ASSUME Inv, WaitersWoken, NEW s \in Senders, NEW r \in Receivers, CallThrows(s, r)
  PROVE  WaitersWoken'
  <2> USE <1>ThrowsWoken
  <2>1. PICK h \in handlers : Lost(h)
    BY Zenon DEF CallThrows, ServedBy
  <2>2. h \in HandlerRec
    BY Zenon DEF Inv, TypeInv
  <2>3. UNCHANGED <<recvr, mgr>>
    BY Zenon DEF CallThrows
  <2>4. ASSUME NEW i \in Receivers
        PROVE  /\ Waiting(handlers', i) => Waiting(handlers, i)
               /\ Awake(handlers, i) => Awake(handlers', i)
    <3>1. CASE h.pc = "find" /\ handlers' = handlers \ {h}
      BY <3>1, <1>WokenCalls, Zenon
    <3>2. CASE h.pc = "done" /\ handlers' = handlers \ {h}
      BY <3>2, <1>WokenCalls, Zenon
    <3>3. CASE handlers' = (handlers \ {h}) \cup {[h EXCEPT !.orphan = TRUE]}
      <4>1. [h EXCEPT !.orphan = TRUE].pc = h.pc /\ [h EXCEPT !.orphan = TRUE].r = h.r
        BY <2>2, Zenon DEF HandlerRec
      <4> QED BY <3>3, <4>1, Zenon DEF Waiting, Awake
    <3> QED BY <2>1, <3>1, <3>2, <3>3, Zenon DEF Lost
  <2> QED BY <2>3, <2>4, <1>WokenSending, Zenon
\* A handler goes on.
<1>MovedWoken.
  ASSUME NEW hs \in SUBSET HandlerRec, NEW h \in HandlerRec, NEW pc, pc \notin {"wait", "woken"}, NEW r
  PROVE  /\ Waiting(Moved(hs, h, pc), r) => Waiting(hs, r)
         /\ h.r # r \/ h.pc # "woken" => (Awake(hs, r) => Awake(Moved(hs, h, pc), r))
  <2> USE <1>MovedWoken
  <2>1. [h EXCEPT !.pc = pc, !.timer = FALSE].pc = pc
    BY Zenon DEF HandlerRec
  <2>2. Moved(hs, h, pc) \subseteq (hs \ {h}) \cup {[h EXCEPT !.pc = pc, !.timer = FALSE]}
    BY Zenon DEF Moved
  <2>3. hs \ {h} \subseteq Moved(hs, h, pc)
    BY Zenon DEF Moved
  <2> QED BY <2>1, <2>2, <2>3, Zenon DEF Waiting, Awake
\* A handler that looks up its control block keeps AllWoken.
<1>FindWoken.
  ASSUME Inv, WaitersWoken, NEW h \in handlers, FindControlBlock(h)
  PROVE  WaitersWoken'
  <2> USE <1>FindWoken
  <2>1. h \in HandlerRec /\ handlers \in SUBSET HandlerRec
    BY Zenon DEF Inv, TypeInv
  <2>2. PICK pc \in {"done", "dec", "add"} : handlers' = Moved(handlers, h, pc)
    BY Zenon DEF FindControlBlock
  <2>3. pc \notin {"wait", "woken"}
    BY Zenon
  <2>4. UNCHANGED <<recvr, mgr>> /\ h.pc # "woken"
    BY Zenon DEF FindControlBlock
  <2> QED BY <2>1, <2>2, <2>3, <2>4, <1>MovedWoken, <1>WokenSending, Zenon
\* So does one that wakes by itself.
<1>SpuriousWoken.
  ASSUME Inv, WaitersWoken, NEW h \in handlers, AddSpurious(h)
  PROVE  WaitersWoken'
  <2> USE <1>SpuriousWoken
  <2>1. h \in HandlerRec
    BY Zenon DEF Inv, TypeInv
  <2>2. [h EXCEPT !.pc = "woken"].pc = "woken" /\ [h EXCEPT !.pc = "woken"].r = h.r
    BY <2>1, Zenon DEF HandlerRec
  <2>3. ASSUME NEW i \in Receivers
        PROVE  /\ Waiting(handlers', i) => Waiting(handlers, i)
               /\ Awake(handlers, i) => Awake(handlers', i)
    BY <2>2, Zenon DEF AddSpurious, Waiting, Awake
  <2> QED BY <2>3, <1>WokenSending, Zenon DEF AddSpurious
\* One of those that wait for r is woken.
<1>WokenOne.
  ASSUME NEW hs \in SUBSET HandlerRec, NEW r, NEW hs2 \in Woken(hs, r)
  PROVE  /\ \A i : /\ Waiting(hs2, i) => Waiting(hs, i)
                   /\ Awake(hs, i) => Awake(hs2, i)
         /\ Waiting(hs, r) => Awake(hs2, r)
  <2> USE <1>WokenOne
  <2>1. CASE Waiters(hs, r) = {}
    <3>1. ~ Waiting(hs, r) /\ hs2 = hs
      BY <2>1, Zenon DEF Waiting, Woken, Waiters
    <3> QED BY <3>1, Zenon
  <2>2. CASE Waiters(hs, r) # {}
    <3>1. PICK g \in Waiters(hs, r) : hs2 = (hs \ {g}) \cup {[g EXCEPT !.pc = "woken"]}
      BY <2>2, Zenon DEF Woken
    <3>2. g \in hs /\ g.r = r /\ g.pc = "wait"
      BY Zenon DEF Waiters
    <3>3. [g EXCEPT !.pc = "woken"].pc = "woken" /\ [g EXCEPT !.pc = "woken"].r = r
      BY <3>2, Zenon DEF HandlerRec
    <3> QED BY <3>1, <3>2, <3>3, Zenon DEF Waiting, Awake
  <2> QED BY <2>1, <2>2, Zenon
\* AddBatch keeps AllWoken: a handler waits only while the queue is not empty, and one
\* that goes on has woken another or left a batch.
<1>AddWoken.
  ASSUME Inv, WaitersWoken, NEW h \in handlers, AddBatch(h)
  PROVE  WaitersWoken'
  <2> USE <1>AddWoken
  <2> DEFINE q == recvr[h.r]
             freed == [q EXCEPT !.timer = q.timer /\ ~ h.timer]
             m == mgr[h.r]
  <2>1. h \in HandlerRec /\ handlers \in SUBSET HandlerRec
    BY Zenon DEF Inv, TypeInv
  <2>2. h.r \in Receivers
    BY <2>1, Zenon DEF HandlerRec
  <2>3. q \in RecvrRec /\ mgr = [mgr EXCEPT ![h.r] = m]
    BY <2>2, RecvrOf, Zenon
  <2>4. WokenOK(handlers, h.r, q, m)
    BY <2>2, <1>WokenDef, Zenon DEF AllWoken
  <2>5. freed.cancelled = q.cancelled /\ freed.queue = q.queue /\ freed.pc = q.pc /\ freed.remaining = q.remaining
    BY <2>3, Zenon DEF RecvrRec
  <2>6. PICK hs \in (IF h.timer THEN Woken(handlers, h.r) ELSE {handlers}) :
             \/ /\ q.cancelled
                /\ recvr' = [recvr EXCEPT ![h.r] = freed]
                /\ handlers' = Moved(hs, h, "done")
             \/ /\ ~ q.cancelled
                /\ BufferFull(q, h.rows)
                /\ recvr' = [recvr EXCEPT ![h.r].timer = TRUE]
                /\ handlers' = (hs \ {h}) \cup
                               {[h EXCEPT !.pc = "wait", !.timer = ~ freed.timer]}
             \/ /\ ~ q.cancelled
                /\ recvr' = [recvr EXCEPT ![h.r] =
                               Arrival([freed EXCEPT
                                   !.queue = Append(freed.queue, [s |-> h.s, rows |-> h.rows]),
                                   !.buffered = freed.buffered + Size(h.rows)])]
                /\ handlers' = Moved(hs, h, "done")
    BY Zenon DEF AddBatch
  <2>7. mgr' = mgr
    BY Zenon DEF AddBatch
  <2>8. hs \in SUBSET HandlerRec
    BY <2>1, <2>6, WokenTyped, Zenon
  <2>9. \A i : (Waiting(hs, i) => Waiting(handlers, i)) /\ (Awake(handlers, i) => Awake(hs, i))
    BY <2>1, <2>6, <1>WokenOne, Zenon
  <2>10. ASSUME NEW i \in Receivers \ {h.r}, handlers' = Moved(hs, h, "done")
         PROVE  /\ Waiting(handlers', i) => Waiting(handlers, i)
                /\ Awake(handlers, i) => Awake(handlers', i)
    BY <2>1, <2>8, <2>9, <2>10, <1>MovedWoken, Zenon
  <2>11. CASE /\ q.cancelled
              /\ recvr' = [recvr EXCEPT ![h.r] = freed]
              /\ handlers' = Moved(hs, h, "done")
    <3>1. Waiting(handlers', h.r) => Waiting(handlers, h.r)
      BY <2>1, <2>8, <2>9, <2>11, <1>MovedWoken, Zenon
    <3>2. WokenOK(handlers', h.r, freed, m)
      BY <2>4, <2>5, <2>11, <3>1, Zenon DEF WokenOK
    <3> QED BY <2>2, <2>3, <2>7, <2>10, <2>11, <3>2, <1>WokenReceiving, Zenon
  <2>12. CASE /\ ~ q.cancelled
              /\ BufferFull(q, h.rows)
              /\ recvr' = [recvr EXCEPT ![h.r].timer = TRUE]
              /\ handlers' = (hs \ {h}) \cup
                             {[h EXCEPT !.pc = "wait", !.timer = ~ freed.timer]}
    <3>1. [h EXCEPT !.pc = "wait", !.timer = ~ freed.timer].r = h.r
      BY <2>1, Zenon DEF HandlerRec
    <3>2. ASSUME NEW i \in Receivers \ {h.r}
          PROVE  /\ Waiting(handlers', i) => Waiting(handlers, i)
                 /\ Awake(handlers, i) => Awake(handlers', i)
      <4>1. /\ \A g \in hs : g.r = i => g \in handlers'
            /\ \A g \in handlers' : g.r = i => g \in hs
        BY <2>12, <3>1, Zenon
      <4> QED BY <2>9, <4>1, <1>WokenElsewhere, Zenon
    <3> DEFINE n == [q EXCEPT !.timer = TRUE]
    <3>3. n.cancelled = q.cancelled /\ n.queue = q.queue /\ n.pc = q.pc /\ n.remaining = q.remaining
      BY <2>3, Zenon DEF RecvrRec
    <3>4. recvr' = [recvr EXCEPT ![h.r] = n] /\ q.queue # <<>>
      BY <2>12, Zenon DEF BufferFull
    <3> HIDE DEF n
    <3>5. WokenOK(handlers', h.r, n, m)
      BY <2>4, <2>12, <3>3, <3>4, Zenon DEF WokenOK
    <3> QED BY <2>2, <2>3, <2>7, <3>2, <3>4, <3>5, <1>WokenReceiving, Zenon
  <2>13. CASE /\ ~ q.cancelled
              /\ recvr' = [recvr EXCEPT ![h.r] =
                             Arrival([freed EXCEPT
                                 !.queue = Append(freed.queue, [s |-> h.s, rows |-> h.rows]),
                                 !.buffered = freed.buffered + Size(h.rows)])]
              /\ handlers' = Moved(hs, h, "done")
    <3> DEFINE e == [s |-> h.s, rows |-> h.rows]
               n == Arrival([freed EXCEPT !.queue = Append(freed.queue, e),
                                          !.buffered = freed.buffered + Size(h.rows)])
    <3>1. q.queue \in Seq(Entry) /\ e \in Entry
      BY <2>1, <2>3, Zenon DEF RecvrRec, HandlerRec, Entry
    <3>2. Append(q.queue, e) # <<>>
      <4> HIDE DEF e
      <4> QED BY <3>1
    <3>3. n.cancelled = q.cancelled /\ n.queue = Append(q.queue, e) /\ n.pc # "wait"
      BY <2>3, <2>5, Zenon DEF RecvrRec, Arrival
    <3> HIDE DEF n
    <3>4. WokenOK(handlers', h.r, n, m)
      BY <2>13, <3>2, <3>3, Zenon DEF WokenOK
    <3>5. recvr' = [recvr EXCEPT ![h.r] = n]
      BY <2>13, Zenon DEF n
    <3> QED BY <2>2, <2>3, <2>7, <2>10, <2>13, <3>4, <3>5, <1>WokenReceiving, Zenon
  <2> QED BY <2>6, <2>11, <2>12, <2>13, Zenon
\* The last CloseSender wakes the receiver.
<1>DecrementWoken.
  ASSUME Inv, WaitersWoken, NEW h \in handlers, DecrementSenders(h)
  PROVE  WaitersWoken'
  <2> USE <1>DecrementWoken
  <2> DEFINE q == recvr[h.r]
             left == IF q.remaining > 0 THEN q.remaining - 1 ELSE 0
             after == [q EXCEPT !.remaining = left]
             n == IF left = 0 THEN Arrival(after) ELSE after
             m == mgr[h.r]
  <2>1. h \in HandlerRec /\ handlers \in SUBSET HandlerRec
    BY Zenon DEF Inv, TypeInv
  <2>2. h.r \in Receivers
    BY <2>1 DEF HandlerRec
  <2>3. q \in RecvrRec /\ mgr = [mgr EXCEPT ![h.r] = m]
    BY <2>2, RecvrOf
  <2>4. WokenOK(handlers, h.r, q, m)
    BY <2>2, <1>WokenDef, Zenon DEF AllWoken
  <2>5. /\ mgr' = mgr /\ h.pc = "dec" /\ handlers' = Moved(handlers, h, "done")
        /\ recvr' = [recvr EXCEPT ![h.r] = n]
    BY Zenon DEF DecrementSenders
  <2>6. \A i : (Waiting(handlers', i) => Waiting(handlers, i)) /\ (Awake(handlers, i) => Awake(handlers', i))
    BY <2>1, <2>5, <1>MovedWoken, Zenon
  <2>7. left \in Nat
    BY <2>3 DEF RecvrRec
  <2> HIDE DEF left
  <2>8. /\ n.cancelled = q.cancelled /\ n.queue = q.queue
        /\ n.pc = "wait" => q.pc = "wait" /\ n.remaining > 0
    <3>1. /\ after.cancelled = q.cancelled /\ after.queue = q.queue /\ after.pc = q.pc
          /\ after.remaining = left /\ after \in RecvrRec
      BY <2>3, <2>7, Zenon DEF RecvrRec
    <3> HIDE DEF after
    <3>2. /\ Arrival(after).cancelled = after.cancelled /\ Arrival(after).queue = after.queue
          /\ Arrival(after).pc # "wait"
      BY <3>1, Zenon DEF Arrival, RecvrRec
    <3>3. CASE left = 0
      BY <3>1, <3>2, <3>3, Zenon
    <3>4. CASE left # 0
      BY <2>7, <3>1, <3>4
    <3> QED BY <3>3, <3>4, Zenon
  <2> HIDE DEF n
  <2>9. WokenOK(handlers', h.r, n, m)
    BY <2>4, <2>6, <2>8, Zenon DEF WokenOK
  <2> QED BY <2>2, <2>3, <2>5, <2>6, <2>9, <1>WokenReceiving, Zenon
\* GetBatch keeps AllWoken: it waits only for what is still to come.
<1>GetWoken.
  ASSUME Inv, WaitersWoken, NEW r \in Receivers, GetBatch(r)
  PROVE  WaitersWoken'
  <2> USE <1>GetWoken
  <2> DEFINE q == recvr[r]
             m == mgr[r]
  <2>1. q \in RecvrRec /\ mgr = [mgr EXCEPT ![r] = m] /\ handlers \in SUBSET HandlerRec
    BY RecvrOf, Zenon
  <2>2. WokenOK(handlers, r, q, m) /\ q.pc = "get" /\ mgr' = mgr
    BY <1>WokenDef, Zenon DEF AllWoken, GetBatch
  <2>3. ASSUME NEW outcome, recvr' = [recvr EXCEPT ![r] = [q EXCEPT !.pc = "close", !.outcome = outcome]],
               handlers' = handlers
        PROVE  WaitersWoken'
    <3> DEFINE n == [q EXCEPT !.pc = "close", !.outcome = outcome]
    <3>1. n.cancelled = q.cancelled /\ n.queue = q.queue /\ n.pc = "close"
      BY <2>1, Zenon DEF RecvrRec
    <3> HIDE DEF n
    <3>2. WokenOK(handlers', r, n, m)
      BY <2>2, <2>3, <3>1, Zenon DEF WokenOK
    <3> QED BY <2>1, <2>2, <2>3, <3>2, <1>WokenReceiving, Zenon DEF n
  <2>4. CASE /\ ~ q.cancelled /\ q.queue = <<>> /\ q.remaining > 0
             /\ recvr' = [recvr EXCEPT ![r].pc = "wait"] /\ handlers' = handlers
    <3> DEFINE n == [q EXCEPT !.pc = "wait"]
    <3>1. n.cancelled = q.cancelled /\ n.queue = q.queue /\ n.remaining = q.remaining
      BY <2>1, Zenon DEF RecvrRec
    <3>2. recvr' = [recvr EXCEPT ![r] = n]
      BY <2>4, Zenon
    <3> HIDE DEF n
    <3>3. WokenOK(handlers', r, n, m)
      BY <2>2, <2>4, <3>1, Zenon DEF WokenOK
    <3> QED BY <2>1, <2>2, <2>4, <3>2, <3>3, <1>WokenReceiving, Zenon
  <2>5. CASE /\ HasBatch(q)
             /\ recvr' = [recvr EXCEPT ![r].queue = Tail(@),
                                       ![r].buffered = @ - Size(Head(q.queue).rows)]
             /\ handlers' \in Woken(handlers, r)
    <3> DEFINE n == [q EXCEPT !.queue = Tail(q.queue), !.buffered = q.buffered - Size(Head(q.queue).rows)]
    <3>1. ~ n.cancelled /\ n.pc = "get"
      BY <2>1, <2>2, <2>5, Zenon DEF RecvrRec, HasBatch
    <3>2. recvr' = [recvr EXCEPT ![r] = n]
      BY <2>5, Zenon
    <3> HIDE DEF n
    <3>3. /\ \A i : /\ Waiting(handlers', i) => Waiting(handlers, i)
                    /\ Awake(handlers, i) => Awake(handlers', i)
          /\ Waiting(handlers, r) => Awake(handlers', r)
      BY <2>1, <2>5, <1>WokenOne, Zenon
    <3>4. WokenOK(handlers', r, n, m)
      BY <3>1, <3>3, Zenon DEF WokenOK
    <3> QED BY <2>1, <2>2, <3>2, <3>3, <3>4, <1>WokenReceiving, Zenon
  <2> QED BY <2>3, <2>4, <2>5, Zenon DEF GetBatch
\* The other steps of the receiver's thread keep AllWoken.
<1>MovesWoken.
  ASSUME Inv, WaitersWoken, NEW r \in Receivers,
         GetSpurious(r) \/ ReachedLimit(r) \/ Cancel(r) \/ DeregisterRecvr(r)
  PROVE  WaitersWoken'
  <2> USE <1>MovesWoken
  <2> DEFINE q == recvr[r]
             m == mgr[r]
  <2>1. /\ q \in RecvrRec /\ mgr = [mgr EXCEPT ![r] = m] /\ handlers \in SUBSET HandlerRec
        /\ RecvrOK(q, m)
    BY RecvrOf, Zenon
  <2>2. WokenOK(handlers, r, q, m) /\ handlers' = handlers
    BY <1>WokenDef, Zenon DEF AllWoken, GetSpurious, ReachedLimit, Cancel, DeregisterRecvr
  <2>3. ASSUME NEW n, NEW k, recvr' = [recvr EXCEPT ![r] = n], mgr' = [mgr EXCEPT ![r] = k],
               n.queue = q.queue, n.remaining = q.remaining,
               \/ n.pc # "wait" /\ n.cancelled = q.cancelled /\ k = m
               \/ n.cancelled /\ k \in {"cancel wakes", "close wakes"} /\ n.pc = q.pc
        PROVE  WaitersWoken'
    <3>1. WokenOK(handlers', r, n, k)
      BY <2>2, <2>3, Zenon DEF WokenOK
    <3> QED BY <2>2, <2>3, <3>1, <1>WokenReceiving, Zenon
  <2>4. CASE GetSpurious(r)
    <3> DEFINE n == [q EXCEPT !.pc = "get"]
    <3>1. n.queue = q.queue /\ n.remaining = q.remaining /\ n.pc = "get" /\ n.cancelled = q.cancelled
      BY <2>1, Zenon DEF RecvrRec
    <3>2. recvr' = [recvr EXCEPT ![r] = n] /\ mgr' = [mgr EXCEPT ![r] = m]
      BY <2>1, <2>4, Zenon DEF GetSpurious
    <3> HIDE DEF n
    <3> QED BY <2>3, <3>1, <3>2, Zenon
  <2>5. CASE ReachedLimit(r)
    <3> DEFINE n == [q EXCEPT !.pc = "close", !.outcome = "limit"]
    <3>1. n.queue = q.queue /\ n.remaining = q.remaining /\ n.pc = "close" /\ n.cancelled = q.cancelled
      BY <2>1, Zenon DEF RecvrRec
    <3>2. recvr' = [recvr EXCEPT ![r] = n] /\ mgr' = [mgr EXCEPT ![r] = m]
      BY <2>1, <2>5, Zenon DEF ReachedLimit
    <3> HIDE DEF n
    <3> QED BY <2>3, <3>1, <3>2, Zenon
  <2>6. CASE Cancel(r)
    <3> DEFINE n == [q EXCEPT !.cancelled = TRUE]
    <3>1. n.queue = q.queue /\ n.remaining = q.remaining /\ n.pc = q.pc /\ n.cancelled
      BY <2>1, Zenon DEF RecvrRec
    <3>2. recvr' = [recvr EXCEPT ![r] = n] /\ mgr' = [mgr EXCEPT ![r] = "cancel wakes"]
      BY <2>1, <2>6, Zenon DEF Cancel
    <3> HIDE DEF n
    <3> QED BY <2>3, <3>1, <3>2, Zenon
  <2>7. CASE DeregisterRecvr(r) /\ q.cancelled
    <3> DEFINE n == [q EXCEPT !.pc = "closed", !.registered = FALSE]
    <3>1. n.queue = q.queue /\ n.remaining = q.remaining /\ n.pc = "closed" /\ n.cancelled = q.cancelled
      BY <2>1, Zenon DEF RecvrRec
    <3>2. recvr' = [recvr EXCEPT ![r] = n] /\ mgr' = [mgr EXCEPT ![r] = m]
      BY <2>1, <2>7, Zenon DEF DeregisterRecvr
    <3> HIDE DEF n
    <3> QED BY <2>3, <3>1, <3>2, Zenon
  <2>8. CASE DeregisterRecvr(r) /\ ~ q.cancelled
    <3> DEFINE n == [q EXCEPT !.cancelled = TRUE]
    <3>1. n.queue = q.queue /\ n.remaining = q.remaining /\ n.pc = q.pc /\ n.cancelled
      BY <2>1, Zenon DEF RecvrRec
    <3>2. recvr' = [recvr EXCEPT ![r] = n] /\ mgr' = [mgr EXCEPT ![r] = "close wakes"]
      BY <2>1, <2>8, Zenon DEF DeregisterRecvr
    <3> HIDE DEF n
    <3> QED BY <2>3, <3>1, <3>2, Zenon
  <2> QED BY <2>4, <2>5, <2>6, <2>7, <2>8, Zenon
\* CancelStream wakes everybody.
<1>CancelWoken.
  ASSUME Inv, WaitersWoken, NEW r \in Receivers, CancelWakes(r)
  PROVE  WaitersWoken'
  <2> USE <1>CancelWoken
  <2> DEFINE q == recvr[r]
             n == Arrival(q)
             k == IF mgr[r] = "cancel wakes" THEN "cancel deletes" ELSE "close deletes"
  <2>1. q \in RecvrRec /\ handlers \in SUBSET HandlerRec
    BY RecvrOf, Zenon
  <2>2. /\ recvr' = [recvr EXCEPT ![r] = n] /\ mgr' = [mgr EXCEPT ![r] = k]
        /\ handlers' = {IF h \in Waiters(handlers, r) THEN [h EXCEPT !.pc = "woken"] ELSE h
                          : h \in handlers}
    BY Zenon DEF CancelWakes
  <2>3. n.pc # "wait"
    BY <2>1, Zenon DEF Arrival, RecvrRec
  <2>4. ASSUME NEW h \in handlers
        PROVE  [h EXCEPT !.pc = "woken"].r = h.r /\ [h EXCEPT !.pc = "woken"].pc = "woken"
    BY <2>1, Zenon DEF HandlerRec
  <2>5. ~ Waiting(handlers', r)
    BY <2>2, <2>4, Zenon DEF Waiting, Waiters
  <2>6. ASSUME NEW i \in Receivers \ {r}
        PROVE  /\ Waiting(handlers', i) => Waiting(handlers, i)
               /\ Awake(handlers, i) => Awake(handlers', i)
    <3>1. /\ \A g \in handlers : g.r = i => g \in handlers'
          /\ \A g \in handlers' : g.r = i => g \in handlers
      BY <2>2, <2>4, Zenon DEF Waiters
    <3> QED BY <3>1, <1>WokenElsewhere, Zenon
  <2>7. WokenOK(handlers', r, n, k)
    BY <2>3, <2>5, Zenon DEF WokenOK
  <2> QED BY <2>2, <2>6, <2>7, <1>WokenReceiving, Zenon
\* The end of CancelStream finds nobody waiting.
<1>DeletesWoken.
  ASSUME Inv, WaitersWoken, NEW r \in Receivers, CancelDeletes(r)
  PROVE  WaitersWoken'
  <2> USE <1>DeletesWoken
  <2> DEFINE q == recvr[r]
  <2>1. q \in RecvrRec /\ RecvrOK(q, mgr[r]) /\ recvr \in [Receivers -> RecvrRec]
    BY RecvrOf, Zenon DEF Inv, TypeInv
  <2>2. WokenOK(handlers, r, q, mgr[r]) /\ handlers' = handlers /\ mgr[r] \in {"cancel deletes", "close deletes"}
    BY <1>WokenDef, Zenon DEF AllWoken, CancelDeletes
  <2>3. q.cancelled
    BY <2>1, <2>2, Zenon DEF RecvrOK
  <2>4. ~ Waiting(handlers, r) /\ q.pc # "wait"
    BY <2>2, <2>3, Zenon DEF WokenOK
  <2>5. PICK n : recvr' = [recvr EXCEPT ![r] = n] /\ n.pc # "wait"
    <3>1. CASE mgr[r] = "close deletes"
      <4>1. recvr' = [recvr EXCEPT ![r] = [q EXCEPT !.pc = "closed", !.registered = FALSE]]
        BY <3>1, Zenon DEF CancelDeletes
      <4>2. [q EXCEPT !.pc = "closed", !.registered = FALSE].pc = "closed"
        BY <2>1, Zenon DEF RecvrRec
      <4> QED BY <4>1, <4>2, Zenon
    <3>2. CASE mgr[r] # "close deletes"
      <4>1. recvr' = recvr /\ recvr = [recvr EXCEPT ![r] = q]
        BY <2>1, <3>2, Zenon DEF CancelDeletes
      <4> QED BY <2>4, <4>1, Zenon
    <3> QED BY <3>1, <3>2, Zenon
  <2>6. mgr' = [mgr EXCEPT ![r] = "free"]
    BY Zenon DEF CancelDeletes
  <2>7. WokenOK(handlers', r, n, "free")
    BY <2>2, <2>4, <2>5, Zenon DEF WokenOK
  <2> QED BY <2>2, <2>5, <2>6, <2>7, <1>WokenReceiving, Zenon
<1> SUFFICES ASSUME Inv, WaitersWoken, [Next]_vars
             PROVE  WaitersWoken'
  BY Zenon
<1>0. 1 \in Receivers
  BY FirstChannel, Zenon
<1>1. ASSUME NEW s \in Senders, Send(s) \/ StartClose(s) \/ SenderStep(s) PROVE WaitersWoken'
  BY <1>0, <1>1, <1>SendingWoken, <1>CallingWoken, Zenon DEF SenderStep
<1>2. ASSUME NEW s \in Senders, NEW r \in Receivers,
             AddRow(s, r) \/ SendFullBatch(s, r) \/ ChannelStep(s, r) \/ CallThrows(s, r)
      PROVE  WaitersWoken'
  BY <1>2, <1>SendingWoken, <1>CallingWoken, <1>ThrowsWoken, Zenon DEF ChannelStep
<1>3. ASSUME NEW h \in handlers, HandlerStep(h) \/ AddSpurious(h) PROVE WaitersWoken'
  BY <1>3, <1>FindWoken, <1>AddWoken, <1>DecrementWoken, <1>SpuriousWoken, Zenon DEF HandlerStep
<1>4. ASSUME NEW r \in Receivers,
             RecvrStep(r) \/ CancelStep(r) \/ GetSpurious(r) \/ ReachedLimit(r) \/ Cancel(r)
      PROVE  WaitersWoken'
  BY <1>4, <1>GetWoken, <1>MovesWoken, <1>CancelWoken, <1>DeletesWoken, Zenon DEF RecvrStep, CancelStep
<1>5. CASE UNCHANGED vars
  BY <1>5, <1>WokenSending, Zenon DEF vars
<1> QED BY <1>1, <1>2, <1>3, <1>4, <1>5, Zenon DEF Next

-------------------------------------------------------------------------------
(* Until a call fails whose request has arrived *)

\* The types of what a pipe is made of.
LEMMA PipeTypes ==
    ASSUME Inv, NEW s \in Senders, NEW r \in Receivers
    PROVE  /\ recvr[r].queue \in Seq(Entry)
           /\ sent[s][r] \in Seq(Rows) /\ received[s][r] \in Seq(Rows)
           /\ sender[s] \in SenderRec /\ channel[s][r] \in ChannelRec
           /\ ChannelOK(sender[s], r, channel[s][r])
           /\ channel[s][r].batch \in Seq(Rows) /\ channel[s][r].thrift \in Seq(Rows)
           /\ channel[s][r].rows \in Seq(Rows) /\ channel[s][r].ok \in BOOLEAN
           /\ \A b \in Buffers : sender[s].buffers[b] \in Seq(Rows)
<1>1. recvr[r] \in RecvrRec
  BY RecvrOf, Zenon
<1>2. sent[s][r] \in Seq(Rows) /\ received[s][r] \in Seq(Rows)
  <2>1. /\ sent \in [Senders -> [Receivers -> Seq(Rows)]]
        /\ received \in [Senders -> [Receivers -> Seq(Rows)]]
    BY Zenon DEF Inv, TypeInv
  <2> QED BY <2>1, Zenon
<1>3. sender[s] \in SenderRec /\ channel[s][r] \in ChannelRec /\ ChannelOK(sender[s], r, channel[s][r])
  BY SideOf, Zenon DEF SideOK
<1>4. recvr[r].queue \in Seq(Entry)
  BY <1>1, Zenon DEF RecvrRec
<1> QED BY <1>2, <1>3, <1>4, Zenon DEF ChannelRec, SenderRec

\* Nothing is on its way while no rpc is in flight.
LEMMA NothingOut ==
    ASSUME NEW hs, NEW s, NEW r, NEW q, NEW c, ChannelOK(q, r, c), ~ c.in_flight
    PROVE  Outstanding(hs, s, r, q, c) = <<>>
BY Zenon DEF Outstanding, ChannelOK

\* A channel that is has at most one.
LEMMA OneHandler ==
    ASSUME Prompt, NEW h \in handlers
    PROVE  /\ \A g \in handlers : g.s = h.s /\ g.r = h.r => g = h
           /\ Served(handlers, h.s, h.r) <=> h.pc = "done"
           /\ Serves(h, channel[h.s][h.r])
<1>1. \A g \in handlers : g.s = h.s /\ g.r = h.r => g = h
  BY Zenon DEF Prompt, HandlerInv, HandlersOK
<1>2. Serves(h, channel[h.s][h.r])
  BY Zenon DEF Prompt, HandlerInv, HandlersOK
<1> QED BY <1>1, <1>2, Zenon DEF Served

\* A handler in AddBatch carries the rows that its channel has on their way.
LEMMA AddingData ==
    ASSUME Inv, Prompt, NEW h \in handlers, h.pc \in {"add", "woken", "wait"}
    PROVE  LET c == channel[h.s][h.r]
           IN  /\ h \in HandlerRec /\ h.s \in Senders /\ h.r \in Receivers
               /\ h.kind = "data" /\ h.rows = c.rows /\ h.rows # <<>> /\ h.rows \in Seq(Rows)
               /\ c.pc # "idle" /\ c.kind = "data" /\ c.item = NoItem /\ c.ok /\ c.ok = TRUE
               /\ ~ Served(handlers, h.s, h.r)
<1> DEFINE c == channel[h.s][h.r]
<1>1. h \in HandlerRec
  BY Zenon DEF Inv, TypeInv
<1>2. h.s \in Senders /\ h.r \in Receivers /\ h.rows \in Seq(Rows)
  BY <1>1, Zenon DEF HandlerRec
<1>3. c \in ChannelRec /\ ChannelOK(sender[h.s], h.r, c)
  BY <1>2, PipeTypes, Zenon
<1>4. Serves(h, c) /\ ~ Served(handlers, h.s, h.r)
  BY OneHandler, Zenon
<1>5. h.kind = "data" /\ c.kind = "data" /\ h.rows = c.rows /\ c.pc # "idle"
  BY <1>4, Zenon DEF Serves
<1>6. c.item = NoItem /\ c.ok /\ c.rows # <<>>
  BY <1>3, <1>5, Zenon DEF ChannelOK
<1>7. c.ok = TRUE
  BY <1>3, <1>6, Zenon DEF ChannelRec
<1> QED BY <1>1, <1>2, <1>4, <1>5, <1>6, <1>7, Zenon

\* When num_remaining_senders_ is zero every end-of-stream has been counted.
LEMMA AllCounted ==
    ASSUME SetsOfSenders, Inv, Prompt, NEW r \in Receivers, recvr[r].remaining = 0,
           NEW s \in Senders
    PROVE  Counted(handlers, s, r, channel[s][r])
<1> DEFINE U == Uncounted(handlers, channel, r)
<1>1. U \subseteq Senders
  BY Zenon DEF Uncounted
<1>2. 0 >= Cardinality(U)
  BY Zenon DEF Prompt, CountInv
<1> HIDE DEF U
<1>3. U = {}
  <2>1. Cardinality(U) \in Nat /\ (Cardinality(U) = 0 => U = {})
    BY <1>1, Zenon DEF SetsOfSenders
  <2> QED BY <1>2, <2>1
<1> QED BY <1>3, Zenon DEF U, Uncounted

\* The first entry of a queue.
LEMMA HeadOf ==
    ASSUME NEW q \in Seq(Entry), q # <<>>
    PROVE  /\ Head(q) = q[1] /\ q[1] \in Entry /\ 1 \in 1 .. Len(q)
           /\ Head(q).s \in Senders /\ Head(q).rows \in Seq(Rows)
<1>1. Head(q) = q[1] /\ q[1] \in Entry /\ 1 \in 1 .. Len(q)
  OBVIOUS
<1> QED BY <1>1, Zenon DEF Entry

\* The handlers after the notify_all of CancelStream.
AllAwake(hs, r) == {IF h \in Waiters(hs, r) THEN [h EXCEPT !.pc = "woken"] ELSE h : h \in hs}

\* Nothing was given, nothing is on its way.
LEMMA PipeEmpty ==
    ASSUME NEW s, NEW ok
    PROVE  Pipe(<<>>, s, <<>>, <<>>, ok, <<>>, <<>>)
<1> DEFINE at == [i \in 0 .. 0 |-> 0]
<1>1. at \in [0 .. Len(<<>>) -> 0 .. Len(<<>>)] /\ at[0] = 0 /\ Len(<<>>) = 0
  OBVIOUS
<1> HIDE DEF at
<1>2. Segment(<<>>, 0, <<>>, 0) /\ Segment(<<>>, 0, <<>>, Len(<<>>))
  BY DEF Segment
<1>3. Chain(<<>>, s, <<>>, <<>>, at)
  BY <1>1, <1>2 DEF Chain
<1>4. Rest(<<>>, at[Len(<<>>)], <<>>, <<>>)
  BY <1>1, <1>2 DEF Rest
<1> QED BY <1>1, <1>3, <1>4, Zenon DEF Pipe

\* Prompt holds initially ...
LEMMA InitPrompt ==
    ASSUME SetsOfSenders, Init
    PROVE  Prompt
<1>1. handlers = {} /\ \A hs, s, r : hs = {} => ~ Served(hs, s, r)
  BY Zenon DEF Init, Served
<1>2. ASSUME NEW r \in Receivers
      PROVE  /\ recvr[r].queue = <<>> /\ recvr[r].remaining = Cardinality(Senders)
             /\ recvr[r].outcome = "open"
  BY Zenon DEF Init, NewRecvr
<1>3. ASSUME NEW s \in Senders, NEW r \in Receivers
      PROVE  /\ channel[s][r].eos = "no" /\ channel[s][r].item = NoItem
             /\ channel[s][r].pc = "idle" /\ channel[s][r].batch = <<>>
             /\ sent[s][r] = <<>> /\ received[s][r] = <<>>
  BY Zenon DEF Init, NewChannel
<1>4. HandlerInv
  BY <1>1, Zenon DEF HandlerInv, HandlersOK
<1>5. CountInv
  <2> SUFFICES ASSUME NEW r \in Receivers
               PROVE  Cardinality(Senders) >= Cardinality(Uncounted(handlers, channel, r))
    BY <1>2, Zenon DEF CountInv
  <2>1. Uncounted(handlers, channel, r) \subseteq Senders
    BY Zenon DEF Uncounted
  <2>2. /\ Cardinality(Senders) \in Nat /\ Cardinality(Uncounted(handlers, channel, r)) \in Nat
        /\ Cardinality(Uncounted(handlers, channel, r)) <= Cardinality(Senders)
    BY <2>1, Zenon DEF SetsOfSenders
  <2> QED BY <2>2, Zenon
<1>6. EndInv
  BY <1>2, Zenon DEF EndInv
<1>7. QueueInv
  BY <1>2 DEF QueueInv
<1>8. ASSUME NEW s \in Senders, NEW r \in Receivers
      PROVE  Pipe(recvr[r].queue, s, sent[s][r], received[s][r], channel[s][r].ok,
                  Outstanding(handlers, s, r, sender[s], channel[s][r]), channel[s][r].batch)
  <2>1. Outstanding(handlers, s, r, sender[s], channel[s][r]) = <<>>
    BY <1>3, Zenon DEF Outstanding
  <2>2. /\ recvr[r].queue = <<>> /\ sent[s][r] = <<>> /\ received[s][r] = <<>>
        /\ channel[s][r].batch = <<>>
    BY <1>2, <1>3, Zenon
  <2>3. Pipe(<<>>, s, <<>>, <<>>, channel[s][r].ok, <<>>, <<>>)
    BY PipeEmpty, Zenon
  <2> QED BY <2>1, <2>2, <2>3, Zenon
<1>9. PipeInv
  BY <1>8, Zenon DEF PipeInv
<1> QED BY <1>4, <1>5, <1>6, <1>7, <1>9, Zenon DEF Prompt

\* A call that failed late stays one.
LEMMA LateStays ==
    ASSUME Inv, Next, faults.late
    PROVE  faults'.late
<1>1. faults \in [n : Nat, late : BOOLEAN]
  BY Zenon DEF Inv, TypeInv
<1>2. CASE UNCHANGED faults
  BY <1>2, Zenon
<1>3. CASE Fault(TRUE) \/ Fault(FALSE)
  BY <1>1, <1>3 DEF Fault
<1>4. ASSUME NEW s \in Senders, Send(s) \/ StartClose(s) \/ SenderStep(s)
      PROVE  UNCHANGED faults \/ Fault(FALSE)
  BY <1>4, Zenon DEF Send, StartClose, SenderStep, SendBatch, CloseFlush, CloseStatus, CloseDrain,
                     Unused
<1>5. ASSUME NEW s \in Senders, NEW r \in Receivers, AddRow(s, r) \/ SendFullBatch(s, r)
      PROVE  UNCHANGED faults
  BY <1>5, Zenon DEF AddRow, SendFullBatch, Unused
<1>6. ASSUME NEW s \in Senders, NEW r \in Receivers, ChannelStep(s, r) \/ CallThrows(s, r)
      PROVE  UNCHANGED faults \/ Fault(TRUE) \/ Fault(FALSE)
  BY <1>6, Zenon DEF ChannelStep, TransmitData, CallReturns, Retry, CallThrows, Lost
<1>7. ASSUME NEW h \in handlers, HandlerStep(h) \/ AddSpurious(h) PROVE UNCHANGED faults
  BY <1>7, Zenon DEF HandlerStep, FindControlBlock, AddBatch, DecrementSenders, AddSpurious
<1>8. ASSUME NEW r \in Receivers,
             RecvrStep(r) \/ CancelStep(r) \/ GetSpurious(r) \/ ReachedLimit(r) \/ Cancel(r)
      PROVE  UNCHANGED faults
  BY <1>8, Zenon DEF RecvrStep, GetBatch, DeregisterRecvr, CancelStep, CancelWakes, CancelDeletes,
                     GetSpurious, ReachedLimit, Cancel
<1> QED BY <1>2, <1>3, <1>4, <1>5, <1>6, <1>7, <1>8, Zenon DEF Next

\* ... and until a call fails whose request has arrived.
LEMMA NextPrompt ==
    SetsOfSenders /\ Inv /\ Inv' /\ PromptInv /\ [Next]_vars =>
        PromptInv'
\* A segment stays one when the sequence grows.
<1>SegmentGrows.
  ASSUME NEW seq \in Seq(Rows), NEW more \in Seq(Rows), NEW rows \in Seq(Rows),
         NEW a \in Nat, NEW b \in Nat, Segment(seq, a, rows, b)
  PROVE  Segment(seq \o more, a, rows, b)
  BY <1>SegmentGrows DEF Segment
\* What is appended is a segment.
<1>SegmentNew.
  ASSUME NEW seq \in Seq(Rows), NEW more \in Seq(Rows)
  PROVE  Segment(seq \o more, Len(seq), more, Len(seq \o more))
  BY <1>SegmentNew DEF Segment
\* An entry of another sender is appended to the queue, ...
<1>PipeOther.
  ASSUME NEW q \in Seq(Entry), NEW e \in Entry, NEW s, e.s # s, NEW given \in Seq(Rows),
         NEW got \in Seq(Rows), NEW ok, NEW out, NEW batch,
         Pipe(q, s, given, got, ok, out, batch)
  PROVE  Pipe(Append(q, e), s, given, got, ok, out, batch)
  <2> USE <1>PipeOther
  <2> DEFINE A == Append(q, e)
  <2>1. PICK at \in [0 .. Len(q) -> 0 .. Len(given)] :
              /\ Chain(q, s, given, got, at) /\ (ok => Rest(given, at[Len(q)], out, batch))
    BY Zenon DEF Pipe
  <2>2. /\ Len(q) \in Nat /\ A \in Seq(Entry) /\ Len(A) = Len(q) + 1 /\ A[Len(A)] = e
        /\ \A i \in 1 .. Len(q) : A[i] = q[i]
    OBVIOUS
  <2> DEFINE next == [i \in 0 .. Len(A) |-> IF i = Len(A) THEN at[Len(q)] ELSE at[i]]
  <2>3. /\ next \in [0 .. Len(A) -> 0 .. Len(given)] /\ next[Len(A)] = at[Len(q)]
        /\ \A i \in 0 .. Len(q) : next[i] = at[i]
    BY <2>2, SMTT(40)
  <2> HIDE DEF A, next
  <2>4. ASSUME NEW i \in 1 .. Len(A)
        PROVE  IF A[i].s = s THEN Segment(given, next[i-1], A[i].rows, next[i]) ELSE next[i] = next[i-1]
    <3>1. CASE i = Len(A)
      <4>1. next[i-1] = at[Len(q)] /\ next[i] = at[Len(q)] /\ A[i].s # s
        BY <3>1, <2>2, <2>3
      <4> QED BY <4>1, Zenon
    <3>2. CASE i # Len(A)
      <4>1. i \in 1 .. Len(q) /\ A[i] = q[i] /\ next[i-1] = at[i-1] /\ next[i] = at[i]
        BY <3>2, <2>2, <2>3, SMTT(40)
      <4> QED BY <4>1, <2>1, Zenon DEF Chain
    <3> QED BY <3>1, <3>2, Zenon
  <2>5. Segment(given, 0, got, next[0])
    BY <2>1, <2>2, <2>3 DEF Chain
  <2>6. Pipe(A, s, given, got, ok, out, batch)
    BY <2>1, <2>3, <2>4, <2>5, Zenon DEF Pipe, Chain
  <2> QED BY <2>6, Zenon DEF A
\* ... or the rows that were on their way.
<1>PipeAdd.
  ASSUME NEW q \in Seq(Entry), NEW s \in Senders, NEW given \in Seq(Rows),
         NEW got \in Seq(Rows), NEW out \in Seq(Rows), NEW batch \in Seq(Rows),
         Pipe(q, s, given, got, TRUE, out, batch)
  PROVE  Pipe(Append(q, [s |-> s, rows |-> out]), s, given, got, TRUE, <<>>, batch)
  <2> USE <1>PipeAdd
  <2> DEFINE e == [s |-> s, rows |-> out]
             A == Append(q, e)
  <2>1. PICK at \in [0 .. Len(q) -> 0 .. Len(given)] :
              Chain(q, s, given, got, at) /\ Rest(given, at[Len(q)], out, batch)
    BY Zenon DEF Pipe
  <2>2. PICK b \in 0 .. Len(given) : /\ Segment(given, at[Len(q)], out, b)
                                     /\ Segment(given, b, batch, Len(given))
    BY <2>1, Zenon DEF Rest
  <2>3. e \in Entry /\ e.s = s /\ e.rows = out
    BY Zenon DEF Entry
  <2> HIDE DEF e
  <2>4. /\ Len(q) \in Nat /\ A \in Seq(Entry) /\ Len(A) = Len(q) + 1 /\ A[Len(A)] = e
        /\ \A i \in 1 .. Len(q) : A[i] = q[i]
    BY <2>3
  <2> DEFINE next == [i \in 0 .. Len(A) |-> IF i = Len(A) THEN b ELSE at[i]]
  <2>5. /\ next \in [0 .. Len(A) -> 0 .. Len(given)] /\ next[Len(A)] = b
        /\ \A i \in 0 .. Len(q) : next[i] = at[i]
    BY <2>4
  <2> HIDE DEF A, next
  <2>6. ASSUME NEW i \in 1 .. Len(A)
        PROVE  IF A[i].s = s THEN Segment(given, next[i-1], A[i].rows, next[i]) ELSE next[i] = next[i-1]
    <3>1. CASE i = Len(A)
      <4>1. next[i-1] = at[Len(q)] /\ next[i] = b /\ A[i].s = s /\ A[i].rows = out
        BY <3>1, <2>3, <2>4, <2>5
      <4> QED BY <4>1, <2>2, Zenon
    <3>2. CASE i # Len(A)
      <4>1. i \in 1 .. Len(q) /\ A[i] = q[i] /\ next[i-1] = at[i-1] /\ next[i] = at[i]
        BY <3>2, <2>4, <2>5, SMTT(40)
      <4> QED BY <4>1, <2>1, Zenon DEF Chain
    <3> QED BY <3>1, <3>2, Zenon
  <2>7. Segment(given, 0, got, next[0])
    BY <2>1, <2>4, <2>5 DEF Chain
  <2>8. Rest(given, next[Len(A)], <<>>, batch)
    BY <2>2, <2>5, SegmentEmpty DEF Rest
  <2>9. Pipe(A, s, given, got, TRUE, <<>>, batch)
    BY <2>5, <2>6, <2>7, <2>8, Zenon DEF Pipe, Chain
  <2> QED BY <2>9, Zenon DEF A, e
\* Rows given to the channel are added to batch_.
<1>PipeGrows.
  ASSUME NEW q \in Seq(Entry), NEW s, NEW given \in Seq(Rows), NEW got \in Seq(Rows),
         NEW ok \in BOOLEAN, NEW out \in Seq(Rows), NEW batch \in Seq(Rows),
         NEW more \in Seq(Rows), Pipe(q, s, given, got, ok, out, batch)
  PROVE  Pipe(q, s, given \o more, got, ok, out, batch \o more)
  <2> USE <1>PipeGrows
  <2> DEFINE G == given \o more
  <2>1. PICK at \in [0 .. Len(q) -> 0 .. Len(given)] :
              /\ Chain(q, s, given, got, at) /\ (ok => Rest(given, at[Len(q)], out, batch))
    BY Zenon DEF Pipe
  <2>2. G \in Seq(Rows) /\ Len(given) \in Nat /\ Len(q) \in Nat /\ Len(G) \in Nat
        /\ Len(given) <= Len(G)
    OBVIOUS
  <2>3. /\ \A i \in 0 .. Len(q) : at[i] \in Nat
        /\ at \in [0 .. Len(q) -> 0 .. Len(G)]
    <3> HIDE DEF G
    <3>1. \A i \in 0 .. Len(q) : at[i] \in 0 .. Len(given)
      BY Zenon
    <3>2. 0 .. Len(given) \subseteq Nat /\ 0 .. Len(given) \subseteq 0 .. Len(G)
      BY <2>2
    <3> QED BY <3>1, <3>2, Zenon
  <2>4. ASSUME NEW a \in Nat, NEW b \in Nat, NEW rows \in Seq(Rows), Segment(given, a, rows, b)
        PROVE  Segment(G, a, rows, b)
    BY <2>4, <1>SegmentGrows, Zenon
  <2>5. ASSUME ok PROVE Rest(G, at[Len(q)], out, batch \o more)
    <3>1. PICK b \in 0 .. Len(given) : /\ Segment(given, at[Len(q)], out, b)
                                       /\ Segment(given, b, batch, Len(given))
      BY <2>1, <2>5, Zenon DEF Rest
    <3>2. at[Len(q)] \in Nat /\ b \in Nat /\ b \in 0 .. Len(G)
      BY <2>2, <2>3
    <3>3. Segment(G, at[Len(q)], out, b) /\ Segment(G, b, batch, Len(given))
      BY <2>2, <2>4, <3>1, <3>2, Zenon
    <3>4. Segment(G, Len(given), more, Len(G))
      BY <1>SegmentNew, Zenon
    <3> HIDE DEF G
    <3>5. Segment(G, b, batch \o more, Len(G))
      BY <2>2, <3>2, <3>3, <3>4, SegmentJoin, Zenon
    <3> QED BY <3>2, <3>3, <3>5, Zenon DEF Rest
  <2> HIDE DEF G
  <2>6. Segment(G, 0, got, at[0])
    <3>1. Segment(given, 0, got, at[0])
      BY <2>1, Zenon DEF Chain
    <3>2. 0 \in 0 .. Len(q)
      BY <2>2
    <3> QED BY <2>3, <2>4, <3>1, <3>2, Zenon
  <2>7. ASSUME NEW i \in 1 .. Len(q)
        PROVE  IF q[i].s = s THEN Segment(G, at[i-1], q[i].rows, at[i]) ELSE at[i] = at[i-1]
    <3>1. IF q[i].s = s THEN Segment(given, at[i-1], q[i].rows, at[i]) ELSE at[i] = at[i-1]
      BY <2>1, Zenon DEF Chain
    <3>2. q[i] \in Entry /\ i - 1 \in 0 .. Len(q) /\ i \in 0 .. Len(q)
      BY <2>2
    <3>3. q[i].rows \in Seq(Rows) /\ at[i-1] \in Nat /\ at[i] \in Nat
      BY <3>2, <2>3, Zenon DEF Entry
    <3> QED BY <2>4, <3>1, <3>3, Zenon
  <2>8. Pipe(q, s, G, got, ok, out, batch \o more)
    BY <2>3, <2>5, <2>6, <2>7, Zenon DEF Pipe, Chain
  <2> QED BY <2>8, Zenon DEF G
\* batch_ is offered to the rpc thread.
<1>PipeShift.
  ASSUME NEW q \in Seq(Entry), NEW s, NEW given \in Seq(Rows), NEW got \in Seq(Rows),
         NEW ok \in BOOLEAN, NEW batch \in Seq(Rows), Pipe(q, s, given, got, ok, <<>>, batch)
  PROVE  Pipe(q, s, given, got, ok, batch, <<>>)
  <2> USE <1>PipeShift
  <2>1. PICK at \in [0 .. Len(q) -> 0 .. Len(given)] :
              /\ Chain(q, s, given, got, at) /\ (ok => Rest(given, at[Len(q)], <<>>, batch))
    BY Zenon DEF Pipe
  <2>2. Len(given) \in Nat /\ Len(q) \in 0 .. Len(q) /\ Len(given) \in 0 .. Len(given)
    OBVIOUS
  <2>3. at[Len(q)] \in 0 .. Len(given)
    BY <2>2, Zenon
  <2>4. ASSUME ok PROVE Rest(given, at[Len(q)], batch, <<>>)
    <3>1. PICK b \in 0 .. Len(given) : /\ Segment(given, at[Len(q)], <<>>, b)
                                       /\ Segment(given, b, batch, Len(given))
      BY <2>1, <2>4, Zenon DEF Rest
    <3>2. b = at[Len(q)]
      BY <2>3, <3>1, SegmentEmpty
    <3>3. Segment(given, Len(given), <<>>, Len(given))
      BY <2>2, SegmentEmpty, Zenon
    <3> QED BY <2>2, <3>1, <3>2, <3>3, Zenon DEF Rest
  <2> QED BY <2>1, <2>4, Zenon DEF Pipe
\* A whole batch is given to the channel and offered at once, ...
<1>PipeSend.
  ASSUME NEW q \in Seq(Entry), NEW s, NEW given \in Seq(Rows), NEW got \in Seq(Rows),
         NEW ok \in BOOLEAN, NEW more \in Seq(Rows), Pipe(q, s, given, got, ok, <<>>, <<>>)
  PROVE  Pipe(q, s, given \o more, got, ok, more, <<>>)
  <2> USE <1>PipeSend
  <2>1. <<>> \in Seq(Rows) /\ <<>> \o more = more /\ given \o more \in Seq(Rows)
    OBVIOUS
  <2>2. Pipe(q, s, given \o more, got, ok, <<>>, <<>> \o more)
    BY <2>1, <1>PipeGrows, ZenonT(60)
  <2>3. Pipe(q, s, given \o more, got, ok, <<>>, more)
    BY <2>1, <2>2, Zenon
  <2> QED BY <2>1, <2>3, <1>PipeShift, Zenon
\* ... a row is added to batch_ ...
<1>PipeRow.
  ASSUME NEW q \in Seq(Entry), NEW s, NEW given \in Seq(Rows), NEW got \in Seq(Rows),
         NEW ok \in BOOLEAN, NEW out \in Seq(Rows), NEW batch \in Seq(Rows), NEW row \in Rows,
         Pipe(q, s, given, got, ok, out, batch)
  PROVE  Pipe(q, s, Append(given, row), got, ok, out, Append(batch, row))
  <2> USE <1>PipeRow
  <2>1. /\ Append(given, row) = given \o <<row>> /\ Append(batch, row) = batch \o <<row>>
        /\ <<row>> \in Seq(Rows)
    BY AppendOne, Zenon
  <2>2. Pipe(q, s, given \o <<row>>, got, ok, out, batch \o <<row>>)
    BY <2>1, <1>PipeGrows, ZenonT(60)
  <2> QED BY <2>1, <2>2, Zenon
\* ... or to the next one, after batch_ was offered.
<1>PipeFull.
  ASSUME NEW q \in Seq(Entry), NEW s, NEW given \in Seq(Rows), NEW got \in Seq(Rows),
         NEW ok \in BOOLEAN, NEW batch \in Seq(Rows), NEW row \in Rows,
         Pipe(q, s, given, got, ok, <<>>, batch)
  PROVE  Pipe(q, s, Append(given, row), got, ok, batch, <<row>>)
  <2> USE <1>PipeFull
  <2>1. <<>> \in Seq(Rows) /\ Append(<<>>, row) = <<row>>
    BY AppendOne
  <2>2. Pipe(q, s, given, got, ok, batch, <<>>)
    BY <1>PipeShift, Zenon
  <2>3. Pipe(q, s, Append(given, row), got, ok, batch, Append(<<>>, row))
    BY <2>1, <2>2, <1>PipeRow, Zenon
  <2> QED BY <2>1, <2>3, Zenon
\* Once a call has failed nothing more is on its way.
<1>PipeFails.
  ASSUME NEW q, NEW s, NEW given, NEW got, NEW ok, NEW out, NEW batch,
         NEW ok2, ~ ok2, NEW out2, NEW batch2, Pipe(q, s, given, got, ok, out, batch)
  PROVE  Pipe(q, s, given, got, ok2, out2, batch2)
  BY <1>PipeFails, Zenon DEF Pipe
\* The sets of senders that are counted are finite, and shrink with what is counted.
<1>UncountedFewer.
  ASSUME SetsOfSenders, NEW hs, NEW chan, NEW hs2, NEW chan2, NEW r,
         \A s \in Senders : Counted(hs, s, r, chan[s][r]) => Counted(hs2, s, r, chan2[s][r])
  PROVE  /\ Cardinality(Uncounted(hs2, chan2, r)) \in Nat
         /\ Cardinality(Uncounted(hs, chan, r)) \in Nat
         /\ Cardinality(Uncounted(hs2, chan2, r)) <= Cardinality(Uncounted(hs, chan, r))
  <2> USE <1>UncountedFewer
  <2>1. Uncounted(hs2, chan2, r) \subseteq Uncounted(hs, chan, r) /\ Uncounted(hs, chan, r) \subseteq Senders
    BY Zenon DEF Uncounted
  <2> QED BY <2>1, Zenon DEF SetsOfSenders
\* The count stays right while it is not changed and no end-of-stream becomes uncounted.
<1>CountKept.
  ASSUME SetsOfSenders, Inv, Inv', CountInv,
         \A r \in Receivers : recvr'[r].remaining = recvr[r].remaining,
         \A s \in Senders, r \in Receivers :
             Counted(handlers, s, r, channel[s][r]) => Counted(handlers', s, r, channel'[s][r])
  PROVE  CountInv'
  <2> USE <1>CountKept
  <2>1. ASSUME NEW r \in Receivers
        PROVE  recvr'[r].remaining >= Cardinality(Uncounted(handlers', channel', r))
    <3>1. recvr[r].remaining >= Cardinality(Uncounted(handlers, channel, r))
      BY Zenon DEF CountInv
    <3>2. recvr[r].remaining \in Nat
      BY RecvrOf, Zenon DEF RecvrRec
    <3>3. /\ Cardinality(Uncounted(handlers', channel', r)) \in Nat
          /\ Cardinality(Uncounted(handlers, channel, r)) \in Nat
          /\ Cardinality(Uncounted(handlers', channel', r)) <= Cardinality(Uncounted(handlers, channel, r))
      BY <1>UncountedFewer, Zenon
    <3> QED BY <3>1, <3>2, <3>3
  <2> QED BY <2>1, Zenon DEF CountInv
\* A step of the sending side changes what one channel has to deliver, and no call.
<1>SendingPrompt.
  ASSUME SetsOfSenders, Inv, Inv', Prompt, UNCHANGED Unused,
         \A s \in Senders, r \in Receivers :
             /\ channel'[s][r].pc = channel[s][r].pc /\ channel'[s][r].kind = channel[s][r].kind
             /\ channel'[s][r].rows = channel[s][r].rows /\ channel'[s][r].eos = channel[s][r].eos,
         \A s \in Senders, r \in Receivers :
             Pipe(recvr[r].queue, s, sent[s][r], received[s][r], channel[s][r].ok,
                  Outstanding(handlers, s, r, sender[s], channel[s][r]), channel[s][r].batch)
             => Pipe(recvr[r].queue, s, sent'[s][r], received[s][r], channel'[s][r].ok,
                     Outstanding(handlers, s, r, sender'[s], channel'[s][r]), channel'[s][r].batch)
  PROVE  Prompt'
  <2> USE <1>SendingPrompt
  <2>0. UNCHANGED <<handlers, recvr, received>>
    BY Zenon DEF Unused
  <2>1. \A h \in handlers : h.s \in Senders /\ h.r \in Receivers
    BY Zenon DEF Inv, TypeInv, HandlerRec
  <2>2. HandlerInv'
    <3>1. ASSUME NEW h \in handlers PROVE Serves(h, channel'[h.s][h.r])
      <4>1. Serves(h, channel[h.s][h.r])
        BY Zenon DEF Prompt, HandlerInv, HandlersOK
      <4>2. /\ channel'[h.s][h.r].pc = channel[h.s][h.r].pc
            /\ channel'[h.s][h.r].kind = channel[h.s][h.r].kind
            /\ channel'[h.s][h.r].rows = channel[h.s][h.r].rows
        BY <2>1, Zenon
      <4> QED BY <4>1, <4>2, Zenon DEF Serves
    <3> QED BY <2>0, <3>1, Zenon DEF Prompt, HandlerInv, HandlersOK
  <2>3. CountInv'
    BY <2>0, <1>CountKept, Zenon DEF Prompt, Counted
  <2>4. EndInv' /\ QueueInv'
    BY <2>0 DEF Prompt, EndInv, QueueInv
  <2>5. PipeInv'
    BY <2>0, Zenon DEF Prompt, PipeInv
  <2> QED BY <2>2, <2>3, <2>4, <2>5 DEF Prompt
\* What is on its way depends on the buffers of the sender and on the handlers that
\* are done.
<1>SameOutstanding.
  ASSUME NEW hs, NEW hs2, NEW s, NEW r, NEW q, NEW q2, NEW c,
         c.item # NoItem => Offer(q2, c) = Offer(q, c),
         Served(hs2, s, r) <=> Served(hs, s, r)
  PROVE  Outstanding(hs2, s, r, q2, c) = Outstanding(hs, s, r, q, c)
  BY <1>SameOutstanding, Zenon DEF Outstanding
\* A sender with the same buffers offers the same.
<1>SameOffer.
  ASSUME NEW q, NEW q2, NEW c, q2.buffers = q.buffers
  PROVE  Offer(q2, c) = Offer(q, c)
  BY <1>SameOffer, Zenon DEF Offer
\* Only the thread of s moves.
<1>ThreadPrompt.
  ASSUME SetsOfSenders, Inv, Inv', Prompt, UNCHANGED <<channel, sent>>, UNCHANGED Unused,
         NEW s \in Senders, NEW q,
         sender' = [sender EXCEPT ![s] = q],
         \A r \in Receivers : channel[s][r].item # NoItem =>
                                  Offer(q, channel[s][r]) = Offer(sender[s], channel[s][r])
  PROVE  Prompt'
  <2> USE <1>ThreadPrompt
  <2>1. ASSUME NEW i \in Senders, NEW r \in Receivers
        PROVE  Outstanding(handlers, i, r, sender'[i], channel[i][r])
               = Outstanding(handlers, i, r, sender[i], channel[i][r])
    <3>1. sender'[i] = IF i = s THEN q ELSE sender[i]
      BY Zenon DEF Inv, TypeInv
    <3>2. channel[i][r].item # NoItem => Offer(sender'[i], channel[i][r]) = Offer(sender[i], channel[i][r])
      BY <3>1, Zenon
    <3> QED BY <3>2, <1>SameOutstanding
  <2> QED BY <2>1, <1>SendingPrompt, Zenon
\* The thread of s gives something to its channel for r, or takes it from batch_.
<1>ChannelPrompt.
  ASSUME SetsOfSenders, Inv, Inv', Prompt, UNCHANGED Unused, NEW s \in Senders,
         NEW r \in Receivers, NEW q, NEW c, NEW g,
         sender' = [sender EXCEPT ![s] = q], q.buffers = sender[s].buffers,
         channel' = [channel EXCEPT ![s][r] = c], sent' = [sent EXCEPT ![s][r] = g],
         c.pc = channel[s][r].pc, c.kind = channel[s][r].kind, c.rows = channel[s][r].rows,
         c.eos = channel[s][r].eos,
         Pipe(recvr[r].queue, s, sent[s][r], received[s][r], channel[s][r].ok,
              Outstanding(handlers, s, r, sender[s], channel[s][r]), channel[s][r].batch)
         => Pipe(recvr[r].queue, s, g, received[s][r], c.ok,
                 Outstanding(handlers, s, r, sender[s], c), c.batch)
  PROVE  Prompt'
  <2> USE <1>ChannelPrompt
  <2>1. /\ channel \in [Senders -> [Receivers -> ChannelRec]] /\ sender \in [Senders -> SenderRec]
        /\ sent \in [Senders -> [Receivers -> Seq(Rows)]]
    BY Zenon DEF Inv, TypeInv
  <2>2. ASSUME NEW i \in Senders, NEW j \in Receivers
        PROVE  /\ channel'[i][j] = IF i = s /\ j = r THEN c ELSE channel[i][j]
               /\ sent'[i][j] = IF i = s /\ j = r THEN g ELSE sent[i][j]
               /\ sender'[i].buffers = sender[i].buffers
    <3>1. channel'[i][j] = IF i = s /\ j = r THEN c ELSE channel[i][j]
      BY <2>1, Zenon
    <3>2. sent'[i][j] = IF i = s /\ j = r THEN g ELSE sent[i][j]
      BY <2>1, Zenon
    <3>3. sender'[i] = IF i = s THEN q ELSE sender[i]
      BY <2>1, Zenon
    <3>4. sender'[i].buffers = sender[i].buffers
      BY <3>3, Zenon
    <3> QED BY <3>1, <3>2, <3>4, Zenon
  <2>3. ASSUME NEW i \in Senders, NEW j \in Receivers, NEW d
        PROVE  Outstanding(handlers, i, j, sender'[i], d) = Outstanding(handlers, i, j, sender[i], d)
    BY <2>2, <1>SameOffer, <1>SameOutstanding
  <2>4. ASSUME NEW i \in Senders, NEW j \in Receivers
        PROVE  /\ channel'[i][j].pc = channel[i][j].pc /\ channel'[i][j].kind = channel[i][j].kind
               /\ channel'[i][j].rows = channel[i][j].rows /\ channel'[i][j].eos = channel[i][j].eos
               /\ Pipe(recvr[j].queue, i, sent[i][j], received[i][j], channel[i][j].ok,
                       Outstanding(handlers, i, j, sender[i], channel[i][j]), channel[i][j].batch)
                  => Pipe(recvr[j].queue, i, sent'[i][j], received[i][j], channel'[i][j].ok,
                          Outstanding(handlers, i, j, sender'[i], channel'[i][j]), channel'[i][j].batch)
    <3>0. Outstanding(handlers, i, j, sender'[i], channel'[i][j])
          = Outstanding(handlers, i, j, sender[i], channel'[i][j])
      BY <2>3, Zenon
    <3>1. CASE i = s /\ j = r
      <4>1. channel'[i][j] = c /\ sent'[i][j] = g
        BY <2>2, <3>1
      <4> QED BY <3>0, <3>1, <4>1, Zenon
    <3>2. CASE ~ (i = s /\ j = r)
      <4>1. channel'[i][j] = channel[i][j] /\ sent'[i][j] = sent[i][j]
        BY <2>2, <3>2
      <4> QED BY <3>0, <4>1, Zenon
    <3> QED BY <3>1, <3>2, Zenon
  <2> QED BY <2>4, <1>SendingPrompt, Zenon
\* The beginning of Close and the end of an rpc thread keep Prompt.
<1>MovesPrompt.
  ASSUME SetsOfSenders, Inv, Inv', Prompt, NEW s \in Senders, StartClose(s) \/ CloseDrain(s)
  PROVE  Prompt'
  <2> USE <1>MovesPrompt
  <2>1. UNCHANGED <<channel, sent>> /\ UNCHANGED Unused
    BY Zenon DEF StartClose, CloseDrain
  <2>2. sender \in [Senders -> SenderRec] /\ sender' \in [Senders -> SenderRec]
    BY Zenon DEF Inv, TypeInv
  <2>3. sender' = [sender EXCEPT ![s] = sender'[s]]
    BY <2>2, Zenon DEF StartClose, CloseDrain
  <2>4. sender'[s].buffers = sender[s].buffers
    BY <2>2 DEF StartClose, CloseDrain, SenderRec
  <2>5. \A r \in Receivers : Offer(sender'[s], channel[s][r]) = Offer(sender[s], channel[s][r])
    BY <2>4, Zenon DEF Offer
  <2> QED BY <2>1, <2>3, <2>5, <1>ThreadPrompt, Zenon
\* Send, of a whole batch, keeps Prompt: the buffer it writes is offered to nobody.
<1>SendPrompt.
  ASSUME SetsOfSenders, Inv, Inv', Prompt, NEW s \in Senders, Send(s)
  PROVE  Prompt'
  <2> USE <1>SendPrompt
  <2> DEFINE b == sender[s].current
  <2>1. PICK size \in 1 .. Capacity :
           sender' = [sender EXCEPT ![s].pc = "send", ![s].row = sender[s].row + size, ![s].chan = 1,
                        ![s].buffers[sender[s].current] =
                            [i \in 1 .. size |-> sender[s].row + 1 + i - 1]]
    BY Zenon DEF Send
  <2> DEFINE q == [sender[s] EXCEPT !.pc = "send", !.row = sender[s].row + size, !.chan = 1,
                     !.buffers[sender[s].current] = [i \in 1 .. size |-> sender[s].row + 1 + i - 1]]
  <2>2. sender' = [sender EXCEPT ![s] = q]
    BY <2>1, ZenonT(60)
  <2>3. /\ sender[s] \in SenderRec /\ channel[s] \in [Receivers -> ChannelRec]
        /\ \A r \in Receivers : channel[s][r].item # b
    BY SideOf, Zenon DEF SideOK, SenderOK, Send
  <2>4. \A i \in Buffers : i # b => q.buffers[i] = sender[s].buffers[i]
    BY <2>3, Zenon DEF SenderRec
  <2> HIDE DEF q
  <2>5. ASSUME NEW r \in Receivers, channel[s][r].item # NoItem
        PROVE  Offer(q, channel[s][r]) = Offer(sender[s], channel[s][r])
    <3>1. channel[s][r].item \in Buffers \/ channel[s][r].item = Own
      BY <2>3, <2>5 DEF ChannelRec, Buffers, Own, NoItem
    <3> QED BY <2>3, <2>4, <3>1, Zenon DEF Offer
  <2>6. UNCHANGED <<channel, sent>> /\ UNCHANGED Unused
    BY Zenon DEF Send
  <2> QED BY <2>2, <2>5, <2>6, <1>ThreadPrompt, Zenon
\* A buffer that was offered is on its way.
<1>OfferOut.
  ASSUME NEW hs, NEW s, NEW r, NEW q, NEW c, NEW b \in Buffers \cup {Own}, c.item = b
  PROVE  Outstanding(hs, s, r, q, c) = IF b = Own THEN c.thrift ELSE q.buffers[b]
  BY <1>OfferOut DEF Outstanding, Offer, NoItem, Own, Buffers
\* The offer of a batch keeps Prompt: its rows are given and are on their way.
<1>SendBatchPrompt.
  ASSUME SetsOfSenders, Inv, Inv', Prompt, NEW s \in Senders, SendBatch(s)
  PROVE  Prompt'
  <2> USE <1>SendBatchPrompt
  <2> DEFINE r == sender[s].chan
             c == channel[s][r]
             b == sender[s].current
             more == sender[s].buffers[b]
             q == recvr[r].queue
  <2>1. r \in Receivers /\ SideOK(sender[s], channel[s])
    BY SideOf, Zenon
  <2>2. /\ q \in Seq(Entry) /\ sent[s][r] \in Seq(Rows) /\ received[s][r] \in Seq(Rows)
        /\ sender[s] \in SenderRec /\ c \in ChannelRec /\ ChannelOK(sender[s], r, c)
        /\ c.batch \in Seq(Rows) /\ c.ok \in BOOLEAN
        /\ \A i \in Buffers : sender[s].buffers[i] \in Seq(Rows)
    BY <2>1, PipeTypes, Zenon
  <2>3. sender[s].pc = "send" /\ ~ c.in_flight /\ UNCHANGED Unused
    BY Zenon DEF SendBatch
  <2>4. b \in Buffers /\ more \in Seq(Rows)
    BY <2>2, Zenon DEF SenderRec
  <2>5. CASE c.ok
    <3> DEFINE d == Offered(c, b)
               p == IF r < NumReceivers THEN [sender[s] EXCEPT !.chan = r + 1]
                    ELSE [sender[s] EXCEPT !.pc = "ready", !.current = NextBuffer(sender[s].current)]
    <3>1. /\ channel' = [channel EXCEPT ![s][r] = d] /\ sender' = [sender EXCEPT ![s] = p]
          /\ sent' = [sent EXCEPT ![s][r] = sent[s][r] \o more]
      BY <2>5, Zenon DEF SendBatch
    <3>2. /\ d.pc = c.pc /\ d.kind = c.kind /\ d.rows = c.rows /\ d.eos = c.eos /\ d.ok = c.ok
          /\ d.batch = c.batch /\ d.item = b
      BY <2>2, Zenon DEF Offered, ChannelRec
    <3>3. p.buffers = sender[s].buffers
      BY <2>2, Zenon DEF SenderRec
    <3> HIDE DEF d, p
    <3>4. c.batch = <<>>
      BY <2>1, <2>3, Zenon DEF SideOK, SenderOK
    <3>5. Outstanding(handlers, s, r, sender[s], c) = <<>>
      BY <2>2, <2>3, NothingOut, Zenon
    <3>6. b # Own
      BY <2>4, SMTT(40) DEF Buffers, Own
    <3>7. Outstanding(handlers, s, r, sender[s], d) = more
      BY <2>4, <3>2, <3>6, <1>OfferOut
    <3>8. ASSUME Pipe(q, s, sent[s][r], received[s][r], c.ok, <<>>, <<>>)
          PROVE  Pipe(q, s, sent[s][r] \o more, received[s][r], c.ok, more, <<>>)
      <4> HIDE DEF more, q, r, c, b
      <4> QED BY <2>2, <2>4, <3>8, <1>PipeSend, Zenon
    <3> HIDE DEF more, q, r, c, b
    <3>9. Pipe(q, s, sent[s][r], received[s][r], c.ok, Outstanding(handlers, s, r, sender[s], c), c.batch)
          => Pipe(q, s, sent[s][r] \o more, received[s][r], d.ok, Outstanding(handlers, s, r, sender[s], d), d.batch)
      BY <3>2, <3>4, <3>5, <3>7, <3>8, Zenon
    <3> QED BY <2>1, <2>3, <3>1, <3>2, <3>3, <3>9, <1>ChannelPrompt, Zenon DEF c, q
  <2>6. CASE ~ c.ok
    <3>1. UNCHANGED <<channel, sent>> /\ sender' = [sender EXCEPT ![s] = Fails(sender[s])]
      BY <2>6, Zenon DEF SendBatch
    <3>2. Fails(sender[s]).buffers = sender[s].buffers
      BY <2>2, FailsRec, Zenon
    <3>3. \A i \in Receivers : Offer(Fails(sender[s]), channel[s][i]) = Offer(sender[s], channel[s][i])
      BY <3>2, <1>SameOffer, Zenon
    <3> QED BY <2>3, <3>1, <3>3, <1>ThreadPrompt, ZenonT(60)
  <2> QED BY <2>5, <2>6, Zenon
\* A row added to batch_ is given, and is the last one of the pipe.
<1>AddRowPrompt.
  ASSUME SetsOfSenders, Inv, Inv', Prompt, NEW s \in Senders, NEW r \in Receivers, AddRow(s, r)
  PROVE  Prompt'
  <2> USE <1>AddRowPrompt
  <2> DEFINE c == channel[s][r]
             row == sender[s].row + 1
             q == [sender[s] EXCEPT !.row = row]
             d == [c EXCEPT !.batch = Append(c.batch, row)]
  <2>1. /\ recvr[r].queue \in Seq(Entry) /\ sent[s][r] \in Seq(Rows) /\ received[s][r] \in Seq(Rows)
        /\ sender[s] \in SenderRec /\ c \in ChannelRec /\ ChannelOK(sender[s], r, c)
        /\ c.batch \in Seq(Rows) /\ c.ok \in BOOLEAN /\ c.thrift \in Seq(Rows) /\ c.rows \in Seq(Rows)
        /\ \A i \in Buffers : sender[s].buffers[i] \in Seq(Rows)
    BY PipeTypes, Zenon
  <2>2. /\ UNCHANGED Unused /\ row <= NumRows
        /\ channel' = [channel EXCEPT ![s][r] = d]
        /\ sent' = [sent EXCEPT ![s][r] = Append(sent[s][r], row)] /\ sender' = [sender EXCEPT ![s] = q]
    BY Zenon DEF AddRow
  <2>3. row \in Rows
    BY <2>1, <2>2, StreamAssumption, SMTT(40) DEF SenderRec, Rows
  <2>4. q.buffers = sender[s].buffers
    BY <2>1, Zenon DEF SenderRec
  <2>5. /\ d.pc = c.pc /\ d.kind = c.kind /\ d.rows = c.rows /\ d.eos = c.eos /\ d.ok = c.ok
        /\ d.batch = Append(c.batch, row) /\ d.item = c.item /\ d.thrift = c.thrift
    BY <2>1, Zenon DEF ChannelRec
  <2> HIDE DEF q, d, row
  <2>6. Outstanding(handlers, s, r, sender[s], d) = Outstanding(handlers, s, r, sender[s], c)
    BY <2>5, Zenon DEF Outstanding, Offer
  <2> DEFINE out == Outstanding(handlers, s, r, sender[s], c)
  <2>7. out \in Seq(Rows)
    <3>1. c.item # NoItem => c.item = Own \/ c.item \in Buffers
      BY <2>1 DEF ChannelRec, NoItem, Own, Buffers
    <3>2. <<>> \in Seq(Rows)
      OBVIOUS
    <3> QED BY <2>1, <3>1, <3>2, Zenon DEF Outstanding, Offer
  <2> HIDE DEF out
  <2>8. ASSUME Pipe(recvr[r].queue, s, sent[s][r], received[s][r], c.ok, out, c.batch)
        PROVE  Pipe(recvr[r].queue, s, Append(sent[s][r], row), received[s][r], c.ok, out, Append(c.batch, row))
    <3> HIDE DEF c
    <3> QED BY ONLY <2>1, <2>3, <2>7, <2>8, <1>PipeRow, ZenonT(60)
  <2> QED BY <2>2, <2>4, <2>5, <2>6, <2>8, <1>ChannelPrompt, Zenon DEF out
\* A full batch_ is on its way, and the row is the first of the next.
<1>SendFullBatchPrompt.
  ASSUME SetsOfSenders, Inv, Inv', Prompt, NEW s \in Senders, NEW r \in Receivers,
         SendFullBatch(s, r)
  PROVE  Prompt'
  <2> USE <1>SendFullBatchPrompt
  <2> DEFINE c == channel[s][r]
             row == sender[s].row + 1
             q == recvr[r].queue
             g == sent[s][r]
             got == received[s][r]
  <2>1. /\ q \in Seq(Entry) /\ g \in Seq(Rows) /\ got \in Seq(Rows)
        /\ sender[s] \in SenderRec /\ c \in ChannelRec /\ ChannelOK(sender[s], r, c)
        /\ c.batch \in Seq(Rows) /\ c.ok \in BOOLEAN
    BY PipeTypes, Zenon
  <2>2. UNCHANGED Unused /\ row <= NumRows /\ ~ c.in_flight
    BY Zenon DEF SendFullBatch
  <2>3. row \in Rows
    BY <2>1, <2>2, StreamAssumption DEF SenderRec, Rows
  <2>4. Outstanding(handlers, s, r, sender[s], c) = <<>>
    BY <2>1, <2>2, NothingOut, Zenon
  <2>5. CASE c.ok
    <3> DEFINE p == [sender[s] EXCEPT !.row = row]
               d == [Offered(c, Own) EXCEPT !.thrift = c.batch, !.batch = <<row>>]
    <3>1. /\ channel' = [channel EXCEPT ![s][r] = d] /\ sender' = [sender EXCEPT ![s] = p]
          /\ sent' = [sent EXCEPT ![s][r] = Append(g, row)]
      BY <2>5, Zenon DEF SendFullBatch
    <3>2. /\ d.pc = c.pc /\ d.kind = c.kind /\ d.rows = c.rows /\ d.eos = c.eos /\ d.ok = c.ok
          /\ d.batch = <<row>> /\ d.item = Own /\ d.thrift = c.batch
      BY <2>1, Zenon DEF Offered, ChannelRec
    <3>3. p.buffers = sender[s].buffers
      BY <2>1, Zenon DEF SenderRec
    <3> HIDE DEF d, p, row
    <3>4. Outstanding(handlers, s, r, sender[s], d) = c.batch
      BY <3>2, <1>OfferOut
    <3> HIDE DEF q, c, g, got
    <3>5. ASSUME Pipe(q, s, g, got, c.ok, <<>>, c.batch)
          PROVE  Pipe(q, s, Append(g, row), got, c.ok, c.batch, <<row>>)
      BY <2>1, <2>3, <3>5, <1>PipeFull, Zenon
    <3>6. Pipe(q, s, g, got, c.ok, Outstanding(handlers, s, r, sender[s], c), c.batch)
          => Pipe(q, s, Append(g, row), got, d.ok, Outstanding(handlers, s, r, sender[s], d), d.batch)
      BY <2>4, <3>2, <3>4, <3>5, Zenon
    <3> QED BY <2>2, <3>1, <3>2, <3>3, <3>6, <1>ChannelPrompt, Zenon DEF c, q, g, got
  <2>6. CASE ~ c.ok
    <3> DEFINE d == [c EXCEPT !.thrift = c.batch, !.batch = <<>>]
    <3>1. /\ channel' = [channel EXCEPT ![s][r] = d] /\ UNCHANGED sent
          /\ sender' = [sender EXCEPT ![s] = Fails(sender[s])]
      BY <2>6, ZenonT(60) DEF SendFullBatch
    <3>2. /\ d.pc = c.pc /\ d.kind = c.kind /\ d.rows = c.rows /\ d.eos = c.eos /\ ~ d.ok
      BY <2>1, <2>6, Zenon DEF ChannelRec
    <3>3. Fails(sender[s]).buffers = sender[s].buffers
      BY <2>1, FailsRec, Zenon
    <3>4. sent' = [sent EXCEPT ![s][r] = g]
      <4>1. sent \in [Senders -> [Receivers -> Seq(Rows)]]
        BY Zenon DEF Inv, TypeInv
      <4> QED BY ONLY <3>1, <4>1, Zenon
    <3> HIDE DEF q, d, g, got
    <3>5. Pipe(q, s, g, got, c.ok, Outstanding(handlers, s, r, sender[s], c), c.batch)
          => Pipe(q, s, g, got, d.ok, Outstanding(handlers, s, r, sender[s], d), d.batch)
      BY <3>2, <1>PipeFails
    <3> QED BY <2>2, <3>1, <3>2, <3>3, <3>4, <3>5, <1>ChannelPrompt, Zenon DEF q, g, got
  <2> QED BY <2>5, <2>6, Zenon
\* The last rows of batch_ are on their way.
<1>CloseFlushPrompt.
  ASSUME SetsOfSenders, Inv, Inv', Prompt, NEW s \in Senders, CloseFlush(s)
  PROVE  Prompt'
  <2> USE <1>CloseFlushPrompt
  <2> DEFINE r == sender[s].chan
             c == channel[s][r]
             q == recvr[r].queue
             g == sent[s][r]
             got == received[s][r]
  <2>1. r \in Receivers
    BY SideOf, Zenon
  <2>2. /\ q \in Seq(Entry) /\ g \in Seq(Rows) /\ got \in Seq(Rows)
        /\ sender[s] \in SenderRec /\ c \in ChannelRec /\ ChannelOK(sender[s], r, c)
        /\ c.batch \in Seq(Rows) /\ c.ok \in BOOLEAN
    BY <2>1, PipeTypes, Zenon
  <2>3. UNCHANGED Unused /\ UNCHANGED sent
    BY Zenon DEF CloseFlush
  <2>4. sent' = [sent EXCEPT ![s][r] = g]
    BY <2>3, Zenon DEF Inv, TypeInv
  <2>5. PICK pc : sender' = [sender EXCEPT ![s] = [sender[s] EXCEPT !.pc = pc]]
    BY Zenon DEF CloseFlush
  <2> DEFINE p == [sender[s] EXCEPT !.pc = pc]
  <2>6. p.buffers = sender[s].buffers /\ sender' = [sender EXCEPT ![s] = p]
    BY <2>2, <2>5, Zenon DEF SenderRec
  <2> HIDE DEF p
  <2>7. CASE UNCHANGED channel
    <3>1. \A i \in Receivers : Offer(p, channel[s][i]) = Offer(sender[s], channel[s][i])
      BY <2>6, <1>SameOffer, Zenon
    <3> QED BY <2>3, <2>6, <2>7, <3>1, <1>ThreadPrompt, Zenon
  <2>8. CASE /\ ~ c.in_flight
             /\ channel' = [channel EXCEPT ![s][r] =
                              [Offered(c, Own) EXCEPT !.thrift = c.batch, !.batch = <<>>]]
    <3> DEFINE d == [Offered(c, Own) EXCEPT !.thrift = c.batch, !.batch = <<>>]
    <3>1. /\ d.pc = c.pc /\ d.kind = c.kind /\ d.rows = c.rows /\ d.eos = c.eos /\ d.ok = c.ok
          /\ d.batch = <<>> /\ d.item = Own /\ d.thrift = c.batch
      BY <2>2, Zenon DEF Offered, ChannelRec
    <3>2. channel' = [channel EXCEPT ![s][r] = d]
      BY <2>8, Zenon
    <3> HIDE DEF d
    <3>3. Outstanding(handlers, s, r, sender[s], d) = c.batch
      BY <3>1, <1>OfferOut
    <3>4. Outstanding(handlers, s, r, sender[s], c) = <<>>
      BY <2>2, <2>8, NothingOut, Zenon
    <3> HIDE DEF q, c, g, got, r
    <3>5. ASSUME Pipe(q, s, g, got, c.ok, <<>>, c.batch)
          PROVE  Pipe(q, s, g, got, c.ok, c.batch, <<>>)
      BY <2>2, <3>5, <1>PipeShift, Zenon
    <3>6. Pipe(q, s, g, got, c.ok, Outstanding(handlers, s, r, sender[s], c), c.batch)
          => Pipe(q, s, g, got, d.ok, Outstanding(handlers, s, r, sender[s], d), d.batch)
      BY <3>1, <3>3, <3>4, <3>5, Zenon
    <3> QED BY <2>1, <2>3, <2>4, <2>6, <3>1, <3>2, <3>6, <1>ChannelPrompt, ZenonT(60) DEF c, q, g, got
  <2>9. CASE /\ ~ c.ok
             /\ channel' = [channel EXCEPT ![s][r].thrift = c.batch, ![s][r].batch = <<>>]
    <3> DEFINE d == [c EXCEPT !.thrift = c.batch, !.batch = <<>>]
    <3>1. d.pc = c.pc /\ d.kind = c.kind /\ d.rows = c.rows /\ d.eos = c.eos /\ ~ d.ok
      BY <2>2, <2>9, Zenon DEF ChannelRec
    <3>2. channel' = [channel EXCEPT ![s][r] = d]
      BY <2>9, Zenon
    <3> HIDE DEF q, d, g, got, r
    <3>3. Pipe(q, s, g, got, c.ok, Outstanding(handlers, s, r, sender[s], c), c.batch)
          => Pipe(q, s, g, got, d.ok, Outstanding(handlers, s, r, sender[s], d), d.batch)
      BY <3>1, <1>PipeFails
    <3> QED BY <2>1, <2>3, <2>4, <2>6, <3>1, <3>2, <3>3, <1>ChannelPrompt, Zenon DEF q, g, got
  <2> QED BY <2>7, <2>8, <2>9, Zenon DEF CloseFlush
\* A call of s to r begins, ends or is lost.
<1>CallPrompt.
  ASSUME SetsOfSenders, Inv, Inv', Prompt, UNCHANGED <<recvr, sent, received>>, NEW s \in Senders,
         NEW r \in Receivers,
         \A i \in Senders : sender'[i].buffers = sender[i].buffers,
         NEW c, channel' = [channel EXCEPT ![s][r] = c],
         \A h : (h.s = s /\ h.r = r) \/ (h \in handlers' <=> h \in handlers),
         \A h \in handlers' : h.s = s /\ h.r = r => Serves(h, c),
         \A g, h \in handlers' : g.s = s /\ g.r = r /\ h.s = s /\ h.r = r => g = h,
         Counted(handlers, s, r, channel[s][r]) => Counted(handlers', s, r, c),
         channel[s][r].eos # "no" => c.eos # "no",
         c.batch = channel[s][r].batch,
         \/ ~ c.ok
         \/ /\ c.ok = channel[s][r].ok
            /\ Outstanding(handlers', s, r, sender[s], c)
               = Outstanding(handlers, s, r, sender[s], channel[s][r])
  PROVE  Prompt'
  <2> USE <1>CallPrompt
  <2>1. channel \in [Senders -> [Receivers -> ChannelRec]]
    BY Zenon DEF Inv, TypeInv
  <2>2. ASSUME NEW i \in Senders, NEW j \in Receivers
        PROVE  channel'[i][j] = IF i = s /\ j = r THEN c ELSE channel[i][j]
    BY <2>1, Zenon
  <2>3. \A h \in handlers' : h.s \in Senders /\ h.r \in Receivers
    BY Zenon DEF Inv, TypeInv, HandlerRec
  <2>4. HandlerInv'
    <3>1. ASSUME NEW h \in handlers' PROVE Serves(h, channel'[h.s][h.r])
      <4>1. CASE h.s = s /\ h.r = r
        BY <2>2, <2>3, <4>1, Zenon
      <4>2. CASE ~ (h.s = s /\ h.r = r)
        <5>0. h.s \in Senders /\ h.r \in Receivers
          BY <2>3, Zenon
        <5>1. h \in handlers
          BY <1>CallPrompt, <4>2, Zenon
        <5>2. channel'[h.s][h.r] = channel[h.s][h.r]
          BY <2>2, <4>2, <5>0
        <5> QED BY <5>1, <5>2, Zenon DEF Prompt, HandlerInv, HandlersOK
      <4> QED BY <4>1, <4>2, Zenon
    <3>2. ASSUME NEW g \in handlers', NEW h \in handlers', g.s = h.s, g.r = h.r PROVE g = h
      <4>1. CASE h.s = s /\ h.r = r
        BY <3>2, <4>1, Zenon
      <4>2. CASE ~ (h.s = s /\ h.r = r)
        <5>1. g \in handlers /\ h \in handlers
          BY <3>2, <4>2, Zenon
        <5> QED BY <3>2, <5>1, Zenon DEF Prompt, HandlerInv, HandlersOK
      <4> QED BY <4>1, <4>2, Zenon
    <3> QED BY <3>1, <3>2, Zenon DEF HandlerInv, HandlersOK
  <2>5. ASSUME NEW i \in Senders, NEW j \in Receivers, ~ (i = s /\ j = r)
        PROVE  Served(handlers', i, j) <=> Served(handlers, i, j)
    BY <2>5, Zenon DEF Served
  <2>6. CountInv'
    <3>1. ASSUME NEW i \in Senders, NEW j \in Receivers, Counted(handlers, i, j, channel[i][j])
          PROVE  Counted(handlers', i, j, channel'[i][j])
      <4>1. CASE i = s /\ j = r
        BY <2>2, <3>1, <4>1
      <4>2. CASE ~ (i = s /\ j = r)
        <5>1. channel'[i][j] = channel[i][j] /\ (Served(handlers', i, j) <=> Served(handlers, i, j))
          BY <2>2, <2>5, <4>2
        <5> QED BY <3>1, <5>1, Zenon DEF Counted
      <4> QED BY <4>1, <4>2, Zenon
    <3> QED BY <3>1, <1>CountKept, Zenon DEF Prompt
  <2>7. EndInv'
    <3>1. ASSUME NEW i \in Senders, NEW j \in Receivers, channel[i][j].eos # "no"
          PROVE  channel'[i][j].eos # "no"
      <4>1. CASE i = s /\ j = r
        BY <2>2, <3>1, <4>1, ZenonT(60)
      <4>2. CASE ~ (i = s /\ j = r)
        BY <2>2, <3>1, <4>2
      <4> QED BY <4>1, <4>2, Zenon
    <3> QED BY <3>1, Zenon DEF Prompt, EndInv
  <2>8. QueueInv'
    BY Zenon DEF Prompt, QueueInv
  <2>9. PipeInv'
    <3>1. ASSUME NEW i \in Senders, NEW j \in Receivers, ~ recvr'[j].cancelled
          PROVE  Pipe(recvr'[j].queue, i, sent'[i][j], received'[i][j], channel'[i][j].ok,
                      Outstanding(handlers', i, j, sender'[i], channel'[i][j]), channel'[i][j].batch)
      <4> DEFINE q == recvr[j].queue
                 g == sent[i][j]
                 got == received[i][j]
                 out == Outstanding(handlers, i, j, sender[i], channel[i][j])
      <4>1. Pipe(q, i, g, got, channel[i][j].ok, out, channel[i][j].batch)
        BY <3>1, Zenon DEF Prompt, PipeInv
      <4>2. Offer(sender'[i], channel'[i][j]) = Offer(sender[i], channel'[i][j])
        BY <1>SameOffer
      <4>3. Outstanding(handlers', i, j, sender'[i], channel'[i][j])
            = Outstanding(handlers', i, j, sender[i], channel'[i][j])
        BY <4>2, <1>SameOutstanding
      <4>4. CASE i = s /\ j = r
        <5>1. channel'[i][j] = c
          BY <2>2, <4>4
        <5>2. CASE ~ c.ok
          <6> HIDE DEF q, g, got, out
          <6>1. Pipe(q, i, g, got, c.ok, Outstanding(handlers', i, j, sender'[i], c), c.batch)
            BY <4>1, <5>2, <1>PipeFails
          <6> QED BY <5>1, <6>1, Zenon DEF q, g, got
        <5>3. CASE /\ c.ok = channel[s][r].ok
                   /\ Outstanding(handlers', s, r, sender[s], c)
                      = Outstanding(handlers, s, r, sender[s], channel[s][r])
          <6>1. /\ channel'[i][j].ok = channel[i][j].ok /\ channel'[i][j].batch = channel[i][j].batch
                /\ Outstanding(handlers', i, j, sender'[i], channel'[i][j]) = out
            BY <4>3, <4>4, <5>1, <5>3, Zenon
          <6> HIDE DEF out
          <6> QED BY <4>1, <6>1, Zenon
        <5> QED BY <5>2, <5>3, Zenon
      <4>5. CASE ~ (i = s /\ j = r)
        <5>1. channel'[i][j] = channel[i][j]
          BY <2>2, <4>5
        <5>2. Outstanding(handlers', i, j, sender'[i], channel'[i][j]) = out
          BY <2>5, <4>2, <4>5, <5>1, <1>SameOutstanding
        <5> HIDE DEF out
        <5> QED BY <4>1, <5>1, <5>2, Zenon
      <4> QED BY <4>4, <4>5, Zenon
    <3> QED BY <3>1, Zenon DEF PipeInv
  <2> QED BY <2>4, <2>6, <2>7, <2>8, <2>9 DEF Prompt
\* A channel that is not in a call has no handler.
<1>NoHandler.
  ASSUME Prompt, NEW s, NEW r, channel[s][r].pc \notin {"call", "retry"}, NEW h \in handlers
  PROVE  ~ (h.s = s /\ h.r = r)
  BY <1>NoHandler, Zenon DEF Prompt, HandlerInv, HandlersOK, Serves
\* The call of a channel in none begins.
<1>CallBegins.
  ASSUME SetsOfSenders, Inv, Inv', Prompt, UNCHANGED <<recvr, sent, received>>, NEW s \in Senders,
         NEW r \in Receivers,
         \A i \in Senders : sender'[i].buffers = sender[i].buffers,
         NEW c, channel' = [channel EXCEPT ![s][r] = c],
         NEW kind \in {"data", "eos"}, NEW rows, NEW n,
         handlers' = handlers \cup {Call(s, r, kind, rows, n)},
         channel[s][r].pc \notin {"call", "retry"}, channel[s][r].eos # "ok",
         c.pc \in {"call", "retry"}, c.kind = kind, c.rows = rows, c.item = NoItem,
         channel[s][r].eos # "no" => c.eos # "no",
         c.batch = channel[s][r].batch, c.ok = channel[s][r].ok,
         Outstanding(handlers, s, r, sender[s], channel[s][r]) = IF kind = "data" THEN rows ELSE <<>>
  PROVE  Prompt'
  <2> USE <1>CallBegins
  <2> DEFINE x == Call(s, r, kind, rows, n)
  <2>1. x.s = s /\ x.r = r /\ x.kind = kind /\ x.rows = rows /\ x.pc = "find" /\ ~ x.orphan
    BY Zenon DEF Call
  <2> HIDE DEF x
  <2>2. handlers' = handlers \cup {x}
    BY Zenon DEF x
  <2>3. \A h \in handlers : ~ (h.s = s /\ h.r = r)
    BY <1>NoHandler, Zenon
  <2>4. \A h : (h.s = s /\ h.r = r) \/ (h \in handlers' <=> h \in handlers)
    BY <2>1, <2>2, Zenon
  <2>5. \A h \in handlers' : h.s = s /\ h.r = r => h = x
    BY <2>2, <2>3, Zenon
  <2>6. Serves(x, c)
    BY <2>1, Zenon DEF Serves
  <2>7. ~ Served(handlers, s, r) /\ ~ Served(handlers', s, r)
    BY <2>1, <2>3, <2>5, Zenon DEF Served
  <2>8. ~ Counted(handlers, s, r, channel[s][r])
    BY <2>7, Zenon DEF Counted
  <2>9. Outstanding(handlers', s, r, sender[s], c)
        = Outstanding(handlers, s, r, sender[s], channel[s][r])
    BY <2>7, Zenon DEF Outstanding
  <2>10. \A h \in handlers' : h.s = s /\ h.r = r => Serves(h, c)
    BY <2>5, <2>6, Zenon
  <2>11. \A g, h \in handlers' : g.s = s /\ g.r = r /\ h.s = s /\ h.r = r => g = h
    BY <2>5, Zenon
  <2>12. Counted(handlers, s, r, channel[s][r]) => Counted(handlers', s, r, c)
    BY <2>8, Zenon
  <2>13. \/ ~ c.ok
         \/ /\ c.ok = channel[s][r].ok
            /\ Outstanding(handlers', s, r, sender[s], c)
               = Outstanding(handlers, s, r, sender[s], channel[s][r])
    BY <2>9, Zenon
  <2>14. /\ Inv /\ Inv' /\ Prompt /\ UNCHANGED <<recvr, sent, received>>
         /\ s \in Senders /\ r \in Receivers
         /\ \A i \in Senders : sender'[i].buffers = sender[i].buffers
         /\ channel' = [channel EXCEPT ![s][r] = c] /\ c.batch = channel[s][r].batch
         /\ channel[s][r].eos # "no" => c.eos # "no"
    BY Zenon
  <2> QED BY ONLY SetsOfSenders, <2>4, <2>10, <2>11, <2>12, <2>13, <2>14, <1>CallPrompt, Zenon
\* A channel is, or is now, without a handler.
<1>CallEnds.
  ASSUME SetsOfSenders, Inv, Inv', Prompt, UNCHANGED <<recvr, sent, received>>, NEW s \in Senders,
         NEW r \in Receivers,
         \A i \in Senders : sender'[i].buffers = sender[i].buffers,
         NEW c, channel' = [channel EXCEPT ![s][r] = c],
         \A h : (h.s = s /\ h.r = r) \/ (h \in handlers' <=> h \in handlers),
         \A h \in handlers' : ~ (h.s = s /\ h.r = r),
         ~ Counted(handlers, s, r, channel[s][r]) \/ c.eos = "ok",
         channel[s][r].eos # "no" => c.eos # "no",
         c.batch = channel[s][r].batch,
         \/ ~ c.ok
         \/ /\ c.ok = channel[s][r].ok
            /\ Outstanding(handlers', s, r, sender[s], c)
               = Outstanding(handlers, s, r, sender[s], channel[s][r])
  PROVE  Prompt'
  <2> USE <1>CallEnds
  <2>1. Counted(handlers, s, r, channel[s][r]) => Counted(handlers', s, r, c)
    BY Zenon DEF Counted
  <2>2. \A h \in handlers' : h.s = s /\ h.r = r => Serves(h, c)
    BY Zenon
  <2>3. \A g, h \in handlers' : g.s = s /\ g.r = r /\ h.s = s /\ h.r = r => g = h
    BY Zenon
  <2> QED BY <2>1, <2>2, <2>3, <1>CallPrompt, Zenon
\* A call that begins carries the rows that were offered.
<1>TransmitDataPrompt.
  ASSUME SetsOfSenders, Inv, Inv', Prompt, NEW s \in Senders, NEW r \in Receivers,
         TransmitData(s, r)
  PROVE  Prompt'
  <2> USE <1>TransmitDataPrompt
  <2> DEFINE c == channel[s][r]
  <2>1. c \in ChannelRec /\ ChannelOK(sender[s], r, c)
    BY PipeTypes, Zenon
  <2>2. c.item # NoItem /\ c.pc = "idle" /\ UNCHANGED <<sender, recvr, sent, received>>
    BY Zenon DEF TransmitData
  <2>3. c.eos = "no"
    BY <2>1, <2>2, Zenon DEF ChannelOK
  <2>4. Outstanding(handlers, s, r, sender[s], c) = Contents(s, c)
    BY <2>2, Zenon DEF Outstanding, Contents, Offer
  <2>5. CASE /\ handlers' = handlers \cup {Call(s, r, "data", Contents(s, c), 1)}
             /\ channel' = [channel EXCEPT ![s][r] =
                              InCall([c EXCEPT !.item = NoItem], "call", "data", Contents(s, c))]
    <3> DEFINE d == InCall([c EXCEPT !.item = NoItem], "call", "data", Contents(s, c))
    <3>1. /\ d.pc = "call" /\ d.kind = "data" /\ d.rows = Contents(s, c) /\ d.item = NoItem
          /\ d.eos = c.eos /\ d.batch = c.batch /\ d.ok = c.ok
      BY <2>1, Zenon DEF InCall, ChannelRec
    <3>2. channel' = [channel EXCEPT ![s][r] = d]
      BY <2>5, Zenon
    <3>3. c.pc \notin {"call", "retry"} /\ c.eos # "ok" /\ d.pc \in {"call", "retry"}
          /\ "data" \in {"data", "eos"}
      BY <2>2, <2>3, <3>1, Zenon
    <3> HIDE DEF d
    <3>4. Outstanding(handlers, s, r, sender[s], c) = IF "data" = "data" THEN Contents(s, c) ELSE <<>>
      BY <2>4
    <3>5. \A i \in Senders : sender'[i].buffers = sender[i].buffers
      BY <2>2, Zenon
    <3>6. c.eos # "no" => d.eos # "no"
      BY <3>1, Zenon
    <3> QED BY <2>2, <2>5, <3>1, <3>2, <3>3, <3>4, <3>5, <3>6, <1>CallBegins, Zenon
  <2>6. CASE /\ channel' = [channel EXCEPT ![s][r] =
                              [[c EXCEPT !.item = NoItem] EXCEPT !.ok = FALSE, !.in_flight = FALSE]]
             /\ UNCHANGED handlers
    <3> DEFINE d == [[c EXCEPT !.item = NoItem] EXCEPT !.ok = FALSE, !.in_flight = FALSE]
    <3>1. ~ d.ok /\ d.eos = c.eos /\ d.batch = c.batch
      BY <2>1, Zenon DEF ChannelRec
    <3>2. channel' = [channel EXCEPT ![s][r] = d]
      BY <2>6, Zenon
    <3> HIDE DEF d
    <3>3. \A h \in handlers' : ~ (h.s = s /\ h.r = r)
      BY <2>2, <2>6, <1>NoHandler, Zenon
    <3>4. ~ Counted(handlers, s, r, c)
      BY <2>3, Zenon DEF Counted
    <3>5. \A h : (h.s = s /\ h.r = r) \/ (h \in handlers' <=> h \in handlers)
      BY <2>6, Zenon
    <3> QED BY <2>2, <3>1, <3>2, <3>3, <3>4, <3>5, <1>CallEnds, Zenon
  <2> QED BY <2>5, <2>6, Zenon DEF TransmitData
\* A thread that only goes on keeps its buffers.
<1>BuffersKept.
  ASSUME Inv, NEW s \in Senders, NEW pc, sender' = [sender EXCEPT ![s].pc = pc] \/ UNCHANGED sender
  PROVE  \A i \in Senders : sender'[i].buffers = sender[i].buffers
  <2> USE <1>BuffersKept
  <2>1. sender \in [Senders -> SenderRec]
    BY Zenon DEF Inv, TypeInv
  <2>2. ASSUME NEW i \in Senders PROVE sender'[i].buffers = sender[i].buffers
    <3>1. sender[i] \in SenderRec
      BY <2>1, Zenon
    <3>2. sender'[i] = sender[i] \/ sender'[i] = [sender[i] EXCEPT !.pc = pc]
      BY <2>1, Zenon
    <3> QED BY <3>1, <3>2, Zenon DEF SenderRec
  <2> QED BY <2>2, Zenon
\* The end-of-stream call begins when nothing is on its way.
<1>CloseStatusPrompt.
  ASSUME SetsOfSenders, Inv, Inv', Prompt, NEW s \in Senders, CloseStatus(s)
  PROVE  Prompt'
  <2> USE <1>CloseStatusPrompt
  <2> DEFINE r == sender[s].chan
             c == channel[s][r]
  <2>1. r \in Receivers /\ SideOK(sender[s], channel[s])
    BY SideOf, Zenon
  <2>2. c \in ChannelRec /\ ChannelOK(sender[s], r, c)
    BY <2>1, PipeTypes, Zenon
  <2>3. sender[s].pc = "status" /\ ~ c.in_flight /\ UNCHANGED <<recvr, sent, received>>
    BY Zenon DEF CloseStatus
  <2>4. r >= r
    BY <2>1 DEF Receivers
  <2>5. c.eos = "no"
    BY <2>1, <2>3, <2>4, Zenon DEF SideOK, SenderOK
  <2>6. c.pc = "idle" /\ c.item = NoItem
    BY <2>2, <2>3, <2>5, Zenon DEF ChannelOK, ChannelRec
  <2>7. Outstanding(handlers, s, r, sender[s], c) = <<>>
    BY <2>2, <2>3, NothingOut, Zenon
  <2>8. PICK pc : sender' = [sender EXCEPT ![s].pc = pc]
    BY Zenon DEF CloseStatus
  <2>9. \A i \in Senders : sender'[i].buffers = sender[i].buffers
    BY <2>8, <1>BuffersKept, Zenon
  <2>10. \A h \in handlers : ~ (h.s = s /\ h.r = r)
    BY <2>6, <1>NoHandler, Zenon
  <2>11. ~ Counted(handlers, s, r, c)
    BY <2>5, Zenon DEF Counted
  <2>12. CASE /\ handlers' = handlers \cup {Call(s, r, "eos", <<>>, 1)}
              /\ channel' = [channel EXCEPT ![s][r] =
                               [InCall(c, "call", "eos", <<>>) EXCEPT !.eos = "sent"]]
    <3> DEFINE d == [InCall(c, "call", "eos", <<>>) EXCEPT !.eos = "sent"]
    <3>1. /\ d.pc = "call" /\ d.kind = "eos" /\ d.rows = <<>> /\ d.item = NoItem
          /\ d.eos = "sent" /\ d.batch = c.batch /\ d.ok = c.ok
      BY <2>2, <2>6, Zenon DEF InCall, ChannelRec
    <3>2. channel' = [channel EXCEPT ![s][r] = d]
      BY <2>12, Zenon
    <3> HIDE DEF d
    <3>3. c.pc \notin {"call", "retry"} /\ c.eos # "ok" /\ d.pc \in {"call", "retry"}
          /\ "eos" \in {"data", "eos"} /\ (c.eos # "no" => d.eos # "no")
      BY <2>5, <2>6, <3>1, Zenon
    <3>4. Outstanding(handlers, s, r, sender[s], c) = IF "eos" = "data" THEN <<>> ELSE <<>>
      BY <2>7, Zenon
    <3> QED BY <2>1, <2>3, <2>9, <2>12, <3>1, <3>2, <3>3, <3>4, <1>CallBegins, Zenon
  <2>13. CASE channel' = [channel EXCEPT ![s][r].eos = "failed"] /\ UNCHANGED handlers
    <3> DEFINE d == [c EXCEPT !.eos = "failed"]
    <3>1. /\ d.pc = c.pc /\ d.kind = c.kind /\ d.rows = c.rows /\ d.item = NoItem
          /\ d.eos = "failed" /\ d.batch = c.batch /\ d.ok = c.ok
      BY <2>2, <2>6, Zenon DEF ChannelRec
    <3>2. channel' = [channel EXCEPT ![s][r] = d]
      BY <2>13, Zenon
    <3> HIDE DEF d
    <3>3. Outstanding(handlers', s, r, sender[s], d) = <<>>
      BY <2>6, <3>1, Zenon DEF Outstanding
    <3>4. /\ \A h : (h.s = s /\ h.r = r) \/ (h \in handlers' <=> h \in handlers)
          /\ \A h \in handlers' : ~ (h.s = s /\ h.r = r)
          /\ c.eos # "no" => d.eos # "no"
      BY <2>5, <2>10, <2>13, Zenon
    <3> QED BY <2>1, <2>3, <2>7, <2>9, <2>11, <3>1, <3>2, <3>3, <3>4, <1>CallEnds, Zenon
  <2>14. CASE UNCHANGED <<channel, handlers>>
    <3>1. channel' = [channel EXCEPT ![s][r] = c]
      BY <2>14, Zenon DEF Inv, TypeInv
    <3>2. /\ \A h : (h.s = s /\ h.r = r) \/ (h \in handlers' <=> h \in handlers)
          /\ \A h \in handlers' : ~ (h.s = s /\ h.r = r)
          /\ Outstanding(handlers', s, r, sender[s], c) = Outstanding(handlers, s, r, sender[s], c)
      BY <2>10, <2>14, Zenon
    <3> QED BY <2>1, <2>3, <2>9, <2>11, <3>1, <3>2, <1>CallEnds, ZenonT(60)
  <2> QED BY <2>12, <2>13, <2>14, Zenon DEF CloseStatus
\* A call ends, on the rpc thread or on the sender's, and its handler is gone.
<1>EndCallPrompt.
  ASSUME SetsOfSenders, Inv, Inv', Prompt, UNCHANGED <<recvr, sent, received>>, NEW s \in Senders,
         NEW r \in Receivers,
         NEW ok \in BOOLEAN, EndCall(s, r, ok), channel[s][r].pc # "idle",
         \A h : (h.s = s /\ h.r = r) \/ (h \in handlers' <=> h \in handlers),
         \A h \in handlers' : ~ (h.s = s /\ h.r = r),
         ok <=> Served(handlers, s, r)
  PROVE  Prompt'
  <2> USE <1>EndCallPrompt
  <2> DEFINE c == channel[s][r]
  <2>1. c \in ChannelRec /\ ChannelOK(sender[s], r, c)
    BY PipeTypes, Zenon
  <2>2. c.item = NoItem
    BY <2>1, Zenon DEF ChannelOK
  <2>3. \A i \in Senders : sender'[i].buffers = sender[i].buffers
    BY <1>BuffersKept, Zenon DEF EndCall
  <2>4. CASE c.kind = "data"
    <3> DEFINE d == [c EXCEPT !.pc = "idle", !.in_flight = FALSE, !.ok = ok]
    <3>1. channel' = [channel EXCEPT ![s][r] = d]
      BY <2>4, Zenon DEF EndCall
    <3>2. /\ d.pc = "idle" /\ d.item = NoItem /\ d.eos = c.eos /\ d.batch = c.batch /\ d.ok = ok
      BY <2>1, <2>2, Zenon DEF ChannelRec
    <3> HIDE DEF d
    <3>3. c.in_flight /\ c.ok /\ c.eos = "no"
      BY <2>1, <2>4, Zenon DEF ChannelOK
    <3>4. ~ Counted(handlers, s, r, c)
      BY <3>3, Zenon DEF Counted
    <3>5. \/ ~ d.ok
          \/ /\ d.ok = c.ok
             /\ Outstanding(handlers', s, r, sender[s], d) = Outstanding(handlers, s, r, sender[s], c)
      <4>1. CASE ~ ok
        BY <3>2, <4>1, Zenon
      <4>2. CASE ok
        <5>1. Outstanding(handlers', s, r, sender[s], d) = <<>>
          BY <3>2, Zenon DEF Outstanding
        <5>2. Outstanding(handlers, s, r, sender[s], c) = <<>>
          BY <2>2, <4>2, Zenon DEF Outstanding
        <5>3. d.ok = c.ok
          BY <2>1, <3>2, <3>3, <4>2, Zenon DEF ChannelRec
        <5> QED BY <5>1, <5>2, <5>3, Zenon
      <4> QED BY <4>1, <4>2, Zenon
    <3>6. d.batch = c.batch /\ (c.eos # "no" => d.eos # "no")
      BY <3>2, Zenon
    <3> QED BY <2>3, <3>1, <3>4, <3>5, <3>6, <1>CallEnds, Zenon
  <2>5. CASE c.kind = "eos"
    <3> DEFINE eos == IF ok THEN "ok" ELSE "failed"
               d == [c EXCEPT !.pc = "idle", !.eos = eos]
    <3>1. channel' = [channel EXCEPT ![s][r] = d]
      BY <2>5, Zenon DEF EndCall
    <3>2. d.pc = "idle" /\ d.item = NoItem /\ d.eos = eos /\ d.batch = c.batch /\ d.ok = c.ok
      BY <2>1, <2>2, Zenon DEF ChannelRec
    <3> HIDE DEF d
    <3>3. c.eos = "sent"
      BY <2>1, <2>5, Zenon DEF ChannelOK
    <3>4. ~ Counted(handlers, s, r, c) \/ d.eos = "ok"
      BY <3>2, <3>3, Zenon DEF Counted
    <3>5. c.eos # "no" => d.eos # "no"
      BY <3>2, Zenon
    <3>6. Outstanding(handlers', s, r, sender[s], d) = Outstanding(handlers, s, r, sender[s], c)
      BY <2>2, <2>5, <3>2, Zenon DEF Outstanding
    <3>7. d.batch = c.batch /\ d.ok = c.ok
      BY <3>2, Zenon
    <3> HIDE DEF eos
    <3> QED BY <2>3, <3>1, <3>4, <3>5, <3>6, <3>7, <1>CallEnds, Zenon
  <2> QED BY <2>1, <2>4, <2>5, Zenon DEF ChannelRec
\* A call that returns was served.
<1>CallReturnsPrompt.
  ASSUME SetsOfSenders, Inv, Inv', Prompt, NEW s \in Senders, NEW r \in Receivers,
         CallReturns(s, r)
  PROVE  Prompt'
  <2> USE <1>CallReturnsPrompt
  <2>1. /\ channel[s][r].pc # "idle" /\ EndCall(s, r, TRUE)
        /\ UNCHANGED <<recvr, sent, received>>
    BY Zenon DEF CallReturns
  <2>2. PICK h \in handlers : h.s = s /\ h.r = r /\ h.pc = "done" /\ handlers' = handlers \ {h}
    BY Zenon DEF CallReturns, ServedBy
  <2>3. /\ Served(handlers, s, r)
        /\ \A g \in handlers : g.s = s /\ g.r = r => g = h
    BY <2>2, OneHandler, Zenon
  <2>4. /\ \A g : (g.s = s /\ g.r = r) \/ (g \in handlers' <=> g \in handlers)
        /\ \A g \in handlers' : ~ (g.s = s /\ g.r = r)
    BY <2>2, <2>3, Zenon
  <2>5. TRUE \in BOOLEAN /\ (TRUE <=> Served(handlers, s, r))
    BY <2>3, Zenon
  <2> QED BY <2>1, <2>4, <2>5, <1>EndCallPrompt, Zenon
\* A call that was lost on its way was not.
<1>CallThrowsPrompt.
  ASSUME SetsOfSenders, Inv, Inv', Prompt, ~ faults'.late, NEW s \in Senders, NEW r \in Receivers,
         CallThrows(s, r)
  PROVE  Prompt'
  <2> USE <1>CallThrowsPrompt
  <2> DEFINE c == channel[s][r]
  <2>1. PICK h \in handlers : h.s = s /\ h.r = r /\ Lost(h)
    BY Zenon DEF CallThrows, ServedBy
  <2>2. h.pc = "find" /\ handlers' = handlers \ {h}
    BY <2>1, LostTyped, Zenon
  <2>3. /\ c.pc \in {"call", "retry"} /\ UNCHANGED <<recvr, sent, received>>
    BY Zenon DEF CallThrows
  <2>4. /\ ~ Served(handlers, s, r)
        /\ \A g \in handlers : g.s = s /\ g.r = r => g = h
    BY <2>1, <2>2, OneHandler, Zenon
  <2>5. /\ \A g : (g.s = s /\ g.r = r) \/ (g \in handlers' <=> g \in handlers)
        /\ \A g \in handlers' : ~ (g.s = s /\ g.r = r)
    BY <2>1, <2>2, <2>4, Zenon
  <2>6. CASE channel' = [channel EXCEPT ![s][r].pc = "reopen"] /\ UNCHANGED sender
    <3> DEFINE d == [c EXCEPT !.pc = "reopen"]
    <3>1. channel' = [channel EXCEPT ![s][r] = d]
      BY <2>6, Zenon
    <3>2. c \in ChannelRec /\ ChannelOK(sender[s], r, c)
      BY PipeTypes, Zenon
    <3>3. /\ d.pc = "reopen" /\ d.kind = c.kind /\ d.rows = c.rows /\ d.item = c.item
          /\ d.eos = c.eos /\ d.batch = c.batch /\ d.ok = c.ok
      BY <3>2, Zenon DEF ChannelRec
    <3> HIDE DEF d
    <3>4. c.item = NoItem /\ c.pc # "idle" /\ c.eos # "ok"
      BY <2>3, <3>2, Zenon DEF ChannelOK, ChannelRec
    <3>5. ~ Served(handlers', s, r)
      BY <2>5, Zenon DEF Served
    <3>6. ~ Counted(handlers, s, r, c)
      BY <2>4, <3>4, Zenon DEF Counted
    <3>7. Outstanding(handlers', s, r, sender[s], d) = Outstanding(handlers, s, r, sender[s], c)
      BY <2>4, <3>3, <3>4, <3>5, Zenon DEF Outstanding
    <3>8. \A i \in Senders : sender'[i].buffers = sender[i].buffers
      BY <2>6, Zenon
    <3>9. c.eos # "no" => d.eos # "no"
      BY <3>3, Zenon
    <3> QED BY <2>3, <2>5, <3>1, <3>3, <3>6, <3>7, <3>8, <3>9, <1>CallEnds, Zenon
  <2>7. CASE EndCall(s, r, FALSE)
    <3>1. c.pc # "idle" /\ FALSE \in BOOLEAN /\ (FALSE <=> Served(handlers, s, r))
      BY <2>3, <2>4, Zenon
    <3> QED BY <2>3, <2>5, <2>7, <3>1, <1>EndCallPrompt, Zenon
  <2> QED BY <2>6, <2>7, Zenon DEF CallThrows
\* The retry of a lost call carries the same rows.
<1>RetryPrompt.
  ASSUME SetsOfSenders, Inv, Inv', Prompt, NEW s \in Senders, NEW r \in Receivers, Retry(s, r)
  PROVE  Prompt'
  <2> USE <1>RetryPrompt
  <2> DEFINE c == channel[s][r]
  <2>1. c \in ChannelRec /\ ChannelOK(sender[s], r, c)
    BY PipeTypes, Zenon
  <2>2. c.pc = "reopen" /\ UNCHANGED <<recvr, sent, received>>
    BY Zenon DEF Retry
  <2>3. \A h \in handlers : ~ (h.s = s /\ h.r = r)
    BY <2>2, <1>NoHandler, Zenon
  <2>4. ~ Served(handlers, s, r)
    BY <2>3, Zenon DEF Served
  <2>5. CASE /\ handlers' = handlers \cup {Call(s, r, c.kind, c.rows, 2)}
             /\ channel' = [channel EXCEPT ![s][r] = InCall(c, "retry", c.kind, c.rows)]
             /\ UNCHANGED sender
    <3> DEFINE d == InCall(c, "retry", c.kind, c.rows)
    <3>1. /\ d.pc = "retry" /\ d.kind = c.kind /\ d.rows = c.rows /\ d.item = c.item
          /\ d.eos = c.eos /\ d.batch = c.batch /\ d.ok = c.ok
      BY <2>1, Zenon DEF InCall, ChannelRec
    <3>2. channel' = [channel EXCEPT ![s][r] = d]
      BY <2>5, Zenon
    <3> HIDE DEF d
    <3>3. c.item = NoItem /\ c.eos # "ok" /\ c.kind \in {"data", "eos"}
      BY <2>1, <2>2, Zenon DEF ChannelOK, ChannelRec
    <3>4. c.pc \notin {"call", "retry"} /\ d.pc \in {"call", "retry"} /\ (c.eos # "no" => d.eos # "no")
          /\ d.item = NoItem
      BY <2>2, <3>1, <3>3, Zenon
    <3>5. Outstanding(handlers, s, r, sender[s], c) = IF c.kind = "data" THEN c.rows ELSE <<>>
      BY <2>2, <2>4, <3>3, Zenon DEF Outstanding
    <3>6. \A i \in Senders : sender'[i].buffers = sender[i].buffers
      BY <2>5, Zenon
    <3> DEFINE kind == c.kind
               rows == c.rows
    <3>7. /\ kind \in {"data", "eos"} /\ d.kind = kind /\ d.rows = rows
          /\ handlers' = handlers \cup {Call(s, r, kind, rows, 2)}
          /\ Outstanding(handlers, s, r, sender[s], c) = IF kind = "data" THEN rows ELSE <<>>
      BY <2>5, <3>1, <3>3, <3>5, Zenon
    <3>8. /\ d.pc \in {"call", "retry"} /\ d.item = NoItem /\ c.eos # "ok" /\ d.batch = c.batch
          /\ c.pc \notin {"call", "retry"} /\ (c.eos # "no" => d.eos # "no") /\ d.ok = c.ok
      BY <3>1, <3>3, <3>4, Zenon
    <3>9. Inv /\ Inv' /\ Prompt /\ s \in Senders /\ r \in Receivers
      BY Zenon
    <3> HIDE DEF kind, rows
    <3> QED BY ONLY SetsOfSenders, <2>2, <3>2, <3>6, <3>7, <3>8, <3>9, <1>CallBegins, Zenon
  <2>6. CASE EndCall(s, r, FALSE) /\ UNCHANGED handlers
    <3>1. c.pc # "idle" /\ FALSE \in BOOLEAN /\ (FALSE <=> Served(handlers, s, r))
      BY <2>2, <2>4, Zenon
    <3>2. /\ \A g : (g.s = s /\ g.r = r) \/ (g \in handlers' <=> g \in handlers)
          /\ \A g \in handlers' : ~ (g.s = s /\ g.r = r)
      BY <2>3, <2>6, Zenon
    <3> QED BY <2>2, <2>6, <3>1, <3>2, <1>EndCallPrompt, ZenonT(60)
  <2> QED BY <2>5, <2>6, Zenon DEF Retry
\* A step of the receiving side: r has the control block q now.
<1>RecvPrompt.
  ASSUME Inv, Inv', Prompt, UNCHANGED <<sender, channel, sent>>,
         HandlersOK(handlers', channel), CountInv',
         NEW r \in Receivers, NEW q, recvr' = [recvr EXCEPT ![r] = q],
         \A i \in Senders, j \in Receivers :
             j # r => /\ Served(handlers', i, j) <=> Served(handlers, i, j)
                      /\ received'[i][j] = received[i][j],
         q.outcome = "eos" => \A i \in Senders : channel[i][r].eos # "no",
         \A k \in 1 .. Len(q.queue) : q.queue[k].rows # <<>>,
         ~ q.cancelled =>
             \A i \in Senders :
                 Pipe(q.queue, i, sent[i][r], received'[i][r], channel[i][r].ok,
                      Outstanding(handlers', i, r, sender[i], channel[i][r]), channel[i][r].batch)
  PROVE  Prompt'
  <2> USE <1>RecvPrompt
  <2>1. ASSUME NEW j \in Receivers PROVE recvr'[j] = IF j = r THEN q ELSE recvr[j]
    BY Zenon DEF Inv, TypeInv
  <2>2. HandlerInv'
    BY Zenon DEF HandlerInv
  <2>3. EndInv'
    <3>1. ASSUME NEW j \in Receivers, recvr'[j].outcome = "eos", NEW i \in Senders
          PROVE  channel[i][j].eos # "no"
      BY <2>1, <3>1 DEF Prompt, EndInv
    <3> QED BY <3>1, Zenon DEF EndInv
  <2>4. QueueInv'
    <3>1. ASSUME NEW j \in Receivers, NEW k \in 1 .. Len(recvr'[j].queue)
          PROVE  recvr'[j].queue[k].rows # <<>>
      <4>1. CASE j = r
        BY <2>1, <4>1, Zenon
      <4>2. CASE j # r
        <5>1. recvr'[j] = recvr[j]
          BY <2>1, <4>2, Zenon
        <5> QED BY <5>1, ZenonT(60) DEF Prompt, QueueInv
      <4> QED BY <4>1, <4>2, Zenon
    <3> QED BY <3>1, Zenon DEF QueueInv
  <2>5. PipeInv'
    <3>1. ASSUME NEW i \in Senders, NEW j \in Receivers, ~ recvr'[j].cancelled
          PROVE  Pipe(recvr'[j].queue, i, sent[i][j], received'[i][j], channel[i][j].ok,
                      Outstanding(handlers', i, j, sender[i], channel[i][j]), channel[i][j].batch)
      <4>1. CASE j = r
        BY <2>1, <3>1, <4>1, Zenon
      <4>2. CASE j # r
        <5>1. recvr'[j] = recvr[j] /\ received'[i][j] = received[i][j]
          BY <2>1, <4>2, Zenon
        <5>a. Served(handlers', i, j) <=> Served(handlers, i, j)
          BY <4>2, Zenon
        <5>2. Outstanding(handlers', i, j, sender[i], channel[i][j])
              = Outstanding(handlers, i, j, sender[i], channel[i][j])
          BY ONLY <5>a, Zenon DEF Outstanding
        <5>3. Pipe(recvr[j].queue, i, sent[i][j], received[i][j], channel[i][j].ok,
                   Outstanding(handlers, i, j, sender[i], channel[i][j]), channel[i][j].batch)
          BY <3>1, <5>1, Zenon DEF Prompt, PipeInv
        <5> QED BY <5>1, <5>2, <5>3, Zenon
      <4> QED BY <4>1, <4>2, Zenon
    <3> QED BY <3>1, Zenon DEF PipeInv
  <2> QED BY <2>2, <2>3, <2>4, <2>5, Zenon DEF Prompt
\* ... with the same batches, which only a receiver that is cancelled may be served
\* without.
<1>QuietPrompt.
  ASSUME SetsOfSenders, Inv, Inv', Prompt, UNCHANGED <<sender, channel, sent, received>>,
         HandlersOK(handlers', channel),
         NEW r \in Receivers, NEW q, recvr' = [recvr EXCEPT ![r] = q],
         q.queue = recvr[r].queue, q.remaining = recvr[r].remaining,
         q.outcome = "eos" => recvr[r].outcome = "eos", recvr[r].cancelled => q.cancelled,
         \A i \in Senders, j \in Receivers : Served(handlers, i, j) => Served(handlers', i, j),
         \A i \in Senders, j \in Receivers :
             j # r \/ ~ q.cancelled => (Served(handlers', i, j) => Served(handlers, i, j))
  PROVE  Prompt'
  <2> USE <1>QuietPrompt
  <2>1. \A j \in Receivers : recvr'[j].remaining = recvr[j].remaining
    BY Zenon DEF Inv, TypeInv
  <2>2. CountInv'
    <3>1. ASSUME NEW i \in Senders, NEW j \in Receivers, Counted(handlers, i, j, channel[i][j])
          PROVE  Counted(handlers', i, j, channel'[i][j])
      BY <3>1, Zenon DEF Counted
    <3> QED BY <2>1, <3>1, <1>CountKept, Zenon DEF Prompt
  <2>3. q.outcome = "eos" => \A i \in Senders : channel[i][r].eos # "no"
    BY Zenon DEF Prompt, EndInv
  <2>4. \A k \in 1 .. Len(q.queue) : q.queue[k].rows # <<>>
    BY Zenon DEF Prompt, QueueInv
  <2>5. ASSUME NEW i \in Senders, ~ q.cancelled
        PROVE  Pipe(q.queue, i, sent[i][r], received'[i][r], channel[i][r].ok,
                    Outstanding(handlers', i, r, sender[i], channel[i][r]), channel[i][r].batch)
    <3>1. Pipe(recvr[r].queue, i, sent[i][r], received[i][r], channel[i][r].ok,
               Outstanding(handlers, i, r, sender[i], channel[i][r]), channel[i][r].batch)
      BY <2>5, Zenon DEF Prompt, PipeInv
    <3>a. Served(handlers', i, r) <=> Served(handlers, i, r)
      BY <2>5, Zenon
    <3>2. Outstanding(handlers', i, r, sender[i], channel[i][r])
          = Outstanding(handlers, i, r, sender[i], channel[i][r])
      BY ONLY <3>a, Zenon DEF Outstanding
    <3> QED BY <3>1, <3>2, Zenon
  <2>6. \A i \in Senders, j \in Receivers :
            j # r => /\ Served(handlers', i, j) <=> Served(handlers, i, j)
                     /\ received'[i][j] = received[i][j]
    BY Zenon
  <2> QED BY <2>2, <2>3, <2>4, <2>5, <2>6, <1>RecvPrompt, Zenon
\* A handler is replaced by one that serves the same call.
<1>ReplaceOne.
  ASSUME NEW hs, NEW chan, HandlersOK(hs, chan), NEW h \in hs, NEW g, g.s = h.s, g.r = h.r,
         Serves(g, chan[h.s][h.r]), NEW hs2, hs2 = (hs \ {h}) \cup {g}
  PROVE  /\ HandlersOK(hs2, chan)
         /\ Served(hs2, h.s, h.r) <=> g.pc = "done"
         /\ \A s, r : ~ (s = h.s /\ r = h.r) => (Served(hs2, s, r) <=> Served(hs, s, r))
  <2> USE <1>ReplaceOne
  <2>1. \A x \in hs : Serves(x, chan[x.s][x.r])
    BY Zenon DEF HandlersOK
  <2>2. \A x, y \in hs : x.s = y.s /\ x.r = y.r => x = y
    BY Zenon DEF HandlersOK
  <2>3. \A x \in hs2 : Serves(x, chan[x.s][x.r])
    BY <2>1, Zenon
  <2>4. ASSUME NEW x \in hs2, NEW y \in hs2, x.s = y.s, x.r = y.r PROVE x = y
    <3>1. \A z \in hs \ {h} : ~ (z.s = g.s /\ z.r = g.r)
      BY <2>2, Zenon
    <3>2. CASE x = g \/ y = g
      BY <2>4, <3>1, <3>2, Zenon
    <3>3. CASE x \in hs /\ y \in hs
      BY <2>2, <2>4, <3>3, Zenon
    <3> QED BY <3>2, <3>3, Zenon
  <2>5. Served(hs2, h.s, h.r) <=> g.pc = "done"
    BY <2>2, Zenon DEF Served
  <2>6. ASSUME NEW s, NEW r, ~ (s = h.s /\ r = h.r) PROVE Served(hs2, s, r) <=> Served(hs, s, r)
    BY <2>6, Zenon DEF Served
  <2> QED BY <2>3, <2>4, <2>5, <2>6, ZenonT(60) DEF HandlersOK
\* A handler goes on.
<1>MovedOne.
  ASSUME NEW hs, NEW chan, HandlersOK(hs, chan), NEW h \in hs, h \in HandlerRec, h.pc # "done",
         NEW pc, IF h.kind = "data" THEN pc \in {"find", "add", "wait", "woken", "done"}
                 ELSE pc \in {"find", "dec", "done"}
  PROVE  LET hs2 == Moved(hs, h, pc)
         IN  /\ HandlersOK(hs2, chan)
             /\ Served(hs2, h.s, h.r) <=> pc = "done"
             /\ ~ Served(hs, h.s, h.r)
             /\ \A s, r : ~ (s = h.s /\ r = h.r) => (Served(hs2, s, r) <=> Served(hs, s, r))
  <2> USE <1>MovedOne
  <2> DEFINE g == [h EXCEPT !.pc = pc, !.timer = FALSE]
             hs2 == Moved(hs, h, pc)
  <2>1. Serves(h, chan[h.s][h.r])
    BY Zenon DEF HandlersOK
  <2>2. hs2 = (hs \ {h}) \cup {g}
    BY <2>1, Zenon DEF Moved, Serves
  <2>3. /\ g.s = h.s /\ g.r = h.r /\ g.kind = h.kind /\ g.rows = h.rows /\ g.orphan = h.orphan
        /\ g.pc = pc
    BY Zenon DEF HandlerRec
  <2> HIDE DEF g, hs2
  <2>4. Serves(g, chan[h.s][h.r])
    BY <2>1, <2>3, Zenon DEF Serves
  <2>5. ~ Served(hs, h.s, h.r)
    BY Zenon DEF HandlersOK, Served
  <2>6. /\ HandlersOK(hs2, chan)
        /\ Served(hs2, h.s, h.r) <=> g.pc = "done"
        /\ \A s, r : ~ (s = h.s /\ r = h.r) => (Served(hs2, s, r) <=> Served(hs, s, r))
    BY <2>2, <2>3, <2>4, <1>ReplaceOne, SMTT(40)
  <2> QED BY <2>3, <2>5, <2>6 DEF hs2
\* A handler that waits is woken.
<1>WakeOne.
  ASSUME NEW hs \in SUBSET HandlerRec, NEW chan, HandlersOK(hs, chan), NEW r, NEW hs2 \in Woken(hs, r)
  PROVE  /\ HandlersOK(hs2, chan)
         /\ \A i, j : Served(hs2, i, j) <=> Served(hs, i, j)
         /\ \A h \in hs : h.pc # "wait" => h \in hs2
  <2> USE <1>WakeOne
  <2>1. CASE Waiters(hs, r) = {}
    BY <2>1, Zenon DEF Woken
  <2>2. CASE Waiters(hs, r) # {}
    <3>1. PICK h \in Waiters(hs, r) : hs2 = (hs \ {h}) \cup {[h EXCEPT !.pc = "woken"]}
      BY <2>2, Zenon DEF Woken
    <3> DEFINE g == [h EXCEPT !.pc = "woken"]
    <3>2. h \in hs /\ h \in HandlerRec /\ h.pc = "wait"
      BY Zenon DEF Waiters
    <3>3. /\ g.s = h.s /\ g.r = h.r /\ g.kind = h.kind /\ g.rows = h.rows /\ g.orphan = h.orphan
          /\ g.pc = "woken"
      BY <3>2, Zenon DEF HandlerRec
    <3> HIDE DEF g
    <3>4. Serves(h, chan[h.s][h.r]) /\ ~ Served(hs, h.s, h.r)
      BY <3>2, Zenon DEF HandlersOK, Served
    <3>5. Serves(g, chan[h.s][h.r])
      BY <3>2, <3>3, <3>4, Zenon DEF Serves
    <3>6. hs2 = (hs \ {h}) \cup {g}
      BY <3>1, Zenon DEF g
    <3>7. /\ HandlersOK(hs2, chan)
          /\ Served(hs2, h.s, h.r) <=> g.pc = "done"
          /\ \A i, j : ~ (i = h.s /\ j = h.r) => (Served(hs2, i, j) <=> Served(hs, i, j))
      BY <3>2, <3>3, <3>5, <3>6, <1>ReplaceOne
    <3>8. \A i, j : Served(hs2, i, j) <=> Served(hs, i, j)
      BY <3>3, <3>4, <3>7, Zenon
    <3> QED BY <3>2, <3>6, <3>7, <3>8, Zenon
  <2> QED BY <2>1, <2>2, Zenon
\* A handler that looks up its control block keeps Prompt.
<1>FindPrompt.
  ASSUME SetsOfSenders, Inv, Inv', Prompt, NEW h \in handlers, FindControlBlock(h)
  PROVE  Prompt'
  <2> USE <1>FindPrompt
  <2> DEFINE q == recvr[h.r]
             pc == IF ~ q.registered THEN "done" ELSE IF h.kind = "eos" THEN "dec" ELSE "add"
  <2>1. h \in HandlerRec
    BY Zenon DEF Inv, TypeInv
  <2>2. h.r \in Receivers /\ h.kind \in {"data", "eos"}
    BY <2>1, Zenon DEF HandlerRec
  <2>3. recvr \in [Receivers -> RecvrRec] /\ RecvrOK(q, mgr[h.r])
    BY <2>2, RecvrOf, Zenon DEF Inv, TypeInv
  <2>4. /\ UNCHANGED <<sender, channel, sent, received, recvr>> /\ handlers' = Moved(handlers, h, pc)
        /\ h.pc # "done"
    BY Zenon DEF FindControlBlock
  <2>5. IF h.kind = "data" THEN pc \in {"find", "add", "wait", "woken", "done"}
        ELSE pc \in {"find", "dec", "done"}
    BY <2>2, Zenon
  <2>6. pc = "done" => q.cancelled
    BY <2>2, <2>3, Zenon DEF RecvrOK
  <2> HIDE DEF pc
  <2>7. HandlersOK(handlers, channel)
    BY Zenon DEF Prompt, HandlerInv
  <2>8. /\ HandlersOK(handlers', channel)
        /\ Served(handlers', h.s, h.r) <=> pc = "done"
        /\ ~ Served(handlers, h.s, h.r)
        /\ \A s, r : ~ (s = h.s /\ r = h.r) => (Served(handlers', s, r) <=> Served(handlers, s, r))
    BY <2>1, <2>4, <2>5, <2>7, <1>MovedOne, Zenon
  <2>9. recvr' = [recvr EXCEPT ![h.r] = q]
    BY <2>3, <2>4
  <2>10. \A i \in Senders, j \in Receivers : Served(handlers, i, j) => Served(handlers', i, j)
    BY <2>8, Zenon
  <2>11. \A i \in Senders, j \in Receivers :
            j # h.r \/ ~ q.cancelled => (Served(handlers', i, j) => Served(handlers, i, j))
    BY <2>6, <2>8, Zenon
  <2> QED BY <2>2, <2>4, <2>8, <2>9, <2>10, <2>11, <1>QuietPrompt, Zenon
\* So does one that wakes by itself.
<1>SpuriousPrompt.
  ASSUME SetsOfSenders, Inv, Inv', Prompt, NEW h \in handlers, AddSpurious(h)
  PROVE  Prompt'
  <2> USE <1>SpuriousPrompt
  <2>1. h \in HandlerRec /\ handlers \in SUBSET HandlerRec /\ recvr \in [Receivers -> RecvrRec]
    BY Zenon DEF Inv, TypeInv
  <2>2. h.r \in Receivers
    BY <2>1, Zenon DEF HandlerRec
  <2>3. UNCHANGED <<sender, channel, sent, received, recvr>>
    BY Zenon DEF AddSpurious
  <2>4. h \in Waiters(handlers, h.r)
    BY Zenon DEF AddSpurious, Waiters
  <2>5. handlers' \in Woken(handlers, h.r)
    BY <2>4, Zenon DEF AddSpurious, Woken
  <2>6. HandlersOK(handlers, channel)
    BY Zenon DEF Prompt, HandlerInv
  <2>7. /\ HandlersOK(handlers', channel)
        /\ \A i, j : Served(handlers', i, j) <=> Served(handlers, i, j)
    BY <2>1, <2>5, <2>6, <1>WakeOne
  <2>8. recvr' = [recvr EXCEPT ![h.r] = recvr[h.r]]
    BY <2>1, <2>3, Zenon
  <2> QED BY <2>2, <2>3, <2>7, <2>8, <1>QuietPrompt, Zenon
\* AddBatch moves the rows of its call from the way to the end of the queue.
<1>AddPrompt.
  ASSUME SetsOfSenders, Inv, Inv', Prompt, NEW h \in handlers, AddBatch(h)
  PROVE  Prompt'
  <2> USE <1>AddPrompt
  <2> DEFINE q == recvr[h.r]
             freed == [q EXCEPT !.timer = q.timer /\ ~ h.timer]
             c == channel[h.s][h.r]
             e == [s |-> h.s, rows |-> h.rows]
  <2>0. h.pc \in {"add", "woken"} /\ UNCHANGED <<sender, channel, sent, received>>
    BY Zenon DEF AddBatch
  <2>1. /\ h \in HandlerRec /\ h.s \in Senders /\ h.r \in Receivers
        /\ h.kind = "data" /\ h.rows = c.rows /\ h.rows # <<>> /\ h.rows \in Seq(Rows)
        /\ c.pc # "idle" /\ c.kind = "data" /\ c.item = NoItem /\ c.ok /\ c.ok = TRUE
        /\ ~ Served(handlers, h.s, h.r)
    BY <2>0, AddingData, Zenon
  <2>2. q \in RecvrRec /\ handlers \in SUBSET HandlerRec
    BY <2>1, RecvrOf, Zenon
  <2>3. /\ freed.cancelled = q.cancelled /\ freed.queue = q.queue /\ freed.outcome = q.outcome
        /\ freed.remaining = q.remaining
    BY <2>2, Zenon DEF RecvrRec
  <2>4. PICK hs \in (IF h.timer THEN Woken(handlers, h.r) ELSE {handlers}) :
             \/ /\ q.cancelled
                /\ recvr' = [recvr EXCEPT ![h.r] = freed]
                /\ handlers' = Moved(hs, h, "done")
             \/ /\ ~ q.cancelled
                /\ recvr' = [recvr EXCEPT ![h.r].timer = TRUE]
                /\ handlers' = (hs \ {h}) \cup
                               {[h EXCEPT !.pc = "wait", !.timer = ~ freed.timer]}
             \/ /\ ~ q.cancelled
                /\ recvr' = [recvr EXCEPT ![h.r] =
                               Arrival([freed EXCEPT
                                   !.queue = Append(freed.queue, e),
                                   !.buffered = freed.buffered + Size(h.rows)])]
                /\ handlers' = Moved(hs, h, "done")
    BY Zenon DEF AddBatch
  <2>5. HandlersOK(handlers, channel)
    BY Zenon DEF Prompt, HandlerInv
  <2>6. /\ HandlersOK(hs, channel) /\ h \in hs
        /\ \A i, j : Served(hs, i, j) <=> Served(handlers, i, j)
    <3>1. CASE h.timer
      <4>1. hs \in Woken(handlers, h.r) /\ h.pc # "wait"
        BY <2>0, <2>4, <3>1
      <4> QED BY <2>2, <2>5, <4>1, <1>WakeOne, Zenon
    <3>2. CASE ~ h.timer
      BY <2>4, <2>5, <3>2, Zenon
    <3> QED BY <3>1, <3>2, Zenon
  <2>7. ASSUME handlers' = Moved(hs, h, "done")
        PROVE  /\ HandlersOK(handlers', channel)
               /\ Served(handlers', h.s, h.r)
               /\ \A i, j : ~ (i = h.s /\ j = h.r) => (Served(handlers', i, j) <=> Served(handlers, i, j))
    <3>1. /\ h.pc # "done"
          /\ IF h.kind = "data" THEN "done" \in {"find", "add", "wait", "woken", "done"}
             ELSE "done" \in {"find", "dec", "done"}
      BY <2>0, <2>1, Zenon
    <3>2. /\ HandlersOK(handlers', channel)
          /\ Served(handlers', h.s, h.r) <=> "done" = "done"
          /\ \A i, j : ~ (i = h.s /\ j = h.r) => (Served(handlers', i, j) <=> Served(hs, i, j))
      BY <2>1, <2>6, <2>7, <3>1, <1>MovedOne
    <3> QED BY <2>6, <3>2, Zenon
  <2>8. CASE /\ q.cancelled
             /\ recvr' = [recvr EXCEPT ![h.r] = freed]
             /\ handlers' = Moved(hs, h, "done")
    <3> HIDE DEF freed
    <3>1. /\ \A i \in Senders, j \in Receivers : Served(handlers, i, j) => Served(handlers', i, j)
          /\ \A i \in Senders, j \in Receivers :
                j # h.r \/ ~ freed.cancelled => (Served(handlers', i, j) => Served(handlers, i, j))
          /\ freed.outcome = "eos" => q.outcome = "eos"
          /\ q.cancelled => freed.cancelled
      BY <2>3, <2>7, <2>8, Zenon
    <3>2. HandlersOK(handlers', channel)
      BY <2>7, <2>8, Zenon
    <3> QED BY <2>0, <2>1, <2>3, <2>8, <3>1, <3>2, <1>QuietPrompt, Zenon
  <2>9. CASE /\ ~ q.cancelled
             /\ recvr' = [recvr EXCEPT ![h.r].timer = TRUE]
             /\ handlers' = (hs \ {h}) \cup
                            {[h EXCEPT !.pc = "wait", !.timer = ~ freed.timer]}
    <3> DEFINE n == [q EXCEPT !.timer = TRUE]
               g == [h EXCEPT !.pc = "wait", !.timer = ~ freed.timer]
    <3>1. recvr' = [recvr EXCEPT ![h.r] = n] /\ handlers' = (hs \ {h}) \cup {g}
      BY <2>9, Zenon
    <3>2. /\ n.cancelled = q.cancelled /\ n.queue = q.queue /\ n.outcome = q.outcome
          /\ n.remaining = q.remaining
      BY <2>2, Zenon DEF RecvrRec
    <3>3. /\ g.s = h.s /\ g.r = h.r /\ g.kind = h.kind /\ g.rows = h.rows /\ g.orphan = h.orphan
          /\ g.pc = "wait"
      BY <2>1, Zenon DEF HandlerRec
    <3> HIDE DEF n, g, freed
    <3>4. Serves(h, c)
      BY <2>6, ZenonT(60) DEF HandlersOK
    <3>5. Serves(g, c)
      BY <2>1, <3>3, <3>4 DEF Serves
    <3>6. /\ HandlersOK(handlers', channel)
          /\ Served(handlers', h.s, h.r) <=> g.pc = "done"
          /\ \A i, j : ~ (i = h.s /\ j = h.r) => (Served(handlers', i, j) <=> Served(hs, i, j))
      <4>1. /\ g.s = h.s /\ g.r = h.r /\ HandlersOK(hs, channel) /\ h \in hs
            /\ Serves(g, channel[h.s][h.r]) /\ handlers' = (hs \ {h}) \cup {g}
        BY <2>6, <3>1, <3>3, <3>5, SMTT(40)
      <4>2. ASSUME NEW hs2, hs2 = (hs \ {h}) \cup {g}
            PROVE  /\ HandlersOK(hs2, channel)
                   /\ Served(hs2, h.s, h.r) <=> g.pc = "done"
                   /\ \A i, j : ~ (i = h.s /\ j = h.r) => (Served(hs2, i, j) <=> Served(hs, i, j))
        BY ONLY <4>1, <4>2, <1>ReplaceOne
      <4> QED BY <4>1, <4>2, Zenon
    <3>7. \A i, j : Served(handlers', i, j) <=> Served(handlers, i, j)
      BY <2>1, <2>6, <3>3, <3>6, Zenon
    <3> QED BY <2>0, <2>1, <3>1, <3>2, <3>6, <3>7, <1>QuietPrompt, Zenon
  <2>10. CASE /\ ~ q.cancelled
              /\ recvr' = [recvr EXCEPT ![h.r] =
                             Arrival([freed EXCEPT
                                 !.queue = Append(freed.queue, e),
                                 !.buffered = freed.buffered + Size(h.rows)])]
              /\ handlers' = Moved(hs, h, "done")
    <3> DEFINE n == Arrival([freed EXCEPT !.queue = Append(freed.queue, e),
                                          !.buffered = freed.buffered + Size(h.rows)])
    <3>1. recvr' = [recvr EXCEPT ![h.r] = n]
      BY <2>10, Zenon
    <3>2. /\ n.queue = Append(q.queue, e) /\ n.outcome = q.outcome /\ n.remaining = q.remaining
      BY <2>2, <2>3, Zenon DEF RecvrRec, Arrival
    <3>3. e \in Entry /\ e.s = h.s /\ e.rows = h.rows
      BY <2>1, Zenon DEF Entry
    <3>4. q.queue \in Seq(Entry)
      BY <2>2, Zenon DEF RecvrRec
    <3> HIDE DEF n, freed
    <3>5. /\ HandlersOK(handlers', channel)
          /\ Served(handlers', h.s, h.r)
          /\ \A i, j : ~ (i = h.s /\ j = h.r) => (Served(handlers', i, j) <=> Served(handlers, i, j))
      BY <2>7, <2>10, Zenon
    <3>6. CountInv'
      <4>1. \A j \in Receivers : recvr'[j].remaining = recvr[j].remaining
        BY <3>1, <3>2, Zenon DEF Inv, TypeInv
      <4>2. ASSUME NEW i \in Senders, NEW j \in Receivers, Counted(handlers, i, j, channel[i][j])
            PROVE  Counted(handlers', i, j, channel'[i][j])
        BY <2>0, <3>5, <4>2, SMTT(40) DEF Counted
      <4> QED BY <4>1, <4>2, <1>CountKept, Zenon DEF Prompt
    <3>7. n.outcome = "eos" => \A i \in Senders : channel[i][h.r].eos # "no"
      BY <2>1, <3>2, Zenon DEF Prompt, EndInv
    <3>8. \A k \in 1 .. Len(n.queue) : n.queue[k].rows # <<>>
      <4>1. \A k \in 1 .. Len(q.queue) : q.queue[k].rows # <<>>
        BY <2>1, Zenon DEF Prompt, QueueInv
      <4> HIDE DEF e, q
      <4>2. \A k \in 1 .. Len(n.queue) : n.queue[k] = e \/ (k \in 1 .. Len(q.queue) /\ n.queue[k] = q.queue[k])
        BY <3>2, <3>3, <3>4
      <4> QED BY <2>1, <3>3, <4>1, <4>2
    <3>9. ASSUME NEW i \in Senders
          PROVE  Pipe(n.queue, i, sent[i][h.r], received'[i][h.r], channel[i][h.r].ok,
                      Outstanding(handlers', i, h.r, sender[i], channel[i][h.r]), channel[i][h.r].batch)
      <4> DEFINE d == channel[i][h.r]
                 g == sent[i][h.r]
                 got == received[i][h.r]
                 out == Outstanding(handlers, i, h.r, sender[i], d)
      <4>1. Pipe(q.queue, i, g, got, d.ok, out, d.batch)
        BY <2>1, <2>10, Zenon DEF Prompt, PipeInv
      <4>2. g \in Seq(Rows) /\ got \in Seq(Rows) /\ d.batch \in Seq(Rows)
        BY <2>1, PipeTypes, Zenon
      <4>3. CASE i = h.s
        <5>1. out = h.rows
          BY <2>1, <4>3, ZenonT(60) DEF Outstanding
        <5>2. Outstanding(handlers', i, h.r, sender[i], d) = <<>>
          BY <2>1, <3>5, <4>3 DEF Outstanding
        <5>3. d.ok = TRUE /\ e = [s |-> i, rows |-> h.rows]
          BY <2>1, <4>3, Zenon
        <5> HIDE DEF g, got, out, q, e
        <5>4. Pipe(q.queue, i, g, got, TRUE, h.rows, d.batch)
          BY <4>1, <5>1, <5>3, Zenon
        <5> HIDE DEF d
        <5>5. Pipe(Append(q.queue, [s |-> i, rows |-> h.rows]), i, g, got, TRUE, <<>>, d.batch)
          BY <2>1, <3>4, <4>2, <5>4, <1>PipeAdd, Zenon
        <5>6. Pipe(n.queue, i, g, got, d.ok, Outstanding(handlers', i, h.r, sender[i], d), d.batch)
          BY <3>2, <5>2, <5>3, <5>5, ZenonT(60)
        <5> QED BY <2>0, <5>6, Zenon DEF g, got, d
      <4>4. CASE i # h.s
        <5>1. Outstanding(handlers', i, h.r, sender[i], d) = out
          BY ONLY <3>5, <4>4, <1>SameOutstanding
        <5>2. e.s # i
          BY <3>3, <4>4, Zenon
        <5> HIDE DEF g, got, out, q, e, d
        <5>3. Pipe(Append(q.queue, e), i, g, got, d.ok, out, d.batch)
          BY <3>3, <3>4, <4>1, <4>2, <5>2, <1>PipeOther, Zenon
        <5>4. Pipe(n.queue, i, g, got, d.ok, Outstanding(handlers', i, h.r, sender[i], d), d.batch)
          BY <3>2, <5>1, <5>3, Zenon
        <5> QED BY <2>0, <5>4, Zenon DEF g, got, d
      <4> QED BY <4>3, <4>4, Zenon
    <3>10. \A i \in Senders, j \in Receivers :
              j # h.r => /\ Served(handlers', i, j) <=> Served(handlers, i, j)
                         /\ received'[i][j] = received[i][j]
      BY <2>0, <3>5, Zenon
    <3> QED BY <2>0, <2>1, <3>1, <3>5, <3>6, <3>7, <3>8, <3>9, <3>10, <1>RecvPrompt, ZenonT(60)
  <2> QED BY <2>4, <2>8, <2>9, <2>10, Zenon
\* CloseSender counts an end-of-stream that was not counted.
<1>DecrementPrompt.
  ASSUME SetsOfSenders, Inv, Inv', Prompt, NEW h \in handlers, DecrementSenders(h)
  PROVE  Prompt'
  <2> USE <1>DecrementPrompt
  <2> DEFINE q == recvr[h.r]
             c == channel[h.s][h.r]
             left == IF q.remaining > 0 THEN q.remaining - 1 ELSE 0
             after == [q EXCEPT !.remaining = left]
             n == IF left = 0 THEN Arrival(after) ELSE after
  <2>1. h \in HandlerRec
    BY Zenon DEF Inv, TypeInv
  <2>2. h.s \in Senders /\ h.r \in Receivers
    BY <2>1, Zenon DEF HandlerRec
  <2>3. q \in RecvrRec /\ c \in ChannelRec /\ ChannelOK(sender[h.s], h.r, c)
    BY <2>2, RecvrOf, PipeTypes, Zenon
  <2>4. /\ UNCHANGED <<sender, channel, sent, received>> /\ handlers' = Moved(handlers, h, "done")
        /\ h.pc = "dec" /\ recvr' = [recvr EXCEPT ![h.r] = n]
    BY Zenon DEF DecrementSenders
  <2>a. q.remaining \in Nat
    BY ONLY <2>3, Zenon DEF RecvrRec
  <2>5. left \in Nat /\ (q.remaining > 0 => left = q.remaining - 1) /\ q.remaining \in Nat
    BY ONLY <2>a
  <2> HIDE DEF left
  <2>6. /\ n.cancelled = q.cancelled /\ n.queue = q.queue /\ n.outcome = q.outcome
        /\ n.remaining = left
    BY <2>3, <2>5, Zenon DEF RecvrRec, Arrival
  <2> HIDE DEF n
  <2>7. Serves(h, c) /\ ~ Served(handlers, h.s, h.r)
    BY <2>4, OneHandler, Zenon
  <2>8. h.kind = "eos" /\ c.kind = "eos" /\ c.pc # "idle"
    BY <2>1, <2>4, <2>7, Zenon DEF Serves, HandlerRec
  <2>9. c.eos = "sent" /\ c.item = NoItem
    BY <2>3, <2>8, Zenon DEF ChannelOK
  <2>10. /\ HandlersOK(handlers', channel)
         /\ Served(handlers', h.s, h.r)
         /\ \A i, j : ~ (i = h.s /\ j = h.r) => (Served(handlers', i, j) <=> Served(handlers, i, j))
    <3>1. /\ h.pc # "done" /\ HandlersOK(handlers, channel)
          /\ IF h.kind = "data" THEN "done" \in {"find", "add", "wait", "woken", "done"}
             ELSE "done" \in {"find", "dec", "done"}
      BY <2>4, <2>8, Zenon DEF Prompt, HandlerInv
    <3>2. /\ HandlersOK(handlers', channel)
          /\ Served(handlers', h.s, h.r) <=> "done" = "done"
          /\ \A i, j : ~ (i = h.s /\ j = h.r) => (Served(handlers', i, j) <=> Served(handlers, i, j))
      BY <2>1, <2>4, <3>1, <1>MovedOne
    <3> QED BY <3>2, Zenon
  <2>11. ASSUME NEW i \in Senders, NEW j \in Receivers, Counted(handlers, i, j, channel[i][j])
         PROVE  Counted(handlers', i, j, channel[i][j])
    BY <2>10, <2>11, Zenon DEF Counted
  <2>12. CountInv'
    <3>1. ASSUME NEW j \in Receivers
          PROVE  recvr'[j].remaining >= Cardinality(Uncounted(handlers', channel, j))
      <4> DEFINE U == Uncounted(handlers, channel, j)
                 V == Uncounted(handlers', channel, j)
      <4>1. recvr[j].remaining >= Cardinality(U)
        BY Zenon DEF Prompt, CountInv
      <4>2. Cardinality(U) \in Nat /\ Cardinality(V) \in Nat /\ Cardinality(V) <= Cardinality(U)
        BY <2>11, <1>UncountedFewer, Zenon
      <4>3. CASE j # h.r
        <5>1. recvr'[j] = recvr[j] /\ recvr[j].remaining \in Nat
          BY <2>4, <4>3, Zenon DEF Inv, TypeInv, RecvrRec
        <5> HIDE DEF U, V
        <5> QED BY <4>1, <4>2, <5>1 DEF V
      <4>4. CASE j = h.r
        <5>1. h.s \in U /\ h.s \notin V
          BY <2>2, <2>7, <2>9, <2>10, <4>4, SMTT(40) DEF Uncounted, Counted
        <5>2. V \subseteq U \ {h.s}
          BY <2>11, <5>1, Zenon DEF Uncounted
        <5>3. U \subseteq Senders /\ U \ {h.s} \subseteq Senders
          BY Zenon DEF Uncounted
        <5> HIDE DEF U, V
        <5>4. Cardinality(U \ {h.s}) = Cardinality(U) - 1
          BY <5>1, <5>3, Zenon DEF SetsOfSenders
        <5>5. Cardinality(V) <= Cardinality(U \ {h.s})
          BY <5>2, <5>3, Zenon DEF SetsOfSenders
        <5>6. recvr'[j].remaining = left /\ recvr[j] = q
          BY <2>4, <2>6, <4>4, Zenon DEF Inv, TypeInv
        <5>7. left >= Cardinality(V)
          <6>1. q.remaining >= Cardinality(U)
            BY <4>1, <5>6, Zenon
          <6> QED BY <2>5, <4>2, <5>4, <5>5, <6>1
        <5> QED BY <5>6, <5>7, Zenon DEF V
      <4> QED BY <4>3, <4>4, Zenon
    <3> QED BY <2>4, <3>1, Zenon DEF CountInv
  <2>13. n.outcome = "eos" => \A i \in Senders : channel[i][h.r].eos # "no"
    BY <2>2, <2>6, Zenon DEF Prompt, EndInv
  <2>14. \A k \in 1 .. Len(n.queue) : n.queue[k].rows # <<>>
    BY <2>2, <2>6, ZenonT(60) DEF Prompt, QueueInv
  <2>15. ASSUME NEW i \in Senders, ~ n.cancelled
         PROVE  Pipe(n.queue, i, sent[i][h.r], received'[i][h.r], channel[i][h.r].ok,
                     Outstanding(handlers', i, h.r, sender[i], channel[i][h.r]), channel[i][h.r].batch)
    <3>1. Pipe(q.queue, i, sent[i][h.r], received[i][h.r], channel[i][h.r].ok,
               Outstanding(handlers, i, h.r, sender[i], channel[i][h.r]), channel[i][h.r].batch)
      BY <2>2, <2>6, <2>15, Zenon DEF Prompt, PipeInv
    <3>2. Outstanding(handlers', i, h.r, sender[i], channel[i][h.r])
          = Outstanding(handlers, i, h.r, sender[i], channel[i][h.r])
      <4>1. CASE i = h.s
        BY <2>8, <2>9, <4>1, Zenon DEF Outstanding
      <4>2. CASE i # h.s
        BY ONLY <2>10, <4>2, <1>SameOutstanding
      <4> QED BY <4>1, <4>2, Zenon
    <3> QED BY <2>4, <2>6, <3>1, <3>2
  <2>16. \A i \in Senders, j \in Receivers :
            j # h.r => /\ Served(handlers', i, j) <=> Served(handlers, i, j)
                       /\ received'[i][j] = received[i][j]
    BY <2>4, <2>10, Zenon
  <2> QED BY <2>2, <2>4, <2>10, <2>12, <2>13, <2>14, <2>15, <2>16, <1>RecvPrompt, ZenonT(60)
\* The first batch of the queue is received.
<1>ReceivedAt.
  ASSUME Inv, NEW r \in Receivers, recvr[r].queue # <<>>,
         received' = [received EXCEPT ![Head(recvr[r].queue).s][r] = @ \o Head(recvr[r].queue).rows]
  PROVE  LET head == Head(recvr[r].queue)
         IN  /\ head \in Entry /\ head.s \in Senders /\ recvr[r].queue \in Seq(Entry)
             /\ \A i \in Senders, j \in Receivers :
                   received'[i][j] = IF j = r /\ head.s = i THEN received[i][j] \o head.rows
                                     ELSE received[i][j]
  <2> USE <1>ReceivedAt
  <2> DEFINE queue == recvr[r].queue
             head == Head(queue)
  <2>1. queue \in Seq(Entry) /\ queue # <<>>
    BY RecvrOf, Zenon DEF RecvrRec
  <2>2. received' = [received EXCEPT ![head.s][r] = received[head.s][r] \o head.rows]
    BY Zenon
  <2> HIDE DEF queue
  <2>3. head \in Entry /\ head.s \in Senders
    BY <2>1, HeadOf, Zenon
  <2> HIDE DEF head
  <2>4. received \in [Senders -> [Receivers -> Seq(Rows)]]
    BY Zenon DEF Inv, TypeInv
  <2>5. ASSUME NEW i \in Senders, NEW j \in Receivers
        PROVE  received'[i][j] = IF j = r /\ head.s = i THEN received[i][j] \o head.rows
                                 ELSE received[i][j]
    <3> DEFINE v == received[head.s][r] \o head.rows
    <3>1. received' = [received EXCEPT ![head.s] = [received[head.s] EXCEPT ![r] = v]]
      BY <2>2, Zenon
    <3> HIDE DEF v
    <3>2. received'[i] = IF i = head.s THEN [received[i] EXCEPT ![r] = v] ELSE received[i]
      BY <2>3, <2>4, <3>1, Zenon
    <3>3. received[i] \in [Receivers -> Seq(Rows)]
      BY <2>4, Zenon
    <3>4. received'[i][j] = IF i = head.s /\ j = r THEN v ELSE received[i][j]
      <4>1. ASSUME NEW f \in [Receivers -> Seq(Rows)]
            PROVE  [f EXCEPT ![r] = v][j] = IF j = r THEN v ELSE f[j]
        BY Zenon
      <4>2. CASE i = head.s
        <5>1. received'[i] = [received[i] EXCEPT ![r] = v]
          BY <3>2, <4>2, Zenon
        <5> QED BY <3>3, <4>1, <4>2, <5>1, Zenon
      <4>3. CASE i # head.s
        <5>1. received'[i] = received[i]
          BY <3>2, <4>3, Zenon
        <5>2. received'[i][j] = received[i][j]
          BY <5>1, Zenon
        <5> QED BY <4>3, <5>2, Zenon
      <4> QED BY <4>2, <4>3, Zenon
    <3> QED BY <3>4, Zenon DEF v
  <2> QED BY <2>1, <2>3, <2>5, Zenon DEF queue, head
\* GetBatch moves the first rows of the queue to those received.
<1>GetPrompt.
  ASSUME SetsOfSenders, Inv, Inv', Prompt, NEW r \in Receivers, GetBatch(r)
  PROVE  Prompt'
  <2> USE <1>GetPrompt
  <2> DEFINE q == recvr[r]
  <2>1. q \in RecvrRec /\ handlers \in SUBSET HandlerRec
    BY RecvrOf, Zenon
  <2>2. UNCHANGED <<sender, channel, sent>> /\ HandlersOK(handlers, channel)
    BY Zenon DEF GetBatch, Prompt, HandlerInv
  <2>3. ASSUME NEW n, recvr' = [recvr EXCEPT ![r] = n], UNCHANGED <<handlers, received>>,
               n.queue = q.queue, n.remaining = q.remaining, n.cancelled = q.cancelled,
               n.outcome = "eos" => q.outcome = "eos"
        PROVE  Prompt'
    <3>1. HandlersOK(handlers', channel) /\ UNCHANGED <<sender, channel, sent, received>>
          /\ \A i, j : Served(handlers', i, j) <=> Served(handlers, i, j)
      BY <2>2, <2>3, Zenon
    <3> QED BY <2>3, <3>1, <1>QuietPrompt, Zenon
  <2>4. CASE recvr' = [recvr EXCEPT ![r] = [q EXCEPT !.pc = "close", !.outcome = "cancelled"]]
             /\ UNCHANGED <<handlers, received>>
    <3> DEFINE n == [q EXCEPT !.pc = "close", !.outcome = "cancelled"]
    <3>1. /\ n.queue = q.queue /\ n.remaining = q.remaining /\ n.cancelled = q.cancelled
          /\ n.outcome = "cancelled"
      BY <2>1, Zenon DEF RecvrRec
    <3> HIDE DEF n
    <3> QED BY <2>3, <2>4, <3>1, Zenon DEF n
  <2>5. CASE recvr' = [recvr EXCEPT ![r].pc = "wait"] /\ UNCHANGED <<handlers, received>>
    <3> DEFINE n == [q EXCEPT !.pc = "wait"]
    <3>1. /\ n.queue = q.queue /\ n.remaining = q.remaining /\ n.cancelled = q.cancelled
          /\ n.outcome = q.outcome
      BY <2>1, Zenon DEF RecvrRec
    <3>2. recvr' = [recvr EXCEPT ![r] = n]
      BY <2>5, Zenon
    <3> HIDE DEF n
    <3> QED BY <2>3, <2>5, <3>1, <3>2, Zenon
  <2>6. CASE /\ q.remaining = 0 /\ recvr' = [recvr EXCEPT ![r] = [q EXCEPT !.pc = "close", !.outcome = "eos"]]
             /\ UNCHANGED <<handlers, received>>
    <3> DEFINE n == [q EXCEPT !.pc = "close", !.outcome = "eos"]
    <3>1. /\ n.queue = q.queue /\ n.remaining = q.remaining /\ n.cancelled = q.cancelled
          /\ recvr' = [recvr EXCEPT ![r] = n]
      BY <2>1, <2>6, Zenon DEF RecvrRec
    <3> HIDE DEF n
    <3>2. \A i \in Senders : channel[i][r].eos # "no"
      BY <2>6, AllCounted, Zenon DEF Counted
    <3>3. CountInv'
      <4>1. \A j \in Receivers : recvr'[j].remaining = recvr[j].remaining
        BY <3>1, Zenon DEF Inv, TypeInv
      <4> QED BY <2>2, <2>6, <4>1, <1>CountKept, Zenon DEF Prompt
    <3>4. \A k \in 1 .. Len(n.queue) : n.queue[k].rows # <<>>
      BY <3>1, Zenon DEF Prompt, QueueInv
    <3>5. ASSUME NEW i \in Senders, ~ n.cancelled
          PROVE  Pipe(n.queue, i, sent[i][r], received'[i][r], channel[i][r].ok,
                      Outstanding(handlers', i, r, sender[i], channel[i][r]), channel[i][r].batch)
      BY <2>6, <3>1, <3>5, Zenon DEF Prompt, PipeInv
    <3>6. /\ HandlersOK(handlers', channel)
          /\ \A i \in Senders, j \in Receivers :
              j # r => /\ Served(handlers', i, j) <=> Served(handlers, i, j)
                       /\ received'[i][j] = received[i][j]
      BY <2>2, <2>6, Zenon
    <3> QED BY <2>2, <3>1, <3>2, <3>3, <3>4, <3>5, <3>6, <1>RecvPrompt, Zenon
  <2>7. CASE /\ HasBatch(q)
             /\ recvr' = [recvr EXCEPT ![r].queue = Tail(@),
                                       ![r].buffered = @ - Size(Head(q.queue).rows)]
             /\ received' = [received EXCEPT ![Head(q.queue).s][r] = @ \o Head(q.queue).rows]
             /\ handlers' \in Woken(handlers, r)
    <3> DEFINE n == [q EXCEPT !.queue = Tail(q.queue), !.buffered = q.buffered - Size(Head(q.queue).rows)]
               head == Head(q.queue)
    <3>1. /\ n.queue = Tail(q.queue) /\ n.remaining = q.remaining /\ n.cancelled = q.cancelled
          /\ n.outcome = q.outcome
      BY <2>1, Zenon DEF RecvrRec
    <3>2. recvr' = [recvr EXCEPT ![r] = n]
      BY <2>7, Zenon
    <3> HIDE DEF n
    <3>3. ~ q.cancelled /\ q.queue # <<>>
      BY <2>7, Zenon DEF HasBatch
    <3>4. /\ head \in Entry /\ q.queue \in Seq(Entry)
          /\ \A i \in Senders, j \in Receivers :
                received'[i][j] = IF j = r /\ head.s = i THEN received[i][j] \o head.rows
                                  ELSE received[i][j]
      BY <2>7, <3>3, <1>ReceivedAt, Zenon
    <3>5. /\ HandlersOK(handlers', channel)
          /\ \A i, j : Served(handlers', i, j) <=> Served(handlers, i, j)
      BY <2>1, <2>2, <2>7, <1>WakeOne, Zenon
    <3>6. CountInv'
      <4>1. \A j \in Receivers : recvr'[j].remaining = recvr[j].remaining
        BY <3>1, <3>2, Zenon DEF Inv, TypeInv
      <4>2. ASSUME NEW i \in Senders, NEW j \in Receivers, Counted(handlers, i, j, channel[i][j])
            PROVE  Counted(handlers', i, j, channel'[i][j])
        BY <2>2, <3>5, <4>2 DEF Counted
      <4> QED BY <4>1, <4>2, <1>CountKept, Zenon DEF Prompt
    <3>7. n.outcome = "eos" => \A i \in Senders : channel[i][r].eos # "no"
      BY <3>1, Zenon DEF Prompt, EndInv
    <3>8. \A k \in 1 .. Len(n.queue) : n.queue[k].rows # <<>>
      <4>1. \A k \in 1 .. Len(q.queue) : q.queue[k].rows # <<>>
        BY Zenon DEF Prompt, QueueInv
      <4> HIDE DEF q
      <4>2. \A k \in 1 .. Len(n.queue) : k + 1 \in 1 .. Len(q.queue) /\ n.queue[k] = q.queue[k + 1]
        BY <3>1, <3>3, <3>4
      <4> QED BY <4>1, <4>2, Zenon
    <3>9. ASSUME NEW i \in Senders
          PROVE  Pipe(n.queue, i, sent[i][r], received'[i][r], channel[i][r].ok,
                      Outstanding(handlers', i, r, sender[i], channel[i][r]), channel[i][r].batch)
      <4> DEFINE d == channel[i][r]
                 g == sent[i][r]
                 got == received[i][r]
                 out == Outstanding(handlers, i, r, sender[i], d)
                 more == IF Head(q.queue).s = i THEN got \o Head(q.queue).rows ELSE got
      <4>1. Pipe(q.queue, i, g, got, d.ok, out, d.batch)
        BY <3>3, Zenon DEF Prompt, PipeInv
      <4>2. g \in Seq(Rows) /\ got \in Seq(Rows)
        BY PipeTypes, Zenon
      <4>3. received'[i][r] = more
        BY <3>4, Zenon
      <4>4. Outstanding(handlers', i, r, sender[i], d) = out
        BY <3>5, <1>SameOutstanding
      <4> HIDE DEF g, got, out, d, q, head
      <4>5. Pipe(Tail(q.queue), i, g, more, d.ok, out, d.batch)
        BY <3>3, <3>4, <4>1, <4>2, PipeTake, Zenon
      <4> HIDE DEF more
      <4>6. Pipe(n.queue, i, g, received'[i][r], d.ok, Outstanding(handlers', i, r, sender[i], d), d.batch)
        BY <3>1, <4>3, <4>4, <4>5, Zenon
      <4> QED BY <4>6, Zenon DEF g, d
    <3>10. \A i \in Senders, j \in Receivers :
              j # r => /\ Served(handlers', i, j) <=> Served(handlers, i, j)
                       /\ received'[i][j] = received[i][j]
      BY <3>4, <3>5, Zenon
    <3> QED BY <2>2, <3>2, <3>5, <3>6, <3>7, <3>8, <3>9, <3>10, <1>RecvPrompt, Zenon
  <2> QED BY <2>4, <2>5, <2>6, <2>7, Zenon DEF GetBatch
\* The other steps of the receiver's thread, and Cancel, keep Prompt.
<1>RecvMovesPrompt.
  ASSUME SetsOfSenders, Inv, Inv', Prompt, NEW r \in Receivers,
         GetSpurious(r) \/ ReachedLimit(r) \/ Cancel(r) \/ DeregisterRecvr(r)
  PROVE  Prompt'
  <2> USE <1>RecvMovesPrompt
  <2> DEFINE q == recvr[r]
  <2>1. q \in RecvrRec
    BY RecvrOf, Zenon
  <2>2. /\ UNCHANGED <<sender, channel, sent, received>> /\ HandlersOK(handlers', channel)
        /\ \A i, j : Served(handlers', i, j) <=> Served(handlers, i, j)
    BY Zenon DEF GetSpurious, ReachedLimit, Cancel, DeregisterRecvr, Prompt, HandlerInv
  <2>3. ASSUME NEW n, recvr' = [recvr EXCEPT ![r] = n],
               n.queue = q.queue, n.remaining = q.remaining, q.cancelled => n.cancelled,
               n.outcome = "eos" => q.outcome = "eos"
        PROVE  Prompt'
    BY <2>2, <2>3, <1>QuietPrompt, Zenon
  <2>4. CASE GetSpurious(r)
    <3> DEFINE n == [q EXCEPT !.pc = "get"]
    <3>1. /\ n.queue = q.queue /\ n.remaining = q.remaining /\ n.cancelled = q.cancelled
          /\ n.outcome = q.outcome
      BY <2>1, Zenon DEF RecvrRec
    <3>2. recvr' = [recvr EXCEPT ![r] = n]
      BY <2>4, Zenon DEF GetSpurious
    <3> HIDE DEF n
    <3> QED BY <2>3, <3>1, <3>2, Zenon
  <2>5. CASE ReachedLimit(r)
    <3> DEFINE n == [q EXCEPT !.pc = "close", !.outcome = "limit"]
    <3>1. /\ n.queue = q.queue /\ n.remaining = q.remaining /\ n.cancelled = q.cancelled
          /\ n.outcome = "limit"
      BY <2>1, Zenon DEF RecvrRec
    <3>2. recvr' = [recvr EXCEPT ![r] = n]
      BY <2>5, Zenon DEF ReachedLimit
    <3> HIDE DEF n
    <3> QED BY <2>3, <3>1, <3>2, Zenon
  <2>6. CASE recvr' = [recvr EXCEPT ![r].cancelled = TRUE]
    <3> DEFINE n == [q EXCEPT !.cancelled = TRUE]
    <3>1. /\ n.queue = q.queue /\ n.remaining = q.remaining /\ n.cancelled
          /\ n.outcome = q.outcome
      BY <2>1, Zenon DEF RecvrRec
    <3>2. recvr' = [recvr EXCEPT ![r] = n]
      BY <2>6, Zenon
    <3> HIDE DEF n
    <3> QED BY <2>3, <3>1, <3>2, Zenon
  <2>7. CASE recvr' = [recvr EXCEPT ![r].pc = "closed", ![r].registered = FALSE]
    <3> DEFINE n == [q EXCEPT !.pc = "closed", !.registered = FALSE]
    <3>1. /\ n.queue = q.queue /\ n.remaining = q.remaining /\ n.cancelled = q.cancelled
          /\ n.outcome = q.outcome
      BY <2>1, Zenon DEF RecvrRec
    <3>2. recvr' = [recvr EXCEPT ![r] = n]
      BY <2>7, Zenon
    <3> HIDE DEF n
    <3> QED BY <2>3, <3>1, <3>2, Zenon
  <2> QED BY <2>4, <2>5, <2>6, <2>7, Zenon DEF Cancel, DeregisterRecvr
\* Waking all that wait leaves every handler in its call.
<1>WakeAll.
  ASSUME NEW hs \in SUBSET HandlerRec, NEW chan, HandlersOK(hs, chan), NEW r,
         NEW hs2, hs2 = AllAwake(hs, r)
  PROVE  /\ HandlersOK(hs2, chan)
         /\ \A i, j : Served(hs2, i, j) <=> Served(hs, i, j)
  <2> USE <1>WakeAll
  <2> DEFINE W(h) == IF h \in Waiters(hs, r) THEN [h EXCEPT !.pc = "woken"] ELSE h
  <2>1. ASSUME NEW h \in hs
        PROVE  /\ W(h).s = h.s /\ W(h).r = h.r /\ W(h).kind = h.kind /\ W(h).rows = h.rows
               /\ W(h).orphan = h.orphan
               /\ W(h) = h \/ (h.pc = "wait" /\ W(h).pc = "woken")
    <3>1. h \in HandlerRec
      BY Zenon
    <3>2. CASE h \in Waiters(hs, r)
      <4>1. h.pc = "wait"
        BY <3>2, Zenon DEF Waiters
      <4> QED BY <3>1, <3>2, <4>1 DEF HandlerRec
    <3>3. CASE h \notin Waiters(hs, r)
      BY <3>3, Zenon
    <3> QED BY <3>2, <3>3, Zenon
  <2>2. /\ \A h \in hs : W(h) \in hs2
        /\ \A g \in hs2 : \E h \in hs : g = W(h)
    BY Zenon DEF AllAwake
  <2> HIDE DEF W
  <2>3. ASSUME NEW g \in hs2 PROVE Serves(g, chan[g.s][g.r])
    <3>1. PICK h \in hs : g = W(h)
      BY <2>2, Zenon
    <3>2. Serves(h, chan[h.s][h.r])
      BY Zenon DEF HandlersOK
    <3> QED BY <2>1, <3>1, <3>2 DEF Serves
  <2>4. ASSUME NEW g \in hs2, NEW k \in hs2, g.s = k.s, g.r = k.r PROVE g = k
    <3>1. PICK h \in hs : g = W(h)
      BY <2>2, Zenon
    <3>2. PICK l \in hs : k = W(l)
      BY <2>2, Zenon
    <3>3. h.s = l.s /\ h.r = l.r
      BY <2>1, <2>4, <3>1, <3>2, Zenon
    <3>4. h = l
      BY <3>3, Zenon DEF HandlersOK
    <3> QED BY <3>1, <3>2, <3>4, Zenon
  <2>5. ASSUME NEW i, NEW j PROVE Served(hs2, i, j) <=> Served(hs, i, j)
    <3>1. ASSUME Served(hs, i, j) PROVE Served(hs2, i, j)
      <4>1. PICK h \in hs : h.s = i /\ h.r = j /\ h.pc = "done"
        BY <3>1, Zenon DEF Served
      <4>2. W(h) = h
        BY <2>1, <4>1, Zenon
      <4> QED BY <2>2, <4>1, <4>2 DEF Served
    <3>2. ASSUME Served(hs2, i, j) PROVE Served(hs, i, j)
      <4>1. PICK g \in hs2 : g.s = i /\ g.r = j /\ g.pc = "done"
        BY <3>2, Zenon DEF Served
      <4>2. PICK h \in hs : g = W(h)
        BY <2>2, Zenon
      <4>3. g = h
        BY <2>1, <4>1, <4>2, Zenon
      <4> QED BY <4>1, <4>3, Zenon DEF Served
    <3> QED BY <3>1, <3>2, Zenon
  <2> QED BY <2>3, <2>4, <2>5, Zenon DEF HandlersOK
\* The notifications of CancelStream keep Prompt.
<1>CancelWakesPrompt.
  ASSUME SetsOfSenders, Inv, Inv', Prompt, NEW r \in Receivers, CancelWakes(r)
  PROVE  Prompt'
  <2> USE <1>CancelWakesPrompt
  <2> DEFINE q == recvr[r]
             n == Arrival(q)
  <2>1. q \in RecvrRec /\ handlers \in SUBSET HandlerRec
    BY RecvrOf, Zenon
  <2>2. /\ n.queue = q.queue /\ n.remaining = q.remaining /\ n.cancelled = q.cancelled
        /\ n.outcome = q.outcome
    BY <2>1, Zenon DEF RecvrRec, Arrival
  <2>3. recvr' = [recvr EXCEPT ![r] = n] /\ UNCHANGED <<sender, channel, sent, received>>
    BY Zenon DEF CancelWakes
  <2> HIDE DEF n
  <2>4. /\ HandlersOK(handlers', channel)
        /\ \A i, j : Served(handlers', i, j) <=> Served(handlers, i, j)
    <3>1. handlers' = AllAwake(handlers, r)
      BY Zenon DEF CancelWakes, AllAwake
    <3>2. HandlersOK(handlers, channel)
      BY Zenon DEF Prompt, HandlerInv
    <3> QED BY <2>1, <3>1, <3>2, <1>WakeAll, Zenon
  <2> QED BY <2>2, <2>3, <2>4, <1>QuietPrompt, Zenon
\* Nothing that Prompt speaks of is changed.
<1>SamePrompt.
  ASSUME Prompt, UNCHANGED <<sender, channel, handlers, recvr, sent, received>>
  PROVE  Prompt'
  BY <1>SamePrompt, Zenon DEF Prompt, HandlerInv, CountInv, EndInv, QueueInv, PipeInv
\* The end of CancelStream keeps Prompt.
<1>CancelDeletesPrompt.
  ASSUME SetsOfSenders, Inv, Inv', Prompt, NEW r \in Receivers, CancelDeletes(r)
  PROVE  Prompt'
  <2> USE <1>CancelDeletesPrompt
  <2> DEFINE q == recvr[r]
  <2>1. q \in RecvrRec
    BY RecvrOf, Zenon
  <2>2. /\ UNCHANGED <<sender, channel, handlers, sent, received>> /\ HandlersOK(handlers', channel)
        /\ \A i, j : Served(handlers', i, j) <=> Served(handlers, i, j)
    BY Zenon DEF CancelDeletes, Prompt, HandlerInv
  <2>3. CASE recvr' = [recvr EXCEPT ![r].pc = "closed", ![r].registered = FALSE]
    <3> DEFINE n == [q EXCEPT !.pc = "closed", !.registered = FALSE]
    <3>1. /\ n.queue = q.queue /\ n.remaining = q.remaining /\ n.cancelled = q.cancelled
          /\ n.outcome = q.outcome
      BY <2>1, Zenon DEF RecvrRec
    <3>2. recvr' = [recvr EXCEPT ![r] = n]
      BY <2>3, Zenon
    <3> HIDE DEF n
    <3> QED BY <2>2, <3>1, <3>2, <1>QuietPrompt, Zenon
  <2>4. CASE recvr' = recvr
    BY <2>2, <2>4, <1>SamePrompt
  <2> QED BY <2>3, <2>4, Zenon DEF CancelDeletes
<1> SUFFICES ASSUME SetsOfSenders, Inv, Inv', PromptInv, [Next]_vars
             PROVE  PromptInv'
  BY Zenon
<1> SUFFICES ASSUME ~ faults'.late PROVE Prompt'
  BY Zenon DEF PromptInv
<1>1. CASE UNCHANGED vars
  <2>1. Prompt /\ UNCHANGED <<sender, channel, handlers, recvr, sent, received>>
    BY <1>1, Zenon DEF PromptInv, vars
  <2> QED BY <2>1, <1>SamePrompt
<1>2. CASE Next
  <2>1. Prompt
    BY <1>2, LateStays, Zenon DEF PromptInv
  <2>2. ASSUME NEW s \in Senders, Send(s) \/ StartClose(s) \/ SenderStep(s) PROVE Prompt'
    BY <2>1, <2>2, <1>SendPrompt, <1>MovesPrompt, <1>SendBatchPrompt, <1>CloseFlushPrompt, <1>CloseStatusPrompt, Zenon
       DEF SenderStep
  <2>3. ASSUME NEW s \in Senders, NEW r \in Receivers,
               \/ AddRow(s, r) \/ SendFullBatch(s, r)
               \/ ChannelStep(s, r) \/ CallThrows(s, r)
        PROVE  Prompt'
    BY <2>1, <2>3, <1>AddRowPrompt, <1>SendFullBatchPrompt, <1>TransmitDataPrompt, <1>CallReturnsPrompt, <1>RetryPrompt,
       <1>CallThrowsPrompt, Zenon DEF ChannelStep
  <2>4. ASSUME NEW h \in handlers, HandlerStep(h) \/ AddSpurious(h) PROVE Prompt'
    BY <2>1, <2>4, <1>FindPrompt, <1>AddPrompt, <1>DecrementPrompt, <1>SpuriousPrompt, Zenon DEF HandlerStep
  <2>5. ASSUME NEW r \in Receivers,
               \/ RecvrStep(r) \/ CancelStep(r)
               \/ GetSpurious(r) \/ ReachedLimit(r) \/ Cancel(r)
        PROVE  Prompt'
    BY <2>1, <2>5, <1>GetPrompt, <1>RecvMovesPrompt, <1>CancelWakesPrompt, <1>CancelDeletesPrompt, Zenon
       DEF RecvrStep, CancelStep
  <2> QED BY <1>2, <2>2, <2>3, <2>4, <2>5, Zenon DEF Next
<1> QED BY <1>1, <1>2, Zenon

-------------------------------------------------------------------------------
(* The count of senders *)

\* A handler on its way to adding its batch, or to counting its end-of-stream, is of
\* a sender whose end-of-stream is not counted yet.
LEMMA HandlerUncounted ==
    ASSUME Inv, Prompt, NEW h \in handlers, h.pc \in {"add", "wait", "woken", "dec"}
    PROVE  h.s \in Uncounted(handlers, channel, h.r)
<1> DEFINE c == channel[h.s][h.r]
<1>1. h \in HandlerRec
  BY Zenon DEF Inv, TypeInv
<1>2. h.s \in Senders /\ h.r \in Receivers
  BY <1>1, Zenon DEF HandlerRec
<1>3. ChannelOK(sender[h.s], h.r, c)
  BY <1>2, PipeTypes, Zenon
<1>4. CASE h.pc = "dec"
  <2>1. Serves(h, c)
    BY Zenon DEF Prompt, HandlerInv, HandlersOK
  <2>2. c.eos = "sent"
    BY <1>1, <1>3, <1>4, <2>1, Zenon DEF Serves, ChannelOK, HandlerRec
  <2>3. ~ Served(handlers, h.s, h.r)
    <3>1. \A g \in handlers : g.s = h.s /\ g.r = h.r => g = h
      BY Zenon DEF Prompt, HandlerInv, HandlersOK
    <3> QED BY <1>4, <3>1, Zenon DEF Served
  <2> QED BY <1>2, <2>2, <2>3, Zenon DEF Uncounted, Counted
<1>5. CASE h.pc \in {"add", "wait", "woken"}
  <2>1. c.pc # "idle" /\ c.kind = "data"
    BY <1>5, AddingData, Zenon
  <2>2. c.eos = "no"
    BY <1>3, <2>1, Zenon DEF ChannelOK
  <2> QED BY <1>2, <2>2, Zenon DEF Uncounted, Counted
<1> QED BY <1>4, <1>5, Zenon

\* The count is right as long as Prompt holds.
LEMMA PromptCounts ==
    ASSUME SetsOfSenders, Inv, Prompt
    PROVE  RemainingCounts
<1> SUFFICES ASSUME NEW r \in Receivers
             PROVE  /\ recvr[r].remaining >= Cardinality({s \in Senders : channel[s][r].eos = "no"})
                    /\ \A h \in handlers : h.r = r /\ h.pc \in {"add", "wait", "woken", "dec"} =>
                                             recvr[r].remaining > 0
  BY Zenon DEF RemainingCounts
<1> DEFINE U == Uncounted(handlers, channel, r)
           O == {s \in Senders : channel[s][r].eos = "no"}
<1>1. O \subseteq U /\ U \subseteq Senders
  BY Zenon DEF Uncounted, Counted
<1>2. Cardinality(U) \in Nat /\ (Cardinality(U) = 0 => U = {})
  BY <1>1, Zenon DEF SetsOfSenders
<1>3. recvr[r].remaining >= Cardinality(U)
  BY Zenon DEF Prompt, CountInv
<1>4. recvr[r].remaining \in Nat
  BY RecvrOf, Zenon DEF RecvrRec
<1>5. ASSUME NEW h \in handlers, h.r = r, h.pc \in {"add", "wait", "woken", "dec"}
      PROVE  h.s \in U
  BY <1>5, HandlerUncounted, Zenon
<1> HIDE DEF U, O
<1>6. Cardinality(O) \in Nat /\ Cardinality(O) <= Cardinality(U)
  <2>1. O \subseteq Senders
    BY <1>1, Zenon
  <2> QED BY <1>1, <2>1, Zenon DEF SetsOfSenders
<1>7. recvr[r].remaining >= Cardinality(O)
  BY <1>2, <1>3, <1>4, <1>6
<1>8. ASSUME NEW h \in handlers, h.r = r, h.pc \in {"add", "wait", "woken", "dec"}
      PROVE  recvr[r].remaining > 0
  <2>1. U # {}
    BY <1>5, <1>8, Zenon
  <2>2. Cardinality(U) # 0
    BY <1>2, <2>1, Zenon
  <2> QED BY <1>2, <1>3, <1>4, <2>2
<1> QED BY <1>7, <1>8, Zenon DEF O

-------------------------------------------------------------------------------
(* The stream implements Exchange *)

\* A stream begins as an exchange does.
LEMMA InitPromise ==
    ASSUME Init
    PROVE  Promise!Init
<1>1. {r \in Receivers : recvr[r].outcome = "eos"} = {}
  BY Zenon DEF Init, NewRecvr
<1>2. faults.late = FALSE
  BY Zenon DEF Init
<1> QED BY <1>1, <1>2, Zenon DEF Init, Promise!Init

\* Every step is one of Exchange or none.
LEMMA NextPromise ==
    SetsOfSenders /\ Inv /\ PromptInv /\ [Next]_vars =>
        [Promise!Next]_(Promise!vars)
\* A pipe with nothing in it: all that was given has been received.
<1>PipeEnds.
  ASSUME NEW s, NEW given \in Seq(Rows), NEW got \in Seq(Rows),
         Pipe(<<>>, s, given, got, TRUE, <<>>, <<>>)
  PROVE  got = given
  <2> USE <1>PipeEnds
  <2>1. PICK at \in [0 .. 0 -> 0 .. Len(given)] :
              Chain(<<>>, s, given, got, at) /\ Rest(given, at[0], <<>>, <<>>)
    BY Zenon DEF Pipe
  <2>2. Len(given) \in Nat /\ at[0] \in 0 .. Len(given)
    OBVIOUS
  <2>3. PICK b \in 0 .. Len(given) : /\ Segment(given, at[0], <<>>, b)
                                     /\ Segment(given, b, <<>>, Len(given))
    BY <2>1, Zenon DEF Rest
  <2>4. at[0] = Len(given)
    BY <2>2, <2>3, SegmentEmpty
  <2>5. Segment(given, 0, got, Len(given))
    BY <2>1, <2>4, Zenon DEF Chain
  <2> QED BY <2>2, <2>5 DEF Segment
\* A batch that is sent is one.
<1>BatchOf.
  ASSUME NEW b \in Seq(Rows), Len(b) \in 1 .. Capacity
  PROVE  b \in Batches
  <2> USE <1>BatchOf
  <2>1. b \in [1 .. Len(b) -> 1 .. NumRows]
    <3>1. b \in [1 .. Len(b) -> Rows]
      OBVIOUS
    <3> QED BY <3>1, Zenon DEF Rows
  <2>2. [1 .. Len(b) -> 1 .. NumRows] \in {[1 .. n -> 1 .. NumRows] : n \in 1 .. Capacity}
    BY Zenon
  <2> QED BY <2>1, <2>2, Zenon DEF Batches
\* A step that gives and returns no rows and ends no stream.
<1>StuttersPromise.
  ASSUME UNCHANGED <<sent, received>>, faults'.late = faults.late,
         \A r \in Receivers : recvr'[r].outcome = "eos" <=> recvr[r].outcome = "eos"
  PROVE  UNCHANGED Promise!vars
  <2> USE <1>StuttersPromise
  <2>1. {r \in Receivers : recvr[r].outcome = "eos"}' = {r \in Receivers : recvr[r].outcome = "eos"}
    BY Zenon
  <2> QED BY <2>1, Zenon DEF Promise!vars
\* A step that gives rows to a channel.
<1>SendsPromise.
  ASSUME NEW s \in Senders, NEW r \in Receivers, NEW batch \in Batches,
         sent' = [sent EXCEPT ![s][r] = @ \o batch], UNCHANGED <<received, recvr>>,
         faults'.late = faults.late, recvr[r].outcome # "eos"
  PROVE  Promise!Next
  <2> USE <1>SendsPromise
  <2>1. {i \in Receivers : recvr[i].outcome = "eos"}' = {i \in Receivers : recvr[i].outcome = "eos"}
        /\ r \notin {i \in Receivers : recvr[i].outcome = "eos"}
    BY Zenon
  <2>2. Promise!Send(s, r)
    BY <2>1, Zenon DEF Promise!Send
  <2> QED BY <2>2, Zenon DEF Promise!Next
\* A sender that gives rows to a channel finds the stream open.
<1>OpenStream.
  ASSUME Inv, Prompt, NEW s \in Senders, sender[s].pc \in {"ready", "send"}, NEW r \in Receivers
  PROVE  recvr[r].outcome # "eos"
  <2> USE <1>OpenStream
  <2>1. SenderOK(sender[s], channel[s])
    BY Zenon DEF Inv, SideOK
  <2>2. channel[s][r].eos = "no"
    BY <2>1, Zenon DEF SenderOK
  <2> QED BY <2>2, Zenon DEF Prompt, EndInv
\* SendBatch is a Send of Exchange, and the other steps of a sender are none of its steps.
<1>SenderPromise.
  ASSUME Inv, Prompt, faults'.late = faults.late, NEW s \in Senders,
         Send(s) \/ StartClose(s) \/ SenderStep(s)
  PROVE  [Promise!Next]_(Promise!vars)
  <2> USE <1>SenderPromise
  <2>1. UNCHANGED <<recvr, received>>
    BY Zenon DEF Send, StartClose, SenderStep, SendBatch, CloseFlush, CloseStatus, CloseDrain, Unused
  <2>2. CASE UNCHANGED sent
    BY <2>1, <2>2, <1>StuttersPromise, Zenon
  <2>3. CASE SendBatch(s) /\ ~ UNCHANGED sent
    <3> DEFINE q == sender[s]
               r == q.chan
               batch == q.buffers[q.current]
    <3>1. q.pc = "send" /\ sent' = [sent EXCEPT ![s][r] = @ \o batch]
      BY <2>3, Zenon DEF SendBatch
    <3>2. q \in SenderRec /\ SenderOK(q, channel[s])
      BY Zenon DEF Inv, TypeInv, SideOK
    <3>3. r \in Receivers /\ batch \in Seq(Rows)
      BY <3>2, Zenon DEF SenderRec
    <3>4. Len(batch) \in 1 .. Capacity
      BY <3>1, <3>2, Zenon DEF SenderOK
    <3>5. recvr[r].outcome # "eos"
      BY <3>1, <3>3, <1>OpenStream, Zenon
    <3> HIDE DEF r, batch
    <3>6. batch \in Batches
      BY <3>3, <3>4, <1>BatchOf, Zenon
    <3> QED BY <2>1, <3>1, <3>3, <3>5, <3>6, <1>SendsPromise, Zenon
  <2>4. SendBatch(s) \/ UNCHANGED sent
    BY Zenon DEF Send, StartClose, SenderStep, CloseFlush, CloseStatus, CloseDrain
  <2> QED BY <2>2, <2>3, <2>4, Zenon
\* A row that is added is a Send.
<1>RowPromise.
  ASSUME Inv, Prompt, faults'.late = faults.late, NEW s \in Senders, NEW r \in Receivers,
         AddRow(s, r) \/ SendFullBatch(s, r)
  PROVE  [Promise!Next]_(Promise!vars)
  <2> USE <1>RowPromise
  <2> DEFINE row == sender[s].row + 1
  <2>1. UNCHANGED <<recvr, received>>
    BY Zenon DEF AddRow, SendFullBatch, Unused
  <2>2. CASE UNCHANGED sent
    BY <2>1, <2>2, <1>StuttersPromise, Zenon
  <2>3. CASE sent' = [sent EXCEPT ![s][r] = Append(@, row)]
    <3>1. sender[s].pc = "ready" /\ row <= NumRows
      BY Zenon DEF AddRow, SendFullBatch
    <3>2. sender[s] \in SenderRec
      BY Zenon DEF Inv, TypeInv
    <3>3. row \in Rows
      BY <3>1, <3>2, StreamAssumption DEF SenderRec, Rows
    <3>4. recvr[r].outcome # "eos"
      BY <3>1, <1>OpenStream, Zenon
    <3>5. sent[s][r] \in Seq(Rows)
      BY PipeTypes, Zenon
    <3> HIDE DEF row
    <3>6. Append(sent[s][r], row) = sent[s][r] \o <<row>> /\ <<row>> \in Seq(Rows)
      BY <3>3, <3>5, AppendOne, Zenon
    <3>7. sent' = [sent EXCEPT ![s][r] = @ \o <<row>>]
      BY <2>3, <3>6, Zenon
    <3>8. Len(<<row>>) \in 1 .. Capacity
      BY StreamAssumption
    <3>9. <<row>> \in Batches
      BY <3>6, <3>8, <1>BatchOf, Zenon
    <3> QED BY <2>1, <3>4, <3>7, <3>9, <1>SendsPromise, Zenon
  <2> QED BY <2>2, <2>3, Zenon DEF AddRow, SendFullBatch
\* A step of a call is none of its steps.
<1>CallPromise.
  ASSUME faults'.late = faults.late, NEW s \in Senders, NEW r \in Receivers,
         ChannelStep(s, r) \/ CallThrows(s, r)
  PROVE  [Promise!Next]_(Promise!vars)
  <2> USE <1>CallPromise
  <2>1. UNCHANGED <<recvr, sent, received>>
    BY Zenon DEF ChannelStep, TransmitData, CallReturns, Retry, CallThrows
  <2> QED BY <2>1, <1>StuttersPromise, Zenon
\* Neither is one of a handler.
<1>HandlerPromise.
  ASSUME Inv, faults'.late = faults.late, NEW h \in handlers, HandlerStep(h) \/ AddSpurious(h)
  PROVE  [Promise!Next]_(Promise!vars)
  <2> USE <1>HandlerPromise
  <2>1. UNCHANGED <<sent, received>>
    BY Zenon DEF HandlerStep, AddSpurious, FindControlBlock, AddBatch, DecrementSenders
  <2>2. h \in HandlerRec
    BY Zenon DEF Inv, TypeInv
  <2>3. h.r \in Receivers /\ recvr \in [Receivers -> RecvrRec]
    BY <2>2, Zenon DEF HandlerRec, Inv, TypeInv
  <2>4. recvr[h.r] \in RecvrRec
    BY <2>3, Zenon
  <2>5. ASSUME NEW n, recvr' = [recvr EXCEPT ![h.r] = n], n.outcome = recvr[h.r].outcome
        PROVE  [Promise!Next]_(Promise!vars)
    <3>1. \A r \in Receivers : recvr'[r].outcome = recvr[r].outcome
      BY <2>3, <2>5, Zenon
    <3> QED BY <2>1, <3>1, <1>StuttersPromise, Zenon
  <2>6. CASE UNCHANGED recvr
    BY <2>1, <2>6, <1>StuttersPromise, Zenon
  <2>7. CASE AddBatch(h)
    <3> DEFINE q == recvr[h.r]
               freed == [q EXCEPT !.timer = @ /\ ~ h.timer]
               full == [q EXCEPT !.timer = TRUE]
               longer == [freed EXCEPT !.queue = Append(@, [s |-> h.s, rows |-> h.rows]),
                                       !.buffered = @ + Size(h.rows)]
               added == Arrival(longer)
    <3>1. freed.outcome = q.outcome /\ full.outcome = q.outcome
      BY <2>4, Zenon DEF RecvrRec
    <3>2. longer.outcome = q.outcome
      BY <2>4, Zenon DEF RecvrRec
    <3>3. added.outcome = q.outcome
      BY <2>4, Zenon DEF RecvrRec, Arrival
    <3>4. \/ recvr' = [recvr EXCEPT ![h.r] = freed]
          \/ recvr' = [recvr EXCEPT ![h.r] = full]
          \/ recvr' = [recvr EXCEPT ![h.r] = added]
      BY <2>7, Zenon DEF AddBatch
    <3> HIDE DEF freed, full, added
    <3> QED BY <2>5, <3>1, <3>3, <3>4, Zenon
  <2>8. CASE DecrementSenders(h)
    <3> DEFINE q == recvr[h.r]
               left == IF q.remaining > 0 THEN q.remaining - 1 ELSE 0
               after == [q EXCEPT !.remaining = left]
               n == IF left = 0 THEN Arrival(after) ELSE after
    <3>1. recvr' = [recvr EXCEPT ![h.r] = n]
      BY <2>8, Zenon DEF DecrementSenders
    <3> HIDE DEF left
    <3>2. after.outcome = q.outcome /\ Arrival(after).outcome = q.outcome
      BY <2>4, Zenon DEF RecvrRec, Arrival
    <3> HIDE DEF after
    <3>3. n.outcome = q.outcome
      BY <3>2, Zenon
    <3> HIDE DEF n
    <3> QED BY <2>5, <3>1, <3>3, Zenon
  <2> QED BY <2>6, <2>7, <2>8, Zenon DEF HandlerStep, AddSpurious, FindControlBlock
\* Nor are the receiver's steps other than GetBatch.
<1>RecvMovesPromise.
  ASSUME Inv, faults'.late = faults.late, NEW r \in Receivers,
         \/ GetSpurious(r) \/ ReachedLimit(r) \/ Cancel(r)
         \/ DeregisterRecvr(r) \/ CancelStep(r)
  PROVE  [Promise!Next]_(Promise!vars)
  <2> USE <1>RecvMovesPromise
  <2>1. UNCHANGED <<sent, received>>
    BY Zenon DEF GetSpurious, ReachedLimit, Cancel, DeregisterRecvr, CancelStep, CancelWakes, CancelDeletes
  <2>2. recvr \in [Receivers -> RecvrRec] /\ recvr[r] \in RecvrRec
    BY Zenon DEF Inv, TypeInv
  <2>3. ASSUME NEW j \in Receivers PROVE recvr'[j].outcome = "eos" <=> recvr[j].outcome = "eos"
    <3>1. CASE ReachedLimit(r)
      <4>1. recvr[r].outcome # "eos"
        BY <3>1, <2>2, Zenon DEF ReachedLimit, Inv, RecvrOK, RecvrRec
      <4> QED BY <2>2, <3>1, <4>1, Zenon DEF ReachedLimit, RecvrRec
    <3>2. CASE GetSpurious(r) \/ Cancel(r)
      <4>1. CASE recvr' = [recvr EXCEPT ![r].pc = "get"]
        BY <2>2, <4>1, Zenon DEF RecvrRec
      <4>2. CASE recvr' = [recvr EXCEPT ![r].cancelled = TRUE]
        BY <2>2, <4>2, Zenon DEF RecvrRec
      <4> QED BY <3>2, <4>1, <4>2, Zenon DEF GetSpurious, Cancel
    <3>3. CASE DeregisterRecvr(r)
      <4>1. CASE recvr' = [recvr EXCEPT ![r].pc = "closed", ![r].registered = FALSE]
        BY <2>2, <4>1, Zenon DEF RecvrRec
      <4>2. CASE recvr' = [recvr EXCEPT ![r].cancelled = TRUE]
        BY <2>2, <4>2 DEF RecvrRec
      <4> QED BY <3>3, <4>1, <4>2, Zenon DEF DeregisterRecvr
    <3>4. CASE CancelWakes(r)
      BY <2>2, <3>4, Zenon DEF CancelWakes, Arrival, RecvrRec
    <3>5. CASE CancelDeletes(r)
      <4>1. CASE recvr' = [recvr EXCEPT ![r].pc = "closed", ![r].registered = FALSE]
        BY <2>2, <4>1 DEF RecvrRec
      <4>2. CASE recvr' = recvr
        BY <4>2, Zenon
      <4> QED BY <3>5, <4>1, <4>2, Zenon DEF CancelDeletes
    <3> QED BY <3>1, <3>2, <3>3, <3>4, <3>5, Zenon DEF CancelStep
  <2> QED BY <2>1, <2>3, <1>StuttersPromise, Zenon
\* The first entry of the queue has the next rows of its sender.
<1>PipeHead.
  ASSUME NEW q \in Seq(Entry), q # <<>>, Head(q).rows # <<>>, NEW given \in Seq(Rows),
         NEW got \in Seq(Rows), NEW ok, NEW out, NEW batch,
         Pipe(q, Head(q).s, given, got, ok, out, batch)
  PROVE  LET more == got \o Head(q).rows
         IN  more = SubSeq(given, 1, Len(more)) /\ Len(more) \in Len(got) + 1 .. Len(given)
  <2> USE <1>PipeHead
  <2> DEFINE s == Head(q).s
             rows == Head(q).rows
             more == got \o rows
  <2>1. rows \in Seq(Rows) /\ rows # <<>>
    BY HeadOf, Zenon
  <2>2. more = SubSeq(given, 1, Len(more)) /\ Len(more) <= Len(given)
    <3>1. ASSUME NEW t, Pipe(q, t, given, got, ok, out, batch)
          PROVE  LET m == IF Head(q).s = t THEN got \o Head(q).rows ELSE got
                 IN  /\ Pipe(Tail(q), t, given, m, ok, out, batch)
                     /\ m = SubSeq(given, 1, Len(m)) /\ Len(m) <= Len(given)
      BY <3>1, PipeTake, Zenon
    <3> QED BY <3>1, Zenon
  <2> HIDE DEF rows
  <2>3. Len(more) \in Nat /\ Len(got) \in Nat /\ Len(more) >= Len(got) + 1 /\ Len(given) \in Nat
    BY <2>1
  <2> HIDE DEF more
  <2>4. Len(more) \in Len(got) + 1 .. Len(given)
    BY <2>2, <2>3
  <2> QED BY <2>2, <2>4, Zenon DEF more, rows
\* GetBatch returns the next rows of some sender ...
<1>TakePromise.
  ASSUME Inv, Prompt, faults'.late = faults.late, NEW r \in Receivers, recvr[r].pc = "get",
         HasBatch(recvr[r]), UNCHANGED sent,
         recvr' = [recvr EXCEPT ![r].queue = Tail(@),
                                ![r].buffered = @ - Size(Head(recvr[r].queue).rows)],
         received' = [received EXCEPT ![Head(recvr[r].queue).s][r] = @ \o Head(recvr[r].queue).rows]
  PROVE  Promise!Next
  <2> USE <1>TakePromise
  <2> DEFINE q == recvr[r]
             s == Head(q.queue).s
             rows == Head(q.queue).rows
             got == received[s][r]
             more == got \o rows
             E == {i \in Receivers : recvr[i].outcome = "eos"}
  <2>1. q.queue \in Seq(Entry) /\ q.queue # <<>> /\ ~ q.cancelled /\ q \in RecvrRec
    BY RecvrOf, Zenon DEF HasBatch, RecvrRec
  <2>2. s \in Senders /\ rows \in Seq(Rows) /\ rows # <<>>
    <3>1. \A k \in 1 .. Len(q.queue) : q.queue[k].rows # <<>>
      BY Zenon DEF Prompt, QueueInv
    <3> HIDE DEF q
    <3>2. 1 \in 1 .. Len(q.queue) /\ Head(q.queue) = q.queue[1]
      BY <2>1, HeadOf, Zenon
    <3> QED BY <2>1, <3>1, <3>2, HeadOf, Zenon
  <2>3. r \notin E /\ E' = E
    <3>1. q.outcome = "open"
      BY Zenon DEF Inv, RecvrOK
    <3>2. \A i \in Receivers : recvr'[i].outcome = recvr[i].outcome
      BY <2>1, Zenon DEF Inv, TypeInv, RecvrRec
    <3> QED BY <3>1, <3>2, Zenon
  <2>4. received' = [received EXCEPT ![s][r] = more]
    BY Zenon
  <2> HIDE DEF s
  <2>5. got \in Seq(Rows) /\ sent[s][r] \in Seq(Rows)
    BY <2>2, PipeTypes, Zenon
  <2>6. more = SubSeq(sent[s][r], 1, Len(more)) /\ Len(more) \in Len(got) + 1 .. Len(sent[s][r])
    <3> DEFINE d == channel[s][r]
               out == Outstanding(handlers, s, r, sender[s], d)
    <3>1. Pipe(q.queue, Head(q.queue).s, sent[s][r], got, d.ok, out, d.batch)
      BY <2>1, <2>2, Zenon DEF Prompt, PipeInv, s
    <3> HIDE DEF d, out, q, got
    <3> QED BY <2>1, <2>2, <2>5, <3>1, <1>PipeHead, Zenon
  <2> HIDE DEF got, rows, more
  <2>7. received' = [received EXCEPT ![s][r] = SubSeq(sent[s][r], 1, Len(more))]
    BY <2>4, <2>6, Zenon
  <2>8. Promise!Receive(s, r)
    <3>1. \E n \in Len(received[s][r]) + 1 .. Len(sent[s][r]) :
             received' = [received EXCEPT ![s][r] = SubSeq(sent[s][r], 1, n)]
      BY <2>6, <2>7, Zenon DEF got
    <3> QED BY <2>3, <3>1, Zenon DEF Promise!Receive
  <2> QED BY <2>2, <2>8, Zenon DEF Promise!Next
\* ... or reports the end of the stream, when every sender's rows have been returned.
<1>EndPromise.
  ASSUME SetsOfSenders, Inv, Prompt, faults'.late = faults.late, NEW r \in Receivers,
         UNCHANGED <<sent, received>>,
         ~ recvr[r].cancelled, recvr[r].queue = <<>>, recvr[r].remaining = 0,
         recvr' = [recvr EXCEPT ![r] = [recvr[r] EXCEPT !.pc = "close", !.outcome = "eos"]]
  PROVE  Promise!Next
  <2> USE <1>EndPromise
  <2>1. ASSUME NEW s \in Senders PROVE received[s][r] = sent[s][r]
    <3> DEFINE d == channel[s][r]
               out == Outstanding(handlers, s, r, sender[s], d)
    <3>1. Counted(handlers, s, r, d)
      BY AllCounted, Zenon
    <3>2. /\ ChannelOK(sender[s], r, d) /\ d.ok \in BOOLEAN
          /\ sent[s][r] \in Seq(Rows) /\ received[s][r] \in Seq(Rows)
      BY PipeTypes, Zenon
    <3>3. d.ok = TRUE /\ d.batch = <<>> /\ ~ d.in_flight
      BY <3>1, <3>2, Zenon DEF Counted, ChannelOK
    <3>4. out = <<>>
      <4>1. ChannelOK(sender[s], r, d) /\ ~ d.in_flight
        BY <3>2, <3>3, Zenon
      <4> HIDE DEF d
      <4> QED BY ONLY <4>1, NothingOut, Zenon
    <3>5. Pipe(recvr[r].queue, s, sent[s][r], received[s][r], d.ok, out, d.batch)
      BY Zenon DEF Prompt, PipeInv
    <3> HIDE DEF d, out
    <3>6. Pipe(<<>>, s, sent[s][r], received[s][r], TRUE, <<>>, <<>>)
      BY <3>3, <3>4, <3>5, Zenon
    <3> QED BY <3>2, <3>6, <1>PipeEnds, Zenon
  <2> DEFINE E == {i \in Receivers : recvr[i].outcome = "eos"}
  <2>2. E' = E \cup {r}
    <3>1. recvr \in [Receivers -> RecvrRec]
      BY Zenon DEF Inv, TypeInv
    <3>2. \A i \in Receivers : recvr'[i].outcome = IF i = r THEN "eos" ELSE recvr[i].outcome
      BY <3>1 DEF RecvrRec
    <3> QED BY <3>2, Zenon
  <2>3. Promise!End(r)
    BY <2>1, <2>2, Zenon DEF Promise!End
  <2> QED BY <2>3, Zenon DEF Promise!Next
\* GetBatch is a Receive, an End or neither.
<1>GetPromise.
  ASSUME SetsOfSenders, Inv, Prompt, faults'.late = faults.late, NEW r \in Receivers, GetBatch(r)
  PROVE  [Promise!Next]_(Promise!vars)
  <2> USE <1>GetPromise
  <2> DEFINE q == recvr[r]
  <2>1. recvr \in [Receivers -> RecvrRec] /\ q \in RecvrRec
    BY Zenon DEF Inv, TypeInv
  <2>2. q.pc = "get" /\ q.outcome = "open" /\ UNCHANGED sent
    BY Zenon DEF GetBatch, Inv, RecvrOK
  <2>3. CASE \/ recvr' = [recvr EXCEPT ![r] = [q EXCEPT !.pc = "close", !.outcome = "cancelled"]]
                   /\ UNCHANGED received
             \/ recvr' = [recvr EXCEPT ![r].pc = "wait"] /\ UNCHANGED received
    <3>1. \A i \in Receivers : recvr'[i].outcome = "eos" <=> recvr[i].outcome = "eos"
      BY <2>1, <2>2, <2>3, ZenonT(60) DEF RecvrRec
    <3> QED BY <2>2, <2>3, <3>1, <1>StuttersPromise, Zenon
  <2>4. CASE /\ ~ q.cancelled /\ q.queue = <<>> /\ q.remaining = 0
             /\ recvr' = [recvr EXCEPT ![r] = [q EXCEPT !.pc = "close", !.outcome = "eos"]]
             /\ UNCHANGED received
    BY <2>2, <2>4, <1>EndPromise, Zenon
  <2>5. CASE /\ HasBatch(q)
             /\ recvr' = [recvr EXCEPT ![r].queue = Tail(@),
                                       ![r].buffered = @ - Size(Head(q.queue).rows)]
             /\ received' = [received EXCEPT ![Head(q.queue).s][r] = @ \o Head(q.queue).rows]
    BY <2>2, <2>5, <1>TakePromise, Zenon
  <2> QED BY <2>3, <2>4, <2>5, Zenon DEF GetBatch
<1> SUFFICES ASSUME SetsOfSenders, Inv, PromptInv, [Next]_vars
             PROVE  [Promise!Next]_(Promise!vars)
  BY Zenon
<1>1. CASE UNCHANGED vars
  <2>1. UNCHANGED <<sent, received, recvr, faults>>
    BY <1>1, Zenon DEF vars
  <2> QED BY <2>1, <1>StuttersPromise, Zenon
<1>2. CASE faults'.late
  BY <1>2, Zenon DEF Promise!Next
<1>3. CASE Next /\ ~ faults'.late
  <2>1. Prompt /\ ~ faults.late
    BY <1>3, LateStays, Zenon DEF PromptInv
  <2>2. faults'.late = faults.late
    <3>1. faults \in [n : Nat, late : BOOLEAN]
      BY Zenon DEF Inv, TypeInv
    <3>2. faults'.late \in BOOLEAN
      BY <1>3, NextInv, Zenon DEF Inv, TypeInv
    <3> QED BY <1>3, <2>1, <3>1, <3>2, Zenon
  <2>3. ASSUME NEW s \in Senders, Send(s) \/ StartClose(s) \/ SenderStep(s)
        PROVE  [Promise!Next]_(Promise!vars)
    BY <2>1, <2>2, <2>3, <1>SenderPromise, Zenon
  <2>4. ASSUME NEW s \in Senders, NEW r \in Receivers,
               \/ AddRow(s, r) \/ SendFullBatch(s, r)
               \/ ChannelStep(s, r) \/ CallThrows(s, r)
        PROVE  [Promise!Next]_(Promise!vars)
    BY <2>1, <2>2, <2>4, <1>RowPromise, <1>CallPromise, Zenon
  <2>5. ASSUME NEW h \in handlers, HandlerStep(h) \/ AddSpurious(h)
        PROVE  [Promise!Next]_(Promise!vars)
    BY <2>2, <2>5, <1>HandlerPromise, Zenon
  <2>6. ASSUME NEW r \in Receivers,
               \/ RecvrStep(r) \/ CancelStep(r)
               \/ GetSpurious(r) \/ ReachedLimit(r) \/ Cancel(r)
        PROVE  [Promise!Next]_(Promise!vars)
    BY <2>1, <2>2, <2>6, <1>GetPromise, <1>RecvMovesPromise, Zenon DEF RecvrStep
  <2> QED BY <1>3, <2>3, <2>4, <2>5, <2>6, Zenon DEF Next
<1> QED BY <1>1, <1>2, <1>3, Zenon

-------------------------------------------------------------------------------
(* The theorems *)

INSTANCE FiniteSetTheorems

\* Senders is finite.
LEMMA SendersCount == SetsOfSenders
<1> SUFFICES ASSUME NEW U \in SUBSET Senders
             PROVE  /\ Cardinality(U) \in Nat
                    /\ Cardinality(U) = 0 => U = {}
                    /\ \A V \in SUBSET U : Cardinality(V) <= Cardinality(U)
                    /\ \A s \in U : Cardinality(U \ {s}) = Cardinality(U) - 1
  BY Zenon DEF SetsOfSenders
<1>1. IsFiniteSet(U)
  BY StreamAssumption, FS_Subset, Zenon
<1> QED BY <1>1, FS_CardinalityType, FS_EmptySet, FS_Subset, FS_RemoveElement

\* Whatever fails, a channel has at most one call, an rpc or an end-of-stream, a buffer that
\* was offered is not written before it has been taken, and a stream whose manager has
\* begun to cancel it is cancelled.
THEOREM Inductive == Spec => []Inv
<1>1. Init => Inv
  BY InitInv, SendersCount, Zenon
<1>2. Inv /\ [Next]_vars => Inv'
  BY NextInv, Zenon
<1> QED BY <1>1, <1>2, PTL DEF Spec

\* No wakeup is lost, neither of a handler that waits in AddBatch for room nor of
\* GetBatch, however many senders share the one data_removal_ and whichever of them
\* each notify_one picks, late failures and spurious wakeups included.
THEOREM NoWakeupLost == Spec => []WaitersWoken
<1>1. Init => Inv /\ WaitersWoken
  <2>1. ASSUME Init PROVE WaitersWoken
    BY <2>1, Zenon DEF Init, NewRecvr, WaitersWoken, SendersWoken, ReceiverWoken, Waiters
  <2> QED BY <2>1, InitInv, SendersCount
<1>2. Inv /\ WaitersWoken /\ [Next]_vars => Inv' /\ WaitersWoken'
  BY NextInv, NextWoken, Zenon
<1> QED BY <1>1, <1>2, PTL DEF Spec

\* The whole inductive invariant.
LEMMA Invariants == Spec => [](Inv /\ PromptInv)
<1>1. Init => Inv /\ PromptInv
  BY InitInv, InitPrompt, SendersCount, Zenon DEF PromptInv
<1>2. Inv /\ PromptInv /\ [Next]_vars => (Inv /\ PromptInv)'
  BY NextInv, NextPrompt, SendersCount
<1> QED BY <1>1, <1>2, PTL DEF Spec

\* num_remaining_senders_ counts every sender that has not begun to close its channel,
\* and a handler that adds a batch or an end-of-stream finds it positive, for any
\* number of senders and any number of lost and retried calls, until a call fails
\* after its request has arrived.
THEOREM RemainingIsRight == Spec => []RemainingCountsUnlessLate
<1>1. Inv /\ PromptInv => RemainingCountsUnlessLate
  BY PromptCounts, SendersCount, Zenon DEF PromptInv, RemainingCountsUnlessLate
<1> QED BY <1>1, Invariants, PTL

\* The stream implements module Exchange, for any number of senders, receivers, rows
\* and failures and any size of the buffers: what GetBatch returns of a sender is
\* always a prefix of what its Send was given, and GetBatch reports end-of-stream
\* only when it has returned everything and nobody sends any more, unless a call
\* failed after its request had arrived.
THEOREM StreamKeepsPromise == Spec => KeepsPromise
<1>1. Init => Promise!Init
  BY InitPromise, Zenon
<1>2. Inv /\ PromptInv /\ [Next]_vars => [Promise!Next]_(Promise!vars)
  BY NextPromise, SendersCount, Zenon
<1> QED BY <1>1, <1>2, Invariants, PTL DEF Spec, KeepsPromise, Promise!Spec
===============================================================================
