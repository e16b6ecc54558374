------------------------------- MODULE Exchange -------------------------------
(***************************************************************************)
(* What a data stream promises, without connections, threads or buffers:     *)
(* each receiver gets the rows of each sender in the order they were sent,   *)
(* none twice and none skipped, and end-of-stream only when it has them all. *)
(* The promise is void once an answer has been lost after its call arrived.  *)
(***************************************************************************)
EXTENDS Integers, Sequences

CONSTANTS Senders, Receivers, Batches

VARIABLES
    sent,       \* sent[s][r], the rows s has sent to r
    received,   \* received[s][r], the rows of s that r has got
    ended,      \* the receivers that were told the stream is at its end
    void        \* nothing is promised any more

vars == <<sent, received, ended, void>>

Init ==
    /\ sent = [s \in Senders |-> [r \in Receivers |-> <<>>]]
    /\ received = sent
    /\ ended = {}
    /\ void = FALSE

Send(s, r) ==
    /\ r \notin ended
    /\ \E batch \in Batches : sent' = [sent EXCEPT ![s][r] = @ \o batch]
    /\ UNCHANGED <<received, ended, void>>

Receive(s, r) ==
    /\ r \notin ended
    /\ \E n \in Len(received[s][r]) + 1 .. Len(sent[s][r]) :
          received' = [received EXCEPT ![s][r] = SubSeq(sent[s][r], 1, n)]
    /\ UNCHANGED <<sent, ended, void>>

End(r) ==
    /\ \A s \in Senders : received[s][r] = sent[s][r]
    /\ ended' = ended \cup {r}
    /\ UNCHANGED <<sent, received, void>>

Next ==
    \/ \E r \in Receivers : End(r) \/ \E s \in Senders : Send(s, r) \/ Receive(s, r)
    \/ void'

Spec == Init /\ [][Next]_vars

===============================================================================
