----------------------------- MODULE PipeChannel -----------------------------
(***************************************************************************)
(* What a pipe promises its users: a bounded FIFO of bytes.  Writers move  *)
(* bytes from their buffers to its end, readers from its front to theirs,  *)
(* any number at a time; nothing is lost, repeated or reordered.  Bytes    *)
(* not yet sent are dropped when a write fails, bytes not yet received     *)
(* when the pipe is destroyed.                                             *)
(***************************************************************************)
EXTENDS Integers, Sequences

CONSTANTS Procs, Bytes, Capacity

VARIABLES open, chan, unsent, received

chan_vars == <<open, chan, unsent, received>>

Init ==
    /\ open = FALSE
    /\ chan = <<>>
    /\ unsent = [p \in Procs |-> <<>>]
    /\ received = [p \in Procs |-> <<>>]

Open ==
    /\ ~open /\ open'
    /\ UNCHANGED <<chan, unsent, received>>

Destroy ==
    /\ open /\ ~open'
    /\ chan' = <<>>
    /\ UNCHANGED <<unsent, received>>

StartWrite(p, data) ==
    /\ unsent[p] = <<>>
    /\ unsent' = [unsent EXCEPT ![p] = data]
    /\ UNCHANGED <<open, chan, received>>

StartRead(p) ==
    /\ received' = [received EXCEPT ![p] = <<>>]
    /\ UNCHANGED <<open, chan, unsent>>

Send(p, n) ==
    /\ open
    /\ Len(chan) + n <= Capacity
    /\ chan' = chan \o SubSeq(unsent[p], 1, n)
    /\ unsent' = [unsent EXCEPT ![p] = SubSeq(@, n + 1, Len(@))]
    /\ UNCHANGED <<open, received>>

FailWrite(p) ==
    /\ unsent' = [unsent EXCEPT ![p] = <<>>]
    /\ UNCHANGED <<open, chan, received>>

Receive(p, n) ==
    /\ open
    /\ received' = [received EXCEPT ![p] = @ \o SubSeq(chan, 1, n)]
    /\ chan' = SubSeq(chan, n + 1, Len(chan))
    /\ UNCHANGED <<open, unsent>>

Next ==
    \/ Open
    \/ Destroy
    \/ \E p \in Procs :
        \/ unsent'[p] \in Seq(Bytes) /\ StartWrite(p, unsent'[p])
        \/ StartRead(p)
        \/ \E n \in 1..Len(unsent[p]) : Send(p, n)
        \/ FailWrite(p)
        \/ \E n \in 1..Len(chan) : Receive(p, n)

Spec == Init /\ [][Next]_chan_vars
=============================================================================
