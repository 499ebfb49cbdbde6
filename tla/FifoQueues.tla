----------------------------- MODULE FifoQueues -----------------------------
(***************************************************************************)
(* What the per-CPU run queues promise: each CPU has a first-in first-out  *)
(* queue.  A process is appended to one queue; it leaves from the front,   *)
(* or from the middle when its own CPU takes it back; and it is stolen     *)
(* from the front of a queue only if another process stays behind on it.   *)
(***************************************************************************)
EXTENDS Integers, Sequences

CONSTANTS OnlineCpus, Proc

VARIABLE queue

CPU == 0 .. OnlineCpus - 1

Init == queue = [c \in CPU |-> <<>>]

Queued(p) == \E c \in CPU : \E i \in 1 .. Len(queue[c]) : queue[c][i] = p

Put(c, p) ==
    /\ ~ Queued(p)
    /\ queue' = [queue EXCEPT ![c] = Append(@, p)]

Get(c) ==
    /\ queue[c] # <<>>
    /\ queue' = [queue EXCEPT ![c] = Tail(@)]

Steal(c, b) ==
    /\ b # c /\ Len(queue[b]) >= 2
    /\ queue' = [queue EXCEPT ![b] = Tail(@)]

TakeOut(c, i) ==
    queue' = [queue EXCEPT ![c] = SubSeq(@, 1, i - 1) \o SubSeq(@, i + 1, Len(@))]

Next ==
    \/ \E c \in CPU, p \in Proc : Put(c, p)
    \/ \E c \in CPU : Get(c)
    \/ \E c, b \in CPU : Steal(c, b)
    \/ \E c \in CPU : \E i \in 1 .. Len(queue[c]) : TakeOut(c, i)

Spec == Init /\ [][Next]_queue
=============================================================================
