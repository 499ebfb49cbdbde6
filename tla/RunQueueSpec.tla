---------------------------- MODULE RunQueueSpec ----------------------------
(***************************************************************************)
(* The run queues on their own.  CPUs enqueue processes, dequeue from      *)
(* their own queue, steal from the busiest other queue and remove a        *)
(* process from the middle of its queue, in any order.  The discipline of  *)
(* the callers is a guard: enqueue is only called for a process on no      *)
(* queue, and removeFromQueue(home_cpu, p) for a process that is on the    *)
(* queue of its home CPU or on none.  (Sched asks whether the scheduler    *)
(* keeps that discipline.)                                                 *)
(*                                                                         *)
(* The ghost q[c] is the sequence of processes queue c should hold;        *)
(* Represents says that the linked list does hold it.                      *)
(***************************************************************************)
EXTENDS RunQueue, Sequences

VARIABLES
    home_cpu,   \* process -> the CPU it is assigned to
    q           \* ghost: CPU -> sequence of processes

vars == <<head, tail, len, rq_next, home_cpu, q>>

TypeOK ==
    /\ RQTypeOK
    /\ home_cpu \in [Proc -> CPU]
    /\ q \in [CPU -> Seq(Proc)]

Init ==
    /\ RQInit
    /\ home_cpu = [p \in Proc |-> 0]
    /\ q = [c \in CPU |-> <<>>]

On(c, p) == \E i \in 1 .. Len(q[c]) : q[c][i] = p
Queued(p) == \E c \in CPU : On(c, p)

\* makeRunnable, wakeProcess and the preemption path: assign p to CPU c and
\* append it to that CPU's queue.
enqueue(c, p) ==
    /\ ~ Queued(p)
    /\ enqueueUnlocked(c, p)
    /\ home_cpu' = [home_cpu EXCEPT ![p] = c]
    /\ q' = [q EXCEPT ![c] = Append(@, p)]

\* dequeueLocal: the CPU takes the first process of its own queue.
dequeue(c) ==
    /\ head[c] # Nil
    /\ dequeueUnlocked(c)
    /\ q' = [q EXCEPT ![c] = Tail(@)]
    /\ UNCHANGED home_cpu

\* trySteal: CPU c takes the first process of the busiest other queue and
\* becomes its home.
trySteal(c) ==
    \E b \in CPU :
        /\ Busiest(c, b)
        /\ dequeueUnlocked(b)
        /\ home_cpu' = [home_cpu EXCEPT ![head[b]] = c]
        /\ q' = [q EXCEPT ![b] = Tail(@)]

Without(s, p) ==
    LET i == CHOOSE i \in 1 .. Len(s) : s[i] = p
    IN  SubSeq(s, 1, i - 1) \o SubSeq(s, i + 1, Len(s))

\* The wake-up path of blockAndSchedule's idle loop.
remove(p) ==
    LET c == home_cpu[p]
    IN  /\ Queued(p) => On(c, p)
        /\ removeFromQueue(c, p)
        /\ q' = IF On(c, p) THEN [q EXCEPT ![c] = Without(@, p)] ELSE q
        /\ UNCHANGED home_cpu

Next ==
    \/ \E c \in CPU, p \in Proc : enqueue(c, p)
    \/ \E c \in CPU : dequeue(c)
    \/ \E c \in CPU : trySteal(c)
    \/ \E p \in Proc : remove(p)

Spec == Init /\ [][Next]_vars

-----------------------------------------------------------------------------
(* Properties.                                                             *)

\* head and tail of queue c are the ends of its sequence, rq_next links
\* neighbours and ends the list, and len counts it.
Lists(c) ==
    /\ len[c] = Len(q[c])
    /\ head[c] = IF q[c] = <<>> THEN Nil ELSE q[c][1]
    /\ tail[c] = IF q[c] = <<>> THEN Nil ELSE q[c][Len(q[c])]
    /\ \A i \in 1 .. Len(q[c]) :
          rq_next[q[c][i]] = IF i = Len(q[c]) THEN Nil ELSE q[c][i + 1]

\* runqueue.zig: the linked list of every CPU is exactly its sequence of
\* processes.
Represents == \A c \in CPU : Lists(c)

\* process.zig:125-126: "null when not on any runqueue": a process that is on
\* no queue has a null link, so a stale link never leads into a queue.
UnlinkedWhenOff == \A p \in Proc : ~ Queued(p) => rq_next[p] = Nil

\* A process is on at most one queue, and at most once on it, and that queue
\* belongs to its home CPU, although trySteal moves processes between CPUs.
OneQueue ==
    \A c, d \in CPU : \A i \in 1 .. Len(q[c]), j \in 1 .. Len(q[d]) :
        /\ q[c][i] = q[d][j] => c = d /\ i = j
        /\ home_cpu[q[c][i]] = c

\* The list found by following rq_next from the head of queue c.
ListOf(c) ==
    LET w[i \in 1 .. len[c]] ==
            IF i = 1 THEN head[c] ELSE IF w[i - 1] = Nil THEN Nil ELSE rq_next[w[i - 1]]
    IN  w

\* runqueue.zig: read as lists, the queues are first-in first-out queues from
\* which only a queue of two or more is stolen from (the promise stated in
\* FifoQueues); no operation reorders, duplicates or drops a process.
Fifo == INSTANCE FifoQueues WITH queue <- [c \in CPU |-> ListOf(c)]
FifoSpec == Fifo!Spec

\* runqueue.zig: the lists, the links of processes that are on none, and the
\* assignment of processes to queues are sound together.
ListsSound == TypeOK /\ Represents /\ UnlinkedWhenOff /\ OneQueue
=============================================================================
