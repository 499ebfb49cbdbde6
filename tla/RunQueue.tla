------------------------------ MODULE RunQueue ------------------------------
(***************************************************************************)
(* The per-CPU run queues of the aarch64 kernel (runqueue.zig): intrusive  *)
(* singly linked lists of processes, one per CPU, each with a head, a      *)
(* tail and a length.  Each function takes the lock of the one queue it    *)
(* changes for its whole body, so it is one step here.  The operators say  *)
(* what a call does to head, tail, len and rq_next; RunQueueSpec checks    *)
(* them on their own and Sched calls them from the scheduler.              *)
(***************************************************************************)
EXTENDS Integers, FiniteSets

CONSTANTS
    OnlineCpus,   \* smp.online_cpus
    Proc,         \* the slots of the process table
    Nil           \* the null pointer

ASSUME RunQueueAssumption ==
    /\ OnlineCpus \in Nat \ {0}
    /\ IsFiniteSet(Proc)
    /\ Nil \notin Proc

VARIABLES head, tail, len, rq_next

rqVars == <<head, tail, len, rq_next>>

CPU == 0 .. OnlineCpus - 1

RQTypeOK ==
    /\ head \in [CPU -> Proc \cup {Nil}]
    /\ tail \in [CPU -> Proc \cup {Nil}]
    /\ len \in [CPU -> Nat]
    /\ rq_next \in [Proc -> Proc \cup {Nil}]

RQInit ==
    /\ head = [c \in CPU |-> Nil]
    /\ tail = [c \in CPU |-> Nil]
    /\ len = [c \in CPU |-> 0]
    /\ rq_next = [p \in Proc |-> Nil]

-----------------------------------------------------------------------------
\* Mutant: the process is put at the front.
enqueueUnlocked_front(c, p) ==
    /\ rq_next' = [rq_next EXCEPT ![p] = head[c]]
    /\ head' = [head EXCEPT ![c] = p]
    /\ tail' = IF tail[c] = Nil THEN [tail EXCEPT ![c] = p] ELSE tail
    /\ len' = [len EXCEPT ![c] = @ + 1]

enqueueUnlocked(c, p) ==
    /\ rq_next' = IF tail[c] = Nil
                  THEN [rq_next EXCEPT ![p] = Nil]
                  ELSE [rq_next EXCEPT ![p] = Nil, ![tail[c]] = p]
    /\ head' = IF tail[c] = Nil THEN [head EXCEPT ![c] = p] ELSE head
    /\ tail' = [tail EXCEPT ![c] = p]
    /\ len' = [len EXCEPT ![c] = @ + 1]

\* Mutant: the link of the dequeued process is not cleared.
dequeueUnlocked_keepLink(c) ==
    /\ head' = [head EXCEPT ![c] = rq_next[head[c]]]
    /\ tail' = IF rq_next[head[c]] = Nil THEN [tail EXCEPT ![c] = Nil] ELSE tail
    /\ rq_next' = rq_next
    /\ len' = [len EXCEPT ![c] = @ - 1]

\* The caller gets head[c]; only called with head[c] # Nil.
dequeueUnlocked(c) ==
    /\ head' = [head EXCEPT ![c] = rq_next[head[c]]]
    /\ tail' = IF rq_next[head[c]] = Nil THEN [tail EXCEPT ![c] = Nil] ELSE tail
    /\ rq_next' = [rq_next EXCEPT ![head[c]] = Nil]
    /\ len' = [len EXCEPT ![c] = @ - 1]

\* w is the list walk of removeFromQueue: it starts at the head of queue c,
\* follows rq_next, and stops at the first node that is p.
Walk(c, p, k, w) ==
    /\ w[0] = head[c] /\ w[k] = p
    /\ \A i \in 0 .. k - 1 : w[i] # p /\ rq_next[w[i]] = w[i + 1]

Unlink(c, p, prev) ==
    /\ head' = IF prev = Nil THEN [head EXCEPT ![c] = rq_next[p]] ELSE head
    /\ tail' = IF tail[c] = p THEN [tail EXCEPT ![c] = prev] ELSE tail
    /\ rq_next' = IF prev = Nil
                  THEN [rq_next EXCEPT ![p] = Nil]
                  ELSE [rq_next EXCEPT ![prev] = rq_next[p], ![p] = Nil]
    /\ len' = [len EXCEPT ![c] = @ - 1]

Steps == 0 .. Cardinality(Proc) - 1

\* Mutant: removing the last node leaves tail pointing at it.
removeFromQueue_keepTail(c, p) ==
    \/ \E k \in Steps : \E w \in [0 .. k -> Proc] :
          LET prev == IF k = 0 THEN Nil ELSE w[k - 1]
          IN  /\ Walk(c, p, k, w)
              /\ head' = IF prev = Nil THEN [head EXCEPT ![c] = rq_next[p]] ELSE head
              /\ rq_next' = IF prev = Nil
                            THEN [rq_next EXCEPT ![p] = Nil]
                            ELSE [rq_next EXCEPT ![prev] = rq_next[p], ![p] = Nil]
              /\ len' = [len EXCEPT ![c] = @ - 1]
              /\ UNCHANGED tail
    \/ /\ ~ \E k \in Steps : \E w \in [0 .. k -> Proc] : Walk(c, p, k, w)
       /\ UNCHANGED rqVars

removeFromQueue(c, p) ==
    \/ \E k \in Steps : \E w \in [0 .. k -> Proc] :
          /\ Walk(c, p, k, w)
          /\ Unlink(c, p, IF k = 0 THEN Nil ELSE w[k - 1])
    \/ /\ ~ \E k \in Steps : \E w \in [0 .. k -> Proc] : Walk(c, p, k, w)
       /\ UNCHANGED rqVars

\* leastLoadedCpu: the first CPU of minimal length.
leastLoadedCpu ==
    CHOOSE c \in CPU : /\ \A d \in CPU : len[c] <= len[d]
                       /\ \A d \in 0 .. c - 1 : len[c] < len[d]

\* The queue trySteal takes from: the first other CPU of maximal length,
\* when that length is at least 2.
Busiest(c, b) ==
    /\ b # c /\ len[b] >= 2
    /\ \A d \in CPU \ {c} : len[d] <= len[b]
    /\ \A d \in (0 .. b - 1) \ {c} : len[d] < len[b]
=============================================================================
