------------------------------- MODULE Futex -------------------------------
(***************************************************************************)
(* Futexes (futex.zig): waiters recorded in a table of slots and chained   *)
(* by hash bucket, under futex_lock.  Each function's critical section is  *)
(* one action; the calls of wakeProcess that follow it are a step each.    *)
(* A futex word is user memory that threads store to without any lock.     *)
(*                                                                         *)
(* Slot numbers and chain links are bytes and 0xFF ends a chain, while     *)
(* there are 256 slots: the last slot's number is the end marker.  The     *)
(* model keeps that relation with fewer slots.                             *)
(***************************************************************************)
EXTENDS Integers, Sequences, FiniteSets

CONSTANTS
    Thread,
    Slots,        \* MAX_WAITERS
    Addr,         \* physical addresses of the futex words, as numbers
    Buckets,      \* HASH_BUCKETS
    Pairs,        \* the pairs of words threads requeue between
    PollPeriod,   \* polls between two wake-ups of everybody
    MaxSignals,   \* bound on signals that interrupt a wait
    None          \* no thread

End == Slots - 1
Slot == 0 .. Slots - 1
Word == 0 .. 1

ASSUME FutexAssumption ==
    /\ None \notin Thread
    /\ Slots \in Nat \ {0} /\ Buckets \in Nat \ {0} /\ PollPeriod \in Nat \ {0}
    /\ Addr \subseteq Nat /\ Addr # {} /\ Pairs \subseteq Addr \X Addr /\ MaxSignals \in Nat

VARIABLES
    word,           \* address -> value
    wait_queue,     \* slot -> WaitEntry
    hash_buckets,   \* bucket -> first slot of its chain
    poll_tick,
    state,          \* thread -> "running", "blocked_on_futex", "ready"
    wake_pids,      \* thread, or None for the timer -> processes still to wake
    owes,           \* thread -> {} or the word it has stored to and not yet woken
    signals         \* signals sent so far

vars == <<word, wait_queue, hash_buckets, poll_tick, state, wake_pids, owes, signals>>

Entry == [pid : Thread \cup {None}, phys_addr : Addr, expected_val : Word,
          in_use : BOOLEAN, hash_next : Slot]

TypeOK ==
    /\ word \in [Addr -> Word]
    /\ wait_queue \in [Slot -> Entry]
    /\ hash_buckets \in [0 .. Buckets - 1 -> Slot]
    /\ poll_tick \in 0 .. PollPeriod - 1
    /\ state \in [Thread -> {"running", "blocked_on_futex", "ready"}]
    /\ wake_pids \in [Thread \cup {None} -> Seq(Thread)]
    /\ owes \in [Thread -> SUBSET Addr]
    /\ signals \in 0 .. MaxSignals

\* A slot not in use.  The code leaves the rest of a freed entry as it was and
\* never reads it before the slot is filled again.
Free == [pid |-> None, phys_addr |-> CHOOSE a \in Addr : TRUE, expected_val |-> 0,
         in_use |-> FALSE, hash_next |-> End]

Init ==
    /\ word = [a \in Addr |-> 0]
    /\ wait_queue = [i \in Slot |-> Free]
    /\ hash_buckets = [b \in 0 .. Buckets - 1 |-> End]
    /\ poll_tick = 0
    /\ state = [t \in Thread |-> "running"]
    /\ wake_pids = [t \in Thread \cup {None} |-> <<>>]
    /\ owes = [t \in Thread |-> {}]
    /\ signals = 0

futexHash(a) == a % Buckets

\* A thread that executes user code.
InUser(t) == state[t] = "running" /\ wake_pids[t] = <<>>

-----------------------------------------------------------------------------
(* The walk over the chain of one bucket.                                  *)

\* Take the entry at w.cur out of the chain of bucket b.
Unchain(w, b) ==
    LET next == w.queue[w.cur].hash_next
    IN  IF w.prev # None
        THEN [w EXCEPT !.queue[w.prev].hash_next = next]
        ELSE [w EXCEPT !.heads[b] = next]

\* One round of the loop of futexRequeue for words a and a2: wake up to n
\* waiters of a, then move up to m to a2.  futexWake and wakeAddress are the
\* case m = 0.
Visit(w, a, a2, n, m) ==
    LET cur  == w.cur
        next == w.queue[cur].hash_next
        u    == Unchain(w, futexHash(a))
        b2   == futexHash(a2)
    IN  IF ~ w.queue[cur].in_use \/ w.queue[cur].phys_addr # a
        THEN [w EXCEPT !.prev = cur, !.cur = next]
        ELSE IF Len(w.pids) < n
        THEN [u EXCEPT !.pids = Append(@, w.queue[cur].pid),
                       !.queue[cur] = Free, !.cur = next]
        ELSE IF w.moved < m
        THEN [u EXCEPT !.queue[cur] = [@ EXCEPT !.phys_addr = a2, !.hash_next = u.heads[b2]],
                       !.heads[b2] = cur, !.moved = @ + 1, !.cur = next]
        ELSE [w EXCEPT !.prev = cur, !.cur = next]

Walk(a, a2, n, m) ==
    LET start == [heads |-> hash_buckets, queue |-> wait_queue, prev |-> None,
                  cur |-> hash_buckets[futexHash(a)], pids |-> <<>>, moved |-> 0]
        after[k \in 0 .. Slots] ==
            IF k = 0 THEN start
            ELSE LET w == after[k - 1] IN IF w.cur = End THEN w ELSE Visit(w, a, a2, n, m)
    IN  after[Slots]

-----------------------------------------------------------------------------
\* The word still has the value the caller saw.
Expected(a, v) == word[a] = v

\* The entry a waiter on a is chained with: in front of its bucket.
Chained(i, a) == [wait_queue[i] EXCEPT !.hash_next = hash_buckets[futexHash(a)]]

\* FUTEX_WAIT: v is the value the caller saw earlier.
futexWait(t, a, v) ==
    LET free == {i \in Slot : ~ wait_queue[i].in_use}
        slot == CHOOSE i \in free : \A j \in free : i <= j
    IN  /\ InUser(t) /\ owes[t] = {}
        /\ Expected(a, v) /\ free # {}      \* otherwise -EAGAIN, -ENOMEM
        /\ wait_queue' = [wait_queue EXCEPT ![slot] =
                            [Chained(slot, a) EXCEPT !.pid = t, !.phys_addr = a,
                                                     !.expected_val = v, !.in_use = TRUE]]
        /\ hash_buckets' = [hash_buckets EXCEPT ![futexHash(a)] = slot]
        /\ state' = [state EXCEPT ![t] = "blocked_on_futex"]
        /\ UNCHANGED <<word, poll_tick, wake_pids, owes, signals>>

\* A thread changes a word, and will wake its waiters.
Store(t, a) ==
    /\ InUser(t) /\ owes[t] = {}
    /\ word' = [word EXCEPT ![a] = 1 - @]
    /\ owes' = [owes EXCEPT ![t] = {a}]
    /\ UNCHANGED <<wait_queue, hash_buckets, poll_tick, state, wake_pids, signals>>

\* Mutant: the processes taken out of the table are forgotten.
Collect_drop(t, w) ==
    /\ wait_queue' = w.queue
    /\ hash_buckets' = w.heads
    /\ UNCHANGED wake_pids

\* The critical section of FUTEX_WAKE, FUTEX_REQUEUE and wakeAddress.
Collect(t, w) ==
    /\ wait_queue' = w.queue
    /\ hash_buckets' = w.heads
    /\ wake_pids' = [wake_pids EXCEPT ![t] = w.pids]

futexWake(t, a, n) ==
    /\ InUser(t)
    /\ Collect(t, Walk(a, a, n, 0))
    /\ owes' = [owes EXCEPT ![t] = IF n = Slots THEN @ \ {a} ELSE @]
    /\ UNCHANGED <<word, poll_tick, state, signals>>

futexRequeue(t, a, a2, n, m) ==
    /\ InUser(t) /\ owes[t] = {} /\ <<a, a2>> \in Pairs
    /\ Collect(t, Walk(a, a2, n, m))
    /\ UNCHANGED <<word, poll_tick, state, owes, signals>>

\* Mutant: a poll does not wake everybody from time to time.
Due_never(i) ==
    /\ wait_queue[i].in_use
    /\ word[wait_queue[i].phys_addr] # wait_queue[i].expected_val

\* pollWaiters wakes a waiter whose word has changed, and now and then all.
Due(i) ==
    /\ wait_queue[i].in_use
    /\ \/ word[wait_queue[i].phys_addr] # wait_queue[i].expected_val
       \/ (poll_tick + 1) % PollPeriod = 0

\* The walk along the chain of bucket b up to entry i or the end: the entry
\* before, and the entry, where it stops.
Found(w, b, i) ==
    LET at[k \in 0 .. Slots] ==
            IF k = 0 THEN <<None, w.heads[b]>>
            ELSE LET l == at[k - 1]
                 IN  IF l[2] \in {i, End} THEN l ELSE <<l[2], w.queue[l[2]].hash_next>>
    IN  at[Slots]

\* One round of the loop of pollWaiters: entry i is freed, and taken out of
\* the chain of its bucket if it is there.
PollStep(w, i) ==
    LET b     == futexHash(w.queue[i].phys_addr)
        found == Found(w, b, i)
        u     == [w EXCEPT !.pids = Append(@, w.queue[i].pid),
                           !.queue[i] = [Free EXCEPT !.hash_next = w.queue[i].hash_next]]
    IN  IF found[2] = End THEN u
        ELSE [Unchain([u EXCEPT !.prev = found[1], !.cur = i], b) EXCEPT !.queue[i] = Free]

pollWaiters ==
    LET start == [heads |-> hash_buckets, queue |-> wait_queue, prev |-> None,
                  cur |-> End, pids |-> <<>>, moved |-> 0]
        after[i \in 0 .. Slots] ==
            IF i = 0 THEN start
            ELSE IF Due(i - 1) THEN PollStep(after[i - 1], i - 1) ELSE after[i - 1]
    IN  /\ wake_pids[None] = <<>>
        /\ poll_tick' = (poll_tick + 1) % PollPeriod
        /\ Collect(None, after[Slots])
        /\ UNCHANGED <<word, state, owes, signals>>

\* scheduler.wakeProcess for the next collected process.
WakeOne(t) ==
    /\ wake_pids[t] # <<>>
    /\ LET p == Head(wake_pids[t])
       IN  state' = IF state[p] = "blocked_on_futex" THEN [state EXCEPT ![p] = "ready"] ELSE state
    /\ wake_pids' = [wake_pids EXCEPT ![t] = Tail(@)]
    /\ UNCHANGED <<word, wait_queue, hash_buckets, poll_tick, owes, signals>>

\* signal.zig postSignal: SIGCONT and SIGKILL wake a waiter, whose entry stays
\* in the table.
Signal(p) ==
    /\ signals < MaxSignals /\ state[p] = "blocked_on_futex"
    /\ signals' = signals + 1
    /\ state' = [state EXCEPT ![p] = "ready"]
    /\ UNCHANGED <<word, wait_queue, hash_buckets, poll_tick, wake_pids, owes>>

\* The scheduler resumes the thread: FUTEX_WAIT returns.
Resume(t) ==
    /\ state[t] = "ready"
    /\ state' = [state EXCEPT ![t] = "running"]
    /\ UNCHANGED <<word, wait_queue, hash_buckets, poll_tick, wake_pids, owes, signals>>

Next ==
    \/ \E t \in Thread, a \in Addr :
          \/ \E v \in Word : futexWait(t, a, v)
          \/ Store(t, a)
          \/ \E n \in {1, Slots} : futexWake(t, a, n)
          \/ \E a2 \in Addr : \E n \in {0, 1} : futexRequeue(t, a, a2, n, Slots)
    \/ pollWaiters
    \/ \E t \in Thread \cup {None} : WakeOne(t)
    \/ \E t \in Thread : Signal(t) \/ Resume(t)

Spec == Init /\ [][Next]_vars

\* The timer ticks, wake-ups are carried out, and ready threads are run.
FairSpec == /\ Spec /\ WF_vars(pollWaiters)
            /\ \A t \in Thread \cup {None} : WF_vars(WakeOne(t))
            /\ \A t \in Thread : WF_vars(Resume(t))

-----------------------------------------------------------------------------
(* Properties.                                                             *)

\* The slots of the chain of a bucket, in order.
Chain(b) ==
    LET walk[k \in 0 .. Slots] ==
            IF k = 0 THEN <<>>
            ELSE LET s == walk[k - 1]
                     c == IF s = <<>> THEN hash_buckets[b]
                          ELSE wait_queue[s[Len(s)]].hash_next
                 IN  IF c = End THEN s ELSE Append(s, c)
    IN  walk[Slots]

Places(i) == {at \in (0 .. Buckets - 1) \X (1 .. Slots) :
                at[2] <= Len(Chain(at[1])) /\ Chain(at[1])[at[2]] = i}

\* futex.zig: "Hash bucket heads -- each points to the first WaitEntry index in
\* the chain": every waiter can be found through the bucket of its address,
\* once, and a chain holds nothing else.
ChainsComplete ==
    \A i \in Slot :
        IF wait_queue[i].in_use
        THEN \E k \in 1 .. Slots : Places(i) = {<<futexHash(wait_queue[i].phys_addr), k>>}
        ELSE Places(i) = {}

\* futexWait, "If value changed since caller checked, return EAGAIN": nobody
\* waits for a value the word has lost, unless the thread that changed the
\* word has still to wake its waiters.  (Not said of a word waiters are moved
\* to: futexRequeue leaves them the expected value of the old word.)
NoLostWake ==
    \A i \in Slot :
        LET e == wait_queue[i]
        IN  e.in_use /\ e.phys_addr \notin {r[2] : r \in Pairs} /\ word[e.phys_addr] # e.expected_val =>
              \E t \in Thread : e.phys_addr \in owes[t]

\* futex.zig and wakeProcess: a sleeping thread is in the table, or somebody
\* who took it out is about to wake it.  It holds through requeueing, stale
\* entries left by signals, and waiters the chains have lost.
SleeperListed ==
    \A t \in Thread : state[t] = "blocked_on_futex" =>
        \/ \E i \in Slot : wait_queue[i].in_use /\ wait_queue[i].pid = t
        \/ \E u \in Thread \cup {None} : \E k \in 1 .. Len(wake_pids[u]) : wake_pids[u][k] = t

\* pollWaiters: "wake any whose futex word has changed OR who have been blocked
\* too long": no wait lasts for ever.
WaitEnds == \A t \in Thread : state[t] = "blocked_on_futex" ~> state[t] # "blocked_on_futex"

\* futex.zig: "FUTEX_WAKE (wake N waiters)": the processes a wake counts are
\* waiting.
WakesWaiters ==
    [][\A t \in Thread, a \in Addr : futexWake(t, a, 1) =>
          \A k \in 1 .. Len(wake_pids'[t]) : state[wake_pids'[t][k]] = "blocked_on_futex"]_vars

\* futex.zig: the table is well formed and no sleeping thread is forgotten.
TableSound == TypeOK /\ SleeperListed
=============================================================================
