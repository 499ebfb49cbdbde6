---------------------------- MODULE Futex_proofs ----------------------------
(***************************************************************************)
(* No sleeping thread is forgotten by the futex table, for any number of   *)
(* threads, slots, buckets and words, whatever has become of the chains.   *)
(***************************************************************************)
EXTENDS Futex, LeastNumber, SequenceTheorems, TLAPS

\* Every waiter recorded is a thread.
Used == \A i \in Slot : wait_queue[i].in_use => wait_queue[i].pid \in Thread

FutexInv == TypeOK /\ Used /\ SleeperListed

\* In the course of a walk over the table q0, with q the table now and pids the
\* processes taken out: nobody is lost.
Kept(q0, q, pids) ==
    /\ \A i \in Slot : q[i].in_use => q[i].pid \in Thread
    /\ \A i \in Slot : q0[i].in_use =>
          \/ q[i].in_use /\ q[i].pid = q0[i].pid
          \/ \E k \in 1 .. Len(pids) : pids[k] = q0[i].pid

Heads == [0 .. Buckets - 1 -> Slot]

\* The states of the loops of futexWake, futexRequeue and pollWaiters.
WakeState == [heads : Heads, queue : [Slot -> Entry], prev : Slot \cup {None}, cur : Slot,
              pids : Seq(Thread), moved : Nat]

LEMMA Facts ==
    /\ End \in Slot /\ Free \in Entry /\ ~ Free.in_use /\ Slots \in Nat
    /\ \A a \in Addr : futexHash(a) \in 0 .. Buckets - 1
<1>1. End \in Slot
  BY FutexAssumption DEF End, Slot
<1>2. (CHOOSE a \in Addr : TRUE) \in Addr
  BY FutexAssumption
<1>3. Free \in Entry /\ ~ Free.in_use
  BY <1>1, <1>2 DEF Free, Entry, Word
<1>4. \A a \in Addr : futexHash(a) \in 0 .. Buckets - 1
  BY FutexAssumption DEF futexHash
<1> QED BY <1>1, <1>3, <1>4, FutexAssumption

\* An entry is an entry whatever its link, address and user.
LEMMA EntryFields ==
    ASSUME NEW e \in Entry, NEW h \in Slot, NEW a \in Addr
    PROVE  /\ [e EXCEPT !.hash_next = h] \in Entry
           /\ [e EXCEPT !.hash_next = h].in_use = e.in_use
           /\ [e EXCEPT !.hash_next = h].pid = e.pid
           /\ [e EXCEPT !.hash_next = h].phys_addr = e.phys_addr
           /\ [e EXCEPT !.phys_addr = a] \in Entry
           /\ [e EXCEPT !.phys_addr = a].in_use = e.in_use
           /\ [e EXCEPT !.phys_addr = a].pid = e.pid
BY DEF Entry

\* A table whose entries have the users of another.
Alike(q, r) == \A i \in Slot : q[i].in_use = r[i].in_use /\ q[i].pid = r[i].pid

LEMMA LinkAlike ==
    ASSUME NEW q \in [Slot -> Entry], NEW i \in Slot, NEW h \in Slot
    PROVE  [q EXCEPT ![i].hash_next = h] \in [Slot -> Entry] /\ Alike([q EXCEPT ![i].hash_next = h], q)
<1>1. PICK a \in Addr : TRUE
  BY FutexAssumption, Zenon
<1>2. PICK e \in Entry : e = [q[i] EXCEPT !.hash_next = h] /\ e.in_use = q[i].in_use /\ e.pid = q[i].pid
  BY <1>1, EntryFields, Zenon
<1>3. [q EXCEPT ![i].hash_next = h] = [q EXCEPT ![i] = e]
  BY <1>2
<1>4. [q EXCEPT ![i] = e] \in [Slot -> Entry] /\ Alike([q EXCEPT ![i] = e], q)
  BY <1>2 DEF Alike
<1> QED BY <1>3, <1>4

-----------------------------------------------------------------------------
(* One round of the loop of futexWake and futexRequeue.                    *)

\* Unlinking an entry changes links only.
LEMMA UnchainWake ==
    ASSUME NEW w \in WakeState, NEW b \in 0 .. Buckets - 1
    PROVE  /\ Unchain(w, b) \in WakeState /\ Alike(Unchain(w, b).queue, w.queue)
           /\ Unchain(w, b).pids = w.pids /\ Unchain(w, b).cur = w.cur
<1>1. /\ w.queue \in [Slot -> Entry] /\ w.cur \in Slot /\ w.prev \in Slot \cup {None}
      /\ w.heads \in Heads
  BY DEF WakeState
<1>2. PICK h \in Slot : h = w.queue[w.cur].hash_next
  BY <1>1 DEF Entry
<1>3. CASE w.prev # None
  <2>1. PICK q : q = [w.queue EXCEPT ![w.prev].hash_next = h]
    BY Zenon
  <2>2. q \in [Slot -> Entry] /\ Alike(q, w.queue)
    BY <1>1, <1>3, <2>1, LinkAlike, Zenon
  <2>3. Unchain(w, b) = [w EXCEPT !.queue = q]
    BY <1>2, <1>3, <2>1 DEF Unchain, WakeState
  <2> QED BY <2>2, <2>3 DEF WakeState
<1>4. CASE w.prev = None
  <2>0. [w.heads EXCEPT ![b] = h] \in Heads
    BY <1>1 DEF Heads
  <2>1. PICK g \in Heads : g = [w.heads EXCEPT ![b] = h]
    BY <2>0
  <2>2. Unchain(w, b) = [w EXCEPT !.heads = g]
    BY <1>2, <1>4, <2>1 DEF Unchain, WakeState
  <2> QED BY <2>1, <2>2, Zenon DEF WakeState, Alike
<1> QED BY <1>3, <1>4

LEMMA AlikeKept ==
    ASSUME NEW q0, NEW q, NEW r, NEW pids, Kept(q0, q, pids), Alike(r, q)
    PROVE  Kept(q0, r, pids)
BY DEF Kept, Alike

\* An entry is freed and its process collected.
LEMMA TakenKept ==
    ASSUME NEW q0, NEW q \in [Slot -> Entry], NEW pids \in Seq(Thread), Kept(q0, q, pids),
           NEW i \in Slot, q[i].in_use, NEW e \in Entry, ~ e.in_use
    PROVE  /\ Append(pids, q[i].pid) \in Seq(Thread) /\ [q EXCEPT ![i] = e] \in [Slot -> Entry]
           /\ Kept(q0, [q EXCEPT ![i] = e], Append(pids, q[i].pid))
<1>1. PICK t \in Thread : t = q[i].pid
  BY DEF Kept
<1>r. PICK r : r = [q EXCEPT ![i] = e]
  BY Zenon
<1>2. /\ r = [q EXCEPT ![i] = e] /\ r \in [Slot -> Entry] /\ r[i] = e
      /\ \A j \in Slot : j # i => r[j] = q[j]
  BY <1>r
<1>3. PICK ps : ps = Append(pids, t)
  BY Zenon
<1>4. /\ ps \in Seq(Thread) /\ Len(pids) \in Nat /\ Len(ps) = Len(pids) + 1
      /\ ps[Len(pids) + 1] = t /\ \A k \in 1 .. Len(pids) : ps[k] = pids[k]
  BY <1>3, AppendProperties
<1>5. \A j \in Slot : r[j].in_use => r[j].pid \in Thread
  BY <1>2 DEF Kept
<1>6. ASSUME NEW j \in Slot, q0[j].in_use
      PROVE  \/ r[j].in_use /\ r[j].pid = q0[j].pid
             \/ \E k \in 1 .. Len(ps) : ps[k] = q0[j].pid
  <2>1. CASE q[j].in_use /\ q[j].pid = q0[j].pid /\ j # i
    BY <1>2, <2>1
  <2>2. CASE q[j].pid = q0[j].pid /\ j = i
    <3>1. Len(pids) + 1 \in 1 .. Len(ps)
      BY <1>4
    <3> QED BY <1>1, <1>4, <2>2, <3>1
  <2>3. CASE \E k \in 1 .. Len(pids) : pids[k] = q0[j].pid
    <3>1. PICK k \in 1 .. Len(pids) : pids[k] = q0[j].pid
      BY <2>3
    <3>2. k \in 1 .. Len(ps)
      BY <1>4
    <3> QED BY <1>4, <3>1, <3>2
  <2> QED BY <1>6, <2>1, <2>2, <2>3 DEF Kept
<1>7. Kept(q0, r, ps)
  BY <1>5, <1>6 DEF Kept
<1> QED BY <1>1, <1>2, <1>3, <1>4, <1>7

\* The states of the loop over the table q0.
Waking(q0) == {w \in WakeState : Kept(q0, w.queue, w.pids)}

LEMMA VisitKept ==
    ASSUME NEW q0, NEW w \in Waking(q0), NEW a \in Addr, NEW a2 \in Addr, NEW n, NEW m
    PROVE  Visit(w, a, a2, n, m) \in Waking(q0)
<1> DEFINE b == futexHash(a)
           b2 == futexHash(a2)
<1>1. w \in WakeState /\ Kept(q0, w.queue, w.pids) /\ b \in 0 .. Buckets - 1 /\ b2 \in 0 .. Buckets - 1
  BY Facts DEF Waking
<1> HIDE DEF b, b2
<1>2. w.queue \in [Slot -> Entry] /\ w.cur \in Slot /\ w.pids \in Seq(Thread) /\ w.moved \in Nat
  BY <1>1 DEF WakeState
<1>3. PICK c \in Slot : c = w.cur
  BY <1>2
<1>4. PICK next \in Slot : next = w.queue[c].hash_next
  BY <1>2, <1>3 DEF Entry
<1>5. PICK u \in WakeState : /\ u = Unchain(w, b) /\ Alike(u.queue, w.queue)
                             /\ u.pids = w.pids /\ u.cur = c
  BY <1>1, <1>3, UnchainWake
<1>6. /\ u.queue \in [Slot -> Entry] /\ u.heads \in Heads /\ u.moved \in Nat
      /\ Kept(q0, u.queue, u.pids) /\ u.queue[c].in_use = w.queue[c].in_use
      /\ u.queue[c].pid = w.queue[c].pid
  BY <1>1, <1>5, AlikeKept DEF WakeState, Alike
<1>7. \/ Visit(w, a, a2, n, m) = [w EXCEPT !.prev = c, !.cur = next]
      \/ /\ w.queue[c].in_use
         /\ Visit(w, a, a2, n, m) = [u EXCEPT !.pids = Append(@, w.queue[c].pid),
                                              !.queue[c] = Free, !.cur = next]
      \/ Visit(w, a, a2, n, m) = [u EXCEPT !.queue[c] = [@ EXCEPT !.phys_addr = a2,
                                                                      !.hash_next = u.heads[b2]],
                                           !.heads[b2] = c, !.moved = @ + 1, !.cur = next]
  BY <1>3, <1>4, <1>5 DEF Visit, b, b2
<1>8. CASE Visit(w, a, a2, n, m) = [w EXCEPT !.prev = c, !.cur = next]
  BY <1>1, <1>8, Zenon DEF Waking, WakeState
<1>9. CASE /\ w.queue[c].in_use
           /\ Visit(w, a, a2, n, m) = [u EXCEPT !.pids = Append(@, w.queue[c].pid),
                                                !.queue[c] = Free, !.cur = next]
  <2>1. PICK ps : ps = Append(u.pids, u.queue[c].pid)
    BY Zenon
  <2>2. PICK q : q = [u.queue EXCEPT ![c] = Free]
    BY Zenon
  <2>3. ps \in Seq(Thread) /\ q \in [Slot -> Entry] /\ Kept(q0, q, ps)
    BY <1>2, <1>5, <1>6, <1>9, <2>1, <2>2, TakenKept, Facts, Zenon
  <2>4. Visit(w, a, a2, n, m) = [u EXCEPT !.pids = ps, !.queue = q, !.cur = next]
    BY <1>6, <1>9, <2>1, <2>2 DEF WakeState
  <2> QED BY <2>3, <2>4, Zenon DEF Waking, WakeState
<1>10. CASE Visit(w, a, a2, n, m) = [u EXCEPT !.queue[c] = [@ EXCEPT !.phys_addr = a2,
                                                                         !.hash_next = u.heads[b2]],
                                              !.heads[b2] = c, !.moved = @ + 1, !.cur = next]
  <2>1. PICK h \in Slot : h = u.heads[b2]
    BY <1>1, <1>6, Zenon DEF Heads
  <2>2. PICK e : e = [u.queue[c] EXCEPT !.phys_addr = a2]
    BY Zenon
  <2>3. PICK f : f = [e EXCEPT !.hash_next = h]
    BY Zenon
  <2>4. f \in Entry /\ f.in_use = u.queue[c].in_use /\ f.pid = u.queue[c].pid
    <3>1. e \in Entry /\ e.in_use = u.queue[c].in_use /\ e.pid = u.queue[c].pid
      BY <1>6, <2>1, <2>2, EntryFields, Zenon
    <3> QED BY <3>1, <2>1, <2>3, EntryFields, Zenon
  <2>5. PICK q : q = [u.queue EXCEPT ![c] = f]
    BY Zenon
  <2>6. q \in [Slot -> Entry] /\ Alike(q, u.queue)
    BY <1>6, <2>4, <2>5 DEF Alike
  <2>7. PICK g : g = [u.heads EXCEPT ![b2] = c]
    BY Zenon
  <2>8. g \in Heads
    BY <1>6, <2>7, Zenon DEF Heads
  <2>9. Visit(w, a, a2, n, m) = [u EXCEPT !.queue = q, !.heads = g, !.moved = u.moved + 1, !.cur = next]
    BY <1>6, <1>10, <2>1, <2>2, <2>3, <2>5, <2>7 DEF WakeState
  <2>10. Kept(q0, q, u.pids) /\ u.moved + 1 \in Nat
    BY <1>6, <2>6, AlikeKept
  <2> QED BY <2>6, <2>8, <2>9, <2>10, Zenon DEF Waking, WakeState
<1> QED BY <1>7, <1>8, <1>9, <1>10

\* The whole loop.
LEMMA WalkKept ==
    ASSUME TypeOK, Used, NEW a \in Addr, NEW a2 \in Addr, NEW n, NEW m
    PROVE  Walk(a, a2, n, m) \in Waking(wait_queue)
<1> DEFINE Q == Waking(wait_queue)
           start == [heads |-> hash_buckets, queue |-> wait_queue, prev |-> None,
                     cur |-> hash_buckets[futexHash(a)], pids |-> <<>>, moved |-> 0]
           round(w) == IF w.cur = End THEN w ELSE Visit(w, a, a2, n, m)
           F == [y \in Q \X (1 .. Slots) |-> round(y[1])]
           S == [k \in 0 .. Slots |-> Q]
           Is(g) == g = [k \in 0 .. Slots |-> IF k = 0 THEN start ELSE round(g[k - 1])]
<1>1. start \in Q
  <2>1. <<>> \in Seq(Thread) /\ futexHash(a) \in 0 .. Buckets - 1
    BY Facts
  <2>2. start \in WakeState
    BY <2>1 DEF TypeOK, WakeState, Heads
  <2>3. Kept(wait_queue, wait_queue, <<>>)
    BY DEF Kept, Used
  <2> QED BY <2>2, <2>3 DEF Waking
<1>2. \A w \in Q : round(w) \in Q
  BY VisitKept
<1> HIDE DEF start, round, Q
<1>3. Slots \in Nat
  BY Facts
<1>4. PICK g : IsLoop(g, Slots, start, F)
  <2> HIDE DEF F
  <2> QED BY <1>3, RecursionExists
<1>5. ASSUME NEW k \in 1 .. Slots
      PROVE  /\ k \in 0 .. Slots /\ k - 1 \in 0 .. Slots /\ k # 0
             /\ S[k] = Q /\ S[k - 1] = Q
  BY <1>3
<1>6. S[0] = Q
  BY <1>3
<1>7. \A k \in 0 .. Slots : g[k] \in S[k]
  <2>1. g[0] \in S[0]
    BY <1>1, <1>3, <1>4, <1>6 DEF IsLoop
  <2>2. ASSUME NEW k \in 1 .. Slots, g[k - 1] \in S[k - 1] PROVE g[k] \in S[k]
    <3>1. g[k - 1] \in Q /\ g[k] = F[<<g[k - 1], k>>]
      <4> HIDE DEF F
      <4> QED BY <1>4, <1>5, <2>2 DEF IsLoop
    <3>2. F[<<g[k - 1], k>>] = round(g[k - 1])
      BY <3>1
    <3> QED BY <1>2, <1>5, <3>1, <3>2
  <2> HIDE DEF S
  <2> QED BY <1>3, <2>1, <2>2, LoopInduction
<1>8. Is(g)
  <2>1. \A k \in 0 .. Slots : k # 0 => F[<<g[k - 1], k>>] = round(g[k - 1])
    <3> SUFFICES ASSUME NEW k \in 0 .. Slots, k # 0 PROVE F[<<g[k - 1], k>>] = round(g[k - 1])
      BY Zenon
    <3>1. k \in 1 .. Slots
      BY <1>3
    <3>2. g[k - 1] \in Q
      BY <1>5, <1>7, <3>1
    <3> QED BY <3>1, <3>2
  <2> HIDE DEF F
  <2> QED BY <1>4, <2>1 DEF IsLoop
<1>9. PICK h : h = CHOOSE f : Is(f)
  OBVIOUS
<1>10. Is(h)
  <2> HIDE DEF Is
  <2> QED BY <1>8, <1>9
<1>11. \A k \in 0 .. Slots : h[k] \in S[k]
  <2>1. h[0] \in S[0]
    BY <1>1, <1>3, <1>6, <1>10
  <2>2. ASSUME NEW k \in 1 .. Slots, h[k - 1] \in S[k - 1] PROVE h[k] \in S[k]
    BY <1>2, <1>5, <1>10, <2>2
  <2> HIDE DEF S, Is
  <2> QED BY <1>3, <2>1, <2>2, LoopInduction
<1>12. Walk(a, a2, n, m) = h[Slots]
  <2>1. Walk(a, a2, n, m) = (CHOOSE f : Is(f))[Slots]
    BY Zenon DEF Walk, start, round
  <2> HIDE DEF Is
  <2> QED BY <1>9, <2>1
<1>13. Slots \in 0 .. Slots
  BY <1>3
<1> QED BY <1>11, <1>12, <1>13 DEF Q

-----------------------------------------------------------------------------
(* The loop of pollWaiters.                                                *)

\* The entry of a slot not in use is immaterial.
LEMMA FreedKept ==
    ASSUME NEW q0, NEW q \in [Slot -> Entry], NEW pids, Kept(q0, q, pids),
           NEW i \in Slot, ~ q[i].in_use
    PROVE  [q EXCEPT ![i] = Free] \in [Slot -> Entry] /\ Kept(q0, [q EXCEPT ![i] = Free], pids)
<1>1. PICK r : r = [q EXCEPT ![i] = Free]
  BY Zenon
<1>2. /\ r \in [Slot -> Entry] /\ ~ r[i].in_use
      /\ \A j \in Slot : j # i => r[j] = q[j]
  BY <1>1, Facts
<1>3. Kept(q0, r, pids)
  BY <1>2 DEF Kept
<1> QED BY <1>1, <1>2, <1>3

\* The walk along the chain ends at some entry.
LEMMA PollFound ==
    ASSUME NEW w \in WakeState, NEW i \in Slot, NEW b \in 0 .. Buckets - 1
    PROVE  Found(w, b, i) \in (Slot \cup {None}) \X Slot
<1> DEFINE Q == (Slot \cup {None}) \X Slot
           first == <<None, w.heads[b]>>
           round(at) == IF at[2] \in {i, End} THEN at ELSE <<at[2], w.queue[at[2]].hash_next>>
           F == [y \in Q \X (1 .. Slots) |-> round(y[1])]
           S == [k \in 0 .. Slots |-> Q]
           Is(g) == g = [k \in 0 .. Slots |-> IF k = 0 THEN first ELSE round(g[k - 1])]
<1>1. first \in Q
  BY Zenon DEF WakeState, Heads
<1>2. \A at \in Q : round(at) \in Q
  BY DEF WakeState, Entry
<1> HIDE DEF first, round, Q
<1>3. Slots \in Nat
  BY Facts
<1>4. PICK g : IsLoop(g, Slots, first, F)
  <2> HIDE DEF F
  <2> QED BY <1>3, RecursionExists
<1>5. ASSUME NEW k \in 1 .. Slots
      PROVE  /\ k \in 0 .. Slots /\ k - 1 \in 0 .. Slots /\ k # 0
             /\ S[k] = Q /\ S[k - 1] = Q
  BY <1>3
<1>6. S[0] = Q
  BY <1>3
<1>7. \A k \in 0 .. Slots : g[k] \in S[k]
  <2>1. g[0] \in S[0]
    BY <1>1, <1>3, <1>4, <1>6 DEF IsLoop
  <2>2. ASSUME NEW k \in 1 .. Slots, g[k - 1] \in S[k - 1] PROVE g[k] \in S[k]
    <3>1. g[k - 1] \in Q /\ g[k] = F[<<g[k - 1], k>>]
      <4> HIDE DEF F
      <4> QED BY <1>4, <1>5, <2>2 DEF IsLoop
    <3>2. F[<<g[k - 1], k>>] = round(g[k - 1])
      BY <3>1
    <3> QED BY <1>2, <1>5, <3>1, <3>2
  <2> HIDE DEF S
  <2> QED BY <1>3, <2>1, <2>2, LoopInduction
<1>8. Is(g)
  <2>1. \A k \in 0 .. Slots : k # 0 => F[<<g[k - 1], k>>] = round(g[k - 1])
    <3> SUFFICES ASSUME NEW k \in 0 .. Slots, k # 0 PROVE F[<<g[k - 1], k>>] = round(g[k - 1])
      BY Zenon
    <3>1. k \in 1 .. Slots
      BY <1>3
    <3>2. g[k - 1] \in Q
      BY <1>5, <1>7, <3>1
    <3> QED BY <3>1, <3>2
  <2> HIDE DEF F
  <2> QED BY <1>4, <2>1 DEF IsLoop
<1>9. PICK h : h = CHOOSE f : Is(f)
  OBVIOUS
<1>10. Is(h)
  <2> HIDE DEF Is
  <2> QED BY <1>8, <1>9
<1>11. \A k \in 0 .. Slots : h[k] \in S[k]
  <2>1. h[0] \in S[0]
    BY <1>1, <1>3, <1>6, <1>10
  <2>2. ASSUME NEW k \in 1 .. Slots, h[k - 1] \in S[k - 1] PROVE h[k] \in S[k]
    BY <1>2, <1>5, <1>10, <2>2
  <2> HIDE DEF S, Is
  <2> QED BY <1>3, <2>1, <2>2, LoopInduction
<1>12. Found(w, b, i) = h[Slots]
  <2>1. Found(w, b, i) = (CHOOSE f : Is(f))[Slots]
    BY Zenon DEF Found, first, round
  <2> HIDE DEF Is
  <2> QED BY <1>9, <2>1
<1>13. Slots \in 0 .. Slots
  BY <1>3
<1> QED BY <1>11, <1>12, <1>13 DEF Q

\* One round: entry i is freed and its process collected, nothing else changes
\* but links.
LEMMA PollStepKept ==
    ASSUME NEW q0, NEW w \in Waking(q0), NEW i \in Slot, w.queue[i].in_use
    PROVE  /\ PollStep(w, i) \in Waking(q0)
           /\ \A j \in Slot \ {i} : w.queue[j].in_use => PollStep(w, i).queue[j].in_use
<1>1. /\ w \in WakeState /\ Kept(q0, w.queue, w.pids) /\ w.queue \in [Slot -> Entry]
      /\ w.pids \in Seq(Thread) /\ w.queue[i].phys_addr \in Addr /\ w.queue[i].hash_next \in Slot
  BY DEF Waking, WakeState, Entry
<1>2. PICK b \in 0 .. Buckets - 1 : b = futexHash(w.queue[i].phys_addr)
  BY <1>1, Facts
<1>3. PICK e : e = [Free EXCEPT !.hash_next = w.queue[i].hash_next]
  BY Zenon
<1>4. e \in Entry /\ ~ e.in_use
  BY <1>1, <1>3, Facts DEF Entry
<1>5. PICK q : q = [w.queue EXCEPT ![i] = e]
  BY Zenon
<1>6. PICK ps : ps = Append(w.pids, w.queue[i].pid)
  BY Zenon
<1>7. /\ q \in [Slot -> Entry] /\ ps \in Seq(Thread) /\ Kept(q0, q, ps) /\ ~ q[i].in_use
      /\ \A j \in Slot \ {i} : q[j] = w.queue[j]
  BY <1>1, <1>4, <1>5, <1>6, TakenKept
<1>8. PICK u : u = [w EXCEPT !.pids = ps, !.queue = q]
  OBVIOUS
<1>9. u \in WakeState /\ u.queue = q /\ u.pids = ps
  BY <1>1, <1>7, <1>8, Zenon DEF WakeState
<1>10. u = [w EXCEPT !.pids = Append(@, w.queue[i].pid),
                     !.queue[i] = [Free EXCEPT !.hash_next = w.queue[i].hash_next]]
  BY <1>1, <1>3, <1>5, <1>6, <1>8 DEF WakeState
<1>11. PICK found \in (Slot \cup {None}) \X Slot :
          PollStep(w, i) =
            IF found[2] = End THEN u
            ELSE [Unchain([u EXCEPT !.prev = found[1], !.cur = i], b) EXCEPT !.queue[i] = Free]
  <2>1. PICK found \in (Slot \cup {None}) \X Slot : found = Found(w, b, i)
    BY <1>1, PollFound
  <2>2. PollStep(w, i) =
          IF found[2] = End THEN u
          ELSE [Unchain([u EXCEPT !.prev = found[1], !.cur = i], b) EXCEPT !.queue[i] = Free]
    <3> DEFINE c == futexHash(w.queue[i].phys_addr)
               v == [w EXCEPT !.pids = Append(@, w.queue[i].pid),
                              !.queue[i] = [Free EXCEPT !.hash_next = w.queue[i].hash_next]]
    <3>1. PollStep(w, i) =
            IF Found(w, c, i)[2] = End THEN v
            ELSE [Unchain([v EXCEPT !.prev = Found(w, c, i)[1], !.cur = i], c) EXCEPT !.queue[i] = Free]
      BY Zenon DEF PollStep
    <3>2. v = u /\ c = b
      BY <1>2, <1>10
    <3> HIDE DEF v, c
    <3> QED BY <2>1, <3>1, <3>2
  <2> QED BY <2>1, <2>2, Zenon
<1>12. CASE PollStep(w, i) = u
  BY <1>7, <1>9, <1>12 DEF Waking
<1>13. CASE PollStep(w, i) = [Unchain([u EXCEPT !.prev = found[1], !.cur = i], b) EXCEPT !.queue[i] = Free]
  <2>1. PICK v : v = [u EXCEPT !.prev = found[1], !.cur = i]
    OBVIOUS
  <2>2. v \in WakeState /\ v.queue = q /\ v.pids = ps
    BY <1>9, <1>11, <2>1, Zenon DEF WakeState
  <2>3. PICK x : x = Unchain(v, b)
    OBVIOUS
  <2>4. x \in WakeState /\ Alike(x.queue, q) /\ x.pids = ps
    BY <2>2, <2>3, UnchainWake
  <2>5. x.queue \in [Slot -> Entry] /\ Kept(q0, x.queue, ps) /\ ~ x.queue[i].in_use
    BY <1>7, <2>4, AlikeKept DEF WakeState, Alike
  <2>6. PICK r : r = [x.queue EXCEPT ![i] = Free]
    BY Zenon
  <2>7. r \in [Slot -> Entry] /\ Kept(q0, r, ps) /\ \A j \in Slot \ {i} : r[j] = x.queue[j]
    BY <2>5, <2>6, FreedKept
  <2>8. PollStep(w, i) = [x EXCEPT !.queue = r]
    BY <1>13, <2>1, <2>3, <2>6
  <2>9. PollStep(w, i) \in Waking(q0) /\ PollStep(w, i).queue = r
    BY <2>4, <2>7, <2>8, Zenon DEF Waking, WakeState
  <2>10. \A j \in Slot \ {i} : w.queue[j].in_use => r[j].in_use
    BY <1>7, <2>4, <2>7 DEF Alike
  <2> QED BY <2>9, <2>10
<1> QED BY <1>11, <1>12, <1>13

\* The state the whole loop ends in.
Polled ==
    LET start == [heads |-> hash_buckets, queue |-> wait_queue, prev |-> None,
                  cur |-> End, pids |-> <<>>, moved |-> 0]
        after[i \in 0 .. Slots] ==
            IF i = 0 THEN start
            ELSE IF Due(i - 1) THEN PollStep(after[i - 1], i - 1) ELSE after[i - 1]
    IN  after[Slots]

LEMMA PolledKept ==
    ASSUME TypeOK, Used
    PROVE  Polled \in Waking(wait_queue)
<1> DEFINE Q(k) == {w \in Waking(wait_queue) :
                      \A j \in Slot : j >= k /\ wait_queue[j].in_use => w.queue[j].in_use}
           start == [heads |-> hash_buckets, queue |-> wait_queue, prev |-> None,
                     cur |-> End, pids |-> <<>>, moved |-> 0]
           round(w, k) == IF Due(k - 1) THEN PollStep(w, k - 1) ELSE w
           F == [y \in Waking(wait_queue) \X (1 .. Slots) |-> round(y[1], y[2])]
           S == [k \in 0 .. Slots |-> Q(k)]
           Is(g) == g = [k \in 0 .. Slots |-> IF k = 0 THEN start ELSE round(g[k - 1], k)]
<1>1. start \in Q(0)
  <2>1. <<>> \in Seq(Thread) /\ End \in Slot
    BY Facts
  <2>2. start \in WakeState
    BY <2>1 DEF TypeOK, WakeState, Heads
  <2>3. Kept(wait_queue, wait_queue, <<>>)
    BY DEF Kept, Used
  <2> QED BY <2>2, <2>3 DEF Waking
<1>3. Slots \in Nat
  BY Facts
<1>2. ASSUME NEW k \in 1 .. Slots, NEW w \in Q(k - 1) PROVE round(w, k) \in Q(k)
  <2>1. k - 1 \in Slot /\ w \in Waking(wait_queue)
    BY <1>3 DEF Slot
  <2>2. CASE Due(k - 1)
    <3>1. w.queue[k - 1].in_use
      BY <1>2, <2>1, <2>2 DEF Due, Slot
    <3>2. /\ PollStep(w, k - 1) \in Waking(wait_queue)
          /\ \A j \in Slot \ {k - 1} : w.queue[j].in_use => PollStep(w, k - 1).queue[j].in_use
      BY <2>1, <3>1, PollStepKept
    <3>3. \A j \in Slot : j >= k => j \in Slot \ {k - 1} /\ j >= k - 1
      BY DEF Slot
    <3> QED BY <1>2, <2>2, <3>2, <3>3
  <2>3. CASE ~ Due(k - 1)
    <3>1. \A j \in Slot : j >= k => j >= k - 1
      BY DEF Slot
    <3> QED BY <1>2, <2>1, <2>3, <3>1
  <2> QED BY <2>2, <2>3
<1>4. \A k \in 0 .. Slots : S[k] = Q(k)
  OBVIOUS
<1>5. ASSUME NEW k \in 0 .. Slots PROVE \A w \in Q(k) : w \in Waking(wait_queue)
  OBVIOUS
<1>6. ASSUME NEW k \in 0 .. Slots, k # 0 PROVE k \in 1 .. Slots /\ k - 1 \in 0 .. Slots
  BY <1>3, <1>6
<1>7. 0 \in 0 .. Slots /\ Slots \in 0 .. Slots /\ \A k \in 1 .. Slots : k \in 0 .. Slots /\ k # 0
  BY <1>3
<1> HIDE DEF start, round, Q, S
<1>8. PICK g : IsLoop(g, Slots, start, F)
  <2> HIDE DEF F
  <2> QED BY <1>3, RecursionExists
<1>9. \A k \in 0 .. Slots : g[k] \in S[k]
  <2>1. g[0] \in S[0]
    BY <1>1, <1>4, <1>7, <1>8 DEF IsLoop
  <2>2. ASSUME NEW k \in 1 .. Slots, g[k - 1] \in S[k - 1] PROVE g[k] \in S[k]
    <3>1. k - 1 \in 0 .. Slots /\ k \in 0 .. Slots /\ k # 0
      BY <1>6, <1>7
    <3>2. g[k - 1] \in Q(k - 1) /\ g[k - 1] \in Waking(wait_queue)
      BY <1>4, <1>5, <2>2, <3>1
    <3>3. g[k] = F[<<g[k - 1], k>>]
      <4> HIDE DEF F
      <4> QED BY <1>8, <3>1 DEF IsLoop
    <3>4. F[<<g[k - 1], k>>] = round(g[k - 1], k)
      BY <3>2
    <3> QED BY <1>2, <1>4, <3>1, <3>2, <3>3, <3>4
  <2> QED BY <1>3, <2>1, <2>2, LoopInduction
<1>10. Is(g)
  <2>1. ASSUME NEW k \in 0 .. Slots, k # 0 PROVE F[<<g[k - 1], k>>] = round(g[k - 1], k)
    <3>1. k \in 1 .. Slots /\ g[k - 1] \in Waking(wait_queue)
      BY <1>4, <1>5, <1>6, <1>9, <2>1
    <3> QED BY <3>1
  <2> HIDE DEF F
  <2> QED BY <1>8, <2>1 DEF IsLoop
<1>11. PICK h : h = CHOOSE f : Is(f)
  OBVIOUS
<1>12. Is(h)
  <2> HIDE DEF Is
  <2> QED BY <1>10, <1>11
<1>13. \A k \in 0 .. Slots : h[k] \in S[k]
  <2>1. h[0] \in S[0]
    BY <1>1, <1>4, <1>7, <1>12
  <2>2. ASSUME NEW k \in 1 .. Slots, h[k - 1] \in S[k - 1] PROVE h[k] \in S[k]
    <3>1. k - 1 \in 0 .. Slots /\ k \in 0 .. Slots /\ k # 0
      BY <1>6, <1>7
    <3>2. h[k] = round(h[k - 1], k) /\ h[k - 1] \in Q(k - 1)
      BY <1>4, <1>12, <2>2, <3>1
    <3> QED BY <1>2, <1>4, <3>1, <3>2
  <2> HIDE DEF Is
  <2> QED BY <1>3, <2>1, <2>2, LoopInduction
<1>14. Polled = h[Slots]
  <2>1. Polled = (CHOOSE f : Is(f))[Slots]
    BY Zenon DEF Polled, start, round
  <2> HIDE DEF Is
  <2> QED BY <1>11, <2>1
<1> QED BY <1>4, <1>5, <1>7, <1>13, <1>14

-----------------------------------------------------------------------------
(* The actions.                                                            *)

\* A step that replaces the table by what a walk has left, and hands the
\* processes taken out to t.
LEMMA CollectKeeps ==
    ASSUME FutexInv, NEW t \in Thread \cup {None}, NEW w \in Waking(wait_queue), Collect(t, w),
           wake_pids[t] = <<>>, UNCHANGED <<word, state, signals>>,
           owes' \in [Thread -> SUBSET Addr], poll_tick' \in 0 .. PollPeriod - 1
    PROVE  FutexInv'
<1>1. /\ w.queue \in [Slot -> Entry] /\ w.heads \in Heads /\ w.pids \in Seq(Thread)
      /\ Kept(wait_queue, w.queue, w.pids) /\ TypeOK /\ SleeperListed
  BY DEF Waking, WakeState, FutexInv
<1>2. wait_queue' = w.queue /\ hash_buckets' = w.heads
  BY DEF Collect
<1>3. /\ wake_pids' \in [Thread \cup {None} -> Seq(Thread)] /\ wake_pids'[t] = w.pids
      /\ \A u \in (Thread \cup {None}) \ {t} : wake_pids'[u] = wake_pids[u]
  BY <1>1 DEF Collect, TypeOK
<1>4. TypeOK'
  BY <1>1, <1>2, <1>3 DEF TypeOK, Heads
<1>5. Used'
  BY <1>1, <1>2 DEF Used, Kept
<1>6. ASSUME NEW p \in Thread, state'[p] = "blocked_on_futex"
      PROVE  \/ \E i \in Slot : wait_queue'[i].in_use /\ wait_queue'[i].pid = p
             \/ \E u \in Thread \cup {None} : \E k \in 1 .. Len(wake_pids'[u]) : wake_pids'[u][k] = p
  <2>1. CASE \E i \in Slot : wait_queue[i].in_use /\ wait_queue[i].pid = p
    <3>1. PICK i \in Slot : wait_queue[i].in_use /\ wait_queue[i].pid = p
      BY <2>1
    <3>2. \/ w.queue[i].in_use /\ w.queue[i].pid = p
          \/ \E k \in 1 .. Len(w.pids) : w.pids[k] = p
      BY <1>1, <3>1 DEF Kept
    <3> QED BY <1>2, <1>3, <3>2
  <2>2. CASE \E u \in Thread \cup {None} : \E k \in 1 .. Len(wake_pids[u]) : wake_pids[u][k] = p
    <3>1. PICK u \in Thread \cup {None} : \E k \in 1 .. Len(wake_pids[u]) : wake_pids[u][k] = p
      BY <2>2
    <3>2. u # t
      BY <3>1
    <3> QED BY <1>3, <3>1, <3>2
  <2> QED BY <1>1, <1>6, <2>1, <2>2 DEF SleeperListed
<1> QED BY <1>4, <1>5, <1>6 DEF FutexInv, SleeperListed

\* FUTEX_WAIT takes a free slot: nobody's entry is overwritten.
LEMMA WaitKeeps ==
    ASSUME FutexInv, NEW t \in Thread, NEW a \in Addr, NEW v \in Word, futexWait(t, a, v)
    PROVE  FutexInv'
<1> DEFINE free == {i \in Slot : ~ wait_queue[i].in_use}
           least == CHOOSE i \in free : \A j \in free : i <= j
<1>1. TypeOK /\ Used /\ SleeperListed
  BY DEF FutexInv
<1>2. free # {} /\ free \in SUBSET Nat
  BY DEF futexWait, Slot
<1>3. \E i \in free : \A j \in free : i <= j
  <2> HIDE DEF free
  <2> QED BY <1>2, LeastNat
<1>4. least \in free
  <2> HIDE DEF free
  <2> QED BY <1>3
<1>5. PICK s \in Slot : s = least /\ ~ wait_queue[s].in_use
  BY <1>4
<1>6. futexHash(a) \in 0 .. Buckets - 1
  BY Facts
<1>7. PICK e : e = [Chained(s, a) EXCEPT !.pid = t, !.phys_addr = a, !.expected_val = v, !.in_use = TRUE]
  OBVIOUS
<1>8. e \in Entry /\ e.in_use /\ e.pid = t
  <2>1. wait_queue[s] \in Entry /\ hash_buckets[futexHash(a)] \in Slot
    BY <1>1, <1>6 DEF TypeOK
  <2>2. Chained(s, a) \in Entry
    BY <2>1 DEF Chained, Entry
  <2> QED BY <1>7, <2>2, Zenon DEF Entry
<1>9. /\ wait_queue' = [wait_queue EXCEPT ![s] = e]
      /\ hash_buckets' = [hash_buckets EXCEPT ![futexHash(a)] = s]
      /\ state' = [state EXCEPT ![t] = "blocked_on_futex"]
      /\ UNCHANGED <<word, poll_tick, wake_pids, owes, signals>>
  BY <1>5, <1>7 DEF futexWait
<1>10. /\ wait_queue' \in [Slot -> Entry] /\ wait_queue'[s] = e
       /\ \A i \in Slot : i # s => wait_queue'[i] = wait_queue[i]
  BY <1>1, <1>8, <1>9 DEF TypeOK
<1>11. TypeOK'
  BY <1>1, <1>9, <1>10, Zenon DEF TypeOK
<1>12. Used'
  BY <1>1, <1>8, <1>10 DEF Used
<1>13. SleeperListed'
  <2> SUFFICES ASSUME NEW p \in Thread, state'[p] = "blocked_on_futex"
               PROVE  \/ \E i \in Slot : wait_queue'[i].in_use /\ wait_queue'[i].pid = p
                      \/ \E u \in Thread \cup {None} : \E k \in 1 .. Len(wake_pids'[u]) : wake_pids'[u][k] = p
    BY DEF SleeperListed
  <2>1. CASE p = t
    BY <1>8, <1>10, <2>1
  <2>2. CASE p # t
    <3>1. state[p] = "blocked_on_futex"
      BY <1>1, <1>9, <2>2 DEF TypeOK
    <3>2. \/ \E i \in Slot : wait_queue[i].in_use /\ wait_queue[i].pid = p
          \/ \E u \in Thread \cup {None} : \E k \in 1 .. Len(wake_pids[u]) : wake_pids[u][k] = p
      BY <1>1, <3>1 DEF SleeperListed
    <3> QED BY <1>5, <1>9, <1>10, <3>2, Zenon
  <2> QED BY <2>1, <2>2
<1> QED BY <1>11, <1>12, <1>13 DEF FutexInv

\* The process woken leaves the list and is no longer asleep.
LEMMA WakeOneKeeps ==
    ASSUME FutexInv, NEW t \in Thread \cup {None}, WakeOne(t)
    PROVE  FutexInv'
<1>1. TypeOK /\ Used /\ SleeperListed
  BY DEF FutexInv
<1>2. PICK s \in Seq(Thread) : s = wake_pids[t] /\ s # <<>>
  BY <1>1 DEF TypeOK, WakeOne
<1>3. PICK h : h = Head(s)
  OBVIOUS
<1>4. PICK r : r = Tail(s)
  BY Zenon
<1>5. /\ h \in Thread /\ h = s[1] /\ r \in Seq(Thread) /\ Len(s) \in Nat /\ Len(r) = Len(s) - 1
      /\ \A k \in 1 .. Len(r) : r[k] = s[k + 1]
  BY <1>2, <1>3, <1>4, HeadTailProperties
<1>6. /\ state' = IF state[h] = "blocked_on_futex" THEN [state EXCEPT ![h] = "ready"] ELSE state
      /\ wake_pids' = [wake_pids EXCEPT ![t] = r]
      /\ UNCHANGED <<word, wait_queue, hash_buckets, poll_tick, owes, signals>>
  BY <1>2, <1>3, <1>4 DEF WakeOne
<1>7. /\ wake_pids' \in [Thread \cup {None} -> Seq(Thread)] /\ wake_pids'[t] = r
      /\ \A u \in (Thread \cup {None}) \ {t} : wake_pids'[u] = wake_pids[u]
  BY <1>1, <1>5, <1>6 DEF TypeOK
<1>8. state' \in [Thread -> {"running", "blocked_on_futex", "ready"}] /\ state'[h] # "blocked_on_futex"
      /\ \A p \in Thread : p # h => state'[p] = state[p]
  BY <1>1, <1>5, <1>6 DEF TypeOK
<1>9. TypeOK'
  BY <1>1, <1>6, <1>7, <1>8 DEF TypeOK
<1>10. Used'
  BY <1>1, <1>6 DEF Used
<1>11. SleeperListed'
  <2> SUFFICES ASSUME NEW p \in Thread, state'[p] = "blocked_on_futex"
               PROVE  \/ \E i \in Slot : wait_queue'[i].in_use /\ wait_queue'[i].pid = p
                      \/ \E u \in Thread \cup {None} : \E k \in 1 .. Len(wake_pids'[u]) : wake_pids'[u][k] = p
    BY DEF SleeperListed
  <2>1. p # h /\ state[p] = "blocked_on_futex"
    BY <1>8
  <2>2. CASE \E i \in Slot : wait_queue[i].in_use /\ wait_queue[i].pid = p
    BY <1>6, <2>2
  <2>3. ASSUME NEW u \in Thread \cup {None}, NEW k \in 1 .. Len(wake_pids[u]), wake_pids[u][k] = p
        PROVE  \E l \in 1 .. Len(wake_pids'[u]) : wake_pids'[u][l] = p
    <3>1. CASE u # t
      BY <1>7, <2>3, <3>1
    <3>2. CASE u = t
      <4>1. k \in 1 .. Len(s) /\ s[k] = p
        BY <1>2, <2>3, <3>2
      <4>2. k # 1
        BY <1>5, <2>1, <4>1
      <4>3. k - 1 \in 1 .. Len(r) /\ (k - 1) + 1 = k
        BY <1>5, <4>1, <4>2
      <4>4. r[k - 1] = p
        BY <1>5, <4>1, <4>3
      <4> QED BY <1>7, <3>2, <4>3, <4>4, Zenon
    <3> QED BY <3>1, <3>2
  <2> QED BY <1>1, <2>1, <2>2, <2>3 DEF SleeperListed
<1> QED BY <1>9, <1>10, <1>11 DEF FutexInv

\* The steps that leave the table and the collected processes alone.
LEMMA OthersKeep ==
    ASSUME FutexInv, NEW t \in Thread, NEW a \in Addr, Store(t, a) \/ Signal(t) \/ Resume(t)
    PROVE  FutexInv'
<1>1. TypeOK /\ Used /\ SleeperListed
  BY DEF FutexInv
<1>2. UNCHANGED <<wait_queue, wake_pids>>
  BY DEF Store, Signal, Resume
<1>3. \A p \in Thread : state'[p] = "blocked_on_futex" => state[p] = "blocked_on_futex"
  BY <1>1 DEF Store, Signal, Resume, TypeOK
<1>4. TypeOK'
  <2>1. CASE Store(t, a)
    <3>1. 1 - word[a] \in Word
      <4>1. word[a] \in Word
        BY <1>1 DEF TypeOK
      <4> QED BY <4>1 DEF Word
    <3> QED BY <1>1, <2>1, <3>1 DEF TypeOK, Store
  <2>2. CASE Signal(t)
    <3>1. signals' \in 0 .. MaxSignals
      BY <1>1, <2>2, FutexAssumption DEF TypeOK, Signal
    <3> QED BY <1>1, <2>2, <3>1 DEF TypeOK, Signal
  <2>3. CASE Resume(t)
    BY <1>1, <2>3 DEF TypeOK, Resume
  <2> QED BY <2>1, <2>2, <2>3
<1>5. Used'
  BY <1>1, <1>2 DEF Used
<1>6. SleeperListed'
  BY <1>1, <1>2, <1>3 DEF SleeperListed
<1> QED BY <1>4, <1>5, <1>6 DEF FutexInv

LEMMA FutexStep == FutexInv /\ [Next]_vars => FutexInv'
<1> SUFFICES ASSUME FutexInv, [Next]_vars PROVE FutexInv'
  OBVIOUS
<1>1. TypeOK /\ Used
  BY DEF FutexInv
<1>2. ASSUME NEW t \in Thread, NEW a \in Addr, NEW n, futexWake(t, a, n) PROVE FutexInv'
  <2>1. Walk(a, a, n, 0) \in Waking(wait_queue)
    BY <1>1, WalkKept
  <2>2. owes' \in [Thread -> SUBSET Addr]
    BY <1>1, <1>2 DEF futexWake, TypeOK
  <2>3. t \in Thread \cup {None} /\ poll_tick' \in 0 .. PollPeriod - 1
    BY <1>1, <1>2 DEF futexWake, TypeOK
  <2>4. /\ Collect(t, Walk(a, a, n, 0)) /\ wake_pids[t] = <<>>
        /\ UNCHANGED <<word, state, signals>>
    BY <1>2 DEF futexWake, InUser
  <2> QED BY <2>1, <2>2, <2>3, <2>4, CollectKeeps
<1>3. ASSUME NEW t \in Thread, NEW a \in Addr, NEW a2 \in Addr, NEW n, futexRequeue(t, a, a2, n, Slots)
      PROVE  FutexInv'
  <2>1. Walk(a, a2, n, Slots) \in Waking(wait_queue)
    BY <1>1, WalkKept
  <2>2. /\ t \in Thread \cup {None} /\ poll_tick' \in 0 .. PollPeriod - 1
        /\ owes' \in [Thread -> SUBSET Addr]
    BY <1>1, <1>3 DEF futexRequeue, TypeOK
  <2>3. /\ Collect(t, Walk(a, a2, n, Slots)) /\ wake_pids[t] = <<>>
        /\ UNCHANGED <<word, state, signals>>
    BY <1>3 DEF futexRequeue, InUser
  <2> QED BY <2>1, <2>2, <2>3, CollectKeeps
<1>4. ASSUME pollWaiters PROVE FutexInv'
  <2>1. Polled \in Waking(wait_queue)
    BY <1>1, PolledKept
  <2>2. Collect(None, Polled) /\ wake_pids[None] = <<>> /\ UNCHANGED <<word, state, owes, signals>>
    BY <1>4, Zenon DEF pollWaiters, Polled
  <2>3. poll_tick' \in 0 .. PollPeriod - 1
    BY <1>1, <1>4, FutexAssumption DEF pollWaiters, TypeOK
  <2>4. owes' \in [Thread -> SUBSET Addr] /\ None \in Thread \cup {None}
    BY <1>1, <2>2 DEF TypeOK
  <2> QED BY <2>1, <2>2, <2>3, <2>4, CollectKeeps
<1>5. CASE UNCHANGED vars
  BY <1>5, Zenon DEF FutexInv, TypeOK, Used, SleeperListed, vars
<1>6. PICK a \in Addr : TRUE
  BY FutexAssumption, Zenon
<1> QED BY <1>2, <1>3, <1>4, <1>5, <1>6, WaitKeeps, WakeOneKeeps, OthersKeep DEF Next

LEMMA FutexInit == Init => FutexInv
<1> SUFFICES ASSUME Init PROVE FutexInv
  OBVIOUS
<1>1. TypeOK
  <2>1. 0 \in 0 .. PollPeriod - 1 /\ 0 \in 0 .. MaxSignals /\ 0 \in Word
    BY FutexAssumption DEF Word
  <2>2. wake_pids \in [Thread \cup {None} -> Seq(Thread)]
    BY DEF Init
  <2> QED BY <2>1, <2>2, Facts DEF Init, TypeOK
<1>2. Used
  BY Facts DEF Init, Used
<1>3. SleeperListed
  BY DEF Init, SleeperListed
<1> QED BY <1>1, <1>2, <1>3 DEF FutexInv

\* futex.zig: the table stays well formed and a sleeping thread is always in
\* the table, or taken out by somebody who is about to wake it: futexWait fills
\* a free slot only, and the loops of futexWake, futexRequeue and pollWaiters
\* free an entry only when they collect its process.
THEOREM FutexTableSound == Spec => []TableSound
<1>1. FutexInv => TableSound
  BY DEF FutexInv, TableSound
<1> QED BY <1>1, FutexInit, FutexStep, PTL DEF Spec
=============================================================================
