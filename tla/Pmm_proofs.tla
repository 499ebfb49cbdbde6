----------------------------- MODULE Pmm_proofs -----------------------------
(***************************************************************************)
(* Proofs about the physical memory manager, for every number of pages,    *)
(* contexts and request sizes.                                             *)
(***************************************************************************)
EXTENDS Pmm, FiniteSetTheorems, SequenceTheorems, TLAPS

USE DEF Page

\* The allocator's own state: the bitmap with its hint and its counter.
\* Kernel pages are never free and never counted.
PmmInv ==
    /\ bitmap \in SUBSET Page
    /\ free_pages \in Nat
    /\ ref_counts \in [Page -> 0 .. RefMax]
    /\ next_free_hint \in 0 .. TotalPages
    /\ HintBelowFree
    /\ CounterExact
    /\ KernelNeverFree
    /\ \A p \in Page : p < FirstFree => ref_counts[p] = 0

\* Blocks handed out by allocPages and allocHugePage, guard pages included,
\* and the calls of operations in progress lie above the kernel.
ClientInv ==
    /\ holders \in [Page -> SUBSET Token]
    /\ block \in [Client -> Block]
    /\ todo \in [Client -> Seq(Call)]
    /\ \A k \in Client : block[k].count # 0 =>
          /\ block[k].guard \in {0, 1}
          /\ FirstFree <= block[k].first - block[k].guard
          /\ block[k].first + block[k].count + block[k].guard <= TotalPages
    /\ \A k \in Client : block[k].huge => block[k].count = HugePages
    /\ \A k \in Client : block[k].count = 0 => block[k].guard = 0
    /\ \A k \in Client : \A i \in DOMAIN todo[k] : todo[k][i].page >= FirstFree
    /\ \A p \in Page : p < FirstFree => holders[p] = {}

IInv == PmmInv /\ ClientInv

\* A set of pages is finite.
LEMMA PagesFinite ==
    ASSUME NEW S \in SUBSET Page
    PROVE  IsFiniteSet(S) /\ Cardinality(S) \in Nat
<1>1. IsFiniteSet(Page)
  BY FS_Interval, PmmAssumption
<1> QED
  BY <1>1, FS_Subset, FS_CardinalityType, Zenon

\* Taking n free pages off the bitmap keeps the counter exact.
LEMMA TakeCount ==
    ASSUME PmmInv, NEW a \in Nat, NEW n \in Nat \ {0},
           a .. a + n - 1 \subseteq bitmap
    PROVE  /\ Cardinality(bitmap \ (a .. a + n - 1)) = free_pages - n
           /\ free_pages - n \in Nat
<1> DEFINE ps == a .. a + n - 1
<1>1. IsFiniteSet(bitmap)
  BY PagesFinite, Zenon DEF PmmInv
<1>2. Cardinality(ps) = n
  BY FS_Interval
<1>3. bitmap \cap ps = ps
  BY Zenon
<1>4. Cardinality(bitmap \ ps) = Cardinality(bitmap) - Cardinality(bitmap \cap ps)
  BY <1>1, FS_Difference, Zenon
<1>5. Cardinality(bitmap \ ps) \in Nat
  BY PagesFinite, Zenon DEF PmmInv
<1> QED
  BY <1>2, <1>3, <1>4, <1>5, Zenon DEF CounterExact, PmmInv

\* Setting bits keeps the counter exact.
LEMMA SetFreeCount ==
    ASSUME PmmInv, NEW ps \in SUBSET Page
    PROVE  /\ Cardinality(bitmap \cup ps) = free_pages + Cardinality(ps \ bitmap)
           /\ Cardinality(ps \ bitmap) \in Nat
<1>1. IsFiniteSet(bitmap) /\ IsFiniteSet(ps \ bitmap) /\ Cardinality(ps \ bitmap) \in Nat
  <2>1. bitmap \in SUBSET Page /\ ps \ bitmap \in SUBSET Page
    BY Zenon DEF PmmInv
  <2> QED BY <2>1, PagesFinite, Zenon
<1>2. bitmap \cup ps = bitmap \cup (ps \ bitmap)
  BY Zenon
<1>3. bitmap \cap (ps \ bitmap) = {}
  BY Zenon
<1>4. Cardinality(bitmap \cup (ps \ bitmap)) =
        Cardinality(bitmap) + Cardinality(ps \ bitmap)
          - Cardinality(bitmap \cap (ps \ bitmap))
  BY <1>1, FS_Union, Zenon
<1>5. Cardinality(bitmap \cap (ps \ bitmap)) = 0
  BY <1>3, FS_EmptySet, Zenon
<1>6. free_pages = Cardinality(bitmap) /\ free_pages \in Nat
  BY Zenon DEF CounterExact, PmmInv
<1>7. Cardinality(bitmap \cup ps) = Cardinality(bitmap \cup (ps \ bitmap))
  BY <1>2, Zenon
<1>8. Cardinality(bitmap \cup (ps \ bitmap)) = free_pages + Cardinality(ps \ bitmap)
  BY <1>1, <1>4, <1>5, <1>6
<1> QED
  BY <1>1, <1>7, <1>8, Zenon

\* The part of the state that SetFree changes stays consistent.
LEMMA SetFreeKeeps ==
    ASSUME PmmInv,
           NEW ps \in SUBSET Page, \A p \in ps : p >= FirstFree,
           SetFree(ps)
    PROVE  /\ bitmap' \in SUBSET Page
           /\ free_pages' \in Nat
           /\ next_free_hint' \in 0 .. TotalPages
           /\ HintBelowFree'
           /\ CounterExact'
           /\ KernelNeverFree'
<1>1. /\ Cardinality(bitmap \cup ps) = free_pages + Cardinality(ps \ bitmap)
      /\ Cardinality(ps \ bitmap) \in Nat
  BY SetFreeCount, Zenon
<1>2. bitmap' \in SUBSET Page /\ free_pages' \in Nat /\ CounterExact'
  BY <1>1 DEF SetFree, PmmInv, CounterExact
<1>3. PICK h \in {next_free_hint} \cup (ps \ bitmap) :
        /\ \A q \in {next_free_hint} \cup (ps \ bitmap) : h <= q
        /\ next_free_hint' = h
  BY Zenon DEF SetFree
<1>4. next_free_hint' \in 0 .. TotalPages
  BY <1>3, PmmAssumption DEF PmmInv
<1>5. HintBelowFree'
  <2> SUFFICES ASSUME NEW p \in bitmap' PROVE next_free_hint' <= p
    BY Zenon DEF HintBelowFree
  <2>1. CASE p \in bitmap
    <3>1. next_free_hint' <= next_free_hint
      BY <1>3, Zenon
    <3>2. next_free_hint <= p /\ p \in Int /\ next_free_hint \in Int
      BY <2>1, PmmAssumption DEF HintBelowFree, PmmInv
    <3> QED BY <3>1, <3>2, <1>4, PmmAssumption
  <2>2. CASE p \in ps \ bitmap
    BY <1>3, <2>2, Zenon
  <2> QED BY <2>1, <2>2 DEF SetFree
<1>6. KernelNeverFree'
  BY Zenon DEF KernelNeverFree, SetFree, PmmInv
<1> QED
  BY <1>2, <1>4, <1>5, <1>6, Zenon

\* incRef, freePage and decRef keep the allocator's state consistent.
LEMMA IncRefKeeps ==
    ASSUME PmmInv, NEW p \in Page, p >= FirstFree, incRef(p)
    PROVE  PmmInv'
<1> USE PmmAssumption
<1>1. ref_counts' \in [Page -> 0 .. RefMax]
  BY DEF PmmInv, incRef
<1>2. \A q \in Page : q < FirstFree => ref_counts'[q] = 0
  BY DEF PmmInv, incRef
<1> QED
  BY <1>1, <1>2, Zenon DEF PmmInv, incRef, HintBelowFree, CounterExact, KernelNeverFree

LEMMA DropOne ==
    ASSUME PmmInv, NEW p \in Page, p >= FirstFree, NEW n \in 0 .. RefMax,
           ref_counts' = [ref_counts EXCEPT ![p] = n],
           SetFree({p}) \/ UNCHANGED <<bitmap, free_pages, next_free_hint>>
    PROVE  PmmInv'
<1> USE PmmAssumption
<1>1. /\ ref_counts' \in [Page -> 0 .. RefMax]
      /\ \A q \in Page : q < FirstFree => ref_counts'[q] = 0
  BY DEF PmmInv
<1>2. CASE SetFree({p})
  BY <1>1, <1>2, SetFreeKeeps, Zenon DEF PmmInv
<1>3. CASE UNCHANGED <<bitmap, free_pages, next_free_hint>>
  BY <1>1, <1>3, Zenon DEF PmmInv, HintBelowFree, CounterExact, KernelNeverFree
<1> QED
  BY <1>2, <1>3, Zenon

LEMMA UnchangedKeeps ==
    ASSUME PmmInv, UNCHANGED pmmVars
    PROVE  PmmInv'
BY Zenon DEF PmmInv, pmmVars, HintBelowFree, CounterExact, KernelNeverFree

LEMMA FreePageKeeps ==
    ASSUME PmmInv, NEW p \in Page, p >= FirstFree, freePage(p)
    PROVE  PmmInv'
<1> USE PmmAssumption
<1>1. ref_counts[p] \in 0 .. RefMax
  BY Zenon DEF PmmInv
<1>2. CASE ref_counts[p] > 1
  <2>1. ref_counts[p] - 1 \in 0 .. RefMax
    BY <1>1, <1>2
  <2>2. /\ ref_counts' = [ref_counts EXCEPT ![p] = ref_counts[p] - 1]
        /\ UNCHANGED <<bitmap, free_pages, next_free_hint>>
    BY <1>2 DEF freePage
  <2> QED BY <2>1, <2>2, DropOne, Zenon
<1>3. CASE ~ (ref_counts[p] > 1)
  <2>1. ref_counts' = [ref_counts EXCEPT ![p] = 0] /\ SetFree({p})
    BY <1>3 DEF freePage
  <2>2. 0 \in 0 .. RefMax
    OBVIOUS
  <2> QED BY <2>1, <2>2, DropOne, Zenon
<1> QED
  BY <1>2, <1>3, Zenon

LEMMA DecRefKeeps ==
    ASSUME PmmInv, NEW p \in Page, p >= FirstFree, decRef(p)
    PROVE  PmmInv'
<1> USE PmmAssumption
<1>1. ref_counts[p] \in 0 .. RefMax
  BY Zenon DEF PmmInv
<1>2. CASE ref_counts[p] \in {0, RefMax}
  BY <1>2, UnchangedKeeps, Zenon DEF decRef
<1>3. CASE ref_counts[p] \notin {0, RefMax}
  <2>1. ref_counts[p] - 1 \in 0 .. RefMax
    BY <1>1, <1>3
  <2>2. /\ ref_counts' = [ref_counts EXCEPT ![p] = ref_counts[p] - 1]
        /\ SetFree({p}) \/ UNCHANGED <<bitmap, free_pages, next_free_hint>>
    BY <1>3 DEF decRef
  <2> QED BY <2>1, <2>2, DropOne, Zenon
<1> QED
  BY <1>2, <1>3, Zenon

\* Every allocation takes a run of free pages and leaves the hint at or below
\* the free pages that remain.
LEMMA TakeKeeps ==
    ASSUME PmmInv, NEW k \in Client, NEW a \in Nat, NEW n \in Nat \ {0},
           a .. a + n - 1 \subseteq bitmap,
           Take(k, a .. a + n - 1, n),
           next_free_hint' \in 0 .. TotalPages,
           HintBelowFree'
    PROVE  PmmInv'
<1> USE PmmAssumption
<1> DEFINE ps == a .. a + n - 1
<1>1. /\ Cardinality(bitmap \ ps) = free_pages - n
      /\ free_pages - n \in Nat
  BY TakeCount, Zenon
<1>2. bitmap' = bitmap \ ps /\ free_pages' = free_pages - n
  BY Zenon DEF Take
<1>3. CounterExact' /\ free_pages' \in Nat
  BY <1>1, <1>2, Zenon DEF CounterExact
<1>4. \A p \in ps : p >= FirstFree
  BY Zenon DEF PmmInv, KernelNeverFree
<1>5. /\ ref_counts' \in [Page -> 0 .. RefMax]
      /\ \A p \in Page : p < FirstFree => ref_counts'[p] = 0
  <2>1. ref_counts' = [p \in Page |-> IF p \in ps THEN 1 ELSE ref_counts[p]]
    BY Zenon DEF Take
  <2>2. \A p \in Page : ref_counts[p] \in 0 .. RefMax /\ (p < FirstFree => ref_counts[p] = 0)
    BY Zenon DEF PmmInv
  <2>3. 1 \in 0 .. RefMax
    OBVIOUS
  <2> HIDE DEF ps
  <2> QED BY <1>4, <2>1, <2>2, <2>3
<1> QED
  BY <1>2, <1>3, <1>5 DEF PmmInv, KernelNeverFree

-----------------------------------------------------------------------------

LEMMA InitIInv == Init => IInv
<1> USE PmmAssumption
<1> SUFFICES ASSUME Init PROVE IInv
  BY Zenon
<1>1. CounterExact
  BY FS_Interval DEF Init, CounterExact
<1>2. PmmInv
  BY <1>1 DEF Init, PmmInv, HintBelowFree, KernelNeverFree
<1>3. ClientInv
  BY DEF Init, ClientInv, Token, NoBlock, Block
<1> QED
  BY <1>2, <1>3, Zenon DEF IInv

LEMMA AllocPageKeeps ==
    ASSUME IInv, NEW k \in Client, allocPageInner(k)
    PROVE  IInv'
<1> USE PmmAssumption
<1>1. PICK p \in Page : ScanFinds(p) /\ Take(k, {p}, 1) /\ next_free_hint' = p + 1
  BY Zenon DEF allocPageInner
<1>2. p \in bitmap /\ \A q \in bitmap : ~ (q < p)
  <2>1. \A q \in bitmap : q \in Page /\ next_free_hint <= q
    BY Zenon DEF IInv, PmmInv, HintBelowFree
  <2>2. next_free_hint \in 0 .. TotalPages
    BY Zenon DEF IInv, PmmInv
  <2> QED BY <1>1, <2>1, <2>2 DEF ScanFinds, FirstIn, NoneIn
<1>3. {p} = p .. p + 1 - 1
  OBVIOUS
<1>4. Take(k, p .. p + 1 - 1, 1)
  BY <1>1, <1>3, Zenon
<1>5. HintBelowFree'
  <2> SUFFICES ASSUME NEW q \in bitmap' PROVE next_free_hint' <= q
    BY Zenon DEF HintBelowFree
  <2>1. q \in bitmap /\ q # p /\ q \in Page
    BY <1>1, Zenon DEF Take, IInv, PmmInv
  <2> QED BY <1>1, <1>2, <2>1
<1>6. PmmInv'
  <2>1. p .. p + 1 - 1 \subseteq bitmap
    BY <1>2, <1>3, Zenon
  <2>2. next_free_hint' \in 0 .. TotalPages
    BY <1>1
  <2>3. p \in Nat /\ 1 \in Nat \ {0} /\ PmmInv
    BY DEF IInv
  <2> HIDE DEF Page
  <2> QED BY <1>4, <1>5, <2>1, <2>2, <2>3, TakeKeeps, Zenon
<1>7. p >= FirstFree
  BY <1>2, Zenon DEF IInv, PmmInv, KernelNeverFree
<1>8. ClientInv'
  BY <1>1, <1>7 DEF allocPageInner, Take, IInv, ClientInv, Token, Own
<1> QED
  BY <1>6, <1>8, Zenon DEF IInv

\* A run found by allocPages leaves the hint below the remaining free pages,
\* since it only takes pages away.
LEMMA RunKeeps ==
    ASSUME PmmInv, NEW k \in Client, NEW a \in Nat, NEW n \in Nat \ {0},
           FreeRun(a, n), Take(k, a .. a + n - 1, n), UNCHANGED next_free_hint
    PROVE  PmmInv' /\ FirstFree <= a /\ a + n <= TotalPages
<1> USE PmmAssumption
<1>1. a .. a + n - 1 \subseteq bitmap
  BY Zenon DEF FreeRun
<1>2. HintBelowFree'
  BY Zenon DEF PmmInv, HintBelowFree, Take
<1>3. next_free_hint' \in 0 .. TotalPages
  BY Zenon DEF PmmInv
<1>4. PmmInv'
  BY <1>1, <1>2, <1>3, TakeKeeps, Zenon
<1>5. a \in a .. a + n - 1 /\ a + n - 1 \in a .. a + n - 1
  OBVIOUS
<1>6. a \in bitmap /\ a + n - 1 \in bitmap
  BY <1>1, <1>5, Zenon
<1>7. a >= FirstFree /\ a + n - 1 \in Page
  BY <1>6, Zenon DEF PmmInv, KernelNeverFree
<1> QED
  BY <1>4, <1>7

LEMMA AllocGuardedKeeps ==
    ASSUME IInv, NEW k \in Client, NEW count \in Counts, NEW guard \in {0, 1},
           allocPagesGuarded(k, count, guard)
    PROVE  IInv'
<1> USE PmmAssumption
<1> DEFINE b(base) == [first |-> base + guard, count |-> count, guard |-> guard,
                       huge |-> FALSE]
           n == count + 2 * guard
<1>1. PICK base \in Page :
        /\ allocPages(k, base, n)
        /\ block' = [block EXCEPT ![k] = b(base)]
        /\ todo' = [todo EXCEPT ![k] = PinCalls(k, b(base))]
  BY Zenon DEF allocPagesGuarded
<1>2. count \in Nat \ {0} /\ n \in Nat \ {0} /\ guard \in Nat /\ base \in Nat
  OBVIOUS
<1>3. PmmInv' /\ FirstFree <= base /\ base + n <= TotalPages
  <2>1. /\ FreeRun(base, n) /\ Take(k, base .. base + n - 1, n)
        /\ UNCHANGED next_free_hint
    BY <1>1, Zenon DEF allocPages, RunFound
  <2> QED BY <1>2, <2>1, RunKeeps, Zenon DEF IInv
<1>4. holders' \in [Page -> SUBSET Token]
  BY <1>1 DEF allocPages, Take, IInv, ClientInv, Token, Own
<1>5. \A p \in Page : p < FirstFree => holders'[p] = {}
  <2>1. \A p \in base .. base + n - 1 : p >= FirstFree
    BY <1>2, <1>3
  <2>2. holders' = [p \in Page |-> IF p \in base .. base + n - 1 THEN {Own(k)}
                                                               ELSE holders[p]]
    BY <1>1, Zenon DEF allocPages, Take
  <2>3. \A p \in Page : p < FirstFree => p \notin base .. base + n - 1
    BY <1>2, <2>1
  <2> QED BY <2>2, <2>3, Zenon DEF IInv, ClientInv
<1>6. b(base) \in Block
  BY <1>2 DEF Block
<1>7. /\ PinCalls(k, b(base)) \in Seq(Call)
      /\ \A i \in DOMAIN PinCalls(k, b(base)) : PinCalls(k, b(base))[i].page >= FirstFree
  <2>1. CASE guard = 0
    BY <2>1 DEF PinCalls
  <2>2. CASE guard = 1
    <3> DEFINE lo == base
               hi == base + 1 + count
               c1 == [op |-> "incRef", page |-> lo, token |-> Pin(k)]
               c2 == [op |-> "incRef", page |-> hi, token |-> Pin(k)]
    <3>1. lo \in Page /\ hi \in Page /\ lo >= FirstFree /\ hi >= FirstFree
      BY <1>2, <1>3, <2>2
    <3>2. c1 \in Call /\ c2 \in Call
      BY <3>1, Zenon DEF Call, Token, Pin
    <3>3. PinCalls(k, b(base)) = << c1, c2 >>
      BY <1>2, <2>2 DEF PinCalls, LowGuard, HighGuard
    <3> HIDE DEF c1, c2
    <3>4. << c1, c2 >> \in Seq(Call)
      BY <3>2
    <3>5. \A i \in DOMAIN << c1, c2 >> : << c1, c2 >>[i] \in {c1, c2}
      OBVIOUS
    <3>6. c1.page >= FirstFree /\ c2.page >= FirstFree
      BY <3>1, Zenon DEF c1, c2
    <3> QED BY <3>3, <3>4, <3>5, <3>6, Zenon
  <2> QED BY <2>1, <2>2, Zenon
<1> HIDE DEF b, n
<1>8. block' \in [Client -> Block] /\ todo' \in [Client -> Seq(Call)]
  BY <1>1, <1>6, <1>7, Zenon DEF IInv, ClientInv
<1>9. \A i \in Client : \A j \in DOMAIN todo'[i] : todo'[i][j].page >= FirstFree
  BY <1>1, <1>7 DEF IInv, ClientInv
<1>10. /\ b(base).guard \in {0, 1} /\ b(base).count = count /\ ~ b(base).huge
       /\ FirstFree <= b(base).first - b(base).guard
       /\ b(base).first + b(base).count + b(base).guard <= TotalPages
  BY <1>2, <1>3 DEF b, n
<1>11. \A i \in Client : block'[i] = IF i = k THEN b(base) ELSE block[i]
  BY <1>1, Zenon DEF IInv, ClientInv
<1>12. ClientInv'
  BY <1>2, <1>4, <1>5, <1>8, <1>9, <1>10, <1>11, Zenon DEF IInv, ClientInv
<1> QED
  BY <1>3, <1>12, Zenon DEF IInv

LEMMA AllocHugeKeeps ==
    ASSUME IInv, NEW k \in Client, allocHugePage(k)
    PROVE  IInv'
<1> USE PmmAssumption
<1> DEFINE b(s) == [first |-> s, count |-> HugePages, guard |-> 0, huge |-> TRUE]
<1>1. PICK s \in Page :
        /\ HugeFound(s)
        /\ Take(k, s .. s + HugePages - 1, HugePages)
        /\ block' = [block EXCEPT ![k] = b(s)]
  BY Zenon DEF allocHugePage
<1>2. FreeRun(s, HugePages) /\ s \in Nat /\ HugePages \in Nat \ {0}
  BY <1>1 DEF HugeFound, HugeStarts
<1>3. PmmInv' /\ FirstFree <= s /\ s + HugePages <= TotalPages
  <2>1. UNCHANGED next_free_hint /\ PmmInv
    BY Zenon DEF allocHugePage, IInv
  <2> QED BY <1>1, <1>2, <2>1, RunKeeps, Zenon
<1>4. holders' \in [Page -> SUBSET Token]
  BY <1>1 DEF Take, IInv, ClientInv, Token, Own
<1>5. \A p \in Page : p < FirstFree => holders'[p] = {}
  <2>1. \A p \in s .. s + HugePages - 1 : p >= FirstFree
    BY <1>2, <1>3
  <2>2. holders' = [p \in Page |-> IF p \in s .. s + HugePages - 1 THEN {Own(k)}
                                                                  ELSE holders[p]]
    BY <1>1, Zenon DEF Take
  <2> SUFFICES ASSUME NEW p \in Page, p < FirstFree PROVE holders'[p] = {}
    BY Zenon
  <2>3. p \notin s .. s + HugePages - 1
    BY <2>1
  <2>4. holders[p] = {}
    BY Zenon DEF IInv, ClientInv
  <2> QED BY <2>2, <2>3, <2>4, Zenon
<1>6. b(s) \in Block
  BY <1>2, Zenon DEF Block
<1>7. \A i \in Client : block'[i] = IF i = k THEN b(s) ELSE block[i]
  BY <1>1, Zenon DEF IInv, ClientInv
<1>8. block' \in [Client -> Block] /\ UNCHANGED todo
  BY <1>1, <1>6, Zenon DEF IInv, ClientInv, allocHugePage
<1>9. ClientInv'
  <2> DEFINE Sound(x) ==
        /\ x.count # 0 => /\ x.guard \in {0, 1}
                          /\ FirstFree <= x.first - x.guard
                          /\ x.first + x.count + x.guard <= TotalPages
        /\ x.huge => x.count = HugePages
        /\ x.count = 0 => x.guard = 0
  <2>1. Sound(b(s))
    BY <1>2, <1>3
  <2>2. \A i \in Client : Sound(block[i])
    BY Zenon DEF IInv, ClientInv
  <2>3. \A i \in Client : Sound(block'[i])
    <3> HIDE DEF Sound, b
    <3> QED BY <1>7, <2>1, <2>2, Zenon
  <2>4. \A i \in Client : \A j \in DOMAIN todo'[i] : todo'[i][j].page >= FirstFree
    BY <1>8, Zenon DEF IInv, ClientInv
  <2> QED BY <1>4, <1>5, <1>8, <2>3, <2>4, Zenon DEF IInv, ClientInv
<1> QED
  BY <1>3, <1>9 DEF IInv

\* Adding or removing one reference of a page above the kernel.
LEMMA TokenKeeps ==
    ASSUME ClientInv, NEW p \in Page, p >= FirstFree, NEW t \in Token,
           Drop(p, t) \/ Hold(p, t), UNCHANGED <<block, todo>>
    PROVE  ClientInv'
<1> USE PmmAssumption
<1>1. PICK new \in SUBSET Token : holders' = [holders EXCEPT ![p] = new]
  <2>1. holders[p] \in SUBSET Token
    BY Zenon DEF ClientInv
  <2>2. CASE Drop(p, t)
    BY <2>1, <2>2, Zenon DEF Drop
  <2>3. CASE Hold(p, t)
    BY <2>1, <2>3, Zenon DEF Hold
  <2> QED BY <2>2, <2>3
<1>2. holders' \in [Page -> SUBSET Token]
  BY <1>1, Zenon DEF ClientInv
<1>3. \A q \in Page : q < FirstFree => holders'[q] = {}
  <2>1. \A q \in Page : q < FirstFree => q # p
    OBVIOUS
  <2>2. \A q \in Page : q # p => holders'[q] = holders[q]
    BY <1>1, Zenon DEF ClientInv
  <2> QED BY <2>1, <2>2, Zenon DEF ClientInv
<1> QED
  BY <1>2, <1>3, Zenon DEF ClientInv

LEMMA OneReferenceKeeps ==
    ASSUME IInv, NEW k \in Client, NEW p \in Page,
           Share(k, p) \/ ReleaseByFree(k, p) \/ ReleaseByDecRef(k, p)
    PROVE  IInv'
<1> USE PmmAssumption
<1>1. p >= FirstFree
  <2>1. holders[p] # {}
    BY Zenon DEF Share, ReleaseByFree, ReleaseByDecRef
  <2> QED BY <2>1 DEF IInv, ClientInv
<1>2. Own(k) \in Token
  BY Zenon DEF Own, Token
<1>3. CASE Share(k, p)
  BY <1>1, <1>2, <1>3, IncRefKeeps, TokenKeeps, Zenon DEF Share, IInv
<1>4. CASE ReleaseByFree(k, p)
  BY <1>1, <1>2, <1>4, FreePageKeeps, TokenKeeps DEF ReleaseByFree, IInv
<1>5. CASE ReleaseByDecRef(k, p)
  BY <1>1, <1>2, <1>5, DecRefKeeps, TokenKeeps DEF ReleaseByDecRef, IInv
<1> QED
  BY <1>3, <1>4, <1>5, Zenon

LEMMA FreeGuardedKeeps ==
    ASSUME IInv, NEW k \in Client, freePagesGuarded(k)
    PROVE  IInv'
<1> USE PmmAssumption
<1> DEFINE b == block[k]
           u == UnpinCalls(k, b)
           f == freePages(k, b)
           Good(s) == s \in Seq(Call) /\ \A i \in DOMAIN s : s[i].page >= FirstFree
<1>1. b \in Block /\ ~ b.huge
  BY Zenon DEF IInv, ClientInv, freePagesGuarded
<1>2. /\ b.first \in Nat /\ b.count \in Nat
      /\ b.count # 0 => /\ b.guard \in {0, 1}
                         /\ FirstFree <= b.first - b.guard
                         /\ b.first + b.count + b.guard <= TotalPages
      /\ b.count = 0 => b.guard = 0
  BY <1>1, Zenon DEF IInv, ClientInv, Block
<1> HIDE DEF b
<1>3. Good(u)
  <2>1. CASE b.guard = 0
    BY <2>1 DEF UnpinCalls
  <2>2. CASE b.guard # 0
    <3> DEFINE lo == b.first - 1
               hi == b.first + b.count
               c1 == [op |-> "decRef", page |-> lo, token |-> Pin(k)]
               c2 == [op |-> "freePage", page |-> lo, token |-> Own(k)]
               c3 == [op |-> "decRef", page |-> hi, token |-> Pin(k)]
               c4 == [op |-> "freePage", page |-> hi, token |-> Own(k)]
    <3>1. lo \in Page /\ hi \in Page /\ lo >= FirstFree /\ hi >= FirstFree
      BY <1>2, <2>2
    <3>2. c1 \in Call /\ c2 \in Call /\ c3 \in Call /\ c4 \in Call
      BY <3>1, Zenon DEF Call, Token, Pin, Own
    <3>3. u = << c1, c2, c3, c4 >>
      BY <2>2, Zenon DEF UnpinCalls, LowGuard, HighGuard
    <3>4. /\ c1.page >= FirstFree /\ c2.page >= FirstFree
          /\ c3.page >= FirstFree /\ c4.page >= FirstFree
      BY <3>1, Zenon
    <3> HIDE DEF c1, c2, c3, c4, u
    <3>5. u \in Seq(Call)
      BY <3>2, <3>3
    <3>6. \A i \in DOMAIN u : u[i] \in {c1, c2, c3, c4}
      BY <3>3
    <3> QED BY <3>4, <3>5, <3>6, Zenon
  <2> QED BY <2>1, <2>2, Zenon
<1>4. Good(f)
  <2>1. \A i \in 1 .. b.count :
          /\ b.first + i - 1 \in Page
          /\ b.first + i - 1 >= FirstFree
    BY <1>2
  <2>2. \A i \in 1 .. b.count :
          /\ [op |-> "freePage", page |-> b.first + i - 1, token |-> Own(k)] \in Call
          /\ f[i] = [op |-> "freePage", page |-> b.first + i - 1, token |-> Own(k)]
    BY <2>1, Zenon DEF freePages, Call, Token, Own
  <2>3. DOMAIN f = 1 .. b.count /\ f = [i \in 1 .. b.count |-> f[i]]
    BY Zenon DEF freePages
  <2>4. f \in Seq(Call)
    <3> HIDE DEF f
    <3>1. f \in [1 .. b.count -> Call]
      BY <2>2, <2>3, Zenon
    <3> QED BY <3>1, <1>2, SeqDef
  <2>5. \A i \in DOMAIN f : f[i].page >= FirstFree
    <3> SUFFICES ASSUME NEW i \in 1 .. b.count PROVE f[i].page >= FirstFree
      BY <2>3, Zenon
    <3> HIDE DEF f
    <3>2. f[i] = [op |-> "freePage", page |-> b.first + i - 1, token |-> Own(k)]
      BY <2>2, Zenon
    <3>1. f[i].page = b.first + i - 1
      BY <3>2
    <3> QED BY <2>1, <3>1, Zenon
  <2> QED BY <2>4, <2>5, Zenon
<1> HIDE DEF u, f
<1>5. Good(u \o f)
  <2>1. u \o f \in Seq(Call) /\ Len(u \o f) = Len(u) + Len(f)
    BY <1>3, <1>4, ConcatProperties, Zenon
  <2>2. \A i \in 1 .. Len(u) + Len(f) :
          (u \o f)[i] = IF i <= Len(u) THEN u[i] ELSE f[i - Len(u)]
    BY <1>3, <1>4, ConcatProperties
  <2>3. DOMAIN (u \o f) = 1 .. Len(u) + Len(f) /\ DOMAIN u = 1 .. Len(u)
        /\ DOMAIN f = 1 .. Len(f) /\ Len(u) \in Nat /\ Len(f) \in Nat
    BY <2>1, <1>3, <1>4
  <2> QED BY <1>3, <1>4, <2>1, <2>2, <2>3
<1>6. /\ todo' = [todo EXCEPT ![k] = u \o f]
      /\ block' = [block EXCEPT ![k] = NoBlock]
      /\ UNCHANGED <<bitmap, free_pages, ref_counts, next_free_hint, holders>>
  BY Zenon DEF freePagesGuarded, u, f, b
<1>7. PmmInv'
  BY <1>6, UnchangedKeeps, Zenon DEF IInv, pmmVars
<1> HIDE DEF Good
<1>8. todo' \in [Client -> Seq(Call)]
  BY <1>5, <1>6, Zenon DEF IInv, ClientInv, Good
<1>9. \A i \in Client : \A j \in DOMAIN todo'[i] : todo'[i][j].page >= FirstFree
  BY <1>5, <1>6, Zenon DEF IInv, ClientInv, Good
<1>10. \A i \in Client : block'[i] = IF i = k THEN NoBlock ELSE block[i]
  BY <1>6, Zenon DEF IInv, ClientInv
<1>11. block' \in [Client -> Block]
  BY <1>6, Zenon DEF IInv, ClientInv, NoBlock, Block
<1>12. ClientInv'
  BY <1>6, <1>8, <1>9, <1>10, <1>11 DEF IInv, ClientInv, NoBlock
<1> QED
  BY <1>7, <1>12, Zenon DEF IInv

LEMMA FreeHugeKeeps ==
    ASSUME IInv, NEW k \in Client, freeHugePage(k)
    PROVE  IInv'
<1> USE PmmAssumption
<1> DEFINE b == block[k]
           ps == b.first .. b.first + HugePages - 1
           gone == {p \in ps : ref_counts[p] <= 1}
<1>1. /\ b \in Block /\ b.huge /\ b.count = HugePages
      /\ b.first \in Nat /\ b.guard \in Nat
      /\ FirstFree <= b.first - b.guard
      /\ b.first + HugePages + b.guard <= TotalPages
  BY Zenon DEF freeHugePage, IInv, ClientInv, Block
<1>2. \A p \in ps : p \in Page /\ p >= FirstFree
  BY <1>1
<1>3. /\ ref_counts' = [p \in Page |-> IF p \notin ps THEN ref_counts[p]
                                      ELSE IF p \in gone THEN 0 ELSE ref_counts[p] - 1]
      /\ SetFree(gone)
      /\ holders' = [p \in Page |-> IF p \in ps THEN holders[p] \ {Own(k)}
                                                ELSE holders[p]]
      /\ block' = [block EXCEPT ![k] = NoBlock]
      /\ UNCHANGED todo
  BY Zenon DEF freeHugePage
<1>4. gone \in SUBSET Page /\ \A p \in gone : p >= FirstFree
  BY <1>2, Zenon
<1>5. \A p \in Page : ref_counts[p] \in 0 .. RefMax /\ (p < FirstFree => ref_counts[p] = 0)
  BY Zenon DEF IInv, PmmInv
<1>6. \A p \in Page : ref_counts'[p] = IF p \notin ps THEN ref_counts[p]
                                      ELSE IF p \in gone THEN 0 ELSE ref_counts[p] - 1
  BY <1>3, Zenon
<1>7. \A p \in ps : p \in gone <=> ref_counts[p] <= 1
  BY Zenon
<1> HIDE DEF ps, gone, b
<1>8. \A p \in Page : ref_counts'[p] \in 0 .. RefMax
  BY <1>5, <1>6, <1>7
<1>9. ref_counts' \in [Page -> 0 .. RefMax]
  BY <1>3, <1>8, Zenon
<1>10. \A p \in Page : p < FirstFree => ref_counts'[p] = 0
  BY <1>2, <1>5, <1>6
<1>11. PmmInv'
  BY <1>3, <1>4, <1>9, <1>10, SetFreeKeeps, Zenon DEF IInv, PmmInv
<1>12. \A p \in Page : holders[p] \in SUBSET Token /\ (p < FirstFree => holders[p] = {})
  BY Zenon DEF IInv, ClientInv
<1>13. holders' \in [Page -> SUBSET Token]
  BY <1>3, <1>12, Zenon
<1>14. \A p \in Page : p < FirstFree => holders'[p] = {}
  BY <1>2, <1>3, <1>12, Zenon
<1>15. /\ block' \in [Client -> Block]
       /\ \A i \in Client : block'[i] = IF i = k THEN NoBlock ELSE block[i]
  BY <1>3, Zenon DEF IInv, ClientInv, NoBlock, Block
<1>16. ClientInv'
  BY <1>3, <1>13, <1>14, <1>15, Zenon DEF IInv, ClientInv, NoBlock
<1> QED
  BY <1>11, <1>16, Zenon DEF IInv

LEMMA ContinueKeeps ==
    ASSUME IInv, NEW k \in Client, Continue(k)
    PROVE  IInv'
<1> USE PmmAssumption
<1> DEFINE c == Head(todo[k])
<1>1. todo[k] \in Seq(Call) /\ todo[k] # <<>>
  BY Zenon DEF IInv, ClientInv, Continue
<1>2. c \in Call /\ c = todo[k][1] /\ 1 \in DOMAIN todo[k]
  BY <1>1, HeadTailProperties
<1>3. c.page \in Page /\ c.token \in Token /\ c.page >= FirstFree
  BY <1>2, Zenon DEF Call, IInv, ClientInv
<1>4. \/ incRef(c.page) /\ Hold(c.page, c.token)
      \/ decRef(c.page) /\ Drop(c.page, c.token)
      \/ freePage(c.page) /\ Drop(c.page, c.token)
  BY Zenon DEF Continue
<1> HIDE DEF c
<1>5. PmmInv'
  BY <1>3, <1>4, IncRefKeeps, DecRefKeeps, FreePageKeeps, Zenon DEF IInv
<1>6. PICK new \in SUBSET Token : holders' = [holders EXCEPT ![c.page] = new]
  <2>1. holders[c.page] \in SUBSET Token
    BY <1>3, Zenon DEF IInv, ClientInv
  <2>2. CASE Drop(c.page, c.token)
    BY <2>1, <2>2, Zenon DEF Drop
  <2>3. CASE Hold(c.page, c.token)
    BY <1>3, <2>1, <2>3, Zenon DEF Hold
  <2> QED BY <1>4, <2>2, <2>3, Zenon
<1>7. holders' \in [Page -> SUBSET Token]
  BY <1>6, <1>3, Zenon DEF IInv, ClientInv
<1>8. \A q \in Page : q < FirstFree => holders'[q] = {}
  BY <1>6, <1>3 DEF IInv, ClientInv
<1>9. todo' = [todo EXCEPT ![k] = Tail(todo[k])] /\ UNCHANGED block
  BY Zenon DEF Continue
<1>10. /\ Tail(todo[k]) \in Seq(Call)
       /\ \A i \in DOMAIN Tail(todo[k]) : /\ i + 1 \in DOMAIN todo[k]
                                          /\ Tail(todo[k])[i] = todo[k][i + 1]
  BY <1>1, HeadTailProperties
<1>11. todo' \in [Client -> Seq(Call)]
  BY <1>9, <1>10, Zenon DEF IInv, ClientInv
<1>12. \A i \in Client : \A j \in DOMAIN todo'[i] : todo'[i][j].page >= FirstFree
  BY <1>9, <1>10 DEF IInv, ClientInv
<1>13. ClientInv'
  BY <1>7, <1>8, <1>9, <1>11, <1>12, Zenon DEF IInv, ClientInv
<1> QED
  BY <1>5, <1>13, Zenon DEF IInv

\* The invariant is inductive.
LEMMA StepIInv == IInv /\ [Next]_vars => IInv'
<1> SUFFICES ASSUME IInv, [Next]_vars PROVE IInv'
  BY Zenon
<1>1. CASE UNCHANGED vars
  BY <1>1, UnchangedKeeps, Zenon DEF vars, pmmVars, IInv, ClientInv
<1>2. ASSUME NEW k \in Client, allocPageInner(k) PROVE IInv'
  BY <1>2, AllocPageKeeps, Zenon
<1>3. ASSUME NEW k \in Client, NEW n \in Counts, NEW g \in {0, 1},
             allocPagesGuarded(k, n, g)
      PROVE  IInv'
  BY <1>3, AllocGuardedKeeps, Zenon
<1>4. ASSUME NEW k \in Client, allocHugePage(k) PROVE IInv'
  BY <1>4, AllocHugeKeeps, Zenon
<1>5. ASSUME NEW k \in Client, NEW p \in Page,
             Share(k, p) \/ ReleaseByFree(k, p) \/ ReleaseByDecRef(k, p)
      PROVE  IInv'
  BY <1>5, OneReferenceKeeps
<1>6. ASSUME NEW k \in Client, freePagesGuarded(k) PROVE IInv'
  BY <1>6, FreeGuardedKeeps, Zenon
<1>7. ASSUME NEW k \in Client, freeHugePage(k) PROVE IInv'
  BY <1>7, FreeHugeKeeps, Zenon
<1>8. ASSUME NEW k \in Client, Continue(k) PROVE IInv'
  BY <1>8, ContinueKeeps, Zenon
<1> QED
  BY <1>1, <1>2, <1>3, <1>4, <1>5, <1>6, <1>7, <1>8, Zenon DEF Next

\* Every reachable state satisfies the inductive invariant of the allocator.
THEOREM PmmInvariant == Spec => []IInv
  BY InitIInv, StepIInv, PTL DEF Spec

\* The variables of the physical memory manager keep their types.
THEOREM PmmTypeCorrect == Spec => []TypeOK
<1>1. IInv => TypeOK
  BY Zenon DEF IInv, PmmInv, ClientInv, TypeOK
<1> QED
  BY <1>1, PmmInvariant, PTL

\* next_free_hint never passes a free page, so the scans of allocPages, which
\* start there and do not wrap, see all of the free memory.
THEOREM PmmHintCorrect == Spec => []HintBelowFree
<1>1. IInv => HintBelowFree
  BY Zenon DEF IInv, PmmInv
<1> QED
  BY <1>1, PmmInvariant, PTL

\* The free-page counter is the number of free pages.
THEOREM PmmCounterCorrect == Spec => []CounterExact
<1>1. IInv => CounterExact
  BY Zenon DEF IInv, PmmInv
<1> QED
  BY <1>1, PmmInvariant, PTL

\* Kernel pages never become free, decRef's missing range check included.
THEOREM PmmKernelSafe == Spec => []KernelNeverFree
<1>1. IInv => KernelNeverFree
  BY Zenon DEF IInv, PmmInv
<1> QED
  BY <1>1, PmmInvariant, PTL

-----------------------------------------------------------------------------
(* Counting references: a page is free exactly when nobody holds it.       *)

\* A count never saturates: a context holds at most two references to a page,
\* and there are fewer contexts than half of the largest u16.
Unsaturated == 2 * Cardinality(Client) < RefMax

\* Page p is free exactly if nobody holds it, and its count is the number of
\* its holders.
PageExact(p) ==
    /\ p \in bitmap <=> holders[p] = {}
    /\ ref_counts[p] = Cardinality(holders[p])

RefsExact == \A p \in Page : p >= FirstFree => PageExact(p)

\* The calls that the operation of k still makes: each has its own reference,
\* which k holds if the call drops it and does not yet hold if the call takes
\* it.
CallsSound(k) ==
    /\ \A i, j \in DOMAIN todo[k] :
          todo[k][i].page = todo[k][j].page /\ todo[k][i].token = todo[k][j].token => i = j
    /\ \A i \in DOMAIN todo[k] :
          IF todo[k][i].op = "incRef"
          THEN /\ todo[k][i].token = Pin(k) /\ Pin(k) \notin holders[todo[k][i].page]
               /\ Own(k) \in holders[todo[k][i].page]
               /\ block[k] # NoBlock
          ELSE /\ todo[k][i].token \in {Own(k), Pin(k)}
               /\ todo[k][i].token \in holders[todo[k][i].page]
               /\ block[k] = NoBlock

Pages(b) == b.first - b.guard .. b.first + b.count + b.guard - 1

\* A block holds its pages, and pins its guard pages or is about to.
BlockHeld(k) ==
    /\ block[k].count = 0 => block[k] = NoBlock
    /\ block[k].count # 0 => \A p \in Pages(block[k]) : Own(k) \in holders[p]
    /\ block[k].count # 0 /\ block[k].guard = 1 =>
          \A p \in {LowGuard(block[k]), HighGuard(block[k])} :
             \/ Pin(k) \in holders[p]
             \/ \E i \in DOMAIN todo[k] : todo[k][i].op = "incRef" /\ todo[k][i].page = p

HoldSound(k) == CallsSound(k) /\ BlockHeld(k)

RefInv == RefsExact /\ \A k \in Client : HoldSound(k)

LEMMA TokensBounded ==
    ASSUME NEW S \in SUBSET Token
    PROVE  /\ IsFiniteSet(S) /\ Cardinality(S) \in Nat
           /\ Cardinality(S) <= 2 * Cardinality(Client)
<1>1. IsFiniteSet({"own", "pin"}) /\ Cardinality({"own", "pin"}) = 2
  <2>1. {"own", "pin"} = {"own"} \cup {"pin"}
    BY Zenon
  <2>2. IsFiniteSet({"own"}) /\ Cardinality({"own"}) = 1
    BY FS_Singleton, Zenon
  <2>3. /\ IsFiniteSet({"own"} \cup {"pin"})
        /\ Cardinality({"own"} \cup {"pin"}) = IF "pin" \in {"own"} THEN 1 ELSE 1 + 1
    BY <2>2, FS_AddElement, Zenon
  <2> QED BY <2>1, <2>3
<1>2. Cardinality(Client) \in Nat /\ IsFiniteSet(Client)
  BY FS_CardinalityType, PmmAssumption, Zenon
<1>3. IsFiniteSet(Token) /\ Cardinality(Token) = Cardinality(Client) * 2
  BY <1>1, <1>2, FS_Product, Zenon DEF Token
<1>4. IsFiniteSet(S) /\ Cardinality(S) <= Cardinality(Token)
  BY <1>3, FS_Subset, Zenon
<1>5. Cardinality(S) \in Nat
  BY <1>4, FS_CardinalityType, Zenon
<1> QED BY <1>2, <1>3, <1>4, <1>5

\* A change of one page leaves the others exact.
LEMMA OnePageExact ==
    ASSUME IInv, RefsExact, NEW p \in Page,
           bitmap' = bitmap \/ bitmap' = bitmap \cup {p},
           \A r \in Page \ {p} : ref_counts'[r] = ref_counts[r] /\ holders'[r] = holders[r],
           PageExact(p)'
    PROVE  RefsExact'
<1> SUFFICES ASSUME NEW r \in Page, r >= FirstFree PROVE PageExact(r)'
  BY Zenon DEF RefsExact
<1>1. CASE r = p
  BY <1>1, Zenon
<1>2. CASE r # p
  BY <1>2, Zenon DEF RefsExact, PageExact
<1> QED BY <1>1, <1>2, Zenon

LEMMA GainExact ==
    ASSUME IInv, RefsExact, Unsaturated, NEW p \in Page, p >= FirstFree,
           NEW t \in Token, t \notin holders[p], holders[p] # {}, incRef(p), Hold(p, t)
    PROVE  RefsExact'
<1> DEFINE h == holders[p]
<1>1. h \in SUBSET Token /\ h \cup {t} \in SUBSET Token
  BY Zenon DEF IInv, ClientInv
<1>2. IsFiniteSet(h) /\ Cardinality(h) \in Nat /\ Cardinality(h \cup {t}) <= 2 * Cardinality(Client)
  BY <1>1, TokensBounded, Zenon
<1>3. Cardinality(h \cup {t}) = Cardinality(h) + 1
  BY <1>2, FS_AddElement, Zenon
<1>4. ref_counts[p] = Cardinality(h) /\ p \notin bitmap
  BY Zenon DEF RefsExact, PageExact
<1>5. Cardinality(Client) \in Nat /\ RefMax \in Nat
  BY FS_CardinalityType, PmmAssumption, Zenon
<1>6. ref_counts[p] < RefMax
  BY <1>2, <1>3, <1>4, <1>5 DEF Unsaturated
<1>7. /\ ref_counts'[p] = ref_counts[p] + 1 /\ holders'[p] = h \cup {t} /\ bitmap' = bitmap
      /\ \A r \in Page \ {p} : ref_counts'[r] = ref_counts[r] /\ holders'[r] = holders[r]
  BY <1>6, Zenon DEF incRef, Hold, IInv, PmmInv, ClientInv
<1>8. PageExact(p)'
  BY <1>3, <1>4, <1>7, Zenon DEF PageExact
<1> QED BY <1>7, <1>8, OnePageExact, Zenon

\* The count and the bit after one reference of p is dropped.
LEMMA DropEffect ==
    ASSUME IInv, RefsExact, Unsaturated, NEW p \in Page, p >= FirstFree,
           NEW t \in holders[p]
    PROVE  /\ Cardinality(holders[p] \ {t}) = ref_counts[p] - 1
           /\ holders[p] \ {t} = {} <=> ref_counts[p] = 1
           /\ ref_counts[p] \in Nat /\ 0 < ref_counts[p] /\ ref_counts[p] < RefMax
           /\ p \notin bitmap
<1> DEFINE h == holders[p]
<1>1. h \in SUBSET Token /\ h \ {t} \in SUBSET Token
  BY Zenon DEF IInv, ClientInv
<1>2. /\ IsFiniteSet(h) /\ Cardinality(h) \in Nat /\ Cardinality(h) <= 2 * Cardinality(Client)
      /\ IsFiniteSet(h \ {t}) /\ Cardinality(h \ {t}) \in Nat
  BY <1>1, TokensBounded, Zenon
<1>3. Cardinality(h \ {t}) = Cardinality(h) - 1
  BY <1>2, FS_RemoveElement, Zenon
<1>4. h \ {t} = {} <=> Cardinality(h \ {t}) = 0
  BY <1>2, FS_EmptySet
<1>5. ref_counts[p] = Cardinality(h) /\ p \notin bitmap
  BY Zenon DEF RefsExact, PageExact
<1>6. Cardinality(Client) \in Nat /\ RefMax \in Nat
  BY FS_CardinalityType, PmmAssumption, Zenon
<1> QED BY <1>2, <1>3, <1>4, <1>5, <1>6 DEF Unsaturated

LEMMA LoseExact ==
    ASSUME IInv, RefsExact, Unsaturated, NEW p \in Page, p >= FirstFree,
           NEW t \in holders[p], freePage(p) \/ decRef(p), Drop(p, t)
    PROVE  RefsExact'
<1>1. /\ Cardinality(holders[p] \ {t}) = ref_counts[p] - 1
      /\ holders[p] \ {t} = {} <=> ref_counts[p] = 1
      /\ ref_counts[p] \in Nat /\ 0 < ref_counts[p] /\ ref_counts[p] < RefMax
      /\ p \notin bitmap
  BY DropEffect, Zenon
<1>2. FirstFree \in Nat /\ p \in Nat
  BY PmmAssumption
<1>3. /\ ref_counts' = [ref_counts EXCEPT ![p] = ref_counts[p] - 1]
      /\ bitmap' = IF ref_counts[p] = 1 THEN bitmap \cup {p} ELSE bitmap
  <2>1. CASE freePage(p)
    BY <1>1, <1>2, <2>1 DEF freePage, SetFree
  <2>2. CASE decRef(p)
    BY <1>1, <1>2, <2>2 DEF decRef, SetFree
  <2> QED BY <2>1, <2>2, Zenon
<1>4. /\ ref_counts'[p] = ref_counts[p] - 1 /\ holders'[p] = holders[p] \ {t}
      /\ \A r \in Page \ {p} : ref_counts'[r] = ref_counts[r] /\ holders'[r] = holders[r]
  BY <1>3, Zenon DEF Drop, IInv, PmmInv, ClientInv
<1>5. PageExact(p)'
  BY <1>1, <1>3, <1>4, Zenon DEF PageExact
<1> QED BY <1>3, <1>4, <1>5, OnePageExact

LEMMA TakeExact ==
    ASSUME IInv, RefsExact, NEW k \in Client, NEW ps \in SUBSET bitmap, NEW n, Take(k, ps, n)
    PROVE  RefsExact'
<1> SUFFICES ASSUME NEW r \in Page, r >= FirstFree PROVE PageExact(r)'
  BY Zenon DEF RefsExact
<1>1. CASE r \in ps
  <2>1. Cardinality({Own(k)}) = 1
    BY FS_Singleton
  <2>2. ref_counts'[r] = 1 /\ holders'[r] = {Own(k)} /\ r \notin bitmap'
    BY <1>1, Zenon DEF Take
  <2> QED BY <2>1, <2>2 DEF PageExact
<1>2. CASE r \notin ps
  BY <1>2, Zenon DEF Take, RefsExact, PageExact
<1> QED BY <1>1, <1>2, Zenon

\* What k holds is undisturbed by a step that keeps its block, its calls and
\* its references on the pages these are about.
LEMMA HoldFrame ==
    ASSUME IInv, NEW k \in Client, HoldSound(k), todo'[k] = todo[k], block'[k] = block[k],
           \A p \in Page : InBlock(k, p) /\ Own(k) \in holders[p] => Own(k) \in holders'[p],
           \A p \in Page : InBlock(k, p) => (Pin(k) \in holders'[p] <=> Pin(k) \in holders[p])
    PROVE  HoldSound(k)'
<1>1. \A i \in DOMAIN todo[k] : todo[k][i].page \in Page /\ InBlock(k, todo[k][i].page)
  <2>1. todo[k] \in Seq(Call)
    BY Zenon DEF IInv, ClientInv
  <2>2. \A i \in DOMAIN todo[k] : todo[k][i] \in Call
    BY <2>1
  <2> QED BY <2>2 DEF Call, InBlock
<1>2. CallsSound(k)'
  <2>1. \A i, j \in DOMAIN todo[k] :
          todo[k][i].page = todo[k][j].page /\ todo[k][i].token = todo[k][j].token => i = j
    BY Zenon DEF HoldSound, CallsSound
  <2>2. ASSUME NEW i \in DOMAIN todo[k]
        PROVE  IF todo[k][i].op = "incRef"
               THEN /\ todo[k][i].token = Pin(k) /\ Pin(k) \notin holders'[todo[k][i].page]
                    /\ Own(k) \in holders'[todo[k][i].page]
                    /\ block'[k] # NoBlock
               ELSE /\ todo[k][i].token \in {Own(k), Pin(k)}
                    /\ todo[k][i].token \in holders'[todo[k][i].page]
                    /\ block'[k] = NoBlock
    BY <1>1, Zenon DEF HoldSound, CallsSound
  <2> QED BY <2>1, <2>2 DEF CallsSound, Pin, Own, NoBlock
<1>3. BlockHeld(k)'
  <2>1. CASE block[k].count = 0
    BY <2>1, Zenon DEF HoldSound, BlockHeld, NoBlock
  <2>2. CASE block[k].count # 0
    <3> DEFINE b == block[k]
    <3>1. /\ b.first \in Nat /\ b.count \in Nat /\ b.guard \in {0, 1} /\ b # NoBlock
          /\ FirstFree <= b.first - b.guard /\ b.first + b.count + b.guard <= TotalPages
      BY <2>2 DEF IInv, ClientInv, Block, NoBlock
    <3>2. \A p \in Pages(b) : p \in Page /\ InBlock(k, p)
      BY <3>1, PmmAssumption DEF InBlock, Pages
    <3>3. \A p \in Pages(b) : Own(k) \in holders'[p]
      BY <2>2, <3>2, Zenon DEF HoldSound, BlockHeld
    <3>4. b.guard = 1 => LowGuard(b) \in Pages(b) /\ HighGuard(b) \in Pages(b)
      BY <3>1 DEF LowGuard, HighGuard, Pages
    <3>5. b.guard = 1 => \A p \in {LowGuard(b), HighGuard(b)} :
             \/ Pin(k) \in holders'[p]
             \/ \E i \in DOMAIN todo[k] : todo[k][i].op = "incRef" /\ todo[k][i].page = p
      BY <2>2, <3>2, <3>4 DEF HoldSound, BlockHeld
    <3> QED BY <2>2, <3>3, <3>5, Zenon DEF BlockHeld, Pin, Own, Pages, LowGuard, HighGuard
  <2> QED BY <2>1, <2>2, Zenon
<1> QED BY <1>2, <1>3, Zenon DEF HoldSound

\* An allocation for k disturbs nobody's references: the pages were free.
LEMMA TakeOthers ==
    ASSUME IInv, RefInv, NEW k \in Client, NEW ps \in SUBSET bitmap, NEW n, Take(k, ps, n)
    PROVE  /\ \A l \in Client, p \in Page :
                /\ Own(l) \in holders[p] => Own(l) \in holders'[p]
                /\ Pin(l) \in holders'[p] <=> Pin(l) \in holders[p]
           /\ \A p \in ps : p \in Page /\ holders'[p] = {Own(k)}
<1>1. \A p \in ps : p \in Page /\ holders[p] = {}
  BY PmmAssumption, Zenon DEF RefInv, RefsExact, PageExact, IInv, PmmInv, KernelNeverFree
<1>2. \A p \in Page : holders'[p] = IF p \in ps THEN {Own(k)} ELSE holders[p]
  BY Zenon DEF Take
<1>3. \A l \in Client : Pin(l) # Own(k)
  BY Zenon DEF Pin, Own
<1> QED BY <1>1, <1>2, <1>3, Zenon

LEMMA AllocPageRefs ==
    ASSUME IInv, RefInv, NEW k \in Client, allocPageInner(k)
    PROVE  RefInv'
<1>1. PICK p \in Page : ScanFinds(p) /\ Take(k, {p}, 1)
  BY Zenon DEF allocPageInner
<1>2. {p} \in SUBSET bitmap /\ UNCHANGED <<block, todo>>
  BY <1>1, Zenon DEF ScanFinds, FirstIn, allocPageInner
<1>3. \A l \in Client, r \in Page :
          /\ Own(l) \in holders[r] => Own(l) \in holders'[r]
          /\ Pin(l) \in holders'[r] <=> Pin(l) \in holders[r]
  BY <1>1, <1>2, TakeOthers, Zenon
<1>4. \A l \in Client : HoldSound(l)'
  BY <1>2, <1>3, HoldFrame, Zenon DEF RefInv
<1>5. RefsExact'
  BY <1>1, <1>2, TakeExact, Zenon DEF RefInv
<1> QED BY <1>4, <1>5, Zenon DEF RefInv

LEMMA AllocHugeRefs ==
    ASSUME IInv, RefInv, NEW k \in Client, allocHugePage(k)
    PROVE  RefInv'
<1> USE PmmAssumption
<1> DEFINE b(s) == [first |-> s, count |-> HugePages, guard |-> 0, huge |-> TRUE]
<1>1. PICK s \in Page :
        /\ HugeFound(s)
        /\ Take(k, s .. s + HugePages - 1, HugePages)
        /\ block' = [block EXCEPT ![k] = b(s)]
  BY Zenon DEF allocHugePage
<1> DEFINE ps == s .. s + HugePages - 1
<1>2. ps \in SUBSET bitmap /\ Take(k, ps, HugePages) /\ todo' = todo /\ todo[k] = <<>>
  BY <1>1, Zenon DEF HugeFound, HugeStarts, FreeRun, allocHugePage, Idle
<1>3. /\ \A l \in Client, r \in Page :
          /\ Own(l) \in holders[r] => Own(l) \in holders'[r]
          /\ Pin(l) \in holders'[r] <=> Pin(l) \in holders[r]
      /\ \A p \in ps : holders'[p] = {Own(k)}
  <2> HIDE DEF ps
  <2> QED BY <1>2, TakeOthers
<1>4. block'[k] = b(s) /\ \A l \in Client \ {k} : block'[l] = block[l]
  BY <1>1, Zenon DEF IInv, ClientInv
<1>5. \A l \in Client \ {k} : HoldSound(l)'
  BY <1>2, <1>3, <1>4, HoldFrame DEF RefInv
<1>6. HoldSound(k)'
  <2>1. CallsSound(k)'
    BY <1>2 DEF CallsSound
  <2>2. block'[k].count = HugePages /\ block'[k].guard = 0
        /\ block'[k].first = s
    BY <1>4
  <2>3. \A p \in s .. s + HugePages - 1 : Own(k) \in holders'[p]
    BY <1>3, Zenon
  <2>4. Pages(block[k])' = s .. s + HugePages - 1
    BY <2>2 DEF Pages
  <2>5. BlockHeld(k)'
    BY <2>2, <2>3, <2>4 DEF BlockHeld, Own
  <2> QED BY <2>1, <2>5, Zenon DEF HoldSound
<1>7. RefsExact'
  BY <1>2, TakeExact, Zenon DEF RefInv
<1> QED BY <1>5, <1>6, <1>7, Zenon DEF RefInv

LEMMA AllocGuardedRefs ==
    ASSUME IInv, RefInv, NEW k \in Client, NEW count \in Counts, NEW guard \in {0, 1},
           allocPagesGuarded(k, count, guard)
    PROVE  RefInv'
<1> USE PmmAssumption
<1> DEFINE b(base) == [first |-> base + guard, count |-> count, guard |-> guard,
                       huge |-> FALSE]
           n == count + 2 * guard
<1>1. PICK base \in Page :
        /\ allocPages(k, base, n)
        /\ block' = [block EXCEPT ![k] = b(base)]
        /\ todo' = [todo EXCEPT ![k] = PinCalls(k, b(base))]
  BY Zenon DEF allocPagesGuarded
<1> DEFINE ps == base .. base + n - 1
           lo == base
           hi == base + 1 + count
<1>2. /\ count \in Nat \ {0} /\ n \in Nat \ {0} /\ base \in Nat
      /\ ps \in SUBSET bitmap /\ Take(k, ps, n)
  BY <1>1 DEF allocPages, RunFound, FreeRun
<1>3. /\ \A l \in Client, r \in Page :
          /\ Own(l) \in holders[r] => Own(l) \in holders'[r]
          /\ Pin(l) \in holders'[r] <=> Pin(l) \in holders[r]
      /\ \A p \in ps : p \in Page /\ holders'[p] = {Own(k)}
  <2> HIDE DEF ps, n
  <2> QED BY <1>2, TakeOthers, Zenon
<1>4. RefsExact'
  BY <1>2, TakeExact, Zenon DEF RefInv
<1>5. /\ block'[k] = b(base) /\ todo'[k] = PinCalls(k, b(base))
      /\ \A l \in Client \ {k} : block'[l] = block[l] /\ todo'[l] = todo[l]
  BY <1>1, Zenon DEF IInv, ClientInv
<1>6. \A l \in Client \ {k} : HoldSound(l)'
  BY <1>3, <1>5, HoldFrame DEF RefInv
<1>7. \A p \in ps : Own(k) \in holders'[p] /\ Pin(k) \notin holders'[p]
  BY <1>3 DEF Own, Pin
<1>8. guard = 1 => lo \in ps /\ hi \in ps /\ lo # hi
  BY <1>2
<1>9. /\ block'[k].first = base + guard /\ block'[k].count = count
      /\ block'[k].guard = guard /\ block'[k] # NoBlock
  BY <1>2, <1>5 DEF NoBlock
<1>10. \A p \in Pages(block[k])' : p \in ps
  BY <1>2, <1>9 DEF Pages
<1>11. CASE guard = 0
  <2>1. todo'[k] = <<>>
    BY <1>5, <1>11, Zenon DEF PinCalls
  <2>2. CallsSound(k)'
    BY <2>1 DEF CallsSound
  <2>3. BlockHeld(k)'
    BY <1>2, <1>7, <1>9, <1>10, <1>11 DEF BlockHeld, Own
  <2> QED BY <1>4, <1>6, <2>2, <2>3 DEF RefInv, HoldSound
<1>12. CASE guard = 1
  <2> DEFINE c1 == [op |-> "incRef", page |-> lo, token |-> Pin(k)]
             c2 == [op |-> "incRef", page |-> hi, token |-> Pin(k)]
  <2>1. LowGuard(block[k])' = lo /\ HighGuard(block[k])' = hi
    BY <1>2, <1>9, <1>12 DEF LowGuard, HighGuard
  <2>2. todo'[k] = << c1, c2 >>
    BY <1>2, <1>5, <1>12 DEF PinCalls, LowGuard, HighGuard
  <2>3. /\ c1.op = "incRef" /\ c1.page = lo /\ c1.token = Pin(k)
        /\ c2.op = "incRef" /\ c2.page = hi /\ c2.token = Pin(k)
    BY Zenon
  <2> HIDE DEF c1, c2
  <2>4. DOMAIN todo'[k] = {1, 2} /\ todo'[k][1] = c1 /\ todo'[k][2] = c2
    BY <2>2
  <2> HIDE DEF lo, hi, ps
  <2>5. CallsSound(k)'
    <3>1. \A i, j \in {1, 2} : todo'[k][i].page = todo'[k][j].page => i = j
      BY <1>8, <1>12, <2>3, <2>4, Zenon
    <3>2. \A i \in {1, 2} : /\ todo'[k][i].op = "incRef" /\ todo'[k][i].token = Pin(k)
                            /\ todo'[k][i].page \in ps
      BY <1>8, <1>12, <2>3, <2>4
    <3> QED BY <1>7, <1>9, <2>4, <3>1, <3>2 DEF CallsSound, Pin, Own, NoBlock
  <2>6. BlockHeld(k)'
    <3>1. \A p \in {lo, hi} : \E i \in DOMAIN todo'[k] : todo'[k][i].op = "incRef" /\ todo'[k][i].page = p
      BY <2>3, <2>4, Zenon
    <3>2. \A p \in Pages(block[k])' : Own(k) \in holders'[p]
      BY <1>7, <1>10, Zenon
    <3>3. count # 0
      BY <1>2, Zenon
    <3> QED BY <1>9, <2>1, <3>1, <3>2, <3>3 DEF BlockHeld, Own
  <2> QED BY <1>4, <1>6, <2>5, <2>6, Zenon DEF RefInv, HoldSound
<1> QED BY <1>11, <1>12, Zenon

LEMMA ShareRefs ==
    ASSUME IInv, RefInv, Unsaturated, NEW k \in Client, NEW p \in Page, Share(k, p)
    PROVE  RefInv'
<1>1. /\ holders[p] # {} /\ Own(k) \notin holders[p] /\ Own(k) \in Token
      /\ incRef(p) /\ Hold(p, Own(k)) /\ UNCHANGED <<block, todo>>
  BY Zenon DEF Share, Own, Token
<1>2. p >= FirstFree
  <2>1. ~ (p < FirstFree)
    BY <1>1, Zenon DEF IInv, ClientInv
  <2> QED BY <2>1, PmmAssumption
<1>3. RefsExact'
  BY <1>1, <1>2, GainExact, Zenon DEF RefInv
<1>4. \A r \in Page : holders'[r] = IF r = p THEN holders[r] \cup {Own(k)} ELSE holders[r]
  BY <1>1, Zenon DEF Hold, IInv, ClientInv
<1>5. \A l \in Client : Pin(l) # Own(k)
  BY Zenon DEF Own, Pin
<1>6. \A l \in Client : HoldSound(l)'
  BY <1>1, <1>4, <1>5, HoldFrame, Zenon DEF RefInv
<1> QED BY <1>3, <1>6, Zenon DEF RefInv

LEMMA ReleaseRefs ==
    ASSUME IInv, RefInv, Unsaturated, NEW k \in Client, NEW p \in Page,
           ReleaseByFree(k, p) \/ ReleaseByDecRef(k, p)
    PROVE  RefInv'
<1>1. /\ Own(k) \in holders[p] /\ ~ InBlock(k, p)
      /\ freePage(p) \/ decRef(p)
      /\ Drop(p, Own(k)) /\ UNCHANGED <<block, todo>>
  BY Zenon DEF ReleaseByFree, ReleaseByDecRef
<1>2. p >= FirstFree
  <2>1. ~ (p < FirstFree)
    BY <1>1, Zenon DEF IInv, ClientInv
  <2> QED BY <2>1, PmmAssumption
<1>3. RefsExact'
  BY <1>1, <1>2, LoseExact, Zenon DEF RefInv
<1>4. \A r \in Page : holders'[r] = IF r = p THEN holders[r] \ {Own(k)} ELSE holders[r]
  BY <1>1, Zenon DEF Drop, IInv, ClientInv
<1>5. \A l \in Client : Pin(l) # Own(k) /\ (l # k => Own(l) # Own(k))
  BY Zenon DEF Own, Pin
<1>6. \A l \in Client : HoldSound(l)'
  BY <1>1, <1>4, <1>5, HoldFrame DEF RefInv
<1> QED BY <1>3, <1>6, Zenon DEF RefInv

LEMMA FreeHugeRefs ==
    ASSUME IInv, RefInv, Unsaturated, NEW k \in Client, freeHugePage(k)
    PROVE  RefInv'
<1> USE PmmAssumption
<1> DEFINE b == block[k]
           ps == b.first .. b.first + HugePages - 1
           gone == {p \in ps : ref_counts[p] <= 1}
<1>1. /\ b \in Block /\ b.huge /\ b.count = HugePages
      /\ b.first \in Nat /\ b.guard \in Nat
      /\ FirstFree <= b.first - b.guard
      /\ b.first + HugePages + b.guard <= TotalPages
  BY Zenon DEF freeHugePage, IInv, ClientInv, Block
<1>2. \A p \in ps : p \in Page /\ p >= FirstFree /\ p \in Pages(b)
  BY <1>1 DEF Pages
<1>3. \A p \in ps : Own(k) \in holders[p]
  BY <1>1, <1>2 DEF RefInv, HoldSound, BlockHeld
<1>4. /\ ref_counts' = [p \in Page |-> IF p \notin ps THEN ref_counts[p]
                                      ELSE IF p \in gone THEN 0 ELSE ref_counts[p] - 1]
      /\ SetFree(gone)
      /\ holders' = [p \in Page |-> IF p \in ps THEN holders[p] \ {Own(k)}
                                                ELSE holders[p]]
      /\ block' = [block EXCEPT ![k] = NoBlock]
      /\ UNCHANGED todo /\ todo[k] = <<>>
  BY Zenon DEF freeHugePage, Idle
<1>5. /\ \A p \in Page :
           /\ ref_counts'[p] = IF p \notin ps THEN ref_counts[p]
                               ELSE IF p \in gone THEN 0 ELSE ref_counts[p] - 1
           /\ holders'[p] = IF p \in ps THEN holders[p] \ {Own(k)} ELSE holders[p]
      /\ bitmap' = bitmap \cup gone
      /\ block'[k] = NoBlock /\ \A l \in Client \ {k} : block'[l] = block[l]
  BY <1>4, Zenon DEF SetFree, IInv, ClientInv
<1>6. \A p \in ps : p \in gone <=> ref_counts[p] <= 1
  BY Zenon
<1>7. gone \subseteq ps
  BY Zenon
<1> HIDE DEF ps, gone, b
<1>8. RefsExact'
  <2> SUFFICES ASSUME NEW p \in Page, p >= FirstFree PROVE PageExact(p)'
    BY Zenon DEF RefsExact
  <2>1. CASE p \in ps
    <3>1. Own(k) \in holders[p]
      BY <1>3, <2>1
    <3>2. /\ Cardinality(holders[p] \ {Own(k)}) = ref_counts[p] - 1
          /\ holders[p] \ {Own(k)} = {} <=> ref_counts[p] = 1
          /\ ref_counts[p] \in Nat /\ 0 < ref_counts[p] /\ p \notin bitmap
      BY <3>1, DropEffect, Zenon DEF RefInv
    <3>3. p \in gone <=> ref_counts[p] = 1
      BY <1>6, <2>1, <3>2
    <3>4. /\ ref_counts'[p] = ref_counts[p] - 1 /\ holders'[p] = holders[p] \ {Own(k)}
          /\ p \in bitmap' <=> ref_counts[p] = 1
      <4>1. ref_counts'[p] = IF p \in gone THEN 0 ELSE ref_counts[p] - 1
        BY <1>5, <2>1, Zenon
      <4>2. holders'[p] = holders[p] \ {Own(k)} /\ (p \in bitmap' <=> p \in gone)
        BY <1>5, <2>1, <3>2
      <4> QED BY <4>1, <4>2, <3>2, <3>3
    <3> QED BY <3>2, <3>4 DEF PageExact
  <2>2. CASE p \notin ps
    BY <1>5, <1>7, <2>2 DEF RefInv, RefsExact, PageExact
  <2> QED BY <2>1, <2>2, Zenon
<1>9. \A l \in Client : Pin(l) # Own(k) /\ (l # k => Own(l) # Own(k))
  BY Zenon DEF Own, Pin
<1>10. \A l \in Client \ {k} : HoldSound(l)'
  BY <1>4, <1>5, <1>9, HoldFrame DEF RefInv
<1>11. HoldSound(k)'
  BY <1>4, <1>5 DEF HoldSound, CallsSound, BlockHeld, NoBlock
<1> QED BY <1>8, <1>10, <1>11 DEF RefInv

\* The calls freePagesGuarded leaves to make: one per reference of the block.
LEMMA FreeCalls ==
    ASSUME IInv, NEW k \in Client, NEW b \in Block, b.count # 0, b.guard \in {0, 1}
    PROVE  LET s == UnpinCalls(k, b) \o freePages(k, b)
           IN  /\ \A i, j \in DOMAIN s : s[i].page = s[j].page /\ s[i].token = s[j].token => i = j
               /\ \A i \in DOMAIN s :
                     /\ s[i].op # "incRef"
                     /\ \/ s[i].token = Own(k) /\ s[i].page \in Pages(b)
                        \/ /\ s[i].token = Pin(k) /\ b.guard = 1
                           /\ s[i].page \in {LowGuard(b), HighGuard(b)}
<1> DEFINE u == UnpinCalls(k, b)
           f == freePages(k, b)
           lo == b.first - 1
           hi == b.first + b.count
           c1 == [op |-> "decRef", page |-> lo, token |-> Pin(k)]
           c2 == [op |-> "freePage", page |-> lo, token |-> Own(k)]
           c3 == [op |-> "decRef", page |-> hi, token |-> Pin(k)]
           c4 == [op |-> "freePage", page |-> hi, token |-> Own(k)]
           g(i) == [op |-> "freePage", page |-> b.first + i - 1, token |-> Own(k)]
<1>1. b.first \in Nat /\ b.count \in Nat /\ Own(k) # Pin(k)
  BY Zenon DEF Block, Own, Pin
<1>2. /\ c1.op # "incRef" /\ c1.page = lo /\ c1.token = Pin(k)
      /\ c2.op # "incRef" /\ c2.page = lo /\ c2.token = Own(k)
      /\ c3.op # "incRef" /\ c3.page = hi /\ c3.token = Pin(k)
      /\ c4.op # "incRef" /\ c4.page = hi /\ c4.token = Own(k)
      /\ \A i \in 1 .. b.count :
            g(i).op # "incRef" /\ g(i).page = b.first + i - 1 /\ g(i).token = Own(k)
  BY Zenon
<1>3. f \in Seq({g(i) : i \in 1 .. b.count}) /\ Len(f) = b.count /\ \A i \in 1 .. b.count : f[i] = g(i)
  <2>1. f = [i \in 1 .. b.count |-> g(i)]
    BY Zenon DEF freePages
  <2> HIDE DEF f, g
  <2>2. f \in [1 .. b.count -> {g(i) : i \in 1 .. b.count}]
    BY <2>1, Zenon
  <2>3. f \in Seq({g(i) : i \in 1 .. b.count}) /\ DOMAIN f = 1 .. b.count
    BY <1>1, <2>2, SeqDef, Zenon
  <2>4. Len(f) = b.count
    BY <1>1, <2>3
  <2>5. \A i \in 1 .. b.count : f[i] = g(i)
    BY <2>1, Zenon
  <2> QED BY <2>3, <2>4, <2>5, Zenon
<1> HIDE DEF f, g
<1> DEFINE s == u \o f
<1>4. CASE b.guard = 0
  <2>1. u = <<>>
    BY <1>4, Zenon DEF UnpinCalls
  <2>2. s = f
    <3> HIDE DEF u
    <3> QED BY <1>3, <2>1, ConcatEmptySeq, Zenon
  <2>3. /\ DOMAIN s = 1 .. b.count
        /\ \A i \in 1 .. b.count : /\ s[i].op # "incRef" /\ s[i].page = b.first + i - 1
                                   /\ s[i].token = Own(k)
    <3> HIDE DEF s
    <3> QED BY <1>2, <1>3, <2>2
  <2> HIDE DEF s
  <2>4. \A i \in 1 .. b.count : b.first + i - 1 \in Pages(b)
    BY <1>1, <1>4 DEF Pages
  <2>5. \A i, j \in 1 .. b.count : b.first + i - 1 = b.first + j - 1 => i = j
    BY <1>1
  <2>6. /\ \A i, j \in DOMAIN s : s[i].page = s[j].page /\ s[i].token = s[j].token => i = j
        /\ \A i \in DOMAIN s : s[i].op # "incRef" /\ s[i].token = Own(k) /\ s[i].page \in Pages(b)
    BY <2>3, <2>4, <2>5
  <2> QED BY <2>6, Zenon DEF s, f
<1>5. CASE b.guard = 1
  <2>1. u = << c1, c2, c3, c4 >>
    BY <1>5 DEF UnpinCalls, LowGuard, HighGuard
  <2> HIDE DEF u, c1, c2, c3, c4
  <2> DEFINE C == {c1, c2, c3, c4} \cup {g(i) : i \in 1 .. b.count}
  <2>2. u \in Seq(C) /\ Len(u) = 4 /\ u[1] = c1 /\ u[2] = c2 /\ u[3] = c3 /\ u[4] = c4
    BY <2>1
  <2>3. f \in Seq(C)
    BY <1>3
  <2> HIDE DEF C
  <2>4. /\ s \in Seq(C) /\ Len(s) = 4 + b.count
        /\ \A i \in 1 .. 4 + b.count : s[i] = IF i <= 4 THEN u[i] ELSE f[i - 4]
    <3>1. /\ u \o f \in Seq(C) /\ Len(u \o f) = Len(u) + Len(f)
          /\ \A i \in 1 .. Len(u) + Len(f) : (u \o f)[i] = IF i <= Len(u) THEN u[i] ELSE f[i - Len(u)]
      BY <2>2, <2>3, ConcatProperties, Zenon
    <3>2. Len(u) = 4 /\ Len(f) = b.count
      BY <1>3, <2>2, Zenon
    <3> QED BY <3>1, <3>2, Zenon
  <2> HIDE DEF s
  <2>5. DOMAIN s = 1 .. 4 + b.count
    BY <2>4
  <2>6. /\ s[1] = c1 /\ s[2] = c2 /\ s[3] = c3 /\ s[4] = c4
        /\ \A i \in 5 .. 4 + b.count : s[i] = g(i - 4)
    <3>1. s[1] = u[1] /\ s[2] = u[2] /\ s[3] = u[3] /\ s[4] = u[4]
      BY <1>1, <2>4
    <3>2. ASSUME NEW i \in 5 .. 4 + b.count PROVE s[i] = g(i - 4)
      <4>1. s[i] = f[i - 4]
        BY <1>1, <2>4
      <4>2. i - 4 \in 1 .. b.count
        BY <1>1
      <4> QED BY <1>3, <4>1, <4>2, Zenon
    <3> QED BY <2>2, <3>1, <3>2
  <2>7. \A i \in 5 .. 4 + b.count : /\ s[i].op # "incRef" /\ s[i].page = b.first + i - 5
                                    /\ s[i].token = Own(k)
    BY <1>1, <1>2, <2>6
  <2>8. /\ LowGuard(b) = lo /\ HighGuard(b) = hi /\ lo \in Pages(b) /\ hi \in Pages(b)
        /\ \A i \in 5 .. 4 + b.count : b.first + i - 5 \in Pages(b) \ {lo, hi}
    BY <1>1, <1>5 DEF LowGuard, HighGuard, Pages
  <2>9. lo # hi
    BY <1>1
  <2>10. \A i \in DOMAIN s : i = 1 \/ i = 2 \/ i = 3 \/ i = 4 \/ i \in 5 .. 4 + b.count
    BY <1>1, <2>5
  <2> HIDE DEF lo, hi
  <2>11. \A i \in DOMAIN s : /\ s[i].op # "incRef"
                             /\ \/ s[i].token = Own(k) /\ s[i].page \in Pages(b)
                                \/ s[i].token = Pin(k) /\ s[i].page \in {LowGuard(b), HighGuard(b)}
    BY <1>2, <2>6, <2>7, <2>8, <2>10
  <2>12. ASSUME NEW i \in DOMAIN s, NEW j \in DOMAIN s,
                s[i].page = s[j].page, s[i].token = s[j].token
         PROVE  i = j
    <3>1. CASE i \in 5 .. 4 + b.count /\ j \in 5 .. 4 + b.count
      BY <1>1, <2>7, <2>12, <3>1
    <3>2. CASE i \in {1, 2, 3, 4} /\ j \in {1, 2, 3, 4}
      BY <1>1, <1>2, <2>6, <2>9, <2>12, <3>2
    <3>3. CASE i \in 5 .. 4 + b.count /\ j \in {1, 2, 3, 4}
      BY <1>1, <1>2, <2>6, <2>7, <2>8, <2>12, <3>3
    <3>4. CASE i \in {1, 2, 3, 4} /\ j \in 5 .. 4 + b.count
      BY <1>1, <1>2, <2>6, <2>7, <2>8, <2>12, <3>4
    <3> QED BY <2>10, <3>1, <3>2, <3>3, <3>4
  <2> QED BY <1>5, <2>11, <2>12, Zenon DEF s, u, f
<1> QED BY <1>4, <1>5, Zenon

LEMMA FreeGuardedRefs ==
    ASSUME IInv, RefInv, NEW k \in Client, freePagesGuarded(k)
    PROVE  RefInv'
<1> DEFINE b == block[k]
           s == UnpinCalls(k, b) \o freePages(k, b)
<1>1. b \in Block /\ b # NoBlock /\ todo[k] = <<>>
  BY Zenon DEF IInv, ClientInv, freePagesGuarded, Idle
<1>2. b.count # 0 /\ b.guard \in {0, 1}
  BY <1>1, Zenon DEF RefInv, HoldSound, BlockHeld, IInv, ClientInv
<1>3. /\ todo'[k] = s /\ block'[k] = NoBlock
      /\ \A l \in Client \ {k} : todo'[l] = todo[l] /\ block'[l] = block[l]
      /\ UNCHANGED <<bitmap, ref_counts, holders>>
  BY Zenon DEF freePagesGuarded, IInv, ClientInv
<1>4. RefsExact'
  BY <1>3, Zenon DEF RefInv, RefsExact, PageExact
<1>5. \A l \in Client \ {k} : HoldSound(l)'
  BY <1>3, HoldFrame, Zenon DEF RefInv
<1>6. /\ \A i, j \in DOMAIN s : s[i].page = s[j].page /\ s[i].token = s[j].token => i = j
      /\ \A i \in DOMAIN s :
            /\ s[i].op # "incRef"
            /\ \/ s[i].token = Own(k) /\ s[i].page \in Pages(b)
               \/ /\ s[i].token = Pin(k) /\ b.guard = 1
                  /\ s[i].page \in {LowGuard(b), HighGuard(b)}
  <2> HIDE DEF b
  <2> QED BY <1>1, <1>2, FreeCalls, Zenon
<1>7. \A p \in Pages(b) : Own(k) \in holders[p]
  BY <1>2, Zenon DEF RefInv, HoldSound, BlockHeld
<1>8. b.guard = 1 => \A p \in {LowGuard(b), HighGuard(b)} : Pin(k) \in holders[p]
  BY <1>1, <1>2 DEF RefInv, HoldSound, BlockHeld
<1> HIDE DEF s, b
<1>9. \A i \in DOMAIN s : s[i].token \in {Own(k), Pin(k)} /\ s[i].token \in holders[s[i].page]
  BY <1>6, <1>7, <1>8, Zenon
<1>10. CallsSound(k)'
  BY <1>3, <1>6, <1>9, Zenon DEF CallsSound, Own, Pin, NoBlock
<1>11. BlockHeld(k)'
  BY <1>3 DEF BlockHeld, NoBlock
<1> QED BY <1>4, <1>5, <1>10, <1>11, Zenon DEF RefInv, HoldSound

LEMMA ContinueRefs ==
    ASSUME IInv, RefInv, Unsaturated, NEW k \in Client, Continue(k)
    PROVE  RefInv'
<1> USE PmmAssumption
<1> DEFINE s == todo[k]
           c == Head(s)
<1>1. s \in Seq(Call) /\ s # <<>> /\ c = s[1] /\ 1 \in DOMAIN s /\ c \in Call
  <2>1. s \in Seq(Call) /\ s # <<>>
    BY Zenon DEF IInv, ClientInv, Continue
  <2> QED BY <2>1, HeadTailProperties
<1>2. /\ DOMAIN Tail(s) = 1 .. Len(s) - 1 /\ DOMAIN s = 1 .. Len(s) /\ Len(s) \in Nat
      /\ \A i \in 1 .. Len(s) - 1 : Tail(s)[i] = s[i + 1]
  BY <1>1, HeadTailProperties
<1>3. /\ todo'[k] = Tail(s)
      /\ \A l \in Client \ {k} : todo'[l] = todo[l]
      /\ \A l \in Client : block'[l] = block[l]
  BY Zenon DEF Continue, IInv, ClientInv
<1>4. /\ \A i, j \in DOMAIN s : s[i].page = s[j].page /\ s[i].token = s[j].token => i = j
      /\ \A i \in DOMAIN s :
            IF s[i].op = "incRef"
            THEN /\ s[i].token = Pin(k) /\ Pin(k) \notin holders[s[i].page]
                 /\ Own(k) \in holders[s[i].page] /\ block[k] # NoBlock
            ELSE /\ s[i].token \in {Own(k), Pin(k)} /\ s[i].token \in holders[s[i].page]
                 /\ block[k] = NoBlock
  BY Zenon DEF RefInv, HoldSound, CallsSound
<1>5. c.page \in Page /\ c.page >= FirstFree /\ c.token \in Token /\ c.token \in {Own(k), Pin(k)}
  <2>1. c.page \in Page /\ c.page >= FirstFree /\ c.token \in Token
    BY <1>1, Zenon DEF Call, IInv, ClientInv
  <2>2. c.token \in {Own(k), Pin(k)}
    BY <1>1, <1>4, Zenon
  <2> QED BY <2>1, <2>2
<1>6. \/ c.op = "incRef" /\ incRef(c.page) /\ Hold(c.page, c.token)
      \/ c.op # "incRef" /\ decRef(c.page) /\ Drop(c.page, c.token)
      \/ c.op # "incRef" /\ freePage(c.page) /\ Drop(c.page, c.token)
  BY Zenon DEF Continue
<1>7. /\ c.op = "incRef" => /\ c.token = Pin(k) /\ Pin(k) \notin holders[c.page]
                            /\ holders[c.page] # {} /\ block[k] # NoBlock
      /\ c.op # "incRef" => c.token \in holders[c.page] /\ block[k] = NoBlock
  BY <1>1, <1>4, Zenon
<1>8. \A i \in 1 .. Len(s) - 1 : /\ i + 1 \in DOMAIN s
                                 /\ ~ (s[i + 1].page = c.page /\ s[i + 1].token = c.token)
  BY <1>1, <1>2, <1>4
<1>9. /\ \A r \in Page \ {c.page} : holders'[r] = holders[r]
      /\ c.op = "incRef" => holders'[c.page] = holders[c.page] \cup {c.token}
      /\ c.op # "incRef" => holders'[c.page] = holders[c.page] \ {c.token}
  BY <1>5, <1>6 DEF Hold, Drop, IInv, ClientInv
<1>10. \A i \in DOMAIN s : s[i].page \in Page
  <2>1. \A i \in DOMAIN s : s[i] \in Call
    BY <1>1
  <2> QED BY <2>1, Zenon DEF Call
<1> HIDE DEF s, c
<1>11. RefsExact'
  <2>1. CASE c.op = "incRef"
    BY <1>5, <1>6, <1>7, <2>1, GainExact DEF RefInv
  <2>2. CASE c.op # "incRef"
    BY <1>5, <1>6, <1>7, <2>2, LoseExact, Zenon DEF RefInv
  <2> QED BY <2>1, <2>2, Zenon
<1>12. Own(k) # Pin(k) /\ \A l \in Client \ {k} : c.token # Own(l) /\ c.token # Pin(l)
  BY <1>5 DEF Own, Pin
<1>13. ASSUME NEW l \in Client \ {k} PROVE HoldSound(l)'
  <2>1. \A r \in Page : /\ Own(l) \in holders'[r] <=> Own(l) \in holders[r]
                        /\ Pin(l) \in holders'[r] <=> Pin(l) \in holders[r]
    BY <1>9, <1>12, Zenon
  <2> QED BY <1>3, <2>1, HoldFrame, Zenon DEF RefInv
<1>14. CallsSound(k)'
  <2> DEFINE t == todo'[k]
  <2>1. /\ DOMAIN t = 1 .. Len(s) - 1
        /\ \A i \in DOMAIN t : t[i] = s[i + 1] /\ i + 1 \in DOMAIN s
    BY <1>2, <1>3, <1>8, Zenon
  <2>2. \A i, j \in DOMAIN t : t[i].page = t[j].page /\ t[i].token = t[j].token => i = j
    <3> SUFFICES ASSUME NEW i \in DOMAIN t, NEW j \in DOMAIN t,
                        t[i].page = t[j].page, t[i].token = t[j].token
                 PROVE  i = j
      BY Zenon
    <3>1. i \in 1 .. Len(s) - 1 /\ j \in 1 .. Len(s) - 1
      BY <2>1, Zenon
    <3>2. t[i] = s[i + 1] /\ t[j] = s[j + 1] /\ i + 1 \in DOMAIN s /\ j + 1 \in DOMAIN s
      BY <2>1, Zenon
    <3> HIDE DEF t
    <3>3. s[i + 1].page = s[j + 1].page /\ s[i + 1].token = s[j + 1].token
      BY <3>2, Zenon
    <3>4. i + 1 = j + 1
      BY <1>4, <3>2, <3>3, Zenon
    <3> QED BY <3>1, <3>4
  <2>3. ASSUME NEW i \in DOMAIN t
        PROVE  IF t[i].op = "incRef"
               THEN /\ t[i].token = Pin(k) /\ Pin(k) \notin holders'[t[i].page]
                    /\ Own(k) \in holders'[t[i].page] /\ block[k] # NoBlock
               ELSE /\ t[i].token \in {Own(k), Pin(k)} /\ t[i].token \in holders'[t[i].page]
                    /\ block[k] = NoBlock
    <3> DEFINE e == s[i + 1]
    <3>1. /\ t[i] = e /\ e.page \in Page
          /\ ~ (e.page = c.page /\ e.token = c.token)
      BY <1>8, <1>10, <2>1, Zenon
    <3>2. IF e.op = "incRef"
          THEN /\ e.token = Pin(k) /\ Pin(k) \notin holders[e.page]
               /\ Own(k) \in holders[e.page] /\ block[k] # NoBlock
          ELSE /\ e.token \in {Own(k), Pin(k)} /\ e.token \in holders[e.page]
               /\ block[k] = NoBlock
      BY <1>4, <2>1, Zenon
    <3> HIDE DEF e
    <3>3. CASE e.op = "incRef"
      <4>1. c.op = "incRef" /\ c.token = Pin(k) /\ c.page # e.page
        BY <1>7, <3>1, <3>2, <3>3
      <4> QED BY <1>9, <3>1, <3>2, <3>3, <4>1, Zenon
    <3>4. CASE e.op # "incRef"
      <4>1. c.op # "incRef"
        BY <1>7, <3>2, <3>4
      <4>2. e.token \in holders'[e.page]
        BY <1>9, <3>1, <3>2, <3>4, <4>1
      <4> QED BY <3>1, <3>2, <3>4, <4>2
    <3> QED BY <3>3, <3>4, Zenon
  <2> HIDE DEF t
  <2> QED BY <1>3, <2>2, <2>3, Zenon DEF CallsSound, Own, Pin, NoBlock, t
<1>15. BlockHeld(k)'
  <2>1. CASE block[k] = NoBlock
    BY <1>3, <2>1 DEF BlockHeld, NoBlock
  <2>2. CASE block[k] # NoBlock
    <3> DEFINE b == block[k]
    <3>1. c.op = "incRef" /\ c.token = Pin(k)
      BY <1>7, <2>2, Zenon
    <3>2. b.count # 0
      BY <2>2, Zenon DEF RefInv, HoldSound, BlockHeld
    <3>3. /\ b.first \in Nat /\ b.count \in Nat /\ b.guard \in {0, 1}
          /\ FirstFree <= b.first - b.guard /\ b.first + b.count + b.guard <= TotalPages
      BY <3>2, Zenon DEF IInv, ClientInv, Block
    <3>4. \A p \in Pages(b) : p \in Page
      BY <3>3 DEF Pages
    <3>5. b.guard = 1 => LowGuard(b) \in Pages(b) /\ HighGuard(b) \in Pages(b)
      BY <3>3 DEF LowGuard, HighGuard, Pages
    <3>6. \A p \in Pages(b) : Own(k) \in holders'[p]
      <4>1. \A p \in Pages(b) : Own(k) \in holders[p]
        BY <3>2, Zenon DEF RefInv, HoldSound, BlockHeld
      <4> HIDE DEF b
      <4> QED BY <1>9, <3>1, <3>4, <4>1
    <3>7. ASSUME NEW p \in {LowGuard(b), HighGuard(b)}, b.guard = 1
          PROVE  \/ Pin(k) \in holders'[p]
                 \/ \E i \in DOMAIN todo'[k] : todo'[k][i].op = "incRef" /\ todo'[k][i].page = p
      <4>1. p \in Page
        BY <3>4, <3>5, <3>7, Zenon
      <4>2. Pin(k) \in holders[p] \/ \E i \in DOMAIN s : s[i].op = "incRef" /\ s[i].page = p
        BY <3>2, <3>7, Zenon DEF RefInv, HoldSound, BlockHeld, s
      <4>3. CASE Pin(k) \in holders[p]
        BY <1>9, <3>1, <4>1, <4>3, Zenon
      <4>4. ASSUME NEW i \in DOMAIN s, s[i].op = "incRef", s[i].page = p
            PROVE  \/ Pin(k) \in holders'[p]
                   \/ \E j \in DOMAIN todo'[k] : todo'[k][j].op = "incRef" /\ todo'[k][j].page = p
        <5>1. CASE i = 1
          BY <1>1, <1>9, <3>1, <4>4, <5>1, Zenon
        <5>2. CASE i # 1
          <6>1. i - 1 \in 1 .. Len(s) - 1 /\ (i - 1) + 1 = i
            BY <1>2, <5>2
          <6>2. i - 1 \in DOMAIN todo'[k] /\ todo'[k][i - 1] = s[i]
            BY <1>2, <1>3, <6>1, Zenon
          <6> QED BY <4>4, <6>2, Zenon
        <5> QED BY <5>1, <5>2, Zenon
      <4> QED BY <4>2, <4>3, <4>4, Zenon
    <3>8. block'[k] = b
      BY <1>3, Zenon
    <3> HIDE DEF b
    <3> QED BY <3>2, <3>6, <3>7, <3>8, Zenon DEF BlockHeld, Own, Pin, Pages, LowGuard, HighGuard
  <2> QED BY <2>1, <2>2, Zenon
<1> QED BY <1>11, <1>13, <1>14, <1>15, Zenon DEF RefInv, HoldSound

\* pmm.zig: as long as no count saturates, a page is on the free bitmap exactly
\* when nobody holds a reference to it, through every interleaving of
\* allocations, sharing and releases, and of the separate critical sections of
\* allocPagesGuarded and freePagesGuarded: no page is handed out while in use
\* and none is lost.
THEOREM PmmFreeIffUnheld ==
    ASSUME Unsaturated
    PROVE  Spec => []FreeIffUnheld
<1>1. Init => RefInv
  <2> SUFFICES ASSUME Init PROVE RefInv
    BY Zenon
  <2>1. RefsExact
    <3> SUFFICES ASSUME NEW p \in Page, p >= FirstFree PROVE PageExact(p)
      BY Zenon DEF RefsExact
    <3>1. holders[p] = {} /\ ref_counts[p] = 0
      BY Zenon DEF Init
    <3>2. p \in FirstFree .. TotalPages - 1
      BY PmmAssumption
    <3> QED BY <3>1, <3>2, FS_EmptySet, Zenon DEF Init, PageExact
  <2>2. \A k \in Client : HoldSound(k)
    BY DEF Init, HoldSound, CallsSound, BlockHeld, NoBlock
  <2> QED BY <2>1, <2>2, Zenon DEF RefInv
<1>2. IInv /\ RefInv /\ [Next]_vars => RefInv'
  <2> SUFFICES ASSUME IInv, RefInv, [Next]_vars PROVE RefInv'
    BY Zenon
  <2>1. CASE UNCHANGED vars
    <3>1. RefsExact'
      BY <2>1, Zenon DEF vars, RefInv, RefsExact, PageExact
    <3>2. \A k \in Client : HoldSound(k)'
      BY <2>1, HoldFrame, Zenon DEF vars, RefInv
    <3> QED BY <3>1, <3>2, Zenon DEF RefInv
  <2>2. CASE Next
    BY <2>2, AllocPageRefs, AllocGuardedRefs, AllocHugeRefs, ShareRefs, ReleaseRefs,
       FreeGuardedRefs, FreeHugeRefs, ContinueRefs, Zenon DEF Next
  <2> QED BY <2>1, <2>2, Zenon
<1>3. RefInv => FreeIffUnheld
  BY Zenon DEF RefInv, RefsExact, PageExact, FreeIffUnheld
<1> QED BY <1>1, <1>2, <1>3, PmmInvariant, PTL DEF Spec
=============================================================================
