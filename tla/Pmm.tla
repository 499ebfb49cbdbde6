-------------------------------- MODULE Pmm --------------------------------
(***************************************************************************)
(* The physical memory manager of the aarch64 kernel (pmm.zig): a bitmap   *)
(* of free pages, a reference count per page for copy-on-write and page    *)
(* cache sharing, a free-page counter and a search hint, all protected by  *)
(* pmm_lock.  Every action below is one critical section of that lock.     *)
(* The operations that take the lock several times (freePages,             *)
(* allocPagesGuarded, freePagesGuarded) leave a list of the calls they     *)
(* still have to make in todo[k], so other contexts interleave with them.  *)
(*                                                                         *)
(* The ghost variable holders[p] is the set of references the rest of the  *)
(* kernel believes it has on page p.  A reference is a pair of a kernel    *)
(* context and what it is for: "own" (allocated or shared) or "pin" (the   *)
(* extra reference that allocPagesGuarded takes on guard pages).           *)
(***************************************************************************)
EXTENDS Integers, Sequences, FiniteSets

CONSTANTS
    Client,       \* kernel contexts that hold references to pages
    TotalPages,   \* total_pages
    FirstFree,    \* first_free_page: kernel image and metadata lie below
    RefMax,       \* largest value of a u16 reference count (65535)
    HugePages,    \* HUGE_PAGE_PAGES (512)
    Counts        \* the sizes contiguous allocations are asked for

ASSUME PmmAssumption ==
    /\ IsFiniteSet(Client)
    /\ TotalPages \in Nat /\ FirstFree \in Nat \ {0} /\ FirstFree <= TotalPages
    /\ RefMax \in Nat \ {0, 1}
    /\ HugePages \in Nat \ {0}
    /\ Counts \subseteq Nat \ {0}

VARIABLES
    bitmap,          \* the pages whose bit is set: the free ones
    free_pages,      \* the counter kept beside the bitmap
    ref_counts,      \* page -> u16
    next_free_hint,  \* where allocations start to search
    holders,         \* ghost: page -> references held by the kernel
    block,           \* context -> its guarded block, or NoBlock
    todo             \* context -> calls its current operation still makes

pmmVars == <<bitmap, free_pages, ref_counts, next_free_hint>>
vars == <<bitmap, free_pages, ref_counts, next_free_hint, holders, block, todo>>

Page == 0 .. TotalPages - 1
Token == Client \X {"own", "pin"}
Own(k) == <<k, "own">>
Pin(k) == <<k, "pin">>
NoBlock == [first |-> 0, count |-> 0, guard |-> 0, huge |-> FALSE]
Block == [first : Nat, count : Nat, guard : Nat, huge : BOOLEAN]
Call == [op : {"incRef", "decRef", "freePage"}, page : Page, token : Token]
Idle(k) == todo[k] = <<>>

TypeOK ==
    /\ bitmap \in SUBSET Page
    /\ free_pages \in Nat
    /\ ref_counts \in [Page -> 0 .. RefMax]
    /\ next_free_hint \in 0 .. TotalPages
    /\ holders \in [Page -> SUBSET Token]
    /\ block \in [Client -> Block]
    /\ todo \in [Client -> Seq(Call)]

\* init marks the pages from first_free_page on as free.
Init ==
    /\ bitmap = FirstFree .. TotalPages - 1
    /\ free_pages = TotalPages - FirstFree
    /\ ref_counts = [p \in Page |-> 0]
    /\ next_free_hint = FirstFree
    /\ holders = [p \in Page |-> {}]
    /\ block = [k \in Client |-> NoBlock]
    /\ todo = [k \in Client |-> <<>>]

-----------------------------------------------------------------------------
(* Allocation *)

\* p is the first set bit of a scan over lo .. hi - 1.
FirstIn(lo, hi, p) ==
    /\ p \in bitmap /\ lo <= p /\ p < hi
    /\ \A q \in bitmap : ~ (lo <= q /\ q < p)

NoneIn(lo, hi) == \A q \in bitmap : ~ (lo <= q /\ q < hi)

\* The bookkeeping every allocation does for the pages ps it hands out.
Take(k, ps, n) ==
    /\ bitmap' = bitmap \ ps
    /\ free_pages' = free_pages - n
    /\ ref_counts' = [p \in Page |-> IF p \in ps THEN 1 ELSE ref_counts[p]]
    /\ holders' = [p \in Page |-> IF p \in ps THEN {Own(k)} ELSE holders[p]]

\* The scan from the hint and its wrap-around from page 1.
ScanFinds(p) ==
    \/ FirstIn(next_free_hint, TotalPages, p)
    \/ /\ NoneIn(next_free_hint, TotalPages)
       /\ FirstIn(1, next_free_hint, p)

allocPageInner(k) ==
    /\ Idle(k)
    /\ free_pages # 0
    /\ \E p \in Page :
         /\ ScanFinds(p)
         /\ Take(k, {p}, 1)
         /\ next_free_hint' = p + 1
    /\ UNCHANGED <<block, todo>>

FreeRun(first, n) == \A p \in first .. first + n - 1 : p \in bitmap

\* The first run of n free pages at or after the hint: no wrap-around, and
\* the hint stays where it is.
RunFound(first, n) ==
    /\ first >= next_free_hint
    /\ FreeRun(first, n)
    /\ \A g \in next_free_hint .. first - 1 : ~ FreeRun(g, n)

allocPages(k, first, n) ==
    /\ free_pages >= n
    /\ RunFound(first, n)
    /\ Take(k, first .. first + n - 1, n)
    /\ UNCHANGED next_free_hint

\* The guard pages of a block: ROWHAMMER_GUARD_PAGES is 1, and callers that
\* ask for no guard pass 0.
LowGuard(b) == b.first - 1
HighGuard(b) == b.first + b.count

\* allocPages, then one incRef call for the guard page on either side.
PinCalls(k, b) ==
    IF b.guard = 0 THEN <<>>
    ELSE << [op |-> "incRef", page |-> LowGuard(b), token |-> Pin(k)],
            [op |-> "incRef", page |-> HighGuard(b), token |-> Pin(k)] >>

allocPagesGuarded(k, count, guard) ==
    /\ Idle(k) /\ block[k] = NoBlock
    /\ \E base \in Page :
         LET b == [first |-> base + guard, count |-> count, guard |-> guard,
                   huge |-> FALSE]
         IN  /\ allocPages(k, base, count + 2 * guard)
             /\ block' = [block EXCEPT ![k] = b]
             /\ todo' = [todo EXCEPT ![k] = PinCalls(k, b)]

\* A run of HUGE_PAGE_PAGES free pages at an aligned index; from the hint
\* rounded up, then from the first aligned index after page 0.
RoundUp(n) == ((n + HugePages - 1) \div HugePages) * HugePages
HugeStarts(lo, hi) ==
    {s \in Page : /\ s % HugePages = 0 /\ lo <= s /\ s < hi
                  /\ s + HugePages <= TotalPages
                  /\ FreeRun(s, HugePages)}
HugeFound(s) ==
    LET ahead  == HugeStarts(RoundUp(next_free_hint), TotalPages)
        behind == HugeStarts(RoundUp(1), RoundUp(next_free_hint))
    IN  \/ s \in ahead /\ \A t \in ahead : s <= t
        \/ ahead = {} /\ s \in behind /\ \A t \in behind : s <= t

allocHugePage(k) ==
    /\ Idle(k) /\ block[k] = NoBlock
    /\ free_pages >= HugePages
    /\ \E s \in Page :
         /\ HugeFound(s)
         /\ Take(k, s .. s + HugePages - 1, HugePages)
         /\ block' = [block EXCEPT
                        ![k] = [first |-> s, count |-> HugePages, guard |-> 0,
                                huge |-> TRUE]]
    /\ UNCHANGED <<next_free_hint, todo>>

-----------------------------------------------------------------------------
(* Reference counting *)

\* Mutant: the hint is not lowered when a page below it becomes free.
SetFree_keepHint(ps) ==
    /\ bitmap' = bitmap \cup ps
    /\ free_pages' = free_pages + Cardinality(ps \ bitmap)
    /\ UNCHANGED next_free_hint

\* Mutant: one page is counted however many are freed.
SetFree_countOne(ps) ==
    /\ bitmap' = bitmap \cup ps
    /\ free_pages' = free_pages + 1
    /\ \E h \in {next_free_hint} \cup (ps \ bitmap) :
         /\ \A q \in {next_free_hint} \cup (ps \ bitmap) : h <= q
         /\ next_free_hint' = h

\* The bit, counter and hint updates of freePage, decRef and freeHugePage.
SetFree(ps) ==
    /\ bitmap' = bitmap \cup ps
    /\ free_pages' = free_pages + Cardinality(ps \ bitmap)
    /\ \E h \in {next_free_hint} \cup (ps \ bitmap) :
         /\ \A q \in {next_free_hint} \cup (ps \ bitmap) : h <= q
         /\ next_free_hint' = h

incRef(p) ==
    /\ ref_counts' = [ref_counts EXCEPT ![p] = IF @ < RefMax THEN @ + 1 ELSE @]
    /\ UNCHANGED <<bitmap, free_pages, next_free_hint>>

\* Mutant: a shared page is freed by its first release.
freePage_ignoreShared(p) ==
    IF p < FirstFree
    THEN UNCHANGED pmmVars
    ELSE /\ ref_counts' = [ref_counts EXCEPT ![p] = 0]
         /\ SetFree({p})

\* freePage refuses kernel pages, drops one reference, and sets the bit when
\* the count was 0 or 1.
freePage(p) ==
    IF p < FirstFree
    THEN UNCHANGED pmmVars
    ELSE IF ref_counts[p] > 1
    THEN /\ ref_counts' = [ref_counts EXCEPT ![p] = @ - 1]
         /\ UNCHANGED <<bitmap, free_pages, next_free_hint>>
    ELSE /\ ref_counts' = [ref_counts EXCEPT ![p] = 0]
         /\ SetFree({p})

\* decRef leaves a saturated count alone, and frees the page at 0.
decRef(p) ==
    IF ref_counts[p] \in {0, RefMax}
    THEN UNCHANGED pmmVars
    ELSE /\ ref_counts' = [ref_counts EXCEPT ![p] = @ - 1]
         /\ IF ref_counts[p] = 1
            THEN SetFree({p})
            ELSE UNCHANGED <<bitmap, free_pages, next_free_hint>>

Drop(p, t) == holders' = [holders EXCEPT ![p] = @ \ {t}]
Hold(p, t) == holders' = [holders EXCEPT ![p] = @ \cup {t}]

\* p belongs to a block of k's, or to one k is freeing: kernel stacks, DMA
\* rings and huge pages are never shared page by page.
InBlock(k, p) ==
    \/ /\ block[k] # NoBlock
       /\ block[k].first - block[k].guard <= p
       /\ p < block[k].first + block[k].count + block[k].guard
    \/ \E i \in DOMAIN todo[k] : todo[k][i].page = p

\* A context takes a reference to a page another one holds: fork's
\* copy-on-write sharing, a page cache pin, a page cache entry.
Share(k, p) ==
    /\ Idle(k)
    /\ \E l \in Client : Own(l) \in holders[p] /\ ~ InBlock(l, p)
    /\ Own(k) \notin holders[p]
    /\ incRef(p) /\ Hold(p, Own(k))
    /\ UNCHANGED <<block, todo>>

ReleaseByFree(k, p) ==
    /\ Idle(k) /\ Own(k) \in holders[p] /\ ~ InBlock(k, p)
    /\ freePage(p) /\ Drop(p, Own(k))
    /\ UNCHANGED <<block, todo>>

ReleaseByDecRef(k, p) ==
    /\ Idle(k) /\ Own(k) \in holders[p] /\ ~ InBlock(k, p)
    /\ decRef(p) /\ Drop(p, Own(k))
    /\ UNCHANGED <<block, todo>>

\* freePagesGuarded: for each guard page decRef then freePage, then
\* freePages on the usable pages.
UnpinCalls(k, b) ==
    IF b.guard = 0 THEN <<>>
    ELSE << [op |-> "decRef", page |-> LowGuard(b), token |-> Pin(k)],
            [op |-> "freePage", page |-> LowGuard(b), token |-> Own(k)],
            [op |-> "decRef", page |-> HighGuard(b), token |-> Pin(k)],
            [op |-> "freePage", page |-> HighGuard(b), token |-> Own(k)] >>
freePages(k, b) ==
    [i \in 1 .. b.count |->
        [op |-> "freePage", page |-> b.first + i - 1, token |-> Own(k)]]

freePagesGuarded(k) ==
    /\ Idle(k) /\ block[k] # NoBlock /\ ~ block[k].huge
    /\ todo' = [todo EXCEPT ![k] = UnpinCalls(k, block[k]) \o freePages(k, block[k])]
    /\ block' = [block EXCEPT ![k] = NoBlock]
    /\ UNCHANGED <<bitmap, free_pages, ref_counts, next_free_hint, holders>>

\* freeHugePage drops one reference of each page of an aligned block, in one
\* critical section.
freeHugePage(k) ==
    LET b   == block[k]
        ps  == b.first .. b.first + HugePages - 1
        gone == {p \in ps : ref_counts[p] <= 1}
    IN  /\ Idle(k) /\ b.huge
        /\ ref_counts' = [p \in Page |->
                            IF p \notin ps THEN ref_counts[p]
                            ELSE IF p \in gone THEN 0 ELSE ref_counts[p] - 1]
        /\ SetFree(gone)
        /\ holders' = [p \in Page |-> IF p \in ps THEN holders[p] \ {Own(k)}
                                                  ELSE holders[p]]
        /\ block' = [block EXCEPT ![k] = NoBlock]
        /\ UNCHANGED todo

\* One call of an operation in progress.
Continue(k) ==
    /\ todo[k] # <<>>
    /\ LET c == Head(todo[k])
       IN  \/ c.op = "incRef" /\ incRef(c.page) /\ Hold(c.page, c.token)
           \/ c.op = "decRef" /\ decRef(c.page) /\ Drop(c.page, c.token)
           \/ c.op = "freePage" /\ freePage(c.page) /\ Drop(c.page, c.token)
    /\ todo' = [todo EXCEPT ![k] = Tail(@)]
    /\ UNCHANGED block

Next ==
    \E k \in Client :
       \/ allocPageInner(k)
       \/ \E n \in Counts, g \in {0, 1} : allocPagesGuarded(k, n, g)
       \/ allocHugePage(k)
       \/ \E p \in Page : Share(k, p) \/ ReleaseByFree(k, p) \/ ReleaseByDecRef(k, p)
       \/ freePagesGuarded(k)
       \/ freeHugePage(k)
       \/ Continue(k)

Spec == Init /\ [][Next]_vars

-----------------------------------------------------------------------------
(* Properties *)

\* A page is on the free bitmap exactly when nobody holds a reference to it:
\* no page is handed out while in use, and none is lost.
FreeIffUnheld ==
    \A p \in Page : p >= FirstFree => (p \in bitmap <=> holders[p] = {})

\* allocPages scans upward from next_free_hint and never wraps: that is
\* complete because every operation keeps the hint at or below each free page.
HintBelowFree == \A p \in bitmap : next_free_hint <= p

\* free_pages, which allocations test before they scan, is the number of set
\* bits of the bitmap.
CounterExact == free_pages = Cardinality(bitmap)

\* A page somebody holds a reference to is not free.  This is what the
\* saturation of incRef and decRef at 65535 is for: a page whose count has
\* overflowed is to be leaked rather than freed under its users.
HeldNeverFree == \A p \in Page : holders[p] # {} => p \notin bitmap

\* The pages of the kernel image and of the allocator's own metadata never
\* become free.
KernelNeverFree == \A p \in bitmap : p >= FirstFree

=============================================================================
