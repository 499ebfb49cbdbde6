---------------------------- MODULE Journal_proofs ----------------------------
(***************************************************************************)
(* A mounted file system shows what was committed and nothing else, for    *)
(* any number of blocks, any log size and any number of crashes, but for   *)
(* the blocks that the cache writes home while their transaction is open.  *)
(***************************************************************************)
EXTENDS Journal, LeastNumber, SequenceTheorems, TLAPS

\* The contents on the disk, the entries of a scan, and of a transaction.
Block == Content \cup {Record}
ReplayEntry == [seq : Nat, b : FsBlock, at : Pos, escape : BOOLEAN, valid : BOOLEAN]
Buffer == [b : FsBlock, c : Content, escaped : BOOLEAN]

\* The types, with the loops of stop inside the queue of the transaction.
DiskType ==
    /\ fs \in [FsBlock -> Block] /\ committed \in [FsBlock -> Block]
    /\ DOMAIN past = FsBlock /\ early \subseteq FsBlock
    /\ fault \in {"none", "early", "torn", "io"}
LogType ==
    /\ WellFormed(jnl)
    /\ write_pos \in Pos /\ jsb_seq \in Nat /\ sequence \in Nat
HandleType ==
    /\ handle \in [active : BOOLEAN, seq : Nat, queue : Seq(Buffer)]
    /\ Len(handle.queue) <= MaxQueue
    /\ ~ handle.active => handle.queue = <<>>
    /\ pc \in {"off", "replay", "clear", "init", "idle", "desc", "data", "commit", "home", "clean"}
    /\ handle.queue # <<>> => pc \in {"idle", "desc", "data", "commit", "home"}
    /\ pc \in {"desc", "data", "commit", "home"} => handle.queue # <<>>
    /\ pc \in {"data", "home"} => k \in 1 .. Len(handle.queue)
    /\ pc = "commit" => k = 1
    /\ k \in 0 .. MaxQueue + 1 /\ closing \in BOOLEAN
CacheType ==
    /\ DOMAIN block_cache = 0 .. CacheSize - 1
    /\ \A i \in 0 .. CacheSize - 1 :
          /\ block_cache[i].b \in FsBlock \cup {None}
          /\ block_cache[i].b # None => block_cache[i].b % CacheSize = i /\ block_cache[i].c \in Block
          /\ block_cache[i].dirty => block_cache[i].b # None
\* Transactions are numbered from 1.
SeqInv ==
    /\ sequence \in Nat /\ jsb_seq \in Nat
    /\ pc # "off" => sequence # 0
    /\ handle.active => handle.seq # 0
TypeInv == DiskType /\ LogType /\ HandleType /\ CacheType /\ entries \in Seq(ReplayEntry)

\* The content c of block b is the last one the queue q gives it, or else the
\* one that is committed.
Newest(q, com, b, c) ==
    \/ (\A i \in 1 .. Len(q) : q[i].b # b) /\ c = com[b]
    \/ \E i \in 1 .. Len(q) : /\ q[i].b = b /\ c = Home(q[i])
                              /\ \A j \in 1 .. Len(q) : j > i => q[j].b # b

\* The block cache is up to date, and once the commit block is written so are
\* the committed contents.  Buffers are escaped one by one.
QueueInv ==
    /\ \A i \in 0 .. CacheSize - 1 : block_cache[i].dirty =>
          Newest(handle.queue, committed, block_cache[i].b, block_cache[i].c)
    /\ pc \in {"idle", "desc"} => \A i \in 1 .. Len(handle.queue) : ~ handle.queue[i].escaped
    /\ pc = "data" => \A i \in k .. Len(handle.queue) : ~ handle.queue[i].escaped
    /\ pc = "home" => \A b \in FsBlock : Newest(handle.queue, committed, b, committed[b])

\* The blocks es, the last entry of a block counting, bring the file system up
\* to date.
Sound(es) ==
    /\ \A i \in 1 .. Len(es) :
          /\ Replayed(jnl, es[i]) \in past[es[i].b]
          /\ (\A j \in 1 .. Len(es) : j > i => es[j].b # es[i].b) =>
                committed[es[i].b] = Replayed(jnl, es[i])
    /\ \A b \in FsBlock : (\A i \in 1 .. Len(es) : es[i].b # b) => fs[b] = committed[b]

\* The first l of them have been written.
Ahead(es, l) ==
    \A b \in FsBlock : (\A i \in 1 .. Len(es) : i > l => es[i].b # b) => fs[b] = committed[b]

\* While the superblock has a sequence number nothing but replay touches the
\* disk, and the disk can be recovered all the time.
ReplayInv ==
    /\ jsb_seq # 0 => /\ pc \in {"off", "replay", "clear"} /\ early = {}
                      /\ Sound(replayJournal(jnl, jsb_seq))
    /\ pc = "replay" /\ jsb_seq = 0 => entries = <<>>
    /\ pc = "replay" /\ jsb_seq # 0 =>
          LET es == replayJournal(jnl, jsb_seq)
          IN  \E l \in 0 .. Len(es) : entries = SubSeq(es, l + 1, Len(es)) /\ Ahead(es, l)

\* Where the file system is up to date, but for the blocks written too early.
Right == \A b \in FsBlock : b \notin early => fs[b] = committed[b]
FsInv ==
    /\ pc \in {"clear", "init", "idle", "desc", "data", "commit", "clean"} => Right
    /\ pc \in {"off", "replay"} /\ jsb_seq = 0 => Right
    /\ pc = "home" => \A b \in FsBlock :
          /\ b \notin early
          /\ \A j \in k .. Len(handle.queue) : handle.queue[j].b # b
          => fs[b] = committed[b]

\* Until a crash the blocks written too early are those of the open transaction.
EarlyInv ==
    fault = "none" =>
        \A b \in early : \E j \in 1 .. Len(handle.queue) :
            handle.queue[j].b = b /\ (pc = "home" => k <= j)

\* Every content in sight was committed.
PastInv ==
    /\ \A b \in FsBlock : (b \in early \/ fs[b] \in past[b]) /\ committed[b] \in past[b]
    /\ pc = "home" => \A i \in 1 .. Len(handle.queue) : Home(handle.queue[i]) \in past[handle.queue[i].b]

JournalInv ==
    /\ TypeInv
    /\ fault # "io" => QueueInv /\ ReplayInv /\ PastInv
    /\ fault \in {"none", "early"} => FsInv

-----------------------------------------------------------------------------
(* The log and what replay reads from it.                                  *)

LEMMA Places ==
    /\ 1 \in Pos /\ MaxBlocks \in Nat /\ None \notin FsBlock
    /\ \A p \in Pos : nextBlock(p) \in Pos
<1>1. None \notin FsBlock
  BY JournalAssumption DEF None
<1>2. \A p \in Pos : nextBlock(p) \in Pos
  BY JournalAssumption DEF Pos, nextBlock
<1> QED BY <1>1, <1>2, JournalAssumption DEF Pos

\* Escaping a block can be undone.
LEMMA Escaping ==
    /\ \A c \in Content : /\ Escape(c) \in Content /\ Restore(c) \in Content
                          /\ c[1] = "magic" => Restore(Escape(c)) = c
                          /\ c[1] # "magic" => Escape(c) = c
    /\ \A c \in Block : Restore(c) \in Block
<1>1. \A c \in Content : c = <<c[1], c[2]>> /\ c[1] \in {"magic", "zero"} /\ c[2] \in Rest
  BY DEF Content
<1>2. \A x \in {"magic", "zero"}, r \in Rest : <<x, r>> \in Content
  BY Zenon DEF Content
<1>3. Restore(Record) = Record
  BY Zenon DEF Record, Restore
<1> QED BY <1>1, <1>2, <1>3, Zenon DEF Escape, Restore, Block

LEMMA BlockKinds ==
    ASSUME NEW log, WellFormed(log), NEW p \in Pos
    PROVE  /\ log[p].kind \in {"data", "desc", "commit", "revoke"}
           /\ log[p].kind = "data" => log[p].c \in Content
           /\ log[p].kind # "data" => log[p].seq \in Nat
           /\ log[p].kind = "desc" => /\ log[p].tags \in Seq([b : FsBlock, escape : BOOLEAN])
                                      /\ log[p].tags # <<>>
           /\ log[p].kind = "commit" => log[p].seq # 0
           /\ log[p].kind = "revoke" => log[p].b \in FsBlock
<1>1. PICK blk : blk = log[p]
  BY Zenon
<1>2. /\ blk \in JBlock
      /\ blk.kind = "desc" => blk.tags # <<>>
      /\ blk.kind = "commit" => blk.seq # 0
  BY <1>1, Zenon DEF WellFormed
<1>3. CASE blk \in {Data(c) : c \in Content}
  BY <1>1, <1>3 DEF Data
<1>4. CASE blk \in [kind : {"desc"}, seq : Nat, tags : Seq([b : FsBlock, escape : BOOLEAN])]
  BY <1>1, <1>2, <1>4, Zenon
<1>5. CASE blk \in [kind : {"commit"}, seq : Nat]
  BY <1>1, <1>2, <1>5, Zenon
<1>6. CASE blk \in [kind : {"revoke"}, seq : Nat, b : FsBlock]
  BY <1>1, <1>6, Zenon
<1> QED BY <1>2, <1>3, <1>4, <1>5, <1>6 DEF JBlock

LEMMA EntryType ==
    ASSUME NEW blk, NEW p \in Pos, NEW i \in Nat, i # 0, blk.seq \in Nat,
           blk.tags[i] \in [b : FsBlock, escape : BOOLEAN]
    PROVE  Entry(blk, p, i) \in ReplayEntry
<1> DEFINE Q == Pos
           first == p
           round(x) == nextBlock(x)
           F == [y \in Q \X (1 .. i) |-> round(y[1])]
           S == [x \in 0 .. i |-> Q]
           Is(g) == g = [x \in 0 .. i |-> IF x = 0 THEN first ELSE round(g[x - 1])]
           ends == (CHOOSE f : Is(f))[i]
<1>1. first \in Q
  BY Zenon
<1>2. \A x \in Q : round(x) \in Q
  BY Places, Zenon
<1>3. i \in Nat
  BY Zenon
<1> HIDE DEF first, round, Q
<1>4. PICK g : IsLoop(g, i, first, F)
  <2> HIDE DEF F
  <2> QED BY <1>3, RecursionExists, Zenon
<1>5. ASSUME NEW x \in 1 .. i
      PROVE  /\ x \in 0 .. i /\ x - 1 \in 0 .. i /\ x # 0
             /\ S[x] = Q /\ S[x - 1] = Q
  BY <1>3
<1>6. S[0] = Q
  BY <1>3
<1>7. \A x \in 0 .. i : g[x] \in S[x]
  <2>1. g[0] \in S[0]
    BY <1>1, <1>3, <1>4, <1>6 DEF IsLoop
  <2>2. ASSUME NEW x \in 1 .. i, g[x - 1] \in S[x - 1] PROVE g[x] \in S[x]
    <3>1. g[x - 1] \in Q /\ g[x] = F[<<g[x - 1], x>>]
      <4> HIDE DEF F
      <4> QED BY <1>4, <1>5, <2>2 DEF IsLoop
    <3>2. F[<<g[x - 1], x>>] = round(g[x - 1])
      BY <3>1, Zenon
    <3> QED BY <1>2, <1>5, <3>1, <3>2, Zenon
  <2> HIDE DEF S
  <2> QED BY <1>3, <2>1, <2>2, LoopInduction, Zenon
<1>8. Is(g)
  <2>1. \A x \in 0 .. i : x # 0 => F[<<g[x - 1], x>>] = round(g[x - 1])
    <3> SUFFICES ASSUME NEW x \in 0 .. i, x # 0 PROVE F[<<g[x - 1], x>>] = round(g[x - 1])
      BY Zenon
    <3>1. x \in 1 .. i
      BY <1>3
    <3>2. g[x - 1] \in Q
      BY <1>5, <1>7, <3>1, Zenon
    <3> QED BY <3>1, <3>2, Zenon
  <2> HIDE DEF F
  <2> QED BY <1>4, <2>1 DEF IsLoop
<1>9. PICK h : h = CHOOSE f : Is(f)
  BY Zenon
<1>10. Is(h)
  <2> HIDE DEF Is
  <2> QED BY <1>8, <1>9
<1>11. \A x \in 0 .. i : h[x] \in S[x]
  <2>1. h[0] \in S[0]
    BY <1>1, <1>3, <1>6, <1>10
  <2>2. ASSUME NEW x \in 1 .. i, h[x - 1] \in S[x - 1] PROVE h[x] \in S[x]
    BY <1>2, <1>5, <1>10, <2>2
  <2> HIDE DEF S, Is
  <2> QED BY <1>3, <2>1, <2>2, LoopInduction, Zenon
<1>12. ends = h[i]
  <2>1. ends = (CHOOSE f : Is(f))[i]
    BY Zenon DEF ends, first, round
  <2> HIDE DEF Is
  <2> QED BY <1>9, <2>1
<1>13. i \in 0 .. i
  BY <1>3
<1>14. ends \in Q
  BY <1>3, <1>5, <1>6, <1>11, <1>12, <1>13, Zenon
<1>15. Entry(blk, p, i) = [seq |-> blk.seq, b |-> blk.tags[i].b, at |-> ends,
                           escape |-> blk.tags[i].escape, valid |-> FALSE]
  BY Zenon DEF Entry, ends, first, round
<1> HIDE DEF ends
<1> QED BY <1>14, <1>15 DEF ReplayEntry, Q

\* The states of the scan.
Revocations == SUBSET (FsBlock \X Nat)
ScanState == [pos : Pos, expected : Nat, scanned : Nat, entries : Seq(ReplayEntry),
              revoked : Revocations, done : BOOLEAN]

LEMMA ScanBlockType ==
    ASSUME NEW log, WellFormed(log), NEW s \in ScanState
    PROVE  ScanBlock(log, s) \in ScanState
<1>1. PICK p \in Pos : p = s.pos
  BY Zenon DEF ScanState
<1>2. PICK blk : blk = log[p]
  BY Zenon
<1>3. PICK es \in Seq(ReplayEntry) : es = s.entries
  BY Zenon DEF ScanState
<1>4. nextBlock(p) \in Pos
  BY Places, Zenon
<1>a. s.scanned + 1 \in Nat /\ s.expected + 1 \in Nat
  BY DEF ScanState
<1>5. CASE blk.kind = "data"
  BY <1>1, <1>2, <1>5, Zenon DEF ScanBlock, ScanState
<1>6. CASE blk.kind = "desc"
  <2>1. PICK n \in Nat : n = Len(blk.tags) /\ n # 0 /\ blk.seq \in Nat
                         /\ \A i \in 1 .. n : blk.tags[i] \in [b : FsBlock, escape : BOOLEAN]
    <3>1. PICK ts \in Seq([b : FsBlock, escape : BOOLEAN]) : ts = blk.tags /\ ts # <<>> /\ blk.seq \in Nat
      BY <1>2, <1>6, BlockKinds, Zenon
    <3>2. Len(ts) \in Nat /\ Len(ts) # 0
      BY <3>1, EmptySeq, Zenon
    <3>3. \A i \in 1 .. Len(ts) : ts[i] \in [b : FsBlock, escape : BOOLEAN]
      BY ElementOfSeq, Zenon
    <3> QED BY <3>1, <3>2, <3>3, Zenon
  <2>2. \A i \in 1 .. n : Entry(blk, p, i) \in ReplayEntry
    <3> SUFFICES ASSUME NEW i \in 1 .. n PROVE Entry(blk, p, i) \in ReplayEntry
      BY Zenon
    <3>1. i \in Nat /\ i # 0 /\ blk.seq \in Nat /\ blk.tags[i] \in [b : FsBlock, escape : BOOLEAN]
      BY <2>1
    <3> QED BY <3>1, EntryType, Zenon
  <2>3. PICK new : new = [i \in 1 .. n |-> Entry(blk, p, i)]
    BY Zenon
  <2>4. new \in [1 .. n -> ReplayEntry] /\ n \in 1 .. n
    BY <2>1, <2>2, <2>3
  <2>5. new[n].at \in Pos /\ new \in Seq(ReplayEntry)
    <3>1. new[n] \in ReplayEntry
      BY <2>4, Zenon
    <3>2. new \in Seq(ReplayEntry)
      BY <2>4, SeqDef, Zenon
    <3> QED BY <3>1, <3>2, Zenon DEF ReplayEntry
  <2>6. PICK all : all = es \o new
    BY Zenon
  <2>7. PICK q \in Pos : q = nextBlock(new[n].at)
    BY <2>5, Places, Zenon
  <2>8. all \in Seq(ReplayEntry)
    BY <2>5, <2>6, ConcatProperties, Zenon
  <2>9. ScanBlock(log, s) = [s EXCEPT !.entries = all, !.pos = q, !.scanned = @ + n + 1]
    BY <1>1, <1>2, <1>3, <1>6, <2>1, <2>3, <2>6, <2>7, Zenon DEF ScanBlock
  <2>10. s.scanned + n + 1 \in Nat
    BY DEF ScanState
  <2> QED BY <2>8, <2>9, <2>10, Zenon DEF ScanState
<1>7. CASE blk.kind = "revoke"
  <2>1. blk.b \in FsBlock /\ blk.seq \in Nat
    BY <1>2, <1>7, BlockKinds
  <2>2. PICK rs : rs = s.revoked \cup {<<blk.b, blk.seq>>}
    BY Zenon
  <2>3. rs \in Revocations
    BY <2>1, <2>2 DEF ScanState, Revocations
  <2>4. ScanBlock(log, s) = [s EXCEPT !.pos = nextBlock(p), !.scanned = @ + 1, !.revoked = rs]
    BY <1>1, <1>2, <1>7, <2>2, Zenon DEF ScanBlock, ScanState
  <2> QED BY <1>4, <1>a, <2>3, <2>4, Zenon DEF ScanState
<1>8. CASE blk.kind = "commit"
  <2>1. PICK v : v = Validate(es, blk.seq)
    OBVIOUS
  <2>2. v \in Seq(ReplayEntry)
    <3>1. PICK n \in Nat : n = Len(es)
      BY LenProperties, Zenon
    <3>2. DOMAIN es = 1 .. n /\ \A i \in 1 .. n : es[i] \in ReplayEntry
      BY <3>1, LenProperties, ElementOfSeq, Zenon
    <3>3. \A i \in 1 .. n : [es[i] EXCEPT !.valid = @ \/ es[i].seq = blk.seq] \in ReplayEntry
      BY <3>2, Zenon DEF ReplayEntry
    <3>4. v \in [1 .. n -> ReplayEntry]
      BY <2>1, <3>2, <3>3 DEF Validate
    <3> QED BY <3>4, SeqDef
  <2>3. CASE blk.seq = s.expected
    <3>1. ScanBlock(log, s) = [s EXCEPT !.pos = nextBlock(p), !.scanned = @ + 1,
                                        !.expected = @ + 1, !.entries = v]
      BY <1>1, <1>2, <1>3, <1>8, <2>1, <2>3 DEF ScanBlock, ScanState
    <3> QED BY <1>4, <1>a, <2>2, <3>1, Zenon DEF ScanState
  <2>4. CASE blk.seq # s.expected
    BY <1>1, <1>2, <1>8, <2>4, Zenon DEF ScanBlock, ScanState
  <2> QED BY <2>3, <2>4, Zenon
<1> QED BY <1>2, <1>5, <1>6, <1>7, <1>8, BlockKinds, Zenon

\* A scan for transaction 0, which there is not, finds nothing.
Unseen == {e \in ReplayEntry : ~ e.valid}
Quiet(s) == s.expected = 0 /\ s.entries \in Seq(Unseen)

LEMMA ScanBlockQuiet ==
    ASSUME NEW log, WellFormed(log), NEW s \in ScanState, Quiet(s)
    PROVE  Quiet(ScanBlock(log, s))
<1>1. PICK p \in Pos : p = s.pos
  BY Zenon DEF ScanState
<1>2. PICK blk : blk = log[p]
  BY Zenon
<1>3. PICK es \in Seq(Unseen) : es = s.entries
  BY Zenon DEF Quiet
<1>4. s.expected = 0
  BY Zenon DEF Quiet
<1>5. CASE blk.kind = "data"
  BY <1>1, <1>2, <1>5, Zenon DEF ScanBlock, ScanState, Quiet
<1>6. CASE blk.kind = "desc"
  <2>1. PICK n \in Nat : n = Len(blk.tags) /\ blk.seq \in Nat
                         /\ \A i \in 1 .. n : blk.tags[i] \in [b : FsBlock, escape : BOOLEAN]
    <3>1. PICK ts \in Seq([b : FsBlock, escape : BOOLEAN]) : ts = blk.tags /\ blk.seq \in Nat
      BY <1>2, <1>6, BlockKinds, Zenon
    <3>2. Len(ts) \in Nat
      BY <3>1, LenProperties, Zenon
    <3>3. \A i \in 1 .. Len(ts) : ts[i] \in [b : FsBlock, escape : BOOLEAN]
      BY ElementOfSeq, Zenon
    <3> QED BY <3>1, <3>2, <3>3, Zenon
  <2>2. \A i \in 1 .. n : Entry(blk, p, i) \in Unseen
    <3> SUFFICES ASSUME NEW i \in 1 .. n PROVE Entry(blk, p, i) \in Unseen
      BY Zenon
    <3>1. i \in Nat /\ i # 0 /\ blk.seq \in Nat /\ blk.tags[i] \in [b : FsBlock, escape : BOOLEAN]
      BY <2>1
    <3>2. Entry(blk, p, i) \in ReplayEntry
      BY <3>1, EntryType, Zenon
    <3>3. ~ Entry(blk, p, i).valid
      BY Zenon DEF Entry
    <3> QED BY <3>2, <3>3, Zenon DEF Unseen
  <2>3. PICK new : new = [i \in 1 .. n |-> Entry(blk, p, i)]
    BY Zenon
  <2>4. new \in [1 .. n -> Unseen]
    BY <2>2, <2>3, Zenon
  <2>5. new \in Seq(Unseen)
    BY <2>4
  <2>6. PICK all : all = es \o new
    BY Zenon
  <2>7. all \in Seq(Unseen)
    BY <2>5, <2>6, ConcatProperties, Zenon
  <2>8. PICK q : q = nextBlock(new[n].at)
    BY Zenon
  <2>9. ScanBlock(log, s) = [s EXCEPT !.entries = all, !.pos = q, !.scanned = @ + n + 1]
    BY <1>1, <1>2, <1>3, <1>6, <2>1, <2>3, <2>6, <2>8, Zenon DEF ScanBlock
  <2> QED BY <1>4, <2>7, <2>9, Zenon DEF ScanState, Quiet
<1>7. CASE blk.kind = "revoke"
  <2>1. ScanBlock(log, s) = [s EXCEPT !.pos = nextBlock(p), !.scanned = @ + 1,
                                      !.revoked = @ \cup {<<blk.b, blk.seq>>}]
    BY <1>1, <1>2, <1>7, Zenon DEF ScanBlock, ScanState
  <2> QED BY <1>3, <1>4, <2>1, Zenon DEF ScanState, Quiet
<1>8. CASE blk.kind = "commit"
  <2>1. blk.seq # s.expected
    BY <1>2, <1>4, <1>8, BlockKinds, Zenon
  <2> QED BY <1>1, <1>2, <1>8, <2>1, Zenon DEF ScanBlock, ScanState, Quiet
<1> QED BY <1>2, <1>5, <1>6, <1>7, <1>8, BlockKinds, Zenon

LEMMA ScanType ==
    ASSUME NEW log, WellFormed(log), NEW p \in Pos, NEW seq \in Nat
    PROVE  /\ pass1_scan(log, p, seq) \in ScanState
           /\ seq = 0 => Quiet(pass1_scan(log, p, seq))
<1> DEFINE Q == {s \in ScanState : seq = 0 => Quiet(s)}
           first == [pos |-> p, expected |-> seq, scanned |-> 0, entries |-> <<>>,
                     revoked |-> {}, done |-> FALSE]
           round(s) == IF s.done \/ s.scanned >= MaxBlocks THEN s ELSE ScanBlock(log, s)
           F == [y \in Q \X (1 .. MaxBlocks) |-> round(y[1])]
           S == [x \in 0 .. MaxBlocks |-> Q]
           Is(g) == g = [x \in 0 .. MaxBlocks |-> IF x = 0 THEN first ELSE round(g[x - 1])]
<1>1. first \in Q
  <2>1. {} \in Revocations
    BY Zenon DEF Revocations
  <2>2. first \in ScanState
    BY <2>1, EmptySeq DEF ScanState
  <2>3. seq = 0 => Quiet(first)
    BY EmptySeq, Zenon DEF Quiet
  <2> QED BY <2>2, <2>3, Zenon
<1>2. \A s \in Q : round(s) \in Q
  BY ScanBlockType, ScanBlockQuiet, Zenon
<1>3. MaxBlocks \in Nat
  BY Places, Zenon
<1> HIDE DEF first, round, Q
<1>4. PICK g : IsLoop(g, MaxBlocks, first, F)
  <2> HIDE DEF F
  <2> QED BY <1>3, RecursionExists, Zenon
<1>5. ASSUME NEW x \in 1 .. MaxBlocks
      PROVE  /\ x \in 0 .. MaxBlocks /\ x - 1 \in 0 .. MaxBlocks /\ x # 0
             /\ S[x] = Q /\ S[x - 1] = Q
  BY <1>3
<1>6. S[0] = Q
  BY <1>3
<1>7. \A x \in 0 .. MaxBlocks : g[x] \in S[x]
  <2>1. g[0] \in S[0]
    BY <1>1, <1>3, <1>4, <1>6 DEF IsLoop
  <2>2. ASSUME NEW x \in 1 .. MaxBlocks, g[x - 1] \in S[x - 1] PROVE g[x] \in S[x]
    <3>1. g[x - 1] \in Q /\ g[x] = F[<<g[x - 1], x>>]
      <4> HIDE DEF F
      <4> QED BY <1>4, <1>5, <2>2, Zenon DEF IsLoop
    <3>2. F[<<g[x - 1], x>>] = round(g[x - 1])
      BY <3>1
    <3> QED BY <1>2, <1>5, <3>1, <3>2, Zenon
  <2> HIDE DEF S
  <2> QED BY <1>3, <2>1, <2>2, LoopInduction
<1>8. Is(g)
  <2>1. \A x \in 0 .. MaxBlocks : x # 0 => F[<<g[x - 1], x>>] = round(g[x - 1])
    <3> SUFFICES ASSUME NEW x \in 0 .. MaxBlocks, x # 0 PROVE F[<<g[x - 1], x>>] = round(g[x - 1])
      BY Zenon
    <3>1. x \in 1 .. MaxBlocks
      BY <1>3
    <3>2. g[x - 1] \in Q
      BY <1>5, <1>7, <3>1
    <3> QED BY <3>1, <3>2
  <2> HIDE DEF F
  <2> QED BY <1>4, <2>1 DEF IsLoop
<1>9. PICK h : h = CHOOSE f : Is(f)
  BY Zenon
<1>10. Is(h)
  <2> HIDE DEF Is
  <2> QED BY <1>8, <1>9
<1>11. \A x \in 0 .. MaxBlocks : h[x] \in S[x]
  <2>1. h[0] \in S[0]
    BY <1>1, <1>3, <1>6, <1>10
  <2>2. ASSUME NEW x \in 1 .. MaxBlocks, h[x - 1] \in S[x - 1] PROVE h[x] \in S[x]
    BY <1>2, <1>5, <1>10, <2>2, Zenon
  <2> HIDE DEF S, Is
  <2> QED BY <1>3, <2>1, <2>2, LoopInduction, Zenon
<1>12. pass1_scan(log, p, seq) = h[MaxBlocks]
  <2>1. pass1_scan(log, p, seq) = (CHOOSE f : Is(f))[MaxBlocks]
    BY Zenon DEF pass1_scan, first, round
  <2> HIDE DEF Is
  <2> QED BY <1>9, <2>1, Zenon
<1>13. MaxBlocks \in 0 .. MaxBlocks
  BY <1>3
<1>14. pass1_scan(log, p, seq) \in Q
  BY <1>3, <1>5, <1>6, <1>11, <1>12, <1>13
<1> QED BY <1>14, Zenon DEF Q

LEMMA FilterType ==
    ASSUME NEW s \in ScanState
    PROVE  /\ pass2_filter(s) \in Seq(ReplayEntry)
           /\ Quiet(s) => pass2_filter(s) = <<>>
<1> DEFINE n == Len(s.entries)
           Q == {q \in Seq(ReplayEntry) : Quiet(s) => q = <<>>}
           first == <<>>
           round(q, i) == LET e == s.entries[i]
                          IN  IF e.valid /\ ~ Revoked(s, e) THEN Append(q, e) ELSE q
           F == [y \in Q \X (1 .. n) |-> round(y[1], y[2])]
           S == [x \in 0 .. n |-> Q]
           Is(g) == g = [x \in 0 .. n |-> IF x = 0 THEN first ELSE round(g[x - 1], x)]
<1>1. first \in Q
  BY EmptySeq, Zenon
<1>0. s.entries \in Seq(ReplayEntry)
  BY Zenon DEF ScanState
<1>3. n \in Nat
  BY <1>0, LenProperties
<1>2. \A q \in Q, i \in 1 .. n : round(q, i) \in Q
  <2> SUFFICES ASSUME NEW q \in Q, NEW i \in 1 .. n PROVE round(q, i) \in Q
    BY Zenon
  <2>1. s.entries[i] \in ReplayEntry
    BY <1>0, ElementOfSeq, Zenon
  <2>2. Append(q, s.entries[i]) \in Seq(ReplayEntry)
    BY <2>1, AppendProperties, Zenon
  <2>3. ASSUME Quiet(s) PROVE ~ s.entries[i].valid
    <3>1. s.entries[i] \in Unseen
      BY <2>3, ElementOfSeq, Zenon DEF Quiet
    <3> QED BY <3>1, Zenon DEF Unseen
  <2> QED BY <2>2, <2>3, Zenon
<1> HIDE DEF first, round, Q, n
<1>4. PICK g : IsLoop(g, n, first, F)
  <2> HIDE DEF F
  <2> QED BY <1>3, RecursionExists, Zenon
<1>5. ASSUME NEW x \in 1 .. n
      PROVE  /\ x \in 0 .. n /\ x - 1 \in 0 .. n /\ x # 0
             /\ S[x] = Q /\ S[x - 1] = Q
  BY <1>3
<1>6. S[0] = Q
  BY <1>3
<1>7. \A x \in 0 .. n : g[x] \in S[x]
  <2>1. g[0] \in S[0]
    BY <1>1, <1>3, <1>4, <1>6 DEF IsLoop
  <2>2. ASSUME NEW x \in 1 .. n, g[x - 1] \in S[x - 1] PROVE g[x] \in S[x]
    <3>1. g[x - 1] \in Q /\ g[x] = F[<<g[x - 1], x>>]
      <4> HIDE DEF F
      <4> QED BY <1>4, <1>5, <2>2, Zenon DEF IsLoop
    <3>2. F[<<g[x - 1], x>>] = round(g[x - 1], x)
      BY <3>1, Zenon
    <3> QED BY <1>2, <1>5, <3>1, <3>2, Zenon
  <2> HIDE DEF S
  <2> QED BY <1>3, <2>1, <2>2, LoopInduction, Zenon
<1>8. Is(g)
  <2>1. \A x \in 0 .. n : x # 0 => F[<<g[x - 1], x>>] = round(g[x - 1], x)
    <3> SUFFICES ASSUME NEW x \in 0 .. n, x # 0 PROVE F[<<g[x - 1], x>>] = round(g[x - 1], x)
      BY Zenon
    <3>1. x \in 1 .. n
      BY <1>3
    <3>2. g[x - 1] \in Q
      BY <1>5, <1>7, <3>1, Zenon
    <3> QED BY <3>1, <3>2, Zenon
  <2> HIDE DEF F
  <2> QED BY <1>4, <2>1, Zenon DEF IsLoop
<1>9. PICK h : h = CHOOSE f : Is(f)
  BY Zenon
<1>10. Is(h)
  <2> HIDE DEF Is
  <2> QED BY <1>8, <1>9
<1>11. \A x \in 0 .. n : h[x] \in S[x]
  <2>1. h[0] \in S[0]
    BY <1>1, <1>3, <1>6, <1>10
  <2>2. ASSUME NEW x \in 1 .. n, h[x - 1] \in S[x - 1] PROVE h[x] \in S[x]
    BY <1>2, <1>5, <1>10, <2>2
  <2> HIDE DEF S, Is
  <2> QED BY <1>3, <2>1, <2>2, LoopInduction, Zenon
<1>12. pass2_filter(s) = h[n]
  <2>1. pass2_filter(s) = (CHOOSE f : Is(f))[n]
    BY Zenon DEF pass2_filter, first, round, n
  <2> HIDE DEF Is
  <2> QED BY <1>9, <2>1, Zenon
<1>13. n \in 0 .. n
  BY <1>3
<1>14. pass2_filter(s) \in Q
  BY <1>3, <1>5, <1>6, <1>11, <1>12, <1>13, Zenon
<1> QED BY <1>14, Zenon DEF Q

\* Replay writes blocks of the file system, with contents from the log.
LEMMA ReplayType ==
    ASSUME NEW log, WellFormed(log), NEW seq \in Nat
    PROVE  replayJournal(log, seq) \in Seq(ReplayEntry)
BY ScanType, FilterType, Places DEF replayJournal

LEMMA ReplayNothing ==
    ASSUME NEW log, WellFormed(log)
    PROVE  replayJournal(log, 0) = <<>>
<1>1. 1 \in Pos /\ 0 \in Nat
  BY Places, Zenon
<1>2. pass1_scan(log, 1, 0) \in ScanState /\ Quiet(pass1_scan(log, 1, 0))
  BY <1>1, ScanType, Zenon
<1> QED BY <1>2, FilterType, Zenon DEF replayJournal

LEMMA ReplayedBlock ==
    ASSUME NEW log, WellFormed(log), NEW e \in ReplayEntry
    PROVE  Replayed(log, e) \in Block
<1>1. e.at \in Pos
  BY Zenon DEF ReplayEntry
<1>2. Stored(log, e.at) \in Block
  BY <1>1, BlockKinds, Zenon DEF Stored, Block
<1> QED BY <1>2, Escaping DEF Replayed

-----------------------------------------------------------------------------
(* The newest content of a block.                                          *)

LEMMA NewestAppend ==
    ASSUME NEW q \in Seq(Buffer), NEW e \in Buffer, NEW com, NEW b, NEW c
    PROVE  /\ Newest(q, com, b, c) /\ b # e.b => Newest(Append(q, e), com, b, c)
           /\ Newest(Append(q, e), com, e.b, Home(e))
<1>1. PICK r : r = Append(q, e)
  BY Zenon
<1>2. /\ Len(q) \in Nat /\ Len(r) = Len(q) + 1 /\ r[Len(q) + 1] = e
      /\ \A i \in 1 .. Len(q) : r[i] = q[i]
  BY <1>1, AppendProperties, LenProperties
<1>3. ASSUME Newest(q, com, b, c), b # e.b PROVE Newest(r, com, b, c)
  <2>1. CASE \A i \in 1 .. Len(q) : q[i].b # b
    <3>1. c = com[b]
      BY <1>3, <2>1, Zenon DEF Newest
    <3>2. \A i \in 1 .. Len(r) : r[i].b # b
      BY <1>2, <1>3, <2>1
    <3> QED BY <3>1, <3>2, Zenon DEF Newest
  <2>2. CASE ~ \A i \in 1 .. Len(q) : q[i].b # b
    <3>1. PICK i \in 1 .. Len(q) : /\ q[i].b = b /\ c = Home(q[i])
                                   /\ \A j \in 1 .. Len(q) : j > i => q[j].b # b
      BY <1>3, <2>2, Zenon DEF Newest
    <3>2. i \in 1 .. Len(r) /\ r[i] = q[i]
      BY <1>2
    <3>3. \A j \in 1 .. Len(r) : j > i => r[j].b # b
      BY <1>2, <1>3, <3>1
    <3> QED BY <3>1, <3>2, <3>3 DEF Newest
  <2> QED BY <2>1, <2>2, Zenon
<1>4. Newest(r, com, e.b, Home(e))
  <2>1. Len(r) \in 1 .. Len(r) /\ r[Len(r)] = e /\ \A j \in 1 .. Len(r) : ~ j > Len(r)
    BY <1>2
  <2> QED BY <2>1, Zenon DEF Newest
<1> QED BY <1>1, <1>3, <1>4

\* Only the blocks and the contents they go home with matter.
LEMMA NewestSame ==
    ASSUME NEW q, NEW r, Len(r) = Len(q),
           \A i \in 1 .. Len(q) : r[i].b = q[i].b /\ Home(r[i]) = Home(q[i]),
           NEW com, NEW b, NEW c, Newest(q, com, b, c)
    PROVE  Newest(r, com, b, c)
BY Zenon DEF Newest

LEMMA NewestUnique ==
    ASSUME NEW q, Len(q) \in Nat, NEW com, NEW b, NEW c, NEW d, Newest(q, com, b, c), Newest(q, com, b, d)
    PROVE  c = d
<1>1. CASE \A i \in 1 .. Len(q) : q[i].b # b
  BY <1>1, Zenon DEF Newest
<1>2. CASE ~ \A i \in 1 .. Len(q) : q[i].b # b
  <2>1. PICK i \in 1 .. Len(q) : /\ q[i].b = b /\ c = Home(q[i])
                                 /\ \A j \in 1 .. Len(q) : j > i => q[j].b # b
    BY <1>2, Zenon DEF Newest
  <2>2. PICK l \in 1 .. Len(q) : /\ q[l].b = b /\ d = Home(q[l])
                                 /\ \A j \in 1 .. Len(q) : j > l => q[j].b # b
    BY <1>2, Zenon DEF Newest
  <2>3. i = l
    BY <2>1, <2>2
  <2> QED BY <2>1, <2>2, <2>3, Zenon
<1> QED BY <1>1, <1>2, Zenon

LEMMA NewestEmpty ==
    ASSUME NEW com, NEW b, NEW c
    PROVE  Newest(<<>>, com, b, c) <=> c = com[b]
BY DEF Newest

\* The contents a queued block has and goes home with.
LEMMA HomeContent ==
    ASSUME NEW e \in Buffer
    PROVE  Home(e) \in Content /\ (~ e.escaped => Home(e) = e.c)
BY Escaping, Zenon DEF Home, Buffer

\* What the commit block commits.
LEMMA CommitNewest ==
    ASSUME HandleType, writeCommitBlock
    PROVE  \A b \in FsBlock : /\ Newest(handle.queue, committed, b, committed'[b])
                              /\ \/ committed'[b] = committed[b]
                                 \/ \E i \in 1 .. Len(handle.queue) :
                                       handle.queue[i].b = b /\ committed'[b] = Home(handle.queue[i])
<1> SUFFICES ASSUME NEW b \in FsBlock
             PROVE  /\ Newest(handle.queue, committed, b, committed'[b])
                    /\ \/ committed'[b] = committed[b]
                       \/ \E i \in 1 .. Len(handle.queue) :
                             handle.queue[i].b = b /\ committed'[b] = Home(handle.queue[i])
  BY Zenon
<1>1. PICK q \in Seq(Buffer) : q = handle.queue
  BY Zenon DEF HandleType
<1>2. PICK n \in Nat : n = Len(q) /\ DOMAIN q = 1 .. n
  BY LenProperties, Zenon
<1>3. PICK T : T = Queued(b)
  BY Zenon
<1>4. T = {i \in 1 .. n : q[i].b = b}
  BY <1>1, <1>2, <1>3 DEF Queued
<1>5. committed'[b] = IF T # {} THEN Given(Last(b)) ELSE committed[b]
  BY <1>3, Zenon DEF writeCommitBlock
<1>6. CASE T = {}
  BY <1>1, <1>2, <1>4, <1>5, <1>6 DEF Newest
<1>7. CASE T # {}
  <2>1. T \in SUBSET (1 .. n)
    BY <1>4, Zenon
  <2>2. \E m \in T : \A j \in T : j <= m
    BY <1>7, <2>1, GreatestIndex, Zenon
  <2>3. PICK m : m = CHOOSE i \in T : \A j \in T : j <= i
    BY Zenon
  <2>4. m \in T /\ \A j \in T : j <= m
    BY <2>2, <2>3
  <2>5. Last(b) = m
    BY <1>3, <2>3, Zenon DEF Last
  <2>6. committed'[b] = Home(q[m])
    BY <1>1, <1>5, <1>7, <2>5 DEF Given, Home
  <2>7. \A j \in 1 .. n : j > m => q[j].b # b
    BY <1>4, <2>1, <2>4
  <2> QED BY <1>1, <1>2, <1>4, <2>4, <2>6, <2>7 DEF Newest
<1> QED BY <1>6, <1>7

-----------------------------------------------------------------------------
(* Mounting.                                                               *)

\* A block is added to the log.
LEMMA LogKeeps ==
    ASSUME LogType, NEW blk \in JBlock, blk.kind = "desc" => blk.tags # <<>>,
           blk.kind = "commit" => blk.seq # 0, Log(blk)
    PROVE  WellFormed(jnl') /\ write_pos' \in Pos
<1>1. \A p \in Pos : jnl'[p] = IF p = write_pos THEN blk ELSE jnl[p]
  BY Zenon DEF Log, LogType, WellFormed
<1>2. DOMAIN jnl' = Pos
  BY Zenon DEF Log, LogType, WellFormed
<1>3. write_pos' \in Pos
  BY Places, Zenon DEF Log, LogType
<1> QED BY <1>1, <1>2, <1>3 DEF LogType, WellFormed

LEMMA InitJournalKeeps ==
    ASSUME JournalInv, NEW recover \in BOOLEAN, initJournal(recover)
    PROVE  JournalInv'
<1>1. TypeInv /\ (fault # "io" => QueueInv /\ ReplayInv /\ PastInv) /\ (fault \in {"none", "early"} => FsInv)
  BY Zenon DEF JournalInv
<1>2. /\ UNCHANGED <<fs, jnl, jsb_seq, write_pos, handle, block_cache, k, closing, committed, past, early, fault>>
      /\ pc = "off"
      /\ \/ entries' = replayJournal(jnl, jsb_seq) /\ pc' = "replay"
         \/ jsb_seq = 0 /\ entries' = entries /\ pc' = "init"
      /\ sequence' = IF jsb_seq # 0 THEN jsb_seq + 1 ELSE 1
  BY Zenon DEF initJournal, disk, ghost, Goto
<1>3. PICK es \in Seq(ReplayEntry) : es = replayJournal(jnl, jsb_seq)
  BY <1>1, ReplayType, Zenon DEF TypeInv, LogType
<1>4. TypeInv'
  <2>1. DiskType' /\ CacheType'
    BY <1>1, <1>2, Zenon DEF TypeInv, DiskType, CacheType
  <2>2. LogType'
    <3>1. sequence' \in Nat
      BY <1>1, <1>2 DEF TypeInv, LogType
    <3> QED BY <1>1, <1>2, <3>1, Zenon DEF TypeInv, LogType
  <2>3. HandleType'
    BY <1>1, <1>2, Zenon DEF TypeInv, HandleType
  <2> QED BY <1>1, <1>2, <1>3, <2>1, <2>2, <2>3, Zenon DEF TypeInv
<1>5. ASSUME fault' # "io" PROVE QueueInv' /\ ReplayInv' /\ PastInv'
  <2>1. QueueInv /\ ReplayInv /\ PastInv
    BY <1>1, <1>2, <1>5, Zenon
  <2>2. QueueInv' /\ PastInv'
    BY <1>2, <2>1, Zenon DEF QueueInv, PastInv
  <2>3. CASE jsb_seq # 0
    <3>0. early = {}
      BY <2>1, <2>3, Zenon DEF ReplayInv
    <3>1. Sound(es) /\ Ahead(es, 0)
      BY <1>3, <2>1, <2>3 DEF ReplayInv, Sound, Ahead
    <3>2. 0 \in 0 .. Len(es) /\ es = SubSeq(es, 0 + 1, Len(es))
      BY LenProperties, SubSeqFull
    <3>3. Sound(es)' /\ Ahead(es, 0)'
      BY <1>2, <3>1 DEF Sound, Ahead
    <3>4. replayJournal(jnl, jsb_seq)' = es /\ entries' = es /\ pc' = "replay" /\ jsb_seq' # 0 /\ early' = early
      BY <1>2, <1>3, <2>3, Zenon
    <3> QED BY <2>2, <3>0, <3>2, <3>3, <3>4, Zenon DEF ReplayInv
  <2>4. CASE jsb_seq = 0
    <3>1. replayJournal(jnl, jsb_seq) = <<>>
      BY <1>1, <2>4, ReplayNothing, Zenon DEF TypeInv, LogType
    <3>2. jsb_seq' = 0 /\ (pc' = "replay" => entries' = <<>>)
      BY <1>2, <2>4, <3>1, Zenon
    <3> QED BY <2>2, <3>2, Zenon DEF ReplayInv
  <2> QED BY <2>3, <2>4, Zenon
<1>6. fault' \in {"none", "early"} => FsInv'
  <2> SUFFICES ASSUME fault' \in {"none", "early"} PROVE FsInv'
    BY Zenon
  <2>1. jsb_seq = 0 => Right
    BY <1>1, <1>2, Zenon DEF FsInv
  <2>2. jsb_seq = 0 => Right'
    BY <1>2, <2>1, Zenon DEF Right
  <2> QED BY <1>2, <2>2, Zenon DEF FsInv
<1> QED BY <1>4, <1>5, <1>6, Zenon DEF JournalInv

\* What is left of the blocks to write, after the first.
LEMMA Rest_of ==
    ASSUME NEW es \in Seq(ReplayEntry), NEW l \in 0 .. Len(es)
    PROVE  /\ SubSeq(es, l + 1, Len(es)) = <<>> <=> l = Len(es)
           /\ l # Len(es) => /\ l + 1 \in 1 .. Len(es)
                             /\ Head(SubSeq(es, l + 1, Len(es))) = es[l + 1]
                             /\ Tail(SubSeq(es, l + 1, Len(es))) = SubSeq(es, l + 2, Len(es))
<1>1. PICK n \in Nat : n = Len(es)
  BY LenProperties, Zenon
<1>2. CASE l = n
  BY <1>1, <1>2, SubSeqEmpty
<1>3. CASE l # n
  <2>1. l + 1 \in 1 .. n /\ n \in 1 .. n
    BY <1>1, <1>3
  <2>2. PICK t : t = SubSeq(es, l + 1, n)
    BY Zenon
  <2>3. t \in Seq(ReplayEntry) /\ Len(t) = n - l /\ \A i \in 1 .. n - l : t[i] = es[l + i]
    <3>1. \A m1 \in 1 .. Len(es) : \A n1 \in m1 - 1 .. Len(es) :
             /\ SubSeq(es, m1, n1) \in Seq(ReplayEntry)
             /\ Len(SubSeq(es, m1, n1)) = n1 - m1 + 1
             /\ \A i \in 1 .. n1 - m1 + 1 : SubSeq(es, m1, n1)[i] = es[m1 + i - 1]
      BY SubSeqProperties
    <3>2. n \in (l + 1) - 1 .. Len(es)
      BY <1>1, <2>1
    <3>3. /\ t \in Seq(ReplayEntry) /\ Len(t) = n - (l + 1) + 1
          /\ \A i \in 1 .. n - (l + 1) + 1 : t[i] = es[(l + 1) + i - 1]
      BY <1>1, <2>1, <2>2, <3>1, <3>2, Zenon
    <3> QED BY <1>1, <3>3
  <2>4. t # <<>>
    BY <1>1, <1>3, <2>3
  <2>5. Head(t) = es[l + 1]
    BY <1>1, <2>1, <2>3, <2>4, HeadTailProperties
  <2>6. Tail(t) = SubSeq(es, l + 2, n)
    <3>1. PICK x : x = Tail(t)
      BY Zenon
    <3>2. /\ x \in Seq(ReplayEntry) /\ Len(x) = n - l - 1
          /\ \A i \in 1 .. n - l - 1 : x[i] = es[l + i + 1]
      <4>1. /\ x \in Seq(ReplayEntry) /\ Len(x) = Len(t) - 1
            /\ \A i \in 1 .. Len(x) : x[i] = t[i + 1]
        BY <2>3, <2>4, <3>1, HeadTailProperties
      <4>2. \A i \in 1 .. n - l - 1 : i + 1 \in 1 .. n - l /\ l + (i + 1) = l + i + 1
        BY <1>1
      <4> QED BY <2>3, <4>1, <4>2, Zenon
    <3>3. PICK y : y = SubSeq(es, l + 2, n)
      BY Zenon
    <3>4. \A i \in l + 2 .. n : es[i] \in ReplayEntry
      BY <1>1, <2>1, ElementOfSeq
    <3>5. /\ y \in Seq(ReplayEntry) /\ Len(y) = n - l - 1
          /\ \A i \in 1 .. n - l - 1 : y[i] = es[l + i + 1]
      <4>1. l + 2 \in Int /\ n \in Int
        BY <1>1
      <4>2. /\ y \in Seq(ReplayEntry) /\ Len(y) = IF l + 2 <= n THEN n - (l + 2) + 1 ELSE 0
            /\ \A i \in 1 .. n - (l + 2) + 1 : y[i] = es[l + 2 + i - 1]
        BY <3>3, <3>4, <4>1, SubSeqProperties
      <4> QED BY <1>1, <2>1, <4>2
    <3>6. x = y
      BY <3>2, <3>5, SeqEqual, Zenon
    <3> QED BY <3>1, <3>3, <3>6, Zenon
  <2> QED BY <1>1, <1>3, <2>1, <2>2, <2>4, <2>5, <2>6
<1> QED BY <1>1, <1>2, <1>3

LEMMA Pass3Keeps ==
    ASSUME JournalInv, pass3_replay
    PROVE  JournalInv'
<1>1. TypeInv /\ (fault # "io" => QueueInv /\ ReplayInv /\ PastInv) /\ (fault \in {"none", "early"} => FsInv)
  BY Zenon DEF JournalInv
<1>2. UNCHANGED <<jnl, jsb_seq, write_pos, sequence, handle, block_cache, k, closing, committed, past, early, fault>>
  BY DEF pass3_replay, ghost
<1>3. PICK es \in Seq(ReplayEntry) : es = replayJournal(jnl, jsb_seq)
  BY <1>1, ReplayType, Zenon DEF TypeInv, LogType
<1>4. CASE entries = <<>>
  <2>1. pc = "replay" /\ pc' = "clear" /\ UNCHANGED <<fs, entries>>
    BY <1>4, Zenon DEF pass3_replay, Goto
  <2>2. TypeInv'
    <3>1. DiskType' /\ LogType' /\ CacheType'
      BY <1>1, <1>2, <2>1, Zenon DEF TypeInv, DiskType, LogType, CacheType
    <3>2. HandleType'
      BY <1>1, <1>2, <2>1 DEF TypeInv, HandleType
    <3> QED BY <1>1, <2>1, <3>1, <3>2, Zenon DEF TypeInv
  <2>3. ASSUME fault' # "io" PROVE QueueInv' /\ ReplayInv' /\ PastInv' /\ (jsb_seq # 0 => Right')
    <3>1. QueueInv /\ ReplayInv /\ PastInv
      BY <1>1, <1>2, <2>3
    <3>2. QueueInv' /\ PastInv'
      BY <1>2, <2>1, <3>1 DEF QueueInv, PastInv
    <3>3. jsb_seq # 0 => Sound(es)'
      BY <1>2, <1>3, <2>1, <3>1 DEF ReplayInv, Sound
    <3>4. ReplayInv'
      <4>1. jsb_seq # 0 => early' = {}
        BY <1>2, <3>1, Zenon DEF ReplayInv
      <4>2. replayJournal(jnl, jsb_seq)' = es /\ jsb_seq' = jsb_seq
        BY <1>2, <1>3, Zenon
      <4> QED BY <2>1, <3>3, <4>1, <4>2, Zenon DEF ReplayInv
    <3>5. ASSUME jsb_seq # 0 PROVE Right'
      <4>1. PICK l \in 0 .. Len(es) : entries = SubSeq(es, l + 1, Len(es)) /\ Ahead(es, l)
        BY <1>3, <2>1, <3>1, <3>5, Zenon DEF ReplayInv
      <4>2. l = Len(es) /\ Len(es) \in Nat
        BY <1>4, <4>1, Rest_of, LenProperties, Zenon
      <4>3. \A b \in FsBlock : fs[b] = committed[b]
        BY <4>1, <4>2 DEF Ahead
      <4> QED BY <1>2, <2>1, <4>3, Zenon DEF Right
    <3> QED BY <3>2, <3>4, <3>5
  <2>4. ASSUME fault' \in {"none", "early"} PROVE FsInv'
    <3>1. fault' # "io" /\ FsInv
      BY <1>1, <1>2, <2>4
    <3>2. jsb_seq = 0 => Right
      BY <2>1, <3>1, Zenon DEF FsInv
    <3>3. jsb_seq = 0 => Right'
      BY <1>2, <2>1, <3>2, Zenon DEF Right
    <3>4. Right'
      BY <2>3, <3>1, <3>3, Zenon
    <3> QED BY <2>1, <3>4, Zenon DEF FsInv
  <2> QED BY <2>2, <2>3, <2>4, Zenon DEF JournalInv
<1>5. CASE entries # <<>>
  <2>1. PICK e : e = Head(entries)
    BY Zenon
  <2>2. e \in ReplayEntry /\ Tail(entries) \in Seq(ReplayEntry)
    BY <1>1, <1>5, <2>1, HeadTailProperties DEF TypeInv
  <2>3. PICK c \in Block : c = Replayed(jnl, e)
    BY <1>1, <2>2, ReplayedBlock DEF TypeInv, LogType
  <2>4. e.b \in FsBlock
    BY <2>2, Zenon DEF ReplayEntry
  <2>5. pc = "replay" /\ pc' = "replay" /\ fs' = [fs EXCEPT ![e.b] = c] /\ entries' = Tail(entries)
    BY <1>5, <2>1, <2>3 DEF pass3_replay
  <2>6. fs' \in [FsBlock -> Block] /\ fs'[e.b] = c /\ \A b \in FsBlock : b # e.b => fs'[b] = fs[b]
    BY <1>1, <2>4, <2>5 DEF TypeInv, DiskType
  <2>7. TypeInv'
    <3>1. DiskType'
      BY <1>1, <1>2, <2>6, Zenon DEF TypeInv, DiskType
    <3>2. LogType' /\ CacheType'
      BY <1>1, <1>2, Zenon DEF TypeInv, LogType, CacheType
    <3>3. HandleType'
      BY <1>1, <1>2, <2>5 DEF TypeInv, HandleType
    <3> QED BY <2>2, <2>5, <3>1, <3>2, <3>3 DEF TypeInv
  <2>8. ASSUME fault' # "io" PROVE QueueInv' /\ ReplayInv' /\ PastInv'
    <3>1. QueueInv /\ ReplayInv /\ PastInv
      BY <1>1, <1>2, <2>8
    <3>2. QueueInv'
      BY <1>2, <2>5, <3>1 DEF QueueInv
    <3>0. jsb_seq # 0 /\ early = {}
      BY <1>5, <2>5, <3>1, Zenon DEF ReplayInv
    <3>3. PICK l \in 0 .. Len(es) : entries = SubSeq(es, l + 1, Len(es)) /\ Ahead(es, l)
      BY <1>3, <2>5, <3>0, <3>1, Zenon DEF ReplayInv
    <3>4. /\ l + 1 \in 1 .. Len(es) /\ e = es[l + 1] /\ Tail(entries) = SubSeq(es, l + 2, Len(es))
          /\ Len(es) \in Nat
      BY <1>5, <2>1, <3>3, Rest_of, LenProperties, Zenon
    <3>5. jsb_seq # 0 /\ Sound(es)
      BY <1>3, <3>0, <3>1, Zenon DEF ReplayInv
    <3>6. c \in past[e.b]
      BY <2>3, <3>4, <3>5, Zenon DEF Sound
    <3>7. PastInv'
      BY <1>2, <2>5, <2>6, <3>1, <3>6 DEF PastInv
    <3>8. \A b \in FsBlock : (\A i \in 1 .. Len(es) : es[i].b # b) => b # e.b
      BY <3>4, Zenon
    <3>9. Sound(es)'
      BY <1>2, <2>6, <3>5, <3>8 DEF Sound
    <3>10. Ahead(es, l + 1)'
      <4> SUFFICES ASSUME NEW b \in FsBlock, \A i \in 1 .. Len(es) : i > l + 1 => es[i].b # b
                   PROVE  fs'[b] = committed[b]
        BY <1>2, Zenon DEF Ahead
      <4>1. CASE b = e.b
        <5>1. committed[e.b] = c
          BY <2>3, <3>4, <3>5, <4>1 DEF Sound
        <5> QED BY <2>6, <4>1, <5>1
      <4>2. CASE b # e.b
        <5>1. \A i \in 1 .. Len(es) : i > l => es[i].b # b
          BY <3>4, <4>2
        <5> QED BY <2>6, <3>3, <4>2, <5>1 DEF Ahead
      <4> QED BY <4>1, <4>2
    <3>11. /\ replayJournal(jnl, jsb_seq)' = es /\ jsb_seq' # 0 /\ early' = {} /\ l + 1 \in 0 .. Len(es)
           /\ entries' = SubSeq(es, (l + 1) + 1, Len(es)) /\ pc' = "replay"
      BY <1>2, <1>3, <2>5, <3>0, <3>4, <3>5
    <3>12. ReplayInv'
      BY <3>9, <3>10, <3>11, Zenon DEF ReplayInv
    <3> QED BY <3>2, <3>7, <3>12
  <2>9. ASSUME fault' \in {"none", "early"} PROVE FsInv'
    <3>1. fault # "io" /\ ReplayInv
      BY <1>1, <1>2, <2>9
    <3>2. jsb_seq' # 0
      BY <1>2, <1>5, <2>5, <3>1, Zenon DEF ReplayInv
    <3> QED BY <2>5, <3>2, Zenon DEF FsInv
  <2> QED BY <2>7, <2>8, <2>9, Zenon DEF JournalInv
<1> QED BY <1>4, <1>5, Zenon

\* The log is started afresh.
LEMMA Pass4Keeps ==
    ASSUME JournalInv, pass4_clear \/ init
    PROVE  JournalInv'
<1>1. TypeInv /\ (fault # "io" => QueueInv /\ ReplayInv /\ PastInv) /\ (fault \in {"none", "early"} => FsInv)
  BY Zenon DEF JournalInv
<1>2. /\ UNCHANGED <<fs, jnl, sequence, handle, block_cache, k, entries, closing, committed, past, early, fault>>
      /\ \/ pc = "clear" /\ pc' = "init" /\ jsb_seq' = 0 /\ write_pos' = write_pos
         \/ pc = "init" /\ pc' = "idle" /\ jsb_seq' = jsb_seq /\ write_pos' = 1
  BY Zenon DEF pass4_clear, init, ghost, disk, Goto
<1>3. TypeInv'
  <2>1. DiskType' /\ CacheType'
    BY <1>1, <1>2, Zenon DEF TypeInv, DiskType, CacheType
  <2>2. LogType'
    BY <1>1, <1>2, Places DEF TypeInv, LogType
  <2>3. HandleType'
    BY <1>1, <1>2, Zenon DEF TypeInv, HandleType
  <2> QED BY <1>1, <1>2, <2>1, <2>2, <2>3, Zenon DEF TypeInv
<1>4. ASSUME fault' # "io" PROVE QueueInv' /\ ReplayInv' /\ PastInv'
  <2>1. QueueInv /\ ReplayInv /\ PastInv
    BY <1>1, <1>2, <1>4, Zenon
  <2>2. Len(handle.queue) = 0
    BY <1>1, <1>2 DEF TypeInv, HandleType
  <2>3. QueueInv'
    BY <1>2, <2>1, <2>2 DEF QueueInv
  <2>4. PastInv'
    BY <1>2, <2>1, Zenon DEF PastInv
  <2>5. ReplayInv'
    BY <1>2, <2>1, Zenon DEF ReplayInv
  <2> QED BY <2>3, <2>4, <2>5, Zenon
<1>5. fault' \in {"none", "early"} => FsInv'
  <2> SUFFICES ASSUME fault' \in {"none", "early"} PROVE FsInv'
    BY Zenon
  <2>1. Right
    BY <1>1, <1>2, Zenon DEF FsInv
  <2>2. Right'
    BY <1>2, <2>1, Zenon DEF Right
  <2> QED BY <1>2, <2>2, Zenon DEF FsInv
<1> QED BY <1>3, <1>4, <1>5, Zenon DEF JournalInv

-----------------------------------------------------------------------------
(* The block cache.                                                        *)

LEMMA CachePlace ==
    ASSUME NEW b \in FsBlock
    PROVE  Index(b) \in 0 .. CacheSize - 1 /\ Index(b) = b % CacheSize /\ b # None
BY JournalAssumption DEF Index, None

\* Replacing an entry of the cache.
LEMMA CacheKeeps ==
    ASSUME CacheType, NEW b \in FsBlock, NEW c \in Block, NEW d,
           block_cache' = [block_cache EXCEPT ![Index(b)] = [b |-> b, c |-> c, dirty |-> d]]
    PROVE  /\ CacheType'
           /\ block_cache'[Index(b)].b = b /\ block_cache'[Index(b)].c = c
           /\ block_cache'[Index(b)].dirty <=> d
           /\ \A i \in 0 .. CacheSize - 1 : i # Index(b) => block_cache'[i] = block_cache[i]
<1>1. PICK e : e = [b |-> b, c |-> c, dirty |-> d]
  BY Zenon
<1>2. e.b = b /\ e.c = c /\ (e.dirty <=> d)
  BY <1>1, Zenon
<1>3. Index(b) \in 0 .. CacheSize - 1 /\ Index(b) = b % CacheSize /\ b # None
  BY CachePlace, Zenon
<1>4. /\ block_cache'[Index(b)] = e /\ DOMAIN block_cache' = 0 .. CacheSize - 1
      /\ \A i \in 0 .. CacheSize - 1 : i # Index(b) => block_cache'[i] = block_cache[i]
  BY <1>1, <1>3, Zenon DEF CacheType
<1>5. CacheType'
  BY <1>2, <1>3, <1>4 DEF CacheType
<1> QED BY <1>2, <1>4, <1>5

\* A dirty entry that is flushed holds what is committed, or is a block of the
\* open transaction.
LEMMA ReadKeeps ==
    ASSUME JournalInv, NEW b \in FsBlock, readBlock(b)
    PROVE  JournalInv'
<1>1. TypeInv /\ (fault # "io" => QueueInv /\ ReplayInv /\ PastInv) /\ (fault \in {"none", "early"} => FsInv)
  BY Zenon DEF JournalInv
<1>2. PICK old : old = block_cache[Index(b)]
  BY Zenon
<1>3. /\ pc = "idle"
      /\ fs' = IF old.b # None /\ old.dirty THEN [fs EXCEPT ![old.b] = old.c] ELSE fs
      /\ early' = IF (old.b # None /\ old.dirty) /\ Queued(old.b) # {} THEN early \cup {old.b} ELSE early
      /\ block_cache' = [block_cache EXCEPT ![Index(b)] = [b |-> b, c |-> fs[b], dirty |-> FALSE]]
      /\ UNCHANGED <<jnl, jsb_seq, write_pos, sequence, handle, pc, k, entries, closing,
                     committed, past, fault>>
  BY <1>2, Zenon DEF readBlock, ghost
<1>4. /\ Index(b) \in 0 .. CacheSize - 1 /\ CacheType
      /\ handle.queue \in Seq(Buffer)
      /\ fs \in [FsBlock -> Block] /\ committed \in [FsBlock -> Block]
  BY <1>1, <1>3, CachePlace, Zenon DEF TypeInv, HandleType, DiskType
<1>5. old.b # None => old.b \in FsBlock /\ old.c \in Block
  BY <1>2, <1>4 DEF CacheType
<1>6. /\ CacheType' /\ ~ block_cache'[Index(b)].dirty
      /\ \A i \in 0 .. CacheSize - 1 : i # Index(b) => block_cache'[i] = block_cache[i]
  <2>1. PICK c \in Block : c = fs[b]
    BY <1>4, Zenon
  <2> QED BY <1>3, <1>4, <2>1, CacheKeeps, Zenon
<1>7. fs' \in [FsBlock -> Block] /\ early' \subseteq FsBlock /\ early \subseteq early'
  <2>1. early \subseteq FsBlock
    BY <1>1, Zenon DEF TypeInv, DiskType
  <2> QED BY <1>3, <1>4, <1>5, <2>1
<1>8. TypeInv'
  <2>1. DiskType'
    BY <1>1, <1>3, <1>7 DEF TypeInv, DiskType
  <2>2. LogType'
    BY <1>1, <1>3, Zenon DEF TypeInv, LogType
  <2>3. HandleType'
    BY <1>1, <1>3, Zenon DEF TypeInv, HandleType
  <2> QED BY <1>1, <1>3, <1>6, <2>1, <2>2, <2>3 DEF TypeInv
<1>9. ASSUME fault # "io"
      PROVE  \A c \in FsBlock : c \in early' \/ fs'[c] = fs[c] \/ fs'[c] = committed[c]
  <2>1. CASE old.b # None /\ old.dirty
    <3>1. Newest(handle.queue, committed, old.b, old.c)
      BY <1>1, <1>2, <1>4, <1>9, <2>1, Zenon DEF QueueInv
    <3>2. fs' = [fs EXCEPT ![old.b] = old.c] /\ old.b \in FsBlock
      BY <1>3, <1>5, <2>1, Zenon
    <3>3. \A c \in FsBlock : c # old.b => fs'[c] = fs[c]
      BY <1>4, <3>2, Zenon
    <3>4. fs'[old.b] = old.c
      BY <1>4, <3>2, Zenon
    <3>5. CASE Queued(old.b) # {}
      <4>1. old.b \in early'
        BY <1>3, <2>1, <3>5, Zenon
      <4> QED BY <3>3, <4>1, Zenon
    <3>6. CASE Queued(old.b) = {}
      <4>1. DOMAIN handle.queue = 1 .. Len(handle.queue)
        BY <1>4, LenProperties, Zenon
      <4>2. \A i \in 1 .. Len(handle.queue) : handle.queue[i].b # old.b
        BY <3>6, <4>1, Zenon DEF Queued
      <4>3. old.c = committed[old.b]
        BY <3>1, <4>2, Zenon DEF Newest
      <4> QED BY <3>3, <3>4, <4>3, Zenon
    <3> QED BY <3>5, <3>6, Zenon
  <2>2. CASE ~ (old.b # None /\ old.dirty)
    BY <1>3, <2>2, Zenon
  <2> QED BY <2>1, <2>2, Zenon
<1>10. ASSUME fault' # "io" PROVE QueueInv' /\ ReplayInv' /\ PastInv'
  <2>1. QueueInv /\ ReplayInv /\ PastInv
    BY <1>1, <1>3, <1>10, Zenon
  <2>2. QueueInv'
    <3>1. \A i \in 0 .. CacheSize - 1 : block_cache'[i].dirty =>
              Newest(handle'.queue, committed', block_cache'[i].b, block_cache'[i].c)
      BY <1>3, <1>6, <2>1 DEF QueueInv
    <3> QED BY <1>3, <2>1, <3>1 DEF QueueInv
  <2>3. PastInv'
    <3>1. \A c \in FsBlock : (c \in early' \/ fs'[c] \in past[c]) /\ committed[c] \in past[c]
      BY <1>3, <1>7, <1>9, <1>10, <2>1 DEF PastInv
    <3> QED BY <1>3, <3>1, Zenon DEF PastInv
  <2>4. jsb_seq = 0
    BY <1>3, <2>1, Zenon DEF ReplayInv
  <2>5. ReplayInv'
    BY <1>3, <2>4 DEF ReplayInv
  <2> QED BY <2>2, <2>3, <2>5, Zenon
<1>11. ASSUME fault' \in {"none", "early"} PROVE FsInv'
  <2>0. fault # "io"
    BY <1>3, <1>11
  <2>1. Right
    BY <1>1, <1>3, <1>11, Zenon DEF FsInv
  <2>2. Right'
    <3>1. \A c \in FsBlock : c \notin early' => c \notin early
      BY <1>7, Zenon
    <3> QED BY <1>3, <1>9, <2>0, <2>1, <3>1, Zenon DEF Right
  <2> QED BY <1>3, <2>2, Zenon DEF FsInv
<1> QED BY <1>8, <1>10, <1>11 DEF JournalInv

LEMMA WriteKeeps ==
    ASSUME JournalInv, NEW b \in FsBlock, NEW c \in Content, writeBlock(b, c)
    PROVE  JournalInv'
<1>1. TypeInv /\ (fault # "io" => QueueInv /\ ReplayInv /\ PastInv) /\ (fault \in {"none", "early"} => FsInv)
  BY Zenon DEF JournalInv
<1>2. /\ pc = "idle"
      /\ block_cache' = [block_cache EXCEPT ![Index(b)] = [b |-> b, c |-> c, dirty |-> TRUE]]
      /\ UNCHANGED <<jnl, jsb_seq, write_pos, sequence, pc, k, entries, closing, fault>>
  BY Zenon DEF writeBlock
<1>3. c \in Block /\ Index(b) \in 0 .. CacheSize - 1 /\ CacheType
  BY <1>1, CachePlace DEF Block, TypeInv
<1>4. /\ CacheType' /\ block_cache'[Index(b)].b = b /\ block_cache'[Index(b)].c = c
      /\ \A i \in 0 .. CacheSize - 1 : i # Index(b) => block_cache'[i] = block_cache[i]
  BY <1>2, <1>3, CacheKeeps, Zenon
<1>5. ASSUME NEW i \in 0 .. CacheSize - 1, i # Index(b) PROVE block_cache[i].dirty => block_cache[i].b # b
  BY <1>3, <1>5, CachePlace, Zenon DEF CacheType
<1>6. LogType'
  BY <1>1, <1>2, Zenon DEF TypeInv, LogType
<1>7. ASSUME fault' # "io" PROVE QueueInv /\ PastInv /\ jsb_seq = 0 /\ ReplayInv'
  BY <1>1, <1>2, <1>7 DEF ReplayInv
<1>8. CASE handle.active
  <2>1. PICK e : e = [b |-> b, c |-> c, escaped |-> FALSE]
    BY Zenon
  <2>2. e \in Buffer /\ e.b = b /\ ~ e.escaped /\ Home(e) = c
    BY <2>1, Zenon DEF Buffer, Home
  <2>3. PICK q \in Seq(Buffer) : q = handle.queue /\ Len(q) < MaxQueue
    BY <1>1, <1>8 DEF TypeInv, HandleType, writeBlock
  <2>4. PICK r : r = Append(q, e)
    BY Zenon
  <2>5. /\ r \in Seq(Buffer) /\ Len(q) \in Nat /\ Len(r) = Len(q) + 1 /\ r[Len(q) + 1] = e
        /\ \A i \in 1 .. Len(q) : r[i] = q[i]
    BY <2>2, <2>4, AppendProperties, LenProperties
  <2>6. handle' = [handle EXCEPT !.queue = r] /\ UNCHANGED <<fs, committed, past, early>>
    BY <1>8, <2>1, <2>3, <2>4, Zenon DEF writeBlock
  <2>7. handle' \in [active : BOOLEAN, seq : Nat, queue : Seq(Buffer)] /\ handle'.queue = r /\ handle'.active
    BY <1>1, <1>8, <2>5, <2>6, Zenon DEF TypeInv, HandleType
  <2>8. TypeInv'
    <3>1. Len(r) <= MaxQueue
      BY <2>3, <2>5, JournalAssumption
    <3>2. HandleType'
      BY <1>1, <1>2, <2>7, <3>1 DEF TypeInv, HandleType
    <3>3. DiskType'
      BY <1>1, <1>2, <2>6, Zenon DEF TypeInv, DiskType
    <3> QED BY <1>1, <1>2, <1>4, <1>6, <3>2, <3>3, Zenon DEF TypeInv
  <2>9. ASSUME fault' # "io" PROVE QueueInv' /\ ReplayInv' /\ PastInv'
    <3>1. QueueInv /\ PastInv /\ ReplayInv'
      BY <1>7, <2>9
    <3>2. PastInv'
      BY <1>2, <2>6, <3>1 DEF PastInv
    <3>3. ASSUME NEW i \in 0 .. CacheSize - 1, block_cache'[i].dirty
          PROVE  Newest(r, committed, block_cache'[i].b, block_cache'[i].c)
      <4>1. CASE i = Index(b)
        BY <1>4, <2>2, <2>4, <4>1, NewestAppend
      <4>2. CASE i # Index(b)
        <5>1. block_cache[i].dirty /\ block_cache[i].b # e.b
          BY <1>4, <1>5, <2>2, <3>3, <4>2
        <5>2. Newest(q, committed, block_cache[i].b, block_cache[i].c)
          BY <2>3, <3>1, <5>1 DEF QueueInv
        <5>3. Newest(r, committed, block_cache[i].b, block_cache[i].c)
          BY <2>2, <2>4, <5>1, <5>2, NewestAppend
        <5> QED BY <1>4, <4>2, <5>3
      <4> QED BY <4>1, <4>2
    <3>4. \A i \in 1 .. Len(r) : ~ r[i].escaped
      <4>1. \A i \in 1 .. Len(q) : ~ q[i].escaped
        BY <1>2, <2>3, <3>1 DEF QueueInv
      <4> QED BY <2>2, <2>5, <4>1
    <3>5. QueueInv'
      BY <1>2, <2>6, <2>7, <3>3, <3>4 DEF QueueInv
    <3> QED BY <3>1, <3>2, <3>5
  <2>10. ASSUME fault' \in {"none", "early"} PROVE FsInv'
    <3>1. Right
      BY <1>1, <1>2, <2>10, Zenon DEF FsInv
    <3>2. Right'
      BY <2>6, <3>1, Zenon DEF Right
    <3> QED BY <1>2, <3>2, Zenon DEF FsInv
  <2> QED BY <2>8, <2>9, <2>10 DEF JournalInv
<1>9. CASE ~ handle.active
  <2>1. /\ fs' = [fs EXCEPT ![b] = c] /\ committed' = [committed EXCEPT ![b] = c]
        /\ past' = [past EXCEPT ![b] = @ \cup {c}] /\ handle' = handle
        /\ early' = early \ {b}
    BY <1>9, Zenon DEF writeBlock
  <2>2. handle.queue = <<>> /\ DiskType
    BY <1>1, <1>9, Zenon DEF TypeInv, HandleType
  <2>3. /\ DiskType' /\ fs'[b] = c /\ committed'[b] = c /\ past'[b] = past[b] \cup {c}
        /\ \A x \in FsBlock : x # b =>
              fs'[x] = fs[x] /\ committed'[x] = committed[x] /\ past'[x] = past[x]
    <3>1. fs' \in [FsBlock -> Block] /\ committed' \in [FsBlock -> Block] /\ DOMAIN past' = FsBlock
      BY <1>3, <2>1, <2>2, Zenon DEF DiskType
    <3>2. early' \subseteq FsBlock /\ fault' \in {"none", "early", "torn", "io"}
      BY <1>2, <2>1, <2>2, Zenon DEF DiskType
    <3>3. DiskType'
      BY <3>1, <3>2, Zenon DEF DiskType
    <3> QED BY <1>3, <2>1, <2>2, <3>3, Zenon DEF DiskType
  <2>4. TypeInv'
    <3>1. HandleType'
      BY <1>1, <1>2, <2>1, Zenon DEF TypeInv, HandleType
    <3> QED BY <1>1, <1>2, <1>4, <1>6, <2>3, <3>1 DEF TypeInv
  <2>5. ASSUME fault' # "io" PROVE QueueInv' /\ ReplayInv' /\ PastInv'
    <3>1. QueueInv /\ PastInv /\ ReplayInv'
      BY <1>7, <2>5
    <3>2. PastInv'
      BY <1>2, <2>1, <2>3, <3>1 DEF PastInv
    <3>3. ASSUME NEW i \in 0 .. CacheSize - 1, block_cache'[i].dirty
          PROVE  Newest(<<>>, committed', block_cache'[i].b, block_cache'[i].c)
      <4>1. CASE i = Index(b)
        BY <1>4, <2>3, <4>1, NewestEmpty
      <4>2. CASE i # Index(b)
        <5>1. block_cache[i].dirty /\ block_cache[i].b # b /\ block_cache[i].b \in FsBlock
          BY <1>3, <1>4, <1>5, <3>3, <4>2 DEF CacheType
        <5>2. Newest(<<>>, committed, block_cache[i].b, block_cache[i].c)
          BY <2>2, <3>1, <5>1 DEF QueueInv
        <5>3. block_cache[i].c = committed'[block_cache[i].b]
          BY <2>3, <5>1, <5>2, NewestEmpty
        <5> QED BY <1>4, <4>2, <5>3, NewestEmpty
      <4> QED BY <4>1, <4>2
    <3>4. QueueInv'
      BY <1>2, <2>1, <2>2, <3>1, <3>3, Zenon DEF QueueInv
    <3> QED BY <3>1, <3>2, <3>4
  <2>6. ASSUME fault' \in {"none", "early"} PROVE FsInv'
    <3>1. Right
      BY <1>1, <1>2, <2>6, Zenon DEF FsInv
    <3>2. Right'
      BY <2>1, <2>3, <3>1, Zenon DEF Right
    <3> QED BY <1>2, <3>2, Zenon DEF FsInv
  <2> QED BY <2>4, <2>5, <2>6 DEF JournalInv
<1> QED BY <1>8, <1>9, Zenon

-----------------------------------------------------------------------------
(* Transactions.                                                           *)

\* Steps that open, end or hand over a transaction leave the disk alone.
LEMMA HandleKeeps ==
    ASSUME JournalInv, pc = "idle", handle'.queue = handle.queue, HandleType', sequence' \in Nat,
           pc' \in {"idle", "desc", "clean"},
           UNCHANGED <<fs, jnl, jsb_seq, write_pos, block_cache, entries, committed, past, early, fault>>
    PROVE  JournalInv'
<1>1. TypeInv /\ (fault # "io" => QueueInv /\ ReplayInv /\ PastInv) /\ (fault \in {"none", "early"} => FsInv)
  BY Zenon DEF JournalInv
<1>3. TypeInv'
  <2>1. DiskType'
    BY <1>1, Zenon DEF TypeInv, DiskType
  <2>2. LogType'
    BY <1>1, Zenon DEF TypeInv, LogType
  <2>3. CacheType'
    BY <1>1, Zenon DEF TypeInv, CacheType
  <2> QED BY <1>1, <2>1, <2>2, <2>3, Zenon DEF TypeInv
<1>4. ASSUME fault' # "io" PROVE QueueInv' /\ ReplayInv' /\ PastInv'
  <2>1. QueueInv /\ ReplayInv /\ PastInv
    BY <1>1, <1>4
  <2>2. QueueInv'
    BY <2>1, Zenon DEF QueueInv
  <2>3. ReplayInv'
    BY <2>1, Zenon DEF ReplayInv
  <2>4. PastInv'
    BY <2>1, Zenon DEF PastInv
  <2> QED BY <2>2, <2>3, <2>4
<1>5. fault' \in {"none", "early"} => FsInv'
  <2> SUFFICES ASSUME fault' \in {"none", "early"} PROVE FsInv'
    BY Zenon
  <2>1. Right
    BY <1>1, Zenon DEF FsInv
  <2>2. Right'
    BY <2>1, Zenon DEF Right
  <2> QED BY <2>2, Zenon DEF FsInv
<1> QED BY <1>3, <1>4, <1>5 DEF JournalInv

LEMMA Idle ==
    /\ NoHandle \in [active : BOOLEAN, seq : Nat, queue : Seq(Buffer)]
    /\ ~ NoHandle.active /\ NoHandle.queue = <<>> /\ Len(NoHandle.queue) = 0
BY DEF NoHandle

LEMMA OpenKeeps ==
    ASSUME JournalInv, \/ \E n \in 1 .. MaxTx : start(n)
                       \/ stop
                       \/ shutdown
    PROVE  JournalInv'
<1>1. TypeInv /\ pc = "idle"
  BY Zenon DEF JournalInv, start, stop, shutdown
<1>2. HandleType /\ sequence \in Nat
  BY <1>1, Zenon DEF TypeInv, LogType
<1>3. CASE \E n \in 1 .. MaxTx : start(n)
  <2>1. PICK h : h = [active |-> TRUE, seq |-> sequence, queue |-> <<>>]
    BY Zenon
  <2>2. /\ h \in [active : BOOLEAN, seq : Nat, queue : Seq(Buffer)]
        /\ h.active /\ h.queue = <<>> /\ Len(h.queue) = 0
    BY <1>2, <2>1
  <2>3. /\ handle' = h /\ ~ handle.active /\ sequence' = sequence + 1
        /\ UNCHANGED <<fs, jnl, jsb_seq, write_pos, block_cache, pc, k, entries, closing,
                       committed, past, early, fault>>
    BY <1>3, <2>1, Zenon DEF start, disk, ghost
  <2>4. handle.queue = <<>> /\ HandleType'
    BY <1>1, <1>2, <2>2, <2>3, JournalAssumption DEF HandleType
  <2> QED BY <1>1, <1>2, <2>2, <2>3, <2>4, HandleKeeps
<1>4. CASE stop
  <2>1. /\ UNCHANGED <<fs, jnl, jsb_seq, write_pos, sequence, block_cache, k, entries, closing,
                       committed, past, early, fault>>
        /\ \/ handle.queue = <<>> /\ handle' = NoHandle /\ pc' = pc
           \/ handle.queue # <<>> /\ handle' = handle /\ pc' = "desc"
    BY <1>4, Zenon DEF stop, disk, ghost, Goto
  <2>2. HandleType'
    BY <1>1, <1>2, <2>1, Idle, JournalAssumption DEF HandleType
  <2> QED BY <1>1, <1>2, <2>1, <2>2, Idle, HandleKeeps
<1>5. CASE shutdown
  <2>1. /\ UNCHANGED <<fs, jnl, jsb_seq, write_pos, sequence, block_cache, k, entries,
                       committed, past, early, fault>>
        /\ closing' = TRUE
        /\ \/ handle.queue = <<>> /\ handle' = NoHandle /\ pc' = "clean"
           \/ handle.queue # <<>> /\ handle' = handle /\ pc' = "desc"
    BY <1>5, Zenon DEF shutdown, disk, ghost, Goto
  <2>2. HandleType'
    BY <1>1, <1>2, <2>1, Idle, JournalAssumption DEF HandleType
  <2> QED BY <1>1, <1>2, <2>1, <2>2, Idle, HandleKeeps
<1> QED BY <1>3, <1>4, <1>5

\* A step that writes to the log alone.
LEMMA LogStepKeeps ==
    ASSUME JournalInv, LogType', HandleType', pc \in {"idle", "desc"}, pc' \in {"idle", "data"},
           pc' = "data" => k' = 1,
           UNCHANGED <<fs, jsb_seq, handle, block_cache, entries, committed, past, early, fault>>
    PROVE  JournalInv'
<1>1. TypeInv /\ (fault # "io" => QueueInv /\ ReplayInv /\ PastInv) /\ (fault \in {"none", "early"} => FsInv)
  BY Zenon DEF JournalInv
<1>2. TypeInv'
  <2>1. DiskType'
    BY <1>1, Zenon DEF TypeInv, DiskType
  <2>2. CacheType'
    BY <1>1, Zenon DEF TypeInv, CacheType
  <2> QED BY <1>1, <2>1, <2>2 DEF TypeInv
<1>3. ASSUME fault' # "io" PROVE QueueInv' /\ ReplayInv' /\ PastInv'
  <2>1. QueueInv /\ ReplayInv /\ PastInv
    BY <1>1, <1>3, Zenon
  <2>2. QueueInv'
    BY <2>1, Zenon DEF QueueInv
  <2>3. jsb_seq = 0
    BY <2>1, Zenon DEF ReplayInv
  <2>4. ReplayInv'
    BY <2>3, Zenon DEF ReplayInv
  <2>5. PastInv'
    BY <2>1, Zenon DEF PastInv
  <2> QED BY <2>2, <2>4, <2>5, Zenon
<1>4. fault' \in {"none", "early"} => FsInv'
  <2> SUFFICES ASSUME fault' \in {"none", "early"} PROVE FsInv'
    BY Zenon
  <2>1. Right
    BY <1>1, Zenon DEF FsInv
  <2>2. Right'
    BY <2>1, Zenon DEF Right
  <2> QED BY <2>2, Zenon DEF FsInv
<1> QED BY <1>2, <1>3, <1>4 DEF JournalInv

LEMMA DescriptorKeeps ==
    ASSUME JournalInv, writeDescriptorBlock
    PROVE  JournalInv'
<1>1. TypeInv /\ LogType /\ HandleType /\ pc = "desc"
  BY Zenon DEF JournalInv, TypeInv, writeDescriptorBlock
<1>2. PICK q \in Seq(Buffer) : q = handle.queue /\ q # <<>>
  BY <1>1, Zenon DEF HandleType
<1>3. PICK t : t = [i \in DOMAIN q |-> Tag(q[i])]
  BY Zenon
<1>4. \A x \in Buffer : Tag(x) \in [b : FsBlock, escape : BOOLEAN]
  BY Zenon DEF Tag, Buffer
<1>5. Len(q) \in Nat /\ DOMAIN q = 1 .. Len(q) /\ Len(q) # 0 /\ \A i \in 1 .. Len(q) : q[i] \in Buffer
  BY <1>2, LenProperties, EmptySeq, ElementOfSeq, Zenon
<1>6. t \in Seq([b : FsBlock, escape : BOOLEAN]) /\ t # <<>>
  <2>1. t \in [1 .. Len(q) -> [b : FsBlock, escape : BOOLEAN]]
    BY <1>3, <1>4, <1>5, Zenon
  <2>2. t \in Seq([b : FsBlock, escape : BOOLEAN]) /\ Len(t) = Len(q)
    <3>1. PICK S : S = [b : FsBlock, escape : BOOLEAN]
      BY Zenon
    <3>2. t \in [1 .. Len(q) -> S]
      BY <2>1, <3>1, Zenon
    <3>3. t \in Seq(S) /\ Len(t) = Len(q)
      BY <1>5, <3>2
    <3> QED BY <3>1, <3>3, Zenon
  <2> QED BY <1>5, <2>2, EmptySeq, Zenon
<1>7. PICK blk : blk = [kind |-> "desc", seq |-> handle.seq, tags |-> t]
  BY Zenon
<1>8. blk \in JBlock /\ blk.tags # <<>> /\ blk.kind = "desc"
  <2>1. handle.seq \in Nat
    BY <1>1, Zenon DEF HandleType
  <2>2. blk \in [kind : {"desc"}, seq : Nat, tags : Seq([b : FsBlock, escape : BOOLEAN])] /\ blk.tags = t
    BY <1>6, <1>7, <2>1, Zenon
  <2>3. blk.kind = "desc"
    BY <1>7, Zenon
  <2> QED BY <1>6, <2>2, <2>3, Zenon DEF JBlock
<1>9. /\ Log(blk) /\ k' = 1 /\ pc' = "data"
      /\ UNCHANGED <<fs, jsb_seq, sequence, handle, block_cache, entries, closing, committed, past, early, fault>>
  BY <1>2, <1>3, <1>7 DEF writeDescriptorBlock, Goto
<1>10. LogType'
  <2>1. WellFormed(jnl') /\ write_pos' \in Pos
    BY <1>1, <1>8, <1>9, LogKeeps, Zenon
  <2> QED BY <1>1, <1>9, <2>1, Zenon DEF LogType
<1>11. HandleType'
  <2>1. 1 \in 1 .. Len(q) /\ 1 \in 0 .. MaxQueue + 1
    BY <1>5, JournalAssumption
  <2> QED BY <1>1, <1>2, <1>9, <2>1, Zenon DEF HandleType
<1> QED BY <1>1, <1>9, <1>10, <1>11, LogStepKeeps, Zenon

LEMMA RevokeKeeps ==
    ASSUME JournalInv, NEW b \in FsBlock, revoke(b)
    PROVE  JournalInv'
<1>1. TypeInv /\ LogType /\ HandleType /\ pc = "idle"
  BY Zenon DEF JournalInv, TypeInv, revoke
<1>2. PICK blk : blk = [kind |-> "revoke", seq |-> sequence, b |-> b]
  BY Zenon
<1>3. blk \in JBlock /\ blk.kind = "revoke"
  BY <1>1, <1>2, Zenon DEF JBlock, LogType
<1>4. /\ Log(blk)
      /\ UNCHANGED <<fs, jsb_seq, sequence, handle, block_cache, pc, k, entries, closing,
                     committed, past, early, fault>>
  BY <1>2, Zenon DEF revoke, ghost
<1>5. LogType'
  <2>1. WellFormed(jnl') /\ write_pos' \in Pos
    BY <1>1, <1>3, <1>4, LogKeeps, Zenon
  <2> QED BY <1>1, <1>4, <2>1, Zenon DEF LogType
<1>6. HandleType'
  BY <1>1, <1>4, Zenon DEF HandleType
<1> QED BY <1>1, <1>4, <1>5, <1>6, LogStepKeeps, Zenon

\* Escaping a buffer keeps what it goes home with.
LEMMA EscapeKeepsHome ==
    ASSUME NEW x \in Buffer, ~ x.escaped, NEW y,
           y = [x EXCEPT !.c = Escape(x.c), !.escaped = x.c[1] = "magic"]
    PROVE  y \in Buffer /\ y.b = x.b /\ Home(y) = Home(x)
<1>1. x.c \in Content /\ Escape(x.c) \in Content
  BY Escaping, Zenon DEF Buffer
<1>2. y \in Buffer /\ y.b = x.b /\ y.c = Escape(x.c) /\ (y.escaped <=> x.c[1] = "magic")
  BY <1>1, Zenon DEF Buffer
<1>3. Home(x) = x.c
  BY Zenon DEF Home
<1>4. Home(y) = x.c
  BY <1>1, <1>2, Escaping, Zenon DEF Home
<1> QED BY <1>2, <1>3, <1>4, Zenon

\* One buffer of a transaction is escaped, the others stay.
LEMMA DataKeeps ==
    ASSUME JournalInv, writeData
    PROVE  JournalInv'
<1>1. TypeInv /\ (fault # "io" => QueueInv /\ ReplayInv /\ PastInv) /\ (fault \in {"none", "early"} => FsInv)
  BY Zenon DEF JournalInv
<1>2. LogType /\ HandleType /\ pc = "data"
  BY <1>1, Zenon DEF TypeInv, writeData
<1>3. PICK q \in Seq(Buffer) : q = handle.queue
  BY <1>2, Zenon DEF HandleType
<1>4. PICK n \in Nat : n = Len(q) /\ DOMAIN q = 1 .. n /\ k \in 1 .. n /\ n <= MaxQueue
  BY <1>2, <1>3, LenProperties, Zenon DEF HandleType
<1>5. PICK x \in Buffer : x = q[k]
  BY <1>4, ElementOfSeq, Zenon
<1>6. PICK y : y = [x EXCEPT !.c = Escape(x.c), !.escaped = x.c[1] = "magic"]
  BY Zenon
<1>7. PICK r : r = [q EXCEPT ![k] = y]
  BY Zenon
<1>8. /\ Log(Data(Escape(x.c)))
      /\ handle' = [handle EXCEPT !.queue = r]
      /\ \/ k < n /\ k' = k + 1 /\ pc' = "data"
         \/ k = n /\ k' = 1 /\ pc' = "commit"
      /\ UNCHANGED <<fs, jsb_seq, sequence, block_cache, entries, closing, committed, past, early, fault>>
  <2>1. handle' = [handle EXCEPT !.queue[k].c = Escape(x.c), !.queue[k].escaped = x.c[1] = "magic"]
    BY <1>3, <1>5, Zenon DEF writeData
  <2>2. handle' = [handle EXCEPT !.queue = r]
    BY <1>3, <1>5, <1>6, <1>7, <2>1, Zenon
  <2>3. /\ IF k < n THEN k' = k + 1 /\ UNCHANGED pc ELSE k' = 1 /\ pc' = "commit"
        /\ Log(Data(Escape(x.c)))
        /\ UNCHANGED <<fs, jsb_seq, sequence, block_cache, entries, closing, committed, past, early, fault>>
    BY <1>3, <1>4, <1>5, Zenon DEF writeData, AfterData, Goto, ghost
  <2>4. (~ k < n => k = n) /\ pc = "data"
    BY <1>2, <1>4
  <2> QED BY <2>2, <2>3, <2>4, Zenon
<1>9. x.c \in Content /\ Escape(x.c) \in Content /\ y \in Buffer /\ y.b = x.b
  <2>1. x.c \in Content /\ Escape(x.c) \in Content
    BY Escaping, Zenon DEF Buffer
  <2> QED BY <1>6, <2>1, Zenon DEF Buffer
<1>10. /\ r \in Seq(Buffer) /\ Len(r) = n /\ r[k] = y
       /\ \A i \in 1 .. n : i # k => r[i] = q[i]
  BY <1>4, <1>7, <1>9, ExceptSeq
<1>11. handle' \in [active : BOOLEAN, seq : Nat, queue : Seq(Buffer)] /\ handle'.queue = r /\ handle'.active = handle.active
  BY <1>2, <1>8, <1>10, Zenon DEF HandleType
<1>12. TypeInv'
  <2>1. DiskType'
    BY <1>1, <1>8, Zenon DEF TypeInv, DiskType
  <2>2. CacheType'
    BY <1>1, <1>8, Zenon DEF TypeInv, CacheType
  <2>3. LogType'
    <3>1. PICK blk : blk = Data(Escape(x.c))
      BY Zenon
    <3>2. blk \in JBlock /\ blk.kind = "data"
      BY <1>9, <3>1, Zenon DEF JBlock, Data
    <3>3. WellFormed(jnl') /\ write_pos' \in Pos
      BY <1>2, <1>8, <3>1, <3>2, LogKeeps, Zenon
    <3> QED BY <1>2, <1>8, <3>3, Zenon DEF LogType
  <2>4. HandleType'
    <3>1. /\ r # <<>> /\ (pc' = "data" => k' \in 1 .. n) /\ k' \in 0 .. MaxQueue + 1
          /\ (pc' = "commit" => k' = 1) /\ pc' \in {"data", "commit"}
      BY <1>4, <1>8, <1>10, EmptySeq, JournalAssumption
    <3>2. handle.active
      BY <1>2, <1>3, <1>4, EmptySeq, Zenon DEF HandleType
    <3> QED BY <1>2, <1>4, <1>8, <1>10, <1>11, <3>1, <3>2 DEF HandleType
  <2> QED BY <1>1, <1>8, <2>1, <2>2, <2>3, <2>4, Zenon DEF TypeInv
<1>13. ASSUME fault' # "io" PROVE QueueInv' /\ ReplayInv' /\ PastInv'
  <2>1. QueueInv /\ ReplayInv /\ PastInv
    BY <1>1, <1>8, <1>13, Zenon
  <2>2. \A i \in k .. n : ~ q[i].escaped
    BY <1>2, <1>3, <1>4, <2>1, Zenon DEF QueueInv
  <2>3. Home(y) = Home(x)
    <3>1. ~ x.escaped
      BY <1>4, <1>5, <2>2
    <3> QED BY <1>6, <3>1, EscapeKeepsHome, Zenon
  <2>4. \A i \in 1 .. Len(q) : r[i].b = q[i].b /\ Home(r[i]) = Home(q[i])
    BY <1>4, <1>5, <1>9, <1>10, <2>3, Zenon
  <2>5. ASSUME NEW i \in 0 .. CacheSize - 1, block_cache[i].dirty
        PROVE  Newest(r, committed, block_cache[i].b, block_cache[i].c)
    <3>1. Newest(q, committed, block_cache[i].b, block_cache[i].c)
      BY <1>3, <2>1, <2>5, Zenon DEF QueueInv
    <3> QED BY <1>4, <1>10, <2>4, <3>1, NewestSame, Zenon
  <2>6. pc' = "data" => \A i \in k' .. n : ~ r[i].escaped
    <3>1. pc' = "data" => k' = k + 1
      BY <1>8, Zenon
    <3>2. \A i \in k + 1 .. n : i \in k .. n /\ i \in 1 .. n /\ i # k
      BY <1>4
    <3> QED BY <1>10, <2>2, <3>1, <3>2, Zenon
  <2>7. QueueInv'
    BY <1>8, <1>10, <1>11, <2>5, <2>6, Zenon DEF QueueInv
  <2>8. jsb_seq = 0
    BY <1>2, <2>1, Zenon DEF ReplayInv
  <2>9. ReplayInv'
    BY <1>8, <2>8, Zenon DEF ReplayInv
  <2>10. PastInv'
    BY <1>8, <2>1, Zenon DEF PastInv
  <2> QED BY <2>7, <2>9, <2>10, Zenon
<1>14. fault' \in {"none", "early"} => FsInv'
  <2> SUFFICES ASSUME fault' \in {"none", "early"} PROVE FsInv'
    BY Zenon
  <2>1. Right
    BY <1>1, <1>2, <1>8, Zenon DEF FsInv
  <2>2. Right'
    BY <1>8, <2>1, Zenon DEF Right
  <2> QED BY <1>8, <2>2, Zenon DEF FsInv
<1> QED BY <1>12, <1>13, <1>14, Zenon DEF JournalInv

\* The commit block: from here on the queue says what is committed.
LEMMA CommitKeeps ==
    ASSUME JournalInv, SeqInv, writeCommitBlock
    PROVE  JournalInv'
<1>1. TypeInv /\ (fault # "io" => QueueInv /\ ReplayInv /\ PastInv) /\ (fault \in {"none", "early"} => FsInv)
  BY Zenon DEF JournalInv
<1>2. LogType /\ HandleType /\ DiskType /\ pc = "commit" /\ k = 1
  BY <1>1, Zenon DEF TypeInv, writeCommitBlock, HandleType
<1>3. PICK q \in Seq(Buffer) : q = handle.queue /\ q # <<>>
  BY <1>2, Zenon DEF HandleType
<1>4. PICK n \in Nat : n = Len(q) /\ DOMAIN q = 1 .. n /\ n # 0 /\ \A i \in 1 .. n : q[i] \in Buffer
  BY <1>3, LenProperties, EmptySeq, ElementOfSeq, Zenon
<1>5. PICK blk : blk = [kind |-> "commit", seq |-> handle.seq]
  BY Zenon
<1>6. /\ Log(blk) /\ pc' = "home"
      /\ past' = [b \in FsBlock |-> past[b] \cup {Given(i) : i \in Queued(b)}]
      /\ DOMAIN committed' = FsBlock
      /\ UNCHANGED <<fs, jsb_seq, sequence, handle, block_cache, k, entries, closing, early, fault>>
  BY <1>5, Zenon DEF writeCommitBlock, Goto
<1>7. \A b \in FsBlock : /\ Newest(q, committed, b, committed'[b])
                         /\ \/ committed'[b] = committed[b]
                            \/ \E i \in 1 .. n : q[i].b = b /\ committed'[b] = Home(q[i])
  BY <1>2, <1>3, <1>4, CommitNewest, Zenon
<1>8. DiskType'
  <2>1. \A b \in FsBlock : committed'[b] \in Block
    <3>1. \A i \in 1 .. n : Home(q[i]) \in Block
      BY <1>4, HomeContent, Zenon DEF Block
    <3> QED BY <1>2, <1>7, <3>1 DEF DiskType
  <2>2. committed' = [b \in FsBlock |-> committed'[b]]
    BY Zenon DEF writeCommitBlock
  <2>3. committed' \in [FsBlock -> Block]
    BY <2>1, <2>2, Zenon
  <2> QED BY <1>2, <1>6, <2>3, Zenon DEF DiskType
<1>9. TypeInv'
  <2>1. CacheType'
    BY <1>1, <1>6, Zenon DEF TypeInv, CacheType
  <2>2. LogType'
    <3>0. handle.seq # 0
      BY <1>2, <1>3, Zenon DEF HandleType, SeqInv
    <3>1. blk \in JBlock /\ blk.kind = "commit" /\ blk.seq # 0
      BY <1>2, <1>5, <3>0, Zenon DEF JBlock, HandleType
    <3>2. WellFormed(jnl') /\ write_pos' \in Pos
      BY <1>2, <1>6, <3>1, LogKeeps
    <3> QED BY <1>2, <1>6, <3>2, Zenon DEF LogType
  <2>3. HandleType'
    BY <1>2, <1>3, <1>4, <1>6 DEF HandleType
  <2> QED BY <1>1, <1>6, <1>8, <2>1, <2>2, <2>3, Zenon DEF TypeInv
<1>10. ASSUME NEW b \in FsBlock
       PROVE  /\ past[b] \subseteq past'[b]
              /\ \A i \in 1 .. n : q[i].b = b => Home(q[i]) \in past'[b]
  <2>1. past'[b] = past[b] \cup {Given(i) : i \in Queued(b)}
    BY <1>6, Zenon
  <2>2. \A i \in 1 .. n : q[i].b = b => i \in Queued(b)
    BY <1>3, <1>4, Zenon DEF Queued
  <2>3. \A i \in 1 .. n : Given(i) = Home(q[i])
    BY <1>3, Zenon DEF Given, Home
  <2> QED BY <2>1, <2>2, <2>3, Zenon
<1>11. ASSUME fault' # "io" PROVE QueueInv' /\ ReplayInv' /\ PastInv'
  <2>1. QueueInv /\ ReplayInv /\ PastInv
    BY <1>1, <1>6, <1>11, Zenon
  <2>2. ASSUME NEW i \in 0 .. CacheSize - 1, block_cache[i].dirty
        PROVE  Newest(q, committed', block_cache[i].b, block_cache[i].c)
    <3>1. PICK b \in FsBlock : b = block_cache[i].b
      BY <1>1, <2>2, Zenon DEF TypeInv, CacheType
    <3>2. Newest(q, committed, b, block_cache[i].c)
      BY <1>3, <2>1, <2>2, <3>1, Zenon DEF QueueInv
    <3>3. committed'[b] = block_cache[i].c
      BY <1>4, <1>7, <3>2, NewestUnique
    <3> QED BY <3>1, <3>2, <3>3, Zenon DEF Newest
  <2>3. ASSUME NEW b \in FsBlock PROVE Newest(q, committed', b, committed'[b])
    BY <1>7, Zenon DEF Newest
  <2>4. QueueInv'
    BY <1>3, <1>6, <2>2, <2>3, Zenon DEF QueueInv
  <2>5. jsb_seq = 0
    BY <1>2, <2>1, Zenon DEF ReplayInv
  <2>6. ReplayInv'
    BY <1>6, <2>5, Zenon DEF ReplayInv
  <2>7. ASSUME NEW b \in FsBlock PROVE (b \in early' \/ fs'[b] \in past'[b]) /\ committed'[b] \in past'[b]
    <3>1. (b \in early \/ fs[b] \in past'[b]) /\ committed[b] \in past'[b]
      BY <1>10, <2>1, Zenon DEF PastInv
    <3>2. CASE committed'[b] = committed[b]
      BY <1>6, <3>1, <3>2, Zenon
    <3>3. CASE \E i \in 1 .. n : q[i].b = b /\ committed'[b] = Home(q[i])
      BY <1>6, <1>10, <3>1, <3>3, Zenon
    <3> QED BY <1>7, <3>2, <3>3, Zenon
  <2>8. \A i \in 1 .. n : Home(q[i]) \in past'[q[i].b]
    BY <1>4, <1>10, Zenon DEF Buffer
  <2>9. PastInv'
    BY <1>3, <1>4, <1>6, <2>7, <2>8, Zenon DEF PastInv
  <2> QED BY <2>4, <2>6, <2>9, Zenon
<1>12. ASSUME fault' \in {"none", "early"} PROVE FsInv'
  <2>1. Right
    BY <1>1, <1>2, <1>6, <1>12, Zenon DEF FsInv
  <2>2. ASSUME NEW b \in FsBlock, b \notin early, \A j \in 1 .. n : q[j].b # b PROVE committed'[b] = fs[b]
    BY <1>4, <1>7, <2>1, <2>2, Zenon DEF Newest, Right
  <2> QED BY <1>2, <1>3, <1>4, <1>6, <2>2, Zenon DEF FsInv
<1> QED BY <1>9, <1>11, <1>12, Zenon DEF JournalInv

\* A block goes home.  The last content the queue has for it is committed.
LEMMA HomeKeeps ==
    ASSUME JournalInv, writeHome
    PROVE  JournalInv'
<1>1. TypeInv /\ (fault # "io" => QueueInv /\ ReplayInv /\ PastInv) /\ (fault \in {"none", "early"} => FsInv)
  BY Zenon DEF JournalInv
<1>2. LogType /\ HandleType /\ DiskType /\ pc = "home"
  BY <1>1, Zenon DEF TypeInv, writeHome
<1>3. PICK q \in Seq(Buffer) : q = handle.queue
  BY <1>2, Zenon DEF HandleType
<1>4. PICK n \in Nat : n = Len(q) /\ DOMAIN q = 1 .. n /\ k \in 1 .. n /\ n <= MaxQueue /\ \A i \in 1 .. n : q[i] \in Buffer
  BY <1>2, <1>3, LenProperties, ElementOfSeq, Zenon DEF HandleType
<1>5. PICK x \in Buffer : x = q[k]
  BY <1>4, Zenon
<1>6. x.b \in FsBlock /\ Home(x) \in Block
  BY HomeContent, Zenon DEF Buffer, Block
<1>7. /\ fs' = [fs EXCEPT ![x.b] = Home(x)] /\ early' = early \ {x.b}
      /\ UNCHANGED <<jnl, jsb_seq, write_pos, sequence, block_cache, entries, closing, committed, past, fault>>
  BY <1>3, <1>5, Zenon DEF writeHome, ghost
<1>8. \/ k < n /\ k' = k + 1 /\ handle' = handle /\ pc' = pc
      \/ k = n /\ k' = 0 /\ handle' = NoHandle /\ pc' \in {"clean", "idle"}
  <2>1. IF k < n THEN k' = k + 1 /\ UNCHANGED <<handle, pc>> ELSE k' = 0 /\ handle' = NoHandle /\ pc' = Return
    BY <1>3, <1>4, Zenon DEF writeHome, NextHome, Goto
  <2>2. ~ k < n => k = n
    BY <1>4
  <2> QED BY <2>1, <2>2, Zenon DEF Return
<1>9. /\ fs' \in [FsBlock -> Block] /\ fs'[x.b] = Home(x)
      /\ \A b \in FsBlock : b # x.b => fs'[b] = fs[b]
  BY <1>2, <1>6, <1>7, Zenon DEF DiskType
<1>10. TypeInv'
  <2>1. DiskType'
    BY <1>2, <1>7, <1>9 DEF DiskType
  <2>2. CacheType'
    BY <1>1, <1>7, Zenon DEF TypeInv, CacheType
  <2>3. LogType'
    BY <1>2, <1>7, Zenon DEF LogType
  <2>4. HandleType'
    <3>1. CASE k < n
      <4>1. k + 1 \in 1 .. n /\ k + 1 \in 0 .. MaxQueue + 1
        BY <1>4, <3>1, JournalAssumption
      <4>2. k' = k + 1 /\ handle' = handle /\ pc' = pc
        BY <1>4, <1>8, <3>1
      <4>3. k' \in 1 .. Len(handle.queue) /\ k' \in 0 .. MaxQueue + 1
        BY <1>3, <1>4, <4>1, <4>2, Zenon
      <4> QED BY <1>2, <1>7, <4>2, <4>3, Zenon DEF HandleType
    <3>2. CASE k = n
      <4>1. k' = 0 /\ handle' = NoHandle /\ pc' \in {"clean", "idle"}
        BY <1>4, <1>8, <3>2
      <4>2. k' \in 0 .. MaxQueue + 1 /\ 0 <= MaxQueue
        BY <4>1, JournalAssumption
      <4>3. /\ handle' \in [active : BOOLEAN, seq : Nat, queue : Seq(Buffer)]
            /\ handle'.queue = <<>> /\ Len(handle'.queue) <= MaxQueue
        BY <4>1, <4>2, Idle, Zenon
      <4> QED BY <1>2, <1>7, <4>1, <4>2, <4>3, Zenon DEF HandleType
    <3> QED BY <1>8, <3>1, <3>2, Zenon
  <2> QED BY <1>1, <1>7, <2>1, <2>2, <2>3, <2>4, Zenon DEF TypeInv
<1>11. ASSUME fault' # "io" PROVE QueueInv' /\ ReplayInv' /\ PastInv'
  <2>1. QueueInv /\ ReplayInv /\ PastInv
    BY <1>1, <1>7, <1>11, Zenon
  <2>2. jsb_seq = 0
    BY <1>2, <2>1, Zenon DEF ReplayInv
  <2>3. pc' # "replay"
    BY <1>2, <1>8, Zenon
  <2>4. ReplayInv'
    BY <1>7, <2>2, <2>3, Zenon DEF ReplayInv
  <2>5. PastInv'
    <3>1. Home(x) \in past[x.b]
      BY <1>2, <1>3, <1>4, <1>5, <2>1 DEF PastInv
    <3>2. \A b \in FsBlock : (b \in early' \/ fs'[b] \in past[b]) /\ committed[b] \in past[b]
      BY <1>7, <1>9, <2>1, <3>1 DEF PastInv
    <3>3. pc' = "home" => handle' = handle
      BY <1>8
    <3> QED BY <1>2, <1>7, <2>1, <3>2, <3>3 DEF PastInv
  <2>6. QueueInv'
    <3>1. CASE k < n
      <4>1. handle' = handle /\ pc' = "home"
        BY <1>2, <1>8, <3>1
      <4> QED BY <1>2, <1>7, <2>1, <4>1, Zenon DEF QueueInv
    <3>2. CASE k = n
      <4>1. k' = 0 /\ handle' = NoHandle /\ pc' \in {"clean", "idle"}
        BY <1>4, <1>8, <3>2
      <4>2. ASSUME NEW i \in 0 .. CacheSize - 1, block_cache[i].dirty
            PROVE  Newest(<<>>, committed, block_cache[i].b, block_cache[i].c)
        <5>1. PICK b \in FsBlock : b = block_cache[i].b
          BY <1>1, <4>2, Zenon DEF TypeInv, CacheType
        <5>2. Newest(q, committed, b, block_cache[i].c) /\ Newest(q, committed, b, committed[b])
          BY <1>2, <1>3, <2>1, <4>2, <5>1, Zenon DEF QueueInv
        <5>3. block_cache[i].c = committed[b]
          BY <1>4, <5>2, NewestUnique, Zenon
        <5> QED BY <5>1, <5>3, NewestEmpty, Zenon
      <4>3. handle'.queue = <<>> /\ Len(handle'.queue) = 0
        BY <4>1, Idle, Zenon
      <4> QED BY <1>7, <4>1, <4>2, <4>3 DEF QueueInv
    <3> QED BY <1>8, <3>1, <3>2, Zenon
  <2> QED BY <2>4, <2>5, <2>6
<1>12. ASSUME fault' \in {"none", "early"} PROVE FsInv'
  <2>1. /\ FsInv /\ QueueInv
        /\ \A b \in FsBlock : b \notin early /\ (\A j \in k .. n : q[j].b # b) => fs[b] = committed[b]
    <3>1. fault # "io" /\ fault \in {"none", "early"}
      BY <1>7, <1>12
    <3> QED BY <1>1, <1>2, <1>3, <1>4, <3>1, Zenon DEF FsInv
  <2>2. ASSUME NEW b \in FsBlock, b \notin early', \A j \in k + 1 .. n : q[j].b # b PROVE fs'[b] = committed[b]
    <3>1. CASE b # x.b
      <4>1. \A j \in k .. n : q[j].b # b
        <5>1. \A j \in k .. n : j = k \/ j \in k + 1 .. n
          BY <1>4
        <5> QED BY <1>5, <2>2, <3>1, <5>1, Zenon
      <4>2. b \notin early
        BY <1>7, <2>2, <3>1, Zenon
      <4> QED BY <1>9, <2>1, <3>1, <4>1, <4>2, Zenon
    <3>2. CASE b = x.b
      <4>1. \A j \in 1 .. Len(q) : j > k => q[j].b # b
        BY <1>4, <2>2
      <4>2. Newest(q, committed, b, Home(x))
        BY <1>4, <1>5, <3>2, <4>1, Zenon DEF Newest
      <4>3. Newest(q, committed, b, committed[b])
        BY <1>2, <1>3, <2>1, Zenon DEF QueueInv
      <4>4. Home(x) = committed[b]
        BY <1>4, <4>2, <4>3, NewestUnique, Zenon
      <4> QED BY <1>9, <3>2, <4>4, Zenon
    <3> QED BY <3>1, <3>2, Zenon
  <2>3. CASE k < n
    <3>1. k' = k + 1 /\ handle' = handle /\ pc' = "home"
      BY <1>2, <1>8, <2>3
    <3> QED BY <1>3, <1>4, <1>7, <2>2, <3>1, Zenon DEF FsInv
  <2>4. CASE k = n
    <3>1. pc' \in {"clean", "idle"}
      BY <1>4, <1>8, <2>4
    <3>2. \A j \in k + 1 .. n : FALSE
      BY <1>4, <2>4
    <3>3. Right'
      BY <1>7, <2>2, <3>2, Zenon DEF Right
    <3> QED BY <1>7, <3>1, <3>3, Zenon DEF FsInv
  <2> QED BY <1>8, <2>3, <2>4, Zenon
<1> QED BY <1>10, <1>11, <1>12, Zenon DEF JournalInv

-----------------------------------------------------------------------------
(* The end of a mount.                                                     *)

\* What a restart finds in memory is well typed, and the queue is empty.
LEMMA ForgetKeeps ==
    ASSUME TypeInv, Forget, jsb_seq' \in Nat, fault' \in {"none", "early", "torn", "io"}, UNCHANGED <<fs, jnl, committed, past, early>>
    PROVE  /\ TypeInv' /\ QueueInv' /\ pc' = "off"
<1>1. /\ write_pos' = 1 /\ sequence' = 0 /\ handle' = NoHandle /\ block_cache' = NoCache
      /\ k' = 0 /\ entries' = <<>> /\ closing' = FALSE /\ pc' = "off"
  BY Zenon DEF Forget, Goto
<1>2. DiskType'
  BY Zenon DEF TypeInv, DiskType
<1>3. LogType'
  BY <1>1, Places, Zenon DEF TypeInv, LogType
<1>4. HandleType'
  <2>1. /\ handle' \in [active : BOOLEAN, seq : Nat, queue : Seq(Buffer)]
        /\ handle'.queue = <<>> /\ Len(handle'.queue) <= MaxQueue
    BY <1>1, Idle, JournalAssumption
  <2>2. k' \in 0 .. MaxQueue + 1
    BY <1>1, JournalAssumption
  <2>3. closing' \in BOOLEAN
    BY <1>1, Zenon
  <2> QED BY <1>1, <2>1, <2>2, <2>3, Zenon DEF HandleType
<1>5. /\ DOMAIN NoCache = 0 .. CacheSize - 1
      /\ \A i \in 0 .. CacheSize - 1 : NoCache[i].b = None /\ ~ NoCache[i].dirty
  BY Zenon DEF NoCache
<1>6. CacheType'
  BY <1>1, <1>5, Zenon DEF CacheType
<1>7. QueueInv'
  BY <1>1, <1>5, Idle, Zenon DEF QueueInv
<1>8. entries' \in Seq(ReplayEntry)
  BY <1>1
<1> QED BY <1>1, <1>2, <1>3, <1>4, <1>6, <1>7, <1>8, Zenon DEF TypeInv

LEMMA MarkCleanKeeps ==
    ASSUME JournalInv, markClean
    PROVE  JournalInv'
<1>1. TypeInv /\ (fault # "io" => QueueInv /\ ReplayInv /\ PastInv) /\ (fault \in {"none", "early"} => FsInv)
  BY Zenon DEF JournalInv
<1>2. /\ pc = "clean" /\ Forget /\ UNCHANGED <<fs, jnl, committed, past, early>>
      /\ \/ jsb_seq' = 0 /\ fault' = fault
         \/ jsb_seq' = jsb_seq /\ fault' = "io"
  BY Zenon DEF markClean
<1>3. TypeInv' /\ QueueInv' /\ pc' = "off"
  <2>1. jsb_seq' \in Nat
    BY <1>1, <1>2 DEF TypeInv, LogType
  <2>2. fault' \in {"none", "early", "torn", "io"}
    BY <1>1, <1>2, Zenon DEF TypeInv, DiskType
  <2> QED BY <1>1, <1>2, <2>1, <2>2, ForgetKeeps, Zenon
<1>4. ASSUME fault' # "io" PROVE ReplayInv' /\ PastInv'
  BY <1>1, <1>2, <1>3, <1>4, Zenon DEF ReplayInv, PastInv
<1>5. fault' \in {"none", "early"} => FsInv'
  <2> SUFFICES ASSUME fault' \in {"none", "early"} PROVE FsInv'
    BY Zenon
  <2>1. fault' # "io"
    OBVIOUS
  <2>2. Right
    BY <1>1, <1>2, <2>1, Zenon DEF FsInv
  <2>3. Right'
    BY <1>2, <2>2, Zenon DEF Right
  <2> QED BY <1>3, <2>3, Zenon DEF FsInv
<1> QED BY <1>3, <1>4, <1>5, Zenon DEF JournalInv

LEMMA CrashKeeps ==
    ASSUME JournalInv, Crash
    PROVE  JournalInv'
<1>1. TypeInv /\ (fault # "io" => QueueInv /\ ReplayInv /\ PastInv) /\ (fault \in {"none", "early"} => FsInv)
  BY Zenon DEF JournalInv
<1>2. /\ pc # "off" /\ Forget /\ UNCHANGED <<fs, jnl, jsb_seq, committed, past, early>>
      /\ fault' = IF fault \in {"io", "torn"} THEN fault
                  ELSE IF pc = "home" THEN "torn"
                  ELSE IF early # {} THEN "early" ELSE fault
  BY Zenon DEF Crash, disk
<1>a. fault \in {"none", "early", "torn", "io"}
  BY <1>1, Zenon DEF TypeInv, DiskType
<1>3. TypeInv' /\ QueueInv' /\ pc' = "off"
  <2>1. jsb_seq' \in Nat
    BY <1>1, <1>2, Zenon DEF TypeInv, LogType
  <2>2. fault' \in {"none", "early", "torn", "io"}
    BY <1>2, <1>a
  <2> QED BY <1>1, <1>2, <2>1, <2>2, ForgetKeeps, Zenon
<1>4. ASSUME fault' # "io" PROVE ReplayInv' /\ PastInv'
  <2>0. fault # "io"
    BY <1>2, <1>4
  <2>1. ReplayInv /\ PastInv
    BY <1>1, <2>0, Zenon
  <2>2. PastInv'
    BY <1>2, <1>3, <2>1, Zenon DEF PastInv
  <2>3. CASE jsb_seq = 0
    BY <1>2, <1>3, <2>2, <2>3, Zenon DEF ReplayInv
  <2>4. CASE jsb_seq # 0
    <3>1. PICK es : es = replayJournal(jnl, jsb_seq)
      BY Zenon
    <3>2. Sound(es) /\ early = {}
      BY <2>1, <2>4, <3>1, Zenon DEF ReplayInv
    <3>3. Sound(es)'
      BY <1>2, <3>2, Zenon DEF Sound
    <3>4. replayJournal(jnl, jsb_seq)' = es /\ early' = {}
      BY <1>2, <3>1, <3>2, Zenon
    <3> QED BY <1>3, <2>2, <3>3, <3>4 DEF ReplayInv
  <2> QED BY <2>3, <2>4, Zenon
<1>5. ASSUME fault' \in {"none", "early"} PROVE FsInv'
  <2>1. fault \in {"none", "early"} /\ pc # "home" /\ fault # "io"
    <3>1. fault \notin {"io", "torn"} /\ pc # "home"
      BY <1>2, <1>5
    <3> QED BY <1>a, <3>1
  <2>2. FsInv /\ ReplayInv /\ HandleType
    BY <1>1, <2>1, Zenon DEF TypeInv
  <2>3. jsb_seq = 0 => Right
    BY <1>2, <2>1, <2>2, Zenon DEF FsInv, HandleType
  <2>4. jsb_seq' = 0 => Right'
    BY <1>2, <2>3, Zenon DEF Right
  <2> QED BY <1>3, <2>4, Zenon DEF FsInv
<1> QED BY <1>3, <1>4, <1>5, Zenon DEF JournalInv

\* After a failed write only the types are claimed.
LEMMA IoErrorKeeps ==
    ASSUME JournalInv, IoError
    PROVE  JournalInv'
<1>1. TypeInv /\ fault' = "io"
  BY Zenon DEF JournalInv, IoError
<1>2. UNCHANGED <<fs, jnl, jsb_seq, write_pos, sequence, block_cache, closing, committed, past, early>>
  BY Zenon DEF IoError, disk
<1>3. DiskType' /\ LogType' /\ CacheType'
  <2>1. DiskType'
    BY <1>1, <1>2, Zenon DEF TypeInv, DiskType
  <2>2. LogType'
    BY <1>1, <1>2, Zenon DEF TypeInv, LogType
  <2>3. CacheType'
    BY <1>1, <1>2, Zenon DEF TypeInv, CacheType
  <2> QED BY <2>1, <2>2, <2>3, Zenon
<1>4. entries' \in Seq(ReplayEntry)
  <2>1. entries # <<>> => Tail(entries) \in Seq(ReplayEntry)
    BY <1>1, HeadTailProperties, Zenon DEF TypeInv
  <2> QED BY <1>1, <2>1, Zenon DEF IoError, TypeInv
<1>5. HandleType'
  <2>1. HandleType /\ Len(handle.queue) \in Nat
    BY <1>1, LenProperties, Zenon DEF TypeInv, HandleType
  <2>2. \/ handle' = NoHandle /\ k' = 0 /\ pc' \in {"clean", "idle"}
        \/ /\ handle' = handle /\ k' = k
           /\ pc \in {"replay", "clear"} /\ pc' \in {"replay", "init"}
        \/ pc = "home" /\ pc' = pc /\ handle' = handle /\ k' = k + 1 /\ k < Len(handle.queue)
    BY Zenon DEF IoError, NextHome, Return, Goto
  <2>3. CASE handle' = NoHandle /\ k' = 0 /\ pc' \in {"clean", "idle"}
    BY <1>2, <2>1, <2>3, Idle, JournalAssumption DEF HandleType
  <2>4. CASE /\ handle' = handle /\ k' = k
             /\ pc \in {"replay", "clear"} /\ pc' \in {"replay", "init"}
    BY <1>2, <2>1, <2>4, Zenon DEF HandleType
  <2>5. CASE pc = "home" /\ pc' = pc /\ handle' = handle /\ k' = k + 1 /\ k < Len(handle.queue)
    <3>1. k + 1 \in 1 .. Len(handle.queue) /\ k + 1 \in 0 .. MaxQueue + 1
      BY <2>1, <2>5, JournalAssumption DEF HandleType
    <3> QED BY <1>2, <2>1, <2>5, <3>1, Zenon DEF HandleType
  <2> QED BY <2>2, <2>3, <2>4, <2>5, Zenon
<1> QED BY <1>1, <1>3, <1>4, <1>5, Zenon DEF JournalInv, TypeInv

-----------------------------------------------------------------------------
(* The theorems.                                                           *)

LEMMA InitInv == Init => JournalInv
<1> SUFFICES ASSUME Init PROVE JournalInv
  BY Zenon
<1>1. PICK m \in Images : fs = m.fs /\ jnl = m.jnl /\ jsb_seq = m.seq /\ committed = m.result /\ past = m.past
  BY Zenon DEF Init
<1>2. /\ write_pos = 1 /\ sequence = 0 /\ handle = NoHandle /\ block_cache = NoCache
      /\ pc = "off" /\ k = 0 /\ entries = <<>> /\ closing = FALSE /\ fault = "none" /\ early = {}
  BY Zenon DEF Init
<1>3. /\ m.seq \in Nat /\ m.fs \in [FsBlock -> Block] /\ m.result \in [FsBlock -> Block]
      /\ DOMAIN m.past = FsBlock /\ WellFormed(m.jnl) /\ Recoverable(m)
  BY ImagesAssumption, Zenon DEF Block
<1>4. DiskType
  BY <1>1, <1>2, <1>3 DEF DiskType
<1>5. LogType
  BY <1>1, <1>2, <1>3, Places, Zenon DEF LogType
<1>6. HandleType
  <2>1. /\ handle \in [active : BOOLEAN, seq : Nat, queue : Seq(Buffer)]
        /\ handle.queue = <<>> /\ Len(handle.queue) <= MaxQueue
    BY <1>2, Idle, JournalAssumption
  <2>2. k \in 0 .. MaxQueue + 1
    BY <1>2, JournalAssumption
  <2>3. closing \in BOOLEAN
    BY <1>2, Zenon
  <2> QED BY <1>2, <2>1, <2>2, <2>3, Zenon DEF HandleType
<1>7. /\ DOMAIN NoCache = 0 .. CacheSize - 1
      /\ \A i \in 0 .. CacheSize - 1 : NoCache[i].b = None /\ ~ NoCache[i].dirty
  BY Zenon DEF NoCache
<1>8. CacheType
  BY <1>2, <1>7, Zenon DEF CacheType
<1>9. TypeInv
  BY <1>2, <1>4, <1>5, <1>6, <1>8 DEF TypeInv
<1>10. QueueInv
  BY <1>2, <1>7, Idle, Zenon DEF QueueInv
<1>11. PICK es : es = IF m.seq = 0 THEN <<>> ELSE replayJournal(m.jnl, m.seq)
  BY Zenon
<1>12. /\ \A b \in FsBlock : m.fs[b] \in m.past[b] /\ m.result[b] \in m.past[b]
       /\ \A i \in 1 .. Len(es) : Replayed(m.jnl, es[i]) \in m.past[es[i].b]
       /\ \A i \in 1 .. Len(es) : (\A j \in 1 .. Len(es) : j > i => es[j].b # es[i].b) =>
                                     m.result[es[i].b] = Replayed(m.jnl, es[i])
       /\ \A b \in FsBlock : (\A i \in 1 .. Len(es) : es[i].b # b) => m.result[b] = m.fs[b]
  BY <1>3, <1>11, Zenon DEF Recoverable
<1>13. PastInv
  BY <1>1, <1>2, <1>12, Zenon DEF PastInv
<1>14. Sound(es)
  BY <1>1, <1>12, Zenon DEF Sound
<1>15. ReplayInv
  BY <1>1, <1>2, <1>11, <1>14, Zenon DEF ReplayInv
<1>16. FsInv
  <2>1. ASSUME jsb_seq = 0 PROVE Right
    <3>1. Len(es) = 0
      BY <1>1, <1>11, <2>1, Zenon
    <3>2. \A b \in FsBlock : m.result[b] = m.fs[b]
      <4>1. \A i \in 1 .. Len(es) : FALSE
        BY <3>1
      <4> QED BY <1>12, <4>1, Zenon
    <3> QED BY <1>1, <3>2, Zenon DEF Right
  <2> QED BY <1>2, <2>1, Zenon DEF FsInv
<1> QED BY <1>9, <1>10, <1>13, <1>15, <1>16, Zenon DEF JournalInv

LEMMA NextKeeps ==
    ASSUME SeqInv, JournalInv, [Next]_vars
    PROVE  JournalInv'
<1>1. ASSUME NEW recover \in BOOLEAN, initJournal(recover) PROVE JournalInv'
  BY <1>1, InitJournalKeeps, Zenon
<1>2. CASE pass3_replay
  BY <1>2, Pass3Keeps, Zenon
<1>3. CASE pass4_clear \/ init
  BY <1>3, Pass4Keeps, Zenon
<1>4. ASSUME NEW b \in FsBlock, readBlock(b) \/ revoke(b) \/ \E c \in Content : writeBlock(b, c)
      PROVE  JournalInv'
  BY <1>4, ReadKeeps, RevokeKeeps, WriteKeeps, Zenon
<1>5. CASE (\E n \in 1 .. MaxTx : start(n)) \/ stop \/ shutdown
  BY <1>5, OpenKeeps
<1>6. CASE writeDescriptorBlock
  BY <1>6, DescriptorKeeps, Zenon
<1>7. CASE writeData
  BY <1>7, DataKeeps, Zenon
<1>8. CASE writeCommitBlock
  BY <1>8, CommitKeeps, Zenon
<1>9. CASE writeHome
  BY <1>9, HomeKeeps, Zenon
<1>10. CASE markClean
  BY <1>10, MarkCleanKeeps, Zenon
<1>11. CASE IoError
  BY <1>11, IoErrorKeeps, Zenon
<1>12. CASE Crash
  BY <1>12, CrashKeeps, Zenon
<1>13. CASE UNCHANGED vars
  <2>1. UNCHANGED <<fs, jnl, jsb_seq, write_pos, sequence, handle, block_cache, pc, k, entries, closing,
                    committed, past, early, fault>>
    BY <1>13, Zenon DEF vars, disk, ghost
  <2>2. TypeInv'
    BY <2>1, Zenon DEF JournalInv, TypeInv, DiskType, LogType, HandleType, CacheType
  <2>3. fault # "io" => QueueInv' /\ PastInv'
    BY <2>1, Zenon DEF JournalInv, QueueInv, PastInv
  <2>4. fault # "io" => ReplayInv'
    BY <2>1 DEF JournalInv, ReplayInv, Sound, Ahead
  <2>5. fault \in {"none", "early"} => FsInv'
    BY <2>1, Zenon DEF JournalInv, FsInv, Right
  <2> QED BY <2>1, <2>2, <2>3, <2>4, <2>5, Zenon DEF JournalInv
<1> QED
  BY <1>1, <1>2, <1>3, <1>4, <1>5, <1>6, <1>7, <1>8, <1>9, <1>10, <1>11, <1>12, <1>13, Zenon DEF Next

LEMMA JournalTyped == JournalInv => TypeOK
<1> SUFFICES ASSUME JournalInv PROVE TypeOK
  BY Zenon
<1>1. DiskType /\ LogType /\ HandleType /\ CacheType
  BY Zenon DEF JournalInv, TypeInv
<1>2. /\ fs \in [FsBlock -> Content \cup {Record}] /\ DOMAIN jnl = Pos /\ \A p \in Pos : jnl[p] \in JBlock
      /\ jsb_seq \in Nat /\ sequence \in Nat /\ write_pos \in Pos
  BY <1>1, Zenon DEF DiskType, LogType, WellFormed, Block
<1>3. /\ handle \in [active : BOOLEAN, seq : Nat, queue : Seq([b : FsBlock, c : Content, escaped : BOOLEAN])]
      /\ pc \in {"off", "replay", "clear", "init", "idle", "desc", "data", "commit", "home", "clean"}
      /\ k \in 0 .. MaxQueue + 1 /\ closing \in BOOLEAN
  BY <1>1, Zenon DEF HandleType, Buffer
<1>4. \A i \in 0 .. CacheSize - 1 :
          block_cache[i].b # None => block_cache[i].b % CacheSize = i /\ block_cache[i].c \in Content \cup {Record}
  BY <1>1, Zenon DEF CacheType, Block
<1> QED BY <1>2, <1>3, <1>4, Zenon DEF TypeOK

\* A transaction takes its number from the counter, which a mount sets.
LEMMA SeqKeeps ==
    /\ Init => SeqInv
    /\ SeqInv /\ JournalInv /\ [Next]_vars => SeqInv'
<1>1. Init => SeqInv
  <2> SUFFICES ASSUME Init PROVE SeqInv
    BY Zenon
  <2>1. PICK m \in Images : jsb_seq = m.seq
    BY Zenon DEF Init
  <2>2. jsb_seq \in Nat
    BY <2>1, ImagesAssumption, Zenon
  <2>3. sequence = 0 /\ pc = "off" /\ ~ handle.active
    BY Zenon DEF Init, NoHandle
  <2> QED BY <2>2, <2>3 DEF SeqInv
<1>2. SeqInv /\ JournalInv /\ [Next]_vars => SeqInv'
  <2> SUFFICES ASSUME SeqInv, JournalInv, [Next]_vars PROVE SeqInv'
    BY Zenon
  <2>0. sequence \in Nat /\ jsb_seq \in Nat /\ (pc # "off" => sequence # 0)
    BY Zenon DEF SeqInv
  <2>a. handle \in [active : BOOLEAN, seq : Nat, queue : Seq(Buffer)]
    BY Zenon DEF JournalInv, TypeInv, HandleType
  <2>1. ASSUME NEW recover \in BOOLEAN, initJournal(recover) PROVE SeqInv'
    <3>1. /\ sequence' = IF jsb_seq # 0 THEN jsb_seq + 1 ELSE 1
          /\ UNCHANGED <<jsb_seq, handle>>
      BY <2>1, Zenon DEF initJournal, disk
    <3>2. sequence' \in Nat /\ sequence' # 0
      BY <2>0, <3>1
    <3> QED BY <2>0, <3>1, <3>2, Zenon DEF SeqInv
  <2>2. ASSUME NEW n \in 1 .. MaxTx, start(n) PROVE SeqInv'
    <3>1. /\ sequence' = sequence + 1 /\ handle'.seq = sequence /\ sequence # 0
          /\ UNCHANGED <<jsb_seq, pc>>
      BY <2>0, <2>2, Zenon DEF start, disk
    <3>2. sequence' \in Nat /\ sequence' # 0
      BY <2>0, <3>1
    <3> QED BY <2>0, <3>1, <3>2, Zenon DEF SeqInv
  <2>3. CASE markClean \/ Crash
    <3>1. /\ sequence' = 0 /\ handle' = NoHandle /\ pc' = "off"
          /\ jsb_seq' = 0 \/ jsb_seq' = jsb_seq
      BY <2>3, Zenon DEF markClean, Crash, Forget, Goto, disk
    <3>2. ~ handle'.active
      BY <3>1, Zenon DEF NoHandle
    <3>3. sequence' \in Nat /\ jsb_seq' \in Nat
      BY <2>0, <3>1
    <3> QED BY <3>1, <3>2, <3>3, Zenon DEF SeqInv
  <2>4. ASSUME sequence' = sequence, jsb_seq' = jsb_seq \/ jsb_seq' = 0, pc = "off" => pc' = "off",
               handle'.active => handle.active /\ handle'.seq = handle.seq
        PROVE  SeqInv'
    <3>1. jsb_seq' \in Nat
      BY <2>0, <2>4
    <3> QED BY <2>4, <3>1, Zenon DEF SeqInv
  <2>5. CASE pass3_replay \/ pass4_clear \/ init
    BY <2>4, <2>5, Zenon DEF pass3_replay, pass4_clear, init, disk, Goto
  <2>6. ASSUME NEW b \in FsBlock, readBlock(b) \/ revoke(b) \/ \E c \in Content : writeBlock(b, c)
        PROVE  SeqInv'
    <3>1. /\ sequence' = sequence /\ jsb_seq' = jsb_seq /\ pc' = pc
          /\ handle' = handle \/ \E q : handle' = [handle EXCEPT !.queue = q]
      BY <2>6, Zenon DEF readBlock, revoke, writeBlock, disk
    <3>2. handle'.active => handle.active /\ handle'.seq = handle.seq
      BY <2>a, <3>1, Zenon
    <3> QED BY <2>4, <3>1, <3>2, Zenon
  <2>7. CASE stop \/ shutdown
    <3>1. /\ sequence' = sequence /\ jsb_seq' = jsb_seq /\ pc # "off"
          /\ handle' = handle \/ handle' = NoHandle
      BY <2>7, Zenon DEF stop, shutdown, disk
    <3>2. handle'.active => handle.active /\ handle'.seq = handle.seq
      BY <3>1, Idle, Zenon
    <3> QED BY <2>4, <3>1, <3>2, Zenon
  <2>8. CASE writeDescriptorBlock \/ writeCommitBlock
    BY <2>4, <2>8, Zenon DEF writeDescriptorBlock, writeCommitBlock, Goto
  <2>9. CASE writeData
    <3>1. PICK c, d : handle' = [handle EXCEPT !.queue[k].c = c, !.queue[k].escaped = d]
      BY <2>9, Zenon DEF writeData
    <3>2. sequence' = sequence /\ jsb_seq' = jsb_seq /\ pc # "off"
      BY <2>9, Zenon DEF writeData
    <3>3. handle'.active => handle.active /\ handle'.seq = handle.seq
      BY <2>a, <3>1, Zenon
    <3> QED BY <2>4, <3>2, <3>3, Zenon
  <2>10. CASE writeHome \/ IoError
    <3>1. /\ sequence' = sequence /\ jsb_seq' = jsb_seq /\ pc # "off"
          /\ handle' = handle \/ handle' = NoHandle
      BY <2>10, Zenon DEF writeHome, IoError, NextHome, disk
    <3>2. handle'.active => handle.active /\ handle'.seq = handle.seq
      BY <3>1, Idle, Zenon
    <3> QED BY <2>4, <3>1, <3>2, Zenon
  <2>11. CASE UNCHANGED vars
    BY <2>4, <2>11, Zenon DEF vars, disk
  <2> QED BY <2>1, <2>2, <2>3, <2>5, <2>6, <2>7, <2>8, <2>9, <2>10, <2>11, Zenon DEF Next
<1> QED BY <1>1, <1>2

LEMMA JournalAlways == Spec => []JournalInv
<1>1. SeqInv /\ JournalInv /\ [Next]_vars => JournalInv'
  BY NextKeeps, Zenon
<1> QED BY InitInv, SeqKeeps, <1>1, PTL DEF Spec

\* The blocks of the queue keep their places until they go home.
LEMMA EarlyKeeps ==
    ASSUME JournalInv, EarlyInv, [Next]_vars
    PROVE  EarlyInv'
<1>1. HandleType
  BY Zenon DEF JournalInv, TypeInv
<1>2. PICK q \in Seq(Buffer) : q = handle.queue
  BY <1>1, Zenon DEF HandleType
<1>3. PICK n \in Nat : n = Len(q) /\ DOMAIN q = 1 .. n
  BY LenProperties, Zenon
<1>4. fault = "none" => \A b \in early : \E j \in 1 .. n : q[j].b = b /\ (pc = "home" => k <= j)
  BY <1>2, <1>3, Zenon DEF EarlyInv
<1>5. fault = "none" /\ q = <<>> => early = {}
  <2>1. q = <<>> => \A j \in 1 .. n : FALSE
    BY <1>3
  <2> QED BY <1>4, <2>1, Zenon
<1>6. ASSUME fault' = "none" => fault = "none", early' \subseteq early, handle'.queue = q, pc' # "home"
      PROVE  EarlyInv'
  BY <1>3, <1>4, <1>6, Zenon DEF EarlyInv
<1>7. ASSUME fault' = "none" => early' = {} PROVE EarlyInv'
  BY <1>7, Zenon DEF EarlyInv
<1>8. ASSUME NEW recover \in BOOLEAN, initJournal(recover) PROVE EarlyInv'
  BY <1>2, <1>6, <1>8, Zenon DEF initJournal, ghost, Goto
<1>9. CASE pass3_replay \/ pass4_clear \/ init
  BY <1>2, <1>6, <1>9, Zenon DEF pass3_replay, pass4_clear, init, ghost, Goto
<1>10. ASSUME NEW b \in FsBlock, readBlock(b) PROVE EarlyInv'
  <2>1. PICK x : early' = early \/ (early' = early \cup {x} /\ Queued(x) # {})
    BY <1>10, Zenon DEF readBlock
  <2>2. pc' = "idle" /\ handle' = handle /\ fault' = fault
    BY <1>10, Zenon DEF readBlock
  <2>3. Queued(x) # {} => \E j \in 1 .. n : q[j].b = x
    BY <1>2, <1>3, Zenon DEF Queued
  <2>4. ASSUME fault = "none", NEW c \in early' PROVE \E j \in 1 .. n : q[j].b = c
    <3>1. CASE c \in early
      BY <1>4, <2>4, <3>1, Zenon
    <3>2. CASE c \notin early
      <4>1. c = x /\ Queued(x) # {}
        BY <2>1, <2>4, <3>2
      <4> QED BY <2>3, <4>1, Zenon
    <3> QED BY <3>1, <3>2, Zenon
  <2> QED BY <1>2, <1>3, <2>2, <2>4, Zenon DEF EarlyInv
<1>11. ASSUME NEW b \in FsBlock, revoke(b) PROVE EarlyInv'
  BY <1>2, <1>6, <1>11, Zenon DEF revoke, ghost
<1>12. ASSUME NEW b \in FsBlock, NEW c \in Content, writeBlock(b, c) PROVE EarlyInv'
  <2>1. pc' = "idle" /\ fault' = fault
    BY <1>12, Zenon DEF writeBlock
  <2>2. CASE handle.active
    <3>1. PICK e : e = [b |-> b, c |-> c, escaped |-> FALSE]
      BY Zenon
    <3>2. e \in Buffer
      BY <3>1, Zenon DEF Buffer
    <3>3. handle' = [handle EXCEPT !.queue = Append(q, e)] /\ early' = early
      BY <1>2, <1>12, <2>2, <3>1, Zenon DEF writeBlock
    <3>4. PICK r : r = Append(q, e)
      BY Zenon
    <3>5. Len(r) = n + 1 /\ \A i \in 1 .. n : r[i] = q[i]
      BY <1>3, <3>2, <3>4, AppendProperties
    <3>6. \A i \in 1 .. n : i \in 1 .. Len(r)
      BY <3>5
    <3>7. handle'.queue = r
      BY <1>1, <3>3, <3>4, Zenon DEF HandleType
    <3>8. fault = "none" => \A x \in early' : \E j \in 1 .. Len(r) : r[j].b = x
      BY <1>4, <3>3, <3>5, <3>6, Zenon
    <3> QED BY <2>1, <3>7, <3>8, Zenon DEF EarlyInv
  <2>3. CASE ~ handle.active
    <3>1. early' \subseteq early /\ handle' = handle
      BY <1>12, <2>3, Zenon DEF writeBlock
    <3> QED BY <1>2, <1>6, <2>1, <3>1, Zenon
  <2> QED BY <2>2, <2>3, Zenon
<1>13. ASSUME NEW m \in 1 .. MaxTx, start(m) PROVE EarlyInv'
  <2>1. q = <<>> /\ early' = early /\ fault' = fault
    BY <1>1, <1>2, <1>13, Zenon DEF start, HandleType, ghost
  <2> QED BY <1>5, <1>7, <2>1, Zenon
<1>14. CASE stop \/ shutdown
  <2>1. early' = early /\ fault' = fault /\ pc' # "home" /\ (q = <<>> \/ handle' = handle)
    BY <1>2, <1>14, Zenon DEF stop, shutdown, ghost, Goto
  <2> QED BY <1>2, <1>5, <1>6, <1>7, <2>1, Zenon
<1>15. CASE writeDescriptorBlock
  BY <1>2, <1>6, <1>15, Zenon DEF writeDescriptorBlock, Goto
<1>16. CASE writeData
  <2>1. PICK c, d : handle' = [handle EXCEPT !.queue[k].c = c, !.queue[k].escaped = d]
    BY <1>16, Zenon DEF writeData
  <2>2. early' = early /\ fault' = fault /\ pc' # "home" /\ k \in 1 .. n
    BY <1>1, <1>2, <1>3, <1>16, Zenon DEF writeData, ghost, Goto, AfterData, HandleType
  <2>3. q[k] \in Buffer
    BY <1>3, <2>2, ElementOfSeq, Zenon
  <2>4. PICK y : y = [q[k] EXCEPT !.c = c, !.escaped = d]
    BY Zenon
  <2>5. y.b = q[k].b
    BY <2>3, <2>4, Zenon DEF Buffer
  <2>6. PICK r : r = [q EXCEPT ![k] = y]
    BY Zenon
  <2>7. handle'.queue = r
    BY <1>1, <1>2, <2>1, <2>4, <2>6, Zenon DEF HandleType
  <2>8. Len(r) = n /\ \A i \in 1 .. n : r[i].b = q[i].b
    <3>1. PICK S : S = Buffer \cup {y}
      BY Zenon
    <3>2. \A i \in 1 .. n : q[i] \in S
      BY <1>3, <3>1, ElementOfSeq, Zenon
    <3>3. q \in Seq(S)
      BY <1>2, <1>3, <3>2
    <3>4. Len(r) = n /\ r[k] = y /\ \A i \in 1 .. n : i # k => r[i] = q[i]
      BY <1>3, <2>2, <2>6, <3>1, <3>3, ExceptSeq
    <3> QED BY <2>5, <3>4, Zenon
  <2>9. fault = "none" => \A b \in early' : \E j \in 1 .. Len(r) : r[j].b = b
    BY <1>4, <2>2, <2>8, Zenon
  <2> QED BY <2>2, <2>7, <2>9, Zenon DEF EarlyInv
<1>17. CASE writeCommitBlock
  <2>1. early' = early /\ fault' = fault /\ handle' = handle /\ k' = 1
    BY <1>1, <1>17, Zenon DEF writeCommitBlock, HandleType
  <2>2. \A j \in 1 .. n : k' <= j
    BY <2>1
  <2> QED BY <1>2, <1>3, <1>4, <2>1, <2>2, Zenon DEF EarlyInv
<1>18. CASE writeHome
  <2>1. pc = "home" /\ early' = early \ {q[k].b} /\ fault' = fault /\ k \in 1 .. n
    BY <1>1, <1>2, <1>3, <1>18, Zenon DEF writeHome, HandleType
  <2>2. IF k < n THEN k' = k + 1 /\ handle' = handle ELSE k' = 0 /\ handle' = NoHandle
    BY <1>2, <1>3, <1>18, Zenon DEF writeHome, NextHome
  <2>3. ASSUME fault' = "none", NEW b \in early' PROVE k < n /\ \E j \in 1 .. n : q[j].b = b /\ k + 1 <= j
    <3>1. PICK j \in 1 .. n : q[j].b = b /\ k <= j
      BY <1>4, <2>1, <2>3, Zenon
    <3>2. j # k
      BY <2>1, <2>3, <3>1, Zenon
    <3>3. k < n /\ k + 1 <= j
      BY <2>1, <3>1, <3>2
    <3> QED BY <3>1, <3>3, Zenon
  <2>4. CASE k < n
    <3>1. k' = k + 1 /\ handle'.queue = q
      BY <1>2, <2>2, <2>4, Zenon
    <3> QED BY <1>3, <2>3, <3>1, Zenon DEF EarlyInv
  <2>5. CASE ~ k < n
    <3>1. fault' = "none" => early' = {}
      BY <2>3, <2>5, Zenon
    <3> QED BY <1>7, <3>1, Zenon
  <2> QED BY <2>4, <2>5, Zenon
<1>19. CASE markClean
  <2>1. q = <<>> /\ early' = early /\ (fault' = "none" => fault = "none")
    BY <1>1, <1>2, <1>19, Zenon DEF markClean, HandleType
  <2> QED BY <1>5, <1>7, <2>1, Zenon
<1>20. CASE IoError
  BY <1>7, <1>20 DEF IoError
<1>21. CASE Crash
  <2>1. fault' = "none" => early' = {}
    BY <1>21 DEF Crash
  <2> QED BY <1>7, <2>1, Zenon
<1>22. CASE UNCHANGED vars
  BY <1>22, Zenon DEF vars, ghost, EarlyInv
<1> QED
  BY <1>8, <1>9, <1>10, <1>11, <1>12, <1>13, <1>14, <1>15, <1>16, <1>17, <1>18, <1>19, <1>20,
     <1>21, <1>22, Zenon DEF Next

LEMMA EarlyAlways == Spec => []EarlyInv
<1>1. Init => EarlyInv
  BY Zenon DEF Init, EarlyInv
<1>2. JournalInv /\ EarlyInv /\ [Next]_vars => EarlyInv'
  BY EarlyKeeps, Zenon
<1> QED BY <1>1, <1>2, JournalAlways, PTL DEF Spec

\* journal.zig stop writes the blocks of a transaction home only after its
\* commit block, and readBlock of ext2.zig flushes a dirty cache entry at any
\* time: for any number of blocks, any size of the log and of the cache, and
\* any crashes, the blocks that show contents of a transaction that did not
\* commit are those such a flush wrote, and no others.
THEOREM JournalUncommittedInvisible == Spec => []UncommittedInvisible
<1>1. JournalInv => UncommittedInvisible
  BY Zenon DEF JournalInv, PastInv, UncommittedInvisible
<1> QED BY <1>1, JournalAlways, PTL

\* ext3_mount.zig and journal_replay.zig: a file system mounted from an image
\* whose committed transactions are in place or in the log holds, between two
\* transactions, what was committed, however often the replay was interrupted
\* by a crash and repeated.  A crash while blocks go home is left out, and one
\* that leaves a block of an open transaction on the disk spoils that block
\* alone.
THEOREM JournalMountSound == Spec => []MountSound
<1>1. JournalInv /\ EarlyInv => MountSound
  <2> SUFFICES ASSUME JournalInv, EarlyInv PROVE Consistent
    BY JournalTyped, Zenon DEF MountSound
  <2> SUFFICES ASSUME pc = "idle", fault \in {"none", "early"}
               PROVE  /\ \A b \in FsBlock \ early : fs[b] = committed[b]
                      /\ fault = "none" /\ ~ handle.active => early = {}
    BY Zenon DEF Consistent
  <2>1. Right
    BY Zenon DEF JournalInv, FsInv
  <2>2. ASSUME fault = "none", ~ handle.active PROVE early = {}
    <3>1. handle.queue = <<>>
      BY <2>2, Zenon DEF JournalInv, TypeInv, HandleType
    <3>2. \A j \in 1 .. Len(handle.queue) : FALSE
      BY <3>1
    <3> QED BY <2>2, <3>2, Zenon DEF EarlyInv
  <2> QED BY <2>1, <2>2, Zenon DEF Right
<1> QED BY <1>1, EarlyAlways, JournalAlways, PTL
=============================================================================
