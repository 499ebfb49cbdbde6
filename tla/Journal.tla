------------------------------ MODULE Journal ------------------------------
(***************************************************************************)
(* Metadata journaling of ext3/ext4 (fs/ext3/journal.zig, journal_replay   *)
(* .zig, ext3_mount.zig) under the block cache of ext2 (aarch64/ext2.zig). *)
(* Each write of a block to the disk is a step, and the machine may crash  *)
(* between any two of them: what is on the disk stays, the rest is lost.   *)
(*                                                                         *)
(* The content of a block is its first word, of which only "is it the      *)
(* journal magic" matters, and the rest.  A journal block is a descriptor, *)
(* a commit, a revoke record or data; data whose first word is the magic   *)
(* is stored with that word zeroed and flagged in its tag.                 *)
(***************************************************************************)
EXTENDS Integers, Sequences, FiniteSets

CONSTANTS
    FsBlock,     \* numbers of the metadata blocks of the file system
    Rest,        \* contents of a block but for its first word
    MaxBlocks,   \* jsb_maxlen; block 0 is the journal superblock, jsb_first is 1
    CacheSize,   \* BLOCK_CACHE_SIZE
    Images,      \* disks the system is first started with
    MaxTxs,      \* bound on the transactions
    MaxQueue,    \* bound on the blocks of a transaction
    MaxRevokes,  \* bound on revoke records
    MaxMounts    \* bound on mounts

Content == {"magic", "zero"} \X Rest
Record == <<"magic", "record">>    \* what a journal record looks like as content
Pos == 1 .. MaxBlocks - 1
MaxTx == MaxBlocks \div 4
None == -1

ASSUME JournalAssumption ==
    /\ FsBlock \subseteq Nat
    /\ MaxBlocks \in Nat /\ MaxBlocks > 1 /\ CacheSize \in Nat \ {0}
    /\ MaxQueue \in Nat /\ Rest # {}

VARIABLES
    fs,          \* disk: file system block -> content
    jnl,         \* disk: journal position -> journal block
    jsb_seq,     \* disk: sequence field of the journal superblock
    write_pos, sequence,   \* JournalState
    handle,      \* TransactionHandle and tx_buffers
    block_cache, \* index -> cached block
    pc,          \* what the system does next
    k,           \* the index of the loop it is in
    entries,     \* blocks still to replay
    closing,     \* shutdown was called
    mounts, txs, revokes,
    committed,   \* ghost: content the blocks have by the transactions committed
    past,        \* ghost: block -> the contents it was ever committed to have
    tx_pos,      \* ghost: where the current transaction's descriptor is
    early,       \* ghost: blocks the cache wrote home before their transaction committed
    fault        \* ghost: "none", "early" (crash with such blocks), "torn" (crash
                 \* while blocks go home), "io"

disk == <<fs, jnl, jsb_seq>>
bounds == <<mounts, txs, revokes>>
ghost == <<committed, past, tx_pos, early, fault>>
vars == <<disk, write_pos, sequence, handle, block_cache, pc, k, entries, closing, bounds, ghost>>

Data(c) == [kind |-> "data", c |-> c]
JBlock ==
    {Data(c) : c \in Content}
    \cup [kind : {"desc"}, seq : Nat, tags : Seq([b : FsBlock, escape : BOOLEAN])]
    \cup [kind : {"commit"}, seq : Nat]
    \cup [kind : {"revoke"}, seq : Nat, b : FsBlock]
NoHandle == [active |-> FALSE, seq |-> 0, queue |-> <<>>]
NoCache == [i \in 0 .. CacheSize - 1 |-> [b |-> None, c |-> None, dirty |-> FALSE]]

TypeOK ==
    /\ fs \in [FsBlock -> Content \cup {Record}]
    /\ DOMAIN jnl = Pos /\ \A p \in Pos : jnl[p] \in JBlock
    /\ jsb_seq \in Nat /\ sequence \in Nat
    /\ write_pos \in Pos
    /\ handle \in [active : BOOLEAN, seq : Nat, queue : Seq([b : FsBlock, c : Content, escaped : BOOLEAN])]
    /\ \A i \in 0 .. CacheSize - 1 :
          block_cache[i].b # None => block_cache[i].b % CacheSize = i /\ block_cache[i].c \in Content \cup {Record}
    /\ pc \in {"off", "replay", "clear", "init", "idle", "desc", "data", "commit", "home", "clean"}
    /\ k \in 0 .. MaxQueue + 1
    /\ closing \in BOOLEAN

nextBlock(p) == IF p + 1 >= MaxBlocks THEN 1 ELSE p + 1

-----------------------------------------------------------------------------
(* Replay, as a function of the log.                                       *)

Escape(c) == IF c[1] = "magic" THEN <<"zero", c[2]>> ELSE c
Restore(c) == <<"magic", c[2]>>

Entry(blk, p, i) ==
    LET at[j \in 0 .. i] == IF j = 0 THEN p ELSE nextBlock(at[j - 1])
    IN  [seq |-> blk.seq, b |-> blk.tags[i].b, at |-> at[i],
         escape |-> blk.tags[i].escape, valid |-> FALSE]

\* The entries of transaction seq become valid.
Validate(es, seq) == [i \in DOMAIN es |-> [es[i] EXCEPT !.valid = @ \/ es[i].seq = seq]]

\* One round of the scan: s.pos is the block looked at, s.expected the sequence
\* number the next commit must have.
ScanBlock(log, s) ==
    LET blk == log[s.pos]
        next == [s EXCEPT !.pos = nextBlock(@), !.scanned = @ + 1]
        n == Len(blk.tags)
        new == [i \in 1 .. n |-> Entry(blk, s.pos, i)]
    IN  IF blk.kind = "data" THEN [s EXCEPT !.done = TRUE]
        ELSE IF blk.kind = "desc"
        THEN [s EXCEPT !.entries = @ \o new, !.pos = nextBlock(new[n].at), !.scanned = @ + n + 1]
        ELSE IF blk.kind = "revoke"
        THEN [next EXCEPT !.revoked = @ \cup {<<blk.b, blk.seq>>}]
        ELSE IF blk.seq = s.expected
        THEN [next EXCEPT !.expected = @ + 1, !.entries = Validate(@, blk.seq)]
        ELSE [s EXCEPT !.done = TRUE]

pass1_scan(log, start, seq) ==
    LET scan[i \in 0 .. MaxBlocks] ==
            IF i = 0
            THEN [pos |-> start, expected |-> seq, scanned |-> 0, entries |-> <<>>,
                  revoked |-> {}, done |-> FALSE]
            ELSE LET s == scan[i - 1]
                 IN  IF s.done \/ s.scanned >= MaxBlocks THEN s ELSE ScanBlock(log, s)
    IN  scan[MaxBlocks]

\* A later transaction has freed the block of e.
Revoked(s, e) == \E r \in s.revoked : r[1] = e.b /\ r[2] >= e.seq

pass2_filter(s) ==
    LET keep[i \in 0 .. Len(s.entries)] ==
            IF i = 0 THEN <<>>
            ELSE LET e == s.entries[i]
                 IN  IF e.valid /\ ~ Revoked(s, e) THEN Append(keep[i - 1], e) ELSE keep[i - 1]
    IN  keep[Len(s.entries)]

\* The blocks to write, for a log whose superblock has sequence number seq.
replayJournal(log, seq) == pass2_filter(pass1_scan(log, 1, seq))

Stored(log, p) == IF log[p].kind = "data" THEN log[p].c ELSE Record

\* The content pass 3 writes for an entry.
Replayed(log, e) == IF e.escape THEN Restore(Stored(log, e.at)) ELSE Stored(log, e.at)

\* A log as the journal code writes it: a descriptor has a tag at least, and
\* transactions are numbered from 1.
WellFormed(log) ==
    /\ DOMAIN log = Pos
    /\ \A p \in Pos : /\ log[p] \in JBlock
                      /\ log[p].kind = "desc" => log[p].tags # <<>>
                      /\ log[p].kind = "commit" => log[p].seq # 0

\* The disk m was left behind by a system whose committed transactions give its
\* blocks the contents m.result: they are in place, or in the log.
Recoverable(m) ==
    LET es == IF m.seq = 0 THEN <<>> ELSE replayJournal(m.jnl, m.seq)
        Final(i) == \A j \in 1 .. Len(es) : j > i => es[j].b # es[i].b
    IN  /\ \A b \in FsBlock : m.fs[b] \in m.past[b] /\ m.result[b] \in m.past[b]
        /\ \A i \in 1 .. Len(es) : /\ Replayed(m.jnl, es[i]) \in m.past[es[i].b]
                                   /\ Final(i) => m.result[es[i].b] = Replayed(m.jnl, es[i])
        /\ \A b \in FsBlock : (\A i \in 1 .. Len(es) : es[i].b # b) => m.result[b] = m.fs[b]

ASSUME ImagesAssumption ==
    \A m \in Images :
        /\ m.seq \in Nat /\ m.fs \in [FsBlock -> Content \cup {Record}]
        /\ m.result \in [FsBlock -> Content \cup {Record}] /\ DOMAIN m.past = FsBlock
        /\ WellFormed(m.jnl) /\ Recoverable(m)

-----------------------------------------------------------------------------
Goto(l) == pc' = l

\* The machine is off; the disk holds one of the images.
Init ==
    /\ \E m \in Images : /\ fs = m.fs /\ jnl = m.jnl /\ jsb_seq = m.seq
                         /\ committed = m.result /\ past = m.past
    /\ write_pos = 1 /\ sequence = 0
    /\ handle = NoHandle /\ block_cache = NoCache
    /\ pc = "off" /\ k = 0 /\ entries = <<>> /\ closing = FALSE
    /\ mounts = 0 /\ txs = 0 /\ revokes = 0
    /\ tx_pos = 1 /\ early = {} /\ fault = "none"

(* Mounting.                                                               *)

\* initJournal: a journal whose superblock has a sequence number is replayed,
\* or any, when the file system has the INCOMPAT_RECOVER flag.
initJournal(recover) ==
    /\ pc = "off" /\ mounts < MaxMounts
    /\ mounts' = mounts + 1
    /\ sequence' = IF jsb_seq # 0 THEN jsb_seq + 1 ELSE 1
    /\ IF jsb_seq # 0 \/ recover
       THEN entries' = replayJournal(jnl, jsb_seq) /\ Goto("replay")
       ELSE Goto("init") /\ UNCHANGED entries
    /\ UNCHANGED <<disk, write_pos, handle, block_cache, k, closing, txs, revokes, ghost>>

pass3_replay ==
    /\ pc = "replay"
    /\ IF entries = <<>>
       THEN Goto("clear") /\ UNCHANGED <<fs, entries>>
       ELSE /\ fs' = [fs EXCEPT ![Head(entries).b] = Replayed(jnl, Head(entries))]
            /\ entries' = Tail(entries)
            /\ UNCHANGED pc
    /\ UNCHANGED <<jnl, jsb_seq, write_pos, sequence, handle, block_cache, k, closing, bounds, ghost>>

pass4_clear ==
    /\ pc = "clear"
    /\ jsb_seq' = 0
    /\ Goto("init")
    /\ UNCHANGED <<fs, jnl, write_pos, sequence, handle, block_cache, k, entries, closing, bounds, ghost>>

\* journal.init: the log is written from its start again.
init ==
    /\ pc = "init"
    /\ write_pos' = 1
    /\ Goto("idle")
    /\ UNCHANGED <<disk, sequence, handle, block_cache, k, entries, closing, bounds, ghost>>

(* The block cache.                                                        *)

Index(b) == b % CacheSize
Cached(b) == block_cache[Index(b)].b = b

\* The places of b in the queue of the open transaction.
Queued(b) == {i \in DOMAIN handle.queue : handle.queue[i].b = b}

\* readBlock of a block that is not cached: the entry in its place is flushed
\* if dirty, also when it belongs to the open transaction.
readBlock(b) ==
    LET old == block_cache[Index(b)]
        flush == old.b # None /\ old.dirty
    IN  /\ pc = "idle" /\ ~ Cached(b)
        /\ fs' = IF flush THEN [fs EXCEPT ![old.b] = old.c] ELSE fs
        /\ early' = IF flush /\ Queued(old.b) # {} THEN early \cup {old.b} ELSE early
        /\ block_cache' = [block_cache EXCEPT ![Index(b)] = [b |-> b, c |-> fs[b], dirty |-> FALSE]]
        /\ UNCHANGED <<jnl, jsb_seq, write_pos, sequence, handle, pc, k, entries, closing, bounds,
                       committed, past, tx_pos, fault>>

\* ext2 writeBlock, and journal.writeBlock when a transaction is open; without
\* one the block goes straight to the disk.
writeBlock(b, c) ==
    /\ pc = "idle"
    /\ IF handle.active
       THEN /\ Len(handle.queue) < MaxQueue
            /\ handle' = [handle EXCEPT !.queue = Append(@, [b |-> b, c |-> c, escaped |-> FALSE])]
            /\ UNCHANGED <<fs, committed, past, early>>
       ELSE /\ fs' = [fs EXCEPT ![b] = c]
            /\ early' = early \ {b}
            /\ committed' = [committed EXCEPT ![b] = c]
            /\ past' = [past EXCEPT ![b] = @ \cup {c}]
            /\ UNCHANGED handle
    /\ block_cache' = [block_cache EXCEPT ![Index(b)] = [b |-> b, c |-> c, dirty |-> TRUE]]
    /\ UNCHANGED <<jnl, jsb_seq, write_pos, sequence, pc, k, entries, closing, bounds, tx_pos, fault>>

(* Transactions.                                                           *)

\* beginJournalTx and start; with too large a reservation nothing is started.
start(n) ==
    /\ pc = "idle" /\ ~ handle.active /\ txs < MaxTxs
    /\ txs' = txs + 1
    /\ n <= MaxTx /\ n + 2 <= MaxBlocks - 1
    /\ handle' = [active |-> TRUE, seq |-> sequence, queue |-> <<>>]
    /\ sequence' = sequence + 1
    /\ UNCHANGED <<disk, write_pos, block_cache, pc, k, entries, closing, mounts, revokes, ghost>>

\* Where stop returns to.
Return == IF closing THEN "clean" ELSE "idle"

\* commitJournalTx and stop.
stop ==
    /\ pc = "idle" /\ handle.active
    /\ IF handle.queue = <<>>
       THEN handle' = NoHandle /\ UNCHANGED pc
       ELSE Goto("desc") /\ UNCHANGED handle
    /\ UNCHANGED <<disk, write_pos, sequence, block_cache, k, entries, closing, bounds, ghost>>

\* Append a block to the log.
Log(blk) ==
    /\ jnl' = [jnl EXCEPT ![write_pos] = blk]
    /\ write_pos' = nextBlock(write_pos)

\* Mutant: the escape flag is not recorded.
Tag_noEscape(q) == [b |-> q.b, escape |-> FALSE]

\* The tag of a queued block.
Tag(q) == [b |-> q.b, escape |-> q.c[1] = "magic"]

writeDescriptorBlock ==
    /\ pc = "desc"
    /\ Log([kind |-> "desc", seq |-> handle.seq,
            tags |-> [i \in DOMAIN handle.queue |-> Tag(handle.queue[i])]])
    /\ tx_pos' = write_pos
    /\ k' = 1
    /\ Goto("data")
    /\ UNCHANGED <<fs, jsb_seq, sequence, handle, block_cache, entries, closing, bounds,
                   committed, past, early, fault>>

\* Mutant: after the last data block the blocks go home, the commit is left out.
AfterData_home == "home"

AfterData == "commit"

\* One data block; the buffer itself is escaped.
writeData ==
    LET c == handle.queue[k].c
    IN  /\ pc = "data"
        /\ Log(Data(Escape(c)))
        /\ handle' = [handle EXCEPT !.queue[k].c = Escape(c), !.queue[k].escaped = c[1] = "magic"]
        /\ IF k < Len(handle.queue)
           THEN k' = k + 1 /\ UNCHANGED pc
           ELSE k' = 1 /\ Goto(AfterData)
        /\ UNCHANGED <<fs, jsb_seq, sequence, block_cache, entries, closing, bounds, ghost>>

\* Mutant: the first word of an escaped block is not put back.
Home_raw(q) == q.c

\* What is written to the block's place in the file system.
Home(q) == IF q.escaped THEN Restore(q.c) ELSE q.c

\* Ghost: the contents the transaction was given for b; the last one counts.
Given(i) == IF handle.queue[i].escaped THEN Restore(handle.queue[i].c) ELSE handle.queue[i].c
Last(b) == CHOOSE i \in Queued(b) : \A j \in Queued(b) : j <= i

writeCommitBlock ==
    /\ pc = "commit"
    /\ Log([kind |-> "commit", seq |-> handle.seq])
    /\ committed' = [b \in FsBlock |-> IF Queued(b) # {} THEN Given(Last(b)) ELSE committed[b]]
    /\ past' = [b \in FsBlock |-> past[b] \cup {Given(i) : i \in Queued(b)}]
    /\ Goto("home")
    /\ UNCHANGED <<fs, jsb_seq, sequence, handle, block_cache, k, entries, closing, bounds, tx_pos,
                   early, fault>>

\* The next round of the last loop of stop.
NextHome ==
    IF k < Len(handle.queue)
    THEN k' = k + 1 /\ UNCHANGED <<handle, pc>>
    ELSE k' = 0 /\ handle' = NoHandle /\ Goto(Return)

writeHome ==
    /\ pc = "home"
    /\ fs' = [fs EXCEPT ![handle.queue[k].b] = Home(handle.queue[k])]
    /\ early' = early \ {handle.queue[k].b}
    /\ NextHome
    /\ UNCHANGED <<jnl, jsb_seq, write_pos, sequence, block_cache, entries, closing, bounds,
                   committed, past, tx_pos, fault>>

\* freeBlock, after its own transaction: a record that keeps replay from
\* writing the freed block.
revoke(b) ==
    /\ pc = "idle" /\ ~ handle.active /\ revokes < MaxRevokes
    /\ revokes' = revokes + 1
    /\ Log([kind |-> "revoke", seq |-> sequence, b |-> b])
    /\ UNCHANGED <<fs, jsb_seq, sequence, handle, block_cache, pc, k, entries, closing, mounts, txs, ghost>>

\* shutdown: an open transaction is committed, then the sequence is zeroed.
shutdown ==
    /\ pc = "idle"
    /\ closing' = TRUE
    /\ handle' = IF handle.queue = <<>> THEN NoHandle ELSE handle
    /\ Goto(IF handle.queue = <<>> THEN "clean" ELSE "desc")
    /\ UNCHANGED <<disk, write_pos, sequence, block_cache, k, entries, bounds, ghost>>

\* What a restart finds in memory.
Forget ==
    /\ write_pos' = 1 /\ sequence' = 0 /\ handle' = NoHandle /\ block_cache' = NoCache
    /\ k' = 0 /\ entries' = <<>> /\ closing' = FALSE /\ tx_pos' = 1
    /\ Goto("off")

\* The superblock is marked clean, or its write fails, and the machine stops.
markClean ==
    /\ pc = "clean"
    /\ \/ jsb_seq' = 0 /\ UNCHANGED fault
       \/ fault # "io" /\ fault' = "io" /\ UNCHANGED jsb_seq
    /\ Forget
    /\ UNCHANGED <<fs, jnl, bounds, committed, past, early>>

\* A write fails (once, at most).  In the log it ends the transaction; anywhere
\* else nobody notices, and the disk is as if it had not been tried.
IoError ==
    /\ fault # "io" /\ fault' = "io"
    /\ \/ /\ pc \in {"desc", "data", "commit"}
          /\ handle' = NoHandle /\ k' = 0 /\ Goto(Return)
          /\ UNCHANGED entries
       \/ /\ pc = "home"
          /\ NextHome
          /\ UNCHANGED entries
       \/ /\ pc = "replay" /\ entries # <<>>
          /\ entries' = Tail(entries)
          /\ UNCHANGED <<handle, k, pc>>
       \/ /\ pc = "clear" /\ Goto("init")
          /\ UNCHANGED <<handle, k, entries>>
    /\ UNCHANGED <<disk, write_pos, sequence, block_cache, closing, bounds, committed, past, tx_pos,
                   early>>

Crash ==
    /\ pc # "off"
    /\ Forget
    /\ fault' = IF fault \in {"io", "torn"} THEN fault
                ELSE IF pc = "home" THEN "torn"
                ELSE IF early # {} THEN "early" ELSE fault
    /\ UNCHANGED <<disk, bounds, committed, past, early>>

Next ==
    \/ \E recover \in BOOLEAN : initJournal(recover)
    \/ pass3_replay \/ pass4_clear \/ init
    \/ \E b \in FsBlock : readBlock(b) \/ revoke(b) \/ \E c \in Content : writeBlock(b, c)
    \/ \E n \in 1 .. MaxTx : start(n)
    \/ stop \/ writeDescriptorBlock \/ writeData \/ writeCommitBlock \/ writeHome
    \/ shutdown \/ markClean
    \/ IoError \/ Crash

Spec == Init /\ [][Next]_vars

-----------------------------------------------------------------------------
(* Properties.                                                             *)

\* The blocks a scan that starts at position p with sequence number seq takes
\* from transaction seq, with their contents.
Decoded(p, seq) ==
    LET es == SelectSeq(pass1_scan(jnl, p, seq).entries, LAMBDA e : e.valid /\ e.seq = seq)
    IN  [i \in DOMAIN es |-> <<es[i].b, Replayed(jnl, es[i])>>]

\* journal.zig stop, "After this returns, the metadata is recoverable": from
\* the moment the commit block is written until the blocks are home, the
\* replay scan finds in the log exactly the blocks of the transaction, with
\* their contents, across the wrap of the log and escaped first words, and
\* whatever older transactions are still in the log.
CommittedDecodes ==
    pc = "home" => Decoded(tx_pos, handle.seq) =
                     [i \in DOMAIN handle.queue |-> <<handle.queue[i].b, Given(i)>>]

\* journal.zig, "Write metadata to real filesystem locations" only after the
\* commit: the file system never shows a block of a transaction that did not
\* commit, through crashes and remounts, but for the blocks that the cache of
\* ext2.zig wrote home to make room while their transaction was open.
UncommittedInvisible == fault # "io" => \A b \in FsBlock \ early : fs[b] \in past[b]

\* journal_replay.zig and journal.zig: a mounted file system between two
\* transactions has the contents the committed transactions give it; a dirty
\* image is brought up to date by replay even if that is interrupted by
\* crashes and repeated.  A crash while blocks go home is left out.  A block
\* the cache wrote home too early is right again at the end of its transaction
\* and stays wrong only if a crash comes first.
Consistent ==
    pc = "idle" /\ fault \in {"none", "early"} =>
        /\ \A b \in FsBlock \ early : fs[b] = committed[b]
        /\ fault = "none" /\ ~ handle.active => early = {}

\* ext2-3-4/ROADMAP.md, "If power is lost mid-write, the journal replays on next
\* mount": after a mount every committed transaction is in place as a whole.
CrashAtomic == pc = "idle" /\ ~ handle.active /\ fault # "io" => fs = committed

\* ext3_mount.zig: after a mount the file system holds what was committed.
MountSound == TypeOK /\ Consistent
=============================================================================
