----------------------------- MODULE SerialLog -----------------------------
(***************************************************************************)
(* The kernel's CPUs write the serial log, and parse-serial-log.py reads   *)
(* it.  uart.print and uart.writeString hold the transmit lock for one     *)
(* call, so another CPU may print between two calls that make up a line.   *)
(* A CPU that takes a fault prints several lines, some of them in pieces.  *)
(***************************************************************************)
EXTENDS SerialParse

CONSTANTS Cpus, Crashers,  \* Crashers: the CPUs that may take a fault
          OneLine,         \* messages of one call: records [tag, ansi, kind, v]
          Faults,          \* addresses: records [far, elr]
          Traced,          \* whether system calls were recorded, a subset of BOOLEAN
          Depths,          \* frames in a chain of frame pointers, a subset of 0 .. 3
          OldLogs,         \* logs kept from earlier boots
          MaxMsgs          \* bound on messages

VARIABLES pc,       \* "boot", then "done"
          log, open,  \* the lines so far; whether the last one is unfinished
          todo,     \* what a CPU still has to print
          halted,   \* CPUs stopped by a fault of the kernel itself
          msgs,     \* number of messages so far
          report,   \* of the log of this boot
          old,      \* the log given with --diff
          out       \* what is printed
vars == <<pc, log, open, todo, halted, msgs, report, old, out>>

---------------------------------------------------------------------------
(* Kernel *)

Frag(tag, kind, v, pre, nl) ==
    [tag |-> tag, ansi |-> FALSE, kind |-> kind, v |-> v, pre |-> pre, nl |-> nl, by |-> msgs + 1]
NoV == [text |-> ""]
Regs(names, nl) == Frag("", "regs", [regs |-> names], FALSE, nl)

\* A line that the code writes with many calls is two pieces here, so another CPU
\* may print between them.  Equal lines of a dump are one line.

\* dumpTrace: nothing when no system call was recorded.  Arguments are written
\* with writeHex, which puts no 0x in front.
dumpTrace(some) ==
    IF ~some THEN <<>>
    ELSE <<Frag("sc-trace", "trace", NoV, FALSE, FALSE), Frag("", "plain", NoV, FALSE, TRUE),
           Frag("", "row", [nr |-> 64, pid |-> 1, prefixed |-> FALSE], FALSE, FALSE),
           Frag("", "plain", NoV, FALSE, TRUE)>>

\* dumpExcRing begins with an empty line.
dumpExcRing == <<Frag("", "plain", NoV, TRUE, TRUE)>>

\* An instruction abort of a process.  The chain of frame pointers, left out when
\* the frame is not on the kernel stack, is printed call by call, and the return
\* addresses in it look like a register.
InstAbort(f, some, depth) ==
    <<Frag("exc", "abort", [far |-> f.far, elr |-> f.elr, pid |-> 1], FALSE, TRUE),
      Regs({"SPSR", "X0"}, TRUE), Regs({"X8"}, TRUE), Regs({"frame_at"}, TRUE)>>
    \o (IF depth = 0 THEN <<>>
        ELSE <<Frag("", "fp", NoV, FALSE, FALSE)>>
             \o [k \in 1 .. depth - 1 |-> Regs({"LR"}, FALSE)]
             \o <<Frag("", "plain", NoV, FALSE, TRUE)>>)
    \o dumpTrace(some)

\* A data abort of a process.
DataAbort(f, some) ==
    <<Frag("exc", "abort", [far |-> f.far, elr |-> f.elr, pid |-> 1], FALSE, TRUE),
      Regs({"SPSR"}, TRUE), Regs({"X0"}, TRUE)>> \o dumpTrace(some) \o dumpExcRing

\* A fault without a process stops the CPU.
KernelFault(some) ==
    <<Frag("exc", "fault", NoV, FALSE, FALSE), Frag("", "plain", NoV, TRUE, FALSE),
      Frag("", "plain", NoV, FALSE, TRUE)>> \o dumpExcRing \o dumpTrace(some)

\* One call appends to the unfinished line or begins a new one.
Put(f) ==
    LET closed == IF ~f.pre THEN log ELSE IF open THEN log ELSE Append(log, <<>>)
        joins == open /\ ~f.pre
    IN  /\ log' = IF joins THEN [closed EXCEPT ![Len(closed)] = Append(@, f)]
                  ELSE Append(closed, <<f>>)
        /\ open' = ~f.nl

Parser == <<report, old, out>>

\* A message of one call.
Say(c) ==
    /\ pc = "boot" /\ todo[c] = <<>> /\ c \notin halted /\ msgs < MaxMsgs
    /\ \E m \in OneLine :
          Put([tag |-> m.tag, ansi |-> m.ansi, kind |-> m.kind, v |-> m.v, pre |-> FALSE,
               nl |-> TRUE, by |-> msgs + 1])
    /\ msgs' = msgs + 1
    /\ UNCHANGED <<pc, todo, halted, Parser>>

\* A fault: the first call is made, the others are left to do.
Fault(c) ==
    /\ pc = "boot" /\ todo[c] = <<>> /\ c \in Crashers \ halted /\ msgs < MaxMsgs
    /\ \E f \in Faults, some \in Traced, depth \in Depths :
          \E block \in {InstAbort(f, some, depth), DataAbort(f, some), KernelFault(some)} :
             /\ Put(Head(block))
             /\ todo' = [todo EXCEPT ![c] = Tail(block)]
             /\ halted' = IF block[1].kind = "fault" THEN halted \cup {c} ELSE halted
    /\ msgs' = msgs + 1
    /\ UNCHANGED <<pc, Parser>>

Continue(c) ==
    /\ pc = "boot" /\ todo[c] # <<>>
    /\ Put(Head(todo[c]))
    /\ todo' = [todo EXCEPT ![c] = Tail(@)]
    /\ UNCHANGED <<pc, halted, msgs, Parser>>

---------------------------------------------------------------------------
(* The parser *)

DiffOutput(old_report, new_report) == print_diff(old_report, new_report)

Kernel == <<log, open, todo, halted, msgs>>

\* main reads the log as it is when it is fetched.  With --diff it analyzes an
\* older one as well and prints the comparison.
MainDiff ==
    /\ pc = "boot"
    /\ report' = analyze_log(log)
    /\ old' \in OldLogs
    /\ out' = [diff |-> DiffOutput(analyze_log(old'), report')]
    /\ pc' = "done"
    /\ UNCHANGED Kernel

\* Without it, main prints JSON or the sections.
Main ==
    /\ pc = "boot"
    /\ report' = analyze_log(log)
    /\ out' = [json |-> print_json(report'), text |-> [s \in SECTIONS |-> Section(report', s)]]
    /\ pc' = "done"
    /\ UNCHANGED <<old, Kernel>>

Done == pc = "done" /\ UNCHANGED vars

Init ==
    /\ pc = "boot" /\ log = <<>> /\ open = FALSE
    /\ todo = [c \in Cpus |-> <<>>] /\ halted = {} /\ msgs = 0
    /\ report = None /\ old = <<>> /\ out = None

Next ==
    \/ \E c \in Cpus : Say(c) \/ Fault(c) \/ Continue(c)
    \/ MainDiff \/ Main \/ Done

Spec == Init /\ [][Next]_vars

---------------------------------------------------------------------------
(* Properties.  Each speaks of the log, not of the parser's own lists. *)

\* A line whose visible text begins with a tag.
Tagged(l, t) == l # <<>> /\ l[1].tag = t
LinesWith(t) == {k \in DOMAIN log : Tagged(log[k], t)}

TypeOK ==
    /\ pc \in {"boot", "done"} /\ msgs \in 0 .. MaxMsgs
    /\ \A k \in DOMAIN log : \A j \in 1 .. Len(log[k]) - 1 : ~log[k][j].nl
    /\ \A c \in Cpus : todo[c] # <<>> => c \in Crashers

\* Every line that visibly begins with a tag is counted, escape sequences or
\* not, and no line is filed in two lists.
CountedOnce ==
    report # None =>
        LET r == report
            in(l, k) == \E e \in Range(r.ev[l]) : e.line = k
        IN  /\ \A k \in DOMAIN log : log[k] # <<>> /\ log[k][1].tag # "" =>
                   Count(r, log[k][1].tag) = Cardinality(LinesWith(log[k][1].tag))
            /\ \A k \in DOMAIN log : Cardinality({l \in Lists : in(l, k)}) <= 1
            /\ \A l \in Lists : \A a \in 1 .. Len(r.ev[l]) - 1 : r.ev[l][a].line < r.ev[l][a + 1].line

\* All writes of an inode that the kernel logged are in its sums, save those
\* printed behind the unfinished line of another CPU.  Without a fault nothing
\* is lost.
WritesExact ==
    report # None =>
        LET at == {k \in DOMAIN log : Has(log[k], "wr")}
            seen == {k \in at : log[k][1].kind = "wr"}
            of(n) == {k \in seen : log[k][1].v.ino = n}
            row(n) == CHOOSE w \in Range(report.writes) : w.ino = n
        IN  /\ {w.ino : w \in Range(report.writes)} = {log[k][1].v.ino : k \in seen}
            /\ \A n \in {w.ino : w \in Range(report.writes)} :
                   /\ row(n).total = FoldSet(LAMBDA k, a : a + log[k][1].v.wrote, 0, of(n))
                   /\ row(n).disk = FoldSet(LAMBDA k, a : a + log[k][1].v.wdisk, 0, of(n))
                   /\ row(n).ops = Cardinality(of(n))
                   /\ row(n).final = log[Max(of(n))][1].v.size
            /\ (\A k \in DOMAIN log : ~Has(log[k], "fp") /\ ~Has(log[k], "fault")
                                      /\ ~Has(log[k], "trace")) => at = seen

\* A crash is reported when the log has one, and it is the last one: its
\* addresses and process are those of one abort the kernel printed.
CrashFound ==
    report # None =>
        LET at == {k \in DOMAIN log : Tagged(log[k], "exc") /\ Has(log[k], "abort")}
        IN  IF at = {} THEN report.crash = None
            ELSE /\ report.crash # None /\ report.crash.line = Max(at)
                 /\ LET a == FirstOf(log[Max(at)], "abort")
                    IN  /\ report.crash.by = a.by
                        /\ <<report.crash.far, report.crash.elr>> = <<a.v.far, a.v.elr>>

\* When one CPU faults at a time, every register shown with a crash was printed
\* for that crash, and none of those printed right behind it is missing.
RegistersOwn ==
    report # None /\ report.crash # None =>
        LET c == report.crash
            own(k) == \A f \in Range(log[k]) : f.by = c.by
        IN  /\ \A r \in DOMAIN c.registers : c.registers[r] = c.by
            /\ (Len(log) >= c.line + 2 /\ own(c.line + 1) /\ own(c.line + 2)) =>
                   {"SPSR", "X0"} \subseteq DOMAIN c.registers

\* The rows shown are the largest writers: no inode left out has written more
\* than one that is shown.
TopWriters ==
    pc = "done" /\ "json" \in DOMAIN out =>
        \A top \in {out.json.top, out.text["writes"].top} :
            /\ \A w \in Range(report.writes) \ Range(top) : \A t \in Range(top) : w.total <= t.total
            /\ Len(out.text["writes"].top) + out.text["writes"].more = out.json.inodes

\* Text and JSON output agree on what was written, on time-outs and on idle
\* time, however few rows they show.
OutputsAgree ==
    pc = "done" /\ "json" \in DOMAIN out =>
        LET j == out.json
            w == out.text["writes"]
            n == out.text["nvme"]
            t == out.text["ticks"]
        IN  /\ j.total = w.total /\ j.total = n.total /\ j.ops = w.ops /\ j.inodes = w.inodes
            /\ j.disk = n.writes /\ j.timeouts = Len(n.timeouts)
            /\ j.ticks = n.ticks /\ j.idle = n.idle
            /\ (0 \in DOMAIN t => t[0] = j.idle)
            /\ FoldSet(LAMBDA p, a : a + t[p], 0, DOMAIN t) = j.ticks

\* A crash is called fixed only when the older log shows one and the newer
\* none, and the same only when both show the same addresses.
DiffTrue ==
    pc = "done" /\ "diff" \in DOMAIN out =>
        LET aborts(l) == {k \in DOMAIN l : Tagged(l[k], "exc") /\ Has(l[k], "abort")}
            v(l) == LET f == FirstOf(l[Max(aborts(l))], "abort").v IN <<f.far, f.elr>>
        IN  /\ out.diff.crash = "FIXED" <=> aborts(old) # {} /\ aborts(log) = {}
            /\ out.diff.crash = "SAME" =>
                   aborts(old) # {} /\ aborts(log) # {} /\ v(old) = v(log)
            /\ \A c \in Range(out.diff.changes) : c[3] = Cardinality(LinesWith(c[1]))

\* The warning that the system is stuck is printed exactly when the last ticks
\* the parser can see were idle ones.
StuckTrue ==
    pc = "done" /\ "json" \in DOMAIN out =>
        LET at == LinesWith("tick")
            last == {k \in at : Cardinality({j \in at : j > k}) < IDLE_WINDOW}
        IN  out.text["nvme"].stuck <=>
                Cardinality(at) > IDLE_WINDOW /\ \A k \in last : log[k][1].v.pid = 0

\* parse_syscall_trace: a trace that is printed without interruption is captured.
\* It is not: the arguments are printed without the prefix that is looked for.
TraceCaptured ==
    report # None =>
        \A k \in DOMAIN log :
            (/\ Tagged(log[k], "sc-trace") /\ k < Len(log) /\ Has(log[k + 1], "row")
             /\ \A f \in Range(log[k]) \cup Range(log[k + 1]) : f.by = log[k][1].by)
            => report.trace # <<>>

\* Report.errors, "crashes, aborts, timeouts": a fault that stops a CPU is among
\* the errors.  It is filed with the boot messages instead.
FaultReported ==
    report # None =>
        \A k \in LinesWith("exc") : Has(log[k], "fault") =>
            \E e \in Range(report.ev["error"]) : e.line = k

\* analyze_log: the log is a log, and each of its lines is counted and filed once.
LinesCounted == TypeOK /\ CountedOnce

\* parse_crash_block: the last crash is shown, with its own registers.
CrashShown == CrashFound /\ RegistersOwn

\* The outputs are true of the log and agree with each other.
OutputsTrue == TopWriters /\ OutputsAgree /\ StuckTrue
====
