---------------------------- MODULE SerialParse ----------------------------
(***************************************************************************)
(* parse-serial-log.py: what it makes of the lines of a serial log.        *)
(*                                                                         *)
(* A line is the sequence of the prints it consists of, because prints of  *)
(* several CPUs may share a line.  A print is a record:                    *)
(*   tag   the [tag] it begins with, or ""                                 *)
(*   ansi  whether an escape sequence stands in front of it                *)
(*   kind  what the patterns of the parser find in it                      *)
(*   v     the values of its fields                                        *)
(*   pre, nl  whether it begins, or ends, with a newline                   *)
(***************************************************************************)
EXTENDS Integers, Sequences, FiniteSets, FiniteSetsExt, SequencesExt

CONSTANTS TOP_TEXT,       \* 20 rows of writers and network lines in the text
          TOP_JSON,       \* 10 rows in the JSON output
          TOP_CHANGES,    \* 15 changed subsystems in a comparison
          IDLE_WINDOW     \* 5 ticks

None == [none |-> TRUE]

\* CATEGORY_MAP, 'other' for the rest.
Category(tag) ==
    CASE tag \in {"boot", "mmu", "pmm", "vmm", "cpu", "rng"} -> "boot"
      [] tag \in {"nvme", "pci", "gic", "gicv3", "gicv3-its", "timer", "wdog", "smp", "gpt",
                  "acpi"} -> "hw"
      [] tag \in {"ext2", "ext2-wr", "ext2-create", "ext3", "ext4", "ramfs", "stat-e",
                  "rename-e"} -> "fs"
      [] tag = "vfs-test" -> "test"
      [] tag \in {"init", "execve", "exit", "sched", "dp"} -> "process"
      [] tag \in {"gvnic", "net", "dhcp"} -> "net"
      [] tag \in {"exc", "sc-trace"} -> "error"
      [] tag = "tick" -> "tick"
      [] OTHER -> "other"

Lists == {"boot", "hw", "fs", "process", "net", "test", "error"}

EmptyReport == [total_lines |-> 0, ev |-> [c \in Lists |-> <<>>], ticks |-> <<>>,
                writes |-> <<>>, crash |-> None, counts |-> <<>>, trace |-> <<>>]

Marked(mark) == [mark |-> mark, text |-> ""]
Event(i, tag, details) == [line |-> i, sub |-> tag, details |-> details]
AddEvent(r, list, e) == [r EXCEPT !.ev[list] = Append(@, e)]

---------------------------------------------------------------------------
(* Lines *)

strip_ansi(line) == [k \in DOMAIN line |-> [line[k] EXCEPT !.ansi = FALSE]]

\* A tag counts only at the start of the line.
parse_subsystem_tag(line) ==
    IF line = <<>> \/ line[1].ansi THEN "" ELSE line[1].tag

Has(line, kind) == \E k \in DOMAIN line : line[k].kind = kind
FirstOf(line, kind) ==
    line[CHOOSE k \in DOMAIN line : line[k].kind = kind
                                    /\ \A j \in 1 .. k - 1 : line[j].kind # kind]

\* The register names that the patterns find with a value in a line; the last
\* occurrence of a name is kept.  The value is the message that printed it.
RegisterNames(line) == UNION {line[k].v.regs : k \in {k \in DOMAIN line : line[k].kind = "regs"}}
LastWith(line, r) ==
    line[CHOOSE k \in DOMAIN line :
            /\ line[k].kind = "regs" /\ r \in line[k].v.regs
            /\ \A j \in k + 1 .. Len(line) : ~(line[j].kind = "regs" /\ r \in line[j].v.regs)]
Registers(line) == [r \in RegisterNames(line) |-> LastWith(line, r).by]

\* The continuation of a crash ends before an empty line and before a line with
\* a bracket in front.
BlockEnd(lines, i) ==
    CHOOSE j \in i + 1 .. Len(lines) + 1 :
        LET ends(k) == lines[k] = <<>> \/ parse_subsystem_tag(lines[k]) # ""
        IN  /\ j = Len(lines) + 1 \/ ends(j)
            /\ \A k \in i + 1 .. j - 1 : ~ends(k)

\* The text behind "FP chain:".  It is split at an arrow that the kernel does
\* not print, so it stays one piece, with whatever else is on the line.
FpChain(line) ==
    LET k == CHOOSE k \in DOMAIN line : line[k].kind = "fp"
    IN  <<SubSeq(line, k, Len(line))>>

parse_crash_block(lines, i) ==
    LET a == FirstOf(lines[i], "abort")
        block == i + 1 .. BlockEnd(lines, i) - 1
        names == UNION {RegisterNames(lines[j]) : j \in block}
        chains == {j \in block : Has(lines[j], "fp")}
    IN  [far |-> a.v.far, elr |-> a.v.elr, pid |-> a.v.pid, by |-> a.by, line |-> i,
         registers |-> [r \in names |->
                          Registers(lines[Max({j \in block : r \in RegisterNames(lines[j])})])[r]],
         fp_chain |-> IF chains = {} THEN <<>> ELSE FpChain(lines[Max(chains)])]

\* The rows behind a [sc-trace] line, up to the first one that does not have
\* the form the parser expects: 0x in front of the arguments, on a line of its own.
Row(line) == Len(line) = 1 /\ line[1].kind = "row" /\ line[1].v.prefixed
parse_syscall_trace(lines, i) ==
    LET n == CHOOSE n \in 0 .. Len(lines) - i :
                 /\ \A k \in 1 .. n : Row(lines[i + k])
                 /\ i + n = Len(lines) \/ ~Row(lines[i + n + 1])
    IN  [k \in 1 .. n |-> lines[i + k][1].v]

---------------------------------------------------------------------------
(* analyze_log, one line at a time *)

\* Lines without a tag: firmware, boot loader and banner are kept.
UntaggedLine(r, line, i) ==
    IF Has(line, "uefi") THEN AddEvent(r, "boot", Event(i, "uefi", Marked("")))
    ELSE IF Has(line, "banner") THEN AddEvent(r, "boot", Event(i, "banner", Marked("")))
    ELSE r

CountTag(r, tag) ==
    [r EXCEPT !.counts = IF tag \in DOMAIN @ THEN [@ EXCEPT ![tag] = @ + 1]
                         ELSE [t \in DOMAIN @ \cup {tag} |-> IF t = tag THEN 1 ELSE @[t]]]

\* Mutant: a later write replaces the total.
AddWriteLast(row, w) == [row EXCEPT !.total = w.wrote, !.ops = @ + 1, !.final = w.size,
                                    !.disk = @ + w.wdisk]

\* parse_ext2_write and the sums kept for an inode.
AddWrite(row, w) == [row EXCEPT !.total = @ + w.wrote, !.ops = @ + 1, !.final = w.size,
                                !.disk = @ + w.wdisk]

\* The rows are in the order in which their inodes first appeared.
WriteLine(r, line) ==
    LET w == line[1].v
        new == [ino |-> w.ino, total |-> 0, ops |-> 0, final |-> 0, disk |-> 0]
        at == {k \in DOMAIN r.writes : r.writes[k].ino = w.ino}
    IN  [r EXCEPT !.writes = IF at = {} THEN Append(@, AddWrite(new, w))
                             ELSE [k \in DOMAIN @ |-> IF k \in at THEN AddWrite(@[k], w) ELSE @[k]]]

\* Mutant: the first crash is kept.
CrashLineFirst(r, lines, i) ==
    AddEvent([r EXCEPT !.crash = IF @ = None THEN parse_crash_block(lines, i) ELSE @],
             "error", Event(i, "exc", Marked("crash")))

\* A later crash replaces an earlier one.  The kernel prints the whole line of
\* an abort in one call, so the pattern always finds its fields.
CrashLine(r, lines, i) ==
    AddEvent([r EXCEPT !.crash = parse_crash_block(lines, i)],
             "error", Event(i, "exc", Marked("crash")))

TickLine(r, line, i) == [r EXCEPT !.ticks = Append(@, [line |-> i, pid |-> line[1].v.pid])]

\* Details that later output uses: the program of execve, the text of init.
Details(tag, line) == IF tag \in {"init", "execve", "exit"} THEN [mark |-> "", text |-> line[1].v.text]
                      ELSE Marked("")

\* Mutant: the line is also filed under hardware.
TimeoutLineTwice(r, i) ==
    LET e == Event(i, "nvme", Marked("nvme_timeout"))
    IN  AddEvent(AddEvent(r, "error", e), "hw", e)

TimeoutLine(r, i) == AddEvent(r, "error", Event(i, "nvme", Marked("nvme_timeout")))

\* A tagged line: the special cases in the order of the code, then the list of
\* its category.  Tags of no category are counted and dropped.
AnalyzeTag(r, lines, i, tag) ==
    LET line == lines[i]
    IN  CASE tag = "ext2-wr" -> WriteLine(r, line)
          [] tag = "exc" /\ ~Has(line, "abort") -> AddEvent(r, "boot", Event(i, tag, Marked("")))
          [] tag = "exc" /\ Has(line, "abort") -> CrashLine(r, lines, i)
          [] tag = "sc-trace" -> [r EXCEPT !.trace = parse_syscall_trace(lines, i)]
          [] tag = "nvme" /\ Has(line, "timeout") -> TimeoutLine(r, i)
          [] tag = "tick" -> TickLine(r, line, i)
          [] OTHER -> IF Category(tag) \in Lists
                      THEN AddEvent(r, Category(tag), Event(i, tag, Details(tag, line))) ELSE r

AnalyzeLine(r, lines, i) ==
    LET tag == parse_subsystem_tag(lines[i])
    IN  IF tag = "" THEN UntaggedLine(r, lines[i], i)
        ELSE AnalyzeTag(CountTag(r, tag), lines, i, tag)

analyze_log(file) ==
    LET lines == [k \in DOMAIN file |-> strip_ansi(file[k])]
    IN  FoldLeft(LAMBDA r, k : AnalyzeLine(r, lines, k),
                 [EmptyReport EXCEPT !.total_lines = Len(file)], [k \in DOMAIN file |-> k])

---------------------------------------------------------------------------
(* Output: what each section says of a report *)

First(s, n) == SubSeq(s, 1, IF Len(s) < n THEN Len(s) ELSE n)
LinesOf(es) == [k \in DOMAIN es |-> es[k].line]
SumOf(rows, field) == FoldLeft(LAMBDA a, row : a + row[field], 0, rows)
TotalBytes(r) == SumOf(r.writes, "total")
TotalOps(r) == SumOf(r.writes, "ops")
DiskWrites(r) == SumOf(r.writes, "disk")
Timeouts(r) == SelectSeq(r.ev["error"], LAMBDA e : e.details.mark = "nvme_timeout")
IdleTicks(r) == Cardinality({k \in DOMAIN r.ticks : r.ticks[k].pid = 0})

\* A stable sort by the keys of the rows, largest first.
LargestFirst(rows, key) ==
    LET at == SortSeq([k \in DOMAIN rows |-> k],
                      LAMBDA a, b : key[a] > key[b] \/ (key[a] = key[b] /\ a < b))
    IN  [k \in DOMAIN rows |-> rows[at[k]]]

\* The rows of write_summary are sorted when it is built.
Writers(r) == LargestFirst(r.writes, [k \in DOMAIN r.writes |-> r.writes[k].total])

\* How often each value of a field occurs.
Distribution(s, field) ==
    [v \in {s[k][field] : k \in DOMAIN s} |-> Cardinality({k \in DOMAIN s : s[k][field] = v})]

print_summary(r) ==
    [counts |-> r.counts, boot |-> LinesOf(r.ev["boot"]), hw |-> LinesOf(r.ev["hw"]),
     process |-> r.ev["process"], tests |-> LinesOf(r.ev["test"]),
     net |-> LinesOf(First(r.ev["net"], TOP_TEXT))]

print_writes(r) ==
    [total |-> TotalBytes(r), ops |-> TotalOps(r), inodes |-> Len(r.writes),
     top |-> First(Writers(r), TOP_TEXT),
     more |-> IF Len(r.writes) > TOP_TEXT THEN Len(r.writes) - TOP_TEXT ELSE 0]

\* The diagnosis goes by the digits of the fault address.
Diagnosis(c) ==
    CASE c.far = "0x0" /\ c.elr = "0x0" -> "corrupted context"
      [] c.far = "0xffffffff" -> "corrupted function pointer"
      [] c.far = "0x4..." -> "kernel address"
      [] c.far = "0x7..." -> "user address"
      [] OTHER -> "none"

print_errors(r) ==
    [errors |-> LinesOf(r.ev["error"]),
     crash |-> IF r.crash = None THEN None
               ELSE [analysis |-> r.crash, diagnosis |-> Diagnosis(r.crash)]]

print_syscalls(r) == [trace |-> r.trace, distribution |-> Distribution(r.trace, "nr")]

\* The warning that nothing but the idle process runs.
Stuck(ticks) ==
    /\ Len(ticks) > IDLE_WINDOW
    /\ \A k \in Len(ticks) - IDLE_WINDOW + 1 .. Len(ticks) : ticks[k].pid = 0

print_nvme(r) ==
    [writes |-> DiskWrites(r), total |-> TotalBytes(r), timeouts |-> LinesOf(Timeouts(r)),
     idle |-> IdleTicks(r), ticks |-> Len(r.ticks), stuck |-> Stuck(r.ticks)]

print_ticks(r) == Distribution(r.ticks, "pid")

\* Mutant: the totals are those of the rows shown.
print_json_top(r) ==
    LET top == First(Writers(r), TOP_JSON)
    IN  [counts |-> r.counts, errors |-> r.ev["error"], process |-> r.ev["process"],
         total |-> SumOf(top, "total"), ops |-> SumOf(top, "ops"),
         inodes |-> Len(r.writes), top |-> top,
         disk |-> DiskWrites(r), timeouts |-> Len(Timeouts(r)),
         ticks |-> Len(r.ticks), idle |-> IdleTicks(r), crash |-> r.crash, trace |-> r.trace]

print_json(r) ==
    [counts |-> r.counts, errors |-> r.ev["error"], process |-> r.ev["process"],
     total |-> TotalBytes(r), ops |-> TotalOps(r),
     inodes |-> Len(r.writes), top |-> First(Writers(r), TOP_JSON),
     disk |-> DiskWrites(r), timeouts |-> Len(Timeouts(r)),
     ticks |-> Len(r.ticks), idle |-> IdleTicks(r), crash |-> r.crash, trace |-> r.trace]

---------------------------------------------------------------------------
(* Comparison of two reports *)

Count(r, tag) == IF tag \in DOMAIN r.counts THEN r.counts[tag] ELSE 0
InitMessages(r) == {e.details.text : e \in {e \in Range(r.ev["process"]) : e.sub = "init"}}

Timeouts_marker(a, b) == IF a > 0 /\ b = 0 THEN "FIXED" ELSE IF b > a THEN "NEW" ELSE ""

\* Mutant: "FIXED" is also printed when neither log has a crash.
Crash_marker_loose(old, new) ==
    IF new = None THEN "FIXED"
    ELSE IF old = None THEN ""
    ELSE IF old.far # new.far \/ old.elr # new.elr THEN "DIFFERENT" ELSE "SAME"

Crash_marker(old, new) ==
    IF old # None /\ new = None THEN "FIXED"
    ELSE IF old = None \/ new = None THEN ""
    ELSE IF old.far # new.far \/ old.elr # new.elr THEN "DIFFERENT" ELSE "SAME"

Changes(old, new) ==
    LET tags == {t \in DOMAIN old.counts \cup DOMAIN new.counts : Count(old, t) # Count(new, t)}
        rows == FoldSet(LAMBDA t, s : Append(s, <<t, Count(old, t), Count(new, t)>>), <<>>, tags)
        size(x) == IF x[3] > x[2] THEN x[3] - x[2] ELSE x[2] - x[3]
    IN  First(LargestFirst(rows, [k \in DOMAIN rows |-> size(rows[k])]), TOP_CHANGES)

print_diff(old, new) ==
    [ops |-> TotalOps(new) - TotalOps(old), bytes |-> <<TotalBytes(old), TotalBytes(new)>>,
     timeouts |-> Timeouts_marker(Len(Timeouts(old)), Len(Timeouts(new))),
     crash |-> Crash_marker(old.crash, new.crash),
     changes |-> Changes(old, new),
     new_only |-> InitMessages(new) \ InitMessages(old),
     gone |-> InitMessages(old) \ InitMessages(new),
     idle |-> IF old.ticks # <<>> /\ new.ticks # <<>>
              THEN <<IdleTicks(old), IdleTicks(new)>> ELSE <<>>]

SECTIONS == {"summary", "boot", "writes", "crash", "nvme", "syscalls", "ticks"}
Section(r, s) ==
    CASE s \in {"summary", "boot"} -> print_summary(r)
      [] s = "writes" -> print_writes(r)
      [] s = "crash" -> print_errors(r)
      [] s = "nvme" -> print_nvme(r)
      [] s = "syscalls" -> print_syscalls(r)
      [] s = "ticks" -> print_ticks(r)
====
