------------------------------- MODULE Sched -------------------------------
(***************************************************************************)
(* The SMP scheduler of the aarch64 kernel (scheduler.zig) over the        *)
(* per-CPU run queues.  Only the queues have locks: the fields of a        *)
(* process (state, cpu_id, home_cpu, killed) are plain memory that every   *)
(* CPU reads and writes.  A CPU runs the kernel with interrupts masked,    *)
(* so one CPU never interrupts itself, but any other CPU may take a step   *)
(* between two of its stores.  pc[c] is the store or the locked section    *)
(* CPU c does next:                                                        *)
(*                                                                         *)
(*   run, halt, wait      interrupts enabled: executing current[c], the    *)
(*                        wfi of halt() or an idle secondary CPU, and the  *)
(*                        wfi in the loop at the end of blockAndSchedule   *)
(*   save leave next      blockAndSchedule up to its choice of a process   *)
(*   loop takeback        one turn of its idle loop                        *)
(*   off                  schedule(), for a process that is finished       *)
(*   timers orphans       timerTick: the scans of the process table, the   *)
(*   preempt requeue        choice of a process and the preemption of the  *)
(*     unpublish            current one                                    *)
(*   restore publish      the tail shared by switchTo and its copies       *)
(*   set enq              wakeProcess, makeRunnable and the scans: mark a  *)
(*                        process ready, then put it on a queue            *)
(*   zombie               the second store of a kill                       *)
(*   irqret               the end of handleIrqException                    *)
(*                                                                         *)
(* ctx[p] is a ghost: "saved" when the saved context of p is where p       *)
(* really stopped, "live" when p has run on from it.                       *)
(***************************************************************************)
EXTENDS RunQueue

CONSTANTS
    InitProc,   \* the process startFirst runs; the others are forked
    MaxLen,     \* bound on the length of a queue
    MaxEvents   \* bound on system calls and interrupts; 0 for no bound

ASSUME SchedAssumption == InitProc \in Proc /\ MaxLen \in Nat /\ MaxEvents \in Nat

VARIABLES
    state,      \* process -> "unused", "ready", "running", "blocked", "zombie"
    killed,     \* process -> the kill flag
    cpu_id,     \* process -> CPU running it, or -1
    home_cpu,   \* process -> CPU whose queue it is put on
    wake_tick,  \* process -> a wake-up timer is armed
    ctx,        \* ghost: process -> "saved" or "live"
    current,    \* CPU -> current_process, or Nil
    idle,       \* CPU -> the idle flag
    pc,         \* CPU -> what it does next
    reg,        \* CPU -> the process it works on (new_proc, p, fix_p)
    blk,        \* CPU -> old_proc of blockAndSchedule, Nil in schedule
    from,       \* CPU -> where the current interrupt was taken
    ret,        \* CPU -> where a shared sequence of stores returns to
    scan,       \* CPU -> processes the orphan scan has not visited
    sgi,        \* CPU -> a reschedule interrupt is pending
    dedicated,  \* CPU -> dedicated_pid, or Nil
    events      \* how many of MaxEvents have happened

procVars == <<state, killed, cpu_id, home_cpu, wake_tick, ctx>>
cpuVars == <<current, idle, pc, reg, blk, from, ret, scan, sgi>>
vars == <<rqVars, procVars, cpuVars, dedicated, events>>

State == {"unused", "ready", "running", "blocked", "zombie"}
IrqOn == {"run", "halt", "wait"}
Label == IrqOn \cup {"save", "leave", "next", "loop", "takeback", "off",
                     "timers", "orphans", "preempt", "requeue",
                     "unpublish", "restore", "publish", "set", "enq", "zombie",
                     "irqret"}

TypeOK ==
    /\ head \in [CPU -> Proc \cup {Nil}] /\ tail \in [CPU -> Proc \cup {Nil}]
    /\ len \in [CPU -> Int] /\ rq_next \in [Proc -> Proc \cup {Nil}]
    /\ state \in [Proc -> State] /\ killed \in [Proc -> BOOLEAN]
    /\ cpu_id \in [Proc -> CPU \cup {-1}] /\ home_cpu \in [Proc -> CPU]
    /\ wake_tick \in [Proc -> BOOLEAN] /\ ctx \in [Proc -> {"saved", "live"}]
    /\ current \in [CPU -> Proc \cup {Nil}] /\ idle \in [CPU -> BOOLEAN]
    /\ pc \in [CPU -> Label] /\ from \in [CPU -> IrqOn]
    /\ reg \in [CPU -> Proc \cup {Nil}] /\ blk \in [CPU -> Proc \cup {Nil}]
    /\ ret \in [CPU -> Label]
    /\ scan \in [CPU -> SUBSET Proc] /\ sgi \in [CPU -> BOOLEAN]
    /\ dedicated \in [CPU -> Proc \cup {Nil}]
    /\ events \in 0 .. MaxEvents

\* startFirst: CPU 0 runs the init process; the secondary CPUs idle in wfi.
Init ==
    /\ RQInit
    /\ state = [p \in Proc |-> IF p = InitProc THEN "running" ELSE "unused"]
    /\ killed = [p \in Proc |-> FALSE]
    /\ cpu_id = [p \in Proc |-> IF p = InitProc THEN 0 ELSE -1]
    /\ home_cpu = [p \in Proc |-> 0]
    /\ wake_tick = [p \in Proc |-> FALSE]
    /\ ctx = [p \in Proc |-> "live"]
    /\ current = [c \in CPU |-> IF c = 0 THEN InitProc ELSE Nil]
    /\ idle = [c \in CPU |-> c # 0]
    /\ pc = [c \in CPU |-> IF c = 0 THEN "run" ELSE "halt"]
    /\ reg = [c \in CPU |-> Nil]
    /\ blk = [c \in CPU |-> Nil]
    /\ from = [c \in CPU |-> "run"]
    /\ ret = [c \in CPU |-> "run"]
    /\ scan = [c \in CPU |-> {}]
    /\ sgi = [c \in CPU |-> FALSE]
    /\ dedicated = [c \in CPU |-> Nil]
    /\ events = 0

At(c, l) == pc[c] = l
Goto(c, l) == pc' = [pc EXCEPT ![c] = l]
Return(c, l) == ret' = [ret EXCEPT ![c] = l]

-----------------------------------------------------------------------------
(* Choosing the next process.                                              *)

\* dequeueLocal: the first process of the CPU's own queue.
DequeueLocal(c) ==
    /\ head[c] # Nil
    /\ dequeueUnlocked(c)
    /\ reg' = [reg EXCEPT ![c] = head[c]]
    /\ UNCHANGED home_cpu

\* Called when the own queue is empty.  The unlocked reads of the lengths and
\* the check under the lock are one step: with two CPUs there is one victim.
TrySteal(c) ==
    /\ head[c] = Nil
    /\ \E b \in CPU :
          /\ Busiest(c, b) /\ head[b] # Nil
          /\ dequeueUnlocked(b)
          /\ reg' = [reg EXCEPT ![c] = head[b]]
          /\ home_cpu' = [home_cpu EXCEPT ![head[b]] = c]

NothingToRun(c) ==
    /\ head[c] = Nil
    /\ ~ \E b \in CPU : Busiest(c, b) /\ head[b] # Nil

\* restoreContext and state = .running: the first half of switchTo.
Restore(c) ==
    /\ At(c, "restore")
    /\ ctx' = [ctx EXCEPT ![reg[c]] = "live"]
    /\ state' = [state EXCEPT ![reg[c]] = "running"]
    /\ Goto(c, "publish")
    /\ UNCHANGED <<rqVars, killed, cpu_id, home_cpu, wake_tick, current, idle,
                   reg, blk, from, ret, scan, sgi>>

\* cpu_id and the CPU's own record: the second half of switchTo.
Publish(c) ==
    /\ At(c, "publish")
    /\ cpu_id' = [cpu_id EXCEPT ![reg[c]] = c]
    /\ current' = [current EXCEPT ![c] = reg[c]]
    /\ idle' = [idle EXCEPT ![c] = FALSE]
    /\ reg' = [reg EXCEPT ![c] = Nil]
    /\ blk' = [blk EXCEPT ![c] = Nil]
    /\ Goto(c, ret[c]) /\ Return(c, "run")
    /\ UNCHANGED <<rqVars, state, killed, home_cpu, wake_tick, ctx, from, scan, sgi>>

-----------------------------------------------------------------------------
(* Blocking.                                                               *)

\* A system call finds nothing to do: it marks its process blocked (with or
\* without a timeout) and calls blockAndSchedule.
Block(c) ==
    /\ At(c, "run")
    /\ state' = [state EXCEPT ![current[c]] = "blocked"]
    /\ \E t \in BOOLEAN : wake_tick' = [wake_tick EXCEPT ![current[c]] = t]
    /\ Goto(c, "save")
    /\ UNCHANGED <<rqVars, killed, cpu_id, home_cpu, ctx, current, idle, reg,
                   blk, from, ret, scan, sgi>>

Save(c) ==
    /\ At(c, "save")
    /\ ctx' = [ctx EXCEPT ![current[c]] = "saved"]
    /\ Goto(c, "leave")
    /\ UNCHANGED <<rqVars, state, killed, cpu_id, home_cpu, wake_tick, current,
                   idle, reg, blk, from, ret, scan, sgi>>

\* cpu_id = -1 and the check of the kill flag.
Leave(c) ==
    /\ At(c, "leave")
    /\ cpu_id' = [cpu_id EXCEPT ![current[c]] = -1]
    /\ state' = [state EXCEPT ![current[c]] = IF killed[current[c]] THEN "zombie" ELSE @]
    /\ blk' = [blk EXCEPT ![c] = current[c]]
    /\ Return(c, "run")
    /\ Goto(c, "next")
    /\ UNCHANGED <<rqVars, killed, home_cpu, wake_tick, ctx, current, idle, reg,
                   from, scan, sgi>>

\* Local queue, then stealing, then idle: in the loop of blockAndSchedule if
\* it was called, in halt() if schedule was.
NextProcess(c) ==
    /\ At(c, "next")
    /\ \/ /\ DequeueLocal(c) \/ TrySteal(c)
          /\ Goto(c, "restore")
          /\ UNCHANGED <<current, idle>>
       \/ /\ NothingToRun(c)
          /\ current' = [current EXCEPT ![c] = Nil]
          /\ idle' = [idle EXCEPT ![c] = TRUE]
          /\ Goto(c, IF blk[c] = Nil THEN "halt" ELSE "wait")
          /\ UNCHANGED <<rqVars, reg, home_cpu>>
    /\ UNCHANGED <<state, killed, cpu_id, wake_tick, ctx, blk, from, ret, scan, sgi>>

\* One turn of the idle loop after an interrupt: the blocked process itself
\* was woken, or the local queue or another queue has a process.
Loop(c) ==
    /\ At(c, "loop")
    /\ Return(c, "run")
    /\ \/ /\ state[blk[c]] = "ready" /\ cpu_id[blk[c]] = -1
          /\ Goto(c, "takeback")
          /\ UNCHANGED <<rqVars, reg, home_cpu>>
       \/ /\ ~ (state[blk[c]] = "ready" /\ cpu_id[blk[c]] = -1)
          /\ \/ (DequeueLocal(c) \/ TrySteal(c)) /\ Goto(c, "restore")
             \/ NothingToRun(c) /\ Goto(c, "wait") /\ UNCHANGED <<rqVars, reg, home_cpu>>
    /\ UNCHANGED <<state, killed, cpu_id, wake_tick, ctx, current, idle, blk,
                   from, scan, sgi>>

TakeBack(c) ==
    /\ At(c, "takeback")
    /\ removeFromQueue(home_cpu[blk[c]], blk[c])
    /\ reg' = [reg EXCEPT ![c] = blk[c]]
    /\ Goto(c, "restore")
    /\ UNCHANGED <<procVars, current, idle, blk, from, ret, scan, sgi>>

-----------------------------------------------------------------------------
(* Ending.                                                                 *)

\* sysExit marks its process a zombie and calls schedule.
Exit(c) ==
    /\ At(c, "run")
    /\ state' = [state EXCEPT ![current[c]] = "zombie"]
    /\ Goto(c, "off")
    /\ UNCHANGED <<rqVars, killed, cpu_id, home_cpu, wake_tick, ctx, current,
                   idle, reg, blk, from, ret, scan, sgi>>

\* schedule(): the process is off its CPU.
Off(c) ==
    /\ At(c, "off")
    /\ cpu_id' = [cpu_id EXCEPT ![current[c]] = -1]
    /\ current' = [current EXCEPT ![c] = Nil]
    /\ blk' = [blk EXCEPT ![c] = Nil]
    /\ Return(c, "run")
    /\ Goto(c, "next")
    /\ UNCHANGED <<rqVars, state, killed, home_cpu, wake_tick, ctx, idle, reg,
                   from, scan, sgi>>

\* killThreadGroup and sysExitGroup, for one thread p of the group: the kill
\* flag is set before the state.
Kill(c, p) ==
    /\ At(c, "run") /\ p # current[c] /\ state[p] \notin {"unused", "zombie"}
    /\ killed' = [killed EXCEPT ![p] = TRUE]
    /\ reg' = [reg EXCEPT ![c] = p]
    /\ Goto(c, "zombie")
    /\ UNCHANGED <<rqVars, state, cpu_id, home_cpu, wake_tick, ctx, current,
                   idle, blk, from, ret, scan, sgi>>

MarkZombie(c) ==
    /\ At(c, "zombie")
    /\ state' = [state EXCEPT ![reg[c]] = "zombie"]
    /\ sgi' = IF cpu_id[reg[c]] # -1 THEN [sgi EXCEPT ![cpu_id[reg[c]]] = TRUE] ELSE sgi
    /\ reg' = [reg EXCEPT ![c] = Nil]
    /\ Goto(c, "run")
    /\ UNCHANGED <<rqVars, killed, cpu_id, home_cpu, wake_tick, ctx, current,
                   idle, blk, from, ret, scan>>

-----------------------------------------------------------------------------
(* Waking and creating processes.                                          *)

\* Where an interrupt taken at label l returns to.
AfterIrq(l) == CASE l = "run" -> "irqret" [] l = "halt" -> "halt" [] l = "wait" -> "loop"

\* wakeProcess, from a system call or from a device interrupt: the test of
\* the state.  The stores follow in SetReady and Enqueue.
Wake(c, p) ==
    /\ pc[c] \in IrqOn
    /\ state[p] = "blocked"
    /\ reg' = [reg EXCEPT ![c] = p]
    /\ \E l \in {pc[c], AfterIrq(pc[c])} :
          /\ pc[c] # "run" => l = AfterIrq(pc[c])
          /\ Return(c, l)
    /\ Goto(c, "set")
    /\ UNCHANGED <<rqVars, procVars, current, idle, blk, from, scan, sgi>>

\* fork and clone: the child's context is complete; makeRunnable gives it the
\* least loaded CPU.
Fork(c, p) ==
    /\ At(c, "run") /\ state[p] = "unused"
    /\ state' = [state EXCEPT ![p] = "blocked"]
    /\ home_cpu' = [home_cpu EXCEPT ![p] = leastLoadedCpu]
    /\ ctx' = [ctx EXCEPT ![p] = "saved"]
    /\ reg' = [reg EXCEPT ![c] = p]
    /\ Return(c, "run")
    /\ Goto(c, "set")
    /\ UNCHANGED <<rqVars, killed, cpu_id, wake_tick, current, idle, blk, from,
                   scan, sgi>>

SetReady(c) ==
    /\ At(c, "set")
    /\ state' = [state EXCEPT ![reg[c]] = "ready"]
    /\ Goto(c, "enq")
    /\ UNCHANGED <<rqVars, killed, cpu_id, home_cpu, wake_tick, ctx, current,
                   idle, reg, blk, from, ret, scan, sgi>>

\* Put the process on the queue of its home CPU.  wakeProcess and makeRunnable
\* then interrupt that CPU if it is another one and idle; the scans of
\* timerTick (ret is "timers" or "orphans") do not.
Enqueue(c) ==
    LET target == home_cpu[reg[c]]
    IN  /\ At(c, "enq")
        /\ len[target] < MaxLen
        /\ enqueueUnlocked(target, reg[c])
        /\ sgi' = IF /\ ret[c] \notin {"timers", "orphans"}
                     /\ target # c /\ idle[target]
                  THEN [sgi EXCEPT ![target] = TRUE] ELSE sgi
        /\ reg' = [reg EXCEPT ![c] = Nil]
        /\ Goto(c, ret[c]) /\ Return(c, "run")
        /\ UNCHANGED <<procVars, current, idle, blk, from, scan>>

-----------------------------------------------------------------------------
(* Interrupts.                                                             *)

\* The timer interrupt that ends a time slice.
Tick(c) ==
    /\ pc[c] \in IrqOn
    /\ from' = [from EXCEPT ![c] = pc[c]]
    /\ Goto(c, "timers")
    /\ UNCHANGED <<rqVars, procVars, current, idle, reg, blk, ret, scan, sgi>>

\* The reschedule interrupt: ends the slice of an idle CPU or of a CPU whose
\* process was killed, and otherwise does nothing.
Sgi(c) ==
    LET dying == current[c] # Nil /\ (state[current[c]] = "zombie" \/ killed[current[c]])
    IN  /\ pc[c] \in IrqOn /\ sgi[c]
        /\ sgi' = [sgi EXCEPT ![c] = FALSE]
        /\ state' = IF dying THEN [state EXCEPT ![current[c]] = "zombie"] ELSE state
        /\ IF dying \/ idle[c]
           THEN from' = [from EXCEPT ![c] = pc[c]] /\ Goto(c, "timers")
           ELSE Goto(c, AfterIrq(pc[c])) /\ UNCHANGED from
        /\ UNCHANGED <<rqVars, killed, cpu_id, home_cpu, wake_tick, ctx, current,
                       idle, reg, blk, ret, scan>>

\* checkWakeTicks: the sleepers of this CPU whose time has come (time itself
\* is not modelled: an armed timer may be due at any tick).
WakeTimer(c) ==
    /\ At(c, "timers")
    /\ \E p \in Proc :
          /\ home_cpu[p] = c /\ wake_tick[p] /\ state[p] = "blocked"
          /\ wake_tick' = [wake_tick EXCEPT ![p] = FALSE]
          /\ reg' = [reg EXCEPT ![c] = p]
    /\ Return(c, "timers")
    /\ Goto(c, "set")
    /\ UNCHANGED <<rqVars, state, killed, cpu_id, home_cpu, ctx, current, idle,
                   blk, from, scan, sgi>>

TimersDone(c) ==
    /\ At(c, "timers")
    /\ scan' = [scan EXCEPT ![c] = Proc]
    /\ Goto(c, "orphans")
    /\ UNCHANGED <<rqVars, procVars, current, idle, reg, blk, from, ret, sgi>>

Orphan(p) == state[p] = "running" /\ cpu_id[p] = -1

\* The scan for processes in state running that no CPU claims.
FixOrphan(c) ==
    /\ At(c, "orphans")
    /\ \E p \in scan[c] :
          /\ Orphan(p)
          /\ scan' = [scan EXCEPT ![c] = @ \ {p}]
          /\ reg' = [reg EXCEPT ![c] = p]
    /\ Return(c, "orphans")
    /\ Goto(c, "set")
    /\ UNCHANGED <<rqVars, procVars, current, idle, blk, from, sgi>>

\* SCHED_DEDICATED: the CPU runs the process it is dedicated to.
Held(c) == dedicated[c] # Nil /\ current[c] = dedicated[c]

\* The choice of timerTick.  An idle CPU takes a process if there is one; a
\* CPU in user mode is preempted only by a process of its own queue, and not at
\* all while its dedicated process runs.
Pick(c) ==
    /\ At(c, "orphans")
    /\ \A p \in scan[c] : ~ Orphan(p)
    /\ scan' = [scan EXCEPT ![c] = {}]
    /\ from' = [from EXCEPT ![c] = "run"]
    /\ \/ /\ from[c] # "run"
          /\ \/ /\ DequeueLocal(c) \/ TrySteal(c)
                /\ Return(c, "irqret") /\ Goto(c, "restore")
             \/ /\ NothingToRun(c)
                /\ Return(c, "run") /\ Goto(c, AfterIrq(from[c]))
                /\ UNCHANGED <<rqVars, reg, home_cpu>>
          /\ UNCHANGED <<cpu_id, current, idle>>
       \/ /\ from[c] = "run" /\ Held(c)
          /\ Return(c, "run") /\ Goto(c, "irqret")
          /\ UNCHANGED <<rqVars, reg, home_cpu, cpu_id, current, idle>>
       \/ /\ from[c] = "run" /\ ~ Held(c)
          /\ DequeueLocal(c)
          /\ Return(c, "irqret") /\ Goto(c, "preempt")
          /\ UNCHANGED <<cpu_id, current, idle>>
       \/ /\ from[c] = "run" /\ ~ Held(c) /\ head[c] = Nil
          /\ IF state[current[c]] = "zombie"
             THEN /\ cpu_id' = [cpu_id EXCEPT ![current[c]] = -1]
                  /\ current' = [current EXCEPT ![c] = Nil]
                  /\ idle' = [idle EXCEPT ![c] = TRUE]
                  /\ Goto(c, "halt")
             ELSE Goto(c, "irqret") /\ UNCHANGED <<cpu_id, current, idle>>
          /\ Return(c, "run")
          /\ UNCHANGED <<rqVars, reg, home_cpu>>
    /\ UNCHANGED <<state, killed, wake_tick, ctx, blk, sgi>>

\* Mutant: the preempted process is queued without saving its context.
Preempt_noSave(c) ==
    LET old == current[c]
    IN  /\ At(c, "preempt")
        /\ IF state[old] = "running"
           THEN state' = [state EXCEPT ![old] = "ready"] /\ Goto(c, "requeue")
           ELSE Goto(c, "unpublish") /\ UNCHANGED state
        /\ UNCHANGED <<rqVars, killed, cpu_id, home_cpu, wake_tick, ctx, current,
                       idle, reg, blk, from, ret, scan, sgi>>

\* timerTick saves the old process and marks it ready.
Preempt(c) ==
    LET old == current[c]
    IN  /\ At(c, "preempt")
        /\ ctx' = [ctx EXCEPT ![old] = "saved"]
        /\ IF state[old] = "running"
           THEN state' = [state EXCEPT ![old] = "ready"] /\ Goto(c, "requeue")
           ELSE Goto(c, "unpublish") /\ UNCHANGED state
        /\ UNCHANGED <<rqVars, killed, cpu_id, home_cpu, wake_tick, current,
                       idle, reg, blk, from, ret, scan, sgi>>

\* Mutant: the preempted process is forgotten.
Requeue_drop(c) ==
    /\ At(c, "requeue")
    /\ Goto(c, "unpublish")
    /\ UNCHANGED <<rqVars, procVars, current, idle, reg, blk, from, ret, scan, sgi>>

Requeue(c) ==
    /\ At(c, "requeue")
    /\ len[c] < MaxLen
    /\ enqueueUnlocked(c, current[c])
    /\ Goto(c, "unpublish")
    /\ UNCHANGED <<procVars, current, idle, reg, blk, from, ret, scan, sgi>>

Unpublish(c) ==
    /\ At(c, "unpublish")
    /\ cpu_id' = [cpu_id EXCEPT ![current[c]] = -1]
    /\ Goto(c, "restore")
    /\ UNCHANGED <<rqVars, state, killed, home_cpu, wake_tick, ctx, current,
                   idle, reg, blk, from, ret, scan, sgi>>

\* The end of handleIrqException: a killed process does not return to user mode.
IrqReturn(c) ==
    /\ At(c, "irqret")
    /\ IF killed[current[c]] \/ state[current[c]] = "zombie"
       THEN state' = [state EXCEPT ![current[c]] = "zombie"] /\ Goto(c, "off")
       ELSE Goto(c, "run") /\ UNCHANGED state
    /\ UNCHANGED <<rqVars, killed, cpu_id, home_cpu, wake_tick, ctx, current,
                   idle, reg, blk, from, ret, scan, sgi>>

-----------------------------------------------------------------------------
(* Dedicating a CPU to a process.                                          *)

\* sched_dedicate: the caller gets the CPU it runs on, unless that CPU has been
\* given away.  No exit path takes it back.
Dedicate(c) ==
    /\ At(c, "run") /\ dedicated[c] = Nil
    /\ dedicated' = [dedicated EXCEPT ![c] = current[c]]
    /\ UNCHANGED <<rqVars, procVars, cpuVars>>

\* sched_release, by whichever process runs on the CPU.
Release(c) ==
    /\ At(c, "run")
    /\ dedicated' = [dedicated EXCEPT ![c] = Nil]
    /\ UNCHANGED <<rqVars, procVars, cpuVars>>

-----------------------------------------------------------------------------
\* The steps of a CPU that is inside the kernel.
Kernel(c) ==
    \/ Restore(c) \/ Publish(c) \/ Save(c) \/ Leave(c) \/ NextProcess(c)
    \/ Loop(c) \/ TakeBack(c) \/ Off(c) \/ MarkZombie(c) \/ SetReady(c)
    \/ Enqueue(c) \/ WakeTimer(c) \/ TimersDone(c) \/ FixOrphan(c)
    \/ Pick(c) \/ Preempt(c) \/ Requeue(c) \/ Unpublish(c)
    \/ IrqReturn(c)

\* System calls, device interrupts and timer interrupts.
Environment(c) ==
    /\ MaxEvents > 0 => events < MaxEvents
    /\ events' = IF MaxEvents > 0 THEN events + 1 ELSE 0
    /\ \/ /\ \/ Block(c)
             \/ Exit(c)
             \/ \E p \in Proc : Kill(c, p)
             \/ \E p \in Proc : Wake(c, p)
             \/ \E p \in Proc : Fork(c, p)
             \/ Tick(c)
          /\ UNCHANGED dedicated
       \/ Dedicate(c)
       \/ Release(c)

Next == \E c \in CPU : \/ Environment(c)
                       \/ (Kernel(c) \/ Sgi(c)) /\ UNCHANGED <<dedicated, events>>

Spec == Init /\ [][Next]_vars

\* The kernel runs on, and a pending timer or reschedule interrupt is taken
\* some time after interrupts are enabled, even if they are only enabled from
\* time to time: it stays pending meanwhile.
FairSpec ==
    /\ Spec
    /\ \A c \in CPU : /\ WF_vars(Kernel(c) /\ UNCHANGED <<dedicated, events>>)
                      /\ SF_vars(Tick(c) /\ UNCHANGED <<dedicated, events>>)
                      /\ SF_vars(Sgi(c) /\ UNCHANGED <<dedicated, events>>)

-----------------------------------------------------------------------------
(* Properties.                                                             *)

\* The processes found by following rq_next from the head of queue c.
Node(c) == LET w[i \in 1 .. Cardinality(Proc) + 1] ==
                   IF i = 1 THEN head[c] ELSE IF w[i - 1] = Nil THEN Nil ELSE rq_next[w[i - 1]]
           IN  w
Listed(c) == {i \in DOMAIN Node(c) : Node(c)[i] # Nil}
OnQueue(p) == {<<c, i>> \in CPU \X (1 .. Cardinality(Proc) + 1) :
                  i \in Listed(c) /\ Node(c)[i] = p}

\* A CPU is about to put p on a queue, or has just taken it off one to run it.
InTransit(p) == \E c \in CPU :
    \/ pc[c] \in {"enq", "preempt", "unpublish", "restore", "requeue"} /\ reg[c] = p
    \/ pc[c] = "requeue" /\ current[c] = p

\* scheduler.zig: no process is lost and none is scheduled twice: a ready
\* process is on exactly one queue, once, unless a CPU is moving it at this
\* moment, and a process on a queue is ready or was killed there.
ReadyIsQueued ==
    \A p \in Proc :
        /\ Cardinality(OnQueue(p)) <= 1
        /\ state[p] = "ready" => (OnQueue(p) # {}) # InTransit(p)
        /\ OnQueue(p) # {} => state[p] = "ready" \/ killed[p]

\* scheduler.zig saveContext, restoreContext: a CPU resumes a process only
\* from the point where it last stopped.
ResumesWhereStopped == \A c \in CPU : At(c, "restore") => ctx[reg[c]] = "saved"

\* process.zig: "CPU currently running this process (-1 = not running)".
CpuIdTrue == \A c \in CPU : At(c, "run") => cpu_id[current[c]] = c

\* process.zig, of rq_next: "null when not on any runqueue (running, blocked,
\* or zombie)": a zombie is on no run queue.
ZombieOffQueue == \A p \in Proc : state[p] = "zombie" => OnQueue(p) = {}

\* process.zig, of killed: "it survives the race where a mid-syscall thread
\* sets a blocked state after killThreadGroup has marked it zombie".  A killed
\* process is left blocked only while its killer has yet to store zombie or
\* its own CPU has yet to look at the flag.
KilledNotBlocked ==
    \A p \in Proc : killed[p] /\ state[p] = "blocked" =>
        \E c \in CPU : \/ At(c, "zombie") /\ reg[c] = p
                       \/ pc[c] \in {"save", "leave"} /\ current[c] = p

\* A process never leaves a CPU again, and every time slice that ends finds the
\* CPU dedicated to it.
KeptFor(c, q) == <>[](current[c] = q /\ (At(c, "orphans") => Held(c)))

\* scheduler.zig timerTick: round robin starves no one; a process that is made
\* ready runs, unless it is killed first or some process keeps a CPU for ever by
\* being its dedicated process at the end of every time slice.
ReadyRuns ==
    \/ \A p \in Proc : state[p] = "ready" ~> (killed[p] \/ \E c \in CPU : current[c] = p)
    \/ \E c \in CPU, q \in Proc : KeptFor(c, q)

\* exception.zig handleIrqException, blockAndSchedule: a killed process leaves
\* its CPU and does not come back for good.
KilledStops == \A p \in Proc : <>[](killed[p] => \A c \in CPU : current[c] # p)

\* scheduler.zig: a ready process is on exactly the queue it should be on, and a
\* running one knows its CPU.
Placed == TypeOK /\ ReadyIsQueued /\ CpuIdTrue
=============================================================================
