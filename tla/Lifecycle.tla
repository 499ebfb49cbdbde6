----------------------------- MODULE Lifecycle -----------------------------
(***************************************************************************)
(* The life of processes and threads on aarch64: clone, exit and wait4     *)
(* (syscall.zig) over the process table with its free list (process.zig).  *)
(* Only findFreeSlot and allocPid take proc_lock; everything else is plain *)
(* stores, so each system call is split where another CPU can come in.     *)
(* At most Cpus processes are inside the kernel at a time, and the kernel  *)
(* is not preemptible: with one CPU a system call runs to its end.         *)
(*                                                                         *)
(* Scheduling is reduced to "live" (ready or running), "blocked_on_wait"   *)
(* and "zombie".  An address space is named by the process it was made for.*)
(***************************************************************************)
EXTENDS Integers, Sequences, FiniteSets

CONSTANTS
    Slots,      \* MAX_PROCESSES
    MaxPid,     \* bound on the pids given out
    Cpus,
    Threads,    \* whether programs use CLONE_VM, with or without CLONE_THREAD
    NoMemory    \* whether the allocations of clone may fail

Slot == 0 .. Slots - 1
Pid == 1 .. MaxPid
InitPid == 1
Null == -1

ASSUME LifecycleAssumption ==
    /\ Slots \in Nat \ {0} /\ MaxPid \in Nat \ {0} /\ Cpus \in Nat \ {0}
    /\ Threads \in BOOLEAN /\ NoMemory \in BOOLEAN

VARIABLES
    proc,           \* slot -> fields of the process in it
    slot_in_use,
    free_head, free_next,
    next_pid,
    space,          \* address space -> "none", "live", "empty" (no user pages), "freed"
    pc,             \* process -> what it does next
    my,             \* process -> the slot its CPU has as the current process
    reg,            \* process -> the slot it is creating or reaping
    new_pt,         \* process -> it has made an address space for its child
    wait_pid,       \* process -> the child wait4 is for, 0 for any
    thread          \* ghost: process -> it was made with CLONE_THREAD

table == <<proc, slot_in_use>>
freeList == <<free_head, free_next>>
hands == <<new_pt, wait_pid, thread>>
vars == <<table, freeList, next_pid, space, pc, my, reg, hands>>

TypeOK ==
    /\ proc \in [Slot -> [pid : 0 .. MaxPid, tgid : 0 .. MaxPid, parent : 0 .. MaxPid,
                          pt : 0 .. MaxPid, state : {"live", "blocked_on_wait", "zombie"}]]
    /\ slot_in_use \in [Slot -> BOOLEAN]
    /\ free_head \in Slot \cup {Null} /\ free_next \in [Slot -> Slot \cup {Null}]
    /\ next_pid \in 1 .. MaxPid + 1
    /\ space \in [Pid -> {"none", "live", "empty", "freed"}]
    /\ pc \in [Pid -> {"none", "user", "fork", "kstack", "vm", "clone", "reparent", "wakeInit",
                       "userPages", "wakeParent", "schedule", "scan", "shared", "destroy",
                       "keep", "clearSlot", "push", "block", "asleep", "gone"}]
    /\ my \in [Pid -> Slot \cup {Null}] /\ reg \in [Pid -> Slot \cup {Null}]

HandsOK ==
    /\ new_pt \in [Pid -> BOOLEAN] /\ wait_pid \in [Pid -> 0 .. MaxPid]
    /\ thread \in [Pid -> BOOLEAN]

Empty == [pid |-> 0, tgid |-> 0, parent |-> 0, pt |-> 0, state |-> "live"]

\* The init process runs alone.
Init ==
    /\ proc = [s \in Slot |-> IF s = 0 THEN [pid |-> 1, tgid |-> 1, parent |-> 0, pt |-> 1,
                                             state |-> "live"] ELSE Empty]
    /\ slot_in_use = [s \in Slot |-> s = 0]
    /\ free_head = IF Slots > 1 THEN 1 ELSE Null
    /\ free_next = [s \in Slot |-> IF s = 0 \/ s = Slots - 1 THEN Null ELSE s + 1]
    /\ next_pid = 2
    /\ space = [p \in Pid |-> IF p = 1 THEN "live" ELSE "none"]
    /\ pc = [p \in Pid |-> IF p = 1 THEN "user" ELSE "none"]
    /\ my = [p \in Pid |-> IF p = 1 THEN 0 ELSE Null]
    /\ reg = [p \in Pid |-> Null]
    /\ new_pt = [p \in Pid |-> FALSE] /\ wait_pid = [p \in Pid |-> 0]
    /\ thread = [p \in Pid |-> FALSE]

-----------------------------------------------------------------------------
At(p, l) == pc[p] = l
Goto(p, l) == pc' = [pc EXCEPT ![p] = l]

InKernel(p) == pc[p] \notin {"none", "user", "asleep", "gone"}
CpuFree == Cardinality({p \in Pid : InKernel(p)}) < Cpus

\* The fields of the process the CPU of p has as the current one.
Me(p) == proc[my[p]]
SlotOf(pid) == {s \in Slot : slot_in_use[s] /\ proc[s].pid = pid}

\* Mutant: the slot is read but left on the free list.
findFreeSlot_peek(p) ==
    /\ free_head # Null
    /\ reg' = [reg EXCEPT ![p] = free_head]
    /\ UNCHANGED freeList

\* findFreeSlot, under proc_lock.
findFreeSlot(p) ==
    /\ free_head # Null
    /\ reg' = [reg EXCEPT ![p] = free_head]
    /\ free_head' = free_next[free_head]
    /\ free_next' = [free_next EXCEPT ![free_head] = Null]

\* clone: a new process or, with CLONE_VM, one that shares the address space of
\* its parent, as a thread of it (CLONE_THREAD) or not.
Clone(p) ==
    /\ At(p, "user") /\ CpuFree /\ next_pid <= MaxPid
    /\ findFreeSlot(p)
    /\ \E l \in {"fork", "vm", "clone"} : (l # "fork" => Threads) /\ Goto(p, l)
    /\ UNCHANGED <<table, next_pid, space, my, hands>>

\* -ENOMEM: the slot is not given back.
CloneFails(p) ==
    /\ NoMemory
    /\ Goto(p, "user")
    /\ reg' = [reg EXCEPT ![p] = Null]
    /\ UNCHANGED <<table, freeList, next_pid, space, my, wait_pid, thread>>

\* forkAddressSpace.
ForkSpace(p) ==
    /\ At(p, "fork")
    /\ \/ /\ Goto(p, "kstack")
          /\ new_pt' = [new_pt EXCEPT ![p] = TRUE]
          /\ UNCHANGED <<table, freeList, next_pid, space, my, reg, wait_pid, thread>>
       \/ CloneFails(p) /\ UNCHANGED new_pt

\* The kernel stack cannot be allocated: fork destroys the address space.
StackFails(p) ==
    /\ At(p, "kstack") \/ At(p, "vm") \/ At(p, "clone")
    /\ CloneFails(p)
    /\ new_pt' = [new_pt EXCEPT ![p] = FALSE]

\* allocPid, initSlotForFork or initSlotForClone, registerPid, makeRunnable.
CloneDone(p) ==
    LET new == next_pid
        s   == reg[p]
        fork == At(p, "kstack")
    IN  /\ At(p, "kstack") \/ At(p, "vm") \/ At(p, "clone")
        /\ new <= MaxPid
        /\ next_pid' = new + 1
        /\ slot_in_use' = [slot_in_use EXCEPT ![s] = TRUE]
        /\ proc' = [proc EXCEPT ![s] = [pid |-> new, parent |-> p, state |-> "live",
                                        tgid |-> IF At(p, "clone") THEN Me(p).tgid ELSE new,
                                        pt |-> IF fork THEN new ELSE Me(p).pt]]
        /\ space' = IF fork THEN [space EXCEPT ![new] = "live"] ELSE space
        /\ pc' = [pc EXCEPT ![p] = "user", ![new] = "user"]
        /\ my' = [my EXCEPT ![new] = s]
        /\ reg' = [reg EXCEPT ![p] = Null]
        /\ new_pt' = [new_pt EXCEPT ![p] = FALSE]
        /\ thread' = [thread EXCEPT ![new] = At(p, "clone")]
        /\ UNCHANGED <<freeList, wait_pid>>

-----------------------------------------------------------------------------
(* sysExit.                                                                *)

Exit(p) ==
    /\ At(p, "user") /\ CpuFree /\ p # InitPid
    /\ proc' = [proc EXCEPT ![my[p]].state = "zombie"]
    /\ Goto(p, "reparent")
    /\ UNCHANGED <<slot_in_use, freeList, next_pid, space, my, reg, hands>>

\* Mutant: the children keep their parent.
Adopt_none(p) == proc

\* The table after the children of p have been given to init.
Adopt(p) ==
    [s \in Slot |-> IF slot_in_use[s] /\ proc[s].parent = Me(p).pid /\ proc[s].pid # Me(p).pid
                    THEN [proc[s] EXCEPT !.parent = InitPid] ELSE proc[s]]

\* A thread group leader gives its children to init.
Reparent(p) ==
    /\ At(p, "reparent")
    /\ IF Me(p).tgid = Me(p).pid
       THEN /\ proc' = Adopt(p)
            /\ Goto(p, IF \E s \in Slot : proc[s] # proc'[s] /\ proc[s].state = "zombie"
                       THEN "wakeInit" ELSE "userPages")
       ELSE Goto(p, "userPages") /\ UNCHANGED proc
    /\ UNCHANGED <<slot_in_use, freeList, next_pid, space, my, reg, hands>>

\* wakeProcess of a process that waits in wait4.
Wake(pid) ==
    proc' = [s \in Slot |-> IF s \in SlotOf(pid) /\ proc[s].state = "blocked_on_wait"
                            THEN [proc[s] EXCEPT !.state = "live"] ELSE proc[s]]

WakeInit(p) ==
    /\ At(p, "wakeInit")
    /\ Wake(InitPid)
    /\ Goto(p, "userPages")
    /\ UNCHANGED <<slot_in_use, freeList, next_pid, space, my, reg, hands>>

\* Mutant: the process itself counts as a sharer.
Shared_self(p, pt) == \E s \in Slot : slot_in_use[s] /\ proc[s].pt = pt

\* isSharedAddressSpace: any other process with the same page table.
Shared(p, pt) == \E s \in Slot : slot_in_use[s] /\ proc[s].pid # p /\ proc[s].pt = pt

UserPages(p) ==
    /\ At(p, "userPages")
    /\ space' = IF Shared(Me(p).pid, Me(p).pt) \/ Me(p).pt = 0 THEN space
                ELSE [space EXCEPT ![Me(p).pt] = IF @ = "live" THEN "empty" ELSE @]
    /\ Goto(p, "wakeParent")
    /\ UNCHANGED <<table, freeList, next_pid, my, reg, hands>>

WakeParent(p) ==
    /\ At(p, "wakeParent")
    /\ Wake(Me(p).parent)
    /\ Goto(p, "schedule")
    /\ UNCHANGED <<slot_in_use, freeList, next_pid, space, my, reg, hands>>

\* schedule: the CPU leaves the process for good.
Schedule(p) ==
    /\ At(p, "schedule")
    /\ Goto(p, "gone")
    /\ my' = [my EXCEPT ![p] = Null]
    /\ UNCHANGED <<table, freeList, next_pid, space, reg, hands>>

-----------------------------------------------------------------------------
(* sysWait4.                                                               *)

\* wait_pid is a pid, or anything else for any child.
Wait4(p, w) ==
    /\ At(p, "user") /\ CpuFree
    /\ wait_pid' = [wait_pid EXCEPT ![p] = w]
    /\ Goto(p, "scan")
    /\ UNCHANGED <<table, freeList, next_pid, space, my, reg, new_pt, thread>>

\* Mutant: a wait for any child takes its argument for a pid.
Children_exact(p) == {s \in Slot : /\ slot_in_use[s] /\ proc[s].parent = Me(p).pid
                                   /\ wait_pid[p] >= 0 => proc[s].pid = wait_pid[p]}

\* The children wait4 looks at.
Children(p) == {s \in Slot : /\ slot_in_use[s] /\ proc[s].parent = Me(p).pid
                             /\ wait_pid[p] > 0 => proc[s].pid = wait_pid[p]}

Zombies(p) == {s \in Children(p) : proc[s].state = "zombie"}

\* The search for a zombie child: the first one is reaped; with none the
\* parent returns (no child, or WNOHANG) or is going to block.
Scan(p) ==
    /\ At(p, "scan")
    /\ IF Zombies(p) # {}
       THEN /\ reg' = [reg EXCEPT ![p] = CHOOSE s \in Zombies(p) : \A t \in Zombies(p) : s <= t]
            /\ Goto(p, "shared")
            /\ UNCHANGED wait_pid
       ELSE /\ \/ Goto(p, "user") /\ wait_pid' = [wait_pid EXCEPT ![p] = 0]
               \/ Children(p) # {} /\ Goto(p, "block") /\ UNCHANGED wait_pid
            /\ UNCHANGED reg
    /\ UNCHANGED <<table, freeList, next_pid, space, my, new_pt, thread>>

\* Whether another process has the address space of the child being reaped.
StillShared(p) == Shared(proc[reg[p]].pid, proc[reg[p]].pt)

\* "Destroy address space only if no other process shares it."
CheckShared(p) ==
    /\ At(p, "shared")
    /\ Goto(p, IF proc[reg[p]].pt = 0 \/ StillShared(p) THEN "keep" ELSE "destroy")
    /\ UNCHANGED <<table, freeList, next_pid, space, my, reg, hands>>

DestroySpace(p) ==
    /\ At(p, "keep") \/ At(p, "destroy")
    /\ space' = IF At(p, "destroy") /\ proc[reg[p]].pt # 0
                THEN [space EXCEPT ![proc[reg[p]].pt] = "freed"] ELSE space
    /\ proc' = [proc EXCEPT ![reg[p]].pt = 0]
    /\ Goto(p, "clearSlot")
    /\ UNCHANGED <<slot_in_use, freeList, next_pid, my, reg, hands>>

\* The kernel stack is freed; clearSlot without proc_lock: the link of the
\* slot, then the head of the free list.
ClearSlot(p) ==
    /\ At(p, "clearSlot")
    /\ slot_in_use' = [slot_in_use EXCEPT ![reg[p]] = FALSE]
    /\ free_next' = [free_next EXCEPT ![reg[p]] = free_head]
    /\ Goto(p, "push")
    /\ UNCHANGED <<proc, free_head, next_pid, space, my, reg, hands>>

Push(p) ==
    /\ At(p, "push")
    /\ free_head' = reg[p]
    /\ reg' = [reg EXCEPT ![p] = Null]
    /\ wait_pid' = [wait_pid EXCEPT ![p] = 0]
    /\ Goto(p, "user")
    /\ UNCHANGED <<table, free_next, next_pid, space, my, new_pt, thread>>

Block(p) ==
    /\ At(p, "block")
    /\ proc' = [proc EXCEPT ![my[p]].state = "blocked_on_wait"]
    /\ Goto(p, "asleep")
    /\ UNCHANGED <<slot_in_use, freeList, next_pid, space, my, reg, hands>>

\* A woken parent runs again and replays wait4 with the same arguments.
Resume(p) ==
    /\ At(p, "asleep") /\ Me(p).state = "live" /\ CpuFree
    /\ Goto(p, "scan")
    /\ UNCHANGED <<table, freeList, next_pid, space, my, reg, hands>>

-----------------------------------------------------------------------------
\* A process that is in the kernel goes on.
Kernel(p) ==
    \/ ForkSpace(p) \/ StackFails(p) \/ CloneDone(p)
    \/ Reparent(p) \/ WakeInit(p) \/ UserPages(p) \/ WakeParent(p) \/ Schedule(p)
    \/ Scan(p) \/ CheckShared(p) \/ DestroySpace(p) \/ ClearSlot(p) \/ Push(p)
    \/ Block(p)

Next == \E p \in Pid : Kernel(p) \/ Resume(p) \/ Clone(p) \/ Exit(p) \/ \E w \in 0 .. MaxPid : Wait4(p, w)

Spec == Init /\ [][Next]_vars

\* System calls end, init runs again when it is woken, and it calls wait4 for any
\* child again and again as long as it runs.
FairSpec ==
    /\ Spec
    /\ WF_vars(\E p \in Pid : Kernel(p))
    /\ SF_vars(Resume(InitPid)) /\ SF_vars(Wait4(InitPid, 0))

-----------------------------------------------------------------------------
(* Properties.                                                             *)

\* The slots on the free list, in order, as far as it is a list.
FreeChain ==
    LET walk[k \in 0 .. Slots + 1] ==
            IF k = 0 THEN <<>>
            ELSE LET s == walk[k - 1]
                     n == IF k = 1 THEN free_head
                          ELSE IF Len(s) < k - 1 THEN Null ELSE free_next[s[k - 1]]
                 IN  IF n = Null THEN s ELSE Append(s, n)
    IN  walk[Slots + 1]

\* process.zig, "SMP lock -- protects process table, slot_in_use, and next_pid":
\* the free list has no slot twice, none in use and none handed out.
FreeListSound ==
    /\ \A i, j \in 1 .. Len(FreeChain) : i # j => FreeChain[i] # FreeChain[j]
    /\ \A i \in 1 .. Len(FreeChain) : ~ slot_in_use[FreeChain[i]]
    /\ \A p, q \in Pid : p # q /\ reg[p] # Null => reg[p] # reg[q]

\* sysExitGroup: "DON'T free kernel stack here -- thread may still be
\* executing! Kernel stacks are freed during wait4 reap.": a process that
\* executes, or may again, still has its slot and kernel stack.
StackLive ==
    \A p \in Pid : my[p] # Null => slot_in_use[my[p]] /\ proc[my[p]].pid = p

\* isSharedAddressSpace and wait4: the address space of a process that has not
\* exited is neither emptied nor freed.
SpaceLive ==
    \A s \in Slot : slot_in_use[s] /\ proc[s].state # "zombie" => space[proc[s].pt] = "live"

\* wait4: "The last one reaped must free it": an address space that no process
\* has any more is freed.
SpaceReclaimed ==
    \A a \in Pid : space[a] \in {"live", "empty"} =>
        \/ \E s \in Slot : slot_in_use[s] /\ proc[s].pt = a
        \/ \E p \in Pid : At(p, "destroy") /\ proc[reg[p]].pt = a

\* sysClone destroys the address space it made when it cannot go on.
SpaceGiven == \A p \in Pid : new_pt[p] => At(p, "kstack")

\* wait4: "When woken (child exits -> zombie), the replayed wait4 will find the
\* zombie child and return its PID normally": a parent asleep in wait4 has no
\* zombie child it waits for, unless the exit of that child, or of the parent it
\* had, has still to wake it.
WaitWoken ==
    \A p \in Pid : At(p, "asleep") /\ Me(p).state = "blocked_on_wait" =>
        \A s \in Zombies(p) : \E q \in Pid : my[q] = s \/ At(q, "wakeInit") \/ At(q, "reparent")

\* sysExit: "Reparent children to init (PID 1) -- prevents permanent zombie
\* leaks": the parent of a process, which alone can reap it, is in the table.
\* sysExit does this for the leader of a thread group only, so a parent that was
\* another thread may be gone.
ParentExists ==
    \A s \in Slot : slot_in_use[s] /\ proc[s].pid # InitPid =>
        SlotOf(proc[s].parent) # {} \/ thread[proc[s].parent]

\* wait4 and the reparenting in sysExit: every zombie child of init is reaped,
\* unless init ends up waiting for one other child for ever.
InitReaps ==
    []<>(wait_pid[InitPid] = 0) =>
        \A c \in Pid : (\E s \in SlotOf(c) : proc[s].parent = InitPid /\ proc[s].state = "zombie")
                         ~> SlotOf(c) = {}

\* "wait4 -- reap child processes": wait4 reaps processes, not the threads of a
\* process.
ReapsProcesses ==
    [][\A p \in Pid : At(p, "scan") /\ reg'[p] # Null => proc[reg'[p]].tgid = proc[reg'[p]].pid]_vars

\* process.zig: the table is well formed and its free list sound.
SlotsSound == TypeOK /\ HandsOK /\ FreeListSound

\* syscall.zig, process.zig: an address space is freed neither too early nor never.
SpacesExact == SpaceLive /\ SpaceReclaimed /\ SpaceGiven
=============================================================================
