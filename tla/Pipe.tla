------------------------------- MODULE Pipe -------------------------------
(***************************************************************************)
(* One pipe of the aarch64 kernel (pipe.zig) with the system calls that    *)
(* use it (sysRead, sysReadv, sysWrite, sysWritev, sysPpoll, close in      *)
(* syscall.zig and vfs.zig) and, for named pipes, openFifo.  The body of   *)
(* each pipe function is a critical section of pipe_lock and one action    *)
(* here; what the caller does before and after it (the test of the process *)
(* state, wakeProcess outside the lock, the next buffer of a vectored      *)
(* call) are steps of their own, between which other CPUs run.             *)
(*                                                                         *)
(* The scheduler is reduced to the state of each process: a blocked        *)
(* process that is woken is ready, and is running once a CPU dispatches    *)
(* it.  A process asleep in blockAndSchedule then replays its system call  *)
(* (the saved program counter points at the svc instruction).              *)
(***************************************************************************)
EXTENDS Integers, Sequences, FiniteSets

CONSTANTS
    Reader, Writer,   \* the processes given each end when the pipe is made
    Nonblock,         \* the processes whose descriptors are O_NONBLOCK
    None,             \* no process
    Byte,             \* the values of a byte
    Size,             \* PIPE_BUF_SIZE
    MaxIov,           \* buffers of a vectored call
    Fifo              \* TRUE for a named pipe, FALSE for pipe2

Proc == Reader \cup Writer

ASSUME PipeAssumption ==
    /\ None \notin Proc
    /\ Size \in Nat \ {0} /\ MaxIov \in Nat \ {0}
    /\ Fifo \in BOOLEAN

VARIABLES
    buffer, read_pos, write_pos, count,   \* the ring
    readers, writers,                     \* open descriptions of each end
    blocked_reader_pid, blocked_writer_pid,
    in_use,
    fds,      \* process -> ends it has a descriptor for
    state,    \* process -> "running", "blocked", "ready"
    pc,       \* process -> what it does next
    call,     \* process -> the system call it is in
    moved,    \* the last transfer: who, which way, which bytes
    res       \* process -> result of its last call, once it is finished

ring == <<buffer, read_pos, write_pos, count>>
pids == <<blocked_reader_pid, blocked_writer_pid>>
ends == <<readers, writers, in_use>>
vars == <<ring, pids, ends, fds, state, pc, call, moved, res>>

\* op, and whether it is the vectored form; size of each buffer; buffers left;
\* some bytes moved already; the process to wake.
Call == [op : {"none", "read", "write", "poll"}, vec : BOOLEAN, n : 0 .. Size,
         iov : 0 .. MaxIov, done : BOOLEAN, wake : Proc \cup {None}]
NoCall == [op |-> "none", vec |-> FALSE, n |-> 0, iov |-> 0, done |-> FALSE, wake |-> None]
Result == {"none", "ok", "zero", "eagain", "epipe"}

TypeOK ==
    /\ buffer \in [0 .. Size - 1 -> Byte]
    /\ read_pos \in 0 .. Size - 1 /\ write_pos \in 0 .. Size - 1
    /\ count \in 0 .. Size
    /\ readers \in Nat /\ writers \in Nat /\ in_use \in BOOLEAN
    /\ blocked_reader_pid \in Proc \cup {None}
    /\ blocked_writer_pid \in Proc \cup {None}
    /\ fds \in [Proc -> SUBSET {"r", "w"}]
    /\ state \in [Proc -> {"running", "blocked", "ready"}]
    /\ pc \in [Proc -> {"user", "read", "write", "poll", "register", "eagain",
                        "asleep", "wake", "closeR", "closeW"}]
    /\ call \in [Proc -> Call]
    /\ moved # <<>> => moved \in Proc \X {"read", "write"} \X Seq(Byte)
    /\ res \in [Proc -> Result]

\* createPipe, then pipe2 gives each process its end (fork copies the
\* descriptor), or openFifo keeps one end: the first opener of a named pipe
\* gets one end and both ends are counted.
Init ==
    /\ buffer \in {[i \in 0 .. Size - 1 |-> b] : b \in Byte}
    /\ read_pos = 0 /\ write_pos = 0 /\ count = 0
    /\ readers = 1 /\ writers = 1 /\ in_use = TRUE
    /\ blocked_reader_pid = None /\ blocked_writer_pid = None
    /\ IF Fifo
       THEN \E p \in Proc, e \in {"r", "w"} :
              /\ p \in (IF e = "r" THEN Reader ELSE Writer)
              /\ fds = [q \in Proc |-> IF q = p THEN {e} ELSE {}]
       ELSE fds = [p \in Proc |-> (IF p \in Reader THEN {"r"} ELSE {})
                                  \cup (IF p \in Writer THEN {"w"} ELSE {})]
    /\ state = [p \in Proc |-> "running"]
    /\ pc = [p \in Proc |-> "user"]
    /\ call = [p \in Proc |-> NoCall]
    /\ moved = <<>>
    /\ res = [p \in Proc |-> "none"]

-----------------------------------------------------------------------------
At(p, l) == pc[p] = l
Goto(p, l) == pc' = [pc EXCEPT ![p] = l]
Least(a, b) == IF a < b THEN a ELSE b

\* The call returns to user mode: a plain call with the result r of the pipe
\* function, a vectored one with the number of bytes moved, whatever r is.
Finish(p, r) ==
    /\ Goto(p, "user")
    /\ call' = [call EXCEPT ![p] = NoCall]
    /\ res' = [res EXCEPT ![p] = IF ~ call[p].vec THEN r
                                 ELSE IF call[p].done THEN "ok" ELSE "zero"]

\* The system calls: what a process asks for.
Enter(p) ==
    /\ At(p, "user")
    /\ \E op \in {"read", "write", "poll"}, n \in 1 .. Size, i \in 1 .. MaxIov :
          /\ (IF op = "write" THEN "w" ELSE "r") \in fds[p]
          /\ op = "poll" => n = 1 /\ i = 1
          /\ call' = [call EXCEPT ![p] = [op |-> op, vec |-> i > 1, n |-> n, iov |-> i,
                                          done |-> FALSE, wake |-> None]]
          /\ Goto(p, op)
    /\ res' = [res EXCEPT ![p] = "none"]
    /\ UNCHANGED <<ring, pids, ends, fds, state, moved>>

\* Mutant: a reader that finds the pipe empty is not registered.
BlockReader_unregistered(p) ==
    /\ state' = [state EXCEPT ![p] = IF p \in Nonblock THEN @ ELSE "blocked"]
    /\ UNCHANGED pids

\* pipeRead on an empty pipe: the one reader slot is overwritten, and a
\* blocking reader is marked blocked, still under the lock.
BlockReader(p) ==
    /\ blocked_reader_pid' = p
    /\ state' = [state EXCEPT ![p] = IF p \in Nonblock THEN @ ELSE "blocked"]
    /\ UNCHANGED blocked_writer_pid

BlockWriter(p) ==
    /\ blocked_writer_pid' = p
    /\ state' = [state EXCEPT ![p] = IF p \in Nonblock THEN @ ELSE "blocked"]
    /\ UNCHANGED blocked_reader_pid

\* The two-phase copy out of the ring: up to its end, then from its start.
CopyOut(k) ==
    LET first == Least(k, Size - read_pos)
    IN  [i \in 1 .. k |-> IF i <= first THEN buffer[read_pos + i - 1]
                                        ELSE buffer[i - first - 1]]

\* The process to wake after the lock is released, and its slot cleared.
TakeWaiter(p, pid) ==
    call' = [call EXCEPT ![p].wake = pid, ![p].iov = @ - 1, ![p].done = TRUE]

pipeRead(p) ==
    /\ At(p, "read")
    /\ \/ /\ count = 0 /\ writers = 0
          /\ Finish(p, "zero")
          /\ UNCHANGED <<ring, pids, state, moved>>
       \/ /\ count = 0 /\ writers # 0
          /\ BlockReader(p)
          /\ Goto(p, "eagain")
          /\ UNCHANGED <<ring, call, moved, res>>
       \/ /\ count > 0
          /\ LET k == Least(call[p].n, count)
             IN  /\ moved' = <<p, "read", CopyOut(k)>>
                 /\ read_pos' = (read_pos + k) % Size
                 /\ count' = count - k
          /\ TakeWaiter(p, blocked_writer_pid)
          /\ blocked_writer_pid' = None
          /\ Goto(p, "wake")
          /\ UNCHANGED <<buffer, write_pos, blocked_reader_pid, state, res>>
    /\ UNCHANGED <<ends, fds>>

\* Mutant: the second phase of the copy continues past the end of the data.
CopyIn_noWrap(s) ==
    [j \in 0 .. Size - 1 |->
        LET i == j - write_pos + 1 IN IF i \in 1 .. Len(s) THEN s[i] ELSE buffer[j]]

\* The two-phase copy into the ring.
CopyIn(s) ==
    LET first == Least(Len(s), Size - write_pos)
    IN  [j \in 0 .. Size - 1 |->
            IF j \in write_pos .. write_pos + first - 1 THEN s[j - write_pos + 1]
            ELSE IF j < Len(s) - first THEN s[first + j + 1]
            ELSE buffer[j]]

\* How much of a buffer of n bytes fits.
Room(n) == Least(n, Size - count)

pipeWrite(p) ==
    /\ At(p, "write")
    /\ \/ /\ readers = 0
          /\ Finish(p, "epipe")
          /\ UNCHANGED <<ring, pids, state, moved>>
       \/ /\ readers # 0 /\ count = Size
          /\ BlockWriter(p)
          /\ Goto(p, "eagain")
          /\ UNCHANGED <<ring, call, moved, res>>
       \/ /\ readers # 0 /\ count < Size
          /\ \E s \in [1 .. Room(call[p].n) -> Byte] :
                /\ buffer' = CopyIn(s)
                /\ moved' = <<p, "write", s>>
                /\ write_pos' = (write_pos + Len(s)) % Size
                /\ count' = count + Len(s)
          /\ TakeWaiter(p, blocked_reader_pid)
          /\ blocked_reader_pid' = None
          /\ Goto(p, "wake")
          /\ UNCHANGED <<read_pos, blocked_writer_pid, state, res>>
    /\ UNCHANGED <<ends, fds>>

\* sysPpoll for the read end: the unlocked-in-between check, then
\* pollRegisterOrReady, which registers the poller only in a free slot.
pollCheck(p) ==
    /\ At(p, "poll")
    /\ IF in_use /\ (count > 0 \/ writers = 0)
       THEN Finish(p, "ok")
       ELSE Goto(p, "register") /\ UNCHANGED <<call, res>>
    /\ UNCHANGED <<ring, pids, ends, fds, state, moved>>

pollRegisterOrReady(p) ==
    /\ At(p, "register")
    /\ IF in_use /\ (count > 0 \/ writers = 0)
       THEN Goto(p, "poll") /\ UNCHANGED <<pids, state>>
       ELSE /\ blocked_reader_pid' =
                 IF in_use /\ blocked_reader_pid = None THEN p ELSE blocked_reader_pid
            /\ state' = [state EXCEPT ![p] = "blocked"]
            /\ Goto(p, "asleep")
            /\ UNCHANGED blocked_writer_pid
    /\ UNCHANGED <<ring, ends, fds, call, moved, res>>

\* After -EAGAIN: sysRead and sysWrite (no bytes moved yet) go to sleep if the
\* process is still marked blocked and otherwise return the error; a vectored
\* call that has moved bytes returns their number.
Eagain(p) ==
    /\ At(p, "eagain")
    /\ \/ /\ ~ call[p].done /\ state[p] = "blocked"
          /\ Goto(p, "asleep")
          /\ UNCHANGED <<call, res>>
       \/ /\ call[p].done \/ state[p] # "blocked"
          /\ Finish(p, "eagain")
    /\ UNCHANGED <<ring, pids, ends, fds, state, moved>>

\* scheduler.wakeProcess, as seen from here.
WakeProcess(q) ==
    state' = IF q \in Proc /\ state[q] = "blocked"
             THEN [state EXCEPT ![q] = "ready"] ELSE state

\* Outside the lock: wake the process that was waiting, then go on with the
\* next buffer of a vectored call or return.
Wake(p) ==
    /\ At(p, "wake")
    /\ WakeProcess(call[p].wake)
    /\ IF call[p].iov > 0
       THEN /\ Goto(p, call[p].op)
            /\ call' = [call EXCEPT ![p].wake = None]
            /\ UNCHANGED res
       ELSE Finish(p, "ok")
    /\ UNCHANGED <<ring, pids, ends, fds, moved>>

\* close, or exit: the descriptor goes; pipeClose follows if it was the last
\* reference to the description (each open of a named pipe has its own).
Close(p, e) ==
    /\ At(p, "user") /\ e \in fds[p]
    /\ fds' = [fds EXCEPT ![p] = @ \ {e}]
    /\ pc' = IF Fifo \/ \A q \in Proc \ {p} : e \notin fds[q]
             THEN [pc EXCEPT ![p] = IF e = "r" THEN "closeR" ELSE "closeW"]
             ELSE pc
    /\ UNCHANGED <<ring, pids, ends, state, call, moved, res>>

\* Mutant: closing a write end does not look for a sleeping reader.
pipeClose_noWake(p) ==
    /\ At(p, "closeR") \/ At(p, "closeW")
    /\ readers' = IF At(p, "closeR") /\ readers > 0 THEN readers - 1 ELSE readers
    /\ writers' = IF At(p, "closeW") /\ writers > 0 THEN writers - 1 ELSE writers
    /\ in_use' = ~ (readers' = 0 /\ writers' = 0)
    /\ Finish(p, res[p])
    /\ UNCHANGED <<ring, pids, fds, state, moved>>

pipeClose(p) ==
    /\ \/ /\ At(p, "closeR")
          /\ readers' = IF readers > 0 THEN readers - 1 ELSE 0
          /\ blocked_writer_pid' = None
          /\ call' = [call EXCEPT ![p].wake = blocked_writer_pid]
          /\ UNCHANGED <<writers, blocked_reader_pid>>
       \/ /\ At(p, "closeW")
          /\ writers' = IF writers > 0 THEN writers - 1 ELSE 0
          /\ blocked_reader_pid' = None
          /\ call' = [call EXCEPT ![p].wake = blocked_reader_pid]
          /\ UNCHANGED <<readers, blocked_writer_pid>>
    /\ in_use' = (in_use /\ ~ (readers' = 0 /\ writers' = 0))
    /\ Goto(p, "wake")
    /\ UNCHANGED <<ring, fds, state, moved, res>>

\* openFifo on a named pipe that exists already: openExistingPipe.
openFifo(p, e) ==
    /\ Fifo /\ in_use
    /\ At(p, "user") /\ e \notin fds[p]
    /\ p \in (IF e = "r" THEN Reader ELSE Writer)
    /\ fds' = [fds EXCEPT ![p] = @ \cup {e}]
    /\ readers' = IF e = "r" THEN readers + 1 ELSE readers
    /\ writers' = IF e = "w" THEN writers + 1 ELSE writers
    /\ UNCHANGED <<ring, pids, in_use, state, pc, call, moved, res>>

\* The scheduler: a ready process gets a CPU, and if it was asleep in
\* blockAndSchedule it replays its system call.
Dispatch(p) ==
    /\ state[p] = "ready"
    /\ state' = [state EXCEPT ![p] = "running"]
    /\ UNCHANGED <<ring, pids, ends, fds, pc, call, moved, res>>

Replay(p) ==
    /\ At(p, "asleep") /\ state[p] = "running"
    /\ Goto(p, call[p].op)
    /\ UNCHANGED <<ring, pids, ends, fds, state, call, moved, res>>

-----------------------------------------------------------------------------
Kernel(p) ==
    \/ pipeRead(p) \/ pipeWrite(p) \/ pollCheck(p) \/ pollRegisterOrReady(p)
    \/ Eagain(p) \/ Wake(p) \/ pipeClose(p) \/ Dispatch(p) \/ Replay(p)

Next ==
    \E p \in Proc : \/ Kernel(p) \/ Enter(p)
                    \/ \E e \in {"r", "w"} : Close(p, e) \/ openFifo(p, e)

Spec == Init /\ [][Next]_vars

\* System calls run to their end and the scheduler runs every ready process.
FairSpec == Spec /\ \A p \in Proc : WF_vars(Kernel(p))

-----------------------------------------------------------------------------
(* Properties.                                                             *)

\* pipe.zig pipeRead, pipeWrite: bytes are delivered in order and once, over
\* the wrap of the ring, partial reads and writes, and vectored calls.
Stream == INSTANCE PipeStream
            WITH stream <- [i \in 1 .. count |-> buffer[(read_pos + i - 1) % Size]]
StreamSpec == Stream!Spec

\* The process has nothing to wait for: its call would succeed now.
CanGoOn(p) ==
    \/ call[p].op \in {"read", "poll"} /\ (count > 0 \/ writers = 0)
    \/ call[p].op = "write" /\ (count < Size \/ readers = 0)

\* pipe.zig, of blocked_reader_pid and blocked_writer_pid: a process asleep on
\* a pipe whose condition has come true is woken.
SleeperWakes == \A p \in Proc : (At(p, "asleep") /\ CanGoOn(p)) ~> ~ At(p, "asleep")

\* pipe.zig, of marking the process blocked under the lock: the wake-up cannot
\* fall between the test and the sleep.  A sleeper that could go on has been
\* made ready already, or a process is about to wake it.
NoLostWakeup ==
    \A p \in Proc : At(p, "asleep") /\ state[p] = "blocked" /\ CanGoOn(p) =>
        \E q \in Proc : At(q, "wake") /\ call[q].wake = p

\* syscall.zig sysRead: "EAGAIN -- block and replay for blocking reads": a
\* process that asked to block is never told to try again.
BlockingNeverEagain == \A p \in Proc \ Nonblock : res[p] # "eagain"

\* pipe.zig: the process state is set "so wakeProcess (called by
\* pipeWrite/pipeClose on another CPU) always sees the correct state": a
\* process back in user mode is not marked blocked.
UserNotBlocked == \A p \in Proc : At(p, "user") => state[p] # "blocked"

\* pipe.zig: "0 (EOF, no writers)": with no descriptor of the write end left, a
\* reader does not sleep for ever.
EofDelivered ==
    \A p \in Reader : [] (([](\A q \in Proc : "w" \notin fds[q] /\ ~ At(q, "closeW")))
                          => <>(~ At(p, "asleep")))

\* pipe.zig: the fields of the pipe are in range and no wake-up is lost.
WakeSound == TypeOK /\ NoLostWakeup
=============================================================================
