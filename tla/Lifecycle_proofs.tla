-------------------------- MODULE Lifecycle_proofs --------------------------
(***************************************************************************)
(* Proofs about the process table on one CPU, where a system call runs to  *)
(* its end: for every size of the table and any number of processes.       *)
(***************************************************************************)
EXTENDS Lifecycle, LeastNumber, FiniteSetTheorems, SequenceTheorems, TLAPS


Dying == {"reparent", "wakeInit", "userPages", "wakeParent", "schedule"}
Reaping == {"shared", "destroy", "keep", "clearSlot"}
Creating == {"fork", "kstack", "vm", "clone"}

\* One CPU: one process is in the kernel.
OneIn == \A p, q \in Pid : InKernel(p) /\ InKernel(q) => p = q

\* Processes and their slots.
TableInv ==
    /\ \A p \in Pid : /\ pc[p] = "none" <=> p >= next_pid
                      /\ my[p] = Null <=> pc[p] \in {"none", "gone"}
                      /\ my[p] # Null => slot_in_use[my[p]] /\ proc[my[p]].pid = p
    /\ \A s \in Slot : slot_in_use[s] =>
          /\ proc[s].pid \in Pid /\ pc[proc[s].pid] # "none"
          /\ proc[s].state = "zombie" <=> pc[proc[s].pid] \in Dying \cup {"gone"}
          /\ proc[s].state = "blocked_on_wait" => pc[proc[s].pid] = "asleep"
    /\ \A s, t \in Slot : slot_in_use[s] /\ slot_in_use[t] /\ proc[s].pid = proc[t].pid => s = t

\* The slot a process has in hand.
RegInv ==
    \A p \in Pid :
        /\ reg[p] = Null <=> pc[p] \notin Creating \cup Reaping \cup {"push"}
        /\ pc[p] \in Reaping => slot_in_use[reg[p]] /\ pc[proc[reg[p]].pid] = "gone"
        /\ pc[p] \in Creating \cup {"push"} => ~ slot_in_use[reg[p]]

\* What a process carries through a system call.
HandsInv == HandsOK /\ SpaceGiven

\* Address spaces.
SpaceInv ==
    /\ SpaceLive /\ SpaceReclaimed
    /\ \A s \in Slot : slot_in_use[s] =>
          proc[s].pt \in Pid \/ \E p \in Pid : pc[p] = "clearSlot" /\ reg[p] = s
    /\ \A p \in Pid : /\ pc[p] = "destroy" => ~ StillShared(p)
                      /\ pc[p] = "keep" => StillShared(p)
                      /\ pc[p] = "clearSlot" => proc[reg[p]].pt = 0

\* A process that has not given its children away.
Cares(p) == pc[p] \notin {"none", "gone"} \cup (Dying \ {"reparent"})

\* The family of the process in a slot: the leader of its thread group has been
\* made, and its parent has not given its children away or was a thread.
Family(s) ==
    /\ proc[s].tgid \in Pid /\ pc[proc[s].tgid] # "none"
    /\ proc[s].tgid = proc[s].pid <=> ~ thread[proc[s].pid]
    /\ proc[s].parent # proc[s].pid
    /\ proc[s].pid = InitPid => proc[s].parent = 0
    /\ proc[s].pid # InitPid => /\ proc[s].parent \in Pid
                                /\ Cares(proc[s].parent) \/ thread[proc[s].parent]

\* Parents.
ParentInv ==
    /\ pc[InitPid] \notin Dying \cup {"gone"} /\ \A p \in Pid : thread[p] => pc[p] # "none"
    /\ \A s \in Slot : slot_in_use[s] => Family(s)

\* The free list is f, of n slots that nobody has.
IsList(f, n) ==
    /\ free_head = IF n = 0 THEN Null ELSE f[1]
    /\ \A i \in 1 .. n : /\ free_next[f[i]] = IF i = n THEN Null ELSE f[i + 1]
                         /\ ~ slot_in_use[f[i]] /\ \A p \in Pid : reg[p] # f[i]
    /\ \A i, j \in 1 .. n : f[i] = f[j] => i = j

ListInv ==
    /\ \E n \in Nat : \E f \in [1 .. n -> Slot] : IsList(f, n)
    /\ \A p \in Pid : pc[p] = "push" => free_next[reg[p]] = free_head

LifeInv == TypeOK /\ OneIn /\ TableInv /\ RegInv /\ ListInv

-----------------------------------------------------------------------------
(* One process in the kernel.                                              *)

LEMMA Facts ==
    /\ Null \notin Slot /\ InitPid \in Pid /\ 0 \in Slot /\ 0 \notin Pid /\ IsFiniteSet(Pid)
    /\ Pid \subseteq 0 .. MaxPid /\ Pid \subseteq Nat
<1>1. IsFiniteSet(Pid)
  BY LifecycleAssumption, FS_Interval DEF Pid
<1> QED BY <1>1, LifecycleAssumption DEF Null, Slot, InitPid, Pid

\* A process that has not gone has a slot.
LEMMA OwnSlot ==
    ASSUME TypeOK, TableInv, NEW p \in Pid, pc[p] \notin {"none", "gone"}
    PROVE  my[p] \in Slot /\ slot_in_use[my[p]] /\ proc[my[p]].pid = p
BY DEF TypeOK, TableInv

\* No two slots in use have the same process.
LEMMA SameSlot ==
    ASSUME TableInv, NEW s \in Slot, NEW t \in Slot, slot_in_use[s], slot_in_use[t],
           proc[s].pid = proc[t].pid
    PROVE  s = t
BY Zenon DEF TableInv

\* A change of the state of one slot leaves the other fields alone.
OnlyState(s, v) ==
    \A t \in Slot : /\ proc'[t].pid = proc[t].pid /\ proc'[t].pt = proc[t].pt
                    /\ proc'[t].state = IF t = s THEN v ELSE proc[t].state

LEMMA StateSet ==
    ASSUME TypeOK, NEW s \in Slot, NEW v, proc' = [proc EXCEPT ![s].state = v]
    PROVE  OnlyState(s, v)
BY DEF TypeOK, OnlyState

\* The process that takes a step is the only one in the kernel.
LEMMA AloneIn ==
    ASSUME OneIn, Cpus = 1, NEW p \in Pid, InKernel(p) \/ CpuFree
    PROVE  \A q \in Pid \ {p} : pc[q] \in {"none", "user", "asleep", "gone"}
<1>1. CASE InKernel(p)
  BY <1>1, Zenon DEF OneIn, InKernel
<1>2. CASE CpuFree
  <2> DEFINE K == {q \in Pid : InKernel(q)}
  <2>1. IsFiniteSet(K) /\ Cardinality(K) \in Nat
    BY Facts, FS_Subset, FS_CardinalityType, Zenon
  <2>2. Cardinality(K) = 0
    BY <1>2, <2>1 DEF CpuFree
  <2>3. K = {}
    BY <2>1, <2>2, FS_EmptySet, Zenon
  <2> QED BY <2>3, Zenon DEF InKernel
<1> QED BY <1>1, <1>2, Zenon

\* A step of p inside a system call: processes keep their identity and only
\* waiting ones change their state.
TableStep(p, l) ==
    /\ UNCHANGED <<slot_in_use, my, next_pid>> /\ Goto(p, l)
    /\ \A s \in Slot : /\ proc'[s].pid = proc[s].pid
                       /\ \/ proc'[s].state = proc[s].state
                          \/ proc[s].state = "blocked_on_wait" /\ proc'[s].state = "live"
    /\ pc[p] \notin {"none", "gone"} /\ l \notin {"none", "gone"}
    /\ l \in Dying <=> pc[p] \in Dying
    /\ Me(p).state # "blocked_on_wait" \/ pc[p] # "asleep"

LEMMA TableFrame ==
    ASSUME TypeOK, TableInv, NEW p \in Pid, NEW l, TableStep(p, l)
    PROVE  TableInv'
<1>1. \A q \in Pid : pc'[q] = IF q = p THEN l ELSE pc[q]
  BY Zenon DEF TypeOK, TableStep, Goto
<1>2. \A q \in Pid : /\ pc'[q] = "none" <=> q >= next_pid'
                     /\ my'[q] = Null <=> pc'[q] \in {"none", "gone"}
                     /\ my'[q] # Null => slot_in_use'[my'[q]] /\ proc'[my'[q]].pid = q
  BY <1>1 DEF TableInv, TableStep, TypeOK
<1>3. my[p] \in Slot /\ slot_in_use[my[p]] /\ proc[my[p]].pid = p
  BY DEF TableInv, TableStep, TypeOK
<1>4. ASSUME NEW s \in Slot, slot_in_use'[s]
      PROVE  /\ proc'[s].pid \in Pid /\ pc'[proc'[s].pid] # "none"
             /\ proc'[s].state = "zombie" <=> pc'[proc'[s].pid] \in Dying \cup {"gone"}
             /\ proc'[s].state = "blocked_on_wait" => pc'[proc'[s].pid] = "asleep"
  <2>1. /\ slot_in_use[s] /\ proc'[s].pid = proc[s].pid
        /\ \/ proc'[s].state = proc[s].state
           \/ proc[s].state = "blocked_on_wait" /\ proc'[s].state = "live"
    BY <1>4 DEF TableStep
  <2>2. /\ proc[s].pid \in Pid /\ pc[proc[s].pid] # "none"
        /\ proc[s].state = "zombie" <=> pc[proc[s].pid] \in Dying \cup {"gone"}
        /\ proc[s].state = "blocked_on_wait" => pc[proc[s].pid] = "asleep"
    BY <2>1 DEF TableInv
  <2>3. CASE proc[s].pid # p
    BY <1>1, <2>1, <2>2, <2>3 DEF Dying
  <2>4. CASE proc[s].pid = p
    <3>1. s = my[p] /\ pc'[p] = l
      BY <1>1, <1>3, <2>1, <2>4 DEF TableInv
    <3> QED BY <2>1, <2>2, <2>4, <3>1 DEF TableStep, Me, Dying
  <2> QED BY <2>3, <2>4
<1>5. \A s, t \in Slot : slot_in_use'[s] /\ slot_in_use'[t] /\ proc'[s].pid = proc'[t].pid => s = t
  BY DEF TableInv, TableStep
<1> QED BY <1>2, <1>4, <1>5, Zenon DEF TableInv

\* One process in the kernel, and its slot, after a step of p.
LEMMA AloneKeeps ==
    ASSUME TypeOK, RegInv, NEW p \in Pid,
           \A q \in Pid \ {p} : pc[q] \in {"none", "user", "asleep", "gone"},
           \A q \in Pid \ {p} : /\ pc'[q] \in {"none", "user", "asleep", "gone"}
                                /\ reg'[q] = reg[q],
           /\ reg'[p] = Null <=> pc'[p] \notin Creating \cup Reaping \cup {"push"}
           /\ pc'[p] \in Reaping => slot_in_use'[reg'[p]] /\ pc'[proc'[reg'[p]].pid] = "gone"
           /\ pc'[p] \in Creating \cup {"push"} => ~ slot_in_use'[reg'[p]]
    PROVE  OneIn' /\ RegInv'
<1>1. OneIn'
  BY Zenon DEF OneIn, InKernel
<1>2. \A q \in Pid \ {p} : reg'[q] = Null
  BY Zenon DEF RegInv, Creating, Reaping
<1>3. RegInv'
  BY <1>2 DEF RegInv, Creating, Reaping
<1> QED BY <1>1, <1>3

-----------------------------------------------------------------------------
(* The free list.                                                          *)

\* A step that leaves the list alone and takes none of its slots.
LEMMA ListFrame ==
    ASSUME ListInv, UNCHANGED freeList,
           \A q \in Pid : pc'[q] # "push",
           \A s \in Slot : slot_in_use'[s] => slot_in_use[s] \/ \E q \in Pid : reg[q] = s,
           \A q \in Pid : reg'[q] = reg[q] \/ reg'[q] = Null \/ slot_in_use[reg'[q]]
    PROVE  ListInv'
<1>0. PICK n \in Nat : \E f \in [1 .. n -> Slot] : IsList(f, n)
  BY Zenon DEF ListInv
<1>1. PICK f \in [1 .. n -> Slot] : IsList(f, n)
  BY <1>0, Zenon
<1>2. ASSUME NEW i \in 1 .. n
      PROVE  /\ free_next'[f[i]] = IF i = n THEN Null ELSE f[i + 1]
             /\ ~ slot_in_use'[f[i]] /\ \A q \in Pid : reg'[q] # f[i]
  <2>1. f[i] \in Slot /\ f[i] # Null
    BY Facts
  <2>2. free_next[f[i]] = (IF i = n THEN Null ELSE f[i + 1]) /\ ~ slot_in_use[f[i]]
        /\ \A q \in Pid : reg[q] # f[i]
    BY <1>1, Zenon DEF IsList
  <2>3. ~ slot_in_use'[f[i]]
    BY <2>1, <2>2, Zenon
  <2>4. \A q \in Pid : reg'[q] # f[i]
    BY <2>1, <2>2
  <2> QED BY <2>2, <2>3, <2>4 DEF freeList
<1>3. IsList(f, n)'
  BY <1>1, <1>2 DEF IsList, freeList
<1> QED BY <1>3, Zenon DEF ListInv

\* findFreeSlot takes the first slot, which nobody has.
LEMMA ListTaken ==
    ASSUME TypeOK, ListInv, NEW p \in Pid, findFreeSlot(p), UNCHANGED slot_in_use,
           \A q \in Pid : pc'[q] # "push"
    PROVE  /\ ListInv' /\ free_head \in Slot /\ ~ slot_in_use[free_head]
           /\ \A q \in Pid : reg'[q] = IF q = p THEN free_head ELSE reg[q]
<1>0. PICK n \in Nat : \E f \in [1 .. n -> Slot] : IsList(f, n)
  BY Zenon DEF ListInv
<1>1. PICK f \in [1 .. n -> Slot] : IsList(f, n)
  BY <1>0
<1>2. n # 0 /\ free_head = f[1] /\ 1 \in 1 .. n /\ f[1] \in Slot
  BY <1>1 DEF IsList, findFreeSlot
<1>3. ~ slot_in_use[free_head]
  BY <1>1, <1>2 DEF IsList
<1>4. \A q \in Pid : reg'[q] = IF q = p THEN free_head ELSE reg[q]
  BY Zenon DEF findFreeSlot, TypeOK
<1> DEFINE g == [i \in 1 .. n - 1 |-> f[i + 1]]
<1>5. n - 1 \in Nat /\ g \in [1 .. n - 1 -> Slot]
  BY <1>2
<1>6. \A i \in 1 .. n - 1 : i + 1 \in 1 .. n /\ f[i + 1] # f[1] /\ f[i + 1] \in Slot /\ g[i] = f[i + 1]
  BY <1>1, <1>2 DEF IsList
<1>7. free_head' = IF n - 1 = 0 THEN Null ELSE g[1]
  <2>1. free_head' = free_next[f[1]] /\ free_next[f[1]] = IF 1 = n THEN Null ELSE f[1 + 1]
    BY <1>1, <1>2, Zenon DEF IsList, findFreeSlot
  <2>2. n # 1 => 1 \in 1 .. n - 1 /\ g[1] = f[1 + 1]
    BY <1>2
  <2> HIDE DEF g
  <2> QED BY <1>2, <2>1, <2>2
<1>8. ASSUME NEW i \in 1 .. n - 1
      PROVE  /\ free_next'[g[i]] = IF i = n - 1 THEN Null ELSE g[i + 1]
             /\ ~ slot_in_use'[g[i]] /\ \A q \in Pid : reg'[q] # g[i]
  <2>1. i + 1 \in 1 .. n /\ f[i + 1] # f[1] /\ f[i + 1] \in Slot /\ g[i] = f[i + 1]
    BY <1>6, Zenon
  <2>2. /\ free_next[f[i + 1]] = IF i + 1 = n THEN Null ELSE f[(i + 1) + 1]
        /\ ~ slot_in_use[f[i + 1]] /\ \A q \in Pid : reg[q] # f[i + 1]
    BY <1>1, <2>1, Zenon DEF IsList
  <2>3. free_next'[f[i + 1]] = free_next[f[i + 1]]
    BY <1>2, <2>1, Zenon DEF findFreeSlot, TypeOK
  <2>4. i # n - 1 => i + 1 \in 1 .. n - 1 /\ g[i + 1] = f[(i + 1) + 1]
    BY <1>2
  <2> HIDE DEF g
  <2>5. free_next'[g[i]] = IF i = n - 1 THEN Null ELSE g[i + 1]
    BY <1>2, <2>1, <2>2, <2>3, <2>4
  <2>6. \A q \in Pid : reg'[q] # g[i]
    BY <1>2, <1>4, <2>1, <2>2
  <2> QED BY <2>1, <2>2, <2>5, <2>6
<1>9. \A i, j \in 1 .. n - 1 : g[i] = g[j] => i = j
  <2> SUFFICES ASSUME NEW i \in 1 .. n - 1, NEW j \in 1 .. n - 1, g[i] = g[j] PROVE i = j
    BY Zenon
  <2> HIDE DEF g
  <2>1. f[i + 1] = f[j + 1] /\ i + 1 \in 1 .. n /\ j + 1 \in 1 .. n
    BY <1>6, Zenon
  <2>2. i + 1 = j + 1
    BY <1>1, <2>1, Zenon DEF IsList
  <2> QED BY <2>2
<1>10. IsList(g, n - 1)'
  <2> HIDE DEF g
  <2> QED BY <1>7, <1>8, <1>9, Zenon DEF IsList
<1>11. ListInv'
  <2> HIDE DEF g
  <2> QED BY <1>5, <1>10, Zenon DEF ListInv
<1> QED BY <1>2, <1>3, <1>4, <1>11

\* clearSlot writes the link of a slot that is not on the list.
LEMMA ListLinked ==
    ASSUME TypeOK, ListInv, NEW p \in Pid, reg[p] \in Slot, slot_in_use[reg[p]],
           free_next' = [free_next EXCEPT ![reg[p]] = free_head],
           slot_in_use' = [slot_in_use EXCEPT ![reg[p]] = FALSE],
           UNCHANGED <<free_head, reg>>, \A q \in Pid : pc'[q] = "push" => q = p
    PROVE  ListInv'
<1>0. PICK n \in Nat : \E f \in [1 .. n -> Slot] : IsList(f, n)
  BY Zenon DEF ListInv
<1>1. PICK f \in [1 .. n -> Slot] : IsList(f, n)
  BY <1>0, Zenon
<1>2. \A i \in 1 .. n : f[i] \in Slot /\ f[i] # reg[p]
  BY <1>1, Zenon DEF IsList
<1>3. \A s \in Slot : s # reg[p] => free_next'[s] = free_next[s] /\ slot_in_use'[s] = slot_in_use[s]
  BY Zenon DEF TypeOK
<1>4. IsList(f, n)'
  BY <1>1, <1>2, <1>3 DEF IsList
<1>5. free_next'[reg[p]] = free_head
  BY Zenon DEF TypeOK
<1> QED BY <1>4, <1>5, Zenon DEF ListInv

\* clearSlot puts the slot in front of the list.
LEMMA ListPushed ==
    ASSUME TypeOK, ListInv, NEW p \in Pid, reg[p] \in Slot, ~ slot_in_use[reg[p]], pc[p] = "push",
           \A q \in Pid \ {p} : reg[q] = Null,
           free_head' = reg[p], reg' = [reg EXCEPT ![p] = Null], UNCHANGED <<free_next, slot_in_use>>,
           \A q \in Pid : pc'[q] # "push"
    PROVE  ListInv'
<1>0. PICK n \in Nat : \E f \in [1 .. n -> Slot] : IsList(f, n)
  BY Zenon DEF ListInv
<1>1. PICK f \in [1 .. n -> Slot] : IsList(f, n)
  BY <1>0, Zenon
<1>r. PICK r \in Slot : r = reg[p]
  BY Zenon
<1> DEFINE g == [i \in 1 .. n + 1 |-> IF i = 1 THEN r ELSE f[i - 1]]
<1>2. n + 1 \in Nat /\ g \in [1 .. n + 1 -> Slot] /\ g[1] = r /\ r = reg[p]
  BY <1>r
<1>3. \A i \in 1 .. n + 1 : i # 1 => i - 1 \in 1 .. n /\ g[i] = f[i - 1]
  OBVIOUS
<1>4. \A i \in 1 .. n : f[i] \in Slot /\ f[i] # reg[p]
  BY <1>1, Zenon DEF IsList
<1>5. \A q \in Pid : reg'[q] = Null
  BY Zenon DEF TypeOK
<1>6. free_next[reg[p]] = free_head
  BY Zenon DEF ListInv
<1>7. ASSUME NEW i \in 1 .. n + 1
      PROVE  /\ free_next'[g[i]] = IF i = n + 1 THEN Null ELSE g[i + 1]
             /\ ~ slot_in_use'[g[i]] /\ \A q \in Pid : reg'[q] # g[i]
  <2>1. CASE i = 1
    <3>1. free_head = IF n = 0 THEN Null ELSE f[1]
      BY <1>1 DEF IsList
    <3>2. n # 0 => 1 + 1 \in 1 .. n + 1 /\ g[1 + 1] = f[1]
      OBVIOUS
    <3> HIDE DEF g
    <3>3. free_next'[g[i]] = IF i = n + 1 THEN Null ELSE g[i + 1]
      BY <1>2, <1>6, <2>1, <3>1, <3>2
    <3> QED BY <1>2, <1>5, <2>1, <3>3, Facts
  <2>2. CASE i # 1
    <3>1. i - 1 \in 1 .. n /\ g[i] = f[i - 1] /\ f[i - 1] \in Slot
      BY <1>3, <1>4, <2>2
    <3>2. /\ free_next[f[i - 1]] = IF i - 1 = n THEN Null ELSE f[(i - 1) + 1]
          /\ ~ slot_in_use[f[i - 1]]
      BY <1>1, <3>1 DEF IsList
    <3>3. i # n + 1 => g[i + 1] = f[(i - 1) + 1]
      <4>1. i # n + 1 => i + 1 \in 1 .. n + 1 /\ i + 1 # 1 /\ (i + 1) - 1 = (i - 1) + 1
        BY <2>2
      <4> HIDE DEF g
      <4> QED BY <1>3, <4>1
    <3> HIDE DEF g
    <3>4. free_next'[g[i]] = IF i = n + 1 THEN Null ELSE g[i + 1]
      BY <3>1, <3>2, <3>3
    <3> QED BY <1>5, <3>1, <3>2, <3>4, Facts
  <2> QED BY <2>1, <2>2
<1>8. \A i, j \in 1 .. n + 1 : g[i] = g[j] => i = j
  <2> SUFFICES ASSUME NEW i \in 1 .. n + 1, NEW j \in 1 .. n + 1, g[i] = g[j] PROVE i = j
    BY Zenon
  <2> HIDE DEF g
  <2>1. CASE i = 1 \/ j = 1
    BY <1>2, <1>3, <1>4, <2>1
  <2>2. CASE i # 1 /\ j # 1
    <3>1. f[i - 1] = f[j - 1] /\ i - 1 \in 1 .. n /\ j - 1 \in 1 .. n
      BY <1>3, <2>2
    <3>2. i - 1 = j - 1
      BY <1>1, <3>1 DEF IsList
    <3> QED BY <3>2
  <2> QED BY <2>1, <2>2, Zenon
<1>9. IsList(g, n + 1)'
  <2>1. free_head' = IF n + 1 = 0 THEN Null ELSE g[1]
    BY <1>2
  <2> HIDE DEF g
  <2> QED BY <1>7, <1>8, <2>1 DEF IsList
<1> HIDE DEF g
<1> QED BY <1>2, <1>9, Zenon DEF ListInv

-----------------------------------------------------------------------------
(* clone.                                                                  *)

LEMMA CloneKeeps ==
    ASSUME LifeInv, Cpus = 1, NEW p \in Pid, Clone(p)
    PROVE  LifeInv'
<1>1. TypeOK /\ OneIn /\ TableInv /\ RegInv /\ ListInv /\ pc[p] = "user"
  BY Zenon DEF LifeInv, Clone, At
<1>2. \A q \in Pid \ {p} : pc[q] \in {"none", "user", "asleep", "gone"}
  BY <1>1, AloneIn, Zenon DEF Clone
<1>3. PICK l \in {"fork", "vm", "clone"} : Goto(p, l)
  BY Zenon DEF Clone
<1>4. \A q \in Pid : pc'[q] = IF q = p THEN l ELSE pc[q]
  BY <1>1, <1>3 DEF TypeOK, Goto
<1>5. UNCHANGED <<proc, slot_in_use, next_pid, space, my>>
  BY Zenon DEF Clone, table
<1>6. /\ ListInv' /\ free_head \in Slot /\ ~ slot_in_use[free_head]
      /\ \A q \in Pid : reg'[q] = IF q = p THEN free_head ELSE reg[q]
  <2>1. findFreeSlot(p) /\ \A q \in Pid : pc'[q] # "push"
    BY <1>2, <1>4 DEF Clone
  <2> QED BY <1>1, <1>5, <2>1, ListTaken
<1>7. TypeOK'
  BY <1>1, <1>3, <1>5, <1>6 DEF TypeOK, Goto, Clone, findFreeSlot
<1>8. TableInv'
  <2>1. TableStep(p, l)
    BY <1>1, <1>3, <1>5 DEF TableStep, Dying
  <2> QED BY <1>1, <2>1, TableFrame
<1>9. OneIn' /\ RegInv'
  <2>1. free_head # Null
    BY <1>6, Facts, Zenon
  <2> QED BY <1>1, <1>2, <1>4, <1>5, <1>6, <2>1, AloneKeeps DEF Creating, Reaping
<1> QED BY <1>6, <1>7, <1>8, <1>9, Zenon DEF LifeInv

\* A step of p that leaves the table and the free list as they are, but for
\* waiting processes that are woken and for parents and address spaces.
LEMMA StepKeeps ==
    ASSUME LifeInv, NEW p \in Pid, NEW l, TableStep(p, l), TypeOK', UNCHANGED freeList,
           \A q \in Pid \ {p} : pc[q] \in {"none", "user", "asleep", "gone"},
           \A q \in Pid \ {p} : reg'[q] = reg[q],
           \/ l \notin Creating \cup Reaping \cup {"push"} /\ reg'[p] = Null
           \/ l \in Reaping /\ reg'[p] # Null /\ slot_in_use[reg'[p]] /\ pc[proc[reg'[p]].pid] = "gone"
    PROVE  LifeInv'
<1>1. TypeOK /\ OneIn /\ TableInv /\ RegInv /\ ListInv
  BY Zenon DEF LifeInv
<1>2. \A q \in Pid : pc'[q] = IF q = p THEN l ELSE pc[q]
  BY <1>1 DEF TableStep, Goto, TypeOK
<1>3. TableInv'
  BY <1>1, TableFrame, Zenon
<1>4. ListInv'
  <2>1. \A q \in Pid : pc'[q] # "push"
    BY <1>2, Zenon DEF Reaping
  <2>2. slot_in_use' = slot_in_use
    BY Zenon DEF TableStep
  <2> QED BY <1>1, <2>1, <2>2, ListFrame, Zenon
<1>5. OneIn' /\ RegInv'
  <2>1. l \in Reaping => slot_in_use'[reg'[p]] /\ pc'[proc'[reg'[p]].pid] = "gone"
    <3> SUFFICES ASSUME l \in Reaping PROVE slot_in_use'[reg'[p]] /\ pc'[proc'[reg'[p]].pid] = "gone"
      BY Zenon
    <3>1. reg'[p] \in Slot /\ slot_in_use[reg'[p]] /\ pc[proc[reg'[p]].pid] = "gone"
      BY Zenon DEF TypeOK, Reaping
    <3>2. proc'[reg'[p]].pid = proc[reg'[p]].pid /\ proc[reg'[p]].pid \in Pid /\ proc[reg'[p]].pid # p
      BY <1>1, <3>1, Zenon DEF TableStep, TableInv
    <3> QED BY <1>2, <3>1, <3>2 DEF TableStep
  <2> QED BY <1>1, <1>2, <2>1, AloneKeeps DEF Creating, Reaping
<1> QED BY <1>3, <1>4, <1>5, Zenon DEF LifeInv

\* The calls that change no process.
LEMMA PlainKeeps ==
    ASSUME LifeInv, Cpus = 1, NEW p \in Pid, NEW w,
           (CloneFails(p) /\ pc[p] \in Creating) \/ UserPages(p) \/ Wait4(p, w) \/ Resume(p)
    PROVE  LifeInv'
<1>1. TypeOK /\ OneIn /\ TableInv /\ RegInv /\ ListInv
  BY Zenon DEF LifeInv
<1>2. PICK l \in {"user", "wakeParent", "scan"} :
        /\ Goto(p, l)
        /\ l \in Dying <=> pc[p] \in Dying
        /\ pc[p] \in Creating \cup {"userPages", "user", "asleep"}
        /\ Me(p).state # "blocked_on_wait" \/ pc[p] # "asleep"
  BY Zenon DEF CloneFails, UserPages, Wait4, Resume, At, Dying, Creating
<1>3. UNCHANGED <<proc, slot_in_use, my, next_pid, freeList>>
  BY Zenon DEF CloneFails, UserPages, Wait4, Resume, table
<1>4. \A q \in Pid \ {p} : pc[q] \in {"none", "user", "asleep", "gone"}
  <2>1. InKernel(p) \/ CpuFree
    BY Zenon DEF CloneFails, UserPages, Wait4, Resume, InKernel, At, Creating
  <2> QED BY <1>1, <2>1, AloneIn, Zenon
<1>5. TableStep(p, l)
  BY <1>2, <1>3, Zenon DEF TableStep, Creating
<1>6. reg'[p] = Null /\ \A q \in Pid \ {p} : reg'[q] = reg[q]
  BY <1>1, Zenon DEF CloneFails, UserPages, Wait4, Resume, TypeOK, RegInv, At, Creating, Reaping
<1>7. TypeOK'
  <2>1. space' \in [Pid -> {"none", "live", "empty", "freed"}]
    BY <1>1 DEF CloneFails, UserPages, Wait4, Resume, TypeOK
  <2>2. reg' \in [Pid -> Slot \cup {Null}]
    BY <1>1, Zenon DEF CloneFails, UserPages, Wait4, Resume, TypeOK
  <2>3. pc' \in [Pid -> {"none", "user", "fork", "kstack", "vm", "clone", "reparent", "wakeInit",
                         "userPages", "wakeParent", "schedule", "scan", "shared", "destroy",
                         "keep", "clearSlot", "push", "block", "asleep", "gone"}]
    BY <1>1, <1>2, Zenon DEF Goto, TypeOK
  <2> QED BY <1>1, <1>3, <2>1, <2>2, <2>3 DEF TypeOK, freeList
<1>8. l \notin Creating \cup Reaping \cup {"push"}
  BY Zenon DEF Creating, Reaping
<1> QED BY <1>3, <1>4, <1>5, <1>6, <1>7, <1>8, StepKeeps, Zenon

\* fork makes an address space for the child.
LEMMA ForkKeeps ==
    ASSUME LifeInv, Cpus = 1, NEW p \in Pid, ForkSpace(p)
    PROVE  LifeInv'
<1>1. TypeOK /\ OneIn /\ TableInv /\ RegInv /\ ListInv /\ pc[p] = "fork"
  BY Zenon DEF LifeInv, ForkSpace, At
<1>2. CASE CloneFails(p)
  BY <1>1, <1>2, PlainKeeps, Zenon DEF Creating
<1>3. CASE ~ CloneFails(p)
  <2>1. Goto(p, "kstack") /\ UNCHANGED <<proc, slot_in_use, freeList, next_pid, space, my, reg>>
    BY <1>3, Zenon DEF ForkSpace, table
  <2>2. \A q \in Pid \ {p} : pc[q] \in {"none", "user", "asleep", "gone"}
    BY <1>1, AloneIn, Zenon DEF InKernel
  <2>3. \A q \in Pid : pc'[q] = IF q = p THEN "kstack" ELSE pc[q]
    BY <1>1, <2>1, Zenon DEF TypeOK, Goto
  <2>4. TypeOK'
    BY <1>1, <2>1, Zenon DEF TypeOK, Goto, freeList
  <2>5. TableInv'
    <3>1. TableStep(p, "kstack")
      BY <1>1, <2>1, Zenon DEF TableStep, Dying
    <3> QED BY <1>1, <3>1, TableFrame, Zenon
  <2>6. ListInv'
    <3>1. \A q \in Pid : pc'[q] # "push"
      BY <2>2, <2>3, Zenon
    <3> QED BY <1>1, <2>1, <3>1, ListFrame, Zenon
  <2>7. OneIn' /\ RegInv'
    <3>1. reg[p] # Null /\ ~ slot_in_use[reg[p]]
      BY <1>1, Zenon DEF RegInv, Creating
    <3> QED BY <1>1, <2>1, <2>2, <2>3, <3>1, AloneKeeps, Zenon DEF Creating, Reaping
  <2> QED BY <2>4, <2>5, <2>6, <2>7, Zenon DEF LifeInv
<1> QED BY <1>2, <1>3, Zenon

-----------------------------------------------------------------------------
(* wait4.                                                                  *)

\* The zombie found, if there is one.
LEMMA FirstZombie ==
    ASSUME TypeOK, NEW p \in Pid, Zombies(p) # {}
    PROVE  (CHOOSE s \in Zombies(p) : \A t \in Zombies(p) : s <= t) \in Zombies(p)
<1>1. Zombies(p) \subseteq Nat
  BY LifecycleAssumption DEF Zombies, Children, Slot
<1>2. \E s \in Zombies(p) : \A t \in Zombies(p) : s <= t
  BY <1>1, LeastNat, Zenon
<1> QED BY <1>2, Zenon

LEMMA ScanKeeps ==
    ASSUME LifeInv, Cpus = 1, NEW p \in Pid, Scan(p)
    PROVE  LifeInv'
<1>1. TypeOK /\ OneIn /\ TableInv /\ RegInv /\ ListInv /\ pc[p] = "scan"
  BY Zenon DEF LifeInv, Scan, At
<1>2. \A q \in Pid \ {p} : pc[q] \in {"none", "user", "asleep", "gone"}
  BY <1>1, AloneIn DEF InKernel
<1>3. UNCHANGED <<proc, slot_in_use, my, next_pid, freeList, space>>
  BY DEF Scan, table
<1>4. CASE Zombies(p) # {}
  <2> DEFINE s == CHOOSE s \in Zombies(p) : \A t \in Zombies(p) : s <= t
  <2>1. Goto(p, "shared") /\ reg' = [reg EXCEPT ![p] = s]
    BY <1>4, Zenon DEF Scan
  <2>2. s \in Zombies(p)
    BY <1>1, <1>4, FirstZombie
  <2> HIDE DEF s
  <2>3. s \in Slot /\ slot_in_use[s] /\ proc[s].state = "zombie"
    BY <2>2, Zenon DEF Zombies, Children
  <2>4. proc[s].pid \in Pid /\ pc[proc[s].pid] \in Dying \cup {"gone"}
    BY <1>1, <2>3, Zenon DEF TableInv
  <2>5. pc[proc[s].pid] = "gone"
    BY <1>1, <1>2, <2>4, Zenon DEF Dying
  <2>6. reg'[p] = s /\ \A q \in Pid \ {p} : reg'[q] = reg[q]
    BY <1>1, <2>1, Zenon DEF TypeOK
  <2>7. TypeOK'
    BY <1>1, <1>3, <2>1, <2>3 DEF TypeOK, Goto, freeList
  <2>8. TableStep(p, "shared")
    BY <1>1, <1>3, <2>1, Zenon DEF TableStep, Dying
  <2> QED BY <1>2, <1>3, <2>3, <2>5, <2>6, <2>7, <2>8, StepKeeps, Facts DEF Reaping
<1>5. CASE Zombies(p) = {}
  <2>1. PICK l \in {"user", "block"} : Goto(p, l)
    BY <1>5, Zenon DEF Scan
  <2>2. reg' = reg /\ reg[p] = Null
    BY <1>1, <1>5, Zenon DEF Scan, RegInv, Creating, Reaping
  <2>3. TypeOK'
    BY <1>1, <1>3, <2>1, <2>2 DEF TypeOK, Goto, freeList
  <2>4. TableStep(p, l)
    BY <1>1, <1>3, <2>1 DEF TableStep, Dying
  <2>5. l \notin Creating \cup Reaping \cup {"push"}
    BY Zenon DEF Creating, Reaping
  <2> QED BY <1>2, <1>3, <2>2, <2>3, <2>4, <2>5, StepKeeps
<1> QED BY <1>4, <1>5, Zenon

LEMMA CheckSharedKeeps ==
    ASSUME LifeInv, Cpus = 1, NEW p \in Pid, CheckShared(p)
    PROVE  LifeInv'
<1>1. TypeOK /\ OneIn /\ TableInv /\ RegInv /\ ListInv /\ pc[p] = "shared"
  BY Zenon DEF LifeInv, CheckShared, At
<1>2. \A q \in Pid \ {p} : pc[q] \in {"none", "user", "asleep", "gone"}
  BY <1>1, AloneIn, Zenon DEF InKernel
<1>3. UNCHANGED <<proc, slot_in_use, my, next_pid, freeList, space, reg>>
  BY Zenon DEF CheckShared, table
<1>4. PICK l \in {"keep", "destroy"} : Goto(p, l)
  BY Zenon DEF CheckShared
<1>5. TypeOK'
  BY <1>1, <1>3, <1>4, Zenon DEF TypeOK, Goto, freeList
<1>6. TableStep(p, l)
  BY <1>1, <1>3, <1>4, Zenon DEF TableStep, Dying
<1>7. reg[p] # Null /\ slot_in_use[reg[p]] /\ pc[proc[reg[p]].pid] = "gone" /\ l \in Reaping
  BY <1>1, Zenon DEF RegInv, Reaping
<1> QED BY <1>2, <1>3, <1>5, <1>6, <1>7, StepKeeps

\* What DestroySpace and ClearSlot do to the child in hand.
LEMMA InHand ==
    ASSUME LifeInv, NEW p \in Pid, pc[p] \in Reaping
    PROVE  /\ reg[p] \in Slot /\ slot_in_use[reg[p]] /\ pc[proc[reg[p]].pid] = "gone"
           /\ proc[reg[p]].pid \in Pid /\ proc[reg[p]].pid # p /\ proc[reg[p]].state = "zombie"
<1>1. reg[p] \in Slot \cup {Null} /\ reg[p] # Null
  BY Zenon DEF LifeInv, TypeOK, RegInv
<1>2. slot_in_use[reg[p]] /\ pc[proc[reg[p]].pid] = "gone"
  BY Zenon DEF LifeInv, RegInv
<1>3. proc[reg[p]].pid \in Pid /\ proc[reg[p]].state = "zombie"
  BY <1>1, <1>2, Zenon DEF LifeInv, TableInv
<1>4. pc[p] # "gone"
  BY Zenon DEF Reaping
<1> QED BY <1>1, <1>2, <1>3, <1>4, Zenon

LEMMA DestroyKeeps ==
    ASSUME LifeInv, Cpus = 1, NEW p \in Pid, DestroySpace(p)
    PROVE  LifeInv'
<1>1. TypeOK /\ OneIn /\ TableInv /\ RegInv /\ ListInv /\ pc[p] \in {"keep", "destroy"}
  BY Zenon DEF LifeInv, DestroySpace, At
<1>2. \A q \in Pid \ {p} : pc[q] \in {"none", "user", "asleep", "gone"}
  BY <1>1, AloneIn, Zenon DEF InKernel
<1>3. UNCHANGED <<slot_in_use, my, next_pid, freeList, reg>> /\ Goto(p, "clearSlot")
  BY Zenon DEF DestroySpace
<1>4. reg[p] \in Slot /\ slot_in_use[reg[p]] /\ pc[proc[reg[p]].pid] = "gone"
  BY <1>1, InHand, Zenon DEF Reaping
<1>5. /\ proc' = [proc EXCEPT ![reg[p]].pt = 0]
      /\ \A s \in Slot : proc'[s].pid = proc[s].pid /\ proc'[s].state = proc[s].state
  BY <1>1, <1>4 DEF DestroySpace, TypeOK
<1>6. proc' \in [Slot -> [pid : 0 .. MaxPid, tgid : 0 .. MaxPid, parent : 0 .. MaxPid,
                          pt : 0 .. MaxPid, state : {"live", "blocked_on_wait", "zombie"}]]
  BY <1>1, <1>4, <1>5, LifecycleAssumption DEF TypeOK
<1>7. space' \in [Pid -> {"none", "live", "empty", "freed"}]
  BY <1>1, Zenon DEF TypeOK, DestroySpace
<1>8. TypeOK'
  BY <1>1, <1>3, <1>6, <1>7, Zenon DEF TypeOK, Goto, freeList
<1>9. TableStep(p, "clearSlot")
  BY <1>1, <1>3, <1>5, Zenon DEF TableStep, Dying
<1> QED BY <1>2, <1>3, <1>4, <1>8, <1>9, StepKeeps, Facts, Zenon DEF Reaping

LEMMA ClearKeeps ==
    ASSUME LifeInv, Cpus = 1, NEW p \in Pid, ClearSlot(p)
    PROVE  LifeInv'
<1>1. TypeOK /\ OneIn /\ TableInv /\ RegInv /\ ListInv /\ pc[p] = "clearSlot"
  BY Zenon DEF LifeInv, ClearSlot, At
<1>2. \A q \in Pid \ {p} : pc[q] \in {"none", "user", "asleep", "gone"}
  BY <1>1, AloneIn, Zenon DEF InKernel
<1>3. UNCHANGED <<proc, free_head, next_pid, space, my, reg>> /\ Goto(p, "push")
  BY Zenon DEF ClearSlot
<1>4. /\ reg[p] \in Slot /\ slot_in_use[reg[p]] /\ pc[proc[reg[p]].pid] = "gone"
      /\ proc[reg[p]].pid \in Pid /\ proc[reg[p]].pid # p
  BY <1>1, InHand, Zenon DEF Reaping
<1>5. /\ slot_in_use' = [slot_in_use EXCEPT ![reg[p]] = FALSE]
      /\ free_next' = [free_next EXCEPT ![reg[p]] = free_head]
  BY Zenon DEF ClearSlot
<1>6. \A q \in Pid : pc'[q] = IF q = p THEN "push" ELSE pc[q]
  BY <1>1, <1>3, Zenon DEF TypeOK, Goto
<1>7. \A s \in Slot : slot_in_use'[s] = IF s = reg[p] THEN FALSE ELSE slot_in_use[s]
  BY <1>1, <1>4, <1>5 DEF TypeOK
<1>8. TypeOK'
  BY <1>1, <1>3, <1>4, <1>5 DEF TypeOK, Goto
<1>9. ListInv'
  <2>1. \A q \in Pid : pc'[q] = "push" => q = p
    BY <1>2, <1>6
  <2> QED BY <1>1, <1>3, <1>4, <1>5, <2>1, ListLinked, Zenon
<1>10. TableInv'
  <2>1. \A q \in Pid : /\ pc'[q] = "none" <=> q >= next_pid'
                       /\ my'[q] = Null <=> pc'[q] \in {"none", "gone"}
    BY <1>1, <1>3, <1>6 DEF TableInv
  <2>2. ASSUME NEW q \in Pid, my'[q] # Null
        PROVE  slot_in_use'[my'[q]] /\ proc'[my'[q]].pid = q
    <3>1. my[q] \in Slot /\ slot_in_use[my[q]] /\ proc[my[q]].pid = q /\ pc[q] # "gone"
      BY <1>1, <1>3, <2>2 DEF TableInv, TypeOK
    <3>2. my[q] # reg[p]
      BY <1>4, <3>1, Zenon
    <3> QED BY <1>3, <1>7, <3>1, <3>2, Zenon
  <2>3. ASSUME NEW s \in Slot, slot_in_use'[s]
        PROVE  /\ proc'[s].pid \in Pid /\ pc'[proc'[s].pid] # "none"
               /\ proc'[s].state = "zombie" <=> pc'[proc'[s].pid] \in Dying \cup {"gone"}
               /\ proc'[s].state = "blocked_on_wait" => pc'[proc'[s].pid] = "asleep"
    <3>1. slot_in_use[s] /\ proc' = proc
      BY <1>3, <1>7, <2>3, Zenon
    <3>2. /\ proc[s].pid \in Pid /\ pc[proc[s].pid] # "none"
          /\ proc[s].state = "zombie" <=> pc[proc[s].pid] \in Dying \cup {"gone"}
          /\ proc[s].state = "blocked_on_wait" => pc[proc[s].pid] = "asleep"
      BY <1>1, <3>1 DEF TableInv
    <3> QED BY <1>1, <1>6, <3>1, <3>2 DEF Dying
  <2>4. \A s, t \in Slot : slot_in_use'[s] /\ slot_in_use'[t] /\ proc'[s].pid = proc'[t].pid => s = t
    BY <1>1, <1>3, <1>7, Zenon DEF TableInv
  <2> QED BY <2>1, <2>2, <2>3, <2>4 DEF TableInv
<1>11. OneIn' /\ RegInv'
  <2>1. ~ slot_in_use'[reg'[p]] /\ reg'[p] # Null
    BY <1>3, <1>4, <1>7, Facts, Zenon
  <2> QED BY <1>1, <1>2, <1>3, <1>6, <2>1, AloneKeeps, Zenon DEF Creating, Reaping
<1> QED BY <1>8, <1>9, <1>10, <1>11, Zenon DEF LifeInv

LEMMA PushKeeps ==
    ASSUME LifeInv, Cpus = 1, NEW p \in Pid, Push(p)
    PROVE  LifeInv'
<1>1. TypeOK /\ OneIn /\ TableInv /\ RegInv /\ ListInv /\ pc[p] = "push"
  BY Zenon DEF LifeInv, Push, At
<1>2. \A q \in Pid \ {p} : pc[q] \in {"none", "user", "asleep", "gone"}
  BY <1>1, AloneIn, Zenon DEF InKernel
<1>3. /\ UNCHANGED <<proc, slot_in_use, free_next, next_pid, space, my>> /\ Goto(p, "user")
      /\ free_head' = reg[p] /\ reg' = [reg EXCEPT ![p] = Null]
  BY Zenon DEF Push, table
<1>4. reg[p] \in Slot /\ ~ slot_in_use[reg[p]] /\ \A q \in Pid \ {p} : reg[q] = Null
  BY <1>1, <1>2, Zenon DEF RegInv, Creating, Reaping, TypeOK
<1>5. \A q \in Pid : /\ pc'[q] = IF q = p THEN "user" ELSE pc[q]
                     /\ reg'[q] = IF q = p THEN Null ELSE reg[q]
  BY <1>1, <1>3 DEF TypeOK, Goto
<1>6. TypeOK'
  BY <1>1, <1>3, <1>4 DEF TypeOK, Goto
<1>7. ListInv'
  <2>1. \A q \in Pid : pc'[q] # "push"
    BY <1>2, <1>5, Zenon
  <2> QED BY <1>1, <1>3, <1>4, <2>1, ListPushed, Zenon
<1>8. TableInv'
  <2>1. TableStep(p, "user")
    BY <1>1, <1>3, Zenon DEF TableStep, Dying
  <2> QED BY <1>1, <2>1, TableFrame
<1>9. OneIn' /\ RegInv'
  BY <1>1, <1>2, <1>5, AloneKeeps DEF Creating, Reaping
<1> QED BY <1>6, <1>7, <1>8, <1>9, Zenon DEF LifeInv

-----------------------------------------------------------------------------
(* exit, and the sleep of a parent.                                        *)

\* The steps of exit after the process is marked a zombie, but for the last.
LEMMA DyingKeeps ==
    ASSUME LifeInv, Cpus = 1, NEW p \in Pid, Reparent(p) \/ WakeInit(p) \/ WakeParent(p)
    PROVE  LifeInv'
<1>1. /\ TypeOK /\ OneIn /\ TableInv /\ RegInv /\ ListInv
      /\ pc[p] \in {"reparent", "wakeInit", "wakeParent"}
  BY Zenon DEF LifeInv, Reparent, WakeInit, WakeParent, At
<1>2. \A q \in Pid \ {p} : pc[q] \in {"none", "user", "asleep", "gone"}
  BY <1>1, AloneIn DEF InKernel
<1>3. UNCHANGED <<slot_in_use, my, next_pid, freeList, reg, space>>
  BY Zenon DEF Reparent, WakeInit, WakeParent
<1>4. PICK l \in {"wakeInit", "userPages", "schedule"} : Goto(p, l)
  BY Zenon DEF Reparent, WakeInit, WakeParent
<1>5. /\ proc' \in [Slot -> [pid : 0 .. MaxPid, tgid : 0 .. MaxPid, parent : 0 .. MaxPid,
                             pt : 0 .. MaxPid, state : {"live", "blocked_on_wait", "zombie"}]]
      /\ \A s \in Slot : /\ proc'[s].pid = proc[s].pid
                         /\ \/ proc'[s].state = proc[s].state
                            \/ proc[s].state = "blocked_on_wait" /\ proc'[s].state = "live"
  <2>1. CASE Reparent(p)
    <3>1. CASE proc' = proc
      BY <1>1, <3>1 DEF TypeOK
    <3>2. CASE proc' = Adopt(p)
      <4> DEFINE R == [pid : 0 .. MaxPid, tgid : 0 .. MaxPid, parent : 0 .. MaxPid,
                       pt : 0 .. MaxPid, state : {"live", "blocked_on_wait", "zombie"}]
                 kin(s) == [proc[s] EXCEPT !.parent = InitPid]
      <4>1. InitPid \in 0 .. MaxPid
        BY Facts, Zenon
      <4>2. \A s \in Slot : proc[s] \in R
        BY <1>1, Zenon DEF TypeOK
      <4>3. ASSUME NEW s \in Slot
            PROVE  kin(s) \in R /\ kin(s).pid = proc[s].pid /\ kin(s).state = proc[s].state
        BY <4>1, <4>2
      <4> HIDE DEF R, kin
      <4>4. proc' = [s \in Slot |-> IF /\ slot_in_use[s] /\ proc[s].parent = Me(p).pid
                                       /\ proc[s].pid # Me(p).pid
                                    THEN kin(s) ELSE proc[s]]
        BY <3>2, Zenon DEF Adopt, kin
      <4>5. proc' \in [Slot -> R]
        BY <4>2, <4>3, <4>4, Zenon
      <4>6. \A s \in Slot : proc'[s] = proc[s] \/ proc'[s] = kin(s)
        BY <4>4, Zenon
      <4> QED BY <4>3, <4>5, <4>6, Zenon DEF R
    <3> QED BY <2>1, <3>1, <3>2, Zenon DEF Reparent
  <2>2. ASSUME NEW pid, Wake(pid) PROVE <1>5!1 /\ <1>5!2
    BY <1>1, <2>2 DEF TypeOK, Wake
  <2> QED BY <2>1, <2>2, Zenon DEF WakeInit, WakeParent
<1>6. TypeOK'
  BY <1>1, <1>3, <1>4, <1>5 DEF TypeOK, Goto, freeList
<1>7. TableStep(p, l)
  BY <1>1, <1>3, <1>4, <1>5 DEF TableStep, Dying
<1>8. reg'[p] = Null /\ l \notin Creating \cup Reaping \cup {"push"}
  BY <1>1, <1>3, Zenon DEF RegInv, Creating, Reaping
<1> QED BY <1>2, <1>3, <1>6, <1>7, <1>8, StepKeeps

\* A process changes the state of its own slot.
LEMMA OwnStateKeeps ==
    ASSUME LifeInv, Cpus = 1, NEW p \in Pid, Exit(p) \/ Block(p)
    PROVE  LifeInv'
<1>1. TypeOK /\ OneIn /\ TableInv /\ RegInv /\ ListInv /\ pc[p] \in {"user", "block"}
  BY Zenon DEF LifeInv, Exit, Block, At
<1>2. \A q \in Pid \ {p} : pc[q] \in {"none", "user", "asleep", "gone"}
  <2>1. InKernel(p) \/ CpuFree
    BY Zenon DEF Exit, Block, InKernel, At
  <2> QED BY <1>1, <2>1, AloneIn, Zenon
<1>3. UNCHANGED <<slot_in_use, my, next_pid, freeList, reg, space>>
  BY Zenon DEF Exit, Block
<1>4. PICK l \in {"reparent", "asleep"} :
        /\ Goto(p, l)
        /\ proc' = [proc EXCEPT ![my[p]].state = IF l = "reparent" THEN "zombie" ELSE "blocked_on_wait"]
  BY Zenon DEF Exit, Block
<1>5. my[p] \in Slot /\ slot_in_use[my[p]] /\ proc[my[p]].pid = p
  BY <1>1, OwnSlot, Zenon
<1>6. /\ \A s \in Slot : /\ proc'[s].pid = proc[s].pid
                         /\ proc'[s].state = IF s # my[p] THEN proc[s].state
                                          ELSE IF l = "reparent" THEN "zombie" ELSE "blocked_on_wait"
      /\ proc' \in [Slot -> [pid : 0 .. MaxPid, tgid : 0 .. MaxPid, parent : 0 .. MaxPid,
                             pt : 0 .. MaxPid, state : {"live", "blocked_on_wait", "zombie"}]]
  BY <1>1, <1>4, <1>5 DEF TypeOK
<1>7. \A q \in Pid : pc'[q] = IF q = p THEN l ELSE pc[q]
  BY <1>1, <1>4 DEF TypeOK, Goto
<1>8. TypeOK'
  BY <1>1, <1>3, <1>4, <1>6 DEF TypeOK, Goto, freeList
<1>9. TableInv'
  <2>1. \A q \in Pid : /\ pc'[q] = "none" <=> q >= next_pid'
                       /\ my'[q] = Null <=> pc'[q] \in {"none", "gone"}
                       /\ my'[q] # Null => slot_in_use'[my'[q]] /\ proc'[my'[q]].pid = q
    BY <1>1, <1>3, <1>4, <1>6, <1>7 DEF TableInv, TypeOK
  <2>2. ASSUME NEW s \in Slot, slot_in_use'[s]
        PROVE  /\ proc'[s].pid \in Pid /\ pc'[proc'[s].pid] # "none"
               /\ proc'[s].state = "zombie" <=> pc'[proc'[s].pid] \in Dying \cup {"gone"}
               /\ proc'[s].state = "blocked_on_wait" => pc'[proc'[s].pid] = "asleep"
    <3>1. /\ slot_in_use[s] /\ proc[s].pid \in Pid /\ pc[proc[s].pid] # "none"
          /\ proc[s].state = "zombie" <=> pc[proc[s].pid] \in Dying \cup {"gone"}
          /\ proc[s].state = "blocked_on_wait" => pc[proc[s].pid] = "asleep"
      BY <1>1, <1>3, <2>2, Zenon DEF TableInv
    <3>2. CASE s = my[p]
      BY <1>4, <1>5, <1>6, <1>7, <3>2 DEF Dying
    <3>3. CASE s # my[p]
      <4>1. proc[s].pid # p
        BY <1>1, <1>5, <3>1, <3>3, SameSlot, Zenon
      <4>2. proc'[s].pid = proc[s].pid /\ proc'[s].state = proc[s].state
        BY <1>6, <3>3, Zenon
      <4>3. pc'[proc[s].pid] = pc[proc[s].pid]
        BY <1>7, <3>1, <4>1, Zenon
      <4> QED BY <3>1, <4>2, <4>3, Zenon
    <3> QED BY <3>2, <3>3, Zenon
  <2>3. \A s, t \in Slot : slot_in_use'[s] /\ slot_in_use'[t] /\ proc'[s].pid = proc'[t].pid => s = t
    <3> SUFFICES ASSUME NEW s \in Slot, NEW t \in Slot, slot_in_use'[s], slot_in_use'[t],
                        proc'[s].pid = proc'[t].pid
                 PROVE  s = t
      BY Zenon
    <3>1. slot_in_use[s] /\ slot_in_use[t] /\ proc[s].pid = proc[t].pid
      BY <1>3, <1>6, Zenon
    <3> QED BY <1>1, <3>1, SameSlot, Zenon
  <2> QED BY <2>1, <2>2, <2>3, Zenon DEF TableInv
<1>10. ListInv'
  <2>1. \A q \in Pid : pc'[q] # "push"
    BY <1>2, <1>4, <1>7
  <2> QED BY <1>1, <1>3, <2>1, ListFrame, Zenon
<1>11. OneIn' /\ RegInv'
  <2>1. reg'[p] = Null /\ l \notin Creating \cup Reaping \cup {"push"}
    BY <1>1, <1>3, <1>4 DEF RegInv, Creating, Reaping
  <2>2. pc'[p] = l /\ \A q \in Pid \ {p} : pc'[q] = pc[q] /\ reg'[q] = reg[q]
    BY <1>3, <1>7, Zenon
  <2> QED BY <1>1, <1>2, <2>1, <2>2, AloneKeeps DEF Creating, Reaping
<1> QED BY <1>8, <1>9, <1>10, <1>11, Zenon DEF LifeInv

LEMMA ScheduleKeeps ==
    ASSUME LifeInv, Cpus = 1, NEW p \in Pid, Schedule(p)
    PROVE  LifeInv'
<1>1. TypeOK /\ OneIn /\ TableInv /\ RegInv /\ ListInv /\ pc[p] = "schedule"
  BY Zenon DEF LifeInv, Schedule, At
<1>2. \A q \in Pid \ {p} : pc[q] \in {"none", "user", "asleep", "gone"}
  BY <1>1, AloneIn, Zenon DEF InKernel
<1>3. UNCHANGED <<proc, slot_in_use, next_pid, freeList, reg, space>>
  BY Zenon DEF Schedule, table
<1>4. \A q \in Pid : /\ pc'[q] = IF q = p THEN "gone" ELSE pc[q]
                     /\ my'[q] = IF q = p THEN Null ELSE my[q]
  BY <1>1, Zenon DEF TypeOK, Goto, Schedule
<1>5. TypeOK'
  BY <1>1, <1>3, Zenon DEF TypeOK, Schedule, Goto, freeList
<1>6. TableInv'
  <2>1. \A q \in Pid : /\ pc'[q] = "none" <=> q >= next_pid'
                       /\ my'[q] = Null <=> pc'[q] \in {"none", "gone"}
                       /\ my'[q] # Null => slot_in_use'[my'[q]] /\ proc'[my'[q]].pid = q
    BY <1>1, <1>3, <1>4 DEF TableInv
  <2>2. ASSUME NEW s \in Slot, slot_in_use'[s]
        PROVE  /\ proc'[s].pid \in Pid /\ pc'[proc'[s].pid] # "none"
               /\ proc'[s].state = "zombie" <=> pc'[proc'[s].pid] \in Dying \cup {"gone"}
               /\ proc'[s].state = "blocked_on_wait" => pc'[proc'[s].pid] = "asleep"
    <3>1. /\ slot_in_use[s] /\ proc' = proc /\ proc[s].pid \in Pid /\ pc[proc[s].pid] # "none"
          /\ proc[s].state = "zombie" <=> pc[proc[s].pid] \in Dying \cup {"gone"}
          /\ proc[s].state = "blocked_on_wait" => pc[proc[s].pid] = "asleep"
      BY <1>1, <1>3, <2>2, Zenon DEF TableInv
    <3> QED BY <1>1, <1>4, <3>1, Zenon DEF Dying
  <2>3. \A s, t \in Slot : slot_in_use'[s] /\ slot_in_use'[t] /\ proc'[s].pid = proc'[t].pid => s = t
    BY <1>1, <1>3, Zenon DEF TableInv
  <2> QED BY <2>1, <2>2, <2>3, Zenon DEF TableInv
<1>7. ListInv'
  <2>1. \A q \in Pid : pc'[q] # "push"
    BY <1>2, <1>4, Zenon
  <2> QED BY <1>1, <1>3, <2>1, ListFrame
<1>8. OneIn' /\ RegInv'
  <2>1. reg'[p] = Null
    BY <1>1, <1>3, Zenon DEF RegInv, Creating, Reaping
  <2> QED BY <1>1, <1>2, <1>3, <1>4, <2>1, AloneKeeps DEF Creating, Reaping
<1> QED BY <1>5, <1>6, <1>7, <1>8, Zenon DEF LifeInv

\* clone ends: the slot in hand becomes the new process.
LEMMA CloneDoneKeeps ==
    ASSUME LifeInv, Cpus = 1, NEW p \in Pid, CloneDone(p)
    PROVE  LifeInv'
<1>1. TypeOK /\ OneIn /\ TableInv /\ RegInv /\ ListInv /\ pc[p] \in Creating
  BY Zenon DEF LifeInv, CloneDone, At, Creating
<1>2. \A q \in Pid \ {p} : pc[q] \in {"none", "user", "asleep", "gone"}
  BY <1>1, AloneIn DEF InKernel, Creating
<1>3. PICK new \in Pid : new = next_pid
  BY <1>1 DEF CloneDone, TypeOK, Pid
<1>4. PICK s \in Slot : s = reg[p]
  BY <1>1, Zenon DEF RegInv, TypeOK
<1>5. /\ ~ slot_in_use[s] /\ pc[new] = "none" /\ my[new] = Null /\ p # new
      /\ \A q \in Pid : my[q] # s
  <2>1. ~ slot_in_use[s]
    BY <1>1, <1>4, Zenon DEF RegInv
  <2>2. new >= next_pid
    BY <1>3 DEF Pid
  <2>3. pc[new] = "none" /\ my[new] = Null
    BY <1>1, <2>2, Zenon DEF TableInv
  <2>4. p # new
    BY <1>1, <2>3, Zenon DEF Creating
  <2>5. \A q \in Pid : my[q] # s
    <3>1. s # Null
      BY Facts, Zenon
    <3>2. \A q \in Pid : my[q] # Null => slot_in_use[my[q]]
      BY <1>1, Zenon DEF TableInv
    <3> QED BY <2>1, <3>1, <3>2, Zenon
  <2> QED BY <2>1, <2>3, <2>4, <2>5, Zenon
<1>6. PICK r : /\ r \in [pid : 0 .. MaxPid, tgid : 0 .. MaxPid, parent : 0 .. MaxPid, pt : 0 .. MaxPid,
                         state : {"live", "blocked_on_wait", "zombie"}]
               /\ r.pid = new /\ r.state = "live" /\ proc' = [proc EXCEPT ![s] = r]
  <2>1. my[p] \in Slot
    <3>1. my[p] # Null
      BY <1>1, Zenon DEF TableInv, Creating
    <3> QED BY <1>1, <3>1, Zenon DEF TypeOK
  <2>2. Me(p).tgid \in 0 .. MaxPid /\ Me(p).pt \in 0 .. MaxPid /\ new \in 0 .. MaxPid /\ p \in 0 .. MaxPid
    BY <1>1, <2>1, Facts DEF Me, TypeOK
  <2> DEFINE r0 == [pid |-> new, parent |-> p, state |-> "live",
                    tgid |-> IF At(p, "clone") THEN Me(p).tgid ELSE new,
                    pt |-> IF At(p, "kstack") THEN new ELSE Me(p).pt]
  <2>3. proc' = [proc EXCEPT ![s] = r0]
    BY <1>3, <1>4 DEF CloneDone
  <2>4. /\ r0 \in [pid : 0 .. MaxPid, tgid : 0 .. MaxPid, parent : 0 .. MaxPid, pt : 0 .. MaxPid,
                   state : {"live", "blocked_on_wait", "zombie"}]
        /\ r0.pid = new /\ r0.state = "live"
    BY <2>2
  <2> HIDE DEF r0
  <2> QED BY <2>3, <2>4, Zenon
<1>7. /\ next_pid' = new + 1 /\ slot_in_use' = [slot_in_use EXCEPT ![s] = TRUE]
      /\ pc' = [pc EXCEPT ![p] = "user", ![new] = "user"] /\ my' = [my EXCEPT ![new] = s]
      /\ reg' = [reg EXCEPT ![p] = Null] /\ UNCHANGED freeList
  BY <1>3, <1>4 DEF CloneDone
<1>8. /\ \A q \in Pid : /\ pc'[q] = IF q \in {p, new} THEN "user" ELSE pc[q]
                        /\ my'[q] = IF q = new THEN s ELSE my[q]
                        /\ reg'[q] = IF q = p THEN Null ELSE reg[q]
      /\ \A t \in Slot : /\ proc'[t] = IF t = s THEN r ELSE proc[t]
                         /\ slot_in_use'[t] <=> t = s \/ slot_in_use[t]
  BY <1>1, <1>6, <1>7 DEF TypeOK
<1>9. TypeOK'
  <2>1. space' \in [Pid -> {"none", "live", "empty", "freed"}]
    BY <1>1, <1>3 DEF CloneDone, TypeOK
  <2>2. new + 1 \in 1 .. MaxPid + 1
    BY LifecycleAssumption DEF Pid
  <2> QED BY <1>1, <1>6, <1>7, <2>1, <2>2, Zenon DEF TypeOK, freeList
<1>10. TableInv'
  <2>1. \A q \in Pid : q = new \/ (q >= new + 1 <=> q >= new)
    BY DEF Pid
  <2>2. \A q \in Pid : /\ pc'[q] = "none" <=> q >= next_pid'
                       /\ my'[q] = Null <=> pc'[q] \in {"none", "gone"}
    <3>1. \A q \in Pid : /\ pc[q] = "none" <=> q >= new
                         /\ my[q] = Null <=> pc[q] \in {"none", "gone"}
      BY <1>1, <1>3, Zenon DEF TableInv
    <3>2. s # Null /\ ~ new >= new + 1 /\ ~ p >= new
      BY <1>1, <3>1, Facts DEF Creating, Pid
    <3> SUFFICES ASSUME NEW q \in Pid
                 PROVE  /\ pc'[q] = "none" <=> q >= new + 1
                        /\ my'[q] = Null <=> pc'[q] \in {"none", "gone"}
      BY <1>7, Zenon
    <3>3. CASE q = new
      BY <1>8, <3>2, <3>3, Zenon
    <3>4. CASE q = p /\ q # new
      <4>1. my[p] # Null
        BY <1>1, <3>1, Zenon DEF Creating
      <4>2. ~ q >= new + 1
        BY <2>1, <3>2, <3>4, Zenon
      <4> QED BY <1>8, <3>4, <4>1, <4>2, Zenon
    <3>5. CASE q # p /\ q # new
      BY <1>8, <2>1, <3>1, <3>5
    <3> QED BY <3>3, <3>4, <3>5, Zenon
  <2>3. \A q \in Pid : my'[q] # Null => slot_in_use'[my'[q]] /\ proc'[my'[q]].pid = q
    <3> SUFFICES ASSUME NEW q \in Pid, my'[q] # Null PROVE slot_in_use'[my'[q]] /\ proc'[my'[q]].pid = q
      BY Zenon
    <3>1. CASE q = new
      BY <1>6, <1>8, <3>1
    <3>2. CASE q # new
      <4>1. my'[q] = my[q] /\ my[q] \in Slot /\ my[q] # s
        <5>1. my'[q] = my[q] /\ my[q] # s
          BY <1>5, <1>8, <3>2, Zenon
        <5>2. my[q] \in Slot \cup {Null}
          BY <1>1, Zenon DEF TypeOK
        <5> QED BY <5>1, <5>2, Zenon
      <4>2. slot_in_use[my[q]] /\ proc[my[q]].pid = q
        BY <1>1, <4>1, Zenon DEF TableInv
      <4> QED BY <1>8, <4>1, <4>2
    <3> QED BY <3>1, <3>2, Zenon
  <2>4. \A t \in Slot : slot_in_use[t] => t # s /\ proc[t].pid \in Pid /\ proc[t].pid # new
    <3>1. \A t \in Slot : slot_in_use[t] => proc[t].pid \in Pid /\ pc[proc[t].pid] # "none"
      BY <1>1, Zenon DEF TableInv
    <3> QED BY <1>5, <3>1, Zenon
  <2>5. ASSUME NEW t \in Slot, slot_in_use'[t]
        PROVE  /\ proc'[t].pid \in Pid /\ pc'[proc'[t].pid] # "none"
               /\ proc'[t].state = "zombie" <=> pc'[proc'[t].pid] \in Dying \cup {"gone"}
               /\ proc'[t].state = "blocked_on_wait" => pc'[proc'[t].pid] = "asleep"
    <3>1. CASE t = s
      BY <1>6, <1>8, <3>1, Zenon DEF Dying
    <3>2. CASE t # s
      <4>1. /\ slot_in_use[t] /\ proc'[t] = proc[t]
        BY <1>8, <2>5, <3>2, Zenon
      <4>2. /\ proc[t].pid \in Pid /\ pc[proc[t].pid] # "none" /\ proc[t].pid # new
            /\ proc[t].state = "zombie" <=> pc[proc[t].pid] \in Dying \cup {"gone"}
            /\ proc[t].state = "blocked_on_wait" => pc[proc[t].pid] = "asleep"
        BY <1>1, <2>4, <4>1, Zenon DEF TableInv
      <4> QED BY <1>1, <1>8, <4>1, <4>2 DEF Dying, Creating
    <3> QED BY <3>1, <3>2, Zenon
  <2>6. \A t, u \in Slot : slot_in_use'[t] /\ slot_in_use'[u] /\ proc'[t].pid = proc'[u].pid => t = u
    <3> SUFFICES ASSUME NEW t \in Slot, NEW u \in Slot, slot_in_use'[t], slot_in_use'[u],
                        proc'[t].pid = proc'[u].pid, t # u
                 PROVE  FALSE
      BY Zenon
    <3>1. CASE t = s
      <4>1. proc'[t].pid = new /\ slot_in_use[u] /\ proc'[u] = proc[u]
        BY <1>6, <1>8, <3>1, Zenon
      <4> QED BY <2>4, <4>1, Zenon
    <3>2. CASE u = s
      <4>1. proc'[u].pid = new /\ slot_in_use[t] /\ proc'[t] = proc[t]
        BY <1>6, <1>8, <3>2, Zenon
      <4> QED BY <2>4, <4>1, Zenon
    <3>3. CASE t # s /\ u # s
      <4>1. slot_in_use[t] /\ slot_in_use[u] /\ proc[t].pid = proc[u].pid
        BY <1>8, <3>3, Zenon
      <4> QED BY <1>1, <4>1, SameSlot, Zenon
    <3> QED BY <3>1, <3>2, <3>3, Zenon
  <2> QED BY <2>2, <2>3, <2>5, <2>6, Zenon DEF TableInv
<1>11. ListInv'
  <2>1. \A q \in Pid : pc'[q] # "push"
    BY <1>2, <1>8, Zenon
  <2> QED BY <1>1, <1>4, <1>7, <1>8, <2>1, ListFrame, Zenon
<1>12. OneIn' /\ RegInv'
  BY <1>1, <1>2, <1>8, AloneKeeps DEF Creating, Reaping
<1> QED BY <1>9, <1>10, <1>11, <1>12 DEF LifeInv

-----------------------------------------------------------------------------
(* Every reachable state.                                                  *)

LEMMA InitLife == Init => LifeInv
<1> SUFFICES ASSUME Init PROVE LifeInv
  BY Zenon
<1>0. MaxPid \in Nat /\ MaxPid >= 1 /\ Slots \in Nat /\ Slots >= 1
  BY LifecycleAssumption
<1>1. TypeOK
  <2>1. free_next \in [Slot -> Slot \cup {Null}] /\ free_head \in Slot \cup {Null}
    BY <1>0 DEF Init, Slot, Null
  <2>2. proc \in [Slot -> [pid : 0 .. MaxPid, tgid : 0 .. MaxPid, parent : 0 .. MaxPid,
                           pt : 0 .. MaxPid, state : {"live", "blocked_on_wait", "zombie"}]]
    BY <1>0 DEF Init, Empty
  <2>3. next_pid \in 1 .. MaxPid + 1 /\ my \in [Pid -> Slot \cup {Null}]
    BY <1>0, Facts DEF Init
  <2> QED BY <2>1, <2>2, <2>3 DEF Init, TypeOK
<1>2. OneIn
  BY Zenon DEF Init, OneIn, InKernel
<1>3. TableInv
  <2>1. \A p \in Pid : p = 1 <=> ~ p >= 2
    BY DEF Pid
  <2>2. 0 \in Slot /\ 0 # Null /\ 1 \in Pid
    BY Facts, Zenon DEF InitPid
  <2> QED BY <2>1, <2>2, Zenon DEF Init, TableInv, Dying
<1>4. RegInv
  BY Zenon DEF Init, RegInv, Creating, Reaping
<1>5. ListInv
  <2> DEFINE f == [i \in 1 .. Slots - 1 |-> i]
  <2>1. Slots - 1 \in Nat /\ f \in [1 .. Slots - 1 -> Slot]
    BY <1>0 DEF Slot
  <2>2. IsList(f, Slots - 1)
    <3>1. \A i \in 1 .. Slots - 1 : f[i] = i /\ i \in Slot /\ i # 0 /\ i # Null
      BY <1>0 DEF Slot, Null
    <3>2. free_head = IF Slots - 1 = 0 THEN Null ELSE f[1]
      BY <1>0 DEF Init
    <3>3. ASSUME NEW i \in 1 .. Slots - 1
          PROVE  /\ free_next[f[i]] = IF i = Slots - 1 THEN Null ELSE f[i + 1]
                 /\ ~ slot_in_use[f[i]] /\ \A p \in Pid : reg[p] # f[i]
      <4>1. free_next[i] = IF i = Slots - 1 THEN Null ELSE i + 1
        BY <3>1, Zenon DEF Init
      <4>2. i # Slots - 1 => f[i + 1] = i + 1
        BY <1>0
      <4>3. ~ slot_in_use[i] /\ \A p \in Pid : reg[p] # i
        BY <3>1, Zenon DEF Init
      <4> HIDE DEF f
      <4> QED BY <3>1, <4>1, <4>2, <4>3
    <3> HIDE DEF f
    <3> QED BY <3>1, <3>2, <3>3 DEF IsList
  <2>3. \A p \in Pid : pc[p] # "push"
    BY Zenon DEF Init
  <2> HIDE DEF f
  <2> QED BY <2>1, <2>2, <2>3, Zenon DEF ListInv
<1> QED BY <1>1, <1>2, <1>3, <1>4, <1>5, Zenon DEF LifeInv

LEMMA NextLife == ASSUME LifeInv, Cpus = 1, [Next]_vars PROVE LifeInv'
<1>1. CASE UNCHANGED vars
  <2>1. UNCHANGED <<proc, slot_in_use, free_head, free_next, next_pid, space, pc, my, reg>>
    BY <1>1 DEF vars, table, freeList
  <2>2. TypeOK' /\ OneIn' /\ TableInv' /\ RegInv'
    <3>1. TypeOK'
      BY <2>1, Zenon DEF LifeInv, TypeOK
    <3>2. OneIn'
      BY <2>1, Zenon DEF LifeInv, OneIn, InKernel
    <3>3. TableInv'
      BY <2>1, Zenon DEF LifeInv, TableInv
    <3>4. RegInv'
      BY <2>1, Zenon DEF LifeInv, RegInv
    <3> QED BY <3>1, <3>2, <3>3, <3>4, Zenon
  <2>3. ListInv'
    <3>1. ASSUME NEW n \in Nat, NEW f \in [1 .. n -> Slot], IsList(f, n) PROVE IsList(f, n)'
      BY <2>1, <3>1, Zenon DEF IsList
    <3>2. \A p \in Pid : pc'[p] = "push" => free_next'[reg'[p]] = free_head'
      BY <2>1, Zenon DEF LifeInv, ListInv
    <3> QED BY <3>1, <3>2, Zenon DEF LifeInv, ListInv
  <2> QED BY <2>2, <2>3 DEF LifeInv
<1>2. CASE Next
  <2>1. PICK p \in Pid : Kernel(p) \/ Resume(p) \/ Clone(p) \/ Exit(p) \/ \E w \in 0 .. MaxPid : Wait4(p, w)
    BY <1>2, Zenon DEF Next
  <2>9. CASE ForkSpace(p)
    BY <2>9, ForkKeeps, Zenon
  <2>2. CASE Clone(p) \/ CloneDone(p)
    BY <2>2, CloneKeeps, CloneDoneKeeps, Zenon
  <2>3. CASE UserPages(p) \/ (\E w \in 0 .. MaxPid : Wait4(p, w)) \/ Resume(p)
    BY <2>3, PlainKeeps, Zenon
  <2>8. CASE StackFails(p)
    BY <2>8, PlainKeeps, Zenon DEF StackFails, At, Creating
  <2>4. CASE Reparent(p) \/ WakeInit(p) \/ WakeParent(p)
    BY <2>4, DyingKeeps
  <2>5. CASE Exit(p) \/ Block(p)
    BY <2>5, OwnStateKeeps
  <2>6. CASE Schedule(p) \/ Scan(p) \/ CheckShared(p)
    BY <2>6, ScheduleKeeps, ScanKeeps, CheckSharedKeeps
  <2>7. CASE DestroySpace(p) \/ ClearSlot(p) \/ Push(p)
    BY <2>7, DestroyKeeps, ClearKeeps, PushKeeps
  <2> QED BY <2>1, <2>2, <2>3, <2>4, <2>5, <2>6, <2>7, <2>8, <2>9, Zenon DEF Kernel
<1> QED BY <1>1, <1>2

LEMMA AlwaysLife == ASSUME Cpus = 1 PROVE Spec => []LifeInv
BY InitLife, NextLife, PTL DEF Spec

\* Following the links from the head visits the slots of the list in order.
LEMMA ChainIsList ==
    ASSUME TypeOK, NEW n \in Nat, NEW f \in [1 .. n -> Slot], IsList(f, n)
    PROVE  FreeChain \in Seq(Slot) /\ Len(FreeChain) = n /\ \A i \in 1 .. n : FreeChain[i] = f[i]
<1> DEFINE upto(k) == IF k <= n THEN k ELSE n
           first(k) == [i \in 1 .. upto(k) |-> f[i]]
           next(s, k) == IF k = 1 THEN free_head
                         ELSE IF Len(s) < k - 1 THEN Null ELSE free_next[s[k - 1]]
           grow(s, k) == IF next(s, k) = Null THEN s ELSE Append(s, next(s, k))
           IsWalk(w) == w = [k \in 0 .. Slots + 1 |-> IF k = 0 THEN <<>> ELSE grow(w[k - 1], k)]
           W == [k \in 0 .. Slots + 1 |-> first(k)]
<1>1. Slots \in Nat /\ n <= Slots
  <2>1. IsFiniteSet(Slot) /\ Cardinality(Slot) = Slots
    BY LifecycleAssumption, FS_Interval DEF Slot
  <2>2. \A i, j \in 1 .. n : f[i] = f[j] => i = j
    BY Zenon DEF IsList
  <2> QED BY <2>1, <2>2, InjectiveBound, LifecycleAssumption
<1>2. \A k \in Nat : /\ upto(k) \in Nat /\ first(k) \in Seq(Slot) /\ Len(first(k)) = upto(k)
                     /\ \A i \in 1 .. upto(k) : first(k)[i] = f[i]
  <2> SUFFICES ASSUME NEW k \in Nat
               PROVE  /\ upto(k) \in Nat /\ first(k) \in Seq(Slot) /\ Len(first(k)) = upto(k)
                      /\ \A i \in 1 .. upto(k) : first(k)[i] = f[i]
    BY Zenon
  <2>1. upto(k) \in Nat /\ upto(k) <= n
    OBVIOUS
  <2>2. first(k) \in [1 .. upto(k) -> Slot] /\ \A i \in 1 .. upto(k) : first(k)[i] = f[i]
    <3> HIDE DEF upto
    <3> QED BY <2>1
  <2> HIDE DEF upto, first
  <2> QED BY <2>1, <2>2
<1>3. first(0) = <<>>
  <2>1. first(0) \in Seq(Slot) /\ Len(first(0)) = 0
    <3>1. upto(0) = 0
      OBVIOUS
    <3> HIDE DEF upto, first
    <3> QED BY <1>2, <3>1, Zenon
  <2> HIDE DEF first
  <2> QED BY <2>1, EmptySeq, Zenon
<1>4. ASSUME NEW k \in 1 .. Slots + 1 PROVE grow(first(k - 1), k) = first(k)
  <2>1. k - 1 \in Nat /\ k \in Nat
    BY <1>1
  <2>2. next(first(k - 1), k) = IF k <= n THEN f[k] ELSE Null
    <3>1. CASE k = 1
      BY <3>1 DEF IsList
    <3>2. CASE k # 1 /\ n < k - 1
      <4>1. Len(first(k - 1)) = n
        <5>1. upto(k - 1) = n
          BY <3>2
        <5> HIDE DEF upto, first
        <5> QED BY <1>2, <2>1, <5>1, Zenon
      <4> HIDE DEF first
      <4> QED BY <3>2, <4>1, <2>1
    <3>3. CASE k # 1 /\ ~ n < k - 1
      <4>1. upto(k - 1) = k - 1 /\ k - 1 \in 1 .. n /\ k - 1 \in 1 .. upto(k - 1)
        BY <3>3, <2>1
      <4>2. Len(first(k - 1)) = k - 1 /\ first(k - 1)[k - 1] = f[k - 1]
        <5> HIDE DEF upto, first
        <5> QED BY <1>2, <2>1, <4>1, Zenon
      <4>3. free_next[f[k - 1]] = IF k - 1 = n THEN Null ELSE f[(k - 1) + 1]
        BY <4>1, Zenon DEF IsList
      <4>4. (k - 1) + 1 = k /\ (k <= n <=> k - 1 # n) /\ ~ k - 1 < k - 1
        BY <2>1, <4>1
      <4> HIDE DEF first
      <4> QED BY <3>3, <4>2, <4>3, <4>4, Zenon
    <3> QED BY <3>1, <3>2, <3>3, Zenon
  <2>3. CASE ~ k <= n
    <3>1. upto(k - 1) = n /\ upto(k) = n
      BY <2>1, <2>3
    <3>2. first(k - 1) = first(k)
      <4> HIDE DEF upto
      <4> QED BY <3>1, Zenon
    <3> HIDE DEF first, next
    <3> QED BY <2>2, <2>3, <3>2, Zenon
  <2>4. CASE k <= n
    <3>1. /\ upto(k - 1) = k - 1 /\ upto(k) = k /\ k \in 1 .. n /\ f[k] \in Slot /\ f[k] # Null
          /\ (k - 1) + 1 = k /\ \A i \in 1 .. k : i = k \/ i \in 1 .. k - 1
      BY <2>1, <2>4, Facts
    <3>2. grow(first(k - 1), k) = Append(first(k - 1), f[k])
      <4> HIDE DEF first, next
      <4> QED BY <2>2, <2>4, <3>1, Zenon
    <3> HIDE DEF upto, first, grow
    <3>3. /\ first(k - 1) \in Seq(Slot) /\ Len(first(k - 1)) = k - 1
          /\ first(k) \in Seq(Slot) /\ Len(first(k)) = k
          /\ \A i \in 1 .. k - 1 : first(k - 1)[i] = f[i]
          /\ \A i \in 1 .. k : first(k)[i] = f[i]
      BY <1>2, <2>1, <3>1, Zenon
    <3>4. /\ Append(first(k - 1), f[k]) \in Seq(Slot)
          /\ Len(Append(first(k - 1), f[k])) = Len(first(k - 1)) + 1
          /\ \A i \in 1 .. Len(first(k - 1)) : Append(first(k - 1), f[k])[i] = first(k - 1)[i]
          /\ Append(first(k - 1), f[k])[Len(first(k - 1)) + 1] = f[k]
      BY <3>1, <3>3, AppendProperties
    <3>5. /\ Len(Append(first(k - 1), f[k])) = k
          /\ \A i \in 1 .. k : Append(first(k - 1), f[k])[i] = first(k)[i]
      BY <3>1, <3>3, <3>4, Zenon
    <3>6. Append(first(k - 1), f[k]) = first(k)
      BY <3>3, <3>4, <3>5, SeqEqual, Zenon
    <3> QED BY <3>2, <3>6, Zenon
  <2> QED BY <2>3, <2>4, Zenon
<1>5. IsWalk(W)
  <2>1. \A k \in 0 .. Slots + 1 : W[k] = first(k)
    BY Zenon
  <2>2. ASSUME NEW k \in 0 .. Slots + 1 PROVE first(k) = IF k = 0 THEN <<>> ELSE grow(W[k - 1], k)
    <3>1. CASE k = 0
      <4> HIDE DEF first
      <4> QED BY <1>3, <3>1, Zenon
    <3>2. CASE k # 0
      <4>1. k \in 1 .. Slots + 1 /\ k - 1 \in 0 .. Slots + 1
        BY <1>1, <3>2
      <4> HIDE DEF first, grow, W
      <4> QED BY <1>4, <2>1, <3>2, <4>1, Zenon
    <3> QED BY <3>1, <3>2, Zenon
  <2> HIDE DEF first, grow
  <2> QED BY <2>1, <2>2, Zenon
<1>6. ASSUME NEW v, IsWalk(v) PROVE v[Slots + 1] = first(Slots + 1)
  <2> DEFINE Bad == {k \in 0 .. Slots + 1 : v[k] # first(k)}
  <2>1. \A k \in 0 .. Slots + 1 : v[k] = IF k = 0 THEN <<>> ELSE grow(v[k - 1], k)
    <3> HIDE DEF grow
    <3> QED BY <1>6, Zenon
  <2> HIDE DEF first, grow
  <2>2. Bad = {}
    <3> SUFFICES ASSUME Bad # {} PROVE FALSE
      BY Zenon
    <3>1. Bad \in SUBSET Nat
      OBVIOUS
    <3>2. PICK m \in Bad : \A i \in Bad : m <= i
      <4> HIDE DEF Bad
      <4> QED BY <3>1, LeastNat, Zenon
    <3>3. m \in 0 .. Slots + 1 /\ v[m] # first(m)
      BY <3>2, Zenon
    <3>4. m # 0
      BY <1>3, <2>1, <3>3, Zenon
    <3>5. m \in 1 .. Slots + 1 /\ m - 1 \in 0 .. Slots + 1 /\ ~ m <= m - 1
      BY <1>1, <3>3, <3>4
    <3>6. v[m - 1] = first(m - 1)
      BY <3>2, <3>5, Zenon
    <3> QED BY <1>4, <2>1, <3>3, <3>4, <3>5, <3>6, Zenon
  <2>3. Slots + 1 \in 0 .. Slots + 1
    BY <1>1
  <2> QED BY <2>2, <2>3, Zenon
<1>7. FreeChain = (CHOOSE w : IsWalk(w))[Slots + 1]
  BY Zenon DEF FreeChain
<1>8. IsWalk(CHOOSE w : IsWalk(w))
  <2> HIDE DEF IsWalk
  <2> QED BY <1>5, Zenon
<1>9. FreeChain = first(Slots + 1)
  <2> HIDE DEF IsWalk, first
  <2> QED BY <1>6, <1>7, <1>8, Zenon
<1>10. upto(Slots + 1) = n /\ Slots + 1 \in Nat
  BY <1>1
<1> HIDE DEF first, upto
<1> QED BY <1>2, <1>9, <1>10, Zenon

\* The step of a process that made no address space leaves none to another.
LEMMA HandsFrame ==
    ASSUME TypeOK, HandsInv, NEW p \in Pid, pc[p] # "kstack", UNCHANGED <<new_pt, thread>>,
           \A q \in Pid \ {p} : pc'[q] = pc[q], wait_pid' \in [Pid -> 0 .. MaxPid]
    PROVE  HandsInv'
<1>1. \A q \in Pid : new_pt[q] => pc'[q] = "kstack"
  BY Zenon DEF HandsInv, SpaceGiven, At
<1> QED BY <1>1, Zenon DEF HandsInv, HandsOK, SpaceGiven, At

LEMMA NextHands == ASSUME TypeOK, TableInv, HandsInv, [Next]_vars PROVE HandsInv'
<1> USE DEF At
<1>0. 0 \in 0 .. MaxPid
  BY LifecycleAssumption
<1>1. CASE UNCHANGED vars
  BY <1>1, Zenon DEF vars, hands, HandsInv, HandsOK, SpaceGiven
<1>2. ASSUME NEW p \in Pid, CloneDone(p) PROVE HandsInv'
  <2>1. PICK new \in Pid : new = next_pid /\ pc[new] = "none"
    BY <1>2 DEF CloneDone, TypeOK, TableInv, Pid
  <2>2. \A q \in Pid : (new_pt'[q] <=> q # p /\ new_pt[q]) /\ (q \in {p, new} \/ pc'[q] = pc[q])
    BY <1>2, <2>1, Zenon DEF CloneDone, TypeOK, HandsInv, HandsOK
  <2>3. SpaceGiven'
    BY <2>1, <2>2, Zenon DEF HandsInv, SpaceGiven
  <2>4. (pc[p] = "clone") \in BOOLEAN
    BY Zenon
  <2>5. HandsOK'
    BY <1>2, <2>1, <2>4, Zenon DEF HandsInv, HandsOK, CloneDone
  <2> QED BY <2>3, <2>5, Zenon DEF HandsInv
<1>3. ASSUME NEW p \in Pid, ForkSpace(p) \/ StackFails(p) PROVE HandsInv'
  <2>1. CASE ForkSpace(p) /\ ~ CloneFails(p)
    <3>1. \A q \in Pid : (new_pt'[q] <=> q = p \/ new_pt[q]) /\ pc'[q] = IF q = p THEN "kstack" ELSE pc[q]
      BY <2>1, Zenon DEF ForkSpace, Goto, TypeOK, HandsInv, HandsOK
    <3>2. HandsOK'
      BY <2>1, Zenon DEF ForkSpace, HandsInv, HandsOK
    <3> QED BY <3>1, <3>2, Zenon DEF HandsInv, SpaceGiven
  <2>2. CASE ForkSpace(p) /\ CloneFails(p)
    <3>1. pc[p] = "fork" /\ Goto(p, "user") /\ UNCHANGED <<new_pt, wait_pid, thread>>
      BY <2>2, "fork" # "kstack", "user" # "kstack" DEF ForkSpace, CloneFails, Goto, TypeOK
    <3>2. \A q \in Pid \ {p} : pc'[q] = pc[q]
      BY <3>1, Zenon DEF Goto, TypeOK
    <3> QED BY <3>1, <3>2, HandsFrame, Zenon DEF HandsInv, HandsOK
  <2>3. CASE StackFails(p)
    <3>1. \A q \in Pid : (new_pt'[q] <=> q # p /\ new_pt[q]) /\ (q = p \/ pc'[q] = pc[q])
      BY <2>3, Zenon DEF StackFails, CloneFails, Goto, TypeOK, HandsInv, HandsOK
    <3>2. HandsOK'
      BY <2>3, Zenon DEF StackFails, CloneFails, HandsInv, HandsOK
    <3> QED BY <3>1, <3>2, Zenon DEF HandsInv, SpaceGiven
  <2> QED BY <1>3, <2>1, <2>2, <2>3, Zenon
<1>4. ASSUME NEW p \in Pid, (\E w \in 0 .. MaxPid : Wait4(p, w)) \/ Scan(p) \/ Push(p) PROVE HandsInv'
  <2>1. pc[p] # "kstack" /\ UNCHANGED <<new_pt, thread>>
    BY <1>4, Zenon DEF Wait4, Scan, Push
  <2>2. \A q \in Pid \ {p} : pc'[q] = pc[q]
    BY <1>4, Zenon DEF Wait4, Scan, Push, Goto, TypeOK
  <2>3. wait_pid' \in [Pid -> 0 .. MaxPid]
    BY <1>0, <1>4, Zenon DEF Wait4, Scan, Push, HandsInv, HandsOK
  <2> QED BY <2>1, <2>2, <2>3, HandsFrame, Zenon
<1>5. ASSUME NEW p \in Pid,
             \/ Clone(p) \/ Exit(p) \/ Reparent(p) \/ WakeInit(p) \/ UserPages(p) \/ WakeParent(p)
             \/ Schedule(p) \/ CheckShared(p) \/ DestroySpace(p) \/ ClearSlot(p) \/ Block(p) \/ Resume(p)
      PROVE  HandsInv'
  <2>1. pc[p] # "kstack" /\ UNCHANGED <<new_pt, wait_pid, thread>> /\ \E l : Goto(p, l)
    <3>1. CASE Clone(p) \/ Exit(p) \/ Reparent(p) \/ WakeInit(p) \/ UserPages(p) \/ WakeParent(p)
      BY <3>1, Zenon DEF Clone, Exit, Reparent, WakeInit, UserPages, WakeParent, hands
    <3>2. CASE \/ Schedule(p) \/ CheckShared(p) \/ DestroySpace(p) \/ ClearSlot(p) \/ Block(p)
               \/ Resume(p)
      BY <3>2, Zenon DEF Schedule, CheckShared, DestroySpace, ClearSlot, Block, Resume, hands
    <3> QED BY <1>5, <3>1, <3>2, Zenon
  <2>2. \A q \in Pid \ {p} : pc'[q] = pc[q]
    BY <2>1, Zenon DEF Goto, TypeOK
  <2> QED BY <2>1, <2>2, HandsFrame, Zenon DEF HandsInv, HandsOK
<1> QED BY <1>1, <1>2, <1>3, <1>4, <1>5, Zenon DEF Next, Kernel

LEMMA AlwaysHands == ASSUME Cpus = 1 PROVE Spec => []HandsInv
<1>1. Init => HandsInv
  <2>1. 0 \in 0 .. MaxPid
    BY LifecycleAssumption
  <2> SUFFICES ASSUME Init PROVE HandsInv
    BY Zenon
  <2>2. HandsOK
    BY <2>1, Zenon DEF Init, HandsOK
  <2>3. SpaceGiven
    BY Zenon DEF Init, SpaceGiven
  <2> QED BY <2>2, <2>3, Zenon DEF HandsInv
<1>2. LifeInv => TypeOK /\ TableInv
  BY Zenon DEF LifeInv
<1> QED BY <1>1, <1>2, NextHands, AlwaysLife, PTL DEF Spec

\* findFreeSlot, clearSlot on one CPU: the free list has no slot twice, none
\* in use and none handed out.
THEOREM LifecycleSlotsSound == ASSUME Cpus = 1 PROVE Spec => []SlotsSound
<1>1. LifeInv /\ HandsInv => SlotsSound
  <2> SUFFICES ASSUME LifeInv, HandsInv PROVE SlotsSound
    BY Zenon
  <2>1. TypeOK /\ OneIn /\ RegInv /\ ListInv
    BY Zenon DEF LifeInv
  <2>2. PICK n \in Nat : \E f \in [1 .. n -> Slot] : IsList(f, n)
    BY <2>1, Zenon DEF ListInv
  <2>3. PICK f \in [1 .. n -> Slot] : IsList(f, n)
    BY <2>2, Zenon
  <2>4. Len(FreeChain) = n /\ \A i \in 1 .. n : FreeChain[i] = f[i]
    BY <2>1, <2>3, ChainIsList, Zenon
  <2>5. /\ \A i, j \in 1 .. Len(FreeChain) : i # j => FreeChain[i] # FreeChain[j]
        /\ \A i \in 1 .. Len(FreeChain) : ~ slot_in_use[FreeChain[i]]
    BY <2>3, <2>4, Zenon DEF IsList
  <2>6. \A p, q \in Pid : p # q /\ reg[p] # Null => reg[p] # reg[q]
    <3>1. \A p \in Pid : reg[p] # Null => InKernel(p)
      BY <2>1, Zenon DEF RegInv, InKernel, Creating, Reaping
    <3> QED BY <2>1, <3>1, Zenon DEF OneIn
  <2> QED BY <2>1, <2>5, <2>6, Zenon DEF SlotsSound, FreeListSound, HandsInv
<1> QED BY <1>1, AlwaysLife, AlwaysHands, PTL

-----------------------------------------------------------------------------
(* Address spaces.                                                         *)

\* A step of p that gives no process another address space.
SpaceStep(p) ==
    /\ UNCHANGED <<slot_in_use, space>>
    /\ \A s \in Slot : /\ proc'[s].pid = proc[s].pid /\ proc'[s].pt = proc[s].pt
                       /\ proc[s].state = "zombie" => proc'[s].state = "zombie"
    /\ \A q \in Pid \ {p} : pc'[q] = pc[q] /\ ~ InKernel(q)
    /\ pc[p] \notin {"destroy", "clearSlot"} /\ pc'[p] \notin {"destroy", "keep", "clearSlot"}

LEMMA SpaceFrame ==
    ASSUME LifeInv, SpaceInv, NEW p \in Pid, SpaceStep(p)
    PROVE  SpaceInv'
<1>1. \A q \in Pid : /\ pc[q] \notin {"destroy", "clearSlot"}
                     /\ pc'[q] \notin {"destroy", "keep", "clearSlot"}
  BY Zenon DEF SpaceStep, InKernel
<1>2. SpaceLive'
  BY DEF SpaceInv, SpaceLive, SpaceStep
<1>3. SpaceReclaimed'
  BY <1>1 DEF SpaceInv, SpaceReclaimed, SpaceStep, At
<1>4. \A s \in Slot : slot_in_use'[s] => proc'[s].pt \in Pid
  BY <1>1, Zenon DEF SpaceInv, SpaceStep
<1> QED BY <1>1, <1>2, <1>3, <1>4, Zenon DEF SpaceInv

LEMMA PlainSpaces ==
    ASSUME LifeInv, SpaceInv, Cpus = 1, NEW p \in Pid, NEW w,
           \/ Clone(p) \/ ForkSpace(p) \/ StackFails(p) \/ Exit(p) \/ Reparent(p) \/ WakeInit(p) \/ WakeParent(p)
           \/ Schedule(p) \/ Wait4(p, w) \/ Scan(p) \/ Push(p) \/ Block(p) \/ Resume(p)
    PROVE  SpaceInv'
<1>1. TypeOK /\ OneIn /\ TableInv
  BY Zenon DEF LifeInv
<1>2. InKernel(p) \/ CpuFree
  BY Zenon DEF Clone, ForkSpace, StackFails, CloneFails, Exit, Reparent, WakeInit, WakeParent, Schedule, Wait4, Scan, Push,
         Block, Resume, InKernel, At
<1>3. \A q \in Pid \ {p} : ~ InKernel(q)
  BY <1>1, <1>2, AloneIn, Zenon DEF InKernel
<1>4. UNCHANGED <<slot_in_use, space>>
  BY Zenon DEF Clone, ForkSpace, StackFails, CloneFails, Exit, Reparent, WakeInit, WakeParent, Schedule, Wait4, Scan, Push,
         Block, Resume, table
<1>5. PICK l \in {"fork", "kstack", "vm", "clone", "user", "reparent", "wakeInit", "userPages", "schedule", "gone",
                  "scan", "shared", "block", "asleep"} :
        Goto(p, l) /\ pc[p] \notin {"destroy", "clearSlot"}
  <2>1. CASE Clone(p) \/ ForkSpace(p) \/ StackFails(p) \/ Exit(p) \/ Wait4(p, w) \/ Push(p) \/ Block(p) \/ Resume(p)
    BY <2>1, Zenon DEF Clone, ForkSpace, StackFails, CloneFails, Exit, Wait4, Push, Block, Resume, At
  <2>2. CASE Reparent(p) \/ WakeInit(p) \/ WakeParent(p) \/ Schedule(p)
    BY <2>2, Zenon DEF Reparent, WakeInit, WakeParent, Schedule, At
  <2>3. CASE Scan(p)
    BY <2>3, Zenon DEF Scan, At
  <2> QED BY <2>1, <2>2, <2>3, Zenon
<1>6. \A q \in Pid : pc'[q] = IF q = p THEN l ELSE pc[q]
  BY <1>1, <1>5, Zenon DEF Goto, TypeOK
<1>7. \A s \in Slot : /\ proc'[s].pid = proc[s].pid /\ proc'[s].pt = proc[s].pt
                      /\ proc[s].state = "zombie" => proc'[s].state = "zombie"
  <2>1. CASE \/ Clone(p) \/ ForkSpace(p) \/ StackFails(p) \/ Schedule(p) \/ Wait4(p, w) \/ Scan(p) \/ Push(p)
             \/ Resume(p)
    BY <2>1, Zenon DEF Clone, ForkSpace, StackFails, CloneFails, Schedule, Wait4, Scan, Push, Resume, table
  <2>2. CASE Exit(p)
    <3>1. my[p] \in Slot
      BY <1>1, <2>2, OwnSlot, Zenon DEF Exit, At
    <3>2. OnlyState(my[p], "zombie")
      BY <1>1, <2>2, <3>1, StateSet, Zenon DEF Exit
    <3> QED BY <3>2, Zenon DEF OnlyState
  <2>3. CASE Block(p)
    <3>1. my[p] \in Slot /\ slot_in_use[my[p]] /\ proc[my[p]].pid = p /\ pc[p] = "block"
      BY <1>1, <2>3, OwnSlot, Zenon DEF Block, At
    <3>2. proc[my[p]].state # "zombie"
      <4>1. "block" \notin Dying \cup {"gone"}
        BY DEF Dying
      <4>2. \A s \in Slot : slot_in_use[s] /\ proc[s].state = "zombie" =>
                               pc[proc[s].pid] \in Dying \cup {"gone"}
        BY <1>1, Zenon DEF TableInv
      <4> QED BY <3>1, <4>1, <4>2, Zenon
    <3>3. OnlyState(my[p], "blocked_on_wait")
      BY <1>1, <2>3, <3>1, StateSet, Zenon DEF Block
    <3> QED BY <3>2, <3>3, Zenon DEF OnlyState
  <2>4. CASE Reparent(p)
    <3>1. proc' = proc \/ proc' = Adopt(p)
      BY <2>4, Zenon DEF Reparent
    <3>2. \A s \in Slot : \/ proc'[s] = proc[s]
                          \/ proc'[s] = [proc[s] EXCEPT !.parent = InitPid]
      BY <3>1, Zenon DEF Adopt
    <3>3. ASSUME NEW s \in Slot
          PROVE  LET r == [proc[s] EXCEPT !.parent = InitPid]
                 IN  r.pid = proc[s].pid /\ r.pt = proc[s].pt /\ r.state = proc[s].state
      BY <1>1 DEF TypeOK
    <3> QED BY <3>2, <3>3, Zenon
  <2>5. ASSUME NEW pid, Wake(pid) PROVE <1>7
    BY <1>1, <2>5, Zenon DEF Wake, TypeOK
  <2> QED BY <2>1, <2>2, <2>3, <2>4, <2>5, Zenon DEF WakeInit, WakeParent
<1>8. SpaceStep(p)
  BY <1>3, <1>4, <1>5, <1>6, <1>7, Zenon DEF SpaceStep
<1> QED BY <1>8, SpaceFrame, Zenon

\* No process is being reaped while p is in another system call.
LEMMA AllHaveSpaces ==
    ASSUME LifeInv, SpaceInv, Cpus = 1, NEW p \in Pid, InKernel(p), pc[p] \notin {"destroy", "clearSlot"}
    PROVE  /\ \A s \in Slot : slot_in_use[s] => proc[s].pt \in Pid
           /\ \A a \in Pid : space[a] \in {"live", "empty"} => \E s \in Slot : slot_in_use[s] /\ proc[s].pt = a
<1>1. \A q \in Pid : pc[q] \notin {"destroy", "clearSlot"}
  BY AloneIn, Zenon DEF LifeInv
<1> QED BY <1>1, Zenon DEF SpaceInv, SpaceReclaimed, At

\* The new process gets a live address space: its own, or that of its creator.
LEMMA CloneDoneSpaces ==
    ASSUME LifeInv, SpaceInv, Cpus = 1, NEW p \in Pid, CloneDone(p)
    PROVE  SpaceInv'
<1>1. TypeOK /\ OneIn /\ TableInv /\ RegInv /\ pc[p] \in Creating /\ InKernel(p)
  BY Zenon DEF LifeInv, CloneDone, At, Creating, InKernel
<1>2. \A q \in Pid \ {p} : pc[q] \in {"none", "user", "asleep", "gone"}
  BY <1>1, AloneIn, Zenon
<1>3. PICK new \in Pid : new = next_pid
  BY <1>1 DEF CloneDone, TypeOK, Pid
<1>4. PICK s \in Slot : s = reg[p]
  BY <1>1, Zenon DEF RegInv, TypeOK
<1>5. my[p] \in Slot /\ slot_in_use[my[p]] /\ ~ slot_in_use[s] /\ proc[my[p]].state # "zombie"
  <2>1. my[p] \in Slot /\ slot_in_use[my[p]] /\ proc[my[p]].pid = p
    BY <1>1, OwnSlot, Zenon DEF Creating
  <2>2. ~ slot_in_use[s]
    BY <1>1, <1>4, Zenon DEF RegInv
  <2>3. proc[my[p]].state = "zombie" => pc[p] \in Dying \cup {"gone"}
    BY <1>1, <2>1, Zenon DEF TableInv
  <2>4. pc[p] \notin Dying \cup {"gone"}
    BY <1>1, Zenon DEF Creating, Dying
  <2> QED BY <2>1, <2>2, <2>3, <2>4, Zenon
<1>6. /\ \A t \in Slot : slot_in_use[t] => proc[t].pt \in Pid
      /\ \A a \in Pid : space[a] \in {"live", "empty"} => \E t \in Slot : slot_in_use[t] /\ proc[t].pt = a
  BY <1>1, AllHaveSpaces, Zenon DEF Creating
<1>7. PICK a \in Pid : /\ proc'[s].pt = a /\ space'[a] = "live"
                       /\ \A b \in Pid : b # a => space'[b] = space[b]
  <2>1. CASE pc[p] # "kstack"
    <3>1. proc'[s].pt = proc[my[p]].pt /\ space' = space
      BY <1>1, <1>4, <2>1, Zenon DEF CloneDone, At, Me, TypeOK
    <3>2. space[proc[my[p]].pt] = "live" /\ proc[my[p]].pt \in Pid
      BY <1>5, <1>6, Zenon DEF SpaceInv, SpaceLive
    <3> QED BY <3>1, <3>2, Zenon
  <2>2. CASE pc[p] = "kstack"
    <3>1. proc'[s].pt = new /\ space' = [space EXCEPT ![new] = "live"]
      BY <1>1, <1>3, <1>4, <2>2 DEF CloneDone, At, TypeOK
    <3> QED BY <1>1, <3>1, Zenon DEF TypeOK
  <2> QED BY <2>1, <2>2, Zenon
<1>8. /\ \A t \in Slot \ {s} : proc'[t] = proc[t] /\ (slot_in_use'[t] <=> slot_in_use[t])
      /\ slot_in_use'[s]
  BY <1>1, <1>4, Zenon DEF CloneDone, TypeOK
<1>9. \A q \in Pid : pc'[q] \notin {"destroy", "keep", "clearSlot"}
  BY <1>1, <1>2, <1>3, Zenon DEF CloneDone, TypeOK
<1>10. SpaceLive'
  <2> SUFFICES ASSUME NEW t \in Slot, slot_in_use'[t], proc'[t].state # "zombie"
               PROVE  space'[proc'[t].pt] = "live"
    BY Zenon DEF SpaceLive
  <2>1. CASE t = s
    BY <1>7, <2>1, Zenon
  <2>2. CASE t # s
    <3>1. slot_in_use[t] /\ proc'[t] = proc[t] /\ proc[t].pt \in Pid
      BY <1>6, <1>8, <2>2, Zenon
    <3>2. space[proc[t].pt] = "live"
      <4>1. proc[t].state # "zombie"
        BY <3>1, Zenon
      <4> QED BY <3>1, <4>1, Zenon DEF SpaceInv, SpaceLive
    <3> QED BY <1>7, <3>1, <3>2, Zenon
  <2> QED BY <2>1, <2>2, Zenon
<1>11. SpaceReclaimed'
  <2> SUFFICES ASSUME NEW b \in Pid, space'[b] \in {"live", "empty"}
               PROVE  \E t \in Slot : slot_in_use'[t] /\ proc'[t].pt = b
    BY Zenon DEF SpaceReclaimed
  <2>1. CASE b = a
    BY <1>7, <1>8, <2>1, Zenon
  <2>2. CASE b # a
    <3>1. PICK t \in Slot : slot_in_use[t] /\ proc[t].pt = b
      BY <1>6, <1>7, <2>2, Zenon
    <3> QED BY <1>5, <1>8, <3>1, Zenon
  <2> QED BY <2>1, <2>2, Zenon
<1>12. \A t \in Slot : slot_in_use'[t] => proc'[t].pt \in Pid
  BY <1>6, <1>7, <1>8, Zenon
<1> QED BY <1>9, <1>10, <1>11, <1>12, Zenon DEF SpaceInv

\* exit empties an address space that no other process has.
LEMMA UserPagesSpaces ==
    ASSUME LifeInv, SpaceInv, Cpus = 1, NEW p \in Pid, UserPages(p)
    PROVE  SpaceInv'
<1>1. TypeOK /\ OneIn /\ TableInv /\ RegInv /\ pc[p] = "userPages" /\ InKernel(p)
  BY Zenon DEF LifeInv, UserPages, At, InKernel
<1>2. \A q \in Pid \ {p} : pc[q] \in {"none", "user", "asleep", "gone"}
  BY <1>1, AloneIn, Zenon
<1>3. UNCHANGED <<proc, slot_in_use>>
  BY Zenon DEF UserPages, table
<1>4. my[p] \in Slot /\ slot_in_use[my[p]] /\ proc[my[p]].pid = p /\ proc[my[p]].state = "zombie"
  <2>1. my[p] \in Slot /\ slot_in_use[my[p]] /\ proc[my[p]].pid = p
    BY <1>1, OwnSlot, Zenon
  <2>2. pc[p] \in Dying
    BY <1>1, Zenon DEF Dying
  <2> QED BY <1>1, <2>1, <2>2, Zenon DEF TableInv
<1>5. /\ \A t \in Slot : slot_in_use[t] => proc[t].pt \in Pid
      /\ \A a \in Pid : space[a] \in {"live", "empty"} => \E t \in Slot : slot_in_use[t] /\ proc[t].pt = a
  BY <1>1, AllHaveSpaces, Zenon
<1>6. PICK a \in Pid : a = proc[my[p]].pt
  BY <1>4, <1>5, Zenon
<1>7. \A q \in Pid : pc'[q] \notin {"destroy", "keep", "clearSlot"}
  BY <1>1, <1>2, Zenon DEF UserPages, Goto, TypeOK
<1>8. /\ \A b \in Pid : space'[b] = space[b] \/ (b = a /\ space[b] = "live" /\ space'[b] = "empty")
      /\ space'[a] = space[a] \/ ~ Shared(p, a)
  <2>1. Me(p).pid = p /\ Me(p).pt = a /\ a # 0
    BY <1>4, <1>6, Facts, Zenon DEF Me
  <2> QED BY <1>1, <2>1, Zenon DEF UserPages, TypeOK
<1>9. SpaceLive'
  <2> SUFFICES ASSUME NEW t \in Slot, slot_in_use[t], proc[t].state # "zombie"
               PROVE  space'[proc[t].pt] = "live"
    BY <1>3, Zenon DEF SpaceLive
  <2>1. proc[t].pt \in Pid /\ space[proc[t].pt] = "live" /\ proc[t].pid # p
    <3>1. proc[t].pt \in Pid
      BY <1>5, Zenon
    <3>2. space[proc[t].pt] = "live"
      BY Zenon DEF SpaceInv, SpaceLive
    <3>3. t # my[p]
      BY <1>4, Zenon
    <3>4. \A u, v \in Slot : slot_in_use[u] /\ slot_in_use[v] /\ proc[u].pid = proc[v].pid => u = v
      BY <1>1, Zenon DEF TableInv
    <3>5. proc[t].pid # p
      <4> SUFFICES ASSUME proc[t].pid = p PROVE FALSE
        BY Zenon
      <4>1. proc[t].pid = proc[my[p]].pid
        BY <1>4, Zenon
      <4> QED BY <1>4, <3>3, <3>4, <4>1, Zenon
    <3> QED BY <3>1, <3>2, <3>5, Zenon
  <2>2. proc[t].pt = a => Shared(p, a)
    BY <2>1, Zenon DEF Shared
  <2> QED BY <1>8, <2>1, <2>2, Zenon
<1>10. SpaceReclaimed'
  <2> SUFFICES ASSUME NEW b \in Pid, space'[b] \in {"live", "empty"}
               PROVE  \E t \in Slot : slot_in_use[t] /\ proc[t].pt = b
    BY <1>3, Zenon DEF SpaceReclaimed
  <2> QED BY <1>5, <1>8, Zenon
<1> QED BY <1>3, <1>5, <1>7, <1>9, <1>10, Zenon DEF SpaceInv

\* wait4 looks for other processes with the address space of the child.
LEMMA CheckSharedSpaces ==
    ASSUME LifeInv, SpaceInv, Cpus = 1, NEW p \in Pid, CheckShared(p)
    PROVE  SpaceInv'
<1>1. TypeOK /\ OneIn /\ TableInv /\ RegInv /\ pc[p] = "shared" /\ InKernel(p)
  BY Zenon DEF LifeInv, CheckShared, At, InKernel
<1>2. \A q \in Pid \ {p} : pc[q] \in {"none", "user", "asleep", "gone"}
  BY <1>1, AloneIn, Zenon
<1>3. UNCHANGED <<proc, slot_in_use, space, reg>>
  BY Zenon DEF CheckShared, table
<1>4. /\ \A t \in Slot : slot_in_use[t] => proc[t].pt \in Pid
      /\ \A a \in Pid : space[a] \in {"live", "empty"} => \E t \in Slot : slot_in_use[t] /\ proc[t].pt = a
  BY <1>1, AllHaveSpaces, Zenon
<1>5. proc[reg[p]].pt # 0
  BY <1>1, <1>4, InHand, Facts DEF Reaping
<1>6. \A q \in Pid : pc'[q] = IF q # p THEN pc[q] ELSE IF StillShared(p) THEN "keep" ELSE "destroy"
  BY <1>1, <1>5, Zenon DEF CheckShared, Goto, TypeOK
<1>7. StillShared(p)' <=> StillShared(p)
  BY <1>3, Zenon DEF StillShared, Shared
<1>8. SpaceLive' /\ SpaceReclaimed'
  BY <1>3, <1>4, Zenon DEF SpaceInv, SpaceLive, SpaceReclaimed
<1>9. \A q \in Pid : /\ pc'[q] = "destroy" => ~ StillShared(q)'
                     /\ pc'[q] = "keep" => StillShared(q)'
                     /\ pc'[q] # "clearSlot"
  BY <1>2, <1>6, <1>7, Zenon
<1> QED BY <1>3, <1>4, <1>8, <1>9, Zenon DEF SpaceInv

\* The last process that has an address space, when reaped, frees it.
LEMMA DestroySpaces ==
    ASSUME LifeInv, SpaceInv, Cpus = 1, NEW p \in Pid, DestroySpace(p)
    PROVE  SpaceInv'
<1>1. TypeOK /\ OneIn /\ TableInv /\ RegInv /\ pc[p] \in {"keep", "destroy"} /\ InKernel(p)
  BY Zenon DEF LifeInv, DestroySpace, At, InKernel
<1>2. \A q \in Pid \ {p} : pc[q] \in {"none", "user", "asleep", "gone"}
  BY <1>1, AloneIn, Zenon
<1>3. PICK c \in Slot : c = reg[p] /\ slot_in_use[c] /\ proc[c].state = "zombie"
  BY <1>1, InHand, Zenon DEF Reaping
<1>4. \A t \in Slot : slot_in_use[t] => proc[t].pt \in Pid
  BY <1>1, <1>2, Zenon DEF SpaceInv
<1>5. PICK a \in Pid : a = proc[c].pt
  BY <1>3, <1>4, Zenon
<1>6. UNCHANGED <<slot_in_use, reg>> /\ \A q \in Pid : pc'[q] = IF q = p THEN "clearSlot" ELSE pc[q]
  BY <1>1, Zenon DEF DestroySpace, Goto, TypeOK
<1>7. /\ \A t \in Slot : proc'[t].state = proc[t].state
      /\ \A t \in Slot \ {c} : proc'[t] = proc[t]
      /\ proc'[c].pt = 0
  BY <1>1, <1>3 DEF DestroySpace, TypeOK
<1>8. \A b \in Pid : space'[b] = IF pc[p] = "destroy" /\ b = a THEN "freed" ELSE space[b]
  <2>1. a # 0
    BY Facts, Zenon
  <2> QED BY <1>1, <1>3, <1>5, <2>1, Zenon DEF DestroySpace, At, TypeOK
<1>9. \/ pc[p] = "keep" /\ \E t \in Slot \ {c} : slot_in_use[t] /\ proc[t].pt = a
      \/ pc[p] = "destroy" /\ \A t \in Slot \ {c} : slot_in_use[t] => proc[t].pt # a
  <2>1. StillShared(p) <=> \E t \in Slot : slot_in_use[t] /\ proc[t].pid # proc[c].pid /\ proc[t].pt = a
    BY <1>3, <1>5, Zenon DEF StillShared, Shared
  <2>2. \A t \in Slot : slot_in_use[t] => (proc[t].pid # proc[c].pid <=> t # c)
    BY <1>1, <1>3, Zenon DEF TableInv
  <2>3. (pc[p] = "destroy" => ~ StillShared(p)) /\ (pc[p] = "keep" => StillShared(p))
    BY Zenon DEF SpaceInv
  <2> QED BY <1>1, <2>1, <2>2, <2>3, Zenon
<1>10. SpaceLive'
  <2> SUFFICES ASSUME NEW t \in Slot, slot_in_use'[t], proc'[t].state # "zombie"
               PROVE  space'[proc'[t].pt] = "live"
    BY Zenon DEF SpaceLive
  <2>1. t # c /\ slot_in_use[t] /\ proc'[t] = proc[t] /\ proc[t].state # "zombie"
    <3>1. slot_in_use[t] /\ t # c
      BY <1>3, <1>6, <1>7, Zenon
    <3> QED BY <1>7, <3>1, Zenon
  <2>2. proc[t].pt \in Pid /\ space[proc[t].pt] = "live"
    BY <1>4, <2>1, Zenon DEF SpaceInv, SpaceLive
  <2> QED BY <1>6, <1>8, <1>9, <2>1, <2>2
<1>11. SpaceReclaimed'
  <2> SUFFICES ASSUME NEW b \in Pid, space'[b] \in {"live", "empty"}
               PROVE  \E t \in Slot : slot_in_use'[t] /\ proc'[t].pt = b
    BY Zenon DEF SpaceReclaimed
  <2>1. space[b] \in {"live", "empty"} /\ ~ (pc[p] = "destroy" /\ b = a)
    BY <1>8, Zenon
  <2>2. PICK t \in Slot : slot_in_use[t] /\ proc[t].pt = b
    <3>1. \A q \in Pid : At(q, "destroy") => q = p
      BY <1>2, Zenon DEF At
    <3> QED BY <1>3, <1>5, <2>1, <3>1 DEF SpaceInv, SpaceReclaimed
  <2>3. CASE t # c
    BY <1>6, <1>7, <2>2, <2>3, Zenon
  <2>4. CASE t = c
    <3>1. b = a /\ pc[p] = "keep"
      BY <1>1, <1>5, <2>1, <2>2, <2>4, Zenon
    <3>2. PICK u \in Slot \ {c} : slot_in_use[u] /\ proc[u].pt = a
      BY <1>9, <3>1, Zenon
    <3> QED BY <1>6, <1>7, <3>1, <3>2, Zenon
  <2> QED BY <2>3, <2>4, Zenon
<1>12. \A t \in Slot : slot_in_use'[t] => proc'[t].pt \in Pid \/ (pc'[p] = "clearSlot" /\ reg'[p] = t)
  BY <1>3, <1>4, <1>6, <1>7, Zenon
<1>13. \A q \in Pid : /\ pc'[q] \notin {"destroy", "keep"}
                      /\ pc'[q] = "clearSlot" => proc'[reg'[q]].pt = 0
  BY <1>2, <1>3, <1>6, <1>7, Zenon
<1> QED BY <1>10, <1>11, <1>12, <1>13, Zenon DEF SpaceInv

LEMMA ClearSpaces ==
    ASSUME LifeInv, SpaceInv, Cpus = 1, NEW p \in Pid, ClearSlot(p)
    PROVE  SpaceInv'
<1>1. TypeOK /\ OneIn /\ TableInv /\ RegInv /\ pc[p] = "clearSlot" /\ InKernel(p)
  BY Zenon DEF LifeInv, ClearSlot, At, InKernel
<1>2. \A q \in Pid \ {p} : pc[q] \in {"none", "user", "asleep", "gone"}
  BY <1>1, AloneIn, Zenon
<1>3. PICK c \in Slot : c = reg[p]
  BY <1>1, InHand, Zenon DEF Reaping
<1>4. proc[c].pt = 0
  BY <1>1, <1>3, Zenon DEF SpaceInv
<1>5. UNCHANGED <<proc, space>> /\ \A q \in Pid : pc'[q] = IF q = p THEN "push" ELSE pc[q]
  BY <1>1, Zenon DEF ClearSlot, Goto, TypeOK
<1>6. \A t \in Slot : slot_in_use'[t] <=> t # c /\ slot_in_use[t]
  BY <1>1, <1>3, Zenon DEF ClearSlot, TypeOK
<1>7. \A q \in Pid : pc'[q] \notin {"destroy", "keep", "clearSlot"}
  BY <1>2, <1>5, Zenon
<1>8. SpaceLive'
  BY <1>5, <1>6, Zenon DEF SpaceInv, SpaceLive
<1>9. SpaceReclaimed'
  <2>1. \A b \in Pid : space[b] \in {"live", "empty"} => \E t \in Slot : slot_in_use[t] /\ proc[t].pt = b
    BY <1>1, <1>2, Zenon DEF SpaceInv, SpaceReclaimed, At
  <2>2. \A b \in Pid : \A t \in Slot : proc[t].pt = b => t # c
    BY <1>4, Facts, Zenon
  <2> QED BY <1>5, <1>6, <2>1, <2>2, Zenon DEF SpaceReclaimed
<1>10. \A t \in Slot : slot_in_use'[t] => proc'[t].pt \in Pid
  <2>1. \A t \in Slot : slot_in_use[t] => proc[t].pt \in Pid \/ t = c
    BY <1>2, <1>3, Zenon DEF SpaceInv
  <2> QED BY <1>5, <1>6, <2>1, Zenon
<1> QED BY <1>7, <1>8, <1>9, <1>10, Zenon DEF SpaceInv

\* isSharedAddressSpace and wait4 on one CPU: the address space of a process
\* that has not exited is neither emptied nor freed, and one that no process
\* has any more, or that fork made for a child it could not make, is freed.
THEOREM LifecycleSpacesExact == ASSUME Cpus = 1 PROVE Spec => []SpacesExact
<1>1. Init => SpaceInv
  <2> SUFFICES ASSUME Init PROVE SpaceInv
    BY Zenon
  <2>1. 0 \in Slot /\ 1 \in Pid
    BY Facts, Zenon DEF InitPid
  <2> QED BY <2>1, Zenon DEF Init, SpaceInv, SpaceLive, SpaceReclaimed
<1>2. LifeInv /\ SpaceInv /\ [Next]_vars => SpaceInv'
  <2> SUFFICES ASSUME LifeInv, SpaceInv, [Next]_vars PROVE SpaceInv'
    BY Zenon
  <2>1. CASE UNCHANGED vars
    <3>1. UNCHANGED <<proc, slot_in_use, space, pc, my, reg>>
      BY <2>1, Zenon DEF vars, table
    <3>2. \A p \in Pid : StillShared(p)' <=> StillShared(p)
      BY <3>1, Zenon DEF StillShared, Shared
    <3>3. SpaceLive'
      BY <3>1, Zenon DEF SpaceInv, SpaceLive
    <3>4. SpaceReclaimed'
      BY <3>1, Zenon DEF SpaceInv, SpaceReclaimed, At
    <3> QED BY <3>1, <3>2, <3>3, <3>4, Zenon DEF SpaceInv
  <2>2. CASE Next
    <3>1. PICK p \in Pid : Kernel(p) \/ Resume(p) \/ Clone(p) \/ Exit(p) \/ \E w \in 0 .. MaxPid : Wait4(p, w)
      BY <2>2, Zenon DEF Next
    <3>2. CASE CloneDone(p) \/ UserPages(p) \/ CheckShared(p) \/ DestroySpace(p) \/ ClearSlot(p)
      BY <3>2, CloneDoneSpaces, UserPagesSpaces, CheckSharedSpaces, DestroySpaces, ClearSpaces, Zenon
    <3> QED BY <3>1, <3>2, PlainSpaces, Zenon DEF Kernel
  <2> QED BY <2>1, <2>2, Zenon
<1>3. SpaceInv /\ HandsInv => SpacesExact
  BY Zenon DEF SpaceInv, HandsInv, SpacesExact
<1> QED BY <1>1, <1>2, <1>3, AlwaysLife, AlwaysHands, PTL DEF Spec

-----------------------------------------------------------------------------
(* Parents.                                                                *)

\* A step of p that gives no process another parent.
ParentStep(p) ==
    /\ \A s \in Slot : slot_in_use'[s] => slot_in_use[s]
    /\ \A s \in Slot : /\ proc'[s].pid = proc[s].pid /\ proc'[s].tgid = proc[s].tgid
                       /\ proc'[s].parent = proc[s].parent
    /\ \A q \in Pid \ {p} : pc'[q] = pc[q]
    /\ Cares(p) => Cares(p)' \/ thread[p]
    /\ p = InitPid => pc'[p] \notin Dying \cup {"gone"}
    /\ pc'[p] # "none"
    /\ UNCHANGED thread

LEMMA ParentFrame ==
    ASSUME ParentInv, NEW p \in Pid, ParentStep(p)
    PROVE  ParentInv'
<1>1. \A q \in Pid : Cares(q) \/ thread[q] => Cares(q)' \/ thread'[q]
  BY Zenon DEF ParentStep, Cares
<1>2. pc'[InitPid] \notin Dying \cup {"gone"} /\ \A q \in Pid : pc[q] # "none" => pc'[q] # "none"
  BY Facts, Zenon DEF ParentInv, ParentStep
<1>3. ASSUME NEW s \in Slot, slot_in_use'[s] PROVE Family(s)'
  <2>1. /\ slot_in_use[s] /\ proc'[s].pid = proc[s].pid /\ proc'[s].tgid = proc[s].tgid
        /\ proc'[s].parent = proc[s].parent /\ thread' = thread
    BY <1>3, Zenon DEF ParentStep
  <2>2. Family(s)
    BY <2>1, Zenon DEF ParentInv
  <2> QED BY <1>1, <1>2, <2>1, <2>2, Zenon DEF Family, Cares
<1>4. \A q \in Pid : thread'[q] => pc'[q] # "none"
  BY <1>2, Zenon DEF ParentInv, ParentStep
<1> QED BY <1>2, <1>3, <1>4, Zenon DEF ParentInv

LEMMA PlainParents ==
    ASSUME LifeInv, ParentInv, NEW p \in Pid, NEW w,
           \/ Clone(p) \/ ForkSpace(p) \/ StackFails(p) \/ Exit(p) \/ WakeInit(p) \/ UserPages(p)
           \/ WakeParent(p) \/ Schedule(p) \/ Wait4(p, w) \/ Scan(p) \/ CheckShared(p) \/ DestroySpace(p)
           \/ ClearSlot(p) \/ Push(p) \/ Block(p) \/ Resume(p)
    PROVE  ParentInv'
<1>1. TypeOK /\ TableInv
  BY Zenon DEF LifeInv
<1>2. PICK l : /\ Goto(p, l) /\ l # "none"
               /\ l \in (Dying \cup {"gone"}) \ {"reparent"} => pc[p] \in Dying \ {"reparent"}
               /\ l = "reparent" => p # InitPid
  <2>1. CASE Clone(p) \/ ForkSpace(p) \/ StackFails(p) \/ Exit(p) \/ Wait4(p, w) \/ Push(p) \/ Block(p) \/ Resume(p)
    <3>1. \/ Goto(p, "fork") \/ Goto(p, "kstack") \/ Goto(p, "vm") \/ Goto(p, "clone") \/ Goto(p, "user")
          \/ Goto(p, "scan") \/ Goto(p, "asleep")
          \/ Goto(p, "reparent") /\ p # InitPid
      BY <2>1, Zenon DEF Clone, ForkSpace, StackFails, CloneFails, Exit, Wait4, Push, Block, Resume
    <3>2. {"fork", "kstack", "vm", "clone", "user", "scan", "asleep"} \cap (Dying \cup {"gone"}) = {}
      BY DEF Dying
    <3> QED BY <3>1, <3>2
  <2>2. CASE WakeInit(p) \/ UserPages(p) \/ WakeParent(p) \/ Schedule(p)
    <3>1. /\ pc[p] \in {"wakeInit", "userPages", "wakeParent", "schedule"}
          /\ \/ Goto(p, "userPages") \/ Goto(p, "wakeParent")
             \/ Goto(p, "schedule") \/ Goto(p, "gone")
      BY <2>2, Zenon DEF WakeInit, UserPages, WakeParent, Schedule, At
    <3>2. {"wakeInit", "userPages", "wakeParent", "schedule"} \subseteq Dying \ {"reparent"}
      BY DEF Dying
    <3> QED BY <3>1, <3>2
  <2>3. CASE Scan(p) \/ CheckShared(p) \/ DestroySpace(p) \/ ClearSlot(p)
    <3>1. \/ Goto(p, "shared") \/ Goto(p, "user") \/ Goto(p, "block") \/ Goto(p, "keep")
          \/ Goto(p, "destroy") \/ Goto(p, "clearSlot") \/ Goto(p, "push")
      BY <2>3, Zenon DEF Scan, CheckShared, DestroySpace, ClearSlot
    <3>2. {"shared", "user", "block", "keep", "destroy", "clearSlot", "push"}
              \cap (Dying \cup {"gone"}) = {}
      BY DEF Dying
    <3> QED BY <3>1, <3>2
  <2> QED BY <2>1, <2>2, <2>3, Zenon
<1>3. \A q \in Pid : pc'[q] = IF q = p THEN l ELSE pc[q]
  BY <1>1, <1>2, Zenon DEF Goto, TypeOK
<1>4. \A s \in Slot : slot_in_use'[s] => slot_in_use[s]
  <2>1. CASE ClearSlot(p)
    BY <1>1, <2>1, Zenon DEF ClearSlot, TypeOK
  <2> QED BY <2>1, Zenon DEF Clone, ForkSpace, StackFails, CloneFails, Exit, WakeInit, UserPages, WakeParent, Schedule, Wait4,
                      Scan, CheckShared, DestroySpace, Push, Block, Resume, table
<1>5. \A s \in Slot : /\ proc'[s].pid = proc[s].pid /\ proc'[s].tgid = proc[s].tgid
                      /\ proc'[s].parent = proc[s].parent
  <2>1. CASE \/ Clone(p) \/ ForkSpace(p) \/ StackFails(p) \/ UserPages(p) \/ Schedule(p) \/ Wait4(p, w) \/ Scan(p)
             \/ CheckShared(p) \/ ClearSlot(p) \/ Push(p) \/ Resume(p)
    BY <2>1, Zenon DEF Clone, ForkSpace, StackFails, CloneFails, UserPages, Schedule, Wait4, Scan, CheckShared, ClearSlot, Push,
                Resume, table
  <2>2. CASE Exit(p) \/ Block(p) \/ DestroySpace(p)
    BY <1>1, <2>2 DEF Exit, Block, DestroySpace, TypeOK
  <2>3. CASE WakeInit(p) \/ WakeParent(p)
    BY <1>1, <2>3 DEF WakeInit, WakeParent, Wake, TypeOK
  <2> QED BY <2>1, <2>2, <2>3, Zenon
<1>6. Cares(p) => Cares(p)'
  BY <1>2, <1>3, Zenon DEF Cares
<1>7. p = InitPid => pc'[p] \notin Dying \cup {"gone"}
  BY <1>2, <1>3, Zenon DEF ParentInv
<1>8. UNCHANGED thread
  BY Zenon DEF Clone, ForkSpace, StackFails, CloneFails, Exit, WakeInit, UserPages, WakeParent, Schedule,
               Wait4, Scan, CheckShared, DestroySpace, ClearSlot, Push, Block, Resume, hands
<1>9. ParentStep(p)
  BY <1>2, <1>3, <1>4, <1>5, <1>6, <1>7, <1>8, Zenon DEF ParentStep
<1> QED BY <1>9, ParentFrame, Zenon

\* The new process is the child of one that has not begun to exit.
LEMMA CloneDoneParents ==
    ASSUME LifeInv, HandsInv, ParentInv, NEW p \in Pid, CloneDone(p)
    PROVE  ParentInv'
<1>1. TypeOK /\ HandsOK /\ TableInv /\ RegInv /\ pc[p] \in Creating
  BY Zenon DEF LifeInv, HandsInv, CloneDone, At, Creating
<1>2. PICK new \in Pid : new = next_pid /\ pc[new] = "none"
  BY <1>1 DEF CloneDone, TypeOK, TableInv, Pid
<1>3. PICK s \in Slot : s = reg[p] /\ ~ slot_in_use[s]
  BY <1>1, Zenon DEF RegInv, TypeOK
<1>4. my[p] \in Slot /\ slot_in_use[my[p]] /\ proc[my[p]].pid = p /\ new # p
  BY <1>1, <1>2, OwnSlot, Zenon DEF Creating
<1>5. /\ \A t \in Slot \ {s} : proc'[t] = proc[t] /\ (slot_in_use'[t] <=> slot_in_use[t])
      /\ proc'[s].pid = new /\ proc'[s].parent = p
      /\ proc'[s].tgid = IF pc[p] = "clone" THEN proc[my[p]].tgid ELSE new
  BY <1>1, <1>2, <1>3, Zenon DEF CloneDone, TypeOK, At, Me
<1>6. \A q \in Pid : /\ pc'[q] = IF q \in {p, new} THEN "user" ELSE pc[q]
                     /\ thread'[q] <=> IF q = new THEN pc[p] = "clone" ELSE thread[q]
  BY <1>1, <1>2, Zenon DEF CloneDone, TypeOK, HandsOK, At
<1>7. \A q \in Pid : Cares(q) \/ thread[q] => Cares(q)' \/ thread'[q]
  <2>1. \A q \in Pid : Cares(q) => Cares(q)'
    BY <1>6, Zenon DEF Cares, Dying
  <2>2. ~ thread[new]
    BY <1>2, Zenon DEF ParentInv
  <2> QED BY <1>6, <2>1, <2>2, Zenon
<1>8. /\ pc'[InitPid] \notin Dying \cup {"gone"}
      /\ \A q \in Pid : (thread'[q] => pc'[q] # "none") /\ (pc[q] # "none" => pc'[q] # "none")
  BY <1>6, Facts, Zenon DEF ParentInv, Dying
<1>9. new # InitPid
  BY <1>1, <1>2, Facts DEF TableInv, Pid, InitPid, TypeOK, Creating
<1>10. ASSUME NEW t \in Slot, slot_in_use'[t] PROVE Family(t)'
  <2>1. CASE t = s
    <3>1. proc[my[p]].tgid \in Pid /\ pc[proc[my[p]].tgid] # "none"
      BY <1>4, Zenon DEF ParentInv, Family
    <3>2. proc'[s].tgid \in Pid /\ pc'[proc'[s].tgid] # "none"
      BY <1>2, <1>5, <1>6, <1>8, <3>1
    <3>3. proc'[s].tgid = proc'[s].pid <=> ~ thread'[proc'[s].pid]
      BY <1>2, <1>5, <1>6, <3>1, Zenon
    <3>4. Cares(p)'
      BY <1>6, Zenon DEF Cares, Dying
    <3> QED BY <1>4, <1>5, <1>9, <2>1, <3>2, <3>3, <3>4, Zenon DEF Family, Cares
  <2>2. CASE t # s
    <3>1. slot_in_use[t] /\ proc'[t] = proc[t]
      BY <1>5, <1>10, <2>2, Zenon
    <3>2. Family(t) /\ proc[t].pid \in Pid /\ proc[t].pid # new
      <4>1. Family(t)
        BY <3>1, Zenon DEF ParentInv
      <4>2. proc[t].pid \in Pid /\ pc[proc[t].pid] # "none"
        BY <1>1, <3>1, Zenon DEF TableInv
      <4> QED BY <1>2, <4>1, <4>2, Zenon
    <3>3. thread'[proc[t].pid] <=> thread[proc[t].pid]
      BY <1>6, <3>2, Zenon
    <3> QED BY <1>7, <1>8, <3>1, <3>2, <3>3, Zenon DEF Family, Cares
  <2> QED BY <2>1, <2>2, Zenon
<1> QED BY <1>8, <1>10, Zenon DEF ParentInv

\* exit of a leader gives the children to init, which does not exit.
LEMMA ReparentParents ==
    ASSUME LifeInv, ParentInv, NEW p \in Pid, Reparent(p)
    PROVE  ParentInv'
<1>1. TypeOK /\ TableInv /\ pc[p] = "reparent" /\ p # InitPid
  BY Zenon DEF LifeInv, Reparent, At, ParentInv, Dying
<1>2. my[p] \in Slot /\ slot_in_use[my[p]] /\ proc[my[p]].pid = p
  BY <1>1, OwnSlot, Zenon
<1>3. Family(my[p]) /\ Me(p).pid = p /\ Me(p) = proc[my[p]]
  BY <1>2, Zenon DEF ParentInv, Me
<1>4. PICK l \in {"wakeInit", "userPages"} : Goto(p, l)
  BY Zenon DEF Reparent
<1>5. \A q \in Pid : pc'[q] = IF q = p THEN l ELSE pc[q]
  BY <1>1, <1>4, Zenon DEF Goto, TypeOK
<1>6. slot_in_use' = slot_in_use /\ thread' = thread
  BY Zenon DEF Reparent, hands
<1>7. CASE Me(p).tgid # p
  <2>1. thread[p] /\ proc' = proc
    BY <1>3, <1>7, Zenon DEF Family, Reparent
  <2>2. ParentStep(p)
    BY <1>1, <1>5, <1>6, <2>1, Zenon DEF ParentStep
  <2> QED BY <2>2, ParentFrame, Zenon
<1>8. CASE Me(p).tgid = p
  <2>1. proc' = Adopt(p)
    BY <1>3, <1>8, Zenon DEF Reparent
  <2>2. \A s \in Slot : slot_in_use[s] =>
           /\ proc'[s].pid = proc[s].pid /\ proc'[s].tgid = proc[s].tgid
           /\ proc'[s].parent = IF proc[s].parent = p THEN InitPid ELSE proc[s].parent
    <3>1. \A s \in Slot : slot_in_use[s] /\ proc[s].parent = p => proc[s].pid # p
      BY Zenon DEF ParentInv, Family
    <3> QED BY <1>1, <1>3, <2>1, <3>1 DEF Adopt, TypeOK
  <2>3. /\ pc'[InitPid] \notin Dying \cup {"gone"}
        /\ \A q \in Pid : (thread[q] => pc'[q] # "none") /\ (pc[q] # "none" => pc'[q] # "none")
    BY <1>1, <1>5, Facts, Zenon DEF ParentInv
  <2>4. Cares(InitPid)'
    <3>1. pc[InitPid] # "none"
      <4>1. pc[p] # "none" /\ p >= InitPid /\ (pc[p] = "none" <=> p >= next_pid)
        BY <1>1 DEF TableInv, Pid, InitPid
      <4>2. pc[InitPid] = "none" <=> InitPid >= next_pid
        BY <1>1, Facts, Zenon DEF TableInv
      <4> QED BY <1>1, <4>1, <4>2 DEF TypeOK, Pid, InitPid
    <3> QED BY <1>1, <1>5, <2>3, <3>1, Facts, Zenon DEF Cares
  <2>5. ASSUME NEW t \in Slot, slot_in_use'[t] PROVE Family(t)'
    <3>1. slot_in_use[t] /\ Family(t)
      BY <1>6, <2>5, Zenon DEF ParentInv
    <3>2. CASE proc[t].parent = p
      <4>1. /\ proc[t].pid # InitPid /\ proc'[t].parent = InitPid /\ proc'[t].pid = proc[t].pid
            /\ proc'[t].tgid = proc[t].tgid
        <5>1. proc[t].pid = InitPid => proc[t].parent = 0
          BY <3>1, Zenon DEF Family
        <5> QED BY <2>2, <3>1, <3>2, <5>1, Facts, Zenon
      <4> QED BY <1>6, <2>3, <2>4, <3>1, <4>1, Facts, Zenon DEF Family, Cares
    <3>3. CASE proc[t].parent # p
      <4>1. proc'[t].pid = proc[t].pid /\ proc'[t].tgid = proc[t].tgid /\ proc'[t].parent = proc[t].parent
        BY <2>2, <3>1, <3>3, Zenon
      <4>2. proc[t].parent \in Pid => pc'[proc[t].parent] = pc[proc[t].parent]
        BY <1>5, <3>3, Zenon
      <4> QED BY <1>6, <2>3, <3>1, <4>1, <4>2, Zenon DEF Family, Cares
    <3> QED BY <3>2, <3>3, Zenon
  <2> QED BY <1>6, <2>3, <2>5, Zenon DEF ParentInv
<1> QED BY <1>7, <1>8, Zenon

\* sysExit on one CPU: the parent of a process, which alone can reap it, is in
\* the table, unless it was a thread that was not the leader of its group.
THEOREM LifecycleParentExists == ASSUME Cpus = 1 PROVE Spec => []ParentExists
<1>1. Init => ParentInv
  <2> SUFFICES ASSUME Init PROVE ParentInv
    BY Zenon
  <2>1. \A s \in Slot : slot_in_use[s] => s = 0 /\ proc[s].pid = 1 /\ proc[s].tgid = 1 /\ proc[s].parent = 0
    BY Zenon DEF Init
  <2>2. pc[InitPid] = "user" /\ \A p \in Pid : ~ thread[p]
    BY Facts, Zenon DEF Init, InitPid
  <2>3. InitPid = 1 /\ 0 # 1 /\ "user" \notin Dying \cup {"gone"} /\ "user" # "none"
    BY DEF InitPid, Dying
  <2>4. ASSUME NEW s \in Slot, slot_in_use[s] PROVE Family(s)
    BY <2>1, <2>2, <2>3, <2>4, Facts, Zenon DEF Family
  <2> QED BY <2>2, <2>3, <2>4, Zenon DEF ParentInv
<1>2. LifeInv /\ HandsInv /\ ParentInv /\ [Next]_vars => ParentInv'
  <2> SUFFICES ASSUME LifeInv, HandsInv, ParentInv, [Next]_vars PROVE ParentInv'
    BY Zenon
  <2>1. CASE UNCHANGED vars
    BY <2>1, Zenon DEF vars, table, hands, ParentInv, Family, Cares
  <2>2. CASE Next
    <3>1. PICK p \in Pid : Kernel(p) \/ Resume(p) \/ Clone(p) \/ Exit(p) \/ \E w \in 0 .. MaxPid : Wait4(p, w)
      BY <2>2, Zenon DEF Next
    <3>2. CASE CloneDone(p) \/ Reparent(p)
      BY <3>2, CloneDoneParents, ReparentParents, Zenon
    <3> QED BY <3>1, <3>2, PlainParents, Zenon DEF Kernel
  <2> QED BY <2>1, <2>2, Zenon
<1>3. LifeInv /\ ParentInv => ParentExists
  <2> SUFFICES ASSUME LifeInv, ParentInv, NEW s \in Slot, slot_in_use[s], proc[s].pid # InitPid,
                      ~ thread[proc[s].parent]
               PROVE  SlotOf(proc[s].parent) # {}
    BY Zenon DEF ParentExists
  <2>1. proc[s].parent \in Pid /\ pc[proc[s].parent] \notin {"none", "gone"}
    BY Zenon DEF ParentInv, Family, Cares
  <2>2. my[proc[s].parent] \in SlotOf(proc[s].parent)
    BY <2>1, OwnSlot, Zenon DEF LifeInv, SlotOf
  <2> QED BY <2>2, Zenon
<1> QED BY <1>1, <1>2, <1>3, AlwaysLife, AlwaysHands, PTL DEF Spec
=============================================================================
