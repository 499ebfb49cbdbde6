---------------------------- MODULE Pipe_proofs ----------------------------
(***************************************************************************)
(* Proofs about the pipe, for every ring size, every set of byte values    *)
(* and any number of readers and writers: the ring is a stream of bytes.   *)
(***************************************************************************)
EXTENDS Pipe, SequenceTheorems, TLAPS

-----------------------------------------------------------------------------
(* The calls in progress.                                                  *)

\* Where a process is in its system call agrees with the call it made.
Agrees(l, c) ==
    \/ l \in {"user", "closeR", "closeW"} /\ c.op = "none" /\ c.iov = 0
    \/ l \in {"read", "write"} /\ c.op = l /\ c.iov > 0 /\ c.n > 0
    \/ l \in {"poll", "register"} /\ c.op = "poll" /\ c.iov > 0 /\ c.n > 0
    \/ l = "eagain" /\ c.op \in {"read", "write"} /\ c.iov > 0 /\ c.n > 0
    \/ l = "asleep" /\ c.op \in {"read", "write", "poll"} /\ c.iov > 0 /\ c.n > 0
    \/ l = "wake" /\ c.op \in {"read", "write"} /\ c.n > 0
    \/ l = "wake" /\ c.op = "none" /\ c.iov = 0

Label == {"user", "read", "write", "poll", "register", "eagain", "asleep", "wake",
          "closeR", "closeW"}

CallInv ==
    /\ pc \in [Proc -> Label] /\ call \in [Proc -> Call] /\ res \in [Proc -> Result]
    /\ \A p \in Proc : Agrees(pc[p], call[p])

\* The ring: count bytes from read_pos on, up to write_pos.
RingInv ==
    /\ buffer \in [0 .. Size - 1 -> Byte]
    /\ read_pos \in 0 .. Size - 1 /\ write_pos \in 0 .. Size - 1
    /\ count \in 0 .. Size
    /\ write_pos = (read_pos + count) % Size
    /\ moved # <<>> => moved \in Proc \X {"read", "write"} \X Seq(Byte)

EndsInv ==
    /\ readers \in Nat /\ writers \in Nat /\ in_use \in BOOLEAN
    /\ blocked_reader_pid \in Proc \cup {None}
    /\ blocked_writer_pid \in Proc \cup {None}
    /\ fds \in [Proc -> SUBSET {"r", "w"}]
    /\ state \in [Proc -> {"running", "blocked", "ready"}]

PipeInv == CallInv /\ RingInv /\ EndsInv

LEMMA PipeTyped == PipeInv => TypeOK
BY DEF PipeInv, CallInv, RingInv, EndsInv, TypeOK, Label

\* Positions in the ring, without the modulus.
LEMMA Wrap ==
    ASSUME NEW a \in 0 .. Size - 1, NEW k \in 0 .. Size
    PROVE  /\ (a + k) % Size = IF a + k < Size THEN a + k ELSE a + k - Size
           /\ (a + k) % Size \in 0 .. Size - 1
<1> USE PipeAssumption
<1>1. \A x \in 0 .. Size - 1 : x % Size = x
  OBVIOUS
<1>2. \A x \in Size .. 2 * Size - 1 : x % Size = x - Size
  OBVIOUS
<1> QED BY <1>1, <1>2

\* One process takes a step in its call.
LEMMA AgreesKept ==
    ASSUME CallInv, NEW p \in Proc, NEW l \in Label, NEW c \in Call, Agrees(l, c),
           pc' = [pc EXCEPT ![p] = l], call' = [call EXCEPT ![p] = c], res' \in [Proc -> Result]
    PROVE  CallInv'
<1>1. \A q \in Proc : pc'[q] = (IF q = p THEN l ELSE pc[q])
                      /\ call'[q] = (IF q = p THEN c ELSE call[q])
  BY DEF CallInv
<1>2. \A q \in Proc : Agrees(pc'[q], call'[q])
  BY <1>1 DEF CallInv
<1> QED BY <1>2, Zenon DEF CallInv

LEMMA FinishKeeps ==
    ASSUME CallInv, NEW p \in Proc, NEW r \in Result, Finish(p, r)
    PROVE  CallInv'
<1>1. pc' = [pc EXCEPT ![p] = "user"] /\ call' = [call EXCEPT ![p] = NoCall]
  BY DEF Finish, Goto
<1>2. res' \in [Proc -> Result]
  BY DEF Finish, CallInv, Result
<1>3. NoCall \in Call /\ Agrees("user", NoCall) /\ "user" \in Label
  BY PipeAssumption DEF NoCall, Call, Agrees, Label
<1> QED BY <1>1, <1>2, <1>3, AgreesKept, Zenon

LEMMA GotoKeeps ==
    ASSUME CallInv, NEW p \in Proc, NEW l, Goto(p, l), UNCHANGED <<call, res>>,
           Agrees(l, call[p])
    PROVE  CallInv'
<1>1. call[p] \in Call /\ call' = [call EXCEPT ![p] = call[p]]
  BY DEF CallInv
<1>2. l \in Label /\ res' \in [Proc -> Result]
  BY DEF Agrees, Label, CallInv
<1> QED BY <1>1, <1>2, AgreesKept, Zenon DEF Goto

\* The calls whose next step is to wake somebody.
LEMMA WaiterKeeps ==
    ASSUME CallInv, EndsInv, NEW p \in Proc, NEW pid \in Proc \cup {None},
           pc[p] \in {"read", "write"}, TakeWaiter(p, pid), Goto(p, "wake"), UNCHANGED res
    PROVE  CallInv'
<1> DEFINE c == [call[p] EXCEPT !.wake = pid, !.iov = call[p].iov - 1, !.done = TRUE]
<1>1. call[p] \in Call /\ call[p].iov > 0 /\ call[p].n > 0 /\ call[p].op \in {"read", "write"}
  BY DEF CallInv, Agrees
<1>2. call' = [call EXCEPT ![p] = c]
  BY <1>1 DEF TakeWaiter, CallInv, Call
<1>3. c \in Call /\ c.op = call[p].op /\ c.n = call[p].n
  <2>1. call[p].iov - 1 \in 0 .. MaxIov
    BY <1>1, PipeAssumption DEF Call
  <2> DEFINE r1 == [call[p] EXCEPT !.wake = pid]
             r2 == [r1 EXCEPT !.iov = call[p].iov - 1]
  <2>2. r1 \in Call /\ r1.op = call[p].op /\ r1.n = call[p].n
    BY <1>1 DEF Call
  <2>3. r2 \in Call /\ r2.op = call[p].op /\ r2.n = call[p].n
    <3> HIDE DEF r1
    <3> QED BY <2>1, <2>2 DEF Call
  <2>4. c = [r2 EXCEPT !.done = TRUE]
    OBVIOUS
  <2> HIDE DEF r2, c
  <2> QED BY <2>3, <2>4, Zenon DEF Call
<1> HIDE DEF c
<1>4. Agrees("wake", c) /\ "wake" \in Label /\ res' \in [Proc -> Result]
  BY <1>1, <1>3 DEF Agrees, Label, CallInv
<1> QED BY <1>2, <1>3, <1>4, AgreesKept, Zenon DEF Goto

-----------------------------------------------------------------------------
(* The bytes in the ring.  Slot is a position without the modulus, Bytes   *)
(* the contents of a ring b of n bytes from r on.                          *)

Slot(r, i) == IF r + i - 1 < Size THEN r + i - 1 ELSE r + i - 1 - Size
Bytes(b, r, n) == [i \in 1 .. n |-> b[(r + i - 1) % Size]]

LEMMA BytesAre ==
    ASSUME NEW b \in [0 .. Size - 1 -> Byte], NEW r \in 0 .. Size - 1, NEW n \in 0 .. Size
    PROVE  /\ Bytes(b, r, n) \in Seq(Byte) /\ Len(Bytes(b, r, n)) = n
           /\ \A i \in 1 .. n : Bytes(b, r, n)[i] = b[Slot(r, i)]
<1> USE PipeAssumption
<1>1. ASSUME NEW i \in 1 .. n
      PROVE  (r + i - 1) % Size = Slot(r, i) /\ (r + i - 1) % Size \in 0 .. Size - 1
  <2>1. i - 1 \in 0 .. Size /\ r + (i - 1) = r + i - 1
    OBVIOUS
  <2>2. /\ (r + (i - 1)) % Size = IF r + (i - 1) < Size THEN r + (i - 1) ELSE r + (i - 1) - Size
        /\ (r + (i - 1)) % Size \in 0 .. Size - 1
    BY <2>1, Wrap, Zenon
  <2> QED BY <2>1, <2>2 DEF Slot
<1>2. Bytes(b, r, n) \in [1 .. n -> Byte]
  BY <1>1 DEF Bytes
<1>3. Bytes(b, r, n) \in Seq(Byte) /\ Len(Bytes(b, r, n)) = n
  BY <1>2, SeqDef
<1>4. \A i \in 1 .. n : Bytes(b, r, n)[i] = b[(r + i - 1) % Size]
  BY DEF Bytes
<1> QED BY <1>1, <1>3, <1>4

\* The end of the data does not move when bytes are read off its front.
LEMMA SameEnd ==
    ASSUME NEW r \in 0 .. Size - 1, NEW n \in 0 .. Size, NEW k \in 0 .. n
    PROVE  (((r + k) % Size) + (n - k)) % Size = (r + n) % Size
<1> USE PipeAssumption
<1> DEFINE s == (r + k) % Size
<1>1. k \in 0 .. Size /\ n - k \in 0 .. Size
  OBVIOUS
<1>2. s = (IF r + k < Size THEN r + k ELSE r + k - Size) /\ s \in 0 .. Size - 1
  BY <1>1, Wrap, Zenon
<1> HIDE DEF s
<1>3. (s + (n - k)) % Size = IF s + (n - k) < Size THEN s + (n - k) ELSE s + (n - k) - Size
  <2> DEFINE d == n - k
  <2> HIDE DEF d
  <2>1. d \in 0 .. Size
    BY <1>1 DEF d
  <2>2. (s + d) % Size = IF s + d < Size THEN s + d ELSE s + d - Size
    BY <1>2, <2>1, Wrap, Zenon
  <2> QED BY <2>2 DEF d
<1>4. (r + n) % Size = IF r + n < Size THEN r + n ELSE r + n - Size
  BY Wrap, Zenon
<1>5. (IF s + (n - k) < Size THEN s + (n - k) ELSE s + (n - k) - Size) =
      (IF r + n < Size THEN r + n ELSE r + n - Size)
  BY <1>2
<1>6. (s + (n - k)) % Size = (r + n) % Size
  <2> DEFINE x == (s + (n - k)) % Size
             y == (r + n) % Size
  <2>1. x = IF s + (n - k) < Size THEN s + (n - k) ELSE s + (n - k) - Size
    BY <1>3
  <2>2. y = IF r + n < Size THEN r + n ELSE r + n - Size
    BY <1>4
  <2> HIDE DEF x, y
  <2>3. x = y
    BY <1>5, <2>1, <2>2
  <2> QED BY <2>3 DEF x, y
<1> QED BY <1>6 DEF s

\* What is left after k bytes are read.
LEMMA BytesLeft ==
    ASSUME NEW b \in [0 .. Size - 1 -> Byte], NEW r \in 0 .. Size - 1, NEW n \in 0 .. Size,
           NEW k \in 1 .. n
    PROVE  Bytes(b, (r + k) % Size, n - k) = SubSeq(Bytes(b, r, n), k + 1, n)
<1> USE PipeAssumption
<1> DEFINE s == (r + k) % Size
           all == Bytes(b, r, n)
           left == Bytes(b, s, n - k)
<1>1. s = (IF r + k < Size THEN r + k ELSE r + k - Size) /\ s \in 0 .. Size - 1
  <2>1. k \in 0 .. Size
    OBVIOUS
  <2> QED BY <2>1, Wrap, Zenon
<1> HIDE DEF s
<1>2. \A i \in 1 .. n - k : Slot(s, i) = Slot(r, k + i) /\ k + i \in 1 .. n
  BY <1>1 DEF Slot
<1>3. all \in Seq(Byte) /\ Len(all) = n /\ \A i \in 1 .. n : all[i] = b[Slot(r, i)]
  BY BytesAre, Zenon
<1>4. left \in Seq(Byte) /\ Len(left) = n - k /\ \A i \in 1 .. n - k : left[i] = b[Slot(s, i)]
  <2> DEFINE d == n - k
  <2>1. d \in 0 .. Size
    OBVIOUS
  <2> HIDE DEF d
  <2>2. Bytes(b, s, d) \in Seq(Byte) /\ Len(Bytes(b, s, d)) = d
        /\ \A i \in 1 .. d : Bytes(b, s, d)[i] = b[Slot(s, i)]
    BY <1>1, <2>1, BytesAre, Zenon
  <2> QED BY <2>2 DEF d
<1> HIDE DEF all, left
<1>5. /\ SubSeq(all, k + 1, n) \in Seq(Byte)
      /\ Len(SubSeq(all, k + 1, n)) = n - k
      /\ \A i \in 1 .. n - k : SubSeq(all, k + 1, n)[i] = all[k + i]
  BY <1>3
<1>6. \A i \in 1 .. n - k : left[i] = SubSeq(all, k + 1, n)[i]
  <2> TAKE i \in 1 .. n - k
  <2>1. k + i \in 1 .. n /\ Slot(s, i) = Slot(r, k + i)
    BY <1>2
  <2>2. left[i] = b[Slot(s, i)] /\ all[k + i] = b[Slot(r, k + i)]
    BY <1>3, <1>4, <2>1
  <2>3. SubSeq(all, k + 1, n)[i] = all[k + i]
    BY <1>5
  <2> QED BY <2>1, <2>2, <2>3, Zenon
<1>7. left = SubSeq(all, k + 1, n)
  BY <1>4, <1>5, <1>6, SeqEqual
<1> QED BY <1>7 DEF all, left, s

\* pipeRead's two-phase copy takes the first k bytes.
LEMMA CopyOutIs ==
    ASSUME RingInv, NEW k \in 1 .. count
    PROVE  CopyOut(k) = SubSeq(Bytes(buffer, read_pos, count), 1, k)
<1> USE PipeAssumption
<1> DEFINE all == Bytes(buffer, read_pos, count)
           first == Least(k, Size - read_pos)
<1>1. buffer \in [0 .. Size - 1 -> Byte] /\ read_pos \in 0 .. Size - 1 /\ count \in 0 .. Size
  BY DEF RingInv
<1>2. all \in Seq(Byte) /\ Len(all) = count /\ \A i \in 1 .. count : all[i] = buffer[Slot(read_pos, i)]
  BY <1>1, BytesAre, Zenon
<1>3. CopyOut(k) = [i \in 1 .. k |-> IF i <= first THEN buffer[read_pos + i - 1]
                                                   ELSE buffer[i - first - 1]]
  BY DEF CopyOut
<1>4. \A i \in 1 .. k : Slot(read_pos, i) = (IF i <= first THEN read_pos + i - 1 ELSE i - first - 1)
                        /\ i \in 1 .. count
  BY <1>1 DEF Least, Slot
<1> HIDE DEF all, first
<1>5. SubSeq(all, 1, k) = [i \in 1 .. k |-> all[i]]
  BY <1>1, <1>2
<1>6. \A i \in 1 .. k : all[i] = IF i <= first THEN buffer[read_pos + i - 1] ELSE buffer[i - first - 1]
  BY <1>2, <1>4
<1>7. CopyOut(k) = SubSeq(all, 1, k)
  BY <1>3, <1>5, <1>6
<1> QED BY <1>7 DEF all

\* pipeWrite's two-phase copy puts the new bytes behind the others.
LEMMA CopyInIs ==
    ASSUME RingInv, NEW k \in 1 .. Size - count, NEW s \in [1 .. k -> Byte]
    PROVE  /\ CopyIn(s) \in [0 .. Size - 1 -> Byte]
           /\ Bytes(CopyIn(s), read_pos, count + k) = Bytes(buffer, read_pos, count) \o s
<1> USE PipeAssumption
<1> DEFINE all == Bytes(buffer, read_pos, count)
           into == CopyIn(s)
           new == Bytes(into, read_pos, count + k)
           first == Least(k, Size - write_pos)
           end == IF read_pos + count < Size THEN read_pos + count ELSE read_pos + count - Size
<1>1. buffer \in [0 .. Size - 1 -> Byte] /\ read_pos \in 0 .. Size - 1 /\ count \in 0 .. Size
      /\ write_pos \in 0 .. Size - 1 /\ write_pos = (read_pos + count) % Size
  BY DEF RingInv
<1>2. write_pos = end
  BY <1>1, Wrap
<1>3. s \in Seq(Byte) /\ Len(s) = k
  BY <1>1, SeqDef
<1>4. into = [j \in 0 .. Size - 1 |->
                IF j \in write_pos .. write_pos + first - 1 THEN s[j - write_pos + 1]
                ELSE IF j < k - first THEN s[first + j + 1]
                ELSE buffer[j]]
  BY <1>3 DEF CopyIn
<1>5. \A j \in 0 .. Size - 1 : /\ j \in write_pos .. write_pos + first - 1 => j - write_pos + 1 \in 1 .. k
                               /\ j < k - first => first + j + 1 \in 1 .. k
  BY <1>1 DEF Least
<1>6. into \in [0 .. Size - 1 -> Byte]
  <2> HIDE DEF into, first
  <2> QED BY <1>1, <1>4, <1>5
<1>7. all \in Seq(Byte) /\ Len(all) = count /\ \A i \in 1 .. count : all[i] = buffer[Slot(read_pos, i)]
  BY <1>1, BytesAre, Zenon
<1>8. new \in Seq(Byte) /\ Len(new) = count + k
      /\ \A i \in 1 .. count + k : new[i] = into[Slot(read_pos, i)]
  <2> DEFINE n == count + k
  <2>1. n \in 0 .. Size
    BY <1>1
  <2> HIDE DEF n, into
  <2>2. /\ Bytes(into, read_pos, n) \in Seq(Byte) /\ Len(Bytes(into, read_pos, n)) = n
        /\ \A i \in 1 .. n : Bytes(into, read_pos, n)[i] = into[Slot(read_pos, i)]
    BY <1>1, <1>6, <2>1, BytesAre, Zenon
  <2> QED BY <2>2 DEF n
<1>9. /\ all \o s \in Seq(Byte) /\ Len(all \o s) = count + k
      /\ \A i \in 1 .. count + k : (all \o s)[i] = IF i <= count THEN all[i] ELSE s[i - count]
  <2> HIDE DEF all
  <2>1. s \in Seq(Byte) /\ all \in Seq(Byte)
    BY <1>3, <1>7
  <2>2. /\ all \o s \in Seq(Byte) /\ Len(all \o s) = Len(all) + Len(s)
        /\ \A i \in 1 .. Len(all) + Len(s) :
              (all \o s)[i] = IF i <= Len(all) THEN all[i] ELSE s[i - Len(all)]
    BY <2>1, ConcatProperties
  <2>3. Len(all) = count /\ Len(s) = k
    BY <1>3, <1>7
  <2> QED BY <2>2, <2>3
<1>10. ASSUME NEW i \in 1 .. count
       PROVE  new[i] = all[i]
  <2> DEFINE j == Slot(read_pos, i)
  <2>1. j \in 0 .. Size - 1 /\ j \notin write_pos .. write_pos + first - 1 /\ ~ (j < k - first)
    BY <1>1, <1>2 DEF Slot, Least
  <2>2. i \in 1 .. count + k
    BY <1>1
  <2> HIDE DEF j, into, new, all, first
  <2>3. new[i] = into[j] /\ all[i] = buffer[j]
    BY <1>7, <1>8, <2>2 DEF j
  <2> QED BY <1>4, <2>1, <2>3
<1>11. ASSUME NEW m \in 1 .. k
       PROVE  new[count + m] = s[m]
  <2> DEFINE j == Slot(read_pos, count + m)
  <2>1. /\ j \in 0 .. Size - 1
        /\ m <= first => j = write_pos + m - 1
        /\ ~ (m <= first) => j = m - first - 1 /\ j < write_pos
    BY <1>1, <1>2 DEF Slot, Least
  <2>2. count + m \in 1 .. count + k /\ first \in Nat
    BY <1>1 DEF Least
  <2> HIDE DEF j, into, new, all, first, end
  <2>3. new[count + m] = into[j]
    BY <1>8, <2>2 DEF j
  <2>4. CASE m <= first
    <3>1. j \in write_pos .. write_pos + first - 1 /\ j - write_pos + 1 = m
      BY <1>1, <2>1, <2>2, <2>4
    <3> QED BY <1>4, <2>1, <2>3, <3>1
  <2>5. CASE ~ (m <= first)
    <3>1. j \notin write_pos .. write_pos + first - 1 /\ j < k - first /\ first + j + 1 = m
      BY <1>1, <2>1, <2>2, <2>5
    <3> QED BY <1>4, <2>1, <2>3, <3>1
  <2> QED BY <2>4, <2>5
<1> HIDE DEF into, new, all, first, end
<1>12. \A i \in 1 .. count + k : new[i] = (all \o s)[i]
  <2> TAKE i \in 1 .. count + k
  <2>1. CASE i <= count
    BY <1>1, <1>9, <1>10, <2>1
  <2>2. CASE ~ (i <= count)
    <3>1. i - count \in 1 .. k /\ count + (i - count) = i
      BY <1>1, <2>2
    <3>2. new[count + (i - count)] = s[i - count]
      BY <1>11, <3>1
    <3> QED BY <1>9, <2>2, <3>1, <3>2
  <2> QED BY <2>1, <2>2, Zenon
<1>13. new = all \o s
  BY <1>8, <1>9, <1>12, SeqEqual, Zenon
<1> QED BY <1>6, <1>13 DEF new, into, all

-----------------------------------------------------------------------------
(* The transfers.                                                          *)

\* pipeRead takes at least one byte, and no more than there are.
LEMMA ReadMoves ==
    ASSUME PipeInv, NEW p \in Proc, pipeRead(p), count > 0
    PROVE  \E k \in 1 .. count :
              /\ moved' = <<p, "read", SubSeq(Bytes(buffer, read_pos, count), 1, k)>>
              /\ Bytes(buffer', read_pos', count') = SubSeq(Bytes(buffer, read_pos, count), k + 1, count)
              /\ RingInv'
<1> USE PipeAssumption
<1> DEFINE k == Least(call[p].n, count)
<1>1. RingInv /\ call[p].n \in 1 .. Size
  BY DEF PipeInv, CallInv, Agrees, Call, pipeRead, At
<1>2. buffer \in [0 .. Size - 1 -> Byte] /\ read_pos \in 0 .. Size - 1 /\ count \in 0 .. Size
      /\ write_pos \in 0 .. Size - 1 /\ write_pos = (read_pos + count) % Size
  BY <1>1 DEF RingInv
<1>3. k \in 1 .. count
  BY <1>1, <1>2 DEF Least
<1>4. /\ moved' = <<p, "read", CopyOut(k)>> /\ read_pos' = (read_pos + k) % Size
      /\ count' = count - k /\ buffer' = buffer /\ write_pos' = write_pos
  BY <1>2 DEF pipeRead
<1> HIDE DEF k
<1> DEFINE all == Bytes(buffer, read_pos, count)
<1>5. CopyOut(k) = SubSeq(all, 1, k) /\ CopyOut(k) \in Seq(Byte)
  <2>1. CopyOut(k) = SubSeq(all, 1, k)
    BY <1>1, <1>3, CopyOutIs
  <2>2. all \in Seq(Byte) /\ Len(all) = count
    BY <1>2, BytesAre, Zenon
  <2> HIDE DEF all
  <2> QED BY <1>2, <1>3, <2>1, <2>2
<1>6. Bytes(buffer, (read_pos + k) % Size, count - k) = SubSeq(all, k + 1, count)
  BY <1>2, <1>3, BytesLeft, Zenon
<1>7. RingInv'
  <2>1. (read_pos + k) % Size \in 0 .. Size - 1 /\ k \in 0 .. count /\ count - k \in 0 .. Size
    <3>1. k \in 0 .. Size /\ k \in 0 .. count /\ count - k \in 0 .. Size
      BY <1>2, <1>3
    <3> QED BY <1>2, <3>1, Wrap, Zenon
  <2>2. (((read_pos + k) % Size) + (count - k)) % Size = (read_pos + count) % Size
    BY <1>2, <2>1, SameEnd
  <2>3. write_pos' = (read_pos' + count') % Size
    BY <1>2, <1>4, <2>2, Zenon
  <2>4. moved' \in Proc \X {"read", "write"} \X Seq(Byte)
    BY <1>4, <1>5, Zenon
  <2> QED BY <1>2, <1>4, <2>1, <2>3, <2>4, Zenon DEF RingInv
<1> HIDE DEF all
<1> QED BY <1>3, <1>4, <1>5, <1>6, <1>7 DEF all

\* pipeWrite puts at least one byte, and no more than there is room for.
LEMMA WriteMoves ==
    ASSUME PipeInv, NEW p \in Proc, pipeWrite(p), readers # 0, count < Size
    PROVE  \E k \in 1 .. Size - count : \E s \in [1 .. k -> Byte] :
              /\ moved' = <<p, "write", s>>
              /\ Bytes(buffer', read_pos', count') = Bytes(buffer, read_pos, count) \o s
              /\ RingInv'
<1> USE PipeAssumption
<1> DEFINE k == Room(call[p].n)
<1>1. RingInv /\ call[p].n \in 1 .. Size
  BY DEF PipeInv, CallInv, Agrees, Call, pipeWrite, At
<1>2. buffer \in [0 .. Size - 1 -> Byte] /\ read_pos \in 0 .. Size - 1 /\ count \in 0 .. Size
      /\ write_pos \in 0 .. Size - 1 /\ write_pos = (read_pos + count) % Size
  BY <1>1 DEF RingInv
<1>3. k \in 1 .. Size - count
  BY <1>1, <1>2 DEF Least, Room
<1>4. PICK s \in [1 .. k -> Byte] :
        /\ buffer' = CopyIn(s) /\ moved' = <<p, "write", s>>
        /\ write_pos' = (write_pos + Len(s)) % Size
        /\ count' = count + Len(s) /\ read_pos' = read_pos
  BY <1>2 DEF pipeWrite
<1> HIDE DEF k
<1>5. s \in Seq(Byte) /\ Len(s) = k
  BY <1>2, <1>3, SeqDef
<1>6. CopyIn(s) \in [0 .. Size - 1 -> Byte]
      /\ Bytes(CopyIn(s), read_pos, count + k) = Bytes(buffer, read_pos, count) \o s
  BY <1>1, <1>3, CopyInIs
<1>7. RingInv'
  <2>1. k \in 0 .. Size /\ count + k \in 0 .. Size
    BY <1>2, <1>3
  <2>2. (write_pos + k) % Size \in 0 .. Size - 1
    BY <1>2, <2>1, Wrap
  <2>3. (read_pos + (count + k)) % Size = (((read_pos + count) % Size) + k) % Size
    <3> DEFINE n == count + k
    <3>1. n \in 0 .. Size /\ count \in 0 .. n /\ n - count = k
      BY <1>2, <1>3, <2>1
    <3> HIDE DEF n
    <3>2. (((read_pos + count) % Size) + (n - count)) % Size = (read_pos + n) % Size
      BY <1>2, <3>1, SameEnd, Zenon
    <3> QED BY <3>1, <3>2, Zenon DEF n
  <2>4. write_pos' = (read_pos' + count') % Size
    BY <1>2, <1>4, <1>5, <2>3, Zenon
  <2>5. moved' \in Proc \X {"read", "write"} \X Seq(Byte)
    BY <1>4, <1>5
  <2> QED BY <1>2, <1>4, <1>5, <1>6, <2>1, <2>2, <2>4, <2>5 DEF RingInv
<1>8. Bytes(buffer', read_pos', count') = Bytes(buffer, read_pos, count) \o s
  BY <1>4, <1>5, <1>6, Zenon
<1> QED BY <1>3, <1>4, <1>7, <1>8, Zenon

-----------------------------------------------------------------------------
(* Every step keeps the invariant.                                         *)

LEMMA InitInv == Init => PipeInv
<1> SUFFICES ASSUME Init PROVE PipeInv
  OBVIOUS
<1> USE PipeAssumption
<1>1. NoCall \in Call /\ Agrees("user", NoCall)
  BY DEF NoCall, Call, Agrees
<1>2. CallInv
  BY <1>1 DEF Init, CallInv, Label, Result
<1>3. RingInv
  <2>1. (0 + 0) % Size = 0
    OBVIOUS
  <2> QED BY <2>1 DEF Init, RingInv
<1>4. EndsInv
  <2>1. fds \in [Proc -> SUBSET {"r", "w"}]
    <3>1. CASE Fifo
      <4>1. PICK p \in Proc, e \in {"r", "w"} : fds = [q \in Proc |-> IF q = p THEN {e} ELSE {}]
        BY <3>1 DEF Init
      <4> QED BY <4>1
    <3>2. CASE ~ Fifo
      BY <3>2 DEF Init
    <3> QED BY <3>1, <3>2
  <2> QED BY <2>1 DEF Init, EndsInv
<1> QED BY <1>2, <1>3, <1>4 DEF PipeInv

LEMMA RingKept ==
    ASSUME RingInv, UNCHANGED <<ring, moved>>
    PROVE  RingInv'
BY DEF RingInv, ring

LEMMA ReadKeeps ==
    ASSUME PipeInv, NEW p \in Proc, pipeRead(p)
    PROVE  PipeInv'
<1>1. CallInv /\ RingInv /\ EndsInv /\ pc[p] = "read"
  BY DEF PipeInv, pipeRead, At
<1>2. CASE count = 0 /\ writers = 0 /\ Finish(p, "zero") /\ UNCHANGED <<ring, pids, state, moved, ends, fds>>
  <2>1. CallInv'
    BY <1>1, <1>2, FinishKeeps DEF Result
  <2>2. EndsInv'
    BY <1>1, <1>2 DEF EndsInv, pids, ends
  <2> QED BY <1>1, <1>2, <2>1, <2>2, RingKept DEF PipeInv
<1>3. CASE count = 0 /\ BlockReader(p) /\ Goto(p, "eagain") /\ UNCHANGED <<ring, call, moved, res, ends, fds>>
  <2>1. Agrees("eagain", call[p])
    BY <1>1 DEF CallInv, Agrees
  <2>2. CallInv'
    BY <1>1, <1>3, <2>1, GotoKeeps
  <2>3. EndsInv'
    BY <1>1, <1>3 DEF EndsInv, BlockReader, ends
  <2> QED BY <1>1, <1>3, <2>2, <2>3, RingKept DEF PipeInv
<1>4. CASE /\ count > 0 /\ TakeWaiter(p, blocked_writer_pid) /\ blocked_writer_pid' = None
           /\ Goto(p, "wake") /\ UNCHANGED <<blocked_reader_pid, state, res, ends, fds>>
  <2>1. CallInv'
    BY <1>1, <1>4, WaiterKeeps DEF EndsInv
  <2>2. EndsInv'
    BY <1>1, <1>4 DEF EndsInv, ends
  <2>3. RingInv'
    BY <1>4, ReadMoves
  <2> QED BY <2>1, <2>2, <2>3 DEF PipeInv
<1> QED BY <1>2, <1>3, <1>4 DEF pipeRead

LEMMA WriteKeeps ==
    ASSUME PipeInv, NEW p \in Proc, pipeWrite(p)
    PROVE  PipeInv'
<1>1. CallInv /\ RingInv /\ EndsInv /\ pc[p] = "write"
  BY DEF PipeInv, pipeWrite, At
<1>2. CASE Finish(p, "epipe") /\ UNCHANGED <<ring, pids, state, moved, ends, fds>>
  <2>1. CallInv'
    BY <1>1, <1>2, FinishKeeps DEF Result
  <2>2. EndsInv'
    BY <1>1, <1>2 DEF EndsInv, pids, ends
  <2> QED BY <1>1, <1>2, <2>1, <2>2, RingKept DEF PipeInv
<1>3. CASE BlockWriter(p) /\ Goto(p, "eagain") /\ UNCHANGED <<ring, call, moved, res, ends, fds>>
  <2>1. Agrees("eagain", call[p])
    BY <1>1 DEF CallInv, Agrees
  <2>2. CallInv'
    BY <1>1, <1>3, <2>1, GotoKeeps
  <2>3. EndsInv'
    BY <1>1, <1>3 DEF EndsInv, BlockWriter, ends
  <2> QED BY <1>1, <1>3, <2>2, <2>3, RingKept DEF PipeInv
<1>4. CASE /\ readers # 0 /\ count < Size
           /\ TakeWaiter(p, blocked_reader_pid) /\ blocked_reader_pid' = None
           /\ Goto(p, "wake") /\ UNCHANGED <<blocked_writer_pid, state, res, ends, fds>>
  <2>1. CallInv'
    BY <1>1, <1>4, WaiterKeeps DEF EndsInv
  <2>2. EndsInv'
    BY <1>1, <1>4 DEF EndsInv, ends
  <2>3. RingInv'
    BY <1>4, WriteMoves
  <2> QED BY <2>1, <2>2, <2>3 DEF PipeInv
<1> QED BY <1>2, <1>3, <1>4 DEF pipeWrite

LEMMA PollKeeps ==
    ASSUME PipeInv, NEW p \in Proc, pollCheck(p) \/ pollRegisterOrReady(p)
    PROVE  PipeInv'
<1>1. CallInv /\ RingInv /\ EndsInv /\ pc[p] \in {"poll", "register"}
  BY DEF PipeInv, pollCheck, pollRegisterOrReady, At
<1>2. UNCHANGED <<ring, moved>>
  BY DEF pollCheck, pollRegisterOrReady
<1>3. EndsInv'
  BY <1>1 DEF EndsInv, pollCheck, pollRegisterOrReady, pids, ends
<1>4. CallInv'
  <2>1. CASE Finish(p, "ok")
    BY <1>1, <2>1, FinishKeeps DEF Result
  <2>2. ASSUME NEW l \in {"poll", "register", "asleep"}, Goto(p, l), UNCHANGED <<call, res>>
        PROVE  CallInv'
    <3>1. Agrees(l, call[p])
      BY <1>1 DEF CallInv, Agrees
    <3> QED BY <1>1, <2>2, <3>1, GotoKeeps
  <2> QED BY <2>1, <2>2 DEF pollCheck, pollRegisterOrReady
<1> QED BY <1>1, <1>2, <1>3, <1>4, RingKept DEF PipeInv

LEMMA EagainKeeps ==
    ASSUME PipeInv, NEW p \in Proc, Eagain(p)
    PROVE  PipeInv'
<1>1. CallInv /\ RingInv /\ EndsInv /\ pc[p] = "eagain"
  BY DEF PipeInv, Eagain, At
<1>2. UNCHANGED <<ring, moved>>
  BY DEF Eagain
<1>3. EndsInv'
  BY <1>1 DEF EndsInv, Eagain, pids, ends
<1>4. CallInv'
  <2>1. CASE Finish(p, "eagain")
    BY <1>1, <2>1, FinishKeeps DEF Result
  <2>2. CASE Goto(p, "asleep") /\ UNCHANGED <<call, res>>
    <3>1. Agrees("asleep", call[p])
      BY <1>1 DEF CallInv, Agrees
    <3> QED BY <1>1, <2>2, <3>1, GotoKeeps
  <2> QED BY <2>1, <2>2 DEF Eagain
<1> QED BY <1>1, <1>2, <1>3, <1>4, RingKept DEF PipeInv

\* A record of a call with another process to wake.
LEMMA WakeField ==
    ASSUME CallInv, NEW p \in Proc, NEW pid \in Proc \cup {None}, NEW l \in Label,
           call' = [call EXCEPT ![p].wake = pid], Goto(p, l), UNCHANGED res,
           \A c \in Call : c.op = call[p].op /\ c.n = call[p].n /\ c.iov = call[p].iov => Agrees(l, c)
    PROVE  CallInv'
<1> DEFINE c == [call[p] EXCEPT !.wake = pid]
<1>1. call[p] \in Call /\ res' \in [Proc -> Result]
  BY DEF CallInv
<1>2. c \in Call /\ c.op = call[p].op /\ c.n = call[p].n /\ c.iov = call[p].iov
  BY <1>1 DEF Call
<1>3. call' = [call EXCEPT ![p] = c]
  BY <1>1 DEF CallInv
<1> HIDE DEF c
<1> QED BY <1>1, <1>2, <1>3, AgreesKept, Zenon DEF Goto

LEMMA WakeKeeps ==
    ASSUME PipeInv, NEW p \in Proc, Wake(p)
    PROVE  PipeInv'
<1>1. CallInv /\ RingInv /\ EndsInv /\ pc[p] = "wake"
  BY DEF PipeInv, Wake, At
<1>2. UNCHANGED <<ring, moved>>
  BY DEF Wake
<1>3. EndsInv'
  <2>1. state' \in [Proc -> {"running", "blocked", "ready"}]
    BY <1>1 DEF EndsInv, Wake, WakeProcess
  <2> QED BY <1>1, <2>1 DEF EndsInv, Wake, pids, ends
<1>4. CallInv'
  <2>1. CASE Finish(p, "ok")
    BY <1>1, <2>1, FinishKeeps DEF Result
  <2>2. CASE /\ call[p].iov > 0 /\ Goto(p, call[p].op)
             /\ call' = [call EXCEPT ![p].wake = None] /\ UNCHANGED res
    <3>1. call[p].op \in {"read", "write"} /\ call[p].n > 0 /\ call[p].op \in Label
      BY <1>1, <2>2 DEF CallInv, Agrees, Label
    <3>2. \A c \in Call : c.op = call[p].op /\ c.n = call[p].n /\ c.iov = call[p].iov
                          => Agrees(call[p].op, c)
      BY <2>2, <3>1 DEF Agrees
    <3> QED BY <1>1, <2>2, <3>1, <3>2, WakeField, Zenon
  <2> QED BY <2>1, <2>2 DEF Wake
<1> QED BY <1>1, <1>2, <1>3, <1>4, RingKept DEF PipeInv

LEMMA pipeCloseKeeps ==
    ASSUME PipeInv, NEW p \in Proc, pipeClose(p)
    PROVE  PipeInv'
<1>1. CallInv /\ RingInv /\ EndsInv /\ pc[p] \in {"closeR", "closeW"}
  BY DEF PipeInv, pipeClose, At
<1>2. UNCHANGED <<ring, moved>>
  BY DEF pipeClose
<1>3. EndsInv'
  <2>1. readers' \in Nat /\ writers' \in Nat
    BY <1>1 DEF EndsInv, pipeClose
  <2> QED BY <1>1, <2>1 DEF EndsInv, pipeClose
<1>4. CallInv'
  <2>1. call[p].op = "none" /\ call[p].iov = 0
    BY <1>1 DEF CallInv, Agrees
  <2>2. PICK pid \in Proc \cup {None} : call' = [call EXCEPT ![p].wake = pid]
    BY <1>1 DEF pipeClose, EndsInv
  <2>3. \A c \in Call : c.op = call[p].op /\ c.n = call[p].n /\ c.iov = call[p].iov
                        => Agrees("wake", c)
    BY <2>1 DEF Agrees
  <2>4. Goto(p, "wake") /\ UNCHANGED res /\ "wake" \in Label
    BY DEF pipeClose, Label
  <2> QED BY <1>1, <2>2, <2>3, <2>4, WakeField, Zenon
<1> QED BY <1>1, <1>2, <1>3, <1>4, RingKept DEF PipeInv

LEMMA UserKeeps ==
    ASSUME PipeInv, NEW p \in Proc, NEW e \in {"r", "w"}, Enter(p) \/ Close(p, e) \/ openFifo(p, e)
    PROVE  PipeInv'
<1>1. CallInv /\ RingInv /\ EndsInv /\ pc[p] = "user"
  BY DEF PipeInv, Enter, Close, openFifo, At
<1>2. UNCHANGED <<ring, moved>>
  BY DEF Enter, Close, openFifo
<1>3. EndsInv'
  BY <1>1 DEF EndsInv, Enter, Close, openFifo, pids, ends
<1>4. CallInv'
  <2>1. CASE Enter(p)
    <3>1. PICK op \in {"read", "write", "poll"}, n \in 1 .. Size, i \in 1 .. MaxIov :
            /\ call' = [call EXCEPT ![p] = [op |-> op, vec |-> i > 1, n |-> n, iov |-> i,
                                            done |-> FALSE, wake |-> None]]
            /\ Goto(p, op)
      BY <2>1, Zenon DEF Enter
    <3> DEFINE c == [op |-> op, vec |-> i > 1, n |-> n, iov |-> i, done |-> FALSE, wake |-> None]
    <3>2. c \in Call
      BY PipeAssumption DEF Call
    <3>3. Agrees(op, c) /\ op \in Label
      BY PipeAssumption DEF Agrees, Label
    <3>4. res' \in [Proc -> Result]
      BY <1>1, <2>1 DEF Enter, CallInv, Result
    <3>5. call' = [call EXCEPT ![p] = c]
      BY <3>1
    <3> HIDE DEF c
    <3> QED BY <1>1, <3>1, <3>2, <3>3, <3>4, <3>5, AgreesKept, Zenon DEF Goto
  <2>2. CASE Close(p, e)
    <3>1. UNCHANGED <<call, res>>
      BY <2>2 DEF Close
    <3>2. CASE pc' = pc
      BY <1>1, <3>1, <3>2 DEF CallInv
    <3>3. ASSUME NEW l \in {"closeR", "closeW"}, Goto(p, l)
          PROVE  CallInv'
      <4>1. Agrees(l, call[p])
        BY <1>1 DEF CallInv, Agrees
      <4> QED BY <1>1, <3>1, <3>3, <4>1, GotoKeeps
    <3> QED BY <2>2, <3>2, <3>3, Zenon DEF Close, Goto
  <2>3. CASE openFifo(p, e)
    BY <1>1, <2>3 DEF openFifo, CallInv
  <2> QED BY <2>1, <2>2, <2>3
<1> QED BY <1>1, <1>2, <1>3, <1>4, RingKept DEF PipeInv

LEMMA SchedulerKeeps ==
    ASSUME PipeInv, NEW p \in Proc, Dispatch(p) \/ Replay(p)
    PROVE  PipeInv'
<1>1. CallInv /\ RingInv /\ EndsInv
  BY DEF PipeInv
<1>2. UNCHANGED <<ring, moved>>
  BY DEF Dispatch, Replay
<1>3. EndsInv'
  BY <1>1 DEF EndsInv, Dispatch, Replay, pids, ends
<1>4. CallInv'
  <2>1. CASE Dispatch(p)
    BY <1>1, <2>1 DEF Dispatch, CallInv
  <2>2. CASE Replay(p)
    <3>1. Agrees(call[p].op, call[p])
      BY <1>1, <2>2 DEF CallInv, Agrees, Replay, At
    <3> QED BY <1>1, <2>2, <3>1, GotoKeeps DEF Replay
  <2> QED BY <2>1, <2>2
<1> QED BY <1>1, <1>2, <1>3, <1>4, RingKept DEF PipeInv

LEMMA StutterKeeps == PipeInv /\ UNCHANGED vars => PipeInv'
<1> SUFFICES ASSUME PipeInv, UNCHANGED vars PROVE PipeInv'
  OBVIOUS
<1>1. CallInv /\ RingInv /\ EndsInv
  BY DEF PipeInv
<1>2. UNCHANGED <<pc, call, res>> /\ UNCHANGED <<ring, moved>>
  BY DEF vars
<1>3. CallInv'
  BY <1>1, <1>2 DEF CallInv
<1>4. EndsInv'
  BY <1>1 DEF EndsInv, vars, pids, ends
<1> QED BY <1>1, <1>2, <1>3, <1>4, RingKept DEF PipeInv

LEMMA InvKept == PipeInv /\ [Next]_vars => PipeInv'
<1> SUFFICES ASSUME PipeInv, Next PROVE PipeInv'
  BY StutterKeeps
<1>1. PICK p \in Proc : \/ Kernel(p) \/ Enter(p)
                        \/ \E e \in {"r", "w"} : Close(p, e) \/ openFifo(p, e)
  BY DEF Next
<1>2. CASE Kernel(p)
  BY <1>2, ReadKeeps, WriteKeeps, PollKeeps, EagainKeeps, WakeKeeps, pipeCloseKeeps, SchedulerKeeps
     DEF Kernel
<1>3. CASE Enter(p) \/ \E e \in {"r", "w"} : Close(p, e) \/ openFifo(p, e)
  BY <1>3, UserKeeps
<1> QED BY <1>1, <1>2, <1>3

LEMMA PipeAlways == Spec => []PipeInv
BY InitInv, InvKept, PTL DEF Spec

\* pipe.zig: the fields of a pipe, and the call each process is in, keep to
\* their types for every ring size and any number of readers and writers.
THEOREM PipeTypeOK == Spec => []TypeOK
BY PipeAlways, PipeTyped, PTL

-----------------------------------------------------------------------------
(* The refinement: the ring implements the stream of bytes.                *)

LEMMA OthersMoveNothing ==
    ASSUME PipeInv, NEW p \in Proc, NEW e \in {"r", "w"},
           \/ pipeRead(p) /\ ~ (count > 0)
           \/ pipeWrite(p) /\ ~ (readers # 0 /\ count < Size)
           \/ pollCheck(p) \/ pollRegisterOrReady(p) \/ Eagain(p) \/ Wake(p) \/ pipeClose(p)
           \/ Dispatch(p) \/ Replay(p) \/ Enter(p) \/ Close(p, e) \/ openFifo(p, e)
    PROVE  UNCHANGED <<buffer, read_pos, count, moved>>
BY DEF pipeRead, pipeWrite, pollCheck, pollRegisterOrReady, Eagain, Wake, pipeClose, Dispatch,
       Replay, Enter, Close, openFifo, ring

LEMMA StepIsStream ==
    PipeInv /\ [Next]_vars =>
        [Stream!Next]_<<[i \in 1 .. count |-> buffer[(read_pos + i - 1) % Size]], moved>>
<1> SUFFICES ASSUME PipeInv, [Next]_vars
             PROVE  [Stream!Next]_<<Bytes(buffer, read_pos, count), moved>>
  BY DEF Bytes
<1> USE PipeAssumption
<1> DEFINE all == Bytes(buffer, read_pos, count)
<1>1. all \in Seq(Byte) /\ Len(all) = count /\ count \in 0 .. Size
  BY BytesAre DEF PipeInv, RingInv
<1>2. CASE UNCHANGED <<buffer, read_pos, count, moved>>
  BY <1>2 DEF Bytes
<1>3. ASSUME NEW p \in Proc, pipeRead(p), count > 0 PROVE Stream!Next
  <2>1. PICK k \in 1 .. count : /\ moved' = <<p, "read", SubSeq(all, 1, k)>>
                                /\ all' = SubSeq(all, k + 1, count)
    BY <1>3, ReadMoves
  <2>2. Stream!Take(p, k) /\ k \in 1 .. Len(all)
    BY <1>1, <2>1, Zenon DEF Stream!Take, Bytes
  <2> QED BY <2>2, Zenon DEF Stream!Next, Bytes
<1>4. ASSUME NEW p \in Proc, pipeWrite(p), readers # 0, count < Size PROVE Stream!Next
  <2>1. PICK k \in 1 .. Size - count : \E s \in [1 .. k -> Byte] :
          moved' = <<p, "write", s>> /\ all' = all \o s
    BY <1>4, WriteMoves, Zenon
  <2>2. PICK s \in [1 .. k -> Byte] : moved' = <<p, "write", s>> /\ all' = all \o s
    BY <2>1
  <2>3. Len(s) = k /\ k \in 1 .. Size
    BY <1>1, SeqDef
  <2>4. Len(all) + Len(s) <= Size
    <3> HIDE DEF all
    <3> QED BY <1>1, <2>3
  <2>5. Stream!Put(p, s)
    BY <2>2, <2>4, Zenon DEF Stream!Put, Bytes
  <2> QED BY <2>3, <2>5 DEF Stream!Next
<1>5. CASE Next
  <2>1. PICK p \in Proc, e \in {"r", "w"} :
          Kernel(p) \/ Enter(p) \/ Close(p, e) \/ openFifo(p, e)
    BY <1>5 DEF Next
  <2>2. CASE pipeRead(p) /\ count > 0
    BY <1>3, <2>2
  <2>3. CASE pipeWrite(p) /\ readers # 0 /\ count < Size
    BY <1>4, <2>3
  <2>4. CASE UNCHANGED <<buffer, read_pos, count, moved>>
    BY <1>2, <2>4
  <2> QED BY <2>1, <2>2, <2>3, <2>4, OthersMoveNothing DEF Kernel
<1>6. CASE UNCHANGED vars
  BY <1>2, <1>6 DEF vars, ring
<1> QED BY <1>5, <1>6

\* pipe.zig pipeRead, pipeWrite: with any number of readers and writers, over
\* the wrap of the ring, partial transfers and vectored calls, the bytes come
\* out in the order they went in and each of them once.
THEOREM PipeIsStream == Spec => StreamSpec
<1>1. Init => Stream!Init
  <2> SUFFICES ASSUME Init PROVE Stream!Init
    OBVIOUS
  <2>1. count = 0 /\ moved = <<>>
    BY DEF Init
  <2>2. [i \in 1 .. count |-> buffer[(read_pos + i - 1) % Size]] = <<>>
    BY <2>1
  <2> QED BY <2>1, <2>2 DEF Stream!Init
<1> QED BY <1>1, PipeAlways, StepIsStream, PTL DEF Spec, StreamSpec, Stream!Spec

-----------------------------------------------------------------------------
(* Wake-ups, with one reader and one writer.                               *)

\* pipe.zig has one slot for a waiting process of each side.
OneEach == (\A p, q \in Reader : p = q) /\ (\A p, q \in Writer : p = q)

\* A call uses a descriptor the process has; what is closed is gone.
HoldsEnds ==
    \A p \in Proc :
        /\ "r" \in fds[p] \/ pc[p] = "closeR" => p \in Reader /\ readers > 0
        /\ "w" \in fds[p] \/ pc[p] = "closeW" => p \in Writer /\ writers > 0
        /\ call[p].op \in {"read", "poll"} => "r" \in fds[p]
        /\ call[p].op = "write" => "w" \in fds[p]
        /\ pc[p] = "closeR" => "r" \notin fds[p]
        /\ pc[p] = "closeW" => "w" \notin fds[p]

SlotsInv ==
    /\ blocked_reader_pid \in Reader \cup {None} /\ blocked_writer_pid \in Writer \cup {None}
    /\ readers > 0 \/ writers > 0 => in_use

\* The process is in the slot of the side it waits on.
Registered(p) ==
    IF call[p].op = "write" THEN blocked_writer_pid = p ELSE blocked_reader_pid = p

BeingWoken(p) == \E q \in Proc : pc[q] = "wake" /\ call[q].wake = p

\* A process marked blocked is registered and has something to wait for, or a
\* process is about to wake it.  That holds before it is asleep, too.
Sleepers ==
    \A p \in Proc :
        /\ pc[p] \in {"eagain", "asleep"} /\ state[p] = "blocked" =>
             (Registered(p) /\ ~ CanGoOn(p)) \/ BeingWoken(p)
        /\ p \in Nonblock /\ pc[p] # "asleep" => state[p] # "blocked"

WakeInv == PipeInv /\ HoldsEnds /\ SlotsInv /\ Sleepers

LEMMA WakeInit == Init => HoldsEnds /\ SlotsInv /\ Sleepers
<1> SUFFICES ASSUME Init PROVE HoldsEnds /\ SlotsInv /\ Sleepers
  OBVIOUS
<1> USE PipeAssumption
<1>1. \A p \in Proc : pc[p] = "user" /\ call[p] = NoCall /\ state[p] = "running"
  BY DEF Init
<1>2. \A p \in Proc : ("r" \in fds[p] => p \in Reader) /\ ("w" \in fds[p] => p \in Writer)
  <2>1. CASE Fifo
    <3>1. PICK p \in Proc, e \in {"r", "w"} :
            /\ p \in (IF e = "r" THEN Reader ELSE Writer)
            /\ fds = [q \in Proc |-> IF q = p THEN {e} ELSE {}]
      BY <2>1 DEF Init
    <3> QED BY <3>1
  <2>2. CASE ~ Fifo
    BY <2>2 DEF Init
  <2> QED BY <2>1, <2>2
<1>3. HoldsEnds
  BY <1>1, <1>2 DEF HoldsEnds, NoCall, Init
<1> QED BY <1>1, <1>3 DEF SlotsInv, Sleepers, Init

\* A step of p inside a call: the descriptors stay, and so does the operation
\* until the call is over.
LEMMA HoldsFrame ==
    ASSUME HoldsEnds, NEW p \in Proc, UNCHANGED <<readers, writers, fds>>,
           \A q \in Proc \ {p} : pc'[q] = pc[q] /\ call'[q] = call[q],
           call'[p].op \in {call[p].op, "none"}, pc'[p] = pc[p] \/ pc'[p] \notin {"closeR", "closeW"}
    PROVE  HoldsEnds'
<1> SUFFICES ASSUME NEW q \in Proc
             PROVE  (/\ "r" \in fds[q] \/ pc[q] = "closeR" => q \in Reader /\ readers > 0
                     /\ "w" \in fds[q] \/ pc[q] = "closeW" => q \in Writer /\ writers > 0
                     /\ call[q].op \in {"read", "poll"} => "r" \in fds[q]
                     /\ call[q].op = "write" => "w" \in fds[q]
                     /\ pc[q] = "closeR" => "r" \notin fds[q]
                     /\ pc[q] = "closeW" => "w" \notin fds[q])'
  BY DEF HoldsEnds
<1>1. CASE q = p
  BY <1>1 DEF HoldsEnds
<1>2. CASE q # p
  BY <1>2 DEF HoldsEnds
<1> QED BY <1>1, <1>2

\* Who sleeps keeps a reason to sleep, or gets a waker.
SleepStep(p) ==
    /\ \A q \in Proc \ {p} :
          /\ pc'[q] = pc[q] /\ call'[q] = call[q]
          /\ state'[q] = "blocked" => state[q] = "blocked"
          /\ state'[q] = "blocked" /\ pc[p] = "wake" /\ call[p].wake = q =>
                pc'[p] = "wake" /\ call'[p].wake = q
          /\ pc[q] \in {"eagain", "asleep"} /\ Registered(q) /\ ~ CanGoOn(q) =>
                \/ Registered(q)' /\ ~ CanGoOn(q)'
                \/ pc'[p] = "wake" /\ call'[p].wake = q
    /\ pc'[p] \in {"eagain", "asleep"} /\ state'[p] = "blocked" =>
          (Registered(p)' /\ ~ CanGoOn(p)') \/ BeingWoken(p)'
    /\ p \in Nonblock /\ pc'[p] # "asleep" => state'[p] # "blocked"

LEMMA SleepersKeep ==
    ASSUME Sleepers, NEW p \in Proc, SleepStep(p)
    PROVE  Sleepers'
<1> USE DEF SleepStep
<1> SUFFICES ASSUME NEW q \in Proc, q # p
             PROVE  /\ pc'[q] \in {"eagain", "asleep"} /\ state'[q] = "blocked" =>
                         (Registered(q)' /\ ~ CanGoOn(q)') \/ BeingWoken(q)'
                    /\ q \in Nonblock /\ pc'[q] # "asleep" => state'[q] # "blocked"
  BY DEF Sleepers
<1>1. q \in Nonblock /\ pc'[q] # "asleep" => state'[q] # "blocked"
  BY DEF Sleepers
<1>2. ASSUME pc'[q] \in {"eagain", "asleep"}, state'[q] = "blocked"
      PROVE  (Registered(q)' /\ ~ CanGoOn(q)') \/ BeingWoken(q)'
  <2>1. (Registered(q) /\ ~ CanGoOn(q)) \/ BeingWoken(q)
    BY <1>2 DEF Sleepers
  <2>2. CASE Registered(q) /\ ~ CanGoOn(q)
    <3>1. (Registered(q)' /\ ~ CanGoOn(q)') \/ (pc'[p] = "wake" /\ call'[p].wake = q)
      BY <1>2, <2>2
    <3> QED BY <3>1 DEF BeingWoken
  <2>3. CASE BeingWoken(q)
    <3>1. PICK x \in Proc : pc[x] = "wake" /\ call[x].wake = q
      BY <2>3 DEF BeingWoken
    <3>2. pc'[x] = "wake" /\ call'[x].wake = q
      BY <1>2, <3>1
    <3> QED BY <3>2 DEF BeingWoken
  <2> QED BY <2>1, <2>2, <2>3
<1> QED BY <1>1, <1>2

\* The side of the pipe a process in a call is on.
LEMMA Sides ==
    ASSUME WakeInv, NEW q \in Proc
    PROVE  /\ pc[q] \in {"read", "poll", "register", "closeR"} => q \in Reader
           /\ pc[q] \in {"write", "closeW"} => q \in Writer
           /\ pc[q] \in {"poll", "register"} => in_use
           /\ pc[q] \in {"eagain", "asleep"} /\ call[q].op = "write" => q \in Writer
           /\ pc[q] \in {"eagain", "asleep"} /\ call[q].op # "write" =>
                q \in Reader /\ call[q].op \in {"read", "poll"}
<1>1. Agrees(pc[q], call[q])
  BY DEF WakeInv, PipeInv, CallInv
<1> QED BY <1>1 DEF Agrees, WakeInv, HoldsEnds, SlotsInv

\* What Finish leaves of the call.
LEMMA Finished ==
    ASSUME CallInv, NEW p \in Proc, NEW r, Finish(p, r)
    PROVE  /\ pc'[p] = "user" /\ call'[p].op = "none"
           /\ \A q \in Proc \ {p} : pc'[q] = pc[q] /\ call'[q] = call[q]
BY DEF Finish, Goto, CallInv, NoCall

LEMMA Went ==
    ASSUME CallInv, NEW p \in Proc, NEW l, Goto(p, l)
    PROVE  pc'[p] = l /\ \A q \in Proc \ {p} : pc'[q] = pc[q]
BY DEF Goto, CallInv

\* TakeWaiter notes whom to wake and changes nothing else the waiting depends on.
LEMMA Waiter ==
    ASSUME CallInv, NEW p \in Proc, NEW pid, TakeWaiter(p, pid)
    PROVE  /\ call'[p].wake = pid /\ call'[p].op = call[p].op
           /\ \A q \in Proc \ {p} : call'[q] = call[q]
BY DEF TakeWaiter, CallInv, Call

LEMMA ReadWakes ==
    ASSUME WakeInv, OneEach, NEW p \in Proc, pipeRead(p)
    PROVE  HoldsEnds' /\ SlotsInv' /\ Sleepers'
<1> USE PipeAssumption
<1>1. /\ CallInv /\ EndsInv /\ HoldsEnds /\ SlotsInv /\ Sleepers /\ pc[p] = "read"
      /\ p \in Reader /\ count \in 0 .. Size /\ call[p].op = "read"
  BY Sides DEF WakeInv, PipeInv, RingInv, CallInv, Agrees, pipeRead, At
<1>2. \A q \in Proc \ {p} : pc[q] \in {"eagain", "asleep"} => call[q].op = "write"
  BY <1>1, Sides DEF OneEach
<1>3. UNCHANGED <<readers, writers, in_use, fds>>
  BY DEF pipeRead, ends
<1>4. CASE count = 0 /\ writers = 0 /\ Finish(p, "zero") /\ UNCHANGED <<ring, pids, state, moved>>
  <2>1. /\ pc'[p] = "user" /\ call'[p].op = "none"
        /\ \A q \in Proc \ {p} : pc'[q] = pc[q] /\ call'[q] = call[q]
    BY <1>1, <1>4, Finished
  <2>2. HoldsEnds'
    BY <1>1, <1>3, <2>1, HoldsFrame
  <2>3. SlotsInv'
    BY <1>1, <1>3, <1>4 DEF SlotsInv, pids
  <2>4. \A q \in Proc \ {p} : Registered(q) /\ ~ CanGoOn(q) => Registered(q)' /\ ~ CanGoOn(q)'
    BY <1>3, <1>4, <2>1 DEF Registered, CanGoOn, pids, ring
  <2>5. p \in Nonblock => state'[p] # "blocked"
    BY <1>1, <1>4 DEF Sleepers
  <2>6. SleepStep(p)
    BY <1>1, <1>4, <2>1, <2>4, <2>5 DEF SleepStep
  <2> QED BY <1>1, <2>2, <2>3, <2>6, SleepersKeep
<1>5. CASE count = 0 /\ writers # 0 /\ BlockReader(p) /\ Goto(p, "eagain") /\ UNCHANGED <<ring, call, moved, res>>
  <2>1. /\ pc'[p] = "eagain" /\ call' = call
        /\ \A q \in Proc \ {p} : pc'[q] = pc[q]
    BY <1>1, <1>5, Went
  <2>2. HoldsEnds'
    BY <1>1, <1>3, <2>1, HoldsFrame
  <2>3. SlotsInv'
    BY <1>1, <1>3, <1>5 DEF SlotsInv, BlockReader
  <2>4. \A q \in Proc \ {p} : pc[q] \in {"eagain", "asleep"} /\ Registered(q) /\ ~ CanGoOn(q)
                              => Registered(q)' /\ ~ CanGoOn(q)'
    BY <1>2, <1>3, <1>5, <2>1 DEF Registered, CanGoOn, BlockReader, ring
  <2>5. Registered(p)' /\ ~ CanGoOn(p)'
    BY <1>1, <1>3, <1>5, <2>1 DEF Registered, CanGoOn, BlockReader, ring
  <2>6. /\ p \in Nonblock => state'[p] # "blocked"
        /\ \A q \in Proc \ {p} : state'[q] = state[q]
    BY <1>1, <1>5 DEF Sleepers, BlockReader, EndsInv
  <2>7. SleepStep(p)
    BY <1>1, <2>1, <2>4, <2>5, <2>6 DEF SleepStep
  <2> QED BY <1>1, <2>2, <2>3, <2>7, SleepersKeep
<1>6. CASE /\ count > 0 /\ TakeWaiter(p, blocked_writer_pid) /\ blocked_writer_pid' = None
           /\ Goto(p, "wake") /\ UNCHANGED <<blocked_reader_pid, state, res>>
  <2>1. /\ pc'[p] = "wake" /\ call'[p].wake = blocked_writer_pid /\ call'[p].op = call[p].op
        /\ \A q \in Proc \ {p} : pc'[q] = pc[q] /\ call'[q] = call[q]
    BY <1>1, <1>6, Went, Waiter
  <2>2. HoldsEnds'
    BY <1>1, <1>3, <2>1, HoldsFrame
  <2>3. SlotsInv'
    BY <1>1, <1>3, <1>6 DEF SlotsInv
  <2>4. \A q \in Proc \ {p} : pc[q] \in {"eagain", "asleep"} /\ Registered(q) => call'[p].wake = q
    BY <1>2, <2>1 DEF Registered
  <2>5. p \in Nonblock => state'[p] # "blocked"
    BY <1>1, <1>6 DEF Sleepers
  <2>6. SleepStep(p)
    BY <1>1, <1>6, <2>1, <2>4, <2>5 DEF SleepStep
  <2> QED BY <1>1, <2>2, <2>3, <2>6, SleepersKeep
<1> QED BY <1>4, <1>5, <1>6 DEF pipeRead

LEMMA WriteWakes ==
    ASSUME WakeInv, OneEach, NEW p \in Proc, pipeWrite(p)
    PROVE  HoldsEnds' /\ SlotsInv' /\ Sleepers'
<1> USE PipeAssumption
<1>1. /\ CallInv /\ EndsInv /\ HoldsEnds /\ SlotsInv /\ Sleepers /\ pc[p] = "write"
      /\ p \in Writer /\ count \in 0 .. Size /\ call[p].op = "write"
  BY Sides DEF WakeInv, PipeInv, RingInv, CallInv, Agrees, pipeWrite, At
<1>2. \A q \in Proc \ {p} : pc[q] \in {"eagain", "asleep"} => call[q].op \in {"read", "poll"}
  BY <1>1, Sides DEF OneEach
<1>3. UNCHANGED <<readers, writers, in_use, fds>>
  BY DEF pipeWrite, ends
<1>4. CASE readers = 0 /\ Finish(p, "epipe") /\ UNCHANGED <<ring, pids, state, moved>>
  <2>1. /\ pc'[p] = "user" /\ call'[p].op = "none"
        /\ \A q \in Proc \ {p} : pc'[q] = pc[q] /\ call'[q] = call[q]
    BY <1>1, <1>4, Finished
  <2>2. HoldsEnds'
    BY <1>1, <1>3, <2>1, HoldsFrame
  <2>3. SlotsInv'
    BY <1>1, <1>3, <1>4 DEF SlotsInv, pids
  <2>4. \A q \in Proc \ {p} : Registered(q) /\ ~ CanGoOn(q) => Registered(q)' /\ ~ CanGoOn(q)'
    BY <1>3, <1>4, <2>1 DEF Registered, CanGoOn, pids, ring
  <2>5. p \in Nonblock => state'[p] # "blocked"
    BY <1>1, <1>4 DEF Sleepers
  <2>6. SleepStep(p)
    BY <1>1, <1>4, <2>1, <2>4, <2>5 DEF SleepStep
  <2> QED BY <1>1, <2>2, <2>3, <2>6, SleepersKeep
<1>5. CASE /\ readers # 0 /\ count = Size /\ BlockWriter(p) /\ Goto(p, "eagain")
           /\ UNCHANGED <<ring, call, moved, res>>
  <2>1. /\ pc'[p] = "eagain" /\ call' = call
        /\ \A q \in Proc \ {p} : pc'[q] = pc[q]
    BY <1>1, <1>5, Went
  <2>2. HoldsEnds'
    BY <1>1, <1>3, <2>1, HoldsFrame
  <2>3. SlotsInv'
    BY <1>1, <1>3, <1>5 DEF SlotsInv, BlockWriter
  <2>4. \A q \in Proc \ {p} : pc[q] \in {"eagain", "asleep"} /\ Registered(q) /\ ~ CanGoOn(q)
                              => Registered(q)' /\ ~ CanGoOn(q)'
    BY <1>2, <1>3, <1>5, <2>1 DEF Registered, CanGoOn, BlockWriter, ring
  <2>5. Registered(p)' /\ ~ CanGoOn(p)'
    BY <1>1, <1>3, <1>5, <2>1 DEF Registered, CanGoOn, BlockWriter, ring
  <2>6. /\ p \in Nonblock => state'[p] # "blocked"
        /\ \A q \in Proc \ {p} : state'[q] = state[q]
    BY <1>1, <1>5 DEF Sleepers, BlockWriter, EndsInv
  <2>7. SleepStep(p)
    BY <1>1, <2>1, <2>4, <2>5, <2>6 DEF SleepStep
  <2> QED BY <1>1, <2>2, <2>3, <2>7, SleepersKeep
<1>6. CASE /\ count < Size /\ TakeWaiter(p, blocked_reader_pid) /\ blocked_reader_pid' = None
           /\ Goto(p, "wake") /\ UNCHANGED <<blocked_writer_pid, state, res>>
  <2>1. /\ pc'[p] = "wake" /\ call'[p].wake = blocked_reader_pid /\ call'[p].op = call[p].op
        /\ \A q \in Proc \ {p} : pc'[q] = pc[q] /\ call'[q] = call[q]
    BY <1>1, <1>6, Went, Waiter
  <2>2. HoldsEnds'
    BY <1>1, <1>3, <2>1, HoldsFrame
  <2>3. SlotsInv'
    BY <1>1, <1>3, <1>6 DEF SlotsInv
  <2>4. \A q \in Proc \ {p} : pc[q] \in {"eagain", "asleep"} /\ Registered(q) => call'[p].wake = q
    BY <1>2, <2>1 DEF Registered
  <2>5. p \in Nonblock => state'[p] # "blocked"
    BY <1>1, <1>6 DEF Sleepers
  <2>6. SleepStep(p)
    BY <1>1, <1>6, <2>1, <2>4, <2>5 DEF SleepStep
  <2> QED BY <1>1, <2>2, <2>3, <2>6, SleepersKeep
<1> QED BY <1>4, <1>5, <1>6 DEF pipeWrite

LEMMA PollWakes ==
    ASSUME WakeInv, OneEach, NEW p \in Proc, pollCheck(p) \/ pollRegisterOrReady(p)
    PROVE  HoldsEnds' /\ SlotsInv' /\ Sleepers'
<1> USE PipeAssumption
<1>1. /\ CallInv /\ EndsInv /\ HoldsEnds /\ SlotsInv /\ Sleepers /\ pc[p] \in {"poll", "register"}
      /\ p \in Reader /\ count \in 0 .. Size /\ call[p].op = "poll" /\ in_use
  BY Sides DEF WakeInv, PipeInv, RingInv, CallInv, Agrees, pollCheck, pollRegisterOrReady, At
<1>2. \A q \in Proc \ {p} : pc[q] \in {"eagain", "asleep"} => call[q].op = "write"
  BY <1>1, Sides DEF OneEach
<1>3. UNCHANGED <<readers, writers, in_use, fds, count>>
  BY DEF pollCheck, pollRegisterOrReady, ends, ring
<1>4. /\ pc'[p] \in {"user", "poll", "register", "asleep"} /\ call'[p].op \in {call[p].op, "none"}
      /\ \A q \in Proc \ {p} : pc'[q] = pc[q] /\ call'[q] = call[q]
  <2>1. CASE Finish(p, "ok")
    BY <1>1, <2>1, Finished
  <2>2. CASE (\E l \in {"poll", "register", "asleep"} : Goto(p, l)) /\ UNCHANGED <<call, res>>
    BY <1>1, <2>2, Went
  <2> QED BY <2>1, <2>2 DEF pollCheck, pollRegisterOrReady
<1>5. HoldsEnds'
  BY <1>1, <1>3, <1>4, HoldsFrame
<1>6. SlotsInv' /\ UNCHANGED blocked_writer_pid
  BY <1>1, <1>3 DEF SlotsInv, pollCheck, pollRegisterOrReady, pids
<1>7. \A q \in Proc \ {p} : pc[q] \in {"eagain", "asleep"} /\ Registered(q) /\ ~ CanGoOn(q)
                            => Registered(q)' /\ ~ CanGoOn(q)'
  BY <1>2, <1>3, <1>4, <1>6 DEF Registered, CanGoOn
<1>8. \A q \in Proc \ {p} : state'[q] = state[q]
  BY <1>1 DEF pollCheck, pollRegisterOrReady, EndsInv
<1>9. CASE pc'[p] = "asleep"
  <2>1. /\ ~ (count > 0 \/ writers = 0)
        /\ blocked_reader_pid' = IF blocked_reader_pid = None THEN p ELSE blocked_reader_pid
        /\ call' = call
    BY <1>1, <1>9, Finished, Went DEF pollCheck, pollRegisterOrReady
  <2>2. blocked_reader_pid' = p
    BY <1>1, <2>1 DEF SlotsInv, OneEach
  <2>3. Registered(p)' /\ ~ CanGoOn(p)'
    BY <1>1, <1>3, <2>1, <2>2 DEF Registered, CanGoOn
  <2>4. SleepStep(p)
    BY <1>1, <1>4, <1>7, <1>8, <1>9, <2>3 DEF SleepStep
  <2> QED BY <1>1, <1>5, <1>6, <2>4, SleepersKeep
<1>10. CASE pc'[p] # "asleep"
  <2>1. state' = state
    BY <1>1, <1>10, Went DEF pollCheck, pollRegisterOrReady
  <2>2. p \in Nonblock => state'[p] # "blocked"
    BY <1>1, <2>1 DEF Sleepers
  <2>3. SleepStep(p)
    BY <1>1, <1>4, <1>7, <1>8, <1>10, <2>2 DEF SleepStep
  <2> QED BY <1>1, <1>5, <1>6, <2>3, SleepersKeep
<1> QED BY <1>9, <1>10

LEMMA EagainWakes ==
    ASSUME WakeInv, NEW p \in Proc, Eagain(p)
    PROVE  HoldsEnds' /\ SlotsInv' /\ Sleepers'
<1>1. CallInv /\ EndsInv /\ HoldsEnds /\ SlotsInv /\ Sleepers /\ pc[p] = "eagain"
  BY DEF WakeInv, PipeInv, Eagain, At
<1>2. UNCHANGED <<readers, writers, in_use, fds, count, state, blocked_reader_pid, blocked_writer_pid>>
  BY DEF Eagain, ends, ring, pids
<1>3. /\ \/ pc'[p] = "user" /\ call'[p].op = "none"
         \/ pc'[p] = "asleep" /\ call' = call
      /\ \A q \in Proc \ {p} : pc'[q] = pc[q] /\ call'[q] = call[q]
  BY <1>1, Finished, Went DEF Eagain
<1>4. HoldsEnds'
  BY <1>1, <1>2, <1>3, HoldsFrame
<1>5. SlotsInv'
  BY <1>1, <1>2 DEF SlotsInv
<1>6. \A q \in Proc : call'[q] = call[q] /\ Registered(q) /\ ~ CanGoOn(q) => Registered(q)' /\ ~ CanGoOn(q)'
  BY <1>2 DEF Registered, CanGoOn
<1>7. pc'[p] = "asleep" /\ state'[p] = "blocked" =>
        (Registered(p)' /\ ~ CanGoOn(p)') \/ BeingWoken(p)'
  <2> SUFFICES ASSUME pc'[p] = "asleep", state'[p] = "blocked"
               PROVE  (Registered(p)' /\ ~ CanGoOn(p)') \/ BeingWoken(p)'
    OBVIOUS
  <2>1. (Registered(p) /\ ~ CanGoOn(p)) \/ BeingWoken(p)
    BY <1>1, <1>2 DEF Sleepers
  <2>2. CASE BeingWoken(p)
    <3>1. PICK x \in Proc : pc[x] = "wake" /\ call[x].wake = p
      BY <2>2 DEF BeingWoken
    <3>2. pc'[x] = "wake" /\ call'[x].wake = p
      BY <1>1, <1>3, <3>1
    <3> QED BY <3>2 DEF BeingWoken
  <2> QED BY <1>3, <1>6, <2>1, <2>2
<1>8. p \in Nonblock => state'[p] # "blocked"
  BY <1>1, <1>2 DEF Sleepers
<1>9. SleepStep(p)
  BY <1>1, <1>2, <1>3, <1>6, <1>7, <1>8 DEF SleepStep
<1> QED BY <1>1, <1>4, <1>5, <1>9, SleepersKeep

LEMMA WakeWakes ==
    ASSUME WakeInv, NEW p \in Proc, Wake(p)
    PROVE  HoldsEnds' /\ SlotsInv' /\ Sleepers'
<1>1. CallInv /\ EndsInv /\ HoldsEnds /\ SlotsInv /\ Sleepers /\ pc[p] = "wake"
  BY DEF WakeInv, PipeInv, Wake, At
<1>2. UNCHANGED <<readers, writers, in_use, fds, count, blocked_reader_pid, blocked_writer_pid>>
  BY DEF Wake, ends, ring, pids
<1>3. /\ pc'[p] \in {"user", "read", "write"} /\ call'[p].op \in {call[p].op, "none"}
      /\ \A q \in Proc \ {p} : pc'[q] = pc[q] /\ call'[q] = call[q]
  <2>1. CASE Finish(p, "ok")
    BY <1>1, <2>1, Finished
  <2>2. CASE /\ call[p].iov > 0 /\ Goto(p, call[p].op)
             /\ call' = [call EXCEPT ![p].wake = None] /\ UNCHANGED res
    <3>1. call[p].op \in {"read", "write"}
      BY <1>1, <2>2 DEF CallInv, Agrees
    <3>2. call'[p].op = call[p].op /\ \A q \in Proc \ {p} : call'[q] = call[q]
      BY <1>1, <2>2 DEF CallInv, Call
    <3> QED BY <1>1, <2>2, <3>1, <3>2, Went
  <2> QED BY <2>1, <2>2 DEF Wake
<1>4. HoldsEnds'
  BY <1>1, <1>2, <1>3, HoldsFrame
<1>5. SlotsInv'
  BY <1>1, <1>2 DEF SlotsInv
<1>6. \A q \in Proc : call'[q] = call[q] /\ Registered(q) /\ ~ CanGoOn(q) => Registered(q)' /\ ~ CanGoOn(q)'
  BY <1>2 DEF Registered, CanGoOn
<1>7. \A q \in Proc : state'[q] = "blocked" => state[q] = "blocked" /\ call[p].wake # q
  BY <1>1 DEF Wake, WakeProcess, EndsInv
<1>8. p \in Nonblock => state'[p] # "blocked"
  BY <1>1, <1>7 DEF Sleepers
<1>9. SleepStep(p)
  BY <1>1, <1>3, <1>6, <1>7, <1>8 DEF SleepStep
<1> QED BY <1>1, <1>4, <1>5, <1>9, SleepersKeep

LEMMA pipeCloseWakes ==
    ASSUME WakeInv, OneEach, NEW p \in Proc, pipeClose(p)
    PROVE  HoldsEnds' /\ SlotsInv' /\ Sleepers'
<1> USE PipeAssumption
<1>1. /\ CallInv /\ EndsInv /\ HoldsEnds /\ SlotsInv /\ Sleepers /\ readers \in Nat /\ writers \in Nat
      /\ pc[p] \in {"closeR", "closeW"} /\ call[p].op = "none"
  BY DEF WakeInv, PipeInv, EndsInv, CallInv, Agrees, pipeClose, At
<1>2. /\ pc'[p] = "wake" /\ \A q \in Proc \ {p} : pc'[q] = pc[q]
      /\ UNCHANGED <<fds, count, state>>
  BY <1>1, Went DEF pipeClose, ring
<1>3. SlotsInv'
  <2>1. /\ blocked_reader_pid' \in Reader \cup {None} /\ blocked_writer_pid' \in Writer \cup {None}
        /\ readers' > 0 \/ writers' > 0 => readers > 0 \/ writers > 0
        /\ readers' > 0 \/ writers' > 0 => ~ (readers' = 0 /\ writers' = 0)
    BY <1>1 DEF SlotsInv, pipeClose
  <2>2. in_use' = (in_use /\ ~ (readers' = 0 /\ writers' = 0))
    BY DEF pipeClose
  <2>3. readers' > 0 \/ writers' > 0 => in_use'
    BY <1>1, <2>1, <2>2, Zenon DEF SlotsInv
  <2> QED BY <2>1, <2>3, Zenon DEF SlotsInv
<1>4. p \in Nonblock => state'[p] # "blocked"
  BY <1>1, <1>2 DEF Sleepers
<1>5. CASE pc[p] = "closeR"
  <2>1. /\ readers' = readers - 1 /\ readers > 0 /\ UNCHANGED writers /\ p \in Reader
        /\ call' = [call EXCEPT ![p].wake = blocked_writer_pid]
    BY <1>1, <1>5 DEF pipeClose, At, HoldsEnds
  <2>2. /\ call'[p].wake = blocked_writer_pid /\ call'[p].op = "none"
        /\ \A q \in Proc \ {p} : call'[q] = call[q]
    BY <1>1, <2>1 DEF CallInv, Call
  <2>3. HoldsEnds'
    <3>1. \A q \in Proc : "r" \notin fds[q] /\ (q # p => pc[q] # "closeR")
      BY <1>1, <1>5, <2>1 DEF HoldsEnds, OneEach
    <3> QED BY <1>1, <1>2, <1>5, <2>1, <2>2, <3>1 DEF HoldsEnds
  <2>4. \A q \in Proc \ {p} : pc[q] \in {"eagain", "asleep"} /\ Registered(q) => call'[p].wake = q
    BY <2>1, <2>2, Sides DEF Registered, OneEach
  <2>5. SleepStep(p)
    BY <1>1, <1>2, <1>4, <2>2, <2>4 DEF SleepStep
  <2> QED BY <1>1, <1>3, <2>3, <2>5, SleepersKeep
<1>6. CASE pc[p] = "closeW"
  <2>1. /\ writers' = writers - 1 /\ writers > 0 /\ UNCHANGED readers /\ p \in Writer
        /\ call' = [call EXCEPT ![p].wake = blocked_reader_pid]
    BY <1>1, <1>6 DEF pipeClose, At, HoldsEnds
  <2>2. /\ call'[p].wake = blocked_reader_pid /\ call'[p].op = "none"
        /\ \A q \in Proc \ {p} : call'[q] = call[q]
    BY <1>1, <2>1 DEF CallInv, Call
  <2>3. HoldsEnds'
    <3>1. \A q \in Proc : "w" \notin fds[q] /\ (q # p => pc[q] # "closeW")
      BY <1>1, <1>6, <2>1 DEF HoldsEnds, OneEach
    <3> QED BY <1>1, <1>2, <1>6, <2>1, <2>2, <3>1 DEF HoldsEnds
  <2>4. \A q \in Proc \ {p} : pc[q] \in {"eagain", "asleep"} /\ Registered(q) => call'[p].wake = q
    BY <2>1, <2>2, Sides DEF Registered, OneEach
  <2>5. SleepStep(p)
    BY <1>1, <1>2, <1>4, <2>2, <2>4 DEF SleepStep
  <2> QED BY <1>1, <1>3, <2>3, <2>5, SleepersKeep
<1> QED BY <1>1, <1>5, <1>6

LEMMA EnterWakes ==
    ASSUME WakeInv, NEW p \in Proc, Enter(p)
    PROVE  HoldsEnds' /\ SlotsInv' /\ Sleepers'
<1>1. CallInv /\ EndsInv /\ HoldsEnds /\ SlotsInv /\ Sleepers /\ pc[p] = "user"
  BY DEF WakeInv, PipeInv, Enter, At
<1>2. UNCHANGED <<readers, writers, in_use, fds, count, state, blocked_reader_pid, blocked_writer_pid>>
  BY DEF Enter, ends, ring, pids
<1>3. \E op \in {"read", "write", "poll"} :
        /\ (IF op = "write" THEN "w" ELSE "r") \in fds[p]
        /\ pc'[p] = op /\ call'[p].op = op
        /\ \A q \in Proc \ {p} : pc'[q] = pc[q] /\ call'[q] = call[q]
  <2>1. PICK op \in {"read", "write", "poll"}, n \in 1 .. Size, i \in 1 .. MaxIov :
          /\ (IF op = "write" THEN "w" ELSE "r") \in fds[p] /\ Goto(p, op)
          /\ call' = [call EXCEPT ![p] = [op |-> op, vec |-> i > 1, n |-> n, iov |-> i,
                                          done |-> FALSE, wake |-> None]]
    BY Zenon DEF Enter
  <2>2. call'[p].op = op /\ \A q \in Proc \ {p} : call'[q] = call[q]
    BY <1>1, <2>1 DEF CallInv
  <2>3. pc'[p] = op /\ \A q \in Proc \ {p} : pc'[q] = pc[q]
    BY <1>1, <2>1, Went
  <2> QED BY <2>1, <2>2, <2>3
<1>4. HoldsEnds'
  BY <1>1, <1>2, <1>3 DEF HoldsEnds
<1>5. SlotsInv'
  BY <1>1, <1>2 DEF SlotsInv
<1>6. \A q \in Proc : call'[q] = call[q] /\ Registered(q) /\ ~ CanGoOn(q) => Registered(q)' /\ ~ CanGoOn(q)'
  BY <1>2 DEF Registered, CanGoOn
<1>7. p \in Nonblock => state'[p] # "blocked"
  BY <1>1, <1>2 DEF Sleepers
<1>8. SleepStep(p)
  BY <1>1, <1>2, <1>3, <1>6, <1>7 DEF SleepStep
<1> QED BY <1>1, <1>4, <1>5, <1>8, SleepersKeep

LEMMA CloseWakes ==
    ASSUME WakeInv, OneEach, NEW p \in Proc, NEW e \in {"r", "w"}, Close(p, e)
    PROVE  HoldsEnds' /\ SlotsInv' /\ Sleepers'
<1>1. /\ CallInv /\ EndsInv /\ HoldsEnds /\ SlotsInv /\ Sleepers /\ pc[p] = "user"
      /\ call[p].op = "none" /\ e \in fds[p]
  BY DEF WakeInv, PipeInv, CallInv, Agrees, Close, At
<1>2. UNCHANGED <<readers, writers, in_use, count, state, call, blocked_reader_pid, blocked_writer_pid>>
  BY DEF Close, ends, ring, pids
<1>3. /\ pc'[p] = IF e = "r" THEN "closeR" ELSE "closeW"
      /\ \A q \in Proc \ {p} : pc'[q] = pc[q]
  <2>1. \A q \in Proc \ {p} : e \notin fds[q]
    BY <1>1 DEF HoldsEnds, OneEach
  <2> QED BY <1>1, <2>1 DEF Close, CallInv
<1>4. \A q \in Proc : fds'[q] = IF q = p THEN fds[p] \ {e} ELSE fds[q]
  BY <1>1 DEF Close, EndsInv
<1>5. HoldsEnds'
  BY <1>1, <1>2, <1>3, <1>4 DEF HoldsEnds
<1>6. SlotsInv'
  BY <1>1, <1>2 DEF SlotsInv
<1>7. \A q \in Proc : Registered(q) /\ ~ CanGoOn(q) => Registered(q)' /\ ~ CanGoOn(q)'
  BY <1>2 DEF Registered, CanGoOn
<1>8. p \in Nonblock => state'[p] # "blocked"
  BY <1>1, <1>2 DEF Sleepers
<1>9. SleepStep(p)
  BY <1>1, <1>2, <1>3, <1>7, <1>8 DEF SleepStep
<1> QED BY <1>1, <1>5, <1>6, <1>9, SleepersKeep

LEMMA OpenWakes ==
    ASSUME WakeInv, NEW p \in Proc, NEW e \in {"r", "w"}, openFifo(p, e)
    PROVE  HoldsEnds' /\ SlotsInv' /\ Sleepers'
<1>1. /\ CallInv /\ EndsInv /\ HoldsEnds /\ SlotsInv /\ Sleepers /\ pc[p] = "user"
      /\ call[p].op = "none" /\ readers \in Nat /\ writers \in Nat /\ in_use
  BY DEF WakeInv, PipeInv, EndsInv, CallInv, Agrees, openFifo, At
<1>2. UNCHANGED <<in_use, count, state, pc, call, blocked_reader_pid, blocked_writer_pid>>
  BY DEF openFifo, ring, pids
<1>3. /\ readers' = IF e = "r" THEN readers + 1 ELSE readers
      /\ writers' = IF e = "w" THEN writers + 1 ELSE writers
      /\ p \in (IF e = "r" THEN Reader ELSE Writer)
      /\ \A q \in Proc : fds'[q] = IF q = p THEN fds[p] \cup {e} ELSE fds[q]
  BY <1>1 DEF openFifo, EndsInv
<1>4. HoldsEnds'
  BY <1>1, <1>2, <1>3 DEF HoldsEnds
<1>5. SlotsInv'
  BY <1>1, <1>2 DEF SlotsInv
<1>6. \A q \in Proc : Registered(q) /\ ~ CanGoOn(q) => Registered(q)' /\ ~ CanGoOn(q)'
  BY <1>1, <1>2, <1>3 DEF Registered, CanGoOn
<1>7. p \in Nonblock => state'[p] # "blocked"
  BY <1>1, <1>2 DEF Sleepers
<1>8. SleepStep(p)
  BY <1>1, <1>2, <1>6, <1>7 DEF SleepStep
<1> QED BY <1>1, <1>4, <1>5, <1>8, SleepersKeep

LEMMA SchedulerWakes ==
    ASSUME WakeInv, NEW p \in Proc, Dispatch(p) \/ Replay(p)
    PROVE  HoldsEnds' /\ SlotsInv' /\ Sleepers'
<1>1. CallInv /\ EndsInv /\ HoldsEnds /\ SlotsInv /\ Sleepers
  BY DEF WakeInv, PipeInv
<1>2. /\ UNCHANGED <<readers, writers, in_use, fds, count, call, blocked_reader_pid, blocked_writer_pid>>
      /\ state'[p] = "running" /\ \A q \in Proc \ {p} : state'[q] = state[q]
  BY <1>1 DEF Dispatch, Replay, ends, ring, pids, EndsInv
<1>3. /\ \A q \in Proc \ {p} : pc'[q] = pc[q]
      /\ pc'[p] = pc[p] \/ (pc[p] = "asleep" /\ pc'[p] \in {"read", "write", "poll"})
  <2>1. CASE Dispatch(p)
    BY <2>1 DEF Dispatch
  <2>2. CASE Replay(p)
    BY <1>1, <2>2, Went DEF Replay, At, CallInv, Agrees
  <2> QED BY <2>1, <2>2
<1>4. HoldsEnds'
  BY <1>1, <1>2, <1>3, HoldsFrame
<1>5. SlotsInv'
  BY <1>1, <1>2 DEF SlotsInv
<1>6. \A q \in Proc : Registered(q) /\ ~ CanGoOn(q) => Registered(q)' /\ ~ CanGoOn(q)'
  BY <1>2 DEF Registered, CanGoOn
<1>7. SleepStep(p)
  BY <1>1, <1>2, <1>3, <1>6 DEF SleepStep
<1> QED BY <1>1, <1>4, <1>5, <1>7, SleepersKeep

LEMMA WakeInvKept == OneEach /\ WakeInv /\ [Next]_vars => WakeInv'
<1> SUFFICES ASSUME OneEach, WakeInv, [Next]_vars PROVE HoldsEnds' /\ SlotsInv' /\ Sleepers'
  BY InvKept DEF WakeInv
<1>1. CASE UNCHANGED vars
  <2>1. HoldsEnds' /\ SlotsInv'
    BY <1>1 DEF WakeInv, HoldsEnds, SlotsInv, vars, ends, pids
  <2>2. Sleepers'
    BY <1>1 DEF WakeInv, Sleepers, Registered, CanGoOn, BeingWoken, vars, ends, pids, ring
  <2> QED BY <2>1, <2>2
<1>2. CASE Next
  <2>1. PICK p \in Proc, e \in {"r", "w"} :
          Kernel(p) \/ Enter(p) \/ Close(p, e) \/ openFifo(p, e)
    BY <1>2 DEF Next
  <2>2. CASE Kernel(p)
    BY <2>2, ReadWakes, WriteWakes, PollWakes, EagainWakes, WakeWakes, pipeCloseWakes, SchedulerWakes
       DEF Kernel
  <2> QED BY <2>1, <2>2, EnterWakes, CloseWakes, OpenWakes
<1> QED BY <1>1, <1>2

\* pipe.zig, of marking the process blocked under the lock: with one reader
\* and one writer, whatever the size of the ring, of the transfers and of the
\* vectored calls, a process that sleeps though it could go on is about to be
\* woken; and the fields of the pipe are in range.
THEOREM PipeWakeSound == ASSUME OneEach PROVE Spec => []WakeSound
<1>1. Init => WakeInv
  BY InitInv, WakeInit DEF WakeInv
<1>2. WakeInv /\ [Next]_vars => WakeInv'
  BY WakeInvKept
<1>3. WakeInv => WakeSound
  BY PipeTyped DEF WakeInv, Sleepers, WakeSound, NoLostWakeup, BeingWoken, At
<1> QED BY <1>1, <1>2, <1>3, PTL DEF Spec
============================================================================
