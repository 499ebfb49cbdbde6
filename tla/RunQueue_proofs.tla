-------------------------- MODULE RunQueue_proofs --------------------------
(***************************************************************************)
(* Proofs about the run queues, for every number of CPUs and processes:    *)
(* the lists represent sequences, and read as lists they are first-in      *)
(* first-out queues.                                                       *)
(***************************************************************************)
EXTENDS RunQueueSpec, LeastNumber, SequenceTheorems, TLAPS

-----------------------------------------------------------------------------
(* The operations on the lists.                                            *)

\* The empty queues are sound.
LEMMA InitSound == Init => ListsSound
<1> USE RunQueueAssumption DEF Init, RQInit
<1>1. Init => TypeOK
  BY DEF TypeOK, RQTypeOK, CPU
<1>2. Init => Represents /\ UnlinkedWhenOff /\ OneQueue
  BY DEF Represents, Lists, UnlinkedWhenOff, OneQueue, Queued, On, CPU
<1> QED BY <1>1, <1>2 DEF ListsSound

\* A list nobody touched stays as it is.
LEMMA ListsFrame ==
    ASSUME NEW d, Lists(d),
           q'[d] = q[d], head'[d] = head[d], tail'[d] = tail[d], len'[d] = len[d],
           \A i \in 1 .. Len(q[d]) : rq_next'[q[d][i]] = rq_next[q[d][i]]
    PROVE  Lists(d)'
<1>1. \A i \in 1 .. Len(q[d]) :
          rq_next'[q[d][i]] = IF i = Len(q[d]) THEN Nil ELSE q[d][i + 1]
  BY DEF Lists
<1> QED BY <1>1 DEF Lists

LEMMA SoundStutters ==
    ASSUME ListsSound, UNCHANGED vars
    PROVE  ListsSound'
BY DEF ListsSound, TypeOK, RQTypeOK, Represents, Lists, UnlinkedWhenOff, OneQueue,
       Queued, On, vars

\* enqueueUnlocked appends: a process on no queue becomes the tail.
LEMMA EnqueueKeeps ==
    ASSUME ListsSound, NEW c \in CPU, NEW p \in Proc, enqueue(c, p)
    PROVE  ListsSound'
<1> USE RunQueueAssumption DEF enqueue
<1> DEFINE n == Len(q[c])
<1>1. /\ q[c] \in Seq(Proc) /\ n \in Nat
      /\ q' \in [CPU -> Seq(Proc)]
      /\ \A d \in CPU \ {c} : q'[d] = q[d]
      /\ q'[c] \in Seq(Proc) /\ Len(q'[c]) = n + 1
      /\ \A i \in 1 .. n : q'[c][i] = q[c][i]
      /\ q'[c][n + 1] = p
  BY DEF ListsSound, TypeOK
<1>2. tail[c] = Nil <=> n = 0
  BY <1>1 DEF ListsSound, TypeOK, RQTypeOK, Represents, Lists
<1>3. TypeOK'
  <2>1. head' \in [CPU -> Proc \cup {Nil}] /\ tail' \in [CPU -> Proc \cup {Nil}]
    BY DEF ListsSound, TypeOK, RQTypeOK, enqueueUnlocked
  <2>2. len' \in [CPU -> Nat] /\ home_cpu' \in [Proc -> CPU]
    BY DEF ListsSound, TypeOK, RQTypeOK, enqueueUnlocked
  <2>3. rq_next' \in [Proc -> Proc \cup {Nil}]
    BY Zenon DEF ListsSound, TypeOK, RQTypeOK, enqueueUnlocked
  <2> QED BY <1>1, <2>1, <2>2, <2>3 DEF TypeOK, RQTypeOK
<1>4. \A d \in CPU : \A i \in 1 .. Len(q[d]) : q[d][i] # p /\ q[d][i] \in Proc
  BY DEF Queued, On, ListsSound, TypeOK
<1>5. OneQueue'
  <2> SUFFICES ASSUME NEW a \in CPU, NEW b \in CPU,
                      NEW i \in 1 .. Len(q'[a]), NEW j \in 1 .. Len(q'[b])
               PROVE  /\ q'[a][i] = q'[b][j] => a = b /\ i = j
                      /\ home_cpu'[q'[a][i]] = a
    BY DEF OneQueue
  <2>1. \/ a = c /\ i = n + 1 /\ q'[a][i] = p
        \/ i \in 1 .. Len(q[a]) /\ q'[a][i] = q[a][i] /\ q[a][i] # p /\ q[a][i] \in Proc
    BY <1>1, <1>4
  <2>2. \/ b = c /\ j = n + 1 /\ q'[b][j] = p
        \/ j \in 1 .. Len(q[b]) /\ q'[b][j] = q[b][j] /\ q[b][j] # p
    BY <1>1, <1>4
  <2>3. q'[a][i] = q'[b][j] => a = b /\ i = j
    BY <2>1, <2>2 DEF OneQueue, ListsSound
  <2>4. home_cpu'[q'[a][i]] = a
    BY <2>1 DEF OneQueue, ListsSound, TypeOK
  <2> QED BY <2>3, <2>4
<1>6. UnlinkedWhenOff'
  <2> SUFFICES ASSUME NEW r \in Proc, ~ Queued(r)' PROVE rq_next'[r] = Nil
    BY DEF UnlinkedWhenOff
  <2>1. r # p
    BY <1>1 DEF Queued, On
  <2>2. ~ Queued(r)
    BY <1>1 DEF Queued, On
  <2>3. tail[c] # Nil => r # tail[c]
    BY <1>1, <1>2, <2>2 DEF Queued, On, ListsSound, Represents, Lists
  <2> QED BY <2>1, <2>2, <2>3 DEF enqueueUnlocked, UnlinkedWhenOff, ListsSound, TypeOK, RQTypeOK
<1>7. Represents'
  <2> SUFFICES ASSUME NEW d \in CPU PROVE Lists(d)'
    BY DEF Represents
  <2>1. CASE d # c
    <3>1. q'[d] = q[d] /\ head'[d] = head[d] /\ tail'[d] = tail[d] /\ len'[d] = len[d]
      BY <1>1, <2>1 DEF enqueueUnlocked, ListsSound, TypeOK, RQTypeOK
    <3>2. \A i \in 1 .. Len(q[d]) : rq_next'[q[d][i]] = rq_next[q[d][i]]
      <4> SUFFICES ASSUME NEW i \in 1 .. Len(q[d]) PROVE rq_next'[q[d][i]] = rq_next[q[d][i]]
        OBVIOUS
      <4>1. q[d][i] # p /\ q[d][i] \in Proc
        BY <1>4
      <4>2. tail[c] # Nil => q[d][i] # tail[c]
        BY <1>1, <1>2, <2>1 DEF ListsSound, OneQueue, Represents, Lists
      <4> QED BY <4>1, <4>2 DEF enqueueUnlocked, ListsSound, TypeOK, RQTypeOK
    <3> QED BY <3>1, <3>2, ListsFrame DEF ListsSound, Represents
  <2>2. CASE d = c
    <3>1. len'[c] = n + 1 /\ tail'[c] = p
      BY <1>1, Zenon DEF enqueueUnlocked, ListsSound, TypeOK, RQTypeOK, Represents, Lists
    <3>2. head'[c] = q'[c][1]
      BY <1>1, <1>2 DEF enqueueUnlocked, ListsSound, TypeOK, RQTypeOK, Represents, Lists
    <3>3. ASSUME NEW i \in 1 .. n + 1
          PROVE  rq_next'[q'[c][i]] = IF i = n + 1 THEN Nil ELSE q'[c][i + 1]
      <4>1. CASE i = n + 1
        <5>1. tail[c] # Nil => tail[c] # p
          BY <1>1, <1>2, <1>4 DEF ListsSound, Represents, Lists
        <5> QED BY <4>1, <1>1, <5>1 DEF enqueueUnlocked, ListsSound, TypeOK, RQTypeOK
      <4>2. CASE i = n
        <5>1. tail[c] # Nil /\ tail[c] = q[c][n] /\ q'[c][i] = q[c][n]
          BY <4>2, <1>1, <1>2 DEF ListsSound, Represents, Lists
        <5>2. rq_next'[tail[c]] = p
          BY <5>1, <1>4 DEF enqueueUnlocked, ListsSound, TypeOK, RQTypeOK
        <5> QED BY <4>2, <5>1, <5>2, <1>1
      <4>3. CASE i < n
        <5>1. q'[c][i] = q[c][i] /\ q[c][i] # p /\ q[c][i] \in Proc
          BY <4>3, <1>1, <1>4
        <5>2. q[c][i] # tail[c] /\ rq_next[q[c][i]] = q[c][i + 1]
          <6>1. i \in 1 .. n /\ n \in 1 .. n /\ i # n /\ tail[c] = q[c][n]
            BY <4>3, <1>1 DEF ListsSound, Represents, Lists
          <6>2. q[c][i] # q[c][n]
            BY <6>1 DEF ListsSound, OneQueue
          <6>3. rq_next[q[c][i]] = q[c][i + 1]
            BY <6>1 DEF ListsSound, Represents, Lists
          <6> QED BY <6>1, <6>2, <6>3
        <5>3. rq_next'[q[c][i]] = rq_next[q[c][i]]
          BY <5>1, <5>2 DEF enqueueUnlocked, ListsSound, TypeOK, RQTypeOK
        <5> QED BY <4>3, <5>1, <5>2, <5>3, <1>1
      <4> QED BY <4>1, <4>2, <4>3, <1>1
    <3> QED BY <2>2, <3>1, <3>2, <3>3, <1>1 DEF Lists
  <2> QED BY <2>1, <2>2
<1> QED BY <1>3, <1>5, <1>6, <1>7 DEF ListsSound

-----------------------------------------------------------------------------
(* Taking a process out, from the front or from the middle.                *)

\* s without its i-th element.
Cut(s, i) == SubSeq(s, 1, i - 1) \o SubSeq(s, i + 1, Len(s))

LEMMA CutProperties ==
    ASSUME NEW s \in Seq(Proc), NEW i \in 1 .. Len(s)
    PROVE  /\ Cut(s, i) \in Seq(Proc)
           /\ Len(Cut(s, i)) = Len(s) - 1
           /\ \A j \in 1 .. Len(s) - 1 : Cut(s, i)[j] = IF j < i THEN s[j] ELSE s[j + 1]
<1>1. /\ SubSeq(s, 1, i - 1) \in Seq(Proc) /\ Len(SubSeq(s, 1, i - 1)) = i - 1
      /\ \A j \in 1 .. i - 1 : SubSeq(s, 1, i - 1)[j] = s[j]
  OBVIOUS
<1>2. /\ SubSeq(s, i + 1, Len(s)) \in Seq(Proc) /\ Len(SubSeq(s, i + 1, Len(s))) = Len(s) - i
      /\ \A j \in 1 .. Len(s) - i : SubSeq(s, i + 1, Len(s))[j] = s[i + j]
  OBVIOUS
<1>3. /\ Cut(s, i) \in Seq(Proc)
      /\ Len(Cut(s, i)) = (i - 1) + (Len(s) - i)
      /\ \A j \in 1 .. (i - 1) + (Len(s) - i) :
            Cut(s, i)[j] = IF j <= i - 1 THEN SubSeq(s, 1, i - 1)[j]
                           ELSE SubSeq(s, i + 1, Len(s))[j - (i - 1)]
  <2> DEFINE t == SubSeq(s, 1, i - 1)
             u == SubSeq(s, i + 1, Len(s))
  <2>1. t \in Seq(Proc) /\ u \in Seq(Proc) /\ Len(t) = i - 1 /\ Len(u) = Len(s) - i
    BY <1>1, <1>2
  <2>2. Cut(s, i) = t \o u
    BY DEF Cut
  <2> HIDE DEF t, u
  <2>3. /\ t \o u \in Seq(Proc) /\ Len(t \o u) = Len(t) + Len(u)
        /\ \A j \in 1 .. Len(t) + Len(u) :
              (t \o u)[j] = IF j <= Len(t) THEN t[j] ELSE u[j - Len(t)]
    BY <2>1, ConcatProperties, Zenon
  <2>4. /\ Cut(s, i) \in Seq(Proc) /\ Len(Cut(s, i)) = (i - 1) + (Len(s) - i)
        /\ \A j \in 1 .. (i - 1) + (Len(s) - i) :
              Cut(s, i)[j] = IF j <= i - 1 THEN t[j] ELSE u[j - (i - 1)]
    BY <2>1, <2>2, <2>3, Zenon
  <2> QED BY <2>4, Zenon DEF t, u
<1> HIDE DEF Cut
<1>4. Len(s) \in Nat
  OBVIOUS
<1>5. ASSUME NEW j \in 1 .. Len(s) - 1
      PROVE  Cut(s, i)[j] = IF j < i THEN s[j] ELSE s[j + 1]
  <2>1. CASE j < i
    BY <2>1, <1>1, <1>3, <1>4
  <2>2. CASE ~ (j < i)
    <3>1. j - (i - 1) \in 1 .. Len(s) - i /\ i + (j - (i - 1)) = j + 1
      BY <2>2, <1>4
    <3> QED BY <3>1, <2>2, <1>2, <1>3, <1>4
  <2> QED BY <2>1, <2>2
<1> QED BY <1>3, <1>4, <1>5

\* Taking out the first element is Tail.
LEMMA CutFirst ==
    ASSUME NEW s \in Seq(Proc), s # <<>>
    PROVE  Cut(s, 1) = Tail(s)
<1>1. Len(s) \in Nat /\ 1 \in 1 .. Len(s)
  BY EmptySeq
<1>2. /\ Tail(s) \in Seq(Proc) /\ Len(Tail(s)) = Len(s) - 1
      /\ \A j \in 1 .. Len(s) - 1 : Tail(s)[j] = s[j + 1]
  BY HeadTailProperties
<1>3. \A j \in 1 .. Len(s) - 1 : Cut(s, 1)[j] = Tail(s)[j]
  BY <1>1, <1>2, CutProperties
<1> QED BY <1>1, <1>2, <1>3, CutProperties, SeqEqual

\* A process is on the queue it was found on, at one place only.
LEMMA Places ==
    ASSUME ListsSound, NEW c \in CPU, NEW i \in 1 .. Len(q[c])
    PROVE  /\ q[c] \in Seq(Proc) /\ Len(q[c]) \in Nat /\ q[c][i] \in Proc
           /\ Queued(q[c][i])
           /\ \A d \in CPU : \A j \in 1 .. Len(q[d]) : q[d][j] = q[c][i] => d = c /\ j = i
BY DEF ListsSound, TypeOK, OneQueue, Queued, On

\* Unlinking the k-th process of queue c takes it out of the sequence.  Its
\* home may change.
LEMMA UnlinkKeeps ==
    ASSUME ListsSound, NEW c \in CPU, NEW k \in 1 .. Len(q[c]),
           Unlink(c, q[c][k], IF k = 1 THEN Nil ELSE q[c][k - 1]),
           q' = [q EXCEPT ![c] = Cut(@, k)],
           home_cpu' \in [Proc -> CPU],
           \A r \in Proc \ {q[c][k]} : home_cpu'[r] = home_cpu[r]
    PROVE  ListsSound'
<1> USE RunQueueAssumption
<1> DEFINE n == Len(q[c])
           p == q[c][k]
           prev == IF k = 1 THEN Nil ELSE q[c][k - 1]
<1>1. n \in Nat /\ k \in 1 .. n /\ p \in Proc /\ prev \in Proc \cup {Nil}
  BY Places DEF ListsSound, TypeOK
<1>2. /\ q' \in [CPU -> Seq(Proc)]
      /\ \A d \in CPU \ {c} : q'[d] = q[d]
      /\ q'[c] \in Seq(Proc) /\ Len(q'[c]) = n - 1
      /\ \A j \in 1 .. n - 1 : q'[c][j] = IF j < k THEN q[c][j] ELSE q[c][j + 1]
  BY CutProperties, Zenon DEF ListsSound, TypeOK
<1>3. Lists(c) /\ prev # p /\ (prev = Nil <=> k = 1)
  <2>1. k # 1 => k - 1 \in 1 .. n
    BY <1>1
  <2> QED BY <2>1, <1>1, Places DEF ListsSound, Represents
<1>4. rq_next[p] \in Proc \cup {Nil} /\ rq_next[p] = IF k = n THEN Nil ELSE q[c][k + 1]
  BY <1>1, <1>3 DEF Lists, ListsSound, TypeOK, RQTypeOK
<1>5. TypeOK'
  <2>1. head' \in [CPU -> Proc \cup {Nil}] /\ tail' \in [CPU -> Proc \cup {Nil}]
    BY <1>1, <1>4, Zenon DEF ListsSound, TypeOK, RQTypeOK, Unlink
  <2>2. len' \in [CPU -> Nat]
    BY <1>1, <1>3 DEF Lists, ListsSound, TypeOK, RQTypeOK, Unlink
  <2>3. rq_next' \in [Proc -> Proc \cup {Nil}]
    BY <1>1, <1>3, <1>4, Zenon DEF ListsSound, TypeOK, RQTypeOK, Unlink
  <2> QED BY <1>2, <2>1, <2>2, <2>3 DEF TypeOK, RQTypeOK
\* Where the element at place i of queue a was before.
<1> DEFINE old(a, i) == IF a = c /\ i >= k THEN i + 1 ELSE i
<1>6. ASSUME NEW a \in CPU, NEW i \in 1 .. Len(q'[a])
      PROVE  /\ old(a, i) \in 1 .. Len(q[a]) /\ q'[a][i] = q[a][old(a, i)]
             /\ q'[a][i] # p /\ q'[a][i] \in Proc
  <2>1. CASE a = c
    <3>1. old(a, i) \in 1 .. n /\ q'[a][i] = q[a][old(a, i)] /\ old(a, i) # k
      BY <2>1, <1>1, <1>2
    <3> HIDE DEF old, p
    <3>2. \A x \in 1 .. n : x # k => q[c][x] # p /\ q[c][x] \in Proc
      BY Places DEF p
    <3> QED BY <2>1, <3>1, <3>2
  <2>2. CASE a # c
    BY <2>2, <1>2, Places
  <2> QED BY <2>1, <2>2
<1>7. OneQueue'
  <2> SUFFICES ASSUME NEW a \in CPU, NEW b \in CPU,
                      NEW i \in 1 .. Len(q'[a]), NEW j \in 1 .. Len(q'[b])
               PROVE  /\ q'[a][i] = q'[b][j] => a = b /\ i = j
                      /\ home_cpu'[q'[a][i]] = a
    BY DEF OneQueue
  <2>1. /\ old(a, i) \in 1 .. Len(q[a]) /\ q'[a][i] = q[a][old(a, i)]
        /\ q'[a][i] # p /\ q'[a][i] \in Proc
        /\ old(b, j) \in 1 .. Len(q[b]) /\ q'[b][j] = q[b][old(b, j)]
    BY <1>6
  <2>2. a = b /\ old(a, i) = old(b, j) => i = j
    BY <1>1
  <2>3. /\ q'[a][i] = q'[b][j] => a = b /\ old(a, i) = old(b, j)
        /\ home_cpu'[q'[a][i]] = a
    <3> HIDE DEF old
    <3>1. PICK x \in 1 .. Len(q[a]) : x = old(a, i)
      BY <2>1
    <3>2. PICK y \in 1 .. Len(q[b]) : y = old(b, j)
      BY <2>1
    <3>3. (q[a][x] = q[b][y] => a = b /\ x = y) /\ home_cpu[q[a][x]] = a
      BY DEF ListsSound, OneQueue
    <3> HIDE DEF p
    <3> QED BY <3>1, <3>2, <3>3, <2>1 DEF p
  <2> QED BY <2>2, <2>3
<1>8. ASSUME NEW r \in Proc, r # p, ~ Queued(r)' PROVE ~ Queued(r)
  <2> SUFFICES ASSUME NEW a \in CPU, NEW i \in 1 .. Len(q[a]), q[a][i] = r
               PROVE  FALSE
    BY DEF Queued, On
  <2>1. CASE a # c
    BY <2>1, <1>2, <1>8 DEF Queued, On
  <2>2. CASE a = c
    <3>1. i # k /\ i \in 1 .. n
      BY <1>8, <2>2
    <3>2. CASE i < k
      BY <3>1, <3>2, <2>2, <1>1, <1>2, <1>8 DEF Queued, On
    <3>3. CASE i > k
      <4>1. i - 1 \in 1 .. n - 1 /\ q'[c][i - 1] = q[c][i]
        BY <3>1, <3>3, <1>1, <1>2
      <4> QED BY <4>1, <2>2, <1>2, <1>8 DEF Queued, On
    <3> QED BY <3>1, <3>2, <3>3, <1>1
  <2> QED BY <2>1, <2>2
<1>9. UnlinkedWhenOff'
  <2> SUFFICES ASSUME NEW r \in Proc, ~ Queued(r)' PROVE rq_next'[r] = Nil
    BY DEF UnlinkedWhenOff
  <2>1. CASE r = p
    BY <2>1, <1>1, <1>3 DEF Unlink, ListsSound, TypeOK, RQTypeOK
  <2>2. CASE r # p
    <3>1. ~ Queued(r) /\ rq_next[r] = Nil
      BY <1>8, <2>2 DEF ListsSound, UnlinkedWhenOff
    <3>2. r # prev \/ prev = Nil
      <4>1. k # 1 => k - 1 \in 1 .. n
        BY <1>1
      <4> QED BY <3>1, <4>1, Places
    <3> QED BY <2>2, <3>1, <3>2, <1>1, <1>3, Zenon DEF Unlink, ListsSound, TypeOK, RQTypeOK
  <2> QED BY <2>1, <2>2
\* What Unlink leaves in the links.
<1>10. /\ \A x \in Proc : rq_next'[x] = IF x = p THEN Nil
                                        ELSE IF k # 1 /\ x = prev THEN rq_next[p] ELSE rq_next[x]
       /\ len'[c] = n - 1
       /\ head'[c] = IF k = 1 THEN rq_next[p] ELSE head[c]
       /\ tail'[c] = IF tail[c] = p THEN prev ELSE tail[c]
       /\ \A d \in CPU \ {c} : head'[d] = head[d] /\ tail'[d] = tail[d] /\ len'[d] = len[d]
  BY <1>1, <1>3, Zenon DEF Lists, Unlink, ListsSound, TypeOK, RQTypeOK
<1>11. Represents'
  <2> SUFFICES ASSUME NEW d \in CPU PROVE Lists(d)'
    BY DEF Represents
  <2>1. CASE d # c
    <3>1. \A i \in 1 .. Len(q[d]) : rq_next'[q[d][i]] = rq_next[q[d][i]]
      <4> SUFFICES ASSUME NEW i \in 1 .. Len(q[d]) PROVE rq_next'[q[d][i]] = rq_next[q[d][i]]
        OBVIOUS
      <4>1. k # 1 => k - 1 \in 1 .. n
        BY <1>1
      <4>2. q[d][i] \in Proc /\ q[d][i] # p /\ (k # 1 => q[d][i] # q[c][k - 1])
        BY <2>1, <4>1, Places
      <4> QED BY <4>2, <1>10
    <3> QED BY <2>1, <3>1, <1>2, <1>10, ListsFrame DEF ListsSound, Represents
  <2>2. CASE d = c
    <3>1. head'[c] = IF q'[c] = <<>> THEN Nil ELSE q'[c][1]
      <4>1. head[c] = q[c][1]
        BY <1>1, <1>3 DEF Lists
      <4> QED BY <4>1, <1>1, <1>2, <1>4, <1>10
    <3>2. tail'[c] = IF q'[c] = <<>> THEN Nil ELSE q'[c][Len(q'[c])]
      <4>1. tail[c] = q[c][n] /\ n \in 1 .. n
        BY <1>1, <1>3 DEF Lists
      <4>2. tail[c] = p <=> k = n
        BY <4>1, <1>1, Places
      <4> QED BY <4>1, <4>2, <1>1, <1>2, <1>10
    <3>3. ASSUME NEW i \in 1 .. n - 1
          PROVE  rq_next'[q'[c][i]] = IF i = n - 1 THEN Nil ELSE q'[c][i + 1]
      <4>1. /\ old(c, i) \in 1 .. n /\ q'[c][i] = q[c][old(c, i)]
            /\ q'[c][i] # p /\ q'[c][i] \in Proc
        BY <1>2, <1>6
      <4>2. CASE k # 1 /\ i = k - 1
        <5>1. q'[c][i] = prev
          BY <4>2, <1>1, <1>2
        <5>2. rq_next'[q'[c][i]] = rq_next[p]
          BY <5>1, <4>1, <4>2, <1>10
        <5> QED BY <5>2, <4>2, <1>1, <1>2, <1>4
      <4>3. CASE ~ (k # 1 /\ i = k - 1)
        <5>1. k # 1 => old(c, i) # k - 1 /\ k - 1 \in 1 .. n
          BY <4>3, <1>1
        <5>2. rq_next'[q'[c][i]] = rq_next[q[c][old(c, i)]]
          <6> HIDE DEF old
          <6>1. k # 1 => q[c][old(c, i)] # q[c][k - 1]
            BY <4>1, <5>1, Places
          <6> QED BY <4>1, <6>1, <1>10
        <5>3. rq_next[q[c][old(c, i)]] = IF old(c, i) = n THEN Nil ELSE q[c][old(c, i) + 1]
          <6> HIDE DEF old
          <6> QED BY <4>1, <1>3 DEF Lists
        <5> QED BY <5>2, <5>3, <4>3, <1>1, <1>2
      <4> QED BY <4>2, <4>3
    <3>4. len'[c] = Len(q'[c]) /\ Len(q'[c]) = n - 1
      BY <1>2, <1>10
    <3>5. \A i \in 1 .. Len(q'[c]) :
            rq_next'[q'[c][i]] = IF i = Len(q'[c]) THEN Nil ELSE q'[c][i + 1]
      <4> SUFFICES ASSUME NEW i \in 1 .. Len(q'[c])
                   PROVE  rq_next'[q'[c][i]] = IF i = Len(q'[c]) THEN Nil ELSE q'[c][i + 1]
        OBVIOUS
      <4>1. i \in 1 .. n - 1
        BY <3>4, Zenon
      <4>2. rq_next'[q'[c][i]] = IF i = n - 1 THEN Nil ELSE q'[c][i + 1]
        BY <4>1, <3>3, Zenon
      <4> QED BY <4>2, <3>4
    <3>6. Lists(c)'
      BY <3>1, <3>2, <3>4, <3>5, Zenon DEF Lists
    <3> QED BY <2>2, <3>6
  <2> QED BY <2>1, <2>2
<1> QED BY <1>5, <1>7, <1>9, <1>11 DEF ListsSound

\* dequeueUnlocked unlinks the head: the test of rq_next in the code and the
\* test of tail in removeFromQueue agree on a sound list.
LEMMA DequeueUnlinks ==
    ASSUME ListsSound, NEW c \in CPU, head[c] # Nil, dequeueUnlocked(c)
    PROVE  /\ q[c] # <<>> /\ 1 \in 1 .. Len(q[c]) /\ head[c] = q[c][1]
           /\ Unlink(c, q[c][1], Nil)
<1> DEFINE n == Len(q[c])
<1>1. Lists(c) /\ q[c] \in Seq(Proc) /\ n \in Nat
  BY DEF ListsSound, TypeOK, Represents
<1>2. q[c] # <<>> /\ 1 \in 1 .. n /\ head[c] = q[c][1] /\ n \in 1 .. n
  BY <1>1 DEF Lists
<1>3. rq_next[q[c][1]] = (IF 1 = n THEN Nil ELSE q[c][1 + 1]) /\ tail[c] = q[c][n]
  BY <1>1, <1>2, Zenon DEF Lists
<1>4. (n = 1 <=> tail[c] = head[c]) /\ (n # 1 => q[c][1 + 1] # Nil)
  <2>1. n # 1 => 1 + 1 \in 1 .. n
    <3> HIDE DEF n
    <3> QED BY <1>1, <1>2
  <2>2. n # 1 => q[c][1 + 1] \in Proc
    BY <1>1, <2>1
  <2>3. q[c][n] = q[c][1] => n = 1
    BY <1>2, Places, Zenon
  <2> QED BY <1>2, <1>3, <2>2, <2>3, RunQueueAssumption
<1> QED BY <1>2, <1>3, <1>4 DEF Unlink, dequeueUnlocked

LEMMA DequeueKeeps ==
    ASSUME ListsSound, NEW c \in CPU, dequeue(c)
    PROVE  ListsSound'
<1>1. /\ q[c] # <<>> /\ 1 \in 1 .. Len(q[c]) /\ head[c] = q[c][1]
      /\ Unlink(c, q[c][1], Nil)
  BY DequeueUnlinks DEF dequeue
<1>2. q[c] \in Seq(Proc) /\ home_cpu \in [Proc -> CPU] /\ home_cpu' = home_cpu
  BY DEF dequeue, ListsSound, TypeOK
<1>3. q' = [q EXCEPT ![c] = Cut(@, 1)]
  BY <1>1, <1>2, CutFirst, Zenon DEF dequeue
<1>4. Unlink(c, q[c][1], IF 1 = 1 THEN Nil ELSE q[c][1 - 1])
  BY <1>1
<1> QED BY <1>1, <1>2, <1>3, <1>4, UnlinkKeeps, Zenon

LEMMA StealKeeps ==
    ASSUME ListsSound, NEW c \in CPU, trySteal(c)
    PROVE  ListsSound'
<1>1. PICK b \in CPU : /\ Busiest(c, b) /\ dequeueUnlocked(b)
                       /\ home_cpu' = [home_cpu EXCEPT ![head[b]] = c]
                       /\ q' = [q EXCEPT ![b] = Tail(@)]
  BY Zenon DEF trySteal
<1>2. q[b] \in Seq(Proc) /\ head[b] # Nil
  <2>1. q[b] \in Seq(Proc) /\ Lists(b) /\ len[b] >= 2
    BY <1>1 DEF Busiest, ListsSound, TypeOK, Represents
  <2>2. q[b] # <<>> /\ q[b][1] \in Proc /\ head[b] = q[b][1]
    BY <2>1 DEF Lists
  <2> QED BY <2>1, <2>2, RunQueueAssumption
<1>3. /\ q[b] # <<>> /\ 1 \in 1 .. Len(q[b]) /\ head[b] = q[b][1]
      /\ Unlink(b, q[b][1], Nil)
  BY <1>1, <1>2, DequeueUnlinks
<1>4. q' = [q EXCEPT ![b] = Cut(@, 1)]
  BY <1>1, <1>2, <1>3, CutFirst, Zenon
<1>5. /\ home_cpu' \in [Proc -> CPU]
      /\ \A r \in Proc \ {q[b][1]} : home_cpu'[r] = home_cpu[r]
  BY <1>1, <1>3 DEF ListsSound, TypeOK
<1>6. Unlink(b, q[b][1], IF 1 = 1 THEN Nil ELSE q[b][1 - 1])
  BY <1>3
<1> QED BY <1>3, <1>4, <1>5, <1>6, UnlinkKeeps, Zenon

-----------------------------------------------------------------------------
(* The walk of removeFromQueue.                                            *)

\* The nodes the walk meets are the elements of the sequence in order.
LEMMA WalkFollows ==
    ASSUME ListsSound, NEW c \in CPU, NEW p \in Proc,
           NEW k \in Nat, NEW w \in [0 .. k -> Proc], Walk(c, p, k, w)
    PROVE  \A i \in 0 .. k : i + 1 \in 1 .. Len(q[c]) /\ w[i] = q[c][i + 1]
<1> DEFINE n == Len(q[c])
           Bad == {i \in 0 .. k : ~ (i + 1 \in 1 .. n /\ w[i] = q[c][i + 1])}
<1>1. Lists(c) /\ q[c] \in Seq(Proc) /\ n \in Nat /\ Nil \notin Proc
  BY RunQueueAssumption DEF ListsSound, TypeOK, Represents
<1> SUFFICES ASSUME Bad # {} PROVE FALSE
  OBVIOUS
<1>2. Bad \in SUBSET Nat
  OBVIOUS
<1>3. PICK m \in Bad : \A i \in Bad : m <= i
  <2> HIDE DEF Bad
  <2> QED BY <1>2, LeastNat
<1>4. CASE m = 0
  BY <1>1, <1>3, <1>4 DEF Walk, Lists
<1>5. CASE m # 0
  <2>1. m - 1 \in 0 .. k - 1 /\ m - 1 \notin Bad /\ m \in 1 .. k
    BY <1>3, <1>5
  <2>2. m \in 1 .. n /\ w[m - 1] = q[c][m]
    BY <2>1
  <2>3. rq_next[w[m - 1]] = w[m]
    BY <2>1 DEF Walk
  <2>4. rq_next[q[c][m]] = IF m = n THEN Nil ELSE q[c][m + 1]
    BY <1>1, <2>2 DEF Lists
  <2>5. w[m] \in Proc
    BY <2>1
  <2>6. m + 1 \in 1 .. n /\ w[m] = q[c][m + 1]
    BY <1>1, <2>2, <2>3, <2>4, <2>5
  <2> QED BY <2>6, <1>3
<1> QED BY <1>4, <1>5

\* The walk reaches every process of the queue, within as many steps as
\* there are processes.
LEMMA WalkReaches ==
    ASSUME ListsSound, NEW c \in CPU, NEW i \in 1 .. Len(q[c])
    PROVE  \E k \in Steps : \E w \in [0 .. k -> Proc] : Walk(c, q[c][i], k, w)
<1> DEFINE n == Len(q[c])
           v == [j \in 0 .. i - 1 |-> q[c][j + 1]]
<1>1. /\ Lists(c) /\ q[c] \in Seq(Proc) /\ n \in Nat
      /\ \A j \in 1 .. n : q[c][j] \in Proc
  BY DEF ListsSound, TypeOK, Represents
<1>2. \A j, l \in 1 .. n : q[c][j] = q[c][l] => j = l
  BY Places
<1>3. Cardinality(Proc) \in Nat /\ n <= Cardinality(Proc)
  <2>1. q[c] \in [1 .. n -> Proc]
    BY <1>1
  <2> QED BY <1>1, <1>2, <2>1, InjectiveBound, FS_CardinalityType, RunQueueAssumption
<1>4. i - 1 \in Steps
  BY <1>1, <1>3 DEF Steps
<1>5. v \in [0 .. i - 1 -> Proc]
  BY <1>1
<1>6. Walk(c, q[c][i], i - 1, v)
  <2>1. v[0] = head[c] /\ v[i - 1] = q[c][i]
    BY <1>1 DEF Lists
  <2>2. ASSUME NEW j \in 0 .. i - 2 PROVE v[j] # q[c][i] /\ rq_next[v[j]] = v[j + 1]
    <3>0. /\ j \in 0 .. i - 1 /\ j + 1 \in 0 .. i - 1 /\ j + 1 \in 1 .. n /\ j + 1 # i /\ j + 1 # n
          /\ (j + 1) + 1 = j + 2
      BY <1>1
    <3>1. /\ j + 1 \in 1 .. n /\ j + 1 # i /\ j + 1 # n
          /\ v[j] = q[c][j + 1] /\ v[j + 1] = q[c][j + 2]
      BY <3>0
    <3> HIDE DEF v
    <3>2. rq_next[q[c][j + 1]] = q[c][(j + 1) + 1]
      BY <1>1, <3>1 DEF Lists
    <3> QED BY <1>2, <3>1, <3>2
  <2> HIDE DEF v
  <2>3. 0 .. i - 2 = 0 .. (i - 1) - 1
    BY <1>1
  <2> QED BY <2>1, <2>2, <2>3, Zenon DEF Walk
<1> QED BY <1>4, <1>5, <1>6

\* removeFromQueue finds the process exactly if it is on the queue, and then
\* unlinks it with its predecessor at hand.
LEMMA RemoveCuts ==
    ASSUME ListsSound, NEW p \in Proc, remove(p)
    PROVE  \/ UNCHANGED vars
           \/ \E k \in 1 .. Len(q[home_cpu[p]]) :
                 LET c == home_cpu[p]
                 IN  /\ q[c][k] = p
                     /\ Unlink(c, q[c][k], IF k = 1 THEN Nil ELSE q[c][k - 1])
                     /\ q' = [q EXCEPT ![c] = Cut(@, k)]
                     /\ UNCHANGED home_cpu
<1> DEFINE c == home_cpu[p]
<1>1. c \in CPU /\ removeFromQueue(c, p) /\ UNCHANGED home_cpu
  BY DEF remove, ListsSound, TypeOK
<1>2. CASE ~ \E k \in Steps : \E w \in [0 .. k -> Proc] : Walk(c, p, k, w)
  <2>1. ~ On(c, p)
    <3> SUFFICES ASSUME NEW i \in 1 .. Len(q[c]), q[c][i] = p PROVE FALSE
      BY DEF On
    <3> HIDE DEF c
    <3> QED BY <1>1, <1>2, WalkReaches
  <2> QED BY <1>1, <1>2, <2>1 DEF remove, removeFromQueue, rqVars, vars
<1>3. ASSUME NEW k \in Steps, NEW w \in [0 .. k -> Proc], Walk(c, p, k, w),
             Unlink(c, p, IF k = 0 THEN Nil ELSE w[k - 1])
      PROVE  \E j \in 1 .. Len(q[c]) :
                 /\ q[c][j] = p
                 /\ Unlink(c, q[c][j], IF j = 1 THEN Nil ELSE q[c][j - 1])
                 /\ q' = [q EXCEPT ![c] = Cut(@, j)]
                 /\ UNCHANGED home_cpu
  <2>1. k \in Nat
    BY <1>3, FS_CardinalityType, RunQueueAssumption DEF Steps
  <2>2. \A i \in 0 .. k : i + 1 \in 1 .. Len(q[c]) /\ w[i] = q[c][i + 1]
    <3> HIDE DEF c
    <3> QED BY <1>1, <1>3, <2>1, WalkFollows
  <2>3. k + 1 \in 1 .. Len(q[c]) /\ q[c][k + 1] = p
    BY <1>3, <2>1, <2>2 DEF Walk
  <2>4. k # 0 => w[k - 1] = q[c][k]
    BY <2>1, <2>2
  <2>5. Unlink(c, q[c][k + 1], IF k + 1 = 1 THEN Nil ELSE q[c][(k + 1) - 1])
    <3>1. (IF k = 0 THEN Nil ELSE w[k - 1]) = IF k + 1 = 1 THEN Nil ELSE q[c][(k + 1) - 1]
      BY <2>1, <2>4
    <3> QED BY <1>3, <2>3, <3>1
  <2>6. q' = [q EXCEPT ![c] = Cut(@, k + 1)]
    <3>1. On(c, p)
      BY <2>3 DEF On
    <3>2. \A i \in 1 .. Len(q[c]) : q[c][i] = p <=> i = k + 1
      <4> HIDE DEF c
      <4> QED BY <1>1, <2>3, Places
    <3>3. (CHOOSE i \in 1 .. Len(q[c]) : q[c][i] = p) = k + 1
      BY <2>3, <3>2
    <3>4. Without(q[c], p) = Cut(q[c], k + 1)
      BY <3>3, Zenon DEF Without, Cut
    <3> QED BY <3>1, <3>4 DEF remove
  <2> QED BY <1>1, <2>3, <2>5, <2>6, Zenon
<1> QED BY <1>1, <1>2, <1>3 DEF removeFromQueue

LEMMA RemoveKeeps ==
    ASSUME ListsSound, NEW p \in Proc, remove(p)
    PROVE  ListsSound'
<1> DEFINE c == home_cpu[p]
<1>1. CASE UNCHANGED vars
  BY <1>1, SoundStutters
<1>2. ASSUME NEW k \in 1 .. Len(q[c]), q[c][k] = p,
             Unlink(c, q[c][k], IF k = 1 THEN Nil ELSE q[c][k - 1]),
             q' = [q EXCEPT ![c] = Cut(@, k)], UNCHANGED home_cpu
      PROVE  ListsSound'
  <2>1. c \in CPU /\ home_cpu' \in [Proc -> CPU]
    BY <1>2 DEF ListsSound, TypeOK
  <2> HIDE DEF c
  <2> QED BY <1>2, <2>1, UnlinkKeeps, Zenon
<1> QED BY <1>1, <1>2, RemoveCuts

-----------------------------------------------------------------------------
\* runqueue.zig: whatever the CPUs enqueue, dequeue, steal and remove, and in
\* whatever order, the linked list of every CPU is its sequence of processes,
\* a process that is on no queue has a null link, and a process is on one
\* queue at most, that of its home CPU.
THEOREM ListsAlwaysSound == Spec => []ListsSound
<1>1. Init => ListsSound
  BY InitSound
<1>2. ListsSound /\ [Next]_vars => ListsSound'
  <2> SUFFICES ASSUME ListsSound, [Next]_vars PROVE ListsSound'
    OBVIOUS
  <2>1. CASE UNCHANGED vars
    BY <2>1, SoundStutters
  <2>2. CASE Next
    BY <2>2, EnqueueKeeps, DequeueKeeps, StealKeeps, RemoveKeeps DEF Next
  <2> QED BY <2>1, <2>2
<1> QED BY <1>1, <1>2, PTL DEF Spec

-----------------------------------------------------------------------------
(* The lists are first-in first-out queues.                                *)

\* Following rq_next from the head of a sound list yields its sequence.
LEMMA ListOfIsSequence ==
    ASSUME ListsSound, NEW c \in CPU
    PROVE  ListOf(c) = q[c]
<1> DEFINE n == Len(q[c])
           Step(w, i) == IF i = 1 THEN head[c]
                         ELSE IF w[i - 1] = Nil THEN Nil ELSE rq_next[w[i - 1]]
           IsList(w) == w = [i \in 1 .. len[c] |-> Step(w, i)]
<1>1. /\ Lists(c) /\ q[c] \in Seq(Proc) /\ n \in Nat /\ len[c] = n
      /\ q[c] \in [1 .. n -> Proc] /\ Nil \notin Proc
  BY RunQueueAssumption DEF ListsSound, TypeOK, Represents, Lists
<1>2. \A i \in 1 .. n : q[c][i] = Step(q[c], i)
  <2> SUFFICES ASSUME NEW i \in 1 .. n PROVE q[c][i] = Step(q[c], i)
    OBVIOUS
  <2>1. CASE i = 1
    BY <1>1, <2>1 DEF Lists
  <2>2. CASE i # 1
    <3>1. i - 1 \in 1 .. n /\ i - 1 # n /\ (i - 1) + 1 = i
      BY <1>1, <2>2
    <3>2. rq_next[q[c][i - 1]] = q[c][(i - 1) + 1] /\ q[c][i - 1] \in Proc
      BY <1>1, <3>1 DEF Lists
    <3> QED BY <1>1, <2>2, <3>1, <3>2
  <2> QED BY <2>1, <2>2
<1>3. IsList(q[c])
  BY <1>1, <1>2, Zenon
<1>4. ASSUME NEW v, IsList(v) PROVE v = q[c]
  <2> DEFINE Bad == {i \in 1 .. n : v[i] # q[c][i]}
  <2>1. \A i \in 1 .. n : v[i] = Step(v, i)
    BY <1>1, <1>4
  <2>2. Bad = {}
    <3> SUFFICES ASSUME Bad # {} PROVE FALSE
      OBVIOUS
    <3>1. Bad \in SUBSET Nat
      OBVIOUS
    <3>2. PICK m \in Bad : \A i \in Bad : m <= i
      <4> HIDE DEF Bad
      <4> QED BY <3>1, LeastNat
    <3>3. m \in 1 .. n /\ v[m] # q[c][m] /\ (m # 1 => v[m - 1] = q[c][m - 1])
      <4>1. m # 1 => m - 1 \in 1 .. n /\ ~ (m <= m - 1)
        BY <1>1, <3>2
      <4> QED BY <3>2, <4>1
    <3>4. Step(v, m) = Step(q[c], m)
      BY <3>3
    <3> QED BY <2>1, <1>2, <3>3, <3>4
  <2>3. DOMAIN v = 1 .. n /\ v = [i \in 1 .. n |-> v[i]]
    <3>1. v = [i \in 1 .. n |-> Step(v, i)]
      BY <1>1, <1>4
    <3> HIDE DEF Step
    <3> QED BY <3>1
  <2> QED BY <2>2, <2>3, <1>1, Zenon
<1>5. (CHOOSE w : IsList(w)) = q[c]
  <2> HIDE DEF IsList
  <2>1. IsList(CHOOSE w : IsList(w))
    BY <1>3
  <2> QED BY <2>1, <1>4
<1> QED BY <1>5, Zenon DEF ListOf

\* The queues as FifoQueues sees them.
queues == [c \in CPU |-> ListOf(c)]

LEMMA QueuesAreSequences == ListsSound => queues = q
<1> SUFFICES ASSUME ListsSound PROVE queues = q
  OBVIOUS
<1>1. \A c \in CPU : ListOf(c) = q[c]
  BY ListOfIsSequence
<1> QED BY <1>1 DEF ListsSound, TypeOK, queues

\* Every step of the run queues is a step of FifoQueues on the sequences.
LEMMA StepIsFifo ==
    ASSUME ListsSound, Next
    PROVE  \/ \E c \in CPU, p \in Proc : ~ Queued(p) /\ q' = [q EXCEPT ![c] = Append(@, p)]
           \/ \E c \in CPU : q[c] # <<>> /\ q' = [q EXCEPT ![c] = Tail(@)]
           \/ \E c, b \in CPU : /\ b # c /\ Len(q[b]) >= 2
                                /\ q' = [q EXCEPT ![b] = Tail(@)]
           \/ \E c \in CPU : \E i \in 1 .. Len(q[c]) : q' = [q EXCEPT ![c] = Cut(@, i)]
           \/ q' = q
<1>1. ASSUME NEW c \in CPU, NEW p \in Proc, enqueue(c, p)
      PROVE  ~ Queued(p) /\ q' = [q EXCEPT ![c] = Append(@, p)]
  BY <1>1 DEF enqueue
<1>2. ASSUME NEW c \in CPU, dequeue(c)
      PROVE  q[c] # <<>> /\ q' = [q EXCEPT ![c] = Tail(@)]
  BY <1>2, DequeueUnlinks DEF dequeue
<1>3. ASSUME NEW c \in CPU, trySteal(c)
      PROVE  \E b \in CPU : b # c /\ Len(q[b]) >= 2 /\ q' = [q EXCEPT ![b] = Tail(@)]
  BY <1>3, Zenon DEF trySteal, Busiest, ListsSound, Represents, Lists
<1>4. ASSUME NEW p \in Proc, remove(p)
      PROVE  \/ \E c \in CPU : \E i \in 1 .. Len(q[c]) : q' = [q EXCEPT ![c] = Cut(@, i)]
             \/ q' = q
  <2>1. home_cpu[p] \in CPU
    BY DEF ListsSound, TypeOK
  <2> QED BY <1>4, <2>1, RemoveCuts DEF vars
<1> QED BY <1>1, <1>2, <1>3, <1>4 DEF Next

\* runqueue.zig: the linked lists implement FifoQueues.  An enqueue appends,
\* a dequeue takes the first process, a steal takes the first process of
\* another queue that keeps one, a removal takes one process out of the
\* middle, and nothing else happens to any queue.
THEOREM QueuesAreFifo == Spec => FifoSpec
<1>1. Init => Fifo!Init
  <2>1. Init => queues = q
    BY InitSound, QueuesAreSequences
  <2> QED BY <2>1 DEF Init, Fifo!Init, Fifo!CPU, CPU, queues
<1>2. ListsSound /\ ListsSound' /\ [Next]_vars => [Fifo!Next]_queues
  <2> SUFFICES ASSUME ListsSound, ListsSound', [Next]_vars PROVE [Fifo!Next]_queues
    OBVIOUS
  <2>1. queues = q
    BY QueuesAreSequences
  <2>2. queues' = q'
    <3>1. (ListsSound => queues = q)'
      BY QueuesAreSequences, PTL
    <3> QED BY <3>1
  <2>3. CASE UNCHANGED vars
    BY <2>1, <2>2, <2>3 DEF vars
  <2>4. CASE Next
    <3> USE DEF queues, Fifo!Next
    <3>1. ASSUME NEW c \in CPU, NEW p \in Proc, ~ Queued(p), q' = [q EXCEPT ![c] = Append(@, p)]
          PROVE  Fifo!Next
      <4>1. ~ Fifo!Queued(p)
        BY <3>1, <2>1 DEF Fifo!Queued, Fifo!CPU, CPU, Queued, On
      <4>2. Fifo!Put(c, p)
        BY <3>1, <2>1, <2>2, <4>1, Zenon DEF Fifo!Put, CPU
      <4> QED BY <4>2 DEF Fifo!CPU, CPU
    <3>2. ASSUME NEW c \in CPU, q[c] # <<>>, q' = [q EXCEPT ![c] = Tail(@)]
          PROVE  Fifo!Next
      BY <3>2, <2>1, <2>2, Zenon DEF Fifo!Get, Fifo!CPU, CPU
    <3>3. ASSUME NEW c \in CPU, NEW b \in CPU, b # c, Len(q[b]) >= 2, q' = [q EXCEPT ![b] = Tail(@)]
          PROVE  Fifo!Next
      BY <3>3, <2>1, <2>2, Zenon DEF Fifo!Steal, Fifo!CPU, CPU
    <3>4. ASSUME NEW c \in CPU, NEW i \in 1 .. Len(q[c]), q' = [q EXCEPT ![c] = Cut(@, i)]
          PROVE  Fifo!Next
      <4>1. i \in 1 .. Len(queues[c]) /\ queues' = [queues EXCEPT ![c] = Cut(@, i)]
        BY <3>4, <2>1, <2>2
      <4>2. Fifo!TakeOut(c, i)
        BY <4>1 DEF Fifo!TakeOut, Cut
      <4> QED BY <4>1, <4>2 DEF Fifo!CPU, CPU
    <3> QED BY <2>1, <2>2, <2>4, <3>1, <3>2, <3>3, <3>4, StepIsFifo
  <2> QED BY <2>3, <2>4
<1> QED BY <1>1, <1>2, ListsAlwaysSound, PTL DEF Spec, FifoSpec, Fifo!Spec, queues
=============================================================================
