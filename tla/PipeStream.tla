----------------------------- MODULE PipeStream -----------------------------
(***************************************************************************)
(* What a pipe promises about its bytes: they come out in the order they   *)
(* went in, each of them once, to whichever process reads first, and no    *)
(* more than Size of them are inside at a time.                            *)
(***************************************************************************)
EXTENDS Integers, Sequences

CONSTANTS Proc, Byte, Size

VARIABLES
    stream,   \* the bytes inside, oldest first
    moved     \* the last transfer: who, which way, which bytes

Init == stream = <<>> /\ moved = <<>>

Put(p, s) ==
    /\ Len(stream) + Len(s) <= Size
    /\ stream' = stream \o s
    /\ moved' = <<p, "write", s>>

Take(p, k) ==
    /\ stream' = SubSeq(stream, k + 1, Len(stream))
    /\ moved' = <<p, "read", SubSeq(stream, 1, k)>>

Next ==
    \E p \in Proc : \/ \E k \in 1 .. Size : \E s \in [1 .. k -> Byte] : Put(p, s)
                    \/ \E k \in 1 .. Len(stream) : Take(p, k)

Spec == Init /\ [][Next]_<<stream, moved>>
=============================================================================
