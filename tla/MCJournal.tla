----------------------------- MODULE MCJournal -----------------------------
(* A journal of few blocks; the blocks share one place in the block cache.  *)
(* The images: a fresh file system, as make_ext3_img.py leaves it, *)
(* and two that were not unmounted: one whose log fills the journal and has *)
(* a revoke record, one whose last transaction is not complete.             *)
EXTENDS Journal

a == CHOOSE r \in Rest : TRUE
Zero == <<"zero", a>>
Magic == <<"magic", a>>
Blank == [b \in FsBlock |-> Zero]

Desc(seq, tags) == [kind |-> "desc", seq |-> seq, tags |-> tags]
Commit(seq) == [kind |-> "commit", seq |-> seq]
Plain(b) == [b |-> b, escape |-> FALSE]
Escaped(b) == [b |-> b, escape |-> TRUE]

\* The image of a log, whose transactions give the blocks the contents result.
Image(seq, log, result) ==
    [fs |-> Blank, seq |-> seq, result |-> result,
     past |-> [b \in FsBlock |-> {Zero, result[b]}],
     jnl |-> [p \in Pos |-> IF p <= Len(log) THEN log[p] ELSE Data(Zero)]]

Fresh == Image(1, <<>>, Blank)

\* Transaction 7 writes block 1, which is freed afterwards.
Freed == Image(7, <<Desc(7, <<Escaped(1)>>), Data(Zero), Commit(7),
                      [kind |-> "revoke", seq |-> 8, b |-> 1]>>, Blank)

\* Transaction 3 writes block 0; 4 has no commit block.
Unfinished == Image(3, <<Desc(3, <<Escaped(0)>>), Data(Zero), Commit(3),
                         Desc(4, <<Escaped(1)>>)>>,
                    [Blank EXCEPT ![0] = Magic])

All == {Fresh, Freed, Unfinished}
Clean == {Fresh}
=============================================================================
