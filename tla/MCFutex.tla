------------------------------ MODULE MCFutex ------------------------------
(* Futexes with few slots and buckets.  The words 0 and 2 share a bucket   *)
(* when there are two buckets.                                             *)
EXTENDS Futex, TLC

Far == {<<0, 1>>}     \* requeueing between buckets
Near == {<<0, 2>>}    \* requeueing inside a bucket
Nowhere == {}

Symmetric == Permutations(Thread)
=============================================================================
