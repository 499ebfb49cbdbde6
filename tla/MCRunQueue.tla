----------------------------- MODULE MCRunQueue -----------------------------
(* Two CPUs and four processes: queues of up to four, so that stealing,    *)
(* removal from the front, the middle and the end, and emptying all occur. *)
EXTENDS RunQueueSpec
=============================================================================
