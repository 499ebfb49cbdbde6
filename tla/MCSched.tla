------------------------------ MODULE MCSched ------------------------------
(* The scheduler on one and on two CPUs.                                    *)
EXTENDS Sched
=============================================================================
