---------------------------- MODULE MCLifecycle ----------------------------
(* A small process table.                                                  *)
EXTENDS Lifecycle
=============================================================================
