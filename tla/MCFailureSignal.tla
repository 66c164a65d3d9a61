-------------------------- MODULE MCFailureSignal --------------------------
(* Constants for model checking FailureSignal: three of the signals. *)
EXTENDS FailureSignal

CONSTANTS SIGSEGV, SIGTERM, t1, t2, t3

McSignals == <<SIGSEGV, SIGABRT, SIGTERM>>

=============================================================================
