------------------------------ MODULE MCSinks ------------------------------
(* Constants for model checking Sinks. *)
EXTENDS Sinks

CONSTANTS main_thread, other, writer_thread

WaitingOrMockOrBoth == {{"waiting"}, {"mock"}, {"waiting", "mock"}}

=============================================================================
