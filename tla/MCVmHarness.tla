----------------------------- MODULE MCVmHarness ----------------------------
(* An instance of the harness for TLC.  The nine test cases come in six    *)
(* kinds; their order is the one of build_tests.  The filters: "s", which  *)
(* lets through everything but the first test case, "boot", "lifecycle",   *)
(* and one that matches nothing.                                           *)
EXTENDS VmHarness

AllKinds == <<"ping", "pause", "exec", "exit_code", "shutdown", "soak">>
Suites   == <<"lifecycle", "lifecycle", "guest", "guest", "lifecycle", "stress">>
SomeFilters == {2..6, {1, 6}, {1, 2, 5}, {}}
SomeIterations == {0, 2}
=============================================================================
