------------------------------ MODULE MCValdev ------------------------------
(* An instance of the device for TLC.  A buffer of two bytes has a first   *)
(* byte, a last byte, a hole and an end; pread and pwrite are given a      *)
(* position inside it and one beyond.                                      *)
EXTENDS Valdev

BackAndForth == {-1, 1}

AllCalls == {"open", "read", "write", "pread", "pwrite", "add", "reset", "stats", "llseek"}
=============================================================================
