---------------------------- MODULE MCScheduler ----------------------------
(* Instances of the scheduler for TLC: fleets of two or three agents, two  *)
(* or three tasks.                                                         *)
EXTENDS Scheduler

TwoAgents   == {"A", "B"}
ThreeAgents == {"A", "B", "C"}

Kvm     == Label("kvm", "true")
BareKvm == Label("kvm", NoValue)

KvmOnA       == [a \in Agents |-> IF a = "A" THEN {Kvm} ELSE {}]
KvmExceptOnC == [a \in Agents |-> IF a = "C" THEN {} ELSE {Kvm}]

(* An agent that reports no slots gets one. *)
TwoSlotsOnA == [a \in Agents |-> CASE a = "A" -> 2 [] a = "B" -> 1 [] a = "C" -> 0]

(* Task 1 asks for kvm in some form, task 2 for nothing, task 3 for a      *)
(* label that no agent has.                                                *)
MixedNeeds == [t \in Tasks |-> CASE t = 1 -> {BareKvm}
                                 [] t = 2 -> {}
                                 [] t = 3 -> {Kvm, Label("sev", "snp")}]

RetryFirstTask == [t \in Tasks |-> IF t = 1 THEN 1 ELSE 0]
RetryAll       == [t \in Tasks |-> 1]
=============================================================================
