------------------------------ MODULE AgentRpc ------------------------------
(***************************************************************************)
(* One agent and the controllers that use it: AgentService::RunTask        *)
(* (dtest/src/agent_service.cpp), GrpcExecutor::run on the other end of    *)
(* the wire (dtest/src/grpc_executor.cpp), and what the scheduler's worker *)
(* makes of the answer.  AgentProgram puts the agent's life around it.  A  *)
(* handler runs to its end even if the controller has stopped waiting:     *)
(* nothing in RunTask looks at a cancellation.                             *)
(***************************************************************************)
EXTENDS Naturals, FiniteSets

CONSTANTS
  Slots,        \* opts_.slots of the agent
  Controllers,  \* dtest-ctl runs using it at the same time
  Believed,     \* per controller, the slots it believes the agent has
  Rpcs          \* Bound: the RPCs in the agent at a time

NoRpc == "none"

ASSUME AgentRpcAssumption ==
  /\ Slots \in Nat \ {0} /\ IsFiniteSet(Controllers)
  /\ IsFiniteSet(Rpcs) /\ NoRpc \notin Rpcs
  /\ Believed \in [Controllers -> Nat]

(* The scheduler's worker threads for this agent. *)
Workers == UNION {{<<c, i>> : i \in 1..Believed[c]} : c \in Controllers}

VARIABLES
  running,  \* running_
  handler,  \* per RPC, where its handler is in RunTask
  reply,    \* per RPC, the status and outcome it answers with
  rpc,      \* per worker, the RPC it waits for
  res,      \* per worker, the AttemptStatus run() has returned
  alive,    \* per controller, whether it uses this agent: alive_ of the scheduler
  truth     \* per worker, how the attempt it waits for really ended in the agent

rpcVars == <<running, handler, reply, rpc, res, alive, truth>>

(* INVALID_ARGUMENT is handled as PERMISSION_DENIED is, and SIGNALED and   *)
(* LAUNCH_FAILED as a non-zero exit status is.                             *)
Refusals == {"UNAUTHENTICATED", "PERMISSION_DENIED"}
Outcomes == {"EXITED 0", "EXITED 1", "TIMED_OUT"}
NoReply  == "pending"

RpcInit ==
  /\ running = 0
  /\ handler = [r \in Rpcs |-> "free"]
  /\ reply = [r \in Rpcs |-> NoReply]
  /\ rpc = [w \in Workers |-> NoRpc]
  /\ res = [w \in Workers |-> "none"]
  /\ alive = [c \in Controllers |-> FALSE]
  /\ truth = [w \in Workers |-> "nothing"]

-----------------------------------------------------------------------------
Idle(w) == rpc[w] = NoRpc /\ res[w] = "none"

(* A worker calls Executor::run and the call reaches the agent. *)
run(w, r) ==
  /\ alive[w[1]] /\ Idle(w)
  /\ handler[r] = "free"
  /\ handler' = [handler EXCEPT ![r] = "arrived"]
  /\ rpc' = [rpc EXCEPT ![w] = r]
  /\ UNCHANGED <<running, reply, res, alive, truth>>

Waited(r) == \E w \in Workers : rpc[w] = r

(* The handler returns; an answer nobody waits for is dropped. *)
Answered(r, code) ==
  /\ handler' = [handler EXCEPT ![r] = IF Waited(r) THEN "answered" ELSE "free"]
  /\ reply' = [reply EXCEPT ![r] = IF Waited(r) THEN code ELSE NoReply]

(* What whoever waits for this call should be told. *)
Happened(r, what) == truth' = [w \in Workers |-> IF rpc[w] = r THEN what ELSE truth[w]]

refuse(r) ==
  /\ handler[r] = "arrived"
  /\ \E s \in Refusals : Answered(r, s)
  /\ Happened(r, "declined")
  /\ UNCHANGED <<running, rpc, res, alive>>

(* Mutant: off by one. *)
fetch_add_off(r) ==
  /\ handler[r] = "arrived"
  /\ running' = running + 1
  /\ handler' = [handler EXCEPT ![r] = IF running > Slots THEN "excess" ELSE "process"]
  /\ UNCHANGED <<reply, rpc, res, alive, truth>>

(* running_.fetch_add(1) >= slots, in one atomic operation. *)
fetch_add(r) ==
  /\ handler[r] = "arrived"
  /\ running' = running + 1
  /\ handler' = [handler EXCEPT ![r] = IF running >= Slots THEN "excess" ELSE "process"]
  /\ UNCHANGED <<reply, rpc, res, alive, truth>>

(* Mutant: the refused handler does not take its increment back. *)
excess_kept(r) ==
  /\ handler[r] = "excess"
  /\ Answered(r, "RESOURCE_EXHAUSTED")
  /\ Happened(r, "declined")
  /\ UNCHANGED <<running, rpc, res, alive>>

excess(r) ==
  /\ handler[r] = "excess"
  /\ running' = running - 1
  /\ Answered(r, "RESOURCE_EXHAUSTED")
  /\ Happened(r, "declined")
  /\ UNCHANGED <<rpc, res, alive>>

run_process(r) ==
  /\ handler[r] = "process"
  /\ handler' = [handler EXCEPT ![r] = "done"]
  /\ \E o \in Outcomes :
       /\ reply' = [reply EXCEPT ![r] = IF Waited(r) THEN o ELSE NoReply]
       /\ Happened(r, o)
  /\ UNCHANGED <<running, rpc, res, alive>>

(* Mutant: only a handler somebody waits for gives its slot back. *)
fetch_sub_if_waited(r) ==
  /\ handler[r] = "done" /\ Waited(r)
  /\ running' = running - 1
  /\ Answered(r, reply[r])
  /\ UNCHANGED <<rpc, res, alive, truth>>

fetch_sub(r) ==
  /\ handler[r] = "done"
  /\ running' = running - 1
  /\ Answered(r, reply[r])
  /\ UNCHANGED <<rpc, res, alive, truth>>

-----------------------------------------------------------------------------
(* Mutant: a deadline is taken for a test that timed out. *)
attempt_status_lenient(code) ==
  CASE code = "DEADLINE_EXCEEDED" -> "TimedOut"
    [] code \in {"UNAVAILABLE", "UNAUTHENTICATED", "CANCELLED"} -> "AgentError"
    [] code = "EXITED 0"  -> "Passed"
    [] code = "TIMED_OUT" -> "TimedOut"
    [] OTHER              -> "Failed"

(* The two switches at the end of GrpcExecutor::run.  UNAVAILABLE and      *)
(* CANCELLED stand for every status the transport produces by itself.      *)
attempt_status(code) ==
  CASE code \in {"UNAVAILABLE", "DEADLINE_EXCEEDED", "UNAUTHENTICATED", "CANCELLED"} -> "AgentError"
    [] code = "EXITED 0"  -> "Passed"
    [] code = "TIMED_OUT" -> "TimedOut"
    [] OTHER              -> "Failed"

Returns(w, code) ==
  /\ rpc' = [rpc EXCEPT ![w] = NoRpc]
  /\ res' = [res EXCEPT ![w] = attempt_status(code)]

Free(r) ==
  handler' = [handler EXCEPT ![r] = "free"] /\ reply' = [reply EXCEPT ![r] = NoReply]

(* The answer reaches the controller. *)
answer(w) ==
  LET r == rpc[w] IN
  /\ r # NoRpc /\ handler[r] = "answered"
  /\ Returns(w, reply[r])
  /\ Free(r)
  /\ UNCHANGED <<running, alive, truth>>

(* The deadline fires or the connection breaks: the handler does not know, *)
(* and its answer, on the way or to come, is lost.                         *)
give_up(w, code) ==
  LET r == rpc[w] IN
  /\ r # NoRpc
  /\ Returns(w, code)
  /\ truth' = [truth EXCEPT ![w] = "nothing"]
  /\ handler' = [handler EXCEPT ![r] = IF @ = "answered" THEN "free" ELSE @]
  /\ reply' = [reply EXCEPT ![r] = NoReply]
  /\ UNCHANGED <<running, alive>>

(* The worker records the attempt; an AgentError retires the agent. *)
record(w) ==
  /\ res[w] # "none"
  /\ res' = [res EXCEPT ![w] = "none"]
  /\ alive' = [alive EXCEPT ![w[1]] = @ /\ res[w] # "AgentError"]
  /\ truth' = [truth EXCEPT ![w] = "nothing"]
  /\ UNCHANGED <<running, handler, reply, rpc>>

RunTask(r) ==
  refuse(r) \/ fetch_add(r) \/ excess(r) \/ run_process(r) \/ fetch_sub(r)

Executor(w) ==
  \/ answer(w) \/ record(w)
  \/ \E code \in {"DEADLINE_EXCEEDED", "UNAVAILABLE"} : give_up(w, code)

-----------------------------------------------------------------------------
(* Properties.                                                             *)

In(place) == {r \in Rpcs : handler[r] \in place}

(* running_ counts the handlers between their fetch_add and their          *)
(* fetch_sub: no path loses a slot or gives one back twice, so that an     *)
(* unsigned that three places change never wraps.                          *)
CountExact == running = Cardinality(In({"excess", "process", "done"}))

(* The agent never runs more than `slots' commands at once, whatever the   *)
(* controllers believe.  The commands a killed agent left behind run       *)
(* beside those of the next one and are not counted by anybody.            *)
LimitHeld == Cardinality(In({"process"})) <= Slots

(* What an attempt is recorded as is what its own command did: a pass, a   *)
(* timeout or a failure was answered by the handler of this very call      *)
(* (or, for a failure, the agent declined to run it), and whenever the     *)
(* answer is missing, because of a deadline, a broken connection, a crash  *)
(* or a shutdown, it is an AgentError, which costs the task none of its    *)
(* retries.                                                                *)
AttemptHonest ==
  \A w \in Workers :
    CASE res[w] = "Passed"   -> truth[w] = "EXITED 0"
      [] res[w] = "TimedOut" -> truth[w] = "TIMED_OUT"
      [] res[w] = "Failed"   -> truth[w] \in {"EXITED 1", "declined"}
      [] OTHER               -> TRUE

(* Slots come back: every admitted command ends and frees its slot, even   *)
(* if the controller is long gone.                                         *)
SlotsComeBack == \A r \in Rpcs : handler[r] = "process" ~> handler[r] = "free"
=============================================================================
