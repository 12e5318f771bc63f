---------------------------- MODULE AgentProgram ----------------------------
(***************************************************************************)
(* dtest-agent from start to exit (dtest/src/agent_main.cpp), around the   *)
(* service of AgentRpc: it refuses to start, serves, is stopped by a       *)
(* signal or killed, and is started again, while controllers come and go.  *)
(* The gRPC server behind it is external: BuildAndStart accepts calls at   *)
(* once, and Shutdown turns new calls away, cancels the pending ones after *)
(* two seconds and returns when the last handler has.                      *)
(***************************************************************************)
EXTENDS AgentRpc

VARIABLES
  phase,      \* "down", "starting", "serving", "stopping"
  g_stop,
  cancelled,  \* has Shutdown's deadline passed?
  ended,      \* how the last run of the program ended: an exit status or "killed"
  left        \* how many commands it left running

progVars == <<phase, g_stop, cancelled, ended, left>>
vars == <<rpcVars, progVars>>

Init ==
  /\ RpcInit
  /\ phase = "down" /\ g_stop = FALSE /\ cancelled = FALSE /\ ended = "never" /\ left = 0

Accepting == phase \in {"starting", "serving"}

-----------------------------------------------------------------------------
(* Command lines by kind: a bad option, neither token nor --no-auth, both, *)
(* neither --allow nor --allow-any.  A port may be taken.  The service is  *)
(* new: its count starts at 0.                                             *)
Refuses == {"usage error", "no authentication", "contradictory", "no policy"}

start(kind) ==
  /\ phase = "down"
  /\ \/ kind \in Refuses /\ ended' = "2" /\ UNCHANGED <<phase, running>>
     \/ kind = "help" /\ ended' = "0" /\ UNCHANGED <<phase, running>>
     \/ kind = "port taken" /\ ended' = "1" /\ UNCHANGED <<phase, running>>
     \/ kind = "listening" /\ phase' = "starting" /\ running' = 0 /\ ended' = "not yet"
  /\ left' = 0 /\ g_stop' = FALSE /\ cancelled' = FALSE
  /\ UNCHANGED <<handler, reply, rpc, res, alive, truth>>

(* The last thing before the loop, after the port was announced. *)
install_handlers ==
  /\ phase = "starting" /\ phase' = "serving"
  /\ UNCHANGED <<rpcVars, g_stop, cancelled, ended, left>>

on_signal ==
  /\ phase \in {"serving", "stopping"} /\ g_stop' = TRUE
  /\ UNCHANGED <<rpcVars, phase, cancelled, ended, left>>

(* Mutant: the loop waits until the agent is idle. *)
Shutdown_when_idle ==
  /\ phase = "serving" /\ g_stop /\ phase' = "stopping"
  /\ \A r \in Rpcs : handler[r] = "free"
  /\ UNCHANGED <<rpcVars, g_stop, cancelled, ended, left>>

(* The loop sees g_stop. *)
Shutdown ==
  /\ phase = "serving" /\ g_stop /\ phase' = "stopping"
  /\ UNCHANGED <<rpcVars, g_stop, cancelled, ended, left>>

(* Everybody who waits for an answer gets this status instead. *)
Broken(code) ==
  /\ rpc' = [w \in Workers |-> NoRpc]
  /\ res' = [w \in Workers |-> IF rpc[w] = NoRpc THEN res[w] ELSE attempt_status(code)]
  /\ truth' = [w \in Workers |-> IF rpc[w] = NoRpc THEN truth[w] ELSE "nothing"]

(* Two seconds later; the handlers do not notice. *)
cancel ==
  /\ phase = "stopping" /\ ~cancelled /\ cancelled' = TRUE
  /\ Broken("CANCELLED")
  /\ handler' = [r \in Rpcs |-> IF handler[r] = "answered" THEN "free" ELSE handler[r]]
  /\ reply' = [r \in Rpcs |-> NoReply]
  /\ UNCHANGED <<running, alive, phase, g_stop, ended, left>>

(* Mutant: the program ends when the two seconds are over. *)
stopped_at_deadline ==
  /\ phase = "stopping" /\ cancelled
  /\ phase' = "down" /\ ended' = "0" /\ left' = Cardinality(In({"process"}))
  /\ handler' = [r \in Rpcs |-> "free"] /\ reply' = [r \in Rpcs |-> NoReply] /\ running' = 0
  /\ UNCHANGED <<rpc, res, alive, truth, g_stop, cancelled>>

(* Shutdown returns and so does main. *)
stopped ==
  /\ phase = "stopping" /\ \A r \in Rpcs : handler[r] = "free"
  /\ phase' = "down" /\ ended' = "0" /\ left' = Cardinality(In({"process"}))
  /\ UNCHANGED <<rpcVars, g_stop, cancelled>>

(* SIGKILL, a crash, or SIGTERM before the handler is installed: the       *)
(* process and its connections are gone, but not the commands, which have  *)
(* process groups of their own.                                            *)
killed ==
  /\ phase # "down"
  /\ phase' = "down" /\ ended' = "killed" /\ left' = Cardinality(In({"process"}))
  /\ handler' = [r \in Rpcs |-> "free"] /\ reply' = [r \in Rpcs |-> NoReply] /\ running' = 0
  /\ Broken("UNAVAILABLE")
  /\ UNCHANGED <<alive, g_stop, cancelled>>

-----------------------------------------------------------------------------
(* A dtest-ctl run asks the agent for its slots and starts to use it. *)
connect(c) ==
  /\ Accepting /\ ~alive[c] /\ \A w \in Workers : w[1] = c => Idle(w)
  /\ alive' = [alive EXCEPT ![c] = TRUE]
  /\ UNCHANGED <<running, handler, reply, rpc, res, truth, progVars>>

(* A call to an agent that is down or stopping fails at once. *)
run_unreachable(w) ==
  /\ ~Accepting /\ alive[w[1]] /\ Idle(w)
  /\ res' = [res EXCEPT ![w] = attempt_status("UNAVAILABLE")]
  /\ UNCHANGED <<running, handler, reply, rpc, alive, truth, progVars>>

Call(w) ==
  \/ run_unreachable(w)
  \/ Accepting /\ (\E r \in Rpcs : run(w, r)) /\ UNCHANGED progVars

main ==
  \/ \E kind \in Refuses \cup {"help", "port taken", "listening"} : start(kind)
  \/ install_handlers \/ Shutdown

Serve(r) == RunTask(r) /\ UNCHANGED progVars
Wait(w)  == Executor(w) /\ UNCHANGED progVars

Next ==
  \/ main \/ cancel \/ stopped \/ on_signal \/ killed
  \/ \E c \in Controllers : connect(c)
  \/ \E w \in Workers : Call(w) \/ Wait(w)
  \/ \E r \in Rpcs : Serve(r)

Spec == Init /\ [][Next]_vars

(* Handler threads run and run_process returns (Process, CallsReturn), the *)
(* RPC deadline ends every wait, and the loop looks at g_stop.  Nobody has *)
(* to start or to signal the agent.                                        *)
FairSpec ==
  /\ Spec
  /\ \A r \in Rpcs : WF_vars(Serve(r))
  /\ \A w \in Workers : WF_vars(Wait(w))
  /\ WF_vars(install_handlers) /\ WF_vars(Shutdown) /\ WF_vars(cancel) /\ WF_vars(stopped)

-----------------------------------------------------------------------------
(* Properties.                                                             *)

(* An agent that was asked to stop leaves nothing behind: when it has      *)
(* exited with 0, every command it admitted is over and its controllers    *)
(* have been told something.  Commands survive a killed agent only, or one *)
(* that is signalled before it has installed its handler.                  *)
StopLeavesNothing ==
  phase = "down" =>
    /\ left > 0 => ended = "killed"
    /\ \A r \in Rpcs : handler[r] = "free"
    /\ \A w \in Workers : rpc[w] = NoRpc

(* SIGTERM is enough: an agent that has seen it exits, however busy its    *)
(* controllers keep it, once the running commands have ended.              *)
StopEnds == g_stop /\ phase # "down" ~> phase = "down"
=============================================================================
