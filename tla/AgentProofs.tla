---------------------------- MODULE AgentProofs -----------------------------
(***************************************************************************)
(* Proofs about the agent, for any number of slots, of controllers and of  *)
(* calls in the agent at a time, with crashes and restarts at any moment.  *)
(***************************************************************************)
EXTENDS AgentProgram, FiniteSetTheorems, TLAPS

Places   == {"free", "arrived", "excess", "process", "done", "answered"}
Declined == Refusals \cup {"RESOURCE_EXHAUSTED"}
Statuses == {"none", "Passed", "Failed", "TimedOut", "AgentError"}

(* The types of the shared state; running_ has its own invariant. *)
AgentTypeOK ==
  /\ handler \in [Rpcs -> Places]
  /\ reply \in [Rpcs -> Outcomes \cup Declined \cup {NoReply}]
  /\ rpc \in [Workers -> Rpcs \cup {NoRpc}]
  /\ res \in [Workers -> Statuses]
  /\ alive \in [Controllers -> BOOLEAN]
  /\ truth \in [Workers -> Outcomes \cup {"nothing", "declined"}]
  /\ phase \in {"down", "starting", "serving", "stopping"}

(* Two workers never wait for the same call, a call somebody waits for is  *)
(* in the agent or answered, and who has a result waits for nothing.       *)
WaitsExclusive ==
  /\ \A v, w \in Workers : rpc[v] = rpc[w] /\ rpc[v] # NoRpc => v = w
  /\ \A w \in Workers : rpc[w] # NoRpc => handler[rpc[w]] # "free" /\ res[w] = "none"

(* The answer to a call somebody waits for is how its command ended. *)
ReplyTrue ==
  \A w \in Workers : rpc[w] # NoRpc =>
    LET r == rpc[w] IN
    /\ handler[r] = "done" => reply[r] \in Outcomes /\ reply[r] = truth[w]
    /\ handler[r] = "answered" => \/ reply[r] \in Outcomes /\ reply[r] = truth[w]
                                  \/ reply[r] \in Declined /\ truth[w] = "declined"

AgentInv ==
  /\ AgentTypeOK /\ CountExact /\ LimitHeld
  /\ WaitsExclusive /\ ReplyTrue /\ AttemptHonest /\ StopLeavesNothing

-----------------------------------------------------------------------------
(* Facts about the operators.                                              *)

(* The set of calls at some places of RunTask is finite. *)
LEMMA InFinite == ASSUME NEW P PROVE IsFiniteSet(In(P)) /\ Cardinality(In(P)) \in Nat
BY AgentRpcAssumption, FS_Subset, FS_CardinalityType DEF In, AgentRpcAssumption

(* A worker belongs to a controller. *)
LEMMA WorkerController == ASSUME NEW w \in Workers PROVE w[1] \in Controllers
BY DEF Workers

(* What the executor makes of each answer. *)
LEMMA StatusOf ==
  /\ \A o \in Outcomes \cup Declined : attempt_status(o) \in Statuses \ {"none"}
  /\ \A o \in Outcomes : /\ attempt_status(o) = "Passed" => o = "EXITED 0"
                         /\ attempt_status(o) = "TimedOut" => o = "TIMED_OUT"
                         /\ attempt_status(o) = "Failed" => o = "EXITED 1"
  /\ \A o \in Declined : attempt_status(o) \in {"Failed", "AgentError"}
  /\ \A o \in {"UNAVAILABLE", "DEADLINE_EXCEEDED", "CANCELLED"} : attempt_status(o) = "AgentError"
BY DEF attempt_status, Outcomes, Declined, Refusals, Statuses

(* One call moves from place to place: how the sets of calls change.       *)
LEMMA Move ==
  ASSUME handler \in [Rpcs -> Places], NEW r \in Rpcs, NEW x \in Places, NEW P,
         handler' = [handler EXCEPT ![r] = x]
  PROVE  /\ handler[r] \in P /\ x \in P => In(P)' = In(P)
         /\ handler[r] \notin P /\ x \notin P => In(P)' = In(P)
         /\ handler[r] \notin P /\ x \in P =>
              Cardinality(In(P)') = Cardinality(In(P)) + 1
         /\ handler[r] \in P /\ x \notin P =>
              Cardinality(In(P)') = Cardinality(In(P)) - 1
<1>1. \A q \in Rpcs : handler'[q] = IF q = r THEN x ELSE handler[q]
  OBVIOUS
<1>2. handler[r] \in P /\ x \in P => In(P)' = In(P)
  BY <1>1 DEF In
<1>3. handler[r] \notin P /\ x \notin P => In(P)' = In(P)
  BY <1>1 DEF In
<1>4. ASSUME handler[r] \notin P, x \in P
      PROVE  Cardinality(In(P)') = Cardinality(In(P)) + 1
  <2>1. In(P)' = In(P) \cup {r} /\ r \notin In(P)
    BY <1>1, <1>4 DEF In
  <2> QED BY <2>1, InFinite, FS_AddElement
<1>5. ASSUME handler[r] \in P, x \notin P
      PROVE  Cardinality(In(P)') = Cardinality(In(P)) - 1
  <2>1. In(P)' = In(P) \ {r} /\ r \in In(P)
    BY <1>1, <1>5 DEF In
  <2> QED BY <2>1, InFinite, FS_RemoveElement
<1> QED BY <1>2, <1>3, <1>4, <1>5

(* No call is anywhere once all of them are free. *)
LEMMA NoneIn ==
  ASSUME NEW P, "free" \notin P, \A r \in Rpcs : handler[r] = "free"
  PROVE  Cardinality(In(P)) = 0
<1>1. In(P) = {}
  BY DEF In
<1> QED BY <1>1, FS_EmptySet

-----------------------------------------------------------------------------
(* The invariant.                                                          *)

(* Before the first start nothing is there. *)
LEMMA AgentInit == Init => AgentInv
<1> SUFFICES ASSUME Init PROVE AgentInv
  OBVIOUS
<1>1. \A r \in Rpcs : handler[r] = "free"
  BY DEF Init, RpcInit
<1>2. AgentTypeOK /\ WaitsExclusive /\ ReplyTrue /\ AttemptHonest
  BY DEF Init, RpcInit, AgentTypeOK, WaitsExclusive, ReplyTrue, AttemptHonest, Places, Statuses, NoRpc
<1>3. CountExact /\ LimitHeld
  BY <1>1, NoneIn, AgentRpcAssumption DEF Init, RpcInit, CountExact, LimitHeld, AgentRpcAssumption
<1>4. StopLeavesNothing
  BY <1>1 DEF Init, RpcInit, StopLeavesNothing
<1> QED BY <1>2, <1>3, <1>4 DEF AgentInv

(* AttemptHonest without its CASE, as the proofs use it. *)
Honest1(w) ==
  /\ res[w] = "Passed" => truth[w] = "EXITED 0"
  /\ res[w] = "TimedOut" => truth[w] = "TIMED_OUT"
  /\ res[w] = "Failed" => truth[w] \in {"EXITED 1", "declined"}

(* The two forms agree. *)
LEMMA HonestIs == AttemptHonest <=> \A w \in Workers : Honest1(w)
BY DEF AttemptHonest, Honest1

(* RunTask: the steps of a handler. *)
LEMMA ServeStep ==
  ASSUME AgentInv, NEW r \in Rpcs, Serve(r)
  PROVE  AgentInv'
<1>0. AgentTypeOK /\ CountExact /\ LimitHeld /\ WaitsExclusive /\ ReplyTrue
      /\ StopLeavesNothing /\ (\A w \in Workers : Honest1(w))
  BY HonestIs DEF AgentInv
<1>1. UNCHANGED <<rpc, res, alive, progVars>> /\ RunTask(r)
  BY DEF Serve, RunTask, refuse, fetch_add, excess, run_process, fetch_sub
<1>2. handler[r] # "free" /\ phase # "down"
  BY <1>0, <1>1 DEF RunTask, refuse, fetch_add, excess, run_process, fetch_sub, StopLeavesNothing
<1>3. StopLeavesNothing'
  BY <1>0, <1>1, <1>2 DEF StopLeavesNothing, progVars
<1>4. (\A w \in Workers : truth'[w] = truth[w] \/ rpc[w] = r) /\ AgentTypeOK'
  <2>1. CASE refuse(r)
    BY <1>0, <1>1, <2>1 DEF refuse, Answered, Happened, AgentTypeOK, Places, Declined, progVars
  <2>2. CASE fetch_add(r)
    BY <1>0, <1>1, <2>2 DEF fetch_add, AgentTypeOK, Places, progVars
  <2>3. CASE excess(r)
    BY <1>0, <1>1, <2>3 DEF excess, Answered, Happened, AgentTypeOK, Places, Declined, progVars
  <2>4. CASE run_process(r)
    BY <1>0, <1>1, <2>4 DEF run_process, Happened, AgentTypeOK, Places, progVars
  <2>5. CASE fetch_sub(r)
    BY <1>0, <1>1, <2>5 DEF fetch_sub, Answered, AgentTypeOK, Places, progVars
  <2> QED BY <1>1, <2>1, <2>2, <2>3, <2>4, <2>5 DEF RunTask
<1>5. AttemptHonest'
  <2>1. \A w \in Workers : Honest1(w)'
    BY <1>0, <1>1, <1>4, AgentRpcAssumption DEF WaitsExclusive, Honest1, AgentRpcAssumption
  <2> QED BY <2>1 DEF AttemptHonest, Honest1
<1>6. CountExact' /\ LimitHeld'
  <2> DEFINE C == {"excess", "process", "done"}
             P == {"process"}
  <2>1. running = Cardinality(In(C)) /\ Cardinality(In(P)) <= Slots
    BY <1>0 DEF CountExact, LimitHeld
  <2>2. Cardinality(In(C)) \in Nat /\ Cardinality(In(P)) \in Nat /\ Slots \in Nat
    BY InFinite, AgentRpcAssumption DEF AgentRpcAssumption
  <2>3. Cardinality(In(P)) <= Cardinality(In(C))
    BY InFinite, FS_Subset DEF In
  <2>4. PICK x \in Places : handler' = [handler EXCEPT ![r] = x]
    BY <1>1 DEF RunTask, refuse, fetch_add, excess, run_process, fetch_sub, Answered, Places
  <2>5. x = handler'[r]
    BY <1>0, <2>4 DEF AgentTypeOK
  <2>6. /\ handler[r] \in C /\ x \in C => In(C)' = In(C)
        /\ handler[r] \notin C /\ x \notin C => In(C)' = In(C)
        /\ handler[r] \notin C /\ x \in C => Cardinality(In(C)') = Cardinality(In(C)) + 1
        /\ handler[r] \in C /\ x \notin C => Cardinality(In(C)') = Cardinality(In(C)) - 1
    BY <1>0, <2>4, Move DEF AgentTypeOK
  <2>7. /\ handler[r] \notin P /\ x \notin P => In(P)' = In(P)
        /\ handler[r] \notin P /\ x \in P => Cardinality(In(P)') = Cardinality(In(P)) + 1
        /\ handler[r] \in P /\ x \notin P => Cardinality(In(P)') = Cardinality(In(P)) - 1
    BY <1>0, <2>4, Move DEF AgentTypeOK
  <2>8. running' = Cardinality(In(C)') /\ Cardinality(In(P)') <= Slots
    <3> HIDE DEF C, P
    <3>1. CASE refuse(r)
      <4>1. handler[r] = "arrived" /\ x \in {"answered", "free"} /\ running' = running
        BY <1>0, <2>5, <3>1 DEF refuse, Answered, AgentTypeOK
      <4> QED BY <2>1, <2>6, <2>7, <4>1 DEF C, P
    <3>2. CASE fetch_add(r)
      <4>1. handler[r] = "arrived" /\ running' = running + 1
            /\ x = (IF running >= Slots THEN "excess" ELSE "process")
        BY <1>0, <2>5, <3>2 DEF fetch_add, AgentTypeOK
      <4> QED BY <2>1, <2>2, <2>3, <2>6, <2>7, <4>1 DEF C, P
    <3>3. CASE excess(r)
      <4>1. handler[r] = "excess" /\ x \in {"answered", "free"} /\ running' = running - 1
        BY <1>0, <2>5, <3>3 DEF excess, Answered, AgentTypeOK
      <4> QED BY <2>1, <2>6, <2>7, <4>1 DEF C, P
    <3>4. CASE run_process(r)
      <4>1. handler[r] = "process" /\ x = "done" /\ running' = running
        BY <1>0, <2>5, <3>4 DEF run_process, AgentTypeOK
      <4> QED BY <2>1, <2>2, <2>6, <2>7, <4>1 DEF C, P
    <3>5. CASE fetch_sub(r)
      <4>1. handler[r] = "done" /\ x \in {"answered", "free"} /\ running' = running - 1
        BY <1>0, <2>5, <3>5 DEF fetch_sub, Answered, AgentTypeOK
      <4> QED BY <2>1, <2>6, <2>7, <4>1 DEF C, P
    <3> QED BY <1>1, <3>1, <3>2, <3>3, <3>4, <3>5 DEF RunTask
  <2> QED BY <2>8 DEF CountExact, LimitHeld
<1>7. WaitsExclusive' /\ ReplyTrue'
  <2>1. \A w \in Workers : rpc[w] # r /\ rpc[w] # NoRpc =>
          handler'[rpc[w]] = handler[rpc[w]] /\ reply'[rpc[w]] = reply[rpc[w]] /\ truth'[w] = truth[w]
    BY <1>0, <1>1, <1>4 DEF RunTask, refuse, fetch_add, excess, run_process, fetch_sub, Answered, AgentTypeOK
  <2>2. ASSUME NEW w \in Workers, rpc[w] = r
        PROVE  /\ handler'[r] # "free"
               /\ handler'[r] = "done" => reply'[r] \in Outcomes /\ reply'[r] = truth'[w]
               /\ handler'[r] = "answered" => \/ reply'[r] \in Outcomes /\ reply'[r] = truth'[w]
                                              \/ reply'[r] \in Declined /\ truth'[w] = "declined"
    <3>0. Waited(r)
      BY <2>2 DEF Waited
    <3>1. CASE refuse(r)
      BY <1>0, <2>2, <3>0, <3>1 DEF refuse, Answered, Happened, AgentTypeOK, Declined
    <3>2. CASE fetch_add(r)
      BY <1>0, <2>2, <3>0, <3>2 DEF fetch_add, AgentTypeOK
    <3>3. CASE excess(r)
      BY <1>0, <2>2, <3>0, <3>3 DEF excess, Answered, Happened, AgentTypeOK, Declined
    <3>4. CASE run_process(r)
      BY <1>0, <2>2, <3>0, <3>4 DEF run_process, Happened, AgentTypeOK
    <3>5. CASE fetch_sub(r)
      BY <1>0, <2>2, <3>0, <3>5, AgentRpcAssumption
         DEF fetch_sub, Answered, AgentTypeOK, ReplyTrue, AgentRpcAssumption
    <3> QED BY <1>1, <3>1, <3>2, <3>3, <3>4, <3>5 DEF RunTask
  <2>3. WaitsExclusive'
    BY <1>0, <1>1, <2>1, <2>2 DEF WaitsExclusive
  <2>4. ReplyTrue'
    BY <1>0, <1>1, <2>1, <2>2 DEF ReplyTrue
  <2> QED BY <2>3, <2>4
<1> QED BY <1>3, <1>4, <1>5, <1>6, <1>7 DEF AgentInv

(* The executor: an answer, a deadline or a broken connection, the record. *)
LEMMA WaitStep ==
  ASSUME AgentInv, NEW w \in Workers, Wait(w)
  PROVE  AgentInv'
<1>0. AgentTypeOK /\ CountExact /\ LimitHeld /\ WaitsExclusive /\ ReplyTrue
      /\ StopLeavesNothing /\ (\A v \in Workers : Honest1(v)) /\ NoRpc \notin Rpcs
  BY HonestIs, AgentRpcAssumption DEF AgentInv, AgentRpcAssumption
<1>1. UNCHANGED <<running, progVars>> /\ Executor(w)
  BY DEF Wait, Executor, answer, give_up, record
<1>2. ASSUME NEW r \in Rpcs, NEW x \in {"free", handler[r]}, handler[r] = "answered" \/ x = handler[r],
             handler' = [handler EXCEPT ![r] = x]
      PROVE  CountExact' /\ LimitHeld'
  <2>1. In({"excess", "process", "done"})' = In({"excess", "process", "done"})
        /\ In({"process"})' = In({"process"})
    BY <1>0, <1>2 DEF AgentTypeOK, In
  <2> QED BY <1>0, <1>1, <2>1 DEF CountExact, LimitHeld
<1>3. CASE answer(w)
  <2> DEFINE r == rpc[w]
  <2>1. /\ r \in Rpcs /\ handler[r] = "answered"
        /\ rpc' = [rpc EXCEPT ![w] = NoRpc] /\ res' = [res EXCEPT ![w] = attempt_status(reply[r])]
        /\ handler' = [handler EXCEPT ![r] = "free"] /\ reply' = [reply EXCEPT ![r] = NoReply]
        /\ UNCHANGED <<alive, truth>>
    BY <1>0, <1>3 DEF answer, Returns, Free, AgentTypeOK
  <2>2. \/ reply[r] \in Outcomes /\ reply[r] = truth[w]
        \/ reply[r] \in Declined /\ truth[w] = "declined"
    BY <1>0, <2>1 DEF ReplyTrue
  <2>3. Honest1(w)'
    BY <1>0, <2>1, <2>2, StatusOf DEF Honest1, AgentTypeOK, Outcomes
  <2>4. AgentTypeOK'
    BY <1>0, <1>1, <2>1, <2>2, StatusOf DEF AgentTypeOK, Places, progVars
  <2>5. AttemptHonest'
    <3>1. \A v \in Workers : Honest1(v)'
      BY <1>0, <2>1, <2>3 DEF Honest1, AgentTypeOK
    <3> QED BY <3>1 DEF AttemptHonest, Honest1
  <2>6. WaitsExclusive' /\ ReplyTrue'
    BY <1>0, <2>1 DEF WaitsExclusive, ReplyTrue, AgentTypeOK
  <2>7. StopLeavesNothing'
    BY <1>0, <1>1, <2>1 DEF StopLeavesNothing, AgentTypeOK, progVars
  <2>8. CountExact' /\ LimitHeld'
    BY <1>2, <2>1
  <2> QED BY <2>4, <2>5, <2>6, <2>7, <2>8 DEF AgentInv
<1>4. ASSUME NEW code \in {"DEADLINE_EXCEEDED", "UNAVAILABLE"}, give_up(w, code)
      PROVE  AgentInv'
  <2> DEFINE r == rpc[w]
             x == IF handler[r] = "answered" THEN "free" ELSE handler[r]
  <2>1. /\ r \in Rpcs
        /\ rpc' = [rpc EXCEPT ![w] = NoRpc] /\ res' = [res EXCEPT ![w] = attempt_status(code)]
        /\ handler' = [handler EXCEPT ![r] = x] /\ reply' = [reply EXCEPT ![r] = NoReply]
        /\ truth' = [truth EXCEPT ![w] = "nothing"] /\ UNCHANGED alive
    BY <1>0, <1>4 DEF give_up, Returns, AgentTypeOK
  <2>2. attempt_status(code) = "AgentError"
    BY <1>4, StatusOf
  <2>3. AgentTypeOK'
    BY <1>0, <1>1, <2>1, <2>2 DEF AgentTypeOK, Places, Statuses, progVars
  <2>4. AttemptHonest'
    <3>1. \A v \in Workers : Honest1(v)'
      BY <1>0, <2>1, <2>2 DEF Honest1, AgentTypeOK
    <3> QED BY <3>1 DEF AttemptHonest, Honest1
  <2>5. WaitsExclusive' /\ ReplyTrue'
    BY <1>0, <2>1 DEF WaitsExclusive, ReplyTrue, AgentTypeOK
  <2>6. StopLeavesNothing'
    BY <1>0, <1>1, <2>1 DEF StopLeavesNothing, AgentTypeOK, progVars
  <2>7. CountExact' /\ LimitHeld'
    BY <1>2, <2>1
  <2> QED BY <2>3, <2>4, <2>5, <2>6, <2>7 DEF AgentInv
<1>5. CASE record(w)
  <2>1. /\ res[w] # "none" /\ res' = [res EXCEPT ![w] = "none"]
        /\ alive' = [alive EXCEPT ![w[1]] = @ /\ res[w] # "AgentError"]
        /\ truth' = [truth EXCEPT ![w] = "nothing"] /\ UNCHANGED <<handler, reply, rpc>>
    BY <1>5 DEF record
  <2>2. AgentTypeOK'
    BY <1>0, <1>1, <2>1, WorkerController DEF AgentTypeOK, Statuses, progVars
  <2>3. AttemptHonest'
    <3>1. \A v \in Workers : Honest1(v)'
      BY <1>0, <2>1 DEF Honest1, AgentTypeOK
    <3> QED BY <3>1 DEF AttemptHonest, Honest1
  <2>4. WaitsExclusive' /\ ReplyTrue'
    BY <1>0, <2>1 DEF WaitsExclusive, ReplyTrue, AgentTypeOK
  <2>5. StopLeavesNothing' /\ CountExact' /\ LimitHeld'
    BY <1>0, <1>1, <2>1 DEF StopLeavesNothing, CountExact, LimitHeld, In, progVars
  <2> QED BY <2>2, <2>3, <2>4, <2>5 DEF AgentInv
<1> QED BY <1>1, <1>3, <1>4, <1>5 DEF Executor

(* A worker's call reaches the agent, or finds it down or stopping. *)
LEMMA CallStep ==
  ASSUME AgentInv, NEW w \in Workers, Call(w)
  PROVE  AgentInv'
<1>0. AgentTypeOK /\ CountExact /\ LimitHeld /\ WaitsExclusive /\ ReplyTrue
      /\ StopLeavesNothing /\ (\A v \in Workers : Honest1(v)) /\ NoRpc \notin Rpcs
  BY HonestIs, AgentRpcAssumption DEF AgentInv, AgentRpcAssumption
<1>1. CASE run_unreachable(w)
  <2>1. /\ Idle(w) /\ res' = [res EXCEPT ![w] = "AgentError"]
        /\ UNCHANGED <<running, handler, reply, rpc, alive, truth, progVars>>
    BY <1>1, StatusOf DEF run_unreachable
  <2>2. AttemptHonest'
    <3>1. \A v \in Workers : Honest1(v)'
      BY <1>0, <2>1 DEF Honest1, AgentTypeOK
    <3> QED BY <3>1 DEF AttemptHonest, Honest1
  <2>3. AgentTypeOK' /\ WaitsExclusive' /\ ReplyTrue'
    BY <1>0, <2>1 DEF WaitsExclusive, ReplyTrue, AgentTypeOK, Statuses, Idle, progVars
  <2>4. StopLeavesNothing' /\ CountExact' /\ LimitHeld'
    BY <1>0, <2>1 DEF StopLeavesNothing, CountExact, LimitHeld, In, progVars
  <2> QED BY <2>2, <2>3, <2>4 DEF AgentInv
<1>2. ASSUME NEW r \in Rpcs, Accepting, run(w, r), UNCHANGED progVars
      PROVE  AgentInv'
  <2>1. /\ Idle(w) /\ handler[r] = "free" /\ handler' = [handler EXCEPT ![r] = "arrived"]
        /\ rpc' = [rpc EXCEPT ![w] = r] /\ phase # "down"
        /\ UNCHANGED <<running, reply, res, alive, truth, progVars>>
    BY <1>2 DEF run, Accepting
  <2>2. AttemptHonest'
    BY <1>0, <2>1 DEF AttemptHonest, Honest1
  <2>3. AgentTypeOK'
    BY <1>0, <2>1 DEF AgentTypeOK, Places, progVars
  <2>4. WaitsExclusive' /\ ReplyTrue'
    BY <1>0, <2>1 DEF WaitsExclusive, ReplyTrue, AgentTypeOK, Idle
  <2>5. StopLeavesNothing'
    BY <2>1 DEF StopLeavesNothing, progVars
  <2>6. /\ In({"excess", "process", "done"})' = In({"excess", "process", "done"})
        /\ In({"process"})' = In({"process"})
    BY <1>0, <2>1 DEF AgentTypeOK, In
  <2>7. CountExact' /\ LimitHeld'
    BY <1>0, <2>1, <2>6 DEF CountExact, LimitHeld
  <2> QED BY <2>2, <2>3, <2>4, <2>5, <2>7 DEF AgentInv
<1> QED BY <1>1, <1>2 DEF Call

(* Everybody who waited is told an error and waits no more. *)
LEMMA BrokenWaits ==
  ASSUME AgentInv, NEW code \in {"UNAVAILABLE", "CANCELLED"}, Broken(code)
  PROVE  /\ \A w \in Workers : rpc'[w] = NoRpc
         /\ \A w \in Workers : Honest1(w)'
         /\ rpc' \in [Workers -> Rpcs \cup {NoRpc}] /\ res' \in [Workers -> Statuses]
         /\ truth' \in [Workers -> Outcomes \cup {"nothing", "declined"}]
<1>1. attempt_status(code) = "AgentError"
  BY StatusOf
<1>2. \A w \in Workers : Honest1(w)
  BY HonestIs DEF AgentInv
<1> QED BY <1>1, <1>2 DEF Broken, AgentInv, AgentTypeOK, Honest1, Statuses

(* main(), a signal, the end of the program. *)
LEMMA LifeStep ==
  ASSUME AgentInv, main \/ cancel \/ stopped \/ on_signal \/ killed
  PROVE  AgentInv'
<1>0. AgentTypeOK /\ CountExact /\ LimitHeld /\ WaitsExclusive /\ ReplyTrue
      /\ AttemptHonest /\ StopLeavesNothing /\ Slots \in Nat
  BY AgentRpcAssumption DEF AgentInv, AgentRpcAssumption
<1>1. ASSUME UNCHANGED <<handler, reply, rpc, res, alive, truth>>,
             phase' \in {"down", "starting", "serving", "stopping"}
      PROVE  AgentTypeOK' /\ WaitsExclusive' /\ ReplyTrue' /\ AttemptHonest' /\ LimitHeld'
  <2>1. AgentTypeOK' /\ WaitsExclusive' /\ LimitHeld'
    BY <1>0, <1>1 DEF AgentTypeOK, WaitsExclusive, LimitHeld, In
  <2>2. ReplyTrue'
    BY <1>0, <1>1 DEF ReplyTrue
  <2>3. AttemptHonest'
    BY <1>0, <1>1 DEF AttemptHonest
  <2> QED BY <2>1, <2>2, <2>3
<1>2. ASSUME NEW kind, start(kind) PROVE AgentInv'
  <2>1. /\ phase = "down" /\ phase' \in {"down", "starting"} /\ running' \in {running, 0} /\ left' = 0
        /\ UNCHANGED <<handler, reply, rpc, res, alive, truth>>
    BY <1>2 DEF start
  <2>2. (\A r \in Rpcs : handler[r] = "free") /\ \A w \in Workers : rpc[w] = NoRpc
    BY <1>0, <2>1 DEF StopLeavesNothing
  <2>3. Cardinality(In({"excess", "process", "done"})) = 0
    BY <2>2, NoneIn
  <2>4. CountExact'
    BY <1>0, <2>1, <2>3 DEF CountExact, In
  <2>5. StopLeavesNothing'
    BY <2>1, <2>2 DEF StopLeavesNothing
  <2> QED BY <1>1, <2>1, <2>4, <2>5 DEF AgentInv
<1>3. CASE install_handlers \/ Shutdown \/ on_signal
  <2>1. /\ UNCHANGED <<rpcVars, ended, left>> /\ phase # "down" /\ phase' # "down"
        /\ phase' \in {"down", "starting", "serving", "stopping"}
    BY <1>3 DEF install_handlers, Shutdown, on_signal
  <2>2. CountExact' /\ StopLeavesNothing'
    BY <1>0, <2>1 DEF CountExact, In, StopLeavesNothing, rpcVars
  <2> QED BY <1>1, <2>1, <2>2 DEF AgentInv, rpcVars
<1>4. CASE cancel
  <2>1. /\ Broken("CANCELLED") /\ phase = "stopping"
        /\ handler' = [r \in Rpcs |-> IF handler[r] = "answered" THEN "free" ELSE handler[r]]
        /\ reply' = [r \in Rpcs |-> NoReply] /\ UNCHANGED <<running, alive, phase, ended, left>>
    BY <1>4 DEF cancel
  <2>2. /\ \A w \in Workers : rpc'[w] = NoRpc
        /\ \A w \in Workers : Honest1(w)'
        /\ rpc' \in [Workers -> Rpcs \cup {NoRpc}] /\ res' \in [Workers -> Statuses]
        /\ truth' \in [Workers -> Outcomes \cup {"nothing", "declined"}]
    BY <2>1, BrokenWaits
  <2>3. AgentTypeOK'
    BY <1>0, <2>1, <2>2 DEF AgentTypeOK, Places
  <2>4. WaitsExclusive' /\ ReplyTrue' /\ StopLeavesNothing'
    BY <2>1, <2>2 DEF WaitsExclusive, ReplyTrue, StopLeavesNothing
  <2>5. AttemptHonest'
    BY <2>2 DEF AttemptHonest, Honest1
  <2>6. /\ In({"excess", "process", "done"})' = In({"excess", "process", "done"})
        /\ In({"process"})' = In({"process"})
    BY <2>1 DEF In
  <2>7. CountExact' /\ LimitHeld'
    BY <1>0, <2>1, <2>6 DEF CountExact, LimitHeld
  <2> QED BY <2>3, <2>4, <2>5, <2>7 DEF AgentInv
<1>5. CASE stopped
  <2>1. /\ (\A r \in Rpcs : handler[r] = "free") /\ phase' = "down" /\ UNCHANGED rpcVars
        /\ left' = Cardinality(In({"process"}))
    BY <1>5 DEF stopped
  <2>2. left' = 0
    BY <2>1, NoneIn
  <2>3. \A w \in Workers : rpc[w] = NoRpc
    BY <1>0, <2>1 DEF WaitsExclusive, AgentTypeOK
  <2>4. CountExact' /\ StopLeavesNothing'
    BY <1>0, <2>1, <2>2, <2>3 DEF CountExact, In, StopLeavesNothing, rpcVars
  <2> QED BY <1>1, <2>1, <2>4 DEF AgentInv, rpcVars
<1>6. CASE killed
  <2>1. /\ Broken("UNAVAILABLE") /\ phase' = "down" /\ ended' = "killed" /\ running' = 0
        /\ handler' = [r \in Rpcs |-> "free"]
        /\ reply' = [r \in Rpcs |-> NoReply] /\ UNCHANGED alive
    BY <1>6 DEF killed
  <2>2. /\ \A w \in Workers : rpc'[w] = NoRpc
        /\ \A w \in Workers : Honest1(w)'
        /\ rpc' \in [Workers -> Rpcs \cup {NoRpc}] /\ res' \in [Workers -> Statuses]
        /\ truth' \in [Workers -> Outcomes \cup {"nothing", "declined"}]
    BY <2>1, BrokenWaits
  <2>3. AgentTypeOK'
    BY <1>0, <2>1, <2>2 DEF AgentTypeOK, Places
  <2>4. WaitsExclusive' /\ ReplyTrue' /\ StopLeavesNothing'
    BY <2>1, <2>2 DEF WaitsExclusive, ReplyTrue, StopLeavesNothing
  <2>5. AttemptHonest'
    BY <2>2 DEF AttemptHonest, Honest1
  <2>6. In({"excess", "process", "done"})' = {} /\ In({"process"})' = {}
    BY <2>1 DEF In
  <2>7. CountExact' /\ LimitHeld'
    BY <1>0, <2>1, <2>6, FS_EmptySet DEF CountExact, LimitHeld
  <2> QED BY <2>3, <2>4, <2>5, <2>7 DEF AgentInv
<1> QED BY <1>2, <1>3, <1>4, <1>5, <1>6 DEF main

(* Every step of the agent, its controllers and its handlers. *)
LEMMA AgentStep == AgentInv /\ [Next]_vars => AgentInv'
<1> SUFFICES ASSUME AgentInv, [Next]_vars PROVE AgentInv'
  OBVIOUS
<1>1. ASSUME NEW c \in Controllers, connect(c) PROVE AgentInv'
  <2>1. /\ alive' \in [Controllers -> BOOLEAN]
        /\ UNCHANGED <<running, handler, reply, rpc, res, truth, progVars>>
    BY <1>1 DEF connect, AgentInv, AgentTypeOK
  <2>2. AgentTypeOK' /\ WaitsExclusive' /\ ReplyTrue' /\ AttemptHonest'
    BY <2>1 DEF AgentInv, AgentTypeOK, WaitsExclusive, ReplyTrue, AttemptHonest, progVars
  <2>3. CountExact' /\ LimitHeld' /\ StopLeavesNothing'
    BY <2>1 DEF AgentInv, CountExact, LimitHeld, In, StopLeavesNothing, progVars
  <2> QED BY <2>2, <2>3 DEF AgentInv
<1>2. CASE UNCHANGED vars
  <2>1. AgentTypeOK' /\ WaitsExclusive' /\ ReplyTrue' /\ AttemptHonest'
    BY <1>2 DEF AgentInv, AgentTypeOK, WaitsExclusive, ReplyTrue, AttemptHonest, vars, rpcVars, progVars
  <2>2. CountExact' /\ LimitHeld' /\ StopLeavesNothing'
    BY <1>2 DEF AgentInv, CountExact, LimitHeld, In, StopLeavesNothing, vars, rpcVars, progVars
  <2> QED BY <2>1, <2>2 DEF AgentInv
<1> QED BY <1>1, <1>2, LifeStep, CallStep, WaitStep, ServeStep DEF Next

(* The inductive invariant of the agent and its callers. *)
THEOREM AgentInvariant == Spec => []AgentInv
BY AgentInit, AgentStep, PTL DEF Spec

(* running_ counts the handlers between fetch_add and fetch_sub exactly. *)
THEOREM CountIsExact == Spec => []CountExact
<1>1. AgentInv => CountExact
  BY DEF AgentInv
<1> QED BY <1>1, AgentInvariant, PTL

(* However many controllers use the agent and whatever they believe, it    *)
(* never runs more commands at a time than it has slots.                   *)
THEOREM LimitIsHeld == Spec => []LimitHeld
<1>1. AgentInv => LimitHeld
  BY DEF AgentInv
<1> QED BY <1>1, AgentInvariant, PTL

(* What GrpcExecutor::run returns is what the command of this very call    *)
(* did, or an AgentError.                                                  *)
THEOREM AttemptsAreHonest == Spec => []AttemptHonest
<1>1. AgentInv => AttemptHonest
  BY DEF AgentInv
<1> QED BY <1>1, AgentInvariant, PTL

(* An agent that exits after a signal leaves no command behind. *)
THEOREM StopIsClean == Spec => []StopLeavesNothing
<1>1. AgentInv => StopLeavesNothing
  BY DEF AgentInv
<1> QED BY <1>1, AgentInvariant, PTL
=============================================================================
