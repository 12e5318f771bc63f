------------------------------ MODULE Scheduler ------------------------------
(***************************************************************************)
(* The controller's scheduler (dtest/src/scheduler.cpp): class Run spreads *)
(* the tasks of a job file over a fleet of agents.  Every agent is served  *)
(* by `slots' worker threads.  All shared state is protected by one mutex; *)
(* a worker gives it up only while it waits on the condition variable or   *)
(* is inside Executor::run.                                                *)
(*                                                                         *)
(* The worker loop is cut at exactly those points, so that a step is one   *)
(* stretch of code under the mutex:                                        *)
(*                                                                         *)
(*    "unborn"   its thread has not been created                           *)
(*    "ready"    wants the mutex to evaluate the loop condition            *)
(*    "waiting"  blocked in cv_.wait                                       *)
(*    "running"  inside exec_.run, mutex released                          *)
(*    "loop"     HOLDS the mutex: has recorded a result and is about to    *)
(*               evaluate the loop condition again                         *)
(*    "exited"   the thread function has returned                          *)
(*                                                                         *)
(* The executor is the environment: an attempt may end in any              *)
(* AttemptStatus, after any delay.                                         *)
(***************************************************************************)
EXTENDS Naturals, Sequences, FiniteSets, Labels

CONSTANTS
  Agents,       \* the indices of agents_
  AgentLabels,  \* AgentInfo::labels, per agent
  AgentSlots,   \* AgentInfo::slots as handed to the Scheduler, per agent
  NumTasks,     \* tasks_.size()
  Needs,        \* Task::needs, per task
  Retries       \* Task::retries, per task

Tasks == 1..NumTasks

ASSUME SchedulerAssumption ==
  /\ IsFiniteSet(Agents)
  /\ NumTasks \in Nat
  /\ AgentSlots \in [Agents -> Nat]
  /\ Retries \in [Tasks -> Nat]

NoTask == 0

(* The constructor turns a slot count of 0 into 1. *)
slots(a) == IF AgentSlots[a] = 0 THEN 1 ELSE AgentSlots[a]

(* execute() starts one thread per slot of every agent. *)
Workers == UNION {{<<a, s>> : s \in 1..slots(a)} : a \in Agents}

AgentOf(w) == w[1]

able(a, t) == labels_satisfy(AgentLabels[a], Needs[t])

AttemptStatus == {"Passed", "Failed", "TimedOut", "AgentError"}
TestFailure   == {"Failed", "TimedOut"}
FinalStatus   == {"Passed", "Failed", "TimedOut", "Unschedulable"}
Message       == {"", "became unreachable", "no agent provides the labels"}

AttemptRecord == [agent : Agents, status : AttemptStatus]

TaskState ==
  [failures : Nat, tried : SUBSET Agents, running : BOOLEAN, done : BOOLEAN,
   final : FinalStatus, message : Message, attempts : Seq(AttemptRecord)]

VARIABLES
  st,         \* st_: the TaskState of every task
  alive,      \* alive_
  dead,       \* dead_, in order of retirement
  remaining,  \* remaining_
  pc,         \* where each worker thread is
  cur,        \* the task a worker runs (its local t)
  main        \* the thread in Run::execute: "start", "joining", "returned"

vars == <<st, alive, dead, remaining, pc, cur, main>>

-----------------------------------------------------------------------------
(* Helpers of class Run, as functions of the task table S and of the set   *)
(* of live agents L they are evaluated in.                                 *)

has_fresh_candidate(S, L, t, except_agent) ==
  \E a \in Agents : a # except_agent /\ a \in L /\ able(a, t) /\ a \notin S[t].tried

(* Mutants of the helpers below; no specification uses them. *)
AnyTaskEligible(S, L, a) ==
  {t \in Tasks : /\ ~S[t].done /\ able(a, t)
                 /\ ~(a \in S[t].tried /\ has_fresh_candidate(S, L, t, a))}
AnyRetryEligible(S, L, a) ==
  {t \in Tasks : ~S[t].done /\ ~S[t].running /\ able(a, t)}

(* The tasks pick() would not skip for this agent. *)
Eligible(S, L, a) ==
  {t \in Tasks : /\ ~S[t].done /\ ~S[t].running /\ able(a, t)
                 /\ ~(a \in S[t].tried /\ has_fresh_candidate(S, L, t, a))}

(* pick() takes the first one, in input order. *)
pick(S, L, a, t) ==
  /\ t \in Eligible(S, L, a)
  /\ \A u \in Eligible(S, L, a) : t <= u

finish(s, f, msg) == [s EXCEPT !.done = TRUE, !.final = f, !.message = msg]

(* Mutants of Stranded: it forgets to skip finished tasks, or counts only  *)
(* the agents a task was not tried on.                                     *)
StrandedTwice(S, L) ==
  {t \in Tasks : ~S[t].running /\ ~\E a \in L : able(a, t)}
StrandedWhenTried(S, L) ==
  {t \in Tasks : /\ ~S[t].done /\ ~S[t].running
                 /\ ~\E a \in L : able(a, t) /\ a \notin S[t].tried}

(* The tasks resolve_unschedulable() finishes. *)
Stranded(S, L) ==
  {t \in Tasks : /\ ~S[t].done /\ ~S[t].running
                 /\ ~\E a \in L : able(a, t)}

Explanation(t) ==
  IF \E a \in Agents : able(a, t)
  THEN "became unreachable" ELSE "no agent provides the labels"

resolve_unschedulable(S, L) ==
  [t \in Tasks |-> IF t \in Stranded(S, L)
                   THEN finish(S[t], "Unschedulable", Explanation(t)) ELSE S[t]]

Live == {a \in Agents : alive[a]}

-----------------------------------------------------------------------------
Init ==
  /\ st = [t \in Tasks |->
             [failures |-> 0, tried |-> {}, running |-> FALSE, done |-> FALSE,
              final |-> "Unschedulable", message |-> "", attempts |-> <<>>]]
  /\ alive = [a \in Agents |-> TRUE]
  /\ dead = <<>>
  /\ remaining = NumTasks
  /\ pc = [w \in Workers |-> "unborn"]
  /\ cur = [w \in Workers |-> NoTask]
  /\ main = "start"

(* execute() up to the joins: first resolve_unschedulable under the mutex, *)
(* then every worker thread is created.  A thread that is created late is  *)
(* a thread that is scheduled late.                                        *)
StartWorkers ==
  /\ main = "start"
  /\ st' = resolve_unschedulable(st, Live)
  /\ remaining' = remaining - Cardinality(Stranded(st, Live))
  /\ pc' = [w \in Workers |-> "ready"]
  /\ main' = "joining"
  /\ UNCHANGED <<alive, dead, cur>>

(* All joins have returned; the summary is built from st_. *)
JoinWorkers ==
  /\ main = "joining"
  /\ \A w \in Workers : pc[w] = "exited"
  /\ main' = "returned"
  /\ UNCHANGED <<st, alive, dead, remaining, pc, cur>>

(* Mutant: the notification is forgotten. *)
notify_none(p) == p

(* notify_all: every waiting worker goes after the mutex again. *)
notify_all(p) == [w \in Workers |-> IF p[w] = "waiting" THEN "ready" ELSE p[w]]

MutexFree == \A w \in Workers : pc[w] # "loop"

(* The worker holds the mutex at the head of its loop. *)
AtLoopHead(w) == pc[w] = "loop" \/ (pc[w] = "ready" /\ MutexFree)

LoopCondition(w) == remaining > 0 /\ alive[AgentOf(w)]

(* while (...) is false: notify and return, releasing the mutex. *)
Exit(w) ==
  /\ AtLoopHead(w)
  /\ ~LoopCondition(w)
  /\ pc' = notify_all([pc EXCEPT ![w] = "exited"])
  /\ UNCHANGED <<st, alive, dead, remaining, cur, main>>

(* pick() found nothing: cv_.wait(lk). *)
Wait(w) ==
  /\ AtLoopHead(w)
  /\ LoopCondition(w)
  /\ Eligible(st, Live, AgentOf(w)) = {}
  /\ pc' = [pc EXCEPT ![w] = "waiting"]
  /\ UNCHANGED <<st, alive, dead, remaining, cur, main>>

(* pick() found t: mark it running, unlock, call the executor. *)
Claim(w) ==
  /\ AtLoopHead(w)
  /\ LoopCondition(w)
  /\ \E t \in Tasks :
       /\ pick(st, Live, AgentOf(w), t)
       /\ st' = [st EXCEPT ![t].running = TRUE]
       /\ cur' = [cur EXCEPT ![w] = t]
  /\ pc' = [pc EXCEPT ![w] = "running"]
  /\ UNCHANGED <<alive, dead, remaining, main>>

(* std::condition_variable::wait may return without a notification. *)
SpuriousWake(w) ==
  /\ pc[w] = "waiting"
  /\ pc' = [pc EXCEPT ![w] = "ready"]
  /\ UNCHANGED <<st, alive, dead, remaining, cur, main>>

-----------------------------------------------------------------------------
(* exec_.run returned: the part of worker() after lk.lock().               *)

(* The bookkeeping every result gets. *)
recorded(s, a, status) ==
  [s EXCEPT !.running = FALSE, !.tried = @ \cup {a},
            !.attempts = Append(@, [agent |-> a, status |-> status])]

Holds(w) == pc' = notify_all([pc EXCEPT ![w] = "loop"])

RecordPass(w) ==
  /\ pc[w] = "running" /\ MutexFree
  /\ LET t == cur[w] IN
       st' = [st EXCEPT ![t] = finish(recorded(@, AgentOf(w), "Passed"), "Passed", "")]
  /\ remaining' = remaining - 1
  /\ Holds(w)
  /\ cur' = [cur EXCEPT ![w] = NoTask]
  /\ UNCHANGED <<alive, dead, main>>

(* Mutant: the budget counts attempts, not retries. *)
spent_early(s, status, retries) ==
  LET n == [s EXCEPT !.failures = @ + 1]
  IN  IF n.failures >= retries THEN finish(n, status, "") ELSE n

(* ++s.failures, then compare with the budget. *)
spent(s, status, retries) ==
  LET n == [s EXCEPT !.failures = @ + 1]
  IN  IF n.failures > retries THEN finish(n, status, "") ELSE n

RecordFailure(w, status) ==
  /\ pc[w] = "running" /\ MutexFree
  /\ LET t == cur[w]
         s == spent(recorded(st[t], AgentOf(w), status), status, Retries[t])
     IN  /\ st' = [st EXCEPT ![t] = s]
         /\ remaining' = IF s.done THEN remaining - 1 ELSE remaining
  /\ Holds(w)
  /\ cur' = [cur EXCEPT ![w] = NoTask]
  /\ UNCHANGED <<alive, dead, main>>

(* Only the first slot to report an error retires the agent and looks for  *)
(* tasks nobody can run any more.                                          *)
RecordAgentError(w) ==
  /\ pc[w] = "running" /\ MutexFree
  /\ LET a == AgentOf(w)
         S == [st EXCEPT ![cur[w]] = recorded(@, a, "AgentError")]
     IN  IF alive[a]
         THEN /\ alive' = [alive EXCEPT ![a] = FALSE]
              /\ dead' = Append(dead, a)
              /\ st' = resolve_unschedulable(S, Live \ {a})
              /\ remaining' = remaining - Cardinality(Stranded(S, Live \ {a}))
         ELSE st' = S /\ UNCHANGED <<alive, dead, remaining>>
  /\ Holds(w)
  /\ cur' = [cur EXCEPT ![w] = NoTask]
  /\ UNCHANGED main

Record(w) ==
  \/ RecordPass(w)
  \/ \E status \in TestFailure : RecordFailure(w, status)
  \/ RecordAgentError(w)

Loop(w) == Exit(w) \/ Wait(w) \/ Claim(w)

(* execute() has returned and nothing is left to do. *)
Returned == main = "returned" /\ UNCHANGED vars

Next ==
  \/ StartWorkers
  \/ JoinWorkers
  \/ \E w \in Workers : Loop(w) \/ Record(w) \/ SpuriousWake(w)
  \/ Returned

Spec == Init /\ [][Next]_vars

(* The operating system schedules every thread that can run, the mutex is  *)
(* eventually handed over, and an attempt ends because the executor bounds *)
(* it with a deadline (grpc_executor.cpp).  Nothing promises a spurious    *)
(* wake-up.                                                                *)
Fairness ==
  /\ WF_vars(StartWorkers)
  /\ WF_vars(JoinWorkers)
  /\ \A w \in Workers : WF_vars(Loop(w)) /\ WF_vars(Record(w))

FairSpec == Spec /\ Fairness

-----------------------------------------------------------------------------
(* Properties.                                                             *)

PcValues == {"unborn", "ready", "waiting", "running", "loop", "exited"}

(* Every variable of class Run has its type, and remaining_, a size_t that *)
(* is only ever decremented, never goes below zero.                        *)
TypeOK ==
  /\ st \in [Tasks -> TaskState]
  /\ alive \in [Agents -> BOOLEAN]
  /\ dead \in Seq(Agents)
  /\ remaining \in Nat
  /\ pc \in [Workers -> PcValues]
  /\ cur \in [Workers -> Tasks \cup {NoTask}]
  /\ main \in {"start", "joining", "returned"}

Running(w, t) == pc[w] = "running" /\ cur[w] = t

(* The flag s.running, set before the mutex is released around exec_.run   *)
(* and cleared after it is taken again, says of every task whether some    *)
(* worker is running it; two workers never run one task, and a task that   *)
(* is being run has no verdict yet.                                        *)
RunningExclusive ==
  /\ \A t \in Tasks : st[t].running <=> \E w \in Workers : Running(w, t)
  /\ \A t \in Tasks : \A v, w \in Workers : Running(v, t) /\ Running(w, t) => v = w
  /\ \A t \in Tasks : ~(st[t].running /\ st[t].done)

Pending == {t \in Tasks : ~st[t].done}

(* remaining_, which finish() decrements from three call sites and which   *)
(* ends every worker's loop, is exactly the number of tasks without a      *)
(* verdict.                                                                *)
RemainingExact == remaining = Cardinality(Pending)

(* The agents of the first n attempts of a list. *)
AgentsIn(q, n) == {q[i].agent : i \in 1..n}

(* pick() escapes a bad host: if the j-th attempt at a task ran on an      *)
(* agent it had already run on, then every capable agent still alive had   *)
(* been used before that attempt.                                          *)
RetryElsewhere ==
  \A t \in Tasks : \A j \in DOMAIN st[t].attempts :
    LET before == AgentsIn(st[t].attempts, j - 1) IN
      st[t].attempts[j].agent \in before => \A a \in Live : able(a, t) => a \in before

(* dead_ lists every retired agent once and no other, although all slots   *)
(* of an agent may fail one after the other.                               *)
RetiredOnce ==
  /\ \A i, j \in DOMAIN dead : dead[i] = dead[j] => i = j
  /\ {dead[i] : i \in DOMAIN dead} = Agents \ Live

(* A worker is blocked in cv_.wait only while there is nothing it could    *)
(* do: no change that would let it run a task or leave its loop is made    *)
(* without a notification.                                                 *)
NoLostWakeup ==
  \A w \in Workers : pc[w] = "waiting" =>
    LoopCondition(w) /\ Eligible(st, Live, AgentOf(w)) = {}

(* A task is given up only if no live agent could run it; the message      *)
(* tells a fleet that lost its capable agents from one that had none.      *)
GivenUpJustified ==
  \A t \in Tasks : st[t].done /\ st[t].final = "Unschedulable" =>
    /\ \A a \in Live : ~able(a, t)
    /\ st[t].message = Explanation(t)

(* What execute() returns: a task without a test verdict is one that no    *)
(* agent still alive could have run.                                       *)
ReturnJustified ==
  main = "returned" =>
    \A t \in Tasks : st[t].final = "Unschedulable" => \A a \in Live : ~able(a, t)

(* A verdict is final: no late result and no later retirement changes the  *)
(* verdict, the message or the attempts of a finished task.                *)
OutcomeFinal == [][\A t \in Tasks : st[t].done => st'[t] = st[t]]_st

(* Every task waiting for an agent has one (the reason why resolving at    *)
(* each retirement is enough).  Holds when agents have one slot each.      *)
NobodyStranded == main # "start" => Stranded(st, Live) = {}

(* "A task nobody can run is reported Unschedulable rather than hanging    *)
(* the run": execute() returns.                                            *)
Termination == <>(main = "returned")

(* execute() returns unless the queue was left with a task no live agent   *)
(* can run: no sleep without a wake-up, no retry that waits for an agent   *)
(* which has died, no worker that stays behind; NobodyStranded is all that *)
(* Termination lacks.                                                      *)
ReturnsUnlessStranded == <>(main = "returned" \/ ~NobodyStranded)

-----------------------------------------------------------------------------
(* The abstract run this is an implementation of.                          *)

Inflight == {<<cur[w], AgentOf(w)>> : w \in {v \in Workers : pc[v] = "running"}}

Job == INSTANCE JobRun WITH
  Able     <- able,
  inflight <- Inflight,
  history  <- [t \in Tasks |-> st[t].attempts],
  verdict  <- [t \in Tasks |-> IF st[t].done THEN st[t].final ELSE "Pending"],
  up       <- Live

(* The worker threads implement the abstract job run: every stretch of     *)
(* code under the mutex is one abstract step or none, and each verdict is  *)
(* the one the reported attempts imply.                                    *)
JobRunSpec == Job!JobSpec
=============================================================================
