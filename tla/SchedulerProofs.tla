-------------------------- MODULE SchedulerProofs --------------------------
(***************************************************************************)
(* Proofs about the scheduler, for every fleet, every list of tasks, every *)
(* assignment of slots, labels and retry budgets; at the end, that it      *)
(* implements JobRun.                                                      *)
(***************************************************************************)
EXTENDS Scheduler, FiniteSetTheorems, TLAPS

-----------------------------------------------------------------------------
(* The helpers of class Run.                                               *)

(* Tasks are a finite set of numbers other than NoTask. *)
LEMMA TasksFinite == IsFiniteSet(Tasks) /\ NoTask \notin Tasks /\ Cardinality(Tasks) = NumTasks
BY SchedulerAssumption, FS_Interval DEF SchedulerAssumption, Tasks, NoTask

(* A worker belongs to an agent of the fleet. *)
LEMMA WorkerAgent == ASSUME NEW w \in Workers PROVE AgentOf(w) \in Agents
BY DEF Workers, AgentOf

(* recorded() keeps the type and touches neither verdict nor failures. *)
LEMMA RecordedFields ==
  ASSUME NEW s \in TaskState, NEW a \in Agents, NEW status \in AttemptStatus
  PROVE  LET r == recorded(s, a, status) IN
         /\ r \in TaskState
         /\ ~r.running
         /\ r.tried = s.tried \cup {a}
         /\ r.attempts = Append(s.attempts, [agent |-> a, status |-> status])
         /\ r.failures = s.failures /\ (r.done <=> s.done)
         /\ r.final = s.final /\ r.message = s.message
<1> DEFINE e == [agent |-> a, status |-> status]
           q == Append(s.attempts, e)
<1>1. q \in Seq(AttemptRecord)
  <2>1. e \in AttemptRecord
    BY DEF AttemptRecord
  <2>2. s.attempts \in Seq(AttemptRecord)
    BY DEF TaskState
  <2> HIDE DEF e
  <2> QED BY <2>1, <2>2
<1>2. recorded(s, a, status) =
        [s EXCEPT !.running = FALSE, !.tried = s.tried \cup {a}, !.attempts = q]
  BY DEF recorded
<1> HIDE DEF q
<1>3. LET r == [s EXCEPT !.running = FALSE, !.tried = s.tried \cup {a}, !.attempts = q] IN
      /\ r \in TaskState
      /\ ~r.running /\ r.tried = s.tried \cup {a} /\ r.attempts = q
      /\ r.failures = s.failures /\ (r.done <=> s.done)
      /\ r.final = s.final /\ r.message = s.message
  BY <1>1 DEF TaskState
<1> QED BY <1>2, <1>3 DEF q

(* finish() sets the verdict and nothing else. *)
LEMMA FinishFields ==
  ASSUME NEW s \in TaskState, NEW f \in FinalStatus, NEW m \in Message
  PROVE  /\ finish(s, f, m) \in TaskState
         /\ finish(s, f, m).done
         /\ finish(s, f, m).final = f /\ finish(s, f, m).message = m
         /\ finish(s, f, m).failures = s.failures /\ finish(s, f, m).tried = s.tried
         /\ (finish(s, f, m).running <=> s.running) /\ finish(s, f, m).attempts = s.attempts
BY DEF finish, TaskState

(* spent() counts a failure and decides once the budget is overspent. *)
LEMMA SpentFields ==
  ASSUME NEW s \in TaskState, NEW f \in TestFailure, NEW r \in Nat
  PROVE  /\ spent(s, f, r) \in TaskState
         /\ spent(s, f, r).failures = s.failures + 1
         /\ spent(s, f, r).tried = s.tried
         /\ (spent(s, f, r).running <=> s.running)
         /\ spent(s, f, r).attempts = s.attempts
         /\ s.failures + 1 > r => spent(s, f, r).done
         /\ s.failures + 1 > r => spent(s, f, r).final = f
         /\ ~(s.failures + 1 > r) => (spent(s, f, r).done <=> s.done)
         /\ ~(s.failures + 1 > r) => spent(s, f, r).final = s.final
<1> DEFINE c == [s EXCEPT !.failures = @ + 1]
<1>1. /\ c \in TaskState /\ c.failures = s.failures + 1 /\ c.tried = s.tried
      /\ (c.running <=> s.running) /\ c.attempts = s.attempts
      /\ (c.done <=> s.done) /\ c.final = s.final /\ c.message = s.message
  BY DEF TaskState
<1>2. f \in FinalStatus /\ "" \in Message
  BY DEF TestFailure, FinalStatus, Message
<1>3. spent(s, f, r) = IF c.failures > r THEN finish(c, f, "") ELSE c
  BY DEF spent
<1> HIDE DEF c
<1>4. CASE s.failures + 1 > r
  <2>1. spent(s, f, r) = finish(c, f, "")
    BY <1>1, <1>3, <1>4
  <2>2. LET x == finish(c, f, "") IN
        /\ x \in TaskState
        /\ x.done /\ x.final = f /\ x.message = ""
        /\ x.failures = c.failures /\ x.tried = c.tried
        /\ (x.running <=> c.running) /\ x.attempts = c.attempts
    BY <1>1, <1>2, FinishFields, Zenon
  <2> QED BY <1>1, <1>4, <2>1, <2>2
<1>5. CASE ~(s.failures + 1 > r)
  BY <1>1, <1>3, <1>5
<1> QED BY <1>4, <1>5

(* resolve_unschedulable() finishes the stranded tasks and leaves every    *)
(* other task, running ones included, as it is.                            *)
LEMMA ResolveFields ==
  ASSUME NEW S \in [Tasks -> TaskState], NEW L, NEW R, R = resolve_unschedulable(S, L)
  PROVE  /\ R \in [Tasks -> TaskState]
         /\ \A t \in Tasks :
              /\ t \notin Stranded(S, L) => R[t] = S[t]
              /\ t \in Stranded(S, L) => R[t].done
              /\ t \in Stranded(S, L) => R[t].final = "Unschedulable"
              /\ t \in Stranded(S, L) => R[t].message = Explanation(t)
              /\ R[t].failures = S[t].failures /\ R[t].tried = S[t].tried
              /\ (R[t].running <=> S[t].running) /\ R[t].attempts = S[t].attempts
<1>1. \A t \in Tasks : R[t] = IF t \in Stranded(S, L)
                              THEN finish(S[t], "Unschedulable", Explanation(t)) ELSE S[t]
  BY DEF resolve_unschedulable, Explanation
<1>2. \A t \in Tasks : Explanation(t) \in Message
  BY DEF Message, Explanation
<1>3. "Unschedulable" \in FinalStatus
  BY DEF FinalStatus
<1>4. DOMAIN R = Tasks /\ R = [t \in Tasks |-> R[t]]
  BY DEF resolve_unschedulable
<1>5. \A t \in Tasks : R[t] \in TaskState
  BY <1>1, <1>2, <1>3, FinishFields
<1>6. R \in [Tasks -> TaskState]
  BY <1>4, <1>5
<1>7. ASSUME NEW t \in Tasks
      PROVE  /\ t \notin Stranded(S, L) => R[t] = S[t]
             /\ t \in Stranded(S, L) =>
                   R[t].done /\ R[t].final = "Unschedulable" /\ R[t].message = Explanation(t)
             /\ R[t].failures = S[t].failures /\ R[t].tried = S[t].tried
             /\ (R[t].running <=> S[t].running) /\ R[t].attempts = S[t].attempts
  <2>1. CASE t \in Stranded(S, L)
    <3>1. R[t] = finish(S[t], "Unschedulable", Explanation(t))
      BY <1>1, <2>1
    <3>2. S[t] \in TaskState
      OBVIOUS
    <3>3. PICK x \in TaskState, y \in Message : x = S[t] /\ y = Explanation(t)
      BY <1>2, <3>2
    <3>4. LET n == finish(x, "Unschedulable", y) IN
          /\ n \in TaskState
          /\ n.done /\ n.final = "Unschedulable" /\ n.message = y
          /\ n.failures = x.failures /\ n.tried = x.tried
          /\ (n.running <=> x.running) /\ n.attempts = x.attempts
      BY <1>3, FinishFields, Zenon
    <3> QED BY <2>1, <3>1, <3>3, <3>4
  <2>2. CASE t \notin Stranded(S, L)
    <3>1. R[t] = S[t]
      BY <1>1, <2>2
    <3> QED BY <2>2, <3>1
  <2> QED BY <2>1, <2>2
<1> QED BY <1>6, <1>7

(* notify_all() wakes waiting workers and disturbs nobody else. *)
LEMMA NotifyFields ==
  ASSUME NEW p \in [Workers -> PcValues]
  PROVE  /\ notify_all(p) \in [Workers -> PcValues]
         /\ \A w \in Workers :
              /\ notify_all(p)[w] # "waiting"
              /\ p[w] # "waiting" => notify_all(p)[w] = p[w]
              /\ p[w] = "waiting" => notify_all(p)[w] = "ready"
BY DEF notify_all, PcValues

-----------------------------------------------------------------------------
(* What every result does to the shared state, whatever its status.        *)

(* A running worker has a task. *)
CurValid == \A w \in Workers : pc[w] = "running" => cur[w] \in Tasks

NewlyDone == {u \in Tasks : st'[u].done /\ ~st[u].done}

(* The effect of worker w recording a result for its task t. *)
Effect(w, t) ==
  /\ st' \in [Tasks -> TaskState]
  /\ ~st'[t].running
  /\ st'[t].tried = st[t].tried \cup {AgentOf(w)}
  /\ \E s \in AttemptStatus :
       st'[t].attempts = Append(st[t].attempts, [agent |-> AgentOf(w), status |-> s])
  /\ \A u \in Tasks : u # t =>
       /\ (st'[u].running <=> st[u].running) /\ st'[u].tried = st[u].tried
       /\ st'[u].attempts = st[u].attempts /\ st'[u].failures = st[u].failures
       /\ st'[u] = st[u] \/ (~st[u].done /\ ~st[u].running /\ st'[u].done)
  /\ \A u \in Tasks : st[u].done => st'[u] = st[u]
  /\ remaining' = remaining - Cardinality(NewlyDone)
  /\ alive' \in [Agents -> BOOLEAN] /\ dead' \in Seq(Agents)
  /\ \A a \in Agents : alive'[a] => alive[a]
  /\ pc' = notify_all([pc EXCEPT ![w] = "loop"])
  /\ cur' = [cur EXCEPT ![w] = NoTask]
  /\ main' = main

(* RecordPass has that effect. *)
LEMMA PassEffect ==
  ASSUME TypeOK, NEW w \in Workers, RecordPass(w),
         cur[w] \in Tasks, st[cur[w]].running, ~st[cur[w]].done
  PROVE  Effect(w, cur[w])
<1>0. PICK p \in AttemptStatus, f \in FinalStatus, m \in Message :
        p = "Passed" /\ f = "Passed" /\ m = ""
  BY DEF AttemptStatus, FinalStatus, Message
<1> DEFINE t == cur[w]
           r == recorded(st[t], AgentOf(w), p)
           n == finish(r, f, m)
<1>1. st[t] \in TaskState /\ AgentOf(w) \in Agents
  BY WorkerAgent DEF TypeOK
<1>2. /\ r \in TaskState /\ ~r.running /\ r.tried = st[t].tried \cup {AgentOf(w)}
      /\ r.attempts = Append(st[t].attempts, [agent |-> AgentOf(w), status |-> p])
  BY <1>1, RecordedFields
<1> HIDE DEF r
<1>3. /\ n \in TaskState /\ n.done /\ n.tried = r.tried
      /\ (n.running <=> r.running) /\ n.attempts = r.attempts
  BY <1>2, FinishFields
<1>4. st' = [st EXCEPT ![t] = n] /\ remaining' = remaining - 1
      /\ pc' = notify_all([pc EXCEPT ![w] = "loop"])
      /\ cur' = [cur EXCEPT ![w] = NoTask] /\ UNCHANGED <<alive, dead, main>>
  BY <1>0 DEF RecordPass, r, Holds
<1> HIDE DEF n
<1>5. st'[t] = n /\ \A u \in Tasks : u # t => st'[u] = st[u]
  BY <1>4 DEF TypeOK
<1>6. NewlyDone = {t}
  BY <1>3, <1>5 DEF NewlyDone
<1>7. Cardinality(NewlyDone) = 1
  BY <1>6, FS_Singleton
<1>8. st' \in [Tasks -> TaskState]
  BY <1>3, <1>4 DEF TypeOK
<1>9. st'[t].attempts = Append(st[t].attempts, [agent |-> AgentOf(w), status |-> p])
  BY <1>2, <1>3, <1>5
<1>10. \E s \in AttemptStatus :
       st'[t].attempts = Append(st[t].attempts, [agent |-> AgentOf(w), status |-> s])
  BY <1>9
<1> QED BY <1>2, <1>3, <1>4, <1>5, <1>7, <1>8, <1>10 DEF Effect, TypeOK

(* RecordFailure has that effect. *)
LEMMA FailureEffect ==
  ASSUME TypeOK, NEW w \in Workers, NEW f \in TestFailure, RecordFailure(w, f),
         cur[w] \in Tasks, st[cur[w]].running, ~st[cur[w]].done
  PROVE  Effect(w, cur[w])
<1> DEFINE t == cur[w]
           r == recorded(st[t], AgentOf(w), f)
           n == spent(r, f, Retries[t])
<1>1. st[t] \in TaskState /\ AgentOf(w) \in Agents /\ f \in AttemptStatus
      /\ Retries[t] \in Nat
  BY WorkerAgent, SchedulerAssumption DEF TypeOK, AttemptStatus, TestFailure, SchedulerAssumption
<1>2. /\ r \in TaskState /\ ~r.running /\ r.tried = st[t].tried \cup {AgentOf(w)}
      /\ r.attempts = Append(st[t].attempts, [agent |-> AgentOf(w), status |-> f])
      /\ (r.done <=> st[t].done)
  BY <1>1, RecordedFields
<1> HIDE DEF r
<1>3. /\ n \in TaskState /\ n.tried = r.tried
      /\ (n.running <=> r.running) /\ n.attempts = r.attempts
  BY <1>1, <1>2, SpentFields
<1>4. st' = [st EXCEPT ![t] = n] /\ remaining' = (IF n.done THEN remaining - 1 ELSE remaining)
      /\ pc' = notify_all([pc EXCEPT ![w] = "loop"])
      /\ cur' = [cur EXCEPT ![w] = NoTask] /\ UNCHANGED <<alive, dead, main>>
  BY DEF RecordFailure, r, Holds
<1> HIDE DEF n
<1>5. st'[t] = n /\ \A u \in Tasks : u # t => st'[u] = st[u]
  BY <1>4 DEF TypeOK
<1>6. NewlyDone = IF n.done THEN {t} ELSE {}
  BY <1>3, <1>5 DEF NewlyDone
<1>7. remaining' = remaining - Cardinality(NewlyDone)
  <2>1. CASE n.done
    BY <1>4, <1>6, <2>1, FS_Singleton
  <2>2. CASE ~n.done
    BY <1>4, <1>6, <2>2, FS_EmptySet DEF TypeOK
  <2> QED BY <2>1, <2>2
<1>8. st' \in [Tasks -> TaskState]
  BY <1>3, <1>4 DEF TypeOK
<1>9. st'[t].attempts = Append(st[t].attempts, [agent |-> AgentOf(w), status |-> f])
  BY <1>2, <1>3, <1>5
<1>10. \E s \in AttemptStatus :
       st'[t].attempts = Append(st[t].attempts, [agent |-> AgentOf(w), status |-> s])
  BY <1>1, <1>9
<1> QED BY <1>2, <1>3, <1>4, <1>5, <1>7, <1>8, <1>10 DEF Effect, TypeOK

(* RecordAgentError has that effect, whether or not it retires the agent. *)
LEMMA AgentErrorEffect ==
  ASSUME TypeOK, NEW w \in Workers, RecordAgentError(w),
         cur[w] \in Tasks, st[cur[w]].running, ~st[cur[w]].done
  PROVE  Effect(w, cur[w])
<1> DEFINE t == cur[w]
           a == AgentOf(w)
           r == recorded(st[t], a, "AgentError")
           S == [st EXCEPT ![t] = r]
           L == Live \ {a}
           R == resolve_unschedulable(S, L)
<1>1. st[t] \in TaskState /\ a \in Agents /\ "AgentError" \in AttemptStatus
  BY WorkerAgent DEF TypeOK, AttemptStatus
<1>2. /\ r \in TaskState /\ ~r.running /\ r.tried = st[t].tried \cup {a}
      /\ r.attempts = Append(st[t].attempts, [agent |-> a, status |-> "AgentError"])
      /\ (r.done <=> st[t].done)
  BY <1>1, RecordedFields
<1>3. /\ pc' = notify_all([pc EXCEPT ![w] = "loop"])
      /\ cur' = [cur EXCEPT ![w] = NoTask] /\ main' = main
      /\ IF alive[a]
         THEN /\ alive' = [alive EXCEPT ![a] = FALSE] /\ dead' = Append(dead, a)
              /\ st' = R /\ remaining' = remaining - Cardinality(Stranded(S, L))
         ELSE st' = S /\ UNCHANGED <<alive, dead, remaining>>
  BY DEF RecordAgentError, Holds
<1> HIDE DEF r
<1>4. S \in [Tasks -> TaskState] /\ S[t] = r /\ \A u \in Tasks : u # t => S[u] = st[u]
  BY <1>2 DEF TypeOK
<1>5. \E s \in AttemptStatus :
       S[t].attempts = Append(st[t].attempts, [agent |-> AgentOf(w), status |-> s])
  BY <1>1, <1>2, <1>4
<1> HIDE DEF S, L
<1>6. CASE ~alive[a]
  <2>1. st' = S /\ remaining' = remaining /\ alive' = alive /\ dead' = dead
    BY <1>3, <1>6
  <2>2. NewlyDone = {}
    BY <1>2, <1>4, <2>1 DEF NewlyDone
  <2>3. remaining' = remaining - Cardinality(NewlyDone)
    BY <2>1, <2>2, FS_EmptySet DEF TypeOK
  <2> QED BY <1>2, <1>3, <1>4, <1>5, <2>1, <2>3 DEF Effect, TypeOK
<1>7. CASE alive[a]
  <2>1. st' = R /\ remaining' = remaining - Cardinality(Stranded(S, L))
        /\ alive' = [alive EXCEPT ![a] = FALSE] /\ dead' = Append(dead, a)
    BY <1>3, <1>7
  <2>2. /\ R \in [Tasks -> TaskState]
        /\ \A u \in Tasks :
             /\ u \notin Stranded(S, L) => R[u] = S[u]
             /\ u \in Stranded(S, L) => R[u].done
             /\ R[u].failures = S[u].failures /\ R[u].tried = S[u].tried
             /\ (R[u].running <=> S[u].running) /\ R[u].attempts = S[u].attempts
    BY <1>4, ResolveFields
  <2>3. \A u \in Tasks : u \in Stranded(S, L) => ~S[u].done /\ ~S[u].running
    BY DEF Stranded
  <2>4. Stranded(S, L) \subseteq Tasks
    BY DEF Stranded
  <2> HIDE DEF R
  <2>5. NewlyDone = Stranded(S, L)
    BY <1>2, <1>4, <2>1, <2>2, <2>3, <2>4 DEF NewlyDone
  <2>6. alive' \in [Agents -> BOOLEAN] /\ dead' \in Seq(Agents)
        /\ \A b \in Agents : alive'[b] => alive[b]
    BY <1>1, <2>1 DEF TypeOK
  <2>7. \A u \in Tasks : u # t =>
          /\ (st'[u].running <=> st[u].running) /\ st'[u].tried = st[u].tried
          /\ st'[u].attempts = st[u].attempts /\ st'[u].failures = st[u].failures
          /\ st'[u] = st[u] \/ (~st[u].done /\ ~st[u].running /\ st'[u].done)
    BY <1>4, <2>1, <2>2, <2>3
  <2>8. \A u \in Tasks : st[u].done => st'[u] = st[u]
    BY <1>2, <1>4, <2>1, <2>2, <2>3
  <2>9. st' \in [Tasks -> TaskState] /\ ~st'[t].running
        /\ st'[t].tried = st[t].tried \cup {AgentOf(w)} /\ st'[t].attempts = S[t].attempts
    BY <1>2, <1>4, <2>1, <2>2
  <2> QED BY <1>3, <1>5, <2>1, <2>5, <2>6, <2>7, <2>8, <2>9 DEF Effect
<1> QED BY <1>6, <1>7

(* Every result has that effect. *)
LEMMA RecordEffect ==
  ASSUME TypeOK, CurValid, RunningExclusive, NEW w \in Workers, Record(w)
  PROVE  /\ cur[w] \in Tasks /\ Running(w, cur[w])
         /\ st[cur[w]].running /\ ~st[cur[w]].done
         /\ Effect(w, cur[w])
<1>1. pc[w] = "running"
  BY DEF Record, RecordPass, RecordFailure, RecordAgentError
<1>2. /\ cur[w] \in Tasks /\ Running(w, cur[w])
      /\ st[cur[w]].running /\ ~st[cur[w]].done
  BY <1>1 DEF CurValid, RunningExclusive, Running
<1>3. Effect(w, cur[w])
  BY <1>2, PassEffect, FailureEffect, AgentErrorEffect DEF Record
<1> QED BY <1>2, <1>3

-----------------------------------------------------------------------------
(* The core of the inductive invariant.                                    *)

(* No worker runs before execute() has created the threads. *)
NobodyBeforeStart == main = "start" => \A w \in Workers : pc[w] = "unborn"

Core ==
  TypeOK /\ CurValid /\ RunningExclusive /\ RemainingExact /\ NobodyBeforeStart

(* remaining_ follows the set of tasks without a verdict. *)
LEMMA RemainingStep ==
  ASSUME RemainingExact, remaining' = remaining - Cardinality(NewlyDone),
         \A u \in Tasks : st[u].done => st'[u].done
  PROVE  RemainingExact' /\ remaining' \in Nat
<1>1. IsFiniteSet(Pending) /\ NewlyDone \subseteq Pending
  BY TasksFinite, FS_Subset DEF Pending, NewlyDone
<1>2. Pending' = Pending \ NewlyDone
  BY DEF Pending, NewlyDone
<1>3. /\ IsFiniteSet(Pending \ NewlyDone)
      /\ Cardinality(Pending \ NewlyDone) = Cardinality(Pending) - Cardinality(Pending \cap NewlyDone)
  BY <1>1, FS_Difference
<1>4. Pending \cap NewlyDone = NewlyDone
  BY <1>1
<1>5. Cardinality(Pending \ NewlyDone) \in Nat
  BY <1>3, FS_CardinalityType
<1>6. remaining' = Cardinality(Pending')
  BY <1>2, <1>3, <1>4 DEF RemainingExact
<1> QED BY <1>2, <1>5, <1>6 DEF RemainingExact

(* The members of Run as the constructor leaves them satisfy Core. *)
LEMMA CoreInit == Init => Core
<1> SUFFICES ASSUME Init PROVE Core
  OBVIOUS
<1>1. TypeOK
  <2>1. ASSUME NEW t \in Tasks PROVE st[t] \in TaskState
    <3>1. st[t] = [failures |-> 0, tried |-> {}, running |-> FALSE, done |-> FALSE,
                   final |-> "Unschedulable", message |-> "", attempts |-> <<>>]
      BY DEF Init
    <3>2. <<>> \in Seq(AttemptRecord)
      OBVIOUS
    <3>3. PICK e : e = <<>>
      OBVIOUS
    <3>4. e \in Seq(AttemptRecord)
      BY <3>2, <3>3, Zenon
    <3>5. "Unschedulable" \in FinalStatus /\ "" \in Message
      BY DEF FinalStatus, Message
    <3>6. PICK f \in FinalStatus, m \in Message : f = "Unschedulable" /\ m = ""
      BY <3>5
    <3>7. st[t] = [failures |-> 0, tried |-> {}, running |-> FALSE, done |-> FALSE,
                   final |-> f, message |-> m, attempts |-> e]
      BY <3>1, <3>3, <3>6, Zenon
    <3> QED BY <3>4, <3>7 DEF TaskState
  <2>2. st \in [Tasks -> TaskState]
    BY <2>1 DEF Init
  <2>3. alive \in [Agents -> BOOLEAN]
    BY DEF Init
  <2>4. <<>> \in Seq(Agents)
    OBVIOUS
  <2>5. dead \in Seq(Agents) /\ main = "start"
    BY <2>4, Zenon DEF Init
  <2>6. remaining \in Nat
    BY SchedulerAssumption DEF Init, SchedulerAssumption
  <2>7. pc \in [Workers -> PcValues] /\ cur \in [Workers -> Tasks \cup {NoTask}]
    BY DEF Init, PcValues
  <2> QED BY <2>2, <2>3, <2>5, <2>6, <2>7 DEF TypeOK
<1>2. CurValid /\ RunningExclusive /\ NobodyBeforeStart
  BY DEF Init, CurValid, RunningExclusive, Running, NobodyBeforeStart
<1>3. RemainingExact
  <2>1. Pending = Tasks
    BY DEF Init, Pending
  <2> QED BY <2>1, TasksFinite DEF Init, RemainingExact
<1> QED BY <1>1, <1>2, <1>3 DEF Core

(* A result preserves the core. *)
LEMMA CoreRecord ==
  ASSUME Core, NEW w \in Workers, Record(w)
  PROVE  Core'
<1> DEFINE t == cur[w]
<1>0. TypeOK /\ CurValid /\ RunningExclusive /\ RemainingExact /\ NobodyBeforeStart
  BY DEF Core
<1>1. t \in Tasks /\ Running(w, t) /\ st[t].running /\ ~st[t].done /\ Effect(w, t)
  BY <1>0, RecordEffect
<1>2. RemainingExact' /\ remaining' \in Nat
  BY <1>0, <1>1, RemainingStep DEF Effect
<1> DEFINE p == [pc EXCEPT ![w] = "loop"]
<1>3. p \in [Workers -> PcValues] /\ p[w] = "loop" /\ \A v \in Workers : v # w => p[v] = pc[v]
  BY <1>0 DEF TypeOK, PcValues
<1>4. pc' = notify_all(p)
  BY <1>1 DEF Effect
<1> HIDE DEF p
<1>5. /\ pc' \in [Workers -> PcValues] /\ pc'[w] = "loop"
      /\ \A v \in Workers : v # w => (pc'[v] = "running" <=> pc[v] = "running")
      /\ \A v \in Workers : v # w => (pc'[v] = "unborn" <=> pc[v] = "unborn")
  BY <1>3, <1>4, NotifyFields
<1>6. /\ cur' \in [Workers -> Tasks \cup {NoTask}]
      /\ \A v \in Workers : v # w => cur'[v] = cur[v]
  BY <1>0, <1>1 DEF Effect, TypeOK
<1>7. TypeOK'
  BY <1>0, <1>1, <1>2, <1>5, <1>6 DEF TypeOK, Effect
<1>8. CurValid'
  BY <1>0, <1>5, <1>6 DEF CurValid
<1>9. \A v \in Workers, u \in Tasks : Running(v, u)' <=> Running(v, u) /\ v # w
  BY <1>5, <1>6 DEF Running
<1>10. \A u \in Tasks : u # t => (st'[u].running <=> st[u].running)
                               /\ (st'[u] = st[u] \/ ~st[u].running)
  BY <1>1 DEF Effect
<1>11. ~st'[t].running
  BY <1>1 DEF Effect
<1>12. RunningExclusive'
  <2>1. ASSUME NEW u \in Tasks
        PROVE  /\ st'[u].running <=> \E v \in Workers : Running(v, u)'
               /\ \A v, x \in Workers : Running(v, u)' /\ Running(x, u)' => v = x
               /\ ~(st'[u].running /\ st'[u].done)
    <3>1. CASE u = t
      BY <1>0, <1>1, <1>9, <1>11, <3>1 DEF RunningExclusive
    <3>2. CASE u # t
      <4>1. ~Running(w, u)
        BY <1>1, <3>2 DEF Running
      <4> QED BY <1>0, <1>9, <1>10, <3>2, <4>1 DEF RunningExclusive
    <3> QED BY <3>1, <3>2
  <2> QED BY <2>1 DEF RunningExclusive
<1>13. NobodyBeforeStart'
  BY <1>0, <1>1, <1>5 DEF NobodyBeforeStart, Effect, Running
<1> QED BY <1>2, <1>7, <1>8, <1>12, <1>13 DEF Core

(* Every stretch of code under the mutex preserves Core: one step per action. *)
LEMMA CoreStep == Core /\ [Next]_vars => Core'
<1> SUFFICES ASSUME Core, [Next]_vars PROVE Core'
  OBVIOUS
<1>0. TypeOK /\ CurValid /\ RunningExclusive /\ RemainingExact /\ NobodyBeforeStart
  BY DEF Core
<1>1. CASE StartWorkers
  <2> DEFINE R == resolve_unschedulable(st, Live)
  <2>1. /\ st' = R /\ remaining' = remaining - Cardinality(Stranded(st, Live))
        /\ pc' = [w \in Workers |-> "ready"] /\ main' = "joining"
        /\ UNCHANGED <<alive, dead, cur>>
    BY <1>1 DEF StartWorkers
  <2>2. /\ R \in [Tasks -> TaskState]
        /\ \A u \in Tasks :
             /\ u \notin Stranded(st, Live) => R[u] = st[u]
             /\ u \in Stranded(st, Live) => R[u].done
             /\ (R[u].running <=> st[u].running)
    BY <1>0, ResolveFields DEF TypeOK
  <2> HIDE DEF R
  <2>3. NewlyDone = Stranded(st, Live)
    BY <2>1, <2>2 DEF NewlyDone, Stranded
  <2>4. RemainingExact' /\ remaining' \in Nat
    BY <1>0, <2>1, <2>2, <2>3, RemainingStep
  <2>5. TypeOK'
    BY <1>0, <2>1, <2>2, <2>4 DEF TypeOK, PcValues
  <2>6. \A w \in Workers : pc[w] # "running" /\ pc'[w] # "running"
    BY <1>0, <1>1, <2>1 DEF StartWorkers, NobodyBeforeStart
  <2>7. \A u \in Tasks : ~st[u].running
    BY <1>0, <2>6 DEF RunningExclusive, Running
  <2>8. CurValid' /\ RunningExclusive' /\ NobodyBeforeStart'
    BY <2>1, <2>2, <2>6, <2>7 DEF CurValid, RunningExclusive, Running, NobodyBeforeStart
  <2> QED BY <2>4, <2>5, <2>8 DEF Core
<1>2. CASE JoinWorkers
  BY <1>0, <1>2 DEF JoinWorkers, Core, TypeOK, CurValid, RunningExclusive, Running,
                    RemainingExact, Pending, NobodyBeforeStart
<1>3. ASSUME NEW w \in Workers, Loop(w) PROVE Core'
  <2>1. pc[w] \in {"ready", "loop"}
    BY <1>3 DEF Loop, Exit, Wait, Claim, AtLoopHead
  <2>2. CASE Exit(w)
    <3> DEFINE p == [pc EXCEPT ![w] = "exited"]
    <3>1. pc' = notify_all(p) /\ UNCHANGED <<st, alive, dead, remaining, cur, main>>
      BY <2>2 DEF Exit
    <3>2. p \in [Workers -> PcValues] /\ p[w] = "exited"
          /\ \A v \in Workers : v # w => p[v] = pc[v]
      BY <1>0 DEF TypeOK, PcValues
    <3> HIDE DEF p
    <3>3. /\ pc' \in [Workers -> PcValues]
          /\ \A v \in Workers : (pc'[v] = "running" <=> pc[v] = "running")
          /\ \A v \in Workers : pc[v] = "unborn" => v # w /\ pc'[v] = "unborn"
      BY <2>1, <3>1, <3>2, NotifyFields
    <3> QED BY <1>0, <2>1, <3>1, <3>3 DEF Core, TypeOK, CurValid, RunningExclusive, Running,
                    RemainingExact, Pending, NobodyBeforeStart
  <2>3. CASE Wait(w)
    <3>1. /\ pc' \in [Workers -> PcValues]
          /\ \A v \in Workers : (pc'[v] = "running" <=> pc[v] = "running")
          /\ \A v \in Workers : pc[v] = "unborn" => v # w /\ pc'[v] = "unborn"
      BY <1>0, <2>1, <2>3 DEF TypeOK, PcValues, Wait
    <3>2. UNCHANGED <<st, alive, dead, remaining, cur, main>>
      BY <2>3 DEF Wait
    <3> QED BY <1>0, <2>1, <3>1, <3>2 DEF Core, TypeOK, CurValid, RunningExclusive, Running,
                    RemainingExact, Pending, NobodyBeforeStart
  <2>4. CASE Claim(w)
    <3>1. PICK t \in Tasks : /\ pick(st, Live, AgentOf(w), t)
                             /\ st' = [st EXCEPT ![t].running = TRUE]
                             /\ cur' = [cur EXCEPT ![w] = t]
      BY <2>4 DEF Claim
    <3>2. pc' = [pc EXCEPT ![w] = "running"] /\ UNCHANGED <<alive, dead, remaining, main>>
      BY <2>4 DEF Claim
    <3>3. ~st[t].done /\ ~st[t].running
      BY <3>1 DEF pick, Eligible
    <3>4. /\ st' \in [Tasks -> TaskState] /\ st'[t].running
          /\ \A u \in Tasks : (st'[u].done <=> st[u].done) /\ (u # t => st'[u] = st[u])
      BY <1>0, <3>1 DEF TypeOK, TaskState
    <3>5. TypeOK'
      BY <1>0, <3>1, <3>2, <3>4 DEF TypeOK, PcValues
    <3>6. /\ \A v \in Workers : v # w => pc'[v] = pc[v] /\ cur'[v] = cur[v]
          /\ pc'[w] = "running" /\ cur'[w] = t
      BY <1>0, <3>1, <3>2 DEF TypeOK
    <3>7. CurValid'
      BY <1>0, <3>6 DEF CurValid
    <3>8. Pending' = Pending
      BY <3>4 DEF Pending
    <3>9. RemainingExact'
      BY <1>0, <3>2, <3>8 DEF RemainingExact
    <3>10. \A v \in Workers, u \in Tasks :
             Running(v, u)' <=> (v # w /\ Running(v, u)) \/ (v = w /\ u = t)
      BY <3>6 DEF Running
    <3>11. \A u \in Tasks : ~Running(w, u)
      BY <2>1 DEF Running
    <3>12. RunningExclusive'
      <4>1. ASSUME NEW u \in Tasks
            PROVE  /\ st'[u].running <=> \E v \in Workers : Running(v, u)'
                   /\ \A v, x \in Workers : Running(v, u)' /\ Running(x, u)' => v = x
                   /\ ~(st'[u].running /\ st'[u].done)
        <5>1. CASE u = t
          <6>1. \A v \in Workers : ~Running(v, t)
            BY <1>0, <3>3 DEF RunningExclusive
          <6> QED BY <3>3, <3>4, <3>10, <5>1, <6>1
        <5>2. CASE u # t
          BY <1>0, <3>4, <3>10, <3>11, <5>2 DEF RunningExclusive
        <5> QED BY <5>1, <5>2
      <4> QED BY <4>1 DEF RunningExclusive
    <3>13. NobodyBeforeStart'
      BY <1>0, <2>1, <3>2 DEF NobodyBeforeStart
    <3> QED BY <3>5, <3>7, <3>9, <3>12, <3>13 DEF Core
  <2> QED BY <1>3, <2>2, <2>3, <2>4 DEF Loop
<1>4. ASSUME NEW w \in Workers, Record(w) PROVE Core'
  BY <1>4, CoreRecord
<1>5. ASSUME NEW w \in Workers, SpuriousWake(w) PROVE Core'
  <2>1. /\ pc' \in [Workers -> PcValues]
        /\ \A v \in Workers : (pc'[v] = "running" <=> pc[v] = "running")
        /\ \A v \in Workers : pc[v] = "unborn" => v # w /\ pc'[v] = "unborn"
    BY <1>0, <1>5 DEF TypeOK, PcValues, SpuriousWake
  <2>2. pc[w] = "waiting" /\ UNCHANGED <<st, alive, dead, remaining, cur, main>>
    BY <1>5 DEF SpuriousWake
  <2> QED BY <1>0, <2>1, <2>2 DEF Core, TypeOK, CurValid, RunningExclusive, Running,
                    RemainingExact, Pending, NobodyBeforeStart
<1>6. CASE UNCHANGED vars
  BY <1>0, <1>6 DEF vars, Core, TypeOK, CurValid, RunningExclusive, Running,
                    RemainingExact, Pending, NobodyBeforeStart
<1> QED BY <1>1, <1>2, <1>3, <1>4, <1>5, <1>6 DEF Next, Returned

(* The flags, the counter and the threads' positions agree in every        *)
(* reachable state of every fleet.                                         *)
THEOREM CoreInvariant == Spec => []Core
BY CoreInit, CoreStep, PTL DEF Spec

(* Type correctness, with remaining_ never below zero. *)
THEOREM TypeCorrect == Spec => []TypeOK
<1>1. Core => TypeOK
  BY DEF Core
<1> QED BY <1>1, CoreInvariant, PTL

(* Two workers never run the same task at the same time. *)
THEOREM RunsAreExclusive == Spec => []RunningExclusive
<1>1. Core => RunningExclusive
  BY DEF Core
<1> QED BY <1>1, CoreInvariant, PTL

(* remaining_ is the number of tasks without a verdict. *)
THEOREM RemainingIsExact == Spec => []RemainingExact
<1>1. Core => RemainingExact
  BY DEF Core
<1> QED BY <1>1, CoreInvariant, PTL

-----------------------------------------------------------------------------
(* A step of the scheduler, seen by the proofs below.                      *)

(* The table after Claim(w) took t: only the flag of t changes. *)
ClaimOf(w, t) ==
  /\ t \in Eligible(st, Live, AgentOf(w)) /\ alive[AgentOf(w)]
  /\ st' = [st EXCEPT ![t].running = TRUE]
  /\ pc' = [pc EXCEPT ![w] = "running"] /\ cur' = [cur EXCEPT ![w] = t]
  /\ UNCHANGED <<alive, dead, remaining, main>>

(* A claim picks some task for its worker. *)
LEMMA ClaimIs ==
  ASSUME NEW w \in Workers, Claim(w)
  PROVE  \E t \in Tasks : ClaimOf(w, t)
BY DEF Claim, ClaimOf, pick, LoopCondition

(* What a claim leaves as it was. *)
LEMMA ClaimFields ==
  ASSUME TypeOK, NEW w \in Workers, NEW t \in Tasks, ClaimOf(w, t)
  PROVE  \A u \in Tasks :
           /\ st'[u].tried = st[u].tried /\ st'[u].attempts = st[u].attempts
           /\ st'[u].final = st[u].final /\ st'[u].message = st[u].message
           /\ st'[u].failures = st[u].failures
           /\ (st'[u].done <=> st[u].done) /\ (st[u].running => st'[u].running)
           /\ (u # t => st'[u] = st[u])
BY DEF TypeOK, ClaimOf, TaskState

(* A verdict is final. *)
LEMMA DoneStep ==
  Core /\ [Next]_vars => \A t \in Tasks : st[t].done => st'[t] = st[t]
<1> SUFFICES ASSUME Core, [Next]_vars, NEW t \in Tasks, st[t].done
             PROVE  st'[t] = st[t]
  OBVIOUS
<1>0. TypeOK /\ CurValid /\ RunningExclusive
  BY DEF Core
<1>1. CASE StartWorkers
  <2>1. st' = resolve_unschedulable(st, Live) /\ t \notin Stranded(st, Live)
    BY <1>1 DEF StartWorkers, Stranded
  <2> QED BY <2>1 DEF resolve_unschedulable
<1>2. ASSUME NEW w \in Workers, Claim(w) PROVE st'[t] = st[t]
  <2>1. PICK u \in Tasks : ClaimOf(w, u)
    BY <1>2, ClaimIs
  <2>2. u # t
    BY <2>1 DEF ClaimOf, Eligible
  <2> QED BY <1>0, <2>1, <2>2, ClaimFields
<1>3. ASSUME NEW w \in Workers, Record(w) PROVE st'[t] = st[t]
  BY <1>0, <1>3, RecordEffect DEF Effect
<1>4. CASE st' = st
  BY <1>4
<1> QED BY <1>1, <1>2, <1>3, <1>4
        DEF Next, Loop, Exit, Wait, SpuriousWake, JoinWorkers, Returned, vars

(* No late result and no later retirement changes a finished task. *)
THEOREM OutcomesAreFinal == Spec => OutcomeFinal
<1>1. Core /\ [Next]_vars => [\A t \in Tasks : st[t].done => st'[t] = st[t]]_st
  BY DoneStep
<1> QED BY <1>1, CoreInvariant, PTL DEF Spec, OutcomeFinal

-----------------------------------------------------------------------------
(* The condition variable.                                                 *)

(* Every step that can give a waiting worker something to do ends in notify_all. *)
LEMMA WakeupStep ==
  TypeOK /\ NoLostWakeup /\ Core /\ [Next]_vars => NoLostWakeup'
<1> SUFFICES ASSUME TypeOK, NoLostWakeup, Core, [Next]_vars PROVE NoLostWakeup'
  OBVIOUS
<1>1. CASE StartWorkers
  BY <1>1 DEF StartWorkers, NoLostWakeup
<1>2. ASSUME NEW w \in Workers, Record(w) PROVE NoLostWakeup'
  <2> DEFINE p == [pc EXCEPT ![w] = "loop"]
  <2>1. pc' = notify_all(p) /\ p \in [Workers -> PcValues]
    BY <1>2, RecordEffect DEF Core, Effect, TypeOK, PcValues
  <2> HIDE DEF p
  <2>2. \A v \in Workers : pc'[v] # "waiting"
    BY <2>1, NotifyFields
  <2> QED BY <2>2 DEF NoLostWakeup
<1>3. ASSUME NEW w \in Workers, Exit(w) PROVE NoLostWakeup'
  <2> DEFINE p == [pc EXCEPT ![w] = "exited"]
  <2>1. pc' = notify_all(p) /\ p \in [Workers -> PcValues]
    BY <1>3 DEF Exit, TypeOK, PcValues
  <2> HIDE DEF p
  <2>2. \A v \in Workers : pc'[v] # "waiting"
    BY <2>1, NotifyFields
  <2> QED BY <2>2 DEF NoLostWakeup
<1>4. ASSUME NEW w \in Workers, Wait(w) PROVE NoLostWakeup'
  <2>1. UNCHANGED <<st, alive, remaining>> /\ pc' = [pc EXCEPT ![w] = "waiting"]
        /\ LoopCondition(w) /\ Eligible(st, Live, AgentOf(w)) = {}
    BY <1>4 DEF Wait
  <2>2. Live' = Live
    BY <2>1 DEF Live
  <2>3. \A v \in Workers : pc'[v] = "waiting" => v = w \/ pc[v] = "waiting"
    BY <2>1 DEF TypeOK
  <2>4. \A v \in Workers : (LoopCondition(v)' <=> LoopCondition(v))
    BY <2>1 DEF LoopCondition
  <2> QED BY <2>1, <2>2, <2>3, <2>4 DEF NoLostWakeup
<1>5. ASSUME NEW w \in Workers, Claim(w) PROVE NoLostWakeup'
  <2>1. PICK t \in Tasks : ClaimOf(w, t)
    BY <1>5, ClaimIs
  <2>2. Live' = Live /\ \A v \in Workers : (LoopCondition(v)' <=> LoopCondition(v))
    BY <2>1 DEF ClaimOf, Live, LoopCondition
  <2>3. \A v \in Workers : pc'[v] = "waiting" => pc[v] = "waiting"
    BY <2>1 DEF ClaimOf, TypeOK
  <2>4. \A u \in Tasks : /\ st'[u].tried = st[u].tried
                         /\ (st'[u].done <=> st[u].done)
                         /\ (st[u].running => st'[u].running)
    BY <2>1, ClaimFields
  <2>5. \A a \in Agents, u \in Tasks :
          has_fresh_candidate(st', Live, u, a) <=> has_fresh_candidate(st, Live, u, a)
    BY <2>4 DEF has_fresh_candidate
  <2>6. \A a \in Agents : Eligible(st', Live, a) \subseteq Eligible(st, Live, a)
    BY <2>4, <2>5 DEF Eligible
  <2>7. \A v \in Workers : AgentOf(v) \in Agents
    BY WorkerAgent
  <2>8. \A v \in Workers : pc'[v] = "waiting" =>
          LoopCondition(v)' /\ Eligible(st', Live', AgentOf(v)) = {}
    BY <2>2, <2>3, <2>6, <2>7 DEF NoLostWakeup
  <2> QED BY <2>8 DEF NoLostWakeup
<1>6. CASE UNCHANGED <<st, alive, remaining>> /\ \A v \in Workers : pc'[v] = "waiting" => pc[v] = "waiting"
  BY <1>6 DEF NoLostWakeup, LoopCondition, Live
<1>7. ASSUME NEW w \in Workers, SpuriousWake(w) PROVE NoLostWakeup'
  <2>1. \A v \in Workers : pc'[v] = "waiting" => pc[v] = "waiting"
    BY <1>7 DEF SpuriousWake, TypeOK
  <2> QED BY <1>6, <1>7, <2>1 DEF SpuriousWake
<1>8. CASE JoinWorkers \/ UNCHANGED vars
  BY <1>6, <1>8 DEF JoinWorkers, vars
<1> QED BY <1>1, <1>2, <1>3, <1>4, <1>5, <1>7, <1>8 DEF Next, Loop, Returned

(* No worker sleeps on the condition variable while it has work to do or   *)
(* should leave its loop.                                                  *)
THEOREM WakeupsAreNotLost == Spec => []NoLostWakeup
<1>1. Init => NoLostWakeup
  BY DEF Init, NoLostWakeup
<1>2. Core => TypeOK
  BY DEF Core
<1> QED BY <1>1, <1>2, WakeupStep, CoreInvariant, PTL DEF Spec

-----------------------------------------------------------------------------
(* Giving up.                                                              *)

GivenUp(u) ==
  st[u].done /\ st[u].final = "Unschedulable" =>
    (\A a \in Live : ~able(a, u)) /\ st[u].message = Explanation(u)

(* A task that a result leaves unschedulable cannot be run by anybody who  *)
(* is alive after the result.                                              *)
LEMMA RecordGivesUp ==
  ASSUME Core, NEW w \in Workers, Record(w), NEW u \in Tasks, ~st[u].done
  PROVE  GivenUp(u)'
<1>0. TypeOK /\ CurValid /\ RunningExclusive
  BY DEF Core
<1> DEFINE t == cur[w]
           a == AgentOf(w)
<1>1. t \in Tasks /\ ~st[t].done /\ st[t] \in TaskState /\ a \in Agents
  BY <1>0, RecordEffect, WorkerAgent DEF TypeOK
<1>2. CASE RecordPass(w)
  <2>1. st' = [st EXCEPT ![t] = finish(recorded(st[t], a, "Passed"), "Passed", "")]
    BY <1>2 DEF RecordPass
  <2>2. CASE u = t
    <3>1. st'[u] = finish(recorded(st[t], a, "Passed"), "Passed", "")
      BY <1>0, <1>1, <2>1, <2>2 DEF TypeOK
    <3>2. PICK p \in AttemptStatus, f \in FinalStatus, m \in Message :
            p = "Passed" /\ f = "Passed" /\ m = ""
      BY DEF AttemptStatus, FinalStatus, Message
    <3>3. recorded(st[t], a, p) \in TaskState
      BY <1>1, RecordedFields
    <3>4. finish(recorded(st[t], a, p), f, m).final = f
      BY <3>3, FinishFields
    <3>5. st'[u].final = "Passed"
      BY <3>1, <3>2, <3>4
    <3> QED BY <3>5 DEF GivenUp
  <2>3. CASE u # t
    BY <1>0, <2>1, <2>3 DEF TypeOK, GivenUp
  <2> QED BY <2>2, <2>3
<1>3. ASSUME NEW f \in TestFailure, RecordFailure(w, f) PROVE GivenUp(u)'
  <2> DEFINE r == recorded(st[t], a, f)
             n == spent(r, f, Retries[t])
  <2>1. st' = [st EXCEPT ![t] = n]
    BY <1>3 DEF RecordFailure
  <2>2. r \in TaskState /\ ~r.done
    <3>1. f \in AttemptStatus
      BY DEF TestFailure, AttemptStatus
    <3> QED BY <1>1, <3>1, RecordedFields
  <2>3. Retries[t] \in Nat
    BY <1>1, SchedulerAssumption DEF SchedulerAssumption
  <2> HIDE DEF r
  <2>4. n.done => n.final = f
    <3>1. CASE r.failures + 1 > Retries[t]
      BY <2>2, <2>3, <3>1, SpentFields
    <3>2. CASE ~(r.failures + 1 > Retries[t])
      BY <2>2, <2>3, <3>2, SpentFields
    <3> QED BY <3>1, <3>2
  <2> HIDE DEF n
  <2>5. f # "Unschedulable"
    BY DEF TestFailure
  <2>6. CASE u = t
    BY <1>0, <1>1, <2>1, <2>4, <2>5, <2>6 DEF TypeOK, GivenUp
  <2>7. CASE u # t
    BY <1>0, <2>1, <2>7 DEF TypeOK, GivenUp
  <2> QED BY <2>6, <2>7
<1>4. CASE RecordAgentError(w)
  <2> DEFINE r == recorded(st[t], a, "AgentError")
             S == [st EXCEPT ![t] = r]
             L == Live \ {a}
             R == resolve_unschedulable(S, L)
  <2>1. PICK p \in AttemptStatus : p = "AgentError"
    BY DEF AttemptStatus
  <2>2. recorded(st[t], a, p) \in TaskState /\ ~recorded(st[t], a, p).done
    BY <1>1, RecordedFields
  <2>3. r \in TaskState /\ ~r.done
    BY <2>1, <2>2, Zenon
  <2>4. IF alive[a]
        THEN alive' = [alive EXCEPT ![a] = FALSE] /\ st' = R
        ELSE st' = S
    BY <1>4 DEF RecordAgentError
  <2> HIDE DEF r
  <2>5. S \in [Tasks -> TaskState] /\ ~S[u].done
    BY <1>0, <1>1, <2>3 DEF TypeOK
  <2> HIDE DEF S
  <2>6. CASE ~alive[a]
    BY <2>4, <2>5, <2>6 DEF GivenUp
  <2>7. CASE alive[a]
    <3>1. alive' = [alive EXCEPT ![a] = FALSE] /\ st' = R
      BY <2>4, <2>7
    <3>2. Live' = L
      BY <1>0, <1>1, <3>1 DEF Live, TypeOK
    <3> HIDE DEF L
    <3>3. /\ u \notin Stranded(S, L) => R[u] = S[u]
          /\ u \in Stranded(S, L) => R[u].message = Explanation(u)
      BY <2>5, ResolveFields
    <3>4. u \in Stranded(S, L) => \A b \in L : ~able(b, u)
      BY DEF Stranded
    <3> QED BY <2>5, <3>1, <3>2, <3>3, <3>4 DEF GivenUp, Explanation
  <2> QED BY <2>6, <2>7
<1> QED BY <1>2, <1>3, <1>4 DEF Record

(* Agents only ever leave the fleet. *)
LEMMA LiveShrinks == Core /\ [Next]_vars => Live' \subseteq Live
<1> SUFFICES ASSUME Core, [Next]_vars PROVE Live' \subseteq Live
  OBVIOUS
<1>1. ASSUME NEW w \in Workers, Record(w) PROVE Live' \subseteq Live
  BY <1>1, RecordEffect DEF Core, Effect, Live
<1>2. CASE alive' = alive
  BY <1>2 DEF Live
<1> QED BY <1>1, <1>2 DEF Next, Loop, Exit, Wait, Claim, SpuriousWake, JoinWorkers,
                          StartWorkers, Returned, vars

(* Unschedulable is written only where no live agent is able to run the task, *)
(* and agents do not come back to life.                                       *)
LEMMA GivenUpStep == Core /\ GivenUpJustified /\ [Next]_vars => GivenUpJustified'
<1> SUFFICES ASSUME Core, GivenUpJustified, [Next]_vars, NEW t \in Tasks PROVE GivenUp(t)'
  BY DEF GivenUpJustified, GivenUp
<1>0. TypeOK /\ CurValid /\ RunningExclusive
  BY DEF Core
<1>1. CASE st[t].done
  <2>1. st'[t] = st[t] /\ Live' \subseteq Live
    BY <1>1, DoneStep, LiveShrinks
  <2> QED BY <1>1, <2>1 DEF GivenUpJustified, GivenUp, Explanation
<1>2. CASE ~st[t].done
  <2>1. CASE StartWorkers
    <3>1. st' = resolve_unschedulable(st, Live) /\ Live' = Live
      BY <2>1 DEF StartWorkers, Live
    <3>2. /\ t \notin Stranded(st, Live) => st'[t] = st[t]
          /\ t \in Stranded(st, Live) => st'[t].message = Explanation(t)
      BY <1>0, <3>1, ResolveFields DEF TypeOK
    <3>3. t \in Stranded(st, Live) => \A a \in Live : ~able(a, t)
      BY DEF Stranded
    <3> QED BY <1>2, <3>1, <3>2, <3>3 DEF GivenUp, Explanation
  <2>2. ASSUME NEW w \in Workers, Record(w) PROVE GivenUp(t)'
    BY <1>2, <2>2, RecordGivesUp
  <2>3. ASSUME NEW w \in Workers, Claim(w) PROVE GivenUp(t)'
    <3>1. PICK u \in Tasks : ClaimOf(w, u)
      BY <2>3, ClaimIs
    <3>2. ~st'[t].done
      BY <1>0, <1>2, <3>1, ClaimFields
    <3> QED BY <3>2 DEF GivenUp
  <2>4. CASE st' = st
    BY <1>2, <2>4 DEF GivenUp
  <2> QED BY <2>1, <2>2, <2>3, <2>4
          DEF Next, Loop, Exit, Wait, SpuriousWake, JoinWorkers, Returned, vars
<1> QED BY <1>1, <1>2

(* A task is given up only when no live agent can run it. *)
THEOREM GivingUpIsJustified == Spec => []GivenUpJustified
<1>1. Init => GivenUpJustified
  <2> SUFFICES ASSUME Init PROVE GivenUpJustified
    OBVIOUS
  <2>1. \A t \in Tasks : ~st[t].done
    BY DEF Init
  <2> QED BY <2>1 DEF GivenUpJustified
<1> QED BY <1>1, GivenUpStep, CoreInvariant, PTL DEF Spec

-----------------------------------------------------------------------------
(* What execute() returns.                                                 *)

(* A worker that left its loop had a reason that still holds, and the      *)
(* threads are joined before execute() returns.                            *)
ExitJustified ==
  /\ \A w \in Workers : pc[w] = "exited" => ~LoopCondition(w)
  /\ main = "returned" => \A w \in Workers : pc[w] = "exited"

(* A worker leaves its loop only when the loop condition is false, and it     *)
(* stays false; execute() returns once all of them have left.                 *)
LEMMA ExitStep == Core /\ ExitJustified /\ [Next]_vars => ExitJustified'
<1> SUFFICES ASSUME Core, ExitJustified, [Next]_vars PROVE ExitJustified'
  OBVIOUS
<1>0. TypeOK /\ CurValid /\ RunningExclusive /\ RemainingExact
  BY DEF Core
<1>1. ASSUME remaining' \in Nat, remaining' <= remaining,
             \A a \in Agents : alive'[a] => alive[a]
      PROVE  \A w \in Workers : ~LoopCondition(w) => ~LoopCondition(w)'
  BY <1>0, <1>1, WorkerAgent DEF LoopCondition, TypeOK
<1>2. CASE StartWorkers
  BY <1>2 DEF StartWorkers, ExitJustified
<1>3. CASE JoinWorkers
  BY <1>3 DEF JoinWorkers, ExitJustified, LoopCondition
<1>4. ASSUME NEW w \in Workers, Record(w) PROVE ExitJustified'
  <2> DEFINE p == [pc EXCEPT ![w] = "loop"]
  <2>1. Effect(w, cur[w]) /\ pc[w] = "running"
    BY <1>0, <1>4, RecordEffect DEF Running
  <2>2. pc' = notify_all(p) /\ p \in [Workers -> PcValues] /\ p[w] = "loop"
        /\ \A v \in Workers : v # w => p[v] = pc[v]
    BY <1>0, <2>1 DEF Effect, TypeOK, PcValues
  <2> HIDE DEF p
  <2>3. \A v \in Workers : pc'[v] = "exited" => pc[v] = "exited"
    BY <2>2, NotifyFields
  <2>4. remaining' \in Nat /\ \A u \in Tasks : st[u].done => st'[u].done
    BY <1>0, <2>1, RemainingStep DEF Effect
  <2>5. Cardinality(NewlyDone) \in Nat
    <3>1. NewlyDone \subseteq Tasks
      BY DEF NewlyDone
    <3> QED BY <3>1, TasksFinite, FS_Subset, FS_CardinalityType
  <2>6. remaining' <= remaining
    BY <1>0, <2>1, <2>4, <2>5 DEF Effect, TypeOK
  <2>7. \A v \in Workers : ~LoopCondition(v) => ~LoopCondition(v)'
    BY <1>1, <2>1, <2>4, <2>6 DEF Effect
  <2>8. main' # "returned"
    BY <2>1 DEF Effect, ExitJustified
  <2> QED BY <2>3, <2>7, <2>8 DEF ExitJustified
<1>5. ASSUME NEW w \in Workers, Exit(w) PROVE ExitJustified'
  <2> DEFINE p == [pc EXCEPT ![w] = "exited"]
  <2>1. pc' = notify_all(p) /\ p \in [Workers -> PcValues] /\ p[w] = "exited"
        /\ \A v \in Workers : v # w => p[v] = pc[v]
    BY <1>0, <1>5 DEF Exit, TypeOK, PcValues
  <2> HIDE DEF p
  <2>2. \A v \in Workers : pc'[v] = "exited" => v = w \/ pc[v] = "exited"
    BY <2>1, NotifyFields
  <2>3. ~LoopCondition(w) /\ UNCHANGED <<alive, remaining, main>> /\ pc[w] # "exited"
    BY <1>5 DEF Exit, AtLoopHead
  <2>4. \A v \in Workers : LoopCondition(v)' <=> LoopCondition(v)
    BY <2>3 DEF LoopCondition
  <2>5. main' # "returned"
    BY <2>3 DEF ExitJustified
  <2> QED BY <2>2, <2>3, <2>4, <2>5 DEF ExitJustified
<1>6. ASSUME NEW w \in Workers, Wait(w) \/ Claim(w) \/ SpuriousWake(w) PROVE ExitJustified'
  <2>1. UNCHANGED <<alive, remaining, main>> /\ pc[w] # "exited"
    BY <1>6 DEF Wait, Claim, SpuriousWake, AtLoopHead
  <2>2. \A v \in Workers : pc'[v] = "exited" => pc[v] = "exited"
    BY <1>0, <1>6 DEF Wait, Claim, SpuriousWake, TypeOK
  <2>3. \A v \in Workers : LoopCondition(v)' <=> LoopCondition(v)
    BY <2>1 DEF LoopCondition
  <2> QED BY <2>1, <2>2, <2>3 DEF ExitJustified
<1>7. CASE UNCHANGED vars
  BY <1>7 DEF vars, ExitJustified, LoopCondition
<1> QED BY <1>2, <1>3, <1>4, <1>5, <1>6, <1>7 DEF Next, Loop, Returned

(* Whatever execute() reports without a test verdict, no agent still alive *)
(* could have run.                                                         *)
THEOREM ReturnIsJustified == Spec => []ReturnJustified
<1>1. Init => ExitJustified
  BY DEF Init, ExitJustified
<1>2. Core /\ ExitJustified /\ GivenUpJustified => ReturnJustified
  <2> SUFFICES ASSUME Core, ExitJustified, GivenUpJustified, main = "returned",
                      NEW t \in Tasks, st[t].final = "Unschedulable",
                      NEW a \in Live, able(a, t)
               PROVE  FALSE
    BY DEF ReturnJustified
  <2>1. a \in Agents /\ alive[a]
    BY DEF Live
  <2>2. <<a, 1>> \in Workers
    <3>1. slots(a) \in Nat \ {0}
      BY <2>1, SchedulerAssumption DEF slots, SchedulerAssumption
    <3> QED BY <2>1, <3>1 DEF Workers
  <2>3. AgentOf(<<a, 1>>) = a
    BY DEF AgentOf
  <2>4. ~LoopCondition(<<a, 1>>)
    BY <2>2 DEF ExitJustified
  <2>5. remaining = 0
    BY <2>1, <2>3, <2>4 DEF LoopCondition, Core, TypeOK
  <2>6. IsFiniteSet(Pending)
    BY TasksFinite, FS_Subset DEF Pending
  <2>7. Pending = {}
    BY <2>5, <2>6, FS_EmptySet DEF Core, RemainingExact
  <2>8. st[t].done
    BY <2>7 DEF Pending
  <2> QED BY <2>8 DEF GivenUpJustified
<1> QED BY <1>1, <1>2, ExitStep, GivingUpIsJustified, CoreInvariant, PTL DEF Spec

-----------------------------------------------------------------------------
(* Retirement.                                                             *)

(* dead_ grows exactly when alive_ goes from true to false. *)
LEMMA RetireStep == Core /\ RetiredOnce /\ [Next]_vars => RetiredOnce'
<1> SUFFICES ASSUME Core, RetiredOnce, [Next]_vars PROVE RetiredOnce'
  OBVIOUS
<1>0. TypeOK
  BY DEF Core
<1>1. CASE UNCHANGED <<alive, dead>>
  BY <1>1 DEF RetiredOnce, Live
<1>2. ASSUME NEW w \in Workers, RecordAgentError(w) PROVE RetiredOnce'
  <2> DEFINE a == AgentOf(w)
  <2>1. a \in Agents
    BY WorkerAgent
  <2>2. CASE ~alive[a]
    BY <1>1, <1>2, <2>2 DEF RecordAgentError
  <2>3. CASE alive[a]
    <3>1. alive' = [alive EXCEPT ![a] = FALSE] /\ dead' = Append(dead, a)
      BY <1>2, <2>3 DEF RecordAgentError
    <3>2. /\ Len(dead) \in Nat /\ DOMAIN dead = 1..Len(dead)
          /\ DOMAIN dead' = 1..(Len(dead) + 1)
          /\ \A i \in 1..Len(dead) : dead'[i] = dead[i]
          /\ dead'[Len(dead) + 1] = a
      BY <1>0, <2>1, <3>1 DEF TypeOK
    <3>3. Live' = Live \ {a} /\ a \in Live
      BY <1>0, <2>1, <2>3, <3>1 DEF Live, TypeOK
    <3>4. \A i \in DOMAIN dead : dead[i] # a
      BY <3>3 DEF RetiredOnce
    <3>5. \A i, j \in DOMAIN dead' : dead'[i] = dead'[j] => i = j
      BY <3>2, <3>4 DEF RetiredOnce
    <3>6. {dead'[i] : i \in DOMAIN dead'} = {dead[i] : i \in DOMAIN dead} \cup {a}
      BY <3>2
    <3>7. {dead'[i] : i \in DOMAIN dead'} = Agents \ Live'
      BY <2>1, <3>3, <3>6 DEF RetiredOnce
    <3> QED BY <3>5, <3>7 DEF RetiredOnce
  <2> QED BY <2>2, <2>3
<1> QED BY <1>1, <1>2 DEF Next, Loop, Exit, Wait, Claim, SpuriousWake, Record, RecordPass,
            RecordFailure, StartWorkers, JoinWorkers, Returned, vars

(* Every retired agent is listed once, every listed agent is retired. *)
THEOREM RetirementsAreListedOnce == Spec => []RetiredOnce
<1>1. Init => RetiredOnce
  <2> SUFFICES ASSUME Init PROVE RetiredOnce
    OBVIOUS
  <2>1. Live = Agents
    BY DEF Init, Live
  <2>2. DOMAIN <<>> = {}
    OBVIOUS
  <2>3. DOMAIN dead = {}
    BY <2>2, Zenon DEF Init
  <2> QED BY <2>1, <2>3 DEF RetiredOnce
<1> QED BY <1>1, RetireStep, CoreInvariant, PTL DEF Spec

-----------------------------------------------------------------------------
(* Retries on a different agent.                                           *)

(* s.tried is the set of agents on the task's list of attempts.            *)
TriedExact == \A t \in Tasks : st[t].tried = AgentsIn(st[t].attempts, Len(st[t].attempts))

(* A worker that runs a task its agent has been tried on began when there  *)
(* was no untried candidate, and there still is none.                      *)
FreshFirst ==
  \A w \in Workers : pc[w] = "running" /\ AgentOf(w) \in st[cur[w]].tried =>
      \A a \in Live : able(a, cur[w]) => a \in st[cur[w]].tried

RetryInv == TriedExact /\ FreshFirst /\ RetryElsewhere

(* A new attempt extends the list and the set of agents by its own. *)
LEMMA AgentsInAppend ==
  ASSUME NEW q \in Seq(AttemptRecord), NEW e \in AttemptRecord
  PROVE  /\ \A k \in 0..Len(q) : AgentsIn(Append(q, e), k) = AgentsIn(q, k)
         /\ AgentsIn(Append(q, e), Len(q)) = AgentsIn(q, Len(q))
         /\ AgentsIn(Append(q, e), Len(q) + 1) = AgentsIn(q, Len(q)) \cup {e.agent}
<1> DEFINE n == Len(q)
<1>1. PICK r : r = Append(q, e)
  OBVIOUS
<1>2. n \in Nat /\ r[n + 1] = e /\ \A i \in 1..n : r[i] = q[i] /\ i \in 1..(n + 1)
  BY <1>1
<1> HIDE DEF n
<1>3. \A k \in 0..n : \A i \in 1..k : r[i] = q[i]
  BY <1>2
<1>4. \A k \in 0..n : AgentsIn(r, k) = AgentsIn(q, k)
  BY <1>3 DEF AgentsIn
<1>5. AgentsIn(r, n) = AgentsIn(q, n)
  BY <1>2 DEF AgentsIn
<1>6. \A i \in 1..(n + 1) : i \in 1..n \/ i = n + 1
  BY <1>2
<1>7. AgentsIn(r, n + 1) = AgentsIn(q, n) \cup {e.agent}
  BY <1>2, <1>6 DEF AgentsIn
<1> QED BY <1>1, <1>4, <1>5, <1>7 DEF n

(* Steps that touch neither lists nor tried sets, and start no worker. *)
LEMMA RetryQuiet ==
  ASSUME RetryInv, Live' \subseteq Live,
         \A u \in Tasks : st'[u].attempts = st[u].attempts /\ st'[u].tried = st[u].tried,
         \A w \in Workers : pc'[w] = "running" =>
           pc[w] = "running" /\ cur'[w] = cur[w] /\ cur[w] \in Tasks
  PROVE  RetryInv'
<1>1. TriedExact'
  BY DEF RetryInv, TriedExact
<1>2. FreshFirst'
  BY DEF RetryInv, FreshFirst
<1>3. RetryElsewhere'
  BY DEF RetryInv, RetryElsewhere
<1> QED BY <1>1, <1>2, <1>3 DEF RetryInv

(* Recording a result keeps the three facts the order of retries rests on. *)
LEMMA RetryRecord ==
  ASSUME Core, RetryInv, NEW w \in Workers, Record(w), Live' \subseteq Live
  PROVE  RetryInv'
<1> DEFINE t == cur[w]
           a == AgentOf(w)
           q == st[t].attempts
           n == Len(q)
<1>0. TypeOK /\ CurValid /\ RunningExclusive /\ TriedExact /\ FreshFirst /\ RetryElsewhere
  BY DEF Core, RetryInv
<1>1. t \in Tasks /\ Running(w, t) /\ Effect(w, t) /\ a \in Agents
  BY <1>0, RecordEffect, WorkerAgent
<1>2. PICK s \in AttemptStatus : st'[t].attempts = Append(q, [agent |-> a, status |-> s])
  BY <1>1 DEF Effect
<1> DEFINE e == [agent |-> a, status |-> s]
           r == Append(q, e)
<1>3. e \in AttemptRecord /\ e.agent = a
  BY <1>1 DEF AttemptRecord
<1>4. st'[t].attempts = r /\ st[t].attempts = q
  BY <1>2
<1>5. q \in Seq(AttemptRecord)
  BY <1>0, <1>1 DEF TypeOK, TaskState
<1>6. \A u \in Tasks : u # t => st'[u].attempts = st[u].attempts /\ st'[u].tried = st[u].tried
  BY <1>1 DEF Effect
<1>7. st'[t].tried = st[t].tried \cup {a} /\ st[t].tried = AgentsIn(q, n)
  BY <1>0, <1>1 DEF Effect, TriedExact
<1> HIDE DEF e, q
<1>8. /\ n \in Nat /\ DOMAIN q = 1..n /\ DOMAIN r = 1..(n + 1) /\ Len(r) = n + 1
      /\ \A i \in 1..n : r[i] = q[i]
      /\ r[n + 1] = e
      /\ \A k \in 0..n : AgentsIn(r, k) = AgentsIn(q, k)
      /\ AgentsIn(r, n) = AgentsIn(q, n)
      /\ AgentsIn(r, n + 1) = AgentsIn(q, n) \cup {e.agent}
  <2>1. /\ n \in Nat /\ DOMAIN q = 1..n /\ DOMAIN r = 1..(n + 1) /\ Len(r) = n + 1
        /\ \A i \in 1..n : r[i] = q[i]
        /\ r[n + 1] = e
    BY <1>3, <1>5
  <2>2. /\ \A k \in 0..n : AgentsIn(r, k) = AgentsIn(q, k)
        /\ AgentsIn(r, n) = AgentsIn(q, n)
        /\ AgentsIn(r, n + 1) = AgentsIn(q, n) \cup {e.agent}
    BY <1>3, <1>5, AgentsInAppend
  <2> QED BY <2>1, <2>2
<1> HIDE DEF n, r
<1>9. Len(r) = n + 1 /\ AgentsIn(r, n + 1) = st'[t].tried
  <2>1. AgentsIn(r, n + 1) = AgentsIn(q, n) \cup {a}
    BY <1>3, <1>8, Zenon
  <2> QED BY <1>7, <1>8, <2>1, Zenon
<1>10. (n + 1) - 1 = n /\ AgentsIn(r, n) = st[t].tried /\ r[n + 1].agent = a
  <2>1. (n + 1) - 1 = n
    BY <1>8
  <2>2. AgentsIn(r, n) = st[t].tried /\ r[n + 1].agent = a
    BY <1>3, <1>7, <1>8, Zenon
  <2> QED BY <2>1, <2>2
<1>11. TriedExact'
  <2>1. ASSUME NEW u \in Tasks PROVE st'[u].tried = AgentsIn(st'[u].attempts, Len(st'[u].attempts))
    <3>1. CASE u = t
      BY <1>4, <1>9, <3>1
    <3>2. CASE u # t
      BY <1>0, <1>6, <3>2 DEF TriedExact
    <3> QED BY <3>1, <3>2
  <2> QED BY <2>1 DEF TriedExact
<1>12. FreshFirst'
  <2> SUFFICES ASSUME NEW v \in Workers, pc'[v] = "running",
                      AgentOf(v) \in st'[cur'[v]].tried,
                      NEW b \in Live', able(b, cur'[v])
               PROVE  b \in st'[cur'[v]].tried
    BY DEF FreshFirst
  <2> DEFINE p == [pc EXCEPT ![w] = "loop"]
  <2>1. pc' = notify_all(p) /\ p \in [Workers -> PcValues] /\ p[w] = "loop"
        /\ \A x \in Workers : x # w => p[x] = pc[x]
    BY <1>0, <1>1 DEF Effect, TypeOK, PcValues
  <2> HIDE DEF p
  <2>2. v # w /\ pc[v] = "running"
    BY <2>1, NotifyFields
  <2>3. cur'[v] = cur[v] /\ cur[v] \in Tasks
    BY <1>0, <1>1, <2>2 DEF Effect, TypeOK, CurValid
  <2>4. cur[v] # t
    BY <1>0, <1>1, <2>2, <2>3 DEF RunningExclusive, Running
  <2>5. st'[cur[v]].tried = st[cur[v]].tried
    BY <1>6, <2>3, <2>4
  <2> QED BY <1>0, <2>2, <2>3, <2>5 DEF FreshFirst
<1>13. RetryElsewhere'
  <2> SUFFICES ASSUME NEW u \in Tasks, NEW j \in DOMAIN st'[u].attempts,
                      st'[u].attempts[j].agent \in AgentsIn(st'[u].attempts, j - 1),
                      NEW b \in Live', able(b, u)
               PROVE  b \in AgentsIn(st'[u].attempts, j - 1)
    BY DEF RetryElsewhere
  <2>1. CASE u # t
    BY <1>0, <1>6, <2>1 DEF RetryElsewhere
  <2>2. CASE u = t /\ j # n + 1
    <3>1. j \in 1..n /\ j - 1 \in 0..n
      BY <1>4, <1>8, <2>2
    <3>2. AgentsIn(r, j - 1) = AgentsIn(q, j - 1) /\ r[j] = q[j] /\ j \in DOMAIN q
      BY <1>8, <3>1
    <3>3. q[j].agent \in AgentsIn(q, j - 1)
      BY <1>4, <2>2, <3>2
    <3>4. b \in AgentsIn(q, j - 1)
      BY <1>0, <1>1, <1>4, <2>2, <3>2, <3>3 DEF RetryElsewhere
    <3> QED BY <1>4, <2>2, <3>2, <3>4
  <2>3. CASE u = t /\ j = n + 1
    <3>2. AgentsIn(r, j - 1) = st[t].tried /\ r[j].agent = a
      BY <1>10, <2>3
    <3> QED BY <1>0, <1>1, <1>4, <2>3, <3>2 DEF FreshFirst, Running
  <2> QED BY <2>1, <2>2, <2>3
<1> QED BY <1>11, <1>12, <1>13 DEF RetryInv

(* Every step keeps them. *)
LEMMA RetryStep == Core /\ RetryInv /\ [Next]_vars => RetryInv'
<1> SUFFICES ASSUME Core, RetryInv, [Next]_vars PROVE RetryInv'
  OBVIOUS
<1>0. TypeOK /\ CurValid /\ Live' \subseteq Live
  BY LiveShrinks DEF Core
<1>1. CASE StartWorkers
  <2>1. st' = resolve_unschedulable(st, Live) /\ \A w \in Workers : pc'[w] # "running"
    BY <1>1 DEF StartWorkers
  <2>2. \A u \in Tasks : st'[u].attempts = st[u].attempts /\ st'[u].tried = st[u].tried
    BY <1>0, <2>1, ResolveFields DEF TypeOK
  <2> QED BY <1>0, <2>1, <2>2, RetryQuiet
<1>2. ASSUME NEW w \in Workers, Record(w) PROVE RetryInv'
  BY <1>0, <1>2, RetryRecord
<1>3. ASSUME NEW w \in Workers, Claim(w) PROVE RetryInv'
  <2>1. PICK t \in Tasks : ClaimOf(w, t)
    BY <1>3, ClaimIs
  <2>2. \A u \in Tasks : st'[u].attempts = st[u].attempts /\ st'[u].tried = st[u].tried
    BY <1>0, <2>1, ClaimFields
  <2>3. /\ \A v \in Workers : v # w => pc'[v] = pc[v] /\ cur'[v] = cur[v]
        /\ cur'[w] = t
    BY <1>0, <2>1 DEF ClaimOf, TypeOK
  <2>4. AgentOf(w) \in st[t].tried => \A b \in Live : able(b, t) => b \in st[t].tried
    BY <2>1 DEF ClaimOf, Eligible, has_fresh_candidate, Live
  <2>7. TriedExact'
    BY <2>2 DEF RetryInv, TriedExact
  <2>8. FreshFirst'
    <3> SUFFICES ASSUME NEW v \in Workers, pc'[v] = "running",
                        AgentOf(v) \in st'[cur'[v]].tried,
                        NEW b \in Live', able(b, cur'[v])
                 PROVE  b \in st'[cur'[v]].tried
      BY DEF FreshFirst
    <3>1. CASE v = w
      BY <1>0, <2>2, <2>3, <2>4, <3>1
    <3>2. CASE v # w
      BY <1>0, <2>2, <2>3, <3>2 DEF RetryInv, FreshFirst, CurValid
    <3> QED BY <3>1, <3>2
  <2>10. RetryElsewhere'
    BY <1>0, <2>2 DEF RetryInv, RetryElsewhere
  <2> QED BY <2>7, <2>8, <2>10 DEF RetryInv
<1>4. ASSUME NEW w \in Workers, Exit(w) PROVE RetryInv'
  <2> DEFINE p == [pc EXCEPT ![w] = "exited"]
  <2>1. pc' = notify_all(p) /\ p \in [Workers -> PcValues] /\ p[w] = "exited"
        /\ \A v \in Workers : v # w => p[v] = pc[v]
    BY <1>0, <1>4 DEF Exit, TypeOK, PcValues
  <2> HIDE DEF p
  <2>2. \A v \in Workers : pc'[v] = "running" => pc[v] = "running"
    BY <2>1, NotifyFields
  <2>3. st' = st /\ cur' = cur
    BY <1>4 DEF Exit
  <2> QED BY <1>0, <2>2, <2>3, RetryQuiet DEF CurValid
<1>5. ASSUME NEW w \in Workers, Wait(w) \/ SpuriousWake(w) PROVE RetryInv'
  <2>1. \A v \in Workers : pc'[v] = "running" => pc[v] = "running"
    BY <1>0, <1>5 DEF Wait, SpuriousWake, TypeOK
  <2>2. st' = st /\ cur' = cur
    BY <1>5 DEF Wait, SpuriousWake
  <2> QED BY <1>0, <2>1, <2>2, RetryQuiet DEF CurValid
<1>6. CASE JoinWorkers \/ UNCHANGED vars
  <2>1. st' = st /\ cur' = cur /\ pc' = pc
    BY <1>6 DEF JoinWorkers, vars
  <2> QED BY <1>0, <2>1, RetryQuiet DEF CurValid
<1> QED BY <1>1, <1>2, <1>3, <1>4, <1>5, <1>6 DEF Next, Loop, Returned

(* The set `tried' agrees with the list of attempts, and a worker that runs *)
(* a task again started when no fresh agent was left, in every state.      *)
THEOREM RetryInvariant == Spec => []RetryInv
<1>1. Init => RetryInv
  <2> SUFFICES ASSUME Init PROVE RetryInv
    OBVIOUS
  <2>1. ASSUME NEW t \in Tasks
        PROVE  st[t].tried = {} /\ Len(st[t].attempts) = 0 /\ DOMAIN st[t].attempts = {}
    <3>1. st[t].tried = {} /\ st[t].attempts = <<>>
      BY DEF Init
    <3>2. Len(<<>>) = 0 /\ DOMAIN <<>> = {}
      OBVIOUS
    <3>3. Len(st[t].attempts) = 0 /\ DOMAIN st[t].attempts = {}
      BY <3>1, <3>2, Zenon
    <3> QED BY <3>1, <3>3
  <2>2. TriedExact
    BY <2>1 DEF TriedExact, AgentsIn
  <2>3. FreshFirst /\ RetryElsewhere
    BY <2>1 DEF Init, FreshFirst, RetryElsewhere
  <2> QED BY <2>2, <2>3 DEF RetryInv
<1> QED BY <1>1, RetryStep, CoreInvariant, PTL DEF Spec

(* A task is tried on every live capable agent before it is tried on one   *)
(* of them again, in every fleet and whatever the agents answer.           *)
THEOREM RetriesGoElsewhere == Spec => []RetryElsewhere
<1>1. RetryInv => RetryElsewhere
  BY DEF RetryInv
<1> QED BY <1>1, RetryInvariant, PTL

-----------------------------------------------------------------------------
(* Fleets of single-slot agents.                                           *)

(* A worker in exec_.run belongs to a live agent that can run its task.    *)
(* With two slots this fails: the other slot may have retired the agent.   *)
RunnerFit ==
  \A w \in Workers : pc[w] = "running" => alive[AgentOf(w)] /\ able(AgentOf(w), cur[w])

OneSlotEach == \A a \in Agents : slots(a) = 1

(* resolve_unschedulable() leaves nobody stranded. *)
LEMMA ResolveStrandsNobody ==
  ASSUME NEW S \in [Tasks -> TaskState], NEW L
  PROVE  Stranded(resolve_unschedulable(S, L), L) = {}
<1> SUFFICES ASSUME NEW t \in Stranded(resolve_unschedulable(S, L), L) PROVE FALSE
  OBVIOUS
<1>1. PICK R : R = resolve_unschedulable(S, L)
  OBVIOUS
<1>2. t \in Tasks /\ ~R[t].done /\ ~R[t].running /\ ~\E a \in L : able(a, t)
  BY <1>1 DEF Stranded
<1>3. (t \notin Stranded(S, L) => R[t] = S[t]) /\ (t \in Stranded(S, L) => R[t].done)
  BY <1>1, <1>2, ResolveFields
<1> QED BY <1>2, <1>3 DEF Stranded

(* With one slot per agent, the worker that retires its agent is the only one *)
(* that could still be running a task there.                                  *)
LEMMA OneSlotStep ==
  ASSUME OneSlotEach
  PROVE  Core /\ RunnerFit /\ NobodyStranded /\ [Next]_vars => RunnerFit' /\ NobodyStranded'
<1> SUFFICES ASSUME Core, RunnerFit, NobodyStranded, [Next]_vars
             PROVE  RunnerFit' /\ NobodyStranded'
  OBVIOUS
<1>0. TypeOK /\ CurValid /\ RunningExclusive /\ NobodyBeforeStart
  BY DEF Core
<1>1. \A v, w \in Workers : v # w => AgentOf(v) # AgentOf(w)
  BY DEF OneSlotEach, Workers, AgentOf
<1>2. CASE StartWorkers
  <2>1. st' = resolve_unschedulable(st, Live) /\ Live' = Live
    BY <1>2 DEF StartWorkers, Live
  <2>2. Stranded(st', Live') = {}
    BY <1>0, <2>1, ResolveStrandsNobody DEF TypeOK
  <2>3. \A w \in Workers : pc'[w] # "running"
    BY <1>2 DEF StartWorkers
  <2> QED BY <2>2, <2>3 DEF RunnerFit, NobodyStranded
<1>3. ASSUME NEW w \in Workers, Record(w) PROVE RunnerFit' /\ NobodyStranded'
  <2> DEFINE t == cur[w]
             a == AgentOf(w)
             p == [pc EXCEPT ![w] = "loop"]
  <2>1. /\ t \in Tasks /\ Running(w, t) /\ Effect(w, t) /\ a \in Agents
        /\ alive[a] /\ able(a, t)
    BY <1>0, <1>3, RecordEffect, WorkerAgent DEF RunnerFit, Running
  <2>2. pc' = notify_all(p) /\ p \in [Workers -> PcValues] /\ p[w] = "loop"
        /\ \A x \in Workers : x # w => p[x] = pc[x]
    BY <1>0, <2>1 DEF Effect, TypeOK, PcValues
  <2>3. /\ \A x \in Workers : pc'[x] = "running" => x # w /\ pc[x] = "running"
        /\ \A x \in Workers : x # w => cur'[x] = cur[x]
    <3>1. \A x \in Workers : x # w => cur'[x] = cur[x]
      BY <1>0, <2>1 DEF Effect, TypeOK
    <3> HIDE DEF p
    <3> QED BY <2>2, <3>1, NotifyFields
  <2>4. \A b \in Agents : b # a => alive'[b] = alive[b]
    BY <1>0, <1>3 DEF Record, RecordPass, RecordFailure, RecordAgentError, TypeOK
  <2>5. RunnerFit'
    <3> SUFFICES ASSUME NEW x \in Workers, pc'[x] = "running"
                 PROVE  alive'[AgentOf(x)] /\ able(AgentOf(x), cur'[x])
      BY DEF RunnerFit
    <3>1. x # w /\ pc[x] = "running" /\ cur'[x] = cur[x]
      BY <2>3
    <3>2. AgentOf(x) # a /\ AgentOf(x) \in Agents
      BY <1>1, <3>1, WorkerAgent
    <3>3. alive[AgentOf(x)] /\ able(AgentOf(x), cur[x])
      BY <3>1 DEF RunnerFit
    <3> QED BY <2>4, <3>1, <3>2, <3>3
  <2>6. main # "start" /\ main' = main
    BY <1>0, <2>1 DEF NobodyBeforeStart, Running, Effect
  <2>7. CASE RecordAgentError(w)
    <3> DEFINE S == [st EXCEPT ![t] = recorded(st[t], a, "AgentError")]
    <3>1. PICK s \in AttemptStatus : s = "AgentError"
      BY DEF AttemptStatus
    <3>2. recorded(st[t], a, s) \in TaskState
      BY <1>0, <2>1, RecordedFields DEF TypeOK
    <3>3. S \in [Tasks -> TaskState]
      BY <1>0, <2>1, <3>1, <3>2 DEF TypeOK
    <3>4. st' = resolve_unschedulable(S, Live \ {a}) /\ alive' = [alive EXCEPT ![a] = FALSE]
      BY <2>1, <2>7 DEF RecordAgentError
    <3>5. Live' = Live \ {a}
      BY <1>0, <2>1, <3>4 DEF Live, TypeOK
    <3> HIDE DEF S
    <3>6. Stranded(st', Live') = {}
      BY <3>3, <3>4, <3>5, ResolveStrandsNobody
    <3> QED BY <2>5, <3>6 DEF NobodyStranded
  <2>8. CASE ~RecordAgentError(w)
    <3>1. alive' = alive
      BY <1>3, <2>8 DEF Record, RecordPass, RecordFailure
    <3>2. Live' = Live /\ a \in Live
      BY <2>1, <3>1 DEF Live
    <3>3. \A u \in Tasks : u # t => st'[u] = st[u] \/ st'[u].done
      BY <2>1 DEF Effect
    <3>4. Stranded(st, Live) = {}
      BY <2>6 DEF NobodyStranded
    <3>5. ASSUME NEW u \in Stranded(st', Live') PROVE FALSE
      <4>1. u \in Tasks /\ ~st'[u].done /\ ~st'[u].running /\ ~\E b \in Live : able(b, u)
        BY <3>2 DEF Stranded
      <4>2. u # t
        BY <2>1, <3>2, <4>1
      <4>3. st'[u] = st[u]
        BY <3>3, <4>1, <4>2
      <4> QED BY <3>4, <4>1, <4>3 DEF Stranded
    <3> QED BY <2>5, <3>5 DEF NobodyStranded
  <2> QED BY <2>7, <2>8
<1>4. ASSUME NEW w \in Workers, Claim(w) PROVE RunnerFit' /\ NobodyStranded'
  <2>1. PICK t \in Tasks : ClaimOf(w, t)
    BY <1>4, ClaimIs
  <2>2. \A u \in Tasks : (st'[u].done <=> st[u].done) /\ (st[u].running => st'[u].running)
    BY <1>0, <2>1, ClaimFields
  <2>3. alive' = alive /\ Live' = Live /\ main' = main
    BY <2>1 DEF ClaimOf, Live
  <2>4. Stranded(st', Live') \subseteq Stranded(st, Live)
    BY <2>2, <2>3 DEF Stranded
  <2>5. /\ \A v \in Workers : v # w => pc'[v] = pc[v] /\ cur'[v] = cur[v]
        /\ cur'[w] = t /\ alive[AgentOf(w)] /\ able(AgentOf(w), t)
    BY <1>0, <2>1 DEF ClaimOf, TypeOK, Eligible
  <2>6. RunnerFit'
    BY <2>3, <2>5 DEF RunnerFit
  <2> QED BY <2>3, <2>4, <2>6 DEF NobodyStranded
<1>5. ASSUME NEW w \in Workers, Exit(w) PROVE RunnerFit' /\ NobodyStranded'
  <2> DEFINE p == [pc EXCEPT ![w] = "exited"]
  <2>1. pc' = notify_all(p) /\ p \in [Workers -> PcValues] /\ p[w] = "exited"
        /\ \A v \in Workers : v # w => p[v] = pc[v]
    BY <1>0, <1>5 DEF Exit, TypeOK, PcValues
  <2> HIDE DEF p
  <2>2. \A v \in Workers : pc'[v] = "running" => pc[v] = "running"
    BY <2>1, NotifyFields
  <2>3. UNCHANGED <<st, alive, cur, main>>
    BY <1>5 DEF Exit
  <2> QED BY <2>2, <2>3 DEF RunnerFit, NobodyStranded, Live
<1>6. ASSUME NEW w \in Workers, Wait(w) \/ SpuriousWake(w) PROVE RunnerFit' /\ NobodyStranded'
  <2>1. \A v \in Workers : pc'[v] = "running" => pc[v] = "running"
    BY <1>0, <1>6 DEF Wait, SpuriousWake, TypeOK
  <2>2. UNCHANGED <<st, alive, cur, main>>
    BY <1>6 DEF Wait, SpuriousWake
  <2> QED BY <2>1, <2>2 DEF RunnerFit, NobodyStranded, Live
<1>7. CASE JoinWorkers
  BY <1>7 DEF JoinWorkers, RunnerFit, NobodyStranded, Live
<1>8. CASE UNCHANGED vars
  BY <1>8 DEF vars, RunnerFit, NobodyStranded, Live
<1> QED BY <1>2, <1>3, <1>4, <1>5, <1>6, <1>7, <1>8 DEF Next, Loop, Returned

(* When every agent has one slot, a task that waits for an agent always    *)
(* has a live one that can run it: resolving the stranded tasks only when  *)
(* an agent is retired is then enough.                                     *)
THEOREM OneSlotStrandsNobody ==
  ASSUME OneSlotEach
  PROVE  Spec => []NobodyStranded
<1>1. Init => RunnerFit /\ NobodyStranded
  BY DEF Init, RunnerFit, NobodyStranded
<1>2. Core /\ RunnerFit /\ NobodyStranded /\ [Next]_vars => RunnerFit' /\ NobodyStranded'
  BY OneSlotStep
<1> QED BY <1>1, <1>2, CoreInvariant, PTL DEF Spec

-----------------------------------------------------------------------------
(***************************************************************************)
(* The worker threads of the scheduler implement the abstract job run of   *)
(* JobRun, for every fleet and every list of tasks: initial states map to  *)
(* initial states, and a stretch of code under the mutex maps to one       *)
(* abstract step or to none.                                               *)
(***************************************************************************)

-----------------------------------------------------------------------------
(* The failure counter and the list of attempts.                           *)

(* Spent counts exactly the test failures of a list: a new attempt adds    *)
(* one if it is a failure and nothing otherwise.                           *)
LEMMA SpentAppend ==
  ASSUME NEW q \in Seq(AttemptRecord), NEW e \in AttemptRecord
  PROVE  /\ Job!Spent(q) \in Nat
         /\ e.status \in TestFailure => Job!Spent(Append(q, e)) = Job!Spent(q) + 1
         /\ e.status \notin TestFailure => Job!Spent(Append(q, e)) = Job!Spent(q)
<1> DEFINE n == Len(q)
           F(h) == {i \in DOMAIN h : h[i].status \in {"Failed", "TimedOut"}}
<1>1. PICK r : r = Append(q, e)
  OBVIOUS
<1>2. /\ n \in Nat /\ DOMAIN q = 1..n /\ DOMAIN r = 1..(n + 1)
      /\ \A i \in 1..n : r[i] = q[i]
      /\ r[n + 1] = e
  BY <1>1
<1>3. IsFiniteSet(1..n) /\ n + 1 \notin 1..n
  BY <1>2, FS_Interval
<1>4. F(q) \subseteq 1..n
  BY <1>2
<1>5. IsFiniteSet(F(q)) /\ n + 1 \notin F(q)
  BY <1>3, <1>4, FS_Subset
<1>6. Cardinality(F(q)) \in Nat
  BY <1>5, FS_CardinalityType
<1>7. e.status \in TestFailure => F(r) = F(q) \cup {n + 1}
  BY <1>2 DEF TestFailure
<1>8. e.status \notin TestFailure => F(r) = F(q)
  BY <1>2 DEF TestFailure
<1>9. Job!Spent(q) = Cardinality(F(q)) /\ Job!Spent(r) = Cardinality(F(r))
  <2>1. \A X : Job!Cardinality(X) = Cardinality(X)
    BY Zenon DEF Job!Cardinality, Cardinality
  <2> QED BY <2>1 DEF Job!Spent
<1> HIDE DEF F
<1>10. Cardinality(F(q) \cup {n + 1}) = Cardinality(F(q)) + 1
  BY <1>5, FS_AddElement
<1> QED BY <1>1, <1>6, <1>7, <1>8, <1>9, <1>10

(* The counter a retry is decided on is the number of test failures on the *)
(* list of attempts.                                                       *)
FailuresExact == \A t \in Tasks : st[t].failures = Job!Spent(st[t].attempts)

-----------------------------------------------------------------------------
(* What a result of status s means for the verdicts: t is judged by its    *)
(* attempts, the tasks in G are given up.                                  *)
Verdicts(w, t, s, G) ==
  /\ st'[t].attempts = Append(st[t].attempts, [agent |-> AgentOf(w), status |-> s])
  /\ s \in TestFailure => st'[t].failures = st[t].failures + 1
  /\ s \notin TestFailure => st'[t].failures = st[t].failures
  /\ Live' = IF s = "AgentError" THEN Live \ {AgentOf(w)} ELSE Live
  /\ \A u \in G : /\ ~st[u].done /\ ~st'[u].running
                  /\ st'[u].done /\ st'[u].final = "Unschedulable"
                  /\ \A b \in Live' : ~able(b, u)
  /\ \A u \in Tasks \ (G \cup {t}) : (st'[u].done <=> st[u].done) /\ st'[u].final = st[u].final
  /\ t \in G => s = "AgentError"
  /\ t \notin G => /\ s = "Passed" => st'[t].done
                   /\ s = "AgentError" => ~st'[t].done
                   /\ s \in TestFailure => (st'[t].done <=> st'[t].failures > Retries[t])
                   /\ st'[t].done => st'[t].final = s

(* RecordPass decides. *)
LEMMA PassVerdicts ==
  ASSUME TypeOK, NEW w \in Workers, RecordPass(w),
         cur[w] \in Tasks, ~st[cur[w]].done
  PROVE  Verdicts(w, cur[w], "Passed", {})
<1>0. PICK p \in AttemptStatus, f \in FinalStatus, m \in Message :
        p = "Passed" /\ f = "Passed" /\ m = ""
  BY DEF AttemptStatus, FinalStatus, Message
<1> DEFINE t == cur[w]
           r == recorded(st[t], AgentOf(w), p)
           n == finish(r, f, m)
<1>1. st[t] \in TaskState /\ AgentOf(w) \in Agents
  BY WorkerAgent DEF TypeOK
<1>2. /\ r \in TaskState /\ r.failures = st[t].failures
      /\ r.attempts = Append(st[t].attempts, [agent |-> AgentOf(w), status |-> p])
  BY <1>1, RecordedFields
<1> HIDE DEF r
<1>3. n.done /\ n.final = f /\ n.failures = r.failures /\ n.attempts = r.attempts
  BY <1>2, FinishFields
<1>4. st' = [st EXCEPT ![t] = n] /\ alive' = alive
  BY <1>0 DEF RecordPass, r
<1> HIDE DEF n
<1>5. st'[t] = n /\ \A u \in Tasks : u # t => st'[u] = st[u]
  BY <1>4 DEF TypeOK
<1> QED BY <1>0, <1>2, <1>3, <1>4, <1>5 DEF Verdicts, Live, TestFailure

(* RecordFailure decides once the budget is overspent. *)
LEMMA FailureVerdicts ==
  ASSUME TypeOK, NEW w \in Workers, NEW f \in TestFailure, RecordFailure(w, f),
         cur[w] \in Tasks, ~st[cur[w]].done
  PROVE  Verdicts(w, cur[w], f, {})
<1> DEFINE t == cur[w]
           r == recorded(st[t], AgentOf(w), f)
           n == spent(r, f, Retries[t])
<1>1. st[t] \in TaskState /\ AgentOf(w) \in Agents /\ f \in AttemptStatus
      /\ Retries[t] \in Nat
  BY WorkerAgent, SchedulerAssumption DEF TypeOK, AttemptStatus, TestFailure, SchedulerAssumption
<1>2. /\ r \in TaskState /\ r.failures = st[t].failures /\ (r.done <=> st[t].done)
      /\ r.attempts = Append(st[t].attempts, [agent |-> AgentOf(w), status |-> f])
  BY <1>1, RecordedFields
<1> HIDE DEF r
<1>3. /\ n.failures = r.failures + 1
      /\ n.attempts = r.attempts
      /\ r.failures + 1 > Retries[t] => n.done
      /\ r.failures + 1 > Retries[t] => n.final = f
      /\ ~(r.failures + 1 > Retries[t]) => (n.done <=> r.done)
  <2>1. PICK b \in Nat, q \in TaskState : b = Retries[t] /\ q = r
    BY <1>1, <1>2
  <2>2. spent(q, f, b) = n
    BY <2>1
  <2>3. /\ spent(q, f, b).failures = q.failures + 1
        /\ spent(q, f, b).attempts = q.attempts
        /\ q.failures + 1 > b => spent(q, f, b).done
        /\ q.failures + 1 > b => spent(q, f, b).final = f
        /\ ~(q.failures + 1 > b) => (spent(q, f, b).done <=> q.done)
    BY SpentFields
  <2> HIDE DEF n
  <2> QED BY <2>1, <2>2, <2>3
<1>4. st' = [st EXCEPT ![t] = n] /\ alive' = alive
  BY DEF RecordFailure, r
<1> HIDE DEF n
<1>5. st'[t] = n /\ \A u \in Tasks : u # t => st'[u] = st[u]
  BY <1>4 DEF TypeOK
<1>6. f # "Passed" /\ f # "AgentError"
  BY DEF TestFailure
<1>7. n.done <=> n.failures > Retries[t]
  BY <1>2, <1>3
<1>8. Live' = Live
  BY <1>4 DEF Live
<1>9. n.done => n.final = f
  BY <1>2, <1>3
<1> QED BY <1>2, <1>3, <1>5, <1>6, <1>7, <1>8, <1>9 DEF Verdicts

(* RecordAgentError gives up what nobody alive can run, if it is the first *)
(* report of its agent, and nothing otherwise.                             *)
LEMMA AgentErrorVerdicts ==
  ASSUME TypeOK, NEW w \in Workers, RecordAgentError(w),
         cur[w] \in Tasks, ~st[cur[w]].done
  PROVE  \E G \in SUBSET Tasks : Verdicts(w, cur[w], "AgentError", G)
<1> DEFINE t == cur[w]
           a == AgentOf(w)
           r == recorded(st[t], a, "AgentError")
           S == [st EXCEPT ![t] = r]
           L == Live \ {a}
           R == resolve_unschedulable(S, L)
<1>1. st[t] \in TaskState /\ a \in Agents /\ "AgentError" \in AttemptStatus
  BY WorkerAgent DEF TypeOK, AttemptStatus
<1>2. /\ r \in TaskState /\ r.failures = st[t].failures /\ (r.done <=> st[t].done)
      /\ r.attempts = Append(st[t].attempts, [agent |-> a, status |-> "AgentError"])
  BY <1>1, RecordedFields
<1>3. IF alive[a]
      THEN alive' = [alive EXCEPT ![a] = FALSE] /\ st' = R
      ELSE st' = S /\ alive' = alive
  BY DEF RecordAgentError
<1> HIDE DEF r
<1>4. S \in [Tasks -> TaskState] /\ S[t] = r /\ \A u \in Tasks : u # t => S[u] = st[u]
  BY <1>2 DEF TypeOK
<1> HIDE DEF S
<1>5. Live' = L
  BY <1>1, <1>3 DEF Live, TypeOK
<1> HIDE DEF L
<1>6. CASE ~alive[a]
  <2>1. st' = S
    BY <1>3, <1>6
  <2>2. Verdicts(w, t, "AgentError", {})
    BY <1>2, <1>4, <1>5, <2>1 DEF Verdicts, TestFailure, L
  <2> QED BY <2>2
<1>7. CASE alive[a]
  <2> DEFINE G == Stranded(S, L)
  <2>1. st' = R
    BY <1>3, <1>7
  <2>2. \A u \in Tasks :
          /\ u \notin G => R[u] = S[u]
          /\ u \in G => R[u].done
          /\ u \in G => R[u].final = "Unschedulable"
          /\ R[u].failures = S[u].failures /\ (R[u].running <=> S[u].running)
          /\ R[u].attempts = S[u].attempts
    BY <1>4, ResolveFields
  <2>3. \A u \in G : u \in Tasks /\ ~S[u].done /\ ~S[u].running /\ \A b \in L : ~able(b, u)
    BY DEF Stranded
  <2> HIDE DEF R, G
  <2>4. \A u \in G : /\ ~st[u].done /\ ~st'[u].running
                     /\ st'[u].done /\ st'[u].final = "Unschedulable"
                     /\ \A b \in Live' : ~able(b, u)
    BY <1>2, <1>4, <1>5, <2>1, <2>2, <2>3
  <2>5. \A u \in Tasks \ (G \cup {t}) : (st'[u].done <=> st[u].done) /\ st'[u].final = st[u].final
    BY <1>4, <2>1, <2>2
  <2>6. /\ st'[t].attempts = Append(st[t].attempts, [agent |-> a, status |-> "AgentError"])
        /\ st'[t].failures = st[t].failures
        /\ t \notin G => ~st'[t].done
    BY <1>2, <1>4, <2>1, <2>2
  <2>7. Verdicts(w, t, "AgentError", G)
    BY <1>5, <2>4, <2>5, <2>6 DEF Verdicts, TestFailure, L
  <2> QED BY <2>3, <2>7
<1> QED BY <1>6, <1>7

(* Every result has one of these meanings. *)
LEMMA RecordVerdicts ==
  ASSUME Core, NEW w \in Workers, Record(w)
  PROVE  \E s \in AttemptStatus, G \in SUBSET Tasks : Verdicts(w, cur[w], s, G)
<1>1. TypeOK /\ cur[w] \in Tasks /\ ~st[cur[w]].done
  BY RecordEffect DEF Core
<1>2. TestFailure \subseteq AttemptStatus /\ "Passed" \in AttemptStatus
      /\ "AgentError" \in AttemptStatus
  BY DEF TestFailure, AttemptStatus
<1> QED BY <1>1, <1>2, PassVerdicts, FailureVerdicts, AgentErrorVerdicts, Zenon DEF Record

(* Only a result changes the counter or the list. *)
LEMMA FailuresStep == Core /\ FailuresExact /\ [Next]_vars => FailuresExact'
<1> SUFFICES ASSUME Core, FailuresExact, [Next]_vars PROVE FailuresExact'
  OBVIOUS
<1>0. TypeOK /\ CurValid /\ RunningExclusive
  BY DEF Core
<1>1. CASE \A u \in Tasks : st'[u].failures = st[u].failures /\ st'[u].attempts = st[u].attempts
  BY <1>1 DEF FailuresExact
<1>2. CASE StartWorkers
  <2>1. st \in [Tasks -> TaskState] /\ st' = resolve_unschedulable(st, Live)
    BY <1>0, <1>2 DEF StartWorkers, TypeOK
  <2> QED BY <1>1, <2>1, ResolveFields
<1>3. ASSUME NEW w \in Workers, Claim(w) PROVE FailuresExact'
  BY <1>0, <1>1, <1>3, ClaimIs, ClaimFields
<1>4. ASSUME NEW w \in Workers, Record(w) PROVE FailuresExact'
  <2> DEFINE t == cur[w]
  <2>1. PICK s \in AttemptStatus, G \in SUBSET Tasks : Verdicts(w, t, s, G)
    BY <1>4, RecordVerdicts
  <2>2. t \in Tasks /\ Effect(w, t) /\ AgentOf(w) \in Agents
    BY <1>0, <1>4, RecordEffect, WorkerAgent
  <2> DEFINE e == [agent |-> AgentOf(w), status |-> s]
  <2>3. e \in AttemptRecord /\ e.status = s
    BY <2>2 DEF AttemptRecord
  <2>4. /\ st[t].attempts \in Seq(AttemptRecord) /\ st[t].failures = Job!Spent(st[t].attempts)
        /\ st'[t].attempts = Append(st[t].attempts, e)
        /\ s \in TestFailure => st'[t].failures = st[t].failures + 1
        /\ s \notin TestFailure => st'[t].failures = st[t].failures
    BY <1>0, <2>1, <2>2 DEF Verdicts, TypeOK, TaskState, FailuresExact
  <2> HIDE DEF e
  <2>5. st'[t].failures = Job!Spent(st'[t].attempts)
    BY <2>3, <2>4, SpentAppend
  <2>6. \A u \in Tasks : u # t =>
          st'[u].failures = st[u].failures /\ st'[u].attempts = st[u].attempts
    BY <2>2 DEF Effect
  <2> QED BY <2>5, <2>6 DEF FailuresExact
<1>5. ASSUME NEW w \in Workers, Exit(w) \/ Wait(w) \/ SpuriousWake(w) PROVE FailuresExact'
  BY <1>5, <1>1 DEF Exit, Wait, SpuriousWake
<1>6. CASE JoinWorkers \/ Returned \/ UNCHANGED vars
  BY <1>6, <1>1 DEF JoinWorkers, Returned, vars
<1> QED BY <1>2, <1>3, <1>4, <1>5, <1>6 DEF Next, Loop

-----------------------------------------------------------------------------
(* The abstract state.                                                     *)

History == [t \in Tasks |-> st[t].attempts]
Verdict == [t \in Tasks |-> IF st[t].done THEN st[t].final ELSE "Pending"]

(* The agents a task was used on, by its list and by its set `tried'. *)
LEMMA UsedIsTried ==
  ASSUME TypeOK, TriedExact, NEW t \in Tasks
  PROVE  Job!Used(t) = st[t].tried
<1>1. st[t].attempts \in Seq(AttemptRecord)
  BY DEF TypeOK, TaskState
<1>2. DOMAIN st[t].attempts = 1..Len(st[t].attempts)
  BY <1>1
<1>3. Job!Used(t) = {st[t].attempts[i].agent : i \in DOMAIN st[t].attempts}
  BY DEF Job!Used
<1> QED BY <1>2, <1>3 DEF TriedExact, AgentsIn

(* A task is idle in the abstract run iff its flag says so. *)
LEMMA IdleIsNotRunning ==
  ASSUME CurValid, RunningExclusive, NEW t \in Tasks
  PROVE  Job!Idle(Inflight, t) <=> ~st[t].running
<1>1. st[t].running <=> \E w \in Workers : Running(w, t)
  BY DEF RunningExclusive
<1>2. \A w \in Workers : <<cur[w], AgentOf(w)>>[1] = cur[w]
  OBVIOUS
<1> QED BY <1>1, <1>2 DEF Job!Idle, Inflight, Running

(* A step that touches neither attempts, verdicts, live agents nor running *)
(* workers is invisible.                                                   *)
LEMMA Stutter ==
  ASSUME UNCHANGED <<st, alive>>,
         \A w \in Workers : pc'[w] = "running" <=> pc[w] = "running",
         \A w \in Workers : pc[w] = "running" => cur'[w] = cur[w]
  PROVE  UNCHANGED Job!jobVars
<1>1. Inflight' = Inflight
  BY DEF Inflight
<1>2. Live' = Live
  BY DEF Live
<1> QED BY <1>1, <1>2 DEF Job!jobVars

(* Taking a task is the abstract Dispatch. *)
LEMMA ClaimDispatches ==
  ASSUME Core, RetryInv, NEW w \in Workers, NEW t \in Tasks, ClaimOf(w, t), pc[w] # "running"
  PROVE  Job!Dispatch(t, AgentOf(w))
<1> DEFINE a == AgentOf(w)
<1>0. TypeOK /\ CurValid /\ RunningExclusive /\ TriedExact /\ a \in Agents
  BY WorkerAgent DEF Core, RetryInv
<1>1. /\ ~st[t].done /\ ~st[t].running /\ able(a, t) /\ a \in Live
      /\ ~(a \in st[t].tried /\ has_fresh_candidate(st, Live, t, a))
  BY <1>0 DEF ClaimOf, Eligible, Live
<1>2. Job!Idle(Inflight, t)
  BY <1>0, <1>1, IdleIsNotRunning
<1>3. a \in Job!Used(t) => \A b \in Live : able(b, t) => b \in Job!Used(t)
  <2>1. Job!Used(t) = st[t].tried
    BY <1>0, UsedIsTried
  <2> QED BY <1>1, <2>1 DEF has_fresh_candidate, Live
<1>4. Inflight' = Inflight \cup {<<t, a>>}
  <2>1. /\ \A v \in Workers : v # w => pc'[v] = pc[v] /\ cur'[v] = cur[v]
        /\ pc'[w] = "running" /\ cur'[w] = t
    BY <1>0 DEF ClaimOf, TypeOK
  <2> QED BY <2>1 DEF Inflight
<1>5. History' = History /\ Verdict' = Verdict
  BY <1>0, ClaimFields DEF History, Verdict
<1>6. Live' = Live
  BY DEF ClaimOf, Live
<1> QED BY <1>1, <1>2, <1>3, <1>4, <1>5, <1>6 DEF Job!Dispatch, History, Verdict

(* The abstract judgement of a list that ends with an attempt of status s. *)
LEMMA JudgeLast ==
  ASSUME NEW h, NEW k, NEW s \in AttemptStatus, h[Len(h)].status = s
  PROVE  /\ s = "Passed" => Job!Judge(h, k) = "Passed"
         /\ s = "AgentError" => Job!Judge(h, k) = "Pending"
         /\ s \in TestFailure /\ Job!Spent(h) > k => Job!Judge(h, k) = s
         /\ s \in TestFailure /\ ~(Job!Spent(h) > k) => Job!Judge(h, k) = "Pending"
<1>1. Job!Judge(h, k) = CASE s = "Passed" -> "Passed"
                          [] s \in {"Failed", "TimedOut"} /\ Job!Spent(h) > k -> s
                          [] OTHER -> "Pending"
  BY DEF Job!Judge
<1>2. CASE s = "Passed"
  BY <1>1, <1>2 DEF TestFailure
<1>3. CASE s = "AgentError"
  BY <1>1, <1>3 DEF TestFailure
<1>4. CASE s \in TestFailure
  BY <1>1, <1>4 DEF TestFailure
<1> QED BY <1>2, <1>3, <1>4 DEF AttemptStatus, TestFailure

(* Recording a result is the abstract Report. *)
LEMMA RecordReports ==
  ASSUME Core, Core', FailuresExact, FailuresExact', NEW w \in Workers, Record(w)
  PROVE  \E s \in AttemptStatus : Job!Report(cur[w], AgentOf(w), s)
<1> DEFINE t == cur[w]
           a == AgentOf(w)
<1>0. /\ TypeOK /\ CurValid /\ RunningExclusive /\ CurValid' /\ RunningExclusive' /\ a \in Agents
      /\ t \in Tasks /\ Running(w, t) /\ st[t].running /\ ~st[t].done /\ Effect(w, t)
  BY WorkerAgent, RecordEffect DEF Core
<1>1. PICK s \in AttemptStatus, G \in SUBSET Tasks : Verdicts(w, t, s, G)
  BY RecordVerdicts
<1>2. <<t, a>> \in Inflight
  BY <1>0 DEF Inflight, Running
<1>3. Inflight' = Inflight \ {<<t, a>>}
  <2> DEFINE p == [pc EXCEPT ![w] = "loop"]
  <2>1. pc' = notify_all(p) /\ p \in [Workers -> PcValues] /\ p[w] = "loop"
        /\ \A x \in Workers : x # w => p[x] = pc[x]
    BY <1>0 DEF Effect, TypeOK, PcValues
  <2> HIDE DEF p
  <2>2. \A x \in Workers : pc'[x] = "running" <=> x # w /\ pc[x] = "running"
    BY <2>1, NotifyFields
  <2>3. \A x \in Workers : x # w => cur'[x] = cur[x]
    BY <1>0 DEF Effect, TypeOK
  <2>4. \A x \in Workers : x # w /\ pc[x] = "running" => cur[x] # t
    BY <1>0 DEF RunningExclusive, Running
  <2> QED BY <2>2, <2>3, <2>4, <1>0 DEF Inflight, Running
<1>4. History' = [History EXCEPT ![t] = Append(@, [agent |-> a, status |-> s])]
  <2>1. /\ st'[t].attempts = Append(st[t].attempts, [agent |-> a, status |-> s])
        /\ \A u \in Tasks : u # t => st'[u].attempts = st[u].attempts
    BY <1>0, <1>1 DEF Effect, Verdicts
  <2> QED BY <1>0, <2>1 DEF History
<1>5. Live' = IF s = "AgentError" THEN Live \ {a} ELSE Live
  BY <1>1 DEF Verdicts
<1> DEFINE J == Job!Judge(History'[t], Retries[t])
           V == [Verdict EXCEPT ![t] = J]
<1>6. /\ t \notin G => J = IF st'[t].done THEN st'[t].final ELSE "Pending"
      /\ t \in G => J = "Pending"
  <2>1. /\ History'[t] = st'[t].attempts /\ Retries[t] \in Nat
        /\ History'[t] = Append(st[t].attempts, [agent |-> a, status |-> s])
        /\ st[t].attempts \in Seq(AttemptRecord)
    BY <1>0, <1>1, SchedulerAssumption DEF History, SchedulerAssumption, Verdicts, TypeOK, TaskState
  <2>2. st'[t].failures = Job!Spent(History'[t])
    BY <1>0, <2>1 DEF FailuresExact
  <2>3. History'[t][Len(History'[t])].status = s
    <3> DEFINE e == [agent |-> a, status |-> s]
    <3>1. e \in AttemptRecord /\ e.status = s /\ History'[t] = Append(st[t].attempts, e)
      BY <1>0, <2>1 DEF AttemptRecord
    <3> HIDE DEF e
    <3>2. History'[t][Len(History'[t])] = e
      BY <2>1, <3>1
    <3> QED BY <3>1, <3>2
  <2>4. PICK h, k : h = History'[t] /\ k = Retries[t]
    OBVIOUS
  <2>5. /\ s = "Passed" => Job!Judge(h, k) = "Passed"
        /\ s = "AgentError" => Job!Judge(h, k) = "Pending"
        /\ s \in TestFailure /\ Job!Spent(h) > k => Job!Judge(h, k) = s
        /\ s \in TestFailure /\ ~(Job!Spent(h) > k) => Job!Judge(h, k) = "Pending"
    BY <2>3, <2>4, JudgeLast
  <2>6. J = Job!Judge(h, k) /\ st'[t].failures = Job!Spent(h)
    BY <2>2, <2>4
  <2> HIDE DEF J
  <2>7. /\ t \in G => s = "AgentError"
        /\ t \notin G => /\ s = "Passed" => st'[t].done
                         /\ s = "AgentError" => ~st'[t].done
                         /\ s \in TestFailure => (st'[t].done <=> Job!Spent(h) > k)
                         /\ st'[t].done => st'[t].final = s
    BY <1>1, <2>4, <2>6 DEF Verdicts
  <2> QED BY <2>5, <2>6, <2>7 DEF AttemptStatus, TestFailure
<1> HIDE DEF J
<1>7. Job!Hopeless(G, Inflight', V, Live')
  <2> SUFFICES ASSUME NEW u \in G
               PROVE  V[u] = "Pending" /\ Job!Idle(Inflight', u) /\ \A b \in Live' : ~able(b, u)
    BY DEF Job!Hopeless
  <2>1. u \in Tasks /\ ~st[u].done /\ ~st'[u].running /\ \A b \in Live' : ~able(b, u)
    BY <1>1 DEF Verdicts
  <2>2. V[u] = "Pending"
    BY <1>0, <1>6, <2>1 DEF Verdict
  <2>3. (Job!Idle(Inflight, u))'
    <3>1. st'[u].running <=> \E x \in Workers : Running(x, u)'
      BY <1>0, <2>1 DEF RunningExclusive
    <3>2. \A x \in Workers : <<cur'[x], AgentOf(x)>>[1] = cur'[x]
      OBVIOUS
    <3> QED BY <2>1, <3>1, <3>2 DEF Job!Idle, Inflight, Running
  <2> QED BY <2>1, <2>2, <2>3 DEF Job!Idle
<1>8. Verdict' = Job!GivenUp(V, G)
  <2>1. ASSUME NEW u \in Tasks
        PROVE  (IF st'[u].done THEN st'[u].final ELSE "Pending")
                 = IF u \in G THEN "Unschedulable" ELSE V[u]
    <3>1. CASE u \in G
      BY <1>1, <3>1 DEF Verdicts
    <3>2. CASE u \notin G /\ u = t
      BY <1>0, <1>6, <3>2 DEF Verdict
    <3>3. CASE u \notin G /\ u # t
      BY <1>0, <1>1, <3>3 DEF Verdict, Verdicts
    <3> QED BY <3>1, <3>2, <3>3
  <2>2. Job!GivenUp(V, G) = [u \in Tasks |-> IF u \in G THEN "Unschedulable" ELSE V[u]]
    BY DEF Job!GivenUp
  <2>3. Verdict' = [u \in Tasks |-> IF st'[u].done THEN st'[u].final ELSE "Pending"]
    BY DEF Verdict
  <2> HIDE DEF V
  <2> QED BY <2>1, <2>2, <2>3
<1>9. \E H \in SUBSET Tasks : Job!Hopeless(H, Inflight', V, Live') /\ Verdict' = Job!GivenUp(V, H)
  BY <1>7, <1>8
<1>10. Job!Report(t, a, s)
  BY <1>2, <1>3, <1>4, <1>5, <1>9 DEF Job!Report, History, Verdict, J
<1> QED BY <1>10

(* The initial state is the initial state of the abstract run. *)
LEMMA InitMaps == Init => Job!JobInit /\ FailuresExact
<1> SUFFICES ASSUME Init PROVE Job!JobInit /\ FailuresExact
  OBVIOUS
<1>1. \A t \in Tasks : st[t].attempts = <<>> /\ ~st[t].done /\ st[t].failures = 0
  BY DEF Init
<1>2. Inflight = {} /\ Live = Agents
  BY DEF Init, Inflight, Live
<1>3. Job!JobInit
  BY <1>1, <1>2 DEF Job!JobInit
<1>4. Job!Spent(<<>>) = 0
  <2>1. \A X : Job!Cardinality(X) = Cardinality(X)
    BY Zenon DEF Job!Cardinality, Cardinality
  <2>2. DOMAIN <<>> = {}
    OBVIOUS
  <2>3. {i \in DOMAIN <<>> : <<>>[i].status \in {"Failed", "TimedOut"}} = {}
    BY <2>2
  <2> QED BY <2>1, <2>3, FS_EmptySet DEF Job!Spent
<1> QED BY <1>1, <1>3, <1>4 DEF FailuresExact

(* Every step is a step of the abstract run or changes nothing of it. *)
LEMMA StepMaps ==
  Core /\ Core' /\ RetryInv /\ FailuresExact /\ FailuresExact' /\ [Next]_vars
    => [Job!JobNext]_Job!jobVars
<1> SUFFICES ASSUME Core, Core', RetryInv, FailuresExact, FailuresExact', [Next]_vars
             PROVE  Job!JobNext \/ UNCHANGED Job!jobVars
  OBVIOUS
<1>0. TypeOK /\ CurValid /\ RunningExclusive /\ NobodyBeforeStart
  BY DEF Core
<1>1. CASE StartWorkers
  <2> DEFINE G == Stranded(st, Live)
  <2>1. /\ st \in [Tasks -> TaskState] /\ st' = resolve_unschedulable(st, Live)
        /\ alive' = alive /\ cur' = cur
        /\ \A w \in Workers : pc'[w] # "running" /\ pc[w] # "running"
    BY <1>0, <1>1 DEF StartWorkers, TypeOK, NobodyBeforeStart
  <2>2. \A u \in Tasks : /\ u \notin G => st'[u] = st[u]
                         /\ u \in G => st'[u].done
                         /\ u \in G => st'[u].final = "Unschedulable"
                         /\ st'[u].attempts = st[u].attempts
    BY <2>1, ResolveFields
  <2>3. \A u \in G : u \in Tasks /\ ~st[u].done /\ ~st[u].running /\ \A a \in Live : ~able(a, u)
    BY DEF Stranded
  <2>4. Inflight' = Inflight /\ Live' = Live /\ History' = History
    BY <2>1, <2>2 DEF Inflight, Live, History
  <2> HIDE DEF G
  <2>5. Job!Hopeless(G, Inflight, Verdict, Live)
    <3>1. \A u \in G : Job!Idle(Inflight, u)
      BY <1>0, <2>3, IdleIsNotRunning
    <3> QED BY <2>3, <3>1 DEF Job!Hopeless, Verdict
  <2>6. Verdict' = Job!GivenUp(Verdict, G)
    BY <2>2 DEF Job!GivenUp, Verdict
  <2>7. Job!GiveUp
    BY <2>3, <2>4, <2>5, <2>6 DEF Job!GiveUp, History, Verdict
  <2> QED BY <2>7 DEF Job!JobNext
<1>2. ASSUME NEW w \in Workers, Claim(w) PROVE Job!JobNext
  <2>1. PICK t \in Tasks : ClaimOf(w, t)
    BY <1>2, ClaimIs
  <2>2. pc[w] # "running" /\ AgentOf(w) \in Agents
    BY <1>2, WorkerAgent DEF Claim, AtLoopHead
  <2>3. Job!Dispatch(t, AgentOf(w))
    BY <2>1, <2>2, ClaimDispatches
  <2> QED BY <2>2, <2>3 DEF Job!JobNext
<1>3. ASSUME NEW w \in Workers, Record(w) PROVE Job!JobNext
  <2>1. PICK s \in AttemptStatus : Job!Report(cur[w], AgentOf(w), s)
    BY <1>3, RecordReports
  <2>2. cur[w] \in Tasks /\ AgentOf(w) \in Agents
    BY <1>0, <1>3, RecordEffect, WorkerAgent
  <2> QED BY <2>1, <2>2 DEF Job!JobNext, AttemptStatus
<1>4. ASSUME NEW w \in Workers, Exit(w) PROVE UNCHANGED Job!jobVars
  <2> DEFINE p == [pc EXCEPT ![w] = "exited"]
  <2>1. pc' = notify_all(p) /\ p \in [Workers -> PcValues] /\ p[w] = "exited"
        /\ (\A x \in Workers : x # w => p[x] = pc[x])
        /\ pc[w] # "running" /\ UNCHANGED <<st, alive, cur>>
    BY <1>0, <1>4 DEF Exit, AtLoopHead, TypeOK, PcValues
  <2> HIDE DEF p
  <2>2. \A x \in Workers : pc'[x] = "running" <=> pc[x] = "running"
    BY <2>1, NotifyFields
  <2> QED BY <2>1, <2>2, Stutter
<1>5. ASSUME NEW w \in Workers, Wait(w) \/ SpuriousWake(w) PROVE UNCHANGED Job!jobVars
  <2>1. (\A x \in Workers : pc'[x] = "running" <=> pc[x] = "running")
        /\ UNCHANGED <<st, alive, cur>>
    BY <1>0, <1>5 DEF Wait, SpuriousWake, AtLoopHead, TypeOK
  <2> QED BY <2>1, Stutter
<1>6. CASE JoinWorkers \/ Returned \/ UNCHANGED vars
  <2>1. UNCHANGED <<st, alive, pc, cur>>
    BY <1>6 DEF JoinWorkers, Returned, vars
  <2> QED BY <2>1, Stutter
<1> QED BY <1>1, <1>2, <1>3, <1>4, <1>5, <1>6 DEF Next, Loop

(* The failure counter, the set `tried' and the flags agree with the list  *)
(* of attempts in every reachable state.                                   *)
THEOREM BookkeepingIsExact == Spec => [](FailuresExact /\ TriedExact)
<1>1. Init => FailuresExact
  BY InitMaps
<1>2. RetryInv => TriedExact
  BY DEF RetryInv
<1> QED BY <1>1, <1>2, FailuresStep, CoreInvariant, RetryInvariant, PTL DEF Spec

(* The threads, the mutex, the flags and the counters of class Run         *)
(* implement the abstract job run: every verdict execute() returns is the  *)
(* one the reported attempts imply, and every retry goes to a fresh agent  *)
(* as long as a live one is left.                                          *)
THEOREM ImplementsJobRun == Spec => JobRunSpec
<1>1. Init => Job!JobInit /\ FailuresExact
  BY InitMaps
<1> QED BY <1>1, FailuresStep, StepMaps, CoreInvariant, RetryInvariant, PTL
        DEF Spec, JobRunSpec, Job!JobSpec
=============================================================================
