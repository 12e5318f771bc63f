------------------------------- MODULE JobRun -------------------------------
(***************************************************************************)
(* What the scheduler promises to whoever hands it a job                   *)
(* (dtest/include/dtest/scheduler.hpp), without threads, mutexes, flags or *)
(* counters: tasks are dispatched to agents that can run them, attempts    *)
(* are reported, and the verdict of a task is a function of the list of    *)
(* its attempts and of nothing else.                                       *)
(***************************************************************************)
EXTENDS Naturals, Sequences, FiniteSets

CONSTANTS
  Agents,
  Tasks,
  Able(_, _),  \* may this agent run this task?
  Retries

VARIABLES
  inflight,  \* the pairs <<task, agent>> of attempts under way
  history,   \* the attempts of every task, in order
  verdict,   \* "Pending" or a FinalStatus
  up         \* the agents not retired

jobVars == <<inflight, history, verdict, up>>

Idle(F, t) == \A f \in F : f[1] # t

Used(t) == {history[t][i].agent : i \in DOMAIN history[t]}

Spent(h) == Cardinality({i \in DOMAIN h : h[i].status \in {"Failed", "TimedOut"}})

(* A pass decides; a test failure decides once more than `retries' of them *)
(* are on the list; an infrastructure error decides nothing.               *)
Judge(h, retries) ==
  LET last == h[Len(h)].status IN
  CASE last = "Passed" -> "Passed"
    [] last \in {"Failed", "TimedOut"} /\ Spent(h) > retries -> last
    [] OTHER -> "Pending"

JobInit ==
  /\ inflight = {}
  /\ history = [t \in Tasks |-> <<>>]
  /\ verdict = [t \in Tasks |-> "Pending"]
  /\ up = Agents

(* A retry goes to an agent that was not used yet, if a live one is left.  *)
Dispatch(t, a) ==
  /\ verdict[t] = "Pending" /\ Idle(inflight, t)
  /\ a \in up /\ Able(a, t)
  /\ a \in Used(t) => \A b \in up : Able(b, t) => b \in Used(t)
  /\ inflight' = inflight \cup {<<t, a>>}
  /\ UNCHANGED <<history, verdict, up>>

(* The tasks in G are given up: nobody in U can run them.                  *)
Hopeless(G, F, V, U) ==
  \A t \in G : V[t] = "Pending" /\ Idle(F, t) /\ \A a \in U : ~Able(a, t)

GivenUp(V, G) == [t \in Tasks |-> IF t \in G THEN "Unschedulable" ELSE V[t]]

GiveUp ==
  \E G \in SUBSET Tasks :
    /\ Hopeless(G, inflight, verdict, up)
    /\ verdict' = GivenUp(verdict, G)
    /\ UNCHANGED <<inflight, history, up>>

Report(t, a, status) ==
  /\ <<t, a>> \in inflight
  /\ inflight' = inflight \ {<<t, a>>}
  /\ history' = [history EXCEPT ![t] = Append(@, [agent |-> a, status |-> status])]
  /\ up' = IF status = "AgentError" THEN up \ {a} ELSE up
  /\ LET V == [verdict EXCEPT ![t] = Judge(history'[t], Retries[t])] IN
       \E G \in SUBSET Tasks :
         Hopeless(G, inflight', V, up') /\ verdict' = GivenUp(V, G)

JobNext ==
  \/ GiveUp
  \/ \E t \in Tasks, a \in Agents : Dispatch(t, a)
  \/ \E t \in Tasks, a \in Agents :
       \E s \in {"Passed", "Failed", "TimedOut", "AgentError"} : Report(t, a, s)

JobSpec == JobInit /\ [][JobNext]_jobVars
=============================================================================
