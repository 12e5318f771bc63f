----------------------------- MODULE Controller -----------------------------
(***************************************************************************)
(* dtest-ctl from its command line to its exit status                      *)
(* (dtest/src/ctl_main.cpp), with the job file (JobFile), the connections  *)
(* and calls of GrpcExecutor, the report (dtest/src/report.cpp), and the   *)
(* commands on the other side.  The scheduling of the tasks is the         *)
(* abstract JobRun, which Scheduler implements.  An agent is a position on *)
(* the command line: one address may be given twice.                       *)
(***************************************************************************)
EXTENDS JobFile, Labels, FiniteSets

CONSTANTS
  Roots,     \* the job files tried
  JobRoot,   \* Bound: the one of them that is also run
  Agents,
  Address,   \* per agent
  LabelsOf   \* per agent

JobTasks == parse_jobs(JobRoot).tasks

ASSUME ControllerAssumption ==
  /\ IsFiniteSet(Agents) /\ DOMAIN Address = Agents /\ DOMAIN LabelsOf = Agents
  /\ JobRoot \in Roots /\ \A rt \in Roots : IsDocument(rt)

VARIABLES
  inflight, history, verdict, up,  \* of JobRun
  cmd,       \* per task, what became of the command of each of its attempts
  opts,      \* the command line
  root,      \* what the job file holds
  parsed,    \* what parse_jobs returned
  pc,        \* "options", "jobs", "connect", "run", "report", "exited"
  ok,        \* per agent, what its connect thread has found out
  stubs,     \* stubs_ of the executor: the addresses with a connection
  live,      \* the agents handed to the scheduler
  exit,      \* the exit status
  text,      \* the summary on stdout
  written    \* the JUnit file: NoReport, Truncated or what render_junit returns

tasks == DOMAIN JobTasks
retries == [t \in tasks |-> JobTasks[t].retries]
able(a, t) == labels_satisfy(LabelsOf[a], JobTasks[t].needs)

(* The job that is run is one the parser accepts. *)
ASSUME JobAssumption == parse_jobs(JobRoot).error = ""

INSTANCE JobRun WITH Tasks <- tasks, Able <- able, Retries <- retries

runVars == <<inflight, history, verdict, up>>
ctlVars == <<opts, root, parsed, pc, ok, stubs, live, exit, text, written>>
vars == <<ctlVars, runVars, cmd>>

Unreadable == [shape |-> "no file"]
NotParsed  == [tasks |-> <<>>, error |-> "not parsed"]
NoReport   == [file |-> "none"]
Truncated  == [file |-> "truncated"]

(* A bad or missing option, --help, --validate, --junit. *)
Options ==
  [kind : {"usage error", "help", "validate", "run"}, junit : BOOLEAN]

Init ==
  /\ JobInit /\ cmd = [t \in tasks |-> <<>>]
  /\ opts \in Options /\ root \in Roots \cup {Unreadable} /\ parsed = NotParsed
  /\ pc = "options" /\ exit = -1 /\ text = NoReport /\ written = NoReport
  /\ ok = [a \in Agents |-> "pending"] /\ stubs = {} /\ live = {}

Exit(code) == pc' = "exited" /\ exit' = code

parse_options ==
  /\ pc = "options"
  /\ \/ opts.kind = "usage error" /\ Exit(2)
     \/ opts.kind = "help" /\ Exit(0)
     \/ opts.kind \in {"validate", "run"} /\ pc' = "jobs" /\ UNCHANGED exit
  /\ UNCHANGED <<opts, root, parsed, ok, stubs, live, text, written, runVars, cmd>>

read_jobs ==
  /\ pc = "jobs"
  /\ \/ root = Unreadable /\ Exit(2) /\ UNCHANGED parsed
     \/ /\ root # Unreadable /\ parsed' = parse_jobs(root)
        /\ \/ parsed'.error # "" /\ Exit(2)
           \/ parsed'.error = "" /\ opts.kind = "validate" /\ Exit(0)
           \/ /\ parsed'.error = "" /\ opts.kind = "run" /\ root = JobRoot
              /\ pc' = "connect" /\ UNCHANGED exit
  /\ UNCHANGED <<opts, root, ok, stubs, live, text, written, runVars, cmd>>

(* One thread per agent: GetInfo answers, refuses, or stays silent until   *)
(* the timeout.                                                            *)
connect(a) ==
  /\ pc = "connect" /\ ok[a] = "pending"
  /\ \/ ok' = [ok EXCEPT ![a] = "ok"] /\ stubs' = stubs \cup {Address[a]}
     \/ \E e \in {"unreachable", "rejected"} : ok' = [ok EXCEPT ![a] = e] /\ UNCHANGED stubs
  /\ UNCHANGED <<opts, root, parsed, pc, live, exit, text, written, runVars, cmd>>

(* Every thread is joined; the scheduler gets the agents that answered.    *)
join_connects ==
  /\ pc = "connect" /\ \A a \in Agents : ok[a] # "pending"
  /\ live' = {a \in Agents : ok[a] = "ok"}
  /\ up' = live'
  /\ IF live' = {} THEN Exit(1) ELSE pc' = "run" /\ UNCHANGED exit
  /\ UNCHANGED <<opts, root, parsed, ok, stubs, text, written, inflight, history, verdict, cmd>>

-----------------------------------------------------------------------------
(* The run.  The state of a command: "sent", "running", how it ended, or   *)
(* "none" if it was never started.                                         *)

Latest(t) == Len(cmd[t])
Becomes(t, i, s) == cmd' = [cmd EXCEPT ![t][i] = s]

dispatch(t, a) ==
  /\ pc = "run" /\ Dispatch(t, a)
  /\ cmd' = [cmd EXCEPT ![t] = Append(@, "sent")]
  /\ UNCHANGED ctlVars

give_up == pc = "run" /\ GiveUp /\ UNCHANGED <<ctlVars, cmd>>

(* The agent starts a command and the command ends, whether or not anybody *)
(* waits for it still.  Bound: not followed beyond the end of the run.     *)
start_command(t, i) ==
  pc = "run" /\ cmd[t][i] = "sent" /\ Becomes(t, i, "running") /\ UNCHANGED <<ctlVars, runVars>>

end_command(t, i) ==
  /\ pc = "run" /\ cmd[t][i] = "running" /\ \E s \in {"ok", "bad", "timed out"} : Becomes(t, i, s)
  /\ UNCHANGED <<ctlVars, runVars>>

(* The outcomes of an answered call. *)
attempt_status(c) ==
  CASE c = "ok" -> "Passed" [] c = "bad" -> "Failed" [] c = "timed out" -> "TimedOut"

answered(t, a) ==
  LET c == cmd[t][Latest(t)] IN
  /\ <<t, a>> \in inflight /\ Address[a] \in stubs
  /\ c \in {"ok", "bad", "timed out"} /\ Report(t, a, attempt_status(c))
  /\ UNCHANGED <<ctlVars, cmd>>

(* The agent declines: a policy, a bad request, its limit; or it does not  *)
(* know the token.                                                         *)
declined(t, a) ==
  /\ <<t, a>> \in inflight /\ cmd[t][Latest(t)] = "sent"
  /\ \E s \in {"Failed", "AgentError"} : Report(t, a, s)
  /\ Becomes(t, Latest(t), "none")
  /\ UNCHANGED ctlVars

(* Mutant: a deadline that passed is a failure of the test. *)
no_answer_failed(t, a) ==
  /\ Report(t, a, "Failed")
  /\ UNCHANGED <<ctlVars, cmd>>

(* The deadline passes or the connection breaks, whatever the command is   *)
(* doing.                                                                  *)
no_answer(t, a) ==
  /\ Report(t, a, "AgentError")
  /\ UNCHANGED <<ctlVars, cmd>>

(* run() returns when nothing is pending or nobody is left, and a task     *)
(* without a verdict keeps its initial one.                                *)
run_returns ==
  /\ pc = "run" /\ inflight = {}
  /\ up = {} \/ \A t \in tasks : verdict[t] # "Pending"
  /\ verdict' = [t \in tasks |-> IF verdict[t] = "Pending" THEN "Unschedulable" ELSE verdict[t]]
  /\ pc' = "report"
  /\ UNCHANGED <<opts, root, parsed, ok, stubs, live, exit, text, written, inflight, history, up, cmd>>

-----------------------------------------------------------------------------
(* The summary and the report.                                             *)

TestFailure == {"Failed", "TimedOut"}

count(status) == Cardinality({t \in tasks : verdict[t] = status})

(* Mutant: every second attempt counts, infrastructure errors included. *)
flaky_any(t) == verdict[t] = "Passed" /\ Len(history[t]) > 1

flaky(t) ==
  verdict[t] = "Passed" /\ \E i \in DOMAIN history[t] : history[t][i].status \in TestFailure

flaky_count == Cardinality({t \in tasks : flaky(t)})

(* Mutant: what could not be scheduled did not fail. *)
all_passed_lenient == count("Failed") + count("TimedOut") = 0

all_passed == count("Passed") = Cardinality(tasks)

Attempted(t) == history[t] # <<>>

describe_last_attempt(t) == IF Attempted(t) THEN Last(history[t]).status ELSE "message"

last_agent(t) == IF Attempted(t) THEN Last(history[t]).agent ELSE 0

render_text ==
  [tags |-> [t \in tasks |->
      CASE verdict[t] = "Passed"        -> IF flaky(t) THEN "FLAKY" ELSE "PASS"
        [] verdict[t] = "TimedOut"      -> "TIMEOUT"
        [] verdict[t] = "Unschedulable" -> "SKIPPED"
        [] OTHER                        -> "FAIL"],
   passed |-> count("Passed"), flaky |-> flaky_count, failed |-> count("Failed"),
   timedOut |-> count("TimedOut"), unschedulable |-> count("Unschedulable"), retired |-> live \ up]

(* One testcase element per task, and the totals of the suite. *)
render_junit ==
  [cases |-> [t \in tasks |->
      CASE verdict[t] = "Passed" /\ ~flaky(t) -> "ok"
        [] flaky(t)                           -> "flaky"
        [] verdict[t] = "Unschedulable"       -> "skipped"
        [] verdict[t] \in TestFailure         -> "failure"],
   classname |-> [t \in tasks |-> last_agent(t)],
   message |-> [t \in tasks |->
      IF verdict[t] = "Unschedulable" THEN "message" ELSE describe_last_attempt(t)],
   tests |-> Cardinality(tasks),
   failures |-> count("Failed") + count("TimedOut"),
   skipped |-> count("Unschedulable")]

(* Only the opening of the file is checked, not the writing. *)
write_report ==
  /\ pc = "report" /\ text' = render_text
  /\ \/ ~opts.junit /\ Exit(IF all_passed THEN 0 ELSE 1) /\ UNCHANGED written
     \/ opts.junit /\ Exit(2) /\ UNCHANGED written
     \/ opts.junit /\ Exit(IF all_passed THEN 0 ELSE 1) /\ written' \in {render_junit, Truncated}
  /\ UNCHANGED <<opts, root, parsed, ok, stubs, live, runVars, cmd>>

Next ==
  \/ parse_options \/ read_jobs \/ (\E a \in Agents : connect(a)) \/ join_connects
  \/ give_up \/ run_returns \/ write_report
  \/ \E t \in tasks :
       \/ \E a \in live : dispatch(t, a) \/ answered(t, a) \/ declined(t, a) \/ no_answer(t, a)
       \/ \E i \in DOMAIN cmd[t] : start_command(t, i) \/ end_command(t, i)

Spec == Init /\ [][Next]_vars

-----------------------------------------------------------------------------
(* Properties.                                                             *)

Total(rt) == FoldLeft(LAMBDA n, e : n + copies(e), 0, rt)

(* Reference: which files are to be accepted, whatever the order in which  *)
(* their parts are looked at.                                              *)
Acceptable(rt) ==
  /\ ValidHeader(rt) /\ \A k \in DOMAIN rt.tasks : ValidEntry(rt.tasks[k])
  /\ Total(rt.tasks) <= kMaxTasks
  /\ \A k, l \in DOMAIN rt.tasks : \A i \in 1..copies(rt.tasks[k]), j \in 1..copies(rt.tasks[l]) :
       CopyName(rt.tasks[k], i) = CopyName(rt.tasks[l], j) => k = l /\ i = j

(* A job file is accepted if and only if nothing is wrong with it, and     *)
(* leaves no tasks behind otherwise.  Each accepted entry contributes its  *)
(* copies, in input order, at the place its predecessors leave, with its   *)
(* own values where it has them and the default otherwise, and the union   *)
(* of the environments in which its own wins.                              *)
ParsedAsMeant ==
  parsed # NotParsed =>
    /\ parsed.error = "" <=> Acceptable(root)
    /\ parsed.error # "" => parsed.tasks = <<>>
    /\ parsed.error = "" =>
         /\ Len(parsed.tasks) = Total(root.tasks)
         /\ \A k \in DOMAIN root.tasks : \A i \in 1..copies(root.tasks[k]) :
              LET t == parsed.tasks[Total(SubSeq(root.tasks, 1, k - 1)) + i]
                  e == root.tasks[k]
                  d == root.defaults
              IN  /\ SubSeq(t.name, 1, Len(e.name)) = e.name
                  /\ Len(t.name) = Len(e.name) + (IF copies(e) > 1 THEN 1 ELSE 0)
                  /\ t.timeout_s = ValueOr(e.timeout_s, ValueOr(d.timeout_s, 60))
                  /\ t.retries = ValueOr(e.retries, ValueOr(d.retries, 0))
                  /\ t.needs = ValueOr(e.requires, ValueOr(d.requires, {}))
                  /\ ValueOr(e.env, {}) \subseteq t.env
                  /\ \A p \in ValueOr(d.env, {}) : \E q \in t.env : q[1] = p[1]
                  /\ \A p, q \in t.env : p[1] = q[1] => p = q

(* What the scheduler and the agents rely on: names identify tasks,        *)
(* however "repeat" and explicit names like "a[1]" are mixed, the list is  *)
(* not empty and within the limit, retry counts are in range, and no agent *)
(* finds fault with the arguments of a task that was accepted here.        *)
TasksUsable ==
  parsed.error = "" =>
    LET ts == parsed.tasks IN
    /\ \A i, j \in DOMAIN ts : ts[i].name = ts[j].name => i = j
    /\ Len(ts) \in 1..kMaxTasks
    /\ \A i \in DOMAIN ts : ArgumentsValid(ts[i]) /\ ts[i].retries \in 0..MaxRetries

LastStatus(t) == Last(history[t]).status

(* Who trusts an exit status of 0 is right: the command of the last        *)
(* attempt of every task really ended well and the JUnit file that was     *)
(* asked for exists, which is not to say it is complete; only --help and   *)
(* --validate succeed without running anything.  And a run in which every  *)
(* task passed never exits with 1.                                         *)
ExitHonest ==
  pc = "exited" =>
    LET green == \A t \in tasks : Attempted(t) /\ LastStatus(t) = "Passed" IN
    /\ exit = 0 => \/ opts.kind \in {"help", "validate"}
                   \/ /\ \A t \in tasks : cmd[t] # <<>> /\ Last(cmd[t]) = "ok"
                      /\ opts.junit => written # NoReport
    /\ exit = 1 => ~green

(* Every mark in a complete JUnit file follows from what happened: a       *)
(* failure had one test failure more than its retries, the last attempt    *)
(* being one; flaky passed after a test failure, ok without one; and a     *)
(* skipped task is one for which every capable agent that had answered     *)
(* broke down, on this task or another.  The totals match the cases, the   *)
(* text says the same as the file, names every agent that broke down, and  *)
(* describes an attempt, attempts.back(), only where there is one.         *)
ReportHonest ==
  /\ text # NoReport =>
       /\ \A t \in tasks : text.tags[t] # "SKIPPED" => Attempted(t)
       /\ text.retired = {a \in Agents : \E t \in tasks : \E i \in DOMAIN history[t] :
                            history[t][i] = [agent |-> a, status |-> "AgentError"]}
  /\ written \notin {NoReport, Truncated} =>
       LET Case(m) == {t \in tasks : written.cases[t] = m}
           Tag(m)  == {t \in tasks : text.tags[t] = m}
       IN
       /\ \A t \in Case("failure") : /\ written.message[t] \in TestFailure
                                      /\ Spent(history[t]) = retries[t] + 1
       /\ \A t \in Case("flaky")   : LastStatus(t) = "Passed" /\ Spent(history[t]) \in 1..retries[t]
       /\ \A t \in Case("ok")      : LastStatus(t) = "Passed" /\ Spent(history[t]) = 0
       /\ \A t \in Case("skipped") : \A a \in live : able(a, t) => a \in text.retired
       /\ Case("failure") = Tag("FAIL") \cup Tag("TIMEOUT") /\ Case("flaky") = Tag("FLAKY")
       /\ Case("ok") = Tag("PASS") /\ Case("skipped") = Tag("SKIPPED")
       /\ written.failures = Cardinality(Case("failure")) /\ written.skipped = Cardinality(Case("skipped"))
       /\ written.tests = Cardinality(Case("ok") \cup Case("flaky")) + written.failures + written.skipped
       /\ text.passed = Cardinality(Case("ok") \cup Case("flaky")) /\ text.flaky = Cardinality(Case("flaky"))

(* A task's command runs again only for a reason, although a deadline or a *)
(* broken connection moves it to another agent while the first command     *)
(* goes on: two commands of a task run at a time, one runs after the       *)
(* report, or a success is not counted, only if the earlier attempt was    *)
(* written off as an infrastructure error; all others were over, with just *)
(* the result on record.  So no more commands run than the retries and     *)
(* those errors allow.                                                     *)
RunsExplained ==
  \A t \in tasks :
    LET h == history[t]
        errors == {i \in DOMAIN h : h[i].status = "AgentError"}
    IN
    /\ \A i \in DOMAIN h \ errors :
         CASE h[i].status = "Passed"   -> cmd[t][i] = "ok"
           [] h[i].status = "TimedOut" -> cmd[t][i] = "timed out"
           [] OTHER                    -> cmd[t][i] \in {"bad", "none"}
    /\ pc \in {"report", "exited"} =>
         \A i \in DOMAIN cmd[t] : cmd[t][i] \in {"sent", "running"} => i \in errors
    /\ Len(cmd[t]) <= retries[t] + 1 + Cardinality(errors)
=============================================================================
