------------------------------- MODULE Process -------------------------------
(***************************************************************************)
(* run_process (dtest/src/process.cpp) as the agent uses it: handler       *)
(* threads of one agent process each run a command in a process group of   *)
(* its own, capture its output and enforce its timeout.  The threads share *)
(* the descriptor table that fork() copies, and the pids of the host.      *)
(*                                                                         *)
(* The command is the environment: it may write, fork a background child,  *)
(* exit, be killed, ignore SIGTERM or hang.  stdout stands for both output *)
(* streams, which are handled alike and one after the other.               *)
(***************************************************************************)
EXTENDS Naturals

CONSTANTS
  Threads,
  Pids,      \* the pids the host hands out, again and again
  Capacity,  \* of the pipe: what a writer can be ahead of the reader
  Limit,     \* RunSpec::max_output_bytes
  Daemons    \* may commands leave background children behind?

NoPid == "none"

ASSUME ProcessAssumption ==
  /\ Capacity \in Nat /\ Limit \in Nat /\ Daemons \in BOOLEAN
  /\ NoPid \notin Threads /\ NoPid \notin Pids

VARIABLES
  pc,     \* where each thread is in run_process
  call,   \* the locals of that call
  proc    \* the process (group leader) behind each pid

vars == <<pc, call, proc>>

(* fds are the pipe ends this call has open in the agent.  clock is what   *)
(* the time is for the call: before the deadline, past it, or past the     *)
(* grace period that starts with SIGTERM.  wrote and atExit count what the *)
(* group wrote in all and up to the leader's death; they and read are      *)
(* counted from a later byte on once the captured output is full.          *)
NoCall ==
  [pid |-> NoPid, fds |-> {}, cloexec |-> FALSE, errno |-> FALSE, clock |-> "early",
   out_open |-> TRUE, timed_out |-> FALSE, size |-> 0, truncated |-> FALSE, read |-> 0,
   wrote |-> 0, atExit |-> 0, ran |-> FALSE, status |-> "none", outcome |-> "none"]

(* execw and outw are the calls whose pipe's write end a process holds;    *)
(* keep is the part of execw that survives its exec.                       *)
NoProc ==
  [owner |-> NoPid, state |-> "free", child |-> FALSE, execw |-> {}, keep |-> {},
   outw |-> {}, status |-> "none"]

Init ==
  /\ pc = [t \in Threads |-> "idle"]
  /\ call = [t \in Threads |-> NoCall]
  /\ proc = [q \in Pids |-> NoProc]

-----------------------------------------------------------------------------
Goto(t, from, to) == pc[t] = from /\ pc' = [pc EXCEPT ![t] = to]

Live(p) == p.state \in {"forked", "failed", "running"} \/ p.child

ExecWriters(t) == {q \in Pids : Live(proc[q]) /\ t \in proc[q].execw}
OutWriters(t)  == {q \in Pids : Live(proc[q]) /\ t \in proc[q].outw}

OutPipe  == {"out_r", "out_w"}
PipeEnds == OutPipe \cup {"exec_r", "exec_w"}

(* The call is over; a pipe without a reader is nobody's business.         *)
Close(t) ==
  proc' = [q \in Pids |-> [proc[q] EXCEPT !.execw = @ \ {t}, !.keep = @ \ {t}, !.outw = @ \ {t}]]

(* Empty argv, or pipe() three times.  When the second or third one fails, *)
(* the call returns with the pipes made before it open.                    *)
pipe(t) ==
  /\ \/ /\ Goto(t, "idle", "fcntl")
        /\ call' = [call EXCEPT ![t] = [NoCall EXCEPT !.fds = PipeEnds]]
     \/ /\ pc[t] = "idle" /\ UNCHANGED pc
        /\ \E made \in {{}, OutPipe} :
             call' = [call EXCEPT ![t] = [NoCall EXCEPT !.outcome = "LaunchFailed", !.fds = made]]
  /\ UNCHANGED proc

(* Mutant: the exec pipe is left to survive an exec. *)
fcntl_none(t) == Goto(t, "fcntl", "fork") /\ UNCHANGED <<call, proc>>

fcntl(t) ==
  /\ Goto(t, "fcntl", "fork")
  /\ call' = [call EXCEPT ![t].cloexec = TRUE]
  /\ UNCHANGED proc

(* A pid is in use as long as the process, its zombie or a member of its   *)
(* group exists.  The child gets a copy of every descriptor the agent has  *)
(* open at this instant, those of other calls included.  (Also of those    *)
(* that a call left behind, which nobody reads from any more.)             *)
fork(t) ==
  /\ \/ \E q \in Pids :
          /\ proc[q].state = "free" /\ ~proc[q].child
          /\ Goto(t, "fork", "close")
          /\ call' = [call EXCEPT ![t].pid = q]
          /\ LET W(end) == {u \in Threads : pc[u] # "idle" /\ end \in call[u].fds} IN
               proc' = [proc EXCEPT ![q] =
                 [NoProc EXCEPT !.owner = t, !.state = "forked", !.execw = W("exec_w"),
                                !.keep = {u \in W("exec_w") : ~call[u].cloexec},
                                !.outw = W("out_w")]]
     \/ /\ Goto(t, "fork", "idle")
        /\ call' = [call EXCEPT ![t] = [NoCall EXCEPT !.outcome = "LaunchFailed"]]
        /\ Close(t)

close(t) ==
  /\ Goto(t, "close", "status")
  /\ call' = [call EXCEPT ![t].fds = @ \ {"out_w", "exec_w"}]
  /\ UNCHANGED proc

(* The blocking read of the exec status: an errno, or end of file once     *)
(* nobody holds the write end any more.                                    *)
StatusReadable(t) ==
  call[t].errno \/ ("exec_w" \notin call[t].fds /\ ExecWriters(t) = {})

read_status(t) ==
  /\ Goto(t, "status", IF call[t].errno THEN "reap_failed" ELSE "drain")
  /\ StatusReadable(t)
  /\ call' = [call EXCEPT ![t].fds = @ \ {"exec_r"}]
  /\ proc' = [q \in Pids |-> [proc[q] EXCEPT !.execw = @ \ {t}, !.keep = @ \ {t}]]

Reaped(t) == [proc EXCEPT ![call[t].pid] =
                IF @.child THEN [@ EXCEPT !.state = "free"] ELSE NoProc]

reap_failed(t) ==
  /\ Goto(t, "reap_failed", "idle")
  /\ proc[call[t].pid].state = "zombie"
  /\ call' = [call EXCEPT ![t] =
                [NoCall EXCEPT !.outcome = "LaunchFailed", !.ran = call[t].ran]]
  /\ proc' = Reaped(t)

-----------------------------------------------------------------------------
min(a, b) == IF a < b THEN a ELSE b

(* Bytes past the limit all look alike: only how many are unread matters.  *)
Recount(c) ==
  LET k == IF c.read > Limit + 1 THEN c.read - (Limit + 1) ELSE 0
  IN  [c EXCEPT !.read = @ - k, !.wrote = @ - k, !.atExit = IF @ > k THEN @ - k ELSE 0]

append(c, n) ==
  LET room == IF Limit > c.size THEN Limit - c.size ELSE 0
      take == min(n, room)
  IN  Recount([c EXCEPT !.read = @ + n, !.size = @ + take, !.truncated = @ \/ take < n])

(* drain(): read as long as there is something to read; the deadline is    *)
(* not looked at in between ...                                            *)
drain_more(t, from) ==
  LET c == call[t] IN
  /\ c.out_open /\ c.wrote > c.read
  /\ Goto(t, from, from)
  /\ \E n \in 1..(c.wrote - c.read) : call' = [call EXCEPT ![t] = append(c, n)]
  /\ UNCHANGED proc

(* ... until the pipe is empty, or at end of file. *)
drain_dry(t, from, to) ==
  LET c == call[t] IN
  /\ c.out_open => c.wrote = c.read
  /\ Goto(t, from, to)
  /\ call' = [call EXCEPT ![t].out_open = @ /\ OutWriters(t) # {}]
  /\ UNCHANGED proc

read_ready(t) == drain_more(t, "drain") \/ drain_dry(t, "drain", "check")

(* Mutants: the exit is reaped where it is detected; end of file on the    *)
(* output is taken for the exit.                                           *)
has_exited_reaping(t) ==
  /\ pc[t] = "check"
  /\ IF proc[call[t].pid].state = "zombie"
     THEN Goto(t, "check", "kill") /\ proc' = Reaped(t)
     ELSE Goto(t, "check", "clock") /\ UNCHANGED proc
  /\ UNCHANGED call
has_exited_at_eof(t) ==
  /\ Goto(t, "check", IF call[t].out_open THEN "clock" ELSE "kill")
  /\ UNCHANGED <<call, proc>>

(* waitid with WNOWAIT: the zombie stays. *)
has_exited(t) ==
  /\ pc[t] = "check"
  /\ Goto(t, "check", IF proc[call[t].pid].state = "zombie" THEN "kill" ELSE "clock")
  /\ UNCHANGED <<call, proc>>

(* A signal that ends the leader leaves a zombie with that status. *)
Zombie(p, status) == [p EXCEPT !.state = "zombie", !.status = status]

(* Mutant: no end to the grace period. *)
deadline_patient(t) ==
  /\ \/ /\ call[t].clock = "early" \/ call[t].timed_out
        /\ Goto(t, "clock", "drain")
        /\ UNCHANGED <<call, proc>>
     \/ /\ call[t].clock = "late" /\ ~call[t].timed_out
        /\ Goto(t, "clock", "term")
        /\ call' = [call EXCEPT ![t].timed_out = TRUE]
        /\ UNCHANGED proc

(* The deadline: SIGTERM to the group, which may or may not heed it, and   *)
(* the grace period starts.  Its end: SIGKILL.  Otherwise around again.    *)
deadline(t) ==
  /\ \/ /\ call[t].clock = "early" \/ (call[t].timed_out /\ call[t].clock = "late")
        /\ Goto(t, "clock", "drain")
        /\ UNCHANGED <<call, proc>>
     \/ /\ call[t].clock = "late" /\ ~call[t].timed_out
        /\ Goto(t, "clock", "term")
        /\ call' = [call EXCEPT ![t].timed_out = TRUE]
        /\ UNCHANGED proc
     \/ /\ call[t].clock = "over"
        /\ Goto(t, "clock", "kill")
        /\ UNCHANGED <<call, proc>>

Ends(t, p, status) ==
  /\ proc' = [proc EXCEPT ![p] = Zombie(@, status)]
  /\ call' = [call EXCEPT ![t].atExit = call[t].wrote]

killpg_term(t) ==
  LET p == call[t].pid IN
  /\ Goto(t, "term", "clock")
  /\ \/ proc[p].state = "running" /\ Ends(t, p, "killed")
     \/ UNCHANGED <<call, proc>>

(* Mutant: the group is swept after a timeout only. *)
killpg_on_timeout(t) ==
  LET p == call[t].pid IN
  /\ Goto(t, "kill", "reap")
  /\ IF ~call[t].timed_out THEN UNCHANGED <<call, proc>>
     ELSE /\ call' = [call EXCEPT ![t].atExit = IF proc[p].state = "running" THEN call[t].wrote ELSE @]
          /\ proc' = [proc EXCEPT ![p] =
                IF @.state = "running" THEN [Zombie(@, "killed") EXCEPT !.child = FALSE]
                ELSE [@ EXCEPT !.child = FALSE]]

(* The sweep: whatever is left of the group dies. *)
killpg_kill(t) ==
  LET p == call[t].pid IN
  /\ Goto(t, "kill", "reap")
  /\ call' = [call EXCEPT ![t].atExit = IF proc[p].state = "running" THEN call[t].wrote ELSE @]
  /\ proc' = [proc EXCEPT ![p] =
       IF @.state = "running" THEN [Zombie(@, "killed") EXCEPT !.child = FALSE]
       ELSE [@ EXCEPT !.child = FALSE]]

waitpid(t) ==
  /\ Goto(t, "reap", "last")
  /\ proc[call[t].pid].state = "zombie"
  /\ call' = [call EXCEPT ![t].status = proc[call[t].pid].status]
  /\ proc' = Reaped(t)

(* Mutant: no drain after the exit. *)
last_drain_skipped(t) == Goto(t, "last", "return") /\ UNCHANGED <<call, proc>>

last_drain(t) == drain_more(t, "last") \/ drain_dry(t, "last", "return")

return(t) ==
  LET c == call[t] IN
  /\ Goto(t, "return", "idle")
  /\ call' = [call EXCEPT ![t] = [c EXCEPT !.fds = {}, !.pid = NoPid, !.cloexec = FALSE,
       !.outcome = IF c.timed_out THEN "TimedOut"
                   ELSE IF c.status = "exited" THEN "Exited" ELSE "Signaled"]]
  /\ Close(t)

-----------------------------------------------------------------------------
(* The command. *)

execvpe(q) ==
  /\ proc[q].state = "forked"
  /\ LET t == proc[q].owner IN
     \/ /\ proc' = [proc EXCEPT ![q].state = "running", ![q].execw = @ \cap proc[q].keep]
        /\ call' = [call EXCEPT ![t].ran = TRUE]
     \/ /\ proc' = [proc EXCEPT ![q].state = "failed"]
        /\ call' = [call EXCEPT ![t].errno = TRUE]
  /\ UNCHANGED pc

exit127(q) ==
  /\ proc[q].state = "failed"
  /\ proc' = [proc EXCEPT ![q] = Zombie(@, "exited")]
  /\ UNCHANGED <<pc, call>>

(* It ends by itself, or somebody else (the OOM killer) ends it; so do     *)
(* background children, SIGTERM or not.                                    *)
Die(q) ==
  /\ proc[q].state = "running"
  /\ \E status \in {"exited", "signaled"} : Ends(proc[q].owner, q, status)
  /\ UNCHANGED pc

Write(q) ==
  LET t == proc[q].owner IN
  /\ proc[q].state = "running" \/ proc[q].child
  /\ t \in proc[q].outw /\ call[t].wrote < call[t].read + Capacity
  /\ call' = [call EXCEPT ![t].wrote = @ + 1]
  /\ UNCHANGED <<pc, proc>>

(* A command may close its output and carry on. *)
Hush(q) ==
  /\ proc[q].state = "running" /\ proc[q].owner \in proc[q].outw
  /\ proc' = [proc EXCEPT ![q].outw = {}]
  /\ UNCHANGED <<pc, call>>

(* A background child inherits the descriptors and stays in the group. *)
Daemon(q) ==
  /\ Daemons /\ proc[q].state = "running" /\ ~proc[q].child
  /\ proc' = [proc EXCEPT ![q].child = TRUE]
  /\ UNCHANGED <<pc, call>>

DaemonDies(q) ==
  /\ proc[q].child
  /\ proc' = [proc EXCEPT ![q].child = FALSE]
  /\ UNCHANGED <<pc, call>>

(* Time passes; the grace period starts with the SIGTERM. *)
Tick(t) ==
  /\ pc[t] # "idle"
  /\ \/ call[t].clock = "early" /\ call' = [call EXCEPT ![t].clock = "late"]
     \/ /\ call[t].clock = "late" /\ call[t].timed_out /\ pc[t] # "term"
        /\ call' = [call EXCEPT ![t].clock = "over"]
  /\ UNCHANGED <<pc, proc>>

run_process(t) ==
  \/ fcntl(t) \/ fork(t) \/ close(t) \/ read_status(t) \/ reap_failed(t)
  \/ read_ready(t) \/ has_exited(t) \/ deadline(t) \/ killpg_term(t)
  \/ killpg_kill(t) \/ waitpid(t) \/ last_drain(t) \/ return(t)

Command(q) == execvpe(q) \/ exit127(q)

Next ==
  \/ \E t \in Threads : pipe(t) \/ run_process(t) \/ Tick(t)
  \/ \E q \in Pids : Command(q) \/ Die(q) \/ Write(q) \/ Hush(q) \/ Daemon(q) \/ DaemonDies(q)

Spec == Init /\ [][Next]_vars

(* The kernel schedules the agent's threads and the code of the forked     *)
(* child up to its exec; time passes.  The command owes nothing.           *)
FairSpec ==
  /\ Spec
  /\ \A t \in Threads : WF_vars(run_process(t)) /\ WF_vars(Tick(t))
  /\ \A q \in Pids : WF_vars(Command(q))

(* Moreover, the output of every command comes to an end. *)
FiniteOutputSpec ==
  FairSpec /\ \A q \in Pids : <>[][~Write(q)]_vars

-----------------------------------------------------------------------------
(* Properties.                                                             *)

(* killpg hits the group of this call's own command and no other, however  *)
(* soon the host reuses a pid: the leader, dead or alive, has not been     *)
(* reaped when the signal is sent.                                         *)
NoStrayKill ==
  \A t \in Threads : pc[t] \in {"term", "kill"} =>
    LET p == proc[call[t].pid] IN p.owner = t /\ p.state \in {"running", "zombie"}

(* When a call returns, on whichever path, no process of its group is      *)
(* left, neither a background child nor a zombie, and no descriptor of the *)
(* pipes it made, with one exception: a call that fails because it cannot  *)
(* make all its pipes leaves the output pipe open (process.cpp:69).        *)
GroupSwept ==
  \A t \in Threads : pc[t] = "idle" =>
    /\ \A q \in Pids : proc[q].owner # t
    /\ call[t].fds # {} => call[t].fds = OutPipe /\ call[t].outcome = "LaunchFailed"

(* The outcome is the truth about the command: an exit or a signal is one  *)
(* the command brought about before this call sent it any, a timeout is    *)
(* reported past the deadline only, and a launch failure only when the     *)
(* command never ran.                                                      *)
OutcomeHonest ==
  \A t \in Threads : LET c == call[t] IN
    /\ c.outcome = "Exited"       => c.status = "exited" /\ c.ran
    /\ c.outcome = "Signaled"     => c.status = "signaled"
    /\ c.outcome = "TimedOut"     => c.clock # "early"
    /\ c.outcome = "LaunchFailed" => ~c.ran

(* Captured is a prefix of the limited size, marked when bytes were lost,  *)
(* and everything the command wrote before it ended was read: the drain    *)
(* after the reap sees what was written just before the exit.              *)
OutputComplete ==
  \A t \in Threads : LET c == call[t] IN
    /\ c.size = min(c.read, Limit)
    /\ c.truncated <=> c.read > Limit
    /\ c.outcome \in {"Exited", "Signaled", "TimedOut"} => c.read >= c.atExit

(* Every call returns: run_process "enforces the timeout by killing the    *)
(* whole group" (dtest/include/dtest/process.hpp:31), even if the command  *)
(* hangs, ignores SIGTERM or leaves children behind that hold the output   *)
(* pipe.                                                                   *)
CallsReturn == \A t \in Threads : pc[t] # "idle" ~> pc[t] = "idle"

(* Thread t waits in the read of its exec status for the command of u,     *)
(* which holds t's exec pipe and which only u can end.                     *)
WaitsFor(t, u) ==
  /\ pc[t] = "status" /\ ~StatusReadable(t)
  /\ \E q \in ExecWriters(t) : proc[q].owner = u /\ proc[q].state = "running"

(* A command may inherit another call's exec pipe, but the calls never     *)
(* wait for one another in a circle: whichever forked first had set        *)
(* FD_CLOEXEC before, so that no later fork hands its pipe on.             *)
NoCircularWait ==
  \A S \in (SUBSET Threads) \ {{}} : \E t \in S : \A u \in S : ~WaitsFor(t, u)

(* run_process "enforces the timeout by killing the whole group"           *)
(* (dtest/include/dtest/process.hpp:31): past the deadline of a running    *)
(* command, the thread that has to kill it does not wait for some other    *)
(* command, which inherited its exec pipe, to end.                         *)
TimeoutEnforced ==
  \A t \in Threads :
    pc[t] = "status" /\ call[t].clock = "late" /\ proc[call[t].pid].state = "running" =>
      \A q \in ExecWriters(t) : proc[q].state # "running"
=============================================================================
