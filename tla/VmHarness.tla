------------------------------ MODULE VmHarness ------------------------------
(***************************************************************************)
(* The VM test harness: vmtest's main() and the test cases that run_tests  *)
(* runs one after the other (vmtest/src/main.cpp, tests.cpp), the guests   *)
(* that Context boots, shares and releases, and the commands that          *)
(* guest_exec runs in them (guest_exec.cpp, virt.cpp).  Around it are      *)
(* libvirt, where every call can fail and which destroys the domains of a  *)
(* connection when it closes, a guest that may vanish or stop answering at *)
(* any moment, and whoever kills the harness.                              *)
(***************************************************************************)
EXTENDS Integers, Sequences, FiniteSets, Functions

CONSTANTS
  Tests,       \* the test cases of build_tests, by kind
  Suite,       \* the suite of each
  Filters,     \* the sets of test cases that a --filter may let through
  Iterations   \* the values of --iterations

Kinds == {"ping", "pause", "exec", "exit_code", "shutdown", "soak"}

ASSUME VmHarnessAssumption ==
  /\ Tests \in Seq(Kinds) /\ DOMAIN Suite = DOMAIN Tests
  /\ Filters \subseteq SUBSET DOMAIN Tests
  /\ Iterations \subseteq Nat

NoVm == 0

VARIABLES
  cfg,      \* the command line
  pc,       \* the harness's next step
  test,     \* index of the current test case
  next_id,  \* next_id_
  dom,      \* libvirt's view: the state of every domain there was
  disks,    \* the overlay files that exist
  lost,     \* history: those whose removal failed, or that a failing qemu-img left
  vm,       \* vm_: the shared guest
  overlay,  \* vm_overlay_
  own,      \* the soak test's guest, on its stack
  iter,     \* the soak test's iteration
  cmd,      \* the command of the current test case in its guest
  results,  \* the outcomes so far; of a pass, with how the command ended
  refused,  \* history: release_vm swallowed a failing destroy
  stray,    \* history: the guests in which a command was left running
  exit,     \* the exit status
  junit     \* the report

caseVars == <<test, iter, results, disks, lost, own>>
endVars  == <<cfg, exit, junit>>
vars == <<caseVars, endVars, pc, next_id, dom, vm, overlay, cmd, refused, stray>>

(* A command runs, or has ended: how, with which number, and whether its   *)
(* output is what the test case wants to see.                              *)
Command(by, n, good) == [by |-> by, n |-> n, good |-> good]
NoCmd   == Command("none", 0, FALSE)
Running == Command("running", 0, FALSE)
Ends    == {Command("exit", 0, TRUE), Command("exit", 0, FALSE), Command("exit", 7, TRUE),
            Command("signal", 9, TRUE)}

NoReport  == [suites |-> <<>>]

(* A file that was opened, and then not or only partly written. *)
Truncated == [suites |-> <<"truncated">>]

(* An error or a missing image, --help, --list, or a run. *)
Config ==
  [kind : {"error", "help", "list", "run"}, filter : Filters, iterations : Iterations, junit : BOOLEAN]

Init ==
  /\ cfg \in Config /\ exit = -1 /\ junit = NoReport
  /\ pc = "args" /\ test = 1 /\ next_id = 0
  /\ dom = <<>> /\ disks = {} /\ lost = {}
  /\ vm = NoVm /\ overlay = NoVm /\ own = NoVm /\ iter = 1 /\ cmd = NoCmd
  /\ results = <<>> /\ refused = FALSE /\ stray = {}

Kind == Tests[test]

(* The two kinds of guest keep their id in vm_overlay_ or on the stack. *)
Booted == IF Kind = "soak" THEN own ELSE overlay

-----------------------------------------------------------------------------
(* libvirt's side of a domain, when a call succeeds.                       *)

(* state() is neither Gone nor ShutOff; a transient domain that stops is   *)
(* Gone.                                                                   *)
Alive == {i \in DOMAIN dom : dom[i] \in {"running", "paused", "shutting"}}

Becomes(i, s) == dom' = [dom EXCEPT ![i] = s]

suspend(i)  == dom[i] = "running" /\ Becomes(i, "paused")
resume(i)   == dom[i] = "paused" /\ Becomes(i, "running")
shutdown(i) == dom[i] = "running" /\ Becomes(i, "shutting")
destroy(i)  == i \in Alive /\ Becomes(i, "gone")

(* The guest's agent can only answer while the guest runs. *)
agent_command(i) == dom[i] = "running"

-----------------------------------------------------------------------------
(* main, up to run_tests.                                                  *)
parse_args ==
  /\ pc = "args"
  /\ \/ cfg.kind = "error" /\ exit' = 2 /\ pc' = "exited"
     \/ cfg.kind \in {"help", "list"} /\ exit' = 0 /\ pc' = "exited"
     \/ cfg.kind = "run" /\ pc' = "test" /\ UNCHANGED exit
  /\ UNCHANGED <<caseVars, cfg, junit, next_id, dom, vm, overlay, cmd, refused, stray>>

(* run_tests: a test case ends and the next one begins. *)
Outcome(o) ==
  /\ results' = Append(results, [test |-> test, outcome |-> o, cmd |-> IF o = "Passed" THEN cmd ELSE NoCmd])
  /\ test' = test + 1 /\ iter' = 1 /\ cmd' = NoCmd

Goto(l) == pc' = l /\ UNCHANGED <<caseVars, cmd>>

Spared == UNCHANGED <<endVars, refused, stray>>

(* remove_file: the error of a failing removal is dropped, and so is, by   *)
(* the callers, the path.  There is nothing to do for an empty path.       *)
remove_file(id) ==
  \/ disks' = disks \ {id} /\ lost' = lost \ {id}
  \/ id \in disks /\ lost' = lost \cup {id} /\ UNCHANGED disks

(* Mutant: the soak test does not catch the exception. *)
Throw_uncaught ==
  Outcome("Failed") /\ pc' = "test" /\ own' = NoVm /\ UNCHANGED <<disks, lost>>

(* An exception leaves the test case.  The soak test's guest goes out of   *)
(* scope with only its handle freed, and its overlay is removed.           *)
Throw ==
  /\ Outcome("Failed")
  /\ pc' = "test"
  /\ remove_file(own) /\ own' = NoVm

StartTest ==
  /\ pc = "test" /\ test <= Len(Tests)
  /\ \/ /\ test \notin cfg.filter
        /\ test' = test + 1 /\ UNCHANGED <<pc, iter, results, cmd>>
     \/ /\ test \in cfg.filter /\ Kind = "soak" /\ cfg.iterations = 0
        /\ Outcome("Skipped") /\ UNCHANGED pc
     \/ /\ test \in cfg.filter /\ ~(Kind = "soak" /\ cfg.iterations = 0)
        /\ pc' = (IF Kind = "soak" THEN "release" ELSE "ensure")
        /\ UNCHANGED <<results, test, iter, cmd>>
  /\ Spared /\ UNCHANGED <<next_id, dom, disks, lost, vm, overlay, own>>

AllDone ==
  /\ pc = "test" /\ test > Len(Tests)
  /\ Goto("release")
  /\ Spared /\ UNCHANGED <<next_id, dom, vm, overlay>>

(* ensure_vm: reuse the shared guest unless it is gone. *)
ensure_vm ==
  /\ pc = "ensure"
  /\ \/ vm \in Alive /\ Goto(Kind)
     \/ vm \notin Alive /\ Goto("release")
     \/ vm # NoVm /\ Throw
  /\ Spared /\ UNCHANGED <<next_id, dom, vm, overlay>>

AfterRelease ==
  CASE pc = "gone"                           -> "passed"
    [] pc = "release" /\ test > Len(Tests)   -> "report"
    [] OTHER                                 -> "boot"

(* release_vm: destroy the shared guest, an error is swallowed, then drop  *)
(* the handle and remove the overlay.                                      *)
Release ==
  /\ \/ destroy(vm) /\ UNCHANGED refused
     \/ vm \in Alive /\ refused' = TRUE /\ UNCHANGED dom
     \/ vm \notin Alive /\ UNCHANGED <<dom, refused>>
  /\ vm' = NoVm /\ overlay' = NoVm
  /\ remove_file(overlay)
  /\ pc' = AfterRelease

(* Mutant: the overlay goes first, while the guest may still be running. *)
release_disk_first ==
  /\ pc \in {"release", "gone"}
  /\ IF overlay \in disks
     THEN disks' = disks \ {overlay} /\ UNCHANGED <<lost, dom, refused, vm, overlay, pc>>
     ELSE Release
  /\ UNCHANGED <<endVars, test, next_id, own, iter, results, cmd, stray>>

release_vm ==
  /\ pc \in {"release", "gone"}
  /\ Release
  /\ UNCHANGED <<endVars, test, next_id, own, iter, results, cmd, stray>>

(* Nobody removes what a failing qemu-img may have created. *)
OverlayFails ==
  /\ Outcome("Failed") /\ pc' = "test" /\ UNCHANGED own
  /\ \E left \in {{}, {next_id + 1}} : disks' = disks \cup left /\ lost' = lost \cup left

(* boot_fresh_vm: make_overlay, create_transient, wait_for_agent.  Once    *)
(* the overlay is made, a failure removes it and the handle is freed; the  *)
(* domain is not destroyed.                                                *)
make_overlay ==
  /\ pc = "boot"
  /\ next_id' = next_id + 1
  /\ \/ /\ disks' = disks \cup {next_id'} /\ UNCHANGED lost
        /\ IF Kind = "soak" THEN own' = next_id' /\ UNCHANGED overlay
                            ELSE overlay' = next_id' /\ UNCHANGED own
        /\ pc' = "create" /\ UNCHANGED <<test, iter, results, cmd>>
     \/ OverlayFails /\ UNCHANGED overlay
  /\ Spared /\ UNCHANGED <<dom, vm>>

BootFails ==
  Outcome("Failed") /\ pc' = "test" /\ own' = NoVm /\ remove_file(Booted)

create_transient ==
  /\ pc = "create"
  /\ \/ dom' = [i \in DOMAIN dom \cup {Booted} |-> IF i = Booted THEN "running" ELSE dom[i]]
        /\ Goto("await")
     \/ BootFails /\ UNCHANGED dom
  /\ Spared /\ UNCHANGED <<next_id, vm, overlay>>

wait_for_agent ==
  /\ pc = "await"
  /\ \/ /\ agent_command(Booted) /\ Goto(Kind)
        /\ vm' = (IF Kind = "soak" THEN vm ELSE overlay)
     \/ BootFails /\ UNCHANGED vm
  /\ Spared /\ UNCHANGED <<next_id, dom, overlay>>

-----------------------------------------------------------------------------
(* The bodies of the test cases.                                           *)
Pass ==
  Outcome("Passed") /\ pc' = "test" /\ UNCHANGED <<disks, lost, own>>

(* Also the end of t_pause_resume.  What libvirt says about the guest may  *)
(* not be what was configured.                                             *)
t_boot_and_agent ==
  /\ pc = "ping"
  /\ (agent_command(vm) /\ Pass) \/ Throw
  /\ Spared /\ UNCHANGED <<next_id, dom, vm, overlay>>

t_suspend ==
  /\ pc = "pause"
  /\ \/ suspend(vm) /\ Goto("resume")
     \/ Throw /\ UNCHANGED dom
  /\ Spared /\ UNCHANGED <<next_id, vm, overlay>>

t_resume ==
  /\ pc = "resume"
  /\ \/ resume(vm) /\ Goto("ping")
     \/ Throw /\ UNCHANGED dom
  /\ Spared /\ UNCHANGED <<next_id, vm, overlay>>

(* guest_exec: the command is started and a pid comes back; or it is not   *)
(* started, or the answer is lost.                                         *)
guest_exec ==
  /\ pc \in {"exec", "exit_code"}
  /\ \/ agent_command(vm) /\ cmd' = Running /\ pc' = "poll" /\ UNCHANGED <<caseVars, stray>>
     \/ Throw /\ stray' \in {stray} \cup {stray \cup {v} : v \in {vm} \cap Alive}
  /\ UNCHANGED <<endVars, refused, next_id, dom, vm, overlay>>

(* Mutant: r.value("exitcode", 0), a signal is not looked at. *)
parse_exec_status_unsignalled(c) ==
  [exited |-> c.by # "running", good |-> c.good, exit_code |-> IF c.by = "exit" THEN c.n ELSE 0]

parse_exec_status(c) ==
  [exited |-> c.by # "running", good |-> c.good,
   exit_code |-> CASE c.by = "exit" -> c.n [] c.by = "signal" -> 128 + c.n [] OTHER -> -1]

(* Four test cases want 0 and a certain output, t_exit_code wants 7. *)
Wanted(r) ==
  IF Kind = "exit_code" THEN r.exited /\ r.exit_code = 7 ELSE r.exit_code = 0 /\ r.good

(* guest-exec-status is asked until the command has exited, the agent      *)
(* fails, or the time is up: then the command is left to itself.           *)
guest_exec_status ==
  /\ pc = "poll"
  /\ \/ /\ agent_command(vm) /\ parse_exec_status(cmd).exited
        /\ IF Wanted(parse_exec_status(cmd)) THEN Pass ELSE Throw
        /\ UNCHANGED stray
     \/ Throw /\ stray' = IF cmd = Running /\ vm \in Alive THEN stray \cup {vm} ELSE stray
  /\ UNCHANGED <<endVars, refused, next_id, dom, vm, overlay>>

t_shutdown ==
  /\ pc = "shutdown"
  /\ \/ shutdown(vm) /\ Goto("stopping")
     \/ Throw /\ UNCHANGED dom
  /\ Spared /\ UNCHANGED <<next_id, vm, overlay>>

(* The guest is gone in time, and release_vm follows; or it is not. *)
t_stopped ==
  /\ pc = "stopping"
  /\ (vm \notin Alive /\ Goto("gone")) \/ Throw
  /\ Spared /\ UNCHANGED <<next_id, dom, vm, overlay>>

t_passed ==
  /\ pc = "passed"
  /\ Pass
  /\ Spared /\ UNCHANGED <<next_id, dom, vm, overlay>>

NextRound ==
  /\ remove_file(own) /\ own' = NoVm
  /\ IF iter < cfg.iterations
     THEN pc' = "boot" /\ iter' = iter + 1 /\ UNCHANGED <<results, test, cmd>>
     ELSE pc' = "test" /\ Outcome("Passed")

(* Mutant: the guest is forgotten instead of destroyed. *)
t_soak_keeping ==
  /\ pc = "soak" /\ NextRound
  /\ Spared /\ UNCHANGED <<next_id, dom, vm, overlay>>

(* One iteration of the soak test after the boot: ping, destroy, wait.     *)
(* Each may fail, the last one with the guest destroyed already.           *)
t_soak ==
  /\ pc = "soak"
  /\ \/ agent_command(own) /\ destroy(own) /\ NextRound
     \/ Throw /\ UNCHANGED dom
     \/ Throw /\ destroy(own)
  /\ Spared /\ UNCHANGED <<next_id, vm, overlay>>

-----------------------------------------------------------------------------
(* main, after run_tests.                                                  *)
Of(o, S) == {i \in DOMAIN results : results[i].outcome = o /\ Suite[results[i].test] \in S}

count(S) ==
  [tests    |-> Cardinality({i \in DOMAIN results : Suite[results[i].test] \in S}),
   failures |-> Cardinality(Of("Failed", S)), skipped |-> Cardinality(Of("Skipped", S))]

AllSuites == {Suite[t] : t \in DOMAIN Tests}

(* The suites that have results, with their counts, and the total. *)
render_junit ==
  [total |-> count(AllSuites),
   suites |-> [s \in {Suite[results[i].test] : i \in DOMAIN results} |-> count({s})]]

(* The report is opened, which is checked, and written, which is not. *)
report ==
  /\ pc = "report" /\ pc' = "close"
  /\ LET status == IF Of("Failed", AllSuites) = {} THEN 0 ELSE 1 IN
       \/ ~cfg.junit /\ exit' = status /\ UNCHANGED junit
       \/ cfg.junit /\ exit' = 2 /\ UNCHANGED junit
       \/ cfg.junit /\ exit' = status /\ junit' \in {render_junit, Truncated}
  /\ UNCHANGED <<caseVars, cfg, next_id, dom, vm, overlay, cmd, refused, stray>>

(* The connection closes, when main returns or because the harness is      *)
(* killed: libvirt destroys its domains.                                   *)
AutoDestroy == dom' = [i \in DOMAIN dom |-> IF i \in Alive THEN "gone" ELSE dom[i]]

Close ==
  /\ pc = "close" /\ Goto("exited") /\ AutoDestroy
  /\ Spared /\ UNCHANGED <<next_id, vm, overlay>>

(* Whoever kills the harness may find it with qemu-img at work. *)
Killed ==
  /\ pc \notin {"args", "exited", "killed"} /\ pc' = "killed" /\ AutoDestroy
  /\ \/ UNCHANGED disks
     \/ pc = "boot" /\ disks' = disks \cup {next_id + 1}
  /\ Spared /\ UNCHANGED <<test, iter, results, lost, own, cmd, next_id, vm, overlay>>

(* The guest powers off, because it was asked to or on its own account, or *)
(* its qemu process dies.                                                  *)
Vanish(i) ==
  /\ destroy(i)
  /\ Spared /\ UNCHANGED <<caseVars, pc, next_id, vm, overlay, cmd>>

CommandEnds ==
  /\ pc = "poll" /\ cmd = Running /\ agent_command(vm)
  /\ cmd' \in Ends
  /\ Spared /\ UNCHANGED <<caseVars, pc, next_id, dom, vm, overlay>>

Harness ==
  \/ parse_args \/ StartTest \/ AllDone \/ ensure_vm \/ release_vm
  \/ make_overlay \/ create_transient \/ wait_for_agent
  \/ t_boot_and_agent \/ t_suspend \/ t_resume \/ guest_exec \/ guest_exec_status
  \/ t_shutdown \/ t_stopped \/ t_passed \/ t_soak
  \/ report \/ Close

Next == Harness \/ Killed \/ CommandEnds \/ \E i \in DOMAIN dom : Vanish(i)

Spec == Init /\ [][Next]_vars

-----------------------------------------------------------------------------
(* Properties.                                                             *)

(* No guest outlives the harness, killed or not.  Through failing boots,   *)
(* failing tests and guests that vanish, a run that comes to its end has   *)
(* no overlay left but those that could not be removed and those that a    *)
(* failing qemu-img left: remove_file says nothing of a failure, so such a *)
(* run may even be green.  A run that is killed leaves the overlay it was  *)
(* using, never a second one; docs/TEST_PLAN.md:34 says that an aborted    *)
(* run leaves nothing behind, which is true of the guest only.             *)
NothingLeft ==
  /\ pc \in {"exited", "killed"} => Alive = {}
  /\ pc = "exited" => disks \subseteq lost
  /\ pc = "killed" => Cardinality(disks \ lost) <= 1

(* While the harness holds the shared guest, the guest has its disk.       *)
SharedGuestHasDisk == vm # NoVm => vm = overlay /\ overlay \in disks

Green == ~refused /\ \A i \in DOMAIN results : results[i].outcome # "Failed"

(* A test case that spoils what the following ones find has failed itself, *)
(* or libvirt refused a destroy: as long as neither happened there is      *)
(* never more than one guest, the shared guest is not left paused from one *)
(* test case to the next, and no command of an earlier one runs in it.     *)
GreenRunIsClean ==
  Green =>
    /\ Cardinality(Alive) <= 1
    /\ pc \in {"test", "ensure"} /\ vm # NoVm => dom[vm] # "paused" /\ vm \notin stray

(* A pass that is earned. *)
PassEarned ==
  \A i \in DOMAIN results :
    LET r == results[i] IN
    /\ r.outcome = "Passed" /\ Tests[r.test] = "exec" => r.cmd = Command("exit", 0, TRUE)
    /\ r.outcome = "Passed" /\ Tests[r.test] = "exit_code" => r.cmd.by = "exit" /\ r.cmd.n = 7

(* An exit status of 0 that is. *)
ZeroEarned ==
  exit = 0 /\ cfg.kind = "run" =>
    /\ {results[i].test : i \in DOMAIN results} = cfg.filter
    /\ \A i \in DOMAIN results : results[i].outcome # "Failed"
    /\ cfg.junit => junit # NoReport

(* A green result is earned, in spite of what earlier test cases left      *)
(* behind: a test case that runs a command in the guest passes only if the *)
(* command itself ended, with the exit code and the output it is about and *)
(* not by a signal.  An exit status of 0 means that everything the filter  *)
(* lets through passed or was skipped, and that the report that was asked  *)
(* for could be opened: whether it was written is not checked, so it may   *)
(* be truncated.  When it is not, its totals are the sums over the suites. *)
PassedMeansDone ==
  /\ PassEarned /\ ZeroEarned
  /\ junit \notin {NoReport, Truncated} =>
       \A f \in {"tests", "failures", "skipped"} :
         junit.total[f] = FoldFunction(LAMBDA c, n : c[f] + n, 0, junit.suites)
=============================================================================
