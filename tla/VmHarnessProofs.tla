-------------------------- MODULE VmHarnessProofs --------------------------
(***************************************************************************)
(* Proofs about the VM test harness, for any list of test cases, any       *)
(* filter and any number of iterations.                                    *)
(***************************************************************************)
EXTENDS VmHarness, FiniteSetTheorems, TLAPS

-----------------------------------------------------------------------------
(* The inductive invariant.                                                *)

(* The places of a test case in the shared guest, and of a guest's boot.   *)
InGuest == {"ping", "pause", "resume", "exec", "exit_code", "poll", "shutdown", "stopping"}
InCase  == InGuest \cup {"ensure", "boot", "create", "await", "gone", "passed", "soak"}
Places  == InCase \cup {"args", "test", "release", "report", "close", "exited", "killed"}

DomStates == {"running", "paused", "shutting", "gone"}
Cmds      == {NoCmd, Running} \cup Ends
Result    == [test : DOMAIN Tests, outcome : {"Passed", "Failed", "Skipped"}, cmd : Cmds]

(* Where the harness is, and which kind of test case goes with it. *)
PlaceInv ==
  /\ cfg \in Config /\ pc \in Places /\ test \in 1..(Len(Tests) + 1) /\ cmd \in Cmds
  /\ pc \in InCase => test <= Len(Tests)
  /\ pc \in InCase \/ (pc = "release" /\ test <= Len(Tests)) => test \in cfg.filter
  /\ pc \in {"report", "close"} => test > Len(Tests)
  /\ pc \in {"pause", "exec", "exit_code", "shutdown", "soak"} => Kind = pc
  /\ pc = "ping" => Kind \in {"ping", "pause"}
  /\ pc = "resume" => Kind = "pause"
  /\ pc = "poll" => Kind \in {"exec", "exit_code"}
  /\ pc \in {"stopping", "gone", "passed"} => Kind = "shutdown"
  /\ pc = "ensure" => Kind # "soak"

(* The handles, the overlays and the domains. *)
GuestInv ==
  /\ next_id \in Nat /\ vm \in 0..next_id /\ overlay \in 0..next_id /\ own \in 0..next_id
  /\ dom \in [DOMAIN dom -> DomStates] /\ DOMAIN dom \subseteq 1..next_id
  /\ pc # "killed" => disks \subseteq lost \cup ({overlay, own} \ {NoVm})
  /\ pc = "killed" => \E i \in Nat : disks \ lost \subseteq {i}
  /\ vm # NoVm => vm = overlay /\ overlay \in disks /\ vm \in DOMAIN dom
  /\ own # NoVm => pc \in {"create", "await", "soak", "killed"}
  /\ pc \in InGuest => vm # NoVm
  /\ pc \in {"boot", "create", "await", "soak"} => vm = NoVm
  /\ pc \in {"args", "boot", "report", "close", "exited"} => overlay = NoVm
  /\ pc \in {"create", "await"} => Booted # NoVm /\ (Kind # "soak" => own = NoVm /\ overlay \in disks)
  /\ pc \in {"create", "await", "soak"} /\ Kind = "soak" => overlay = NoVm
  /\ pc = "await" => Booted \in DOMAIN dom
  /\ pc = "soak" => own # NoVm /\ own \in DOMAIN dom
  /\ pc = "args" => DOMAIN dom = {}
  /\ pc \in {"exited", "killed"} => Alive = {}

(* The one guest there may be in a green run. *)
Guest == IF pc \in {"create", "await"} THEN Booted ELSE IF pc = "soak" THEN own ELSE vm

CleanInv ==
  Green => /\ Alive \subseteq {Guest}
           /\ \A i \in DOMAIN dom : dom[i] = "paused" => pc = "resume"
           /\ stray = {}

(* The results so far. *)
ResultInv ==
  /\ results \in Seq(Result)
  /\ {results[i].test : i \in DOMAIN results} = cfg.filter \cap 1..(test - 1)
  /\ PassEarned

(* The exit status. *)
ExitInv ==
  /\ pc \notin {"close", "exited", "killed"} => exit = -1
  /\ cfg.kind = "run" \/ pc \in {"args", "exited"}
  /\ exit = 0 /\ cfg.kind = "run" =>
       /\ test > Len(Tests)
       /\ \A i \in DOMAIN results : results[i].outcome # "Failed"
       /\ cfg.junit => junit # NoReport

VmInv == PlaceInv /\ GuestInv /\ CleanInv /\ ResultInv /\ ExitInv
-----------------------------------------------------------------------------
(* Where the harness is.                                                   *)

(* The test cases have one of the six kinds. *)
LEMMA KindIs ==
  ASSUME NEW n \in 1..(Len(Tests) + 1)
  PROVE  /\ Len(Tests) \in Nat /\ DOMAIN Tests = 1..Len(Tests)
         /\ n <= Len(Tests) => Tests[n] \in Kinds /\ n + 1 \in 1..(Len(Tests) + 1)
BY VmHarnessAssumption DEF VmHarnessAssumption

(* Every step of the harness and of its surroundings keeps PlaceInv. *)
LEMMA PlaceStep ==
  ASSUME PlaceInv, [Next]_vars
  PROVE  PlaceInv'
<1>0. /\ Len(Tests) \in Nat /\ test \in 1..(Len(Tests) + 1)
      /\ test <= Len(Tests) => Kind \in Kinds /\ test + 1 \in 1..(Len(Tests) + 1)
      /\ NoCmd \in Cmds /\ Running \in Cmds /\ Ends \subseteq Cmds
  BY KindIs DEF PlaceInv, Kind, Cmds
<1> USE <1>0
    DEF PlaceInv, Kind, Kinds, Places, InCase, InGuest, Goto, Outcome, Spared, caseVars,
        endVars, Throw, BootFails, OverlayFails
<1>1. CASE parse_args
  BY <1>1 DEF parse_args
<1>2. CASE StartTest
  BY <1>2 DEF StartTest
<1>3. CASE AllDone
  BY <1>3 DEF AllDone
<1>4. CASE ensure_vm
  BY <1>4 DEF ensure_vm
<1>5. CASE release_vm
  BY <1>5 DEF release_vm, Release, AfterRelease
<1>6. CASE make_overlay
  BY <1>6 DEF make_overlay
<1>7. CASE create_transient
  BY <1>7 DEF create_transient
<1>8. CASE wait_for_agent
  BY <1>8 DEF wait_for_agent
<1>9. CASE t_boot_and_agent
  BY <1>9 DEF t_boot_and_agent, Pass
<1>10. CASE t_suspend
  BY <1>10 DEF t_suspend
<1>11. CASE t_resume
  BY <1>11 DEF t_resume
<1>12. CASE guest_exec
  BY <1>12 DEF guest_exec
<1>13. CASE guest_exec_status
  BY <1>13 DEF guest_exec_status, Pass
<1>14. CASE t_shutdown
  BY <1>14 DEF t_shutdown
<1>15. CASE t_stopped
  BY <1>15 DEF t_stopped
<1>16. CASE t_passed
  BY <1>16 DEF t_passed, Pass
<1>17. CASE t_soak
  BY <1>17 DEF t_soak, NextRound
<1>18. CASE report
  BY <1>18 DEF report
<1>19. CASE Close
  BY <1>19 DEF Close, AutoDestroy
<1>20. CASE Killed
  BY <1>20 DEF Killed, AutoDestroy
<1>21. CASE CommandEnds
  BY <1>21 DEF CommandEnds
<1>22. CASE \E i \in DOMAIN dom : Vanish(i)
  BY <1>22 DEF Vanish
<1>23. CASE UNCHANGED vars
  BY <1>23 DEF vars
<1> QED
  BY <1>1, <1>2, <1>3, <1>4, <1>5, <1>6, <1>7, <1>8, <1>9, <1>10, <1>11, <1>12, <1>13, <1>14,
     <1>15, <1>16, <1>17, <1>18, <1>19, <1>20, <1>21, <1>22, <1>23 DEF Next, Harness
-----------------------------------------------------------------------------
(* The guests and their overlays.                                          *)

(* A file whose removal was tried is gone or lost, and no other changes. *)
LEMMA RemoveFile ==
  ASSUME NEW id, remove_file(id)
  PROVE  /\ \A S : disks \subseteq lost \cup S => disks' \subseteq lost' \cup (S \ {id})
         /\ \A j : j # id => (j \in disks' <=> j \in disks)
BY DEF remove_file

(* A boot that fails leaves no overlay that was not tried to be removed. *)
LEMMA BootFailsGuest ==
  ASSUME PlaceInv, GuestInv, pc \in {"create", "await"}, BootFails, UNCHANGED <<next_id, vm, overlay, dom>>
  PROVE  GuestInv'
<1>1. pc' = "test" /\ own' = NoVm /\ vm = NoVm /\ remove_file(Booted)
  BY DEF BootFails, GuestInv
<1>2. disks \subseteq lost \cup ({overlay, own} \ {NoVm})
  BY DEF GuestInv
<1>3. disks' \subseteq lost' \cup ({overlay} \ {NoVm})
  <2>1. disks' \subseteq lost' \cup (({overlay, own} \ {NoVm}) \ {Booted})
    BY <1>1, <1>2, RemoveFile
  <2>2. CASE Kind = "soak"
    BY <2>1, <2>2 DEF Booted
  <2>3. CASE Kind # "soak"
    BY <2>1, <2>3 DEF GuestInv, Booted
  <2> QED BY <2>2, <2>3
<1> QED BY <1>1, <1>3 DEF GuestInv, InGuest, NoVm, Alive

(* Every step of the harness and of its surroundings keeps GuestInv. *)
LEMMA GuestStep ==
  ASSUME PlaceInv, GuestInv, [Next]_vars
  PROVE  GuestInv'
<1>0. pc \in Places /\ (test <= Len(Tests) => Kind \in Kinds) /\ Len(Tests) \in Nat /\ test \in Nat
  BY KindIs DEF PlaceInv, Kind
<1> USE <1>0
    DEF PlaceInv, GuestInv, Booted, Kind, Kinds, Places, InCase, InGuest, NoVm, Alive,
        DomStates, Becomes, remove_file
<1>1. CASE parse_args
  BY <1>1 DEF parse_args, caseVars
<1>2. CASE StartTest
  BY <1>2 DEF StartTest, Outcome, Spared, endVars
<1>3. CASE AllDone
  BY <1>3 DEF AllDone, Goto, Spared, caseVars, endVars
<1>4. CASE ensure_vm
  BY <1>4 DEF ensure_vm, Goto, Throw, Outcome, Spared, caseVars, endVars
<1>5. CASE release_vm
  BY <1>5 DEF release_vm, Release, AfterRelease, endVars, destroy
<1>6. CASE make_overlay
  BY <1>6 DEF make_overlay, OverlayFails, Outcome, Spared, caseVars, endVars
<1>7. CASE create_transient
  <2>1. CASE /\ dom' = [i \in DOMAIN dom \cup {Booted} |-> IF i = Booted THEN "running" ELSE dom[i]]
             /\ Goto("await") /\ UNCHANGED <<next_id, vm, overlay>> /\ pc = "create"
    <3>0. PICK b \in 1..next_id : b = Booted
      BY <2>1 DEF GuestInv, Booted, NoVm
    <3>1. DOMAIN dom' = DOMAIN dom \cup {b} /\ dom' \in [DOMAIN dom' -> DomStates] /\ DOMAIN dom' \subseteq 1..next_id
      BY <2>1, <3>0 DEF GuestInv, DomStates
    <3>2. Booted' = Booted /\ Kind' = Kind
      BY <2>1 DEF Goto, caseVars, Booted, Kind
    <3> QED BY <2>1, <3>0, <3>1, <3>2 DEF Goto, caseVars, GuestInv, InGuest, NoVm
  <2>2. CASE BootFails /\ UNCHANGED <<next_id, vm, overlay, dom>> /\ pc = "create"
    BY <2>2, BootFailsGuest
  <2> QED BY <1>7, <2>1, <2>2 DEF create_transient
<1>8. CASE wait_for_agent
  <2>1. CASE /\ Goto(Kind) /\ vm' = (IF Kind = "soak" THEN vm ELSE overlay)
             /\ UNCHANGED <<next_id, dom, overlay>> /\ pc = "await"
    <3>1. Alive' = Alive /\ Kind' = Kind /\ Kind \in Kinds
      BY <2>1 DEF Goto, caseVars, Alive, Kind, PlaceInv, InCase
    <3>2. CASE Kind = "soak"
      BY <2>1, <3>1, <3>2 DEF Goto, caseVars, GuestInv, InGuest, Booted, NoVm
    <3>3. CASE Kind # "soak"
      <4>1. overlay # NoVm /\ overlay \in DOMAIN dom /\ own = NoVm
        BY <2>1, <3>3 DEF GuestInv, Booted, PlaceInv
      <4> QED BY <2>1, <3>1, <3>3, <4>1 DEF Goto, caseVars, GuestInv, InGuest, NoVm, Kinds
    <3> QED BY <3>2, <3>3
  <2>2. CASE BootFails /\ UNCHANGED <<next_id, vm, overlay, dom>> /\ pc = "await"
    BY <2>2, BootFailsGuest
  <2> QED BY <1>8, <2>1, <2>2 DEF wait_for_agent
<1>9. CASE t_boot_and_agent
  BY <1>9 DEF t_boot_and_agent, Pass, Throw, Outcome, Spared, caseVars, endVars
<1>10. CASE t_suspend
  BY <1>10 DEF t_suspend, Goto, Throw, Outcome, Spared, caseVars, endVars, suspend
<1>11. CASE t_resume
  BY <1>11 DEF t_resume, Goto, Throw, Outcome, Spared, caseVars, endVars, resume
<1>12. CASE guest_exec
  BY <1>12 DEF guest_exec, Throw, Outcome, caseVars, endVars
<1>13. CASE guest_exec_status
  BY <1>13 DEF guest_exec_status, Pass, Throw, Outcome, caseVars, endVars
<1>14. CASE t_shutdown
  BY <1>14 DEF t_shutdown, Goto, Throw, Outcome, Spared, caseVars, endVars, shutdown
<1>15. CASE t_stopped
  BY <1>15 DEF t_stopped, Goto, Throw, Outcome, Spared, caseVars, endVars
<1>16. CASE t_passed
  BY <1>16 DEF t_passed, Pass, Outcome, Spared, caseVars, endVars
<1>17. CASE t_soak
  <2>1. /\ pc = "soak" /\ remove_file(own) /\ own' = NoVm /\ pc' \in {"test", "boot"}
        /\ UNCHANGED <<next_id, vm, overlay>>
    BY <1>17 DEF t_soak, NextRound, Throw
  <2>2. dom' = dom \/ destroy(own)
    BY <1>17 DEF t_soak
  <2>3. disks' \subseteq lost'
    <3>1. overlay = NoVm
      BY <2>1 DEF GuestInv, PlaceInv, InCase
    <3>2. disks \subseteq lost \cup ({own} \ {NoVm})
      BY <2>1, <3>1 DEF GuestInv
    <3>3. disks' \subseteq lost' \cup (({own} \ {NoVm}) \ {own})
      BY <2>1, <3>2, RemoveFile
    <3> QED BY <3>3
  <2>4. DOMAIN dom' = DOMAIN dom /\ dom' \in [DOMAIN dom' -> DomStates]
    BY <2>2 DEF destroy, GuestInv, Becomes, DomStates
  <2>5. vm = NoVm /\ overlay = NoVm
    BY <2>1 DEF GuestInv, PlaceInv, InCase
  <2> QED BY <2>1, <2>3, <2>4, <2>5 DEF GuestInv, InGuest, NoVm
<1>18. CASE report
  BY <1>18 DEF report, caseVars
<1>19. CASE Close
  BY <1>19 DEF Close, Goto, AutoDestroy, Spared, caseVars, endVars
<1>20. CASE Killed
  <2>1. /\ pc' = "killed" /\ pc # "killed" /\ UNCHANGED <<next_id, vm, overlay, own, lost, test>>
        /\ disks' = disks \/ (pc = "boot" /\ disks' = disks \cup {next_id + 1})
    BY <1>20 DEF Killed
  <2>2. Alive' = {} /\ DOMAIN dom' = DOMAIN dom /\ dom' \in [DOMAIN dom' -> DomStates]
    BY <1>20 DEF Killed, AutoDestroy, Alive, GuestInv, DomStates
  <2>3. disks \subseteq lost \cup ({overlay, own} \ {NoVm}) /\ next_id + 1 \in Nat
    BY <2>1 DEF GuestInv
  <2>4. PICK i \in Nat : disks' \ lost \subseteq {i}
    <3>1. CASE disks' = disks
      <4>1. own = NoVm \/ overlay = NoVm
        BY <2>1 DEF GuestInv, PlaceInv
      <4>2. own \in Nat /\ overlay \in Nat
        BY DEF GuestInv
      <4> QED BY <2>3, <3>1, <4>1, <4>2
    <3>2. CASE pc = "boot" /\ disks' = disks \cup {next_id + 1}
      <4>1. own = NoVm /\ overlay = NoVm
        BY <3>2 DEF GuestInv
      <4> QED BY <2>3, <3>2, <4>1
    <3> QED BY <2>1, <3>1, <3>2
  <2>5. vm # NoVm => vm = overlay /\ overlay \in disks' /\ vm \in DOMAIN dom
    BY <2>1 DEF GuestInv
  <2> QED BY <2>1, <2>2, <2>4, <2>5 DEF GuestInv, InGuest, NoVm
<1>21. CASE CommandEnds
  BY <1>21 DEF CommandEnds, Spared, caseVars, endVars
<1>22. CASE \E i \in DOMAIN dom : Vanish(i)
  BY <1>22 DEF Vanish, destroy, Spared, endVars, caseVars
<1>23. CASE UNCHANGED vars
  BY <1>23 DEF vars, caseVars, endVars
<1> QED
  BY <1>1, <1>2, <1>3, <1>4, <1>5, <1>6, <1>7, <1>8, <1>9, <1>10, <1>11, <1>12, <1>13, <1>14,
     <1>15, <1>16, <1>17, <1>18, <1>19, <1>20, <1>21, <1>22, <1>23 DEF Next, Harness
-----------------------------------------------------------------------------
(* Green runs.                                                             *)

(* A failure is not forgotten. *)
LEMMA OutcomeIs ==
  ASSUME results \in Seq(Result), NEW o, Outcome(o)
  PROVE  /\ DOMAIN results = 1..Len(results) /\ Len(results) \in Nat
         /\ DOMAIN results' = 1..(Len(results) + 1)
         /\ results'[Len(results) + 1] =
              [test |-> test, outcome |-> o, cmd |-> IF o = "Passed" THEN cmd ELSE NoCmd]
         /\ results'[Len(results) + 1].outcome = o
         /\ \A i \in DOMAIN results : results'[i] = results[i]
<1>1. PICK r : r = [test |-> test, outcome |-> o, cmd |-> IF o = "Passed" THEN cmd ELSE NoCmd]
  OBVIOUS
<1>2. results' = Append(results, r) /\ r.outcome = o
  BY <1>1 DEF Outcome
<1>3. /\ DOMAIN results = 1..Len(results) /\ Len(results) \in Nat
      /\ DOMAIN results' = 1..(Len(results) + 1) /\ results'[Len(results) + 1] = r
      /\ \A i \in DOMAIN results : results'[i] = results[i]
  BY <1>2
<1> QED BY <1>1, <1>2, <1>3

(* A test case that failed ends the greenness of the run. *)
LEMMA FailedIsNotGreen ==
  ASSUME results \in Seq(Result), Throw \/ BootFails \/ OverlayFails
  PROVE  ~Green'
<1>1. Outcome("Failed")
  BY DEF Throw, BootFails, OverlayFails
<1>2. /\ Len(results) \in Nat /\ DOMAIN results' = 1..(Len(results) + 1)
      /\ results'[Len(results) + 1].outcome = "Failed"
  BY <1>1, OutcomeIs, Zenon
<1>3. Len(results) + 1 \in DOMAIN results'
  BY <1>2
<1> QED BY <1>2, <1>3 DEF Green

(* What is green was green before. *)
LEMMA GreenBefore ==
  ASSUME results \in Seq(Result), [Next]_vars, Green'
  PROVE  Green
<1>1. results' = results \/ \E o : Outcome(o)
  BY
  DEF Next, Harness, parse_args, StartTest, AllDone, ensure_vm, release_vm, make_overlay,
      create_transient, wait_for_agent, t_boot_and_agent, t_suspend, t_resume, guest_exec,
      guest_exec_status, t_shutdown, t_stopped, t_passed, t_soak, report, Close, Killed,
      CommandEnds, Vanish, vars, caseVars, endVars, Spared, Goto, Throw, BootFails,
      OverlayFails, Pass, NextRound, Release
<1>2. refused => refused'
  BY
  DEF Next, Harness, parse_args, StartTest, AllDone, ensure_vm, release_vm, make_overlay,
      create_transient, wait_for_agent, t_boot_and_agent, t_suspend, t_resume, guest_exec,
      guest_exec_status, t_shutdown, t_stopped, t_passed, t_soak, report, Close, Killed,
      CommandEnds, Vanish, vars, caseVars, endVars, Spared, Release
<1>3. \A i \in DOMAIN results : i \in DOMAIN results' /\ results'[i] = results[i]
  <2>1. CASE results' = results
    BY <2>1
  <2>2. CASE \E o : Outcome(o)
    <3>1. PICK o : Outcome(o)
      BY <2>2
    <3>2. /\ Len(results) \in Nat /\ DOMAIN results' = 1..(Len(results) + 1)
          /\ DOMAIN results = 1..Len(results) /\ \A i \in DOMAIN results : results'[i] = results[i]
      BY <3>1, OutcomeIs, Zenon
    <3> QED BY <3>2
  <2> QED BY <1>1, <2>1, <2>2
<1> QED BY <1>2, <1>3 DEF Green

(* Every step of the harness and of its surroundings keeps CleanInv. *)
LEMMA CleanStep ==
  ASSUME PlaceInv, GuestInv, CleanInv, results \in Seq(Result), [Next]_vars
  PROVE  CleanInv'
<1> SUFFICES ASSUME Green'
             PROVE  /\ Alive' \subseteq {Guest'}
                    /\ \A i \in DOMAIN dom' : dom'[i] = "paused" => pc' = "resume"
                    /\ stray' = {}
  BY DEF CleanInv
<1>0. /\ pc \in Places /\ (test <= Len(Tests) => Kind \in Kinds) /\ Len(Tests) \in Nat /\ test \in Nat
      /\ ~Throw /\ ~BootFails /\ ~OverlayFails /\ stray = {} /\ Alive \subseteq {Guest}
      /\ \A i \in DOMAIN dom : dom[i] = "paused" => pc = "resume"
      /\ ~refused' /\ GuestInv
  BY KindIs, FailedIsNotGreen, GreenBefore DEF PlaceInv, CleanInv, Kind, Green
<1> USE <1>0
    DEF PlaceInv, GuestInv, Guest, Booted, Kind, Kinds, Places, InCase, InGuest, NoVm,
        Alive, DomStates, Becomes
<1>1. CASE parse_args
  BY <1>1 DEF parse_args, caseVars
<1>2. CASE StartTest
  BY <1>2 DEF StartTest, Outcome, Spared, endVars
<1>3. CASE AllDone
  BY <1>3 DEF AllDone, Goto, Spared, caseVars, endVars
<1>4. CASE ensure_vm
  BY <1>4 DEF ensure_vm, Goto, Outcome, Spared, caseVars, endVars
<1>5. CASE release_vm
  BY <1>5 DEF release_vm, Release, AfterRelease, endVars, destroy
<1>6. CASE make_overlay
  BY <1>6 DEF make_overlay, Outcome, Spared, caseVars, endVars
<1>7. CASE create_transient
  BY <1>7 DEF create_transient, Goto, Outcome, Spared, caseVars, endVars
<1>8. CASE wait_for_agent
  BY <1>8 DEF wait_for_agent, Goto, Outcome, Spared, caseVars, endVars
<1>9. CASE t_boot_and_agent
  BY <1>9 DEF t_boot_and_agent, Pass, Outcome, Spared, caseVars, endVars
<1>10. CASE t_suspend
  BY <1>10 DEF t_suspend, Goto, Outcome, Spared, caseVars, endVars, suspend
<1>11. CASE t_resume
  BY <1>11 DEF t_resume, Goto, Outcome, Spared, caseVars, endVars, resume
<1>12. CASE guest_exec
  BY <1>12 DEF guest_exec, Outcome, caseVars, endVars
<1>13. CASE guest_exec_status
  BY <1>13 DEF guest_exec_status, Pass, Outcome, caseVars, endVars
<1>14. CASE t_shutdown
  BY <1>14 DEF t_shutdown, Goto, Outcome, Spared, caseVars, endVars, shutdown
<1>15. CASE t_stopped
  BY <1>15 DEF t_stopped, Goto, Outcome, Spared, caseVars, endVars
<1>16. CASE t_passed
  BY <1>16 DEF t_passed, Pass, Outcome, Spared, caseVars, endVars
<1>17. CASE t_soak
  BY <1>17 DEF t_soak, NextRound, Outcome, Spared, caseVars, endVars, destroy
<1>18. CASE report
  BY <1>18 DEF report, caseVars
<1>19. CASE Close
  BY <1>19 DEF Close, Goto, AutoDestroy, Spared, caseVars, endVars
<1>20. CASE Killed
  BY <1>20 DEF Killed, Goto, AutoDestroy, Spared, caseVars, endVars
<1>21. CASE CommandEnds
  BY <1>21 DEF CommandEnds, Spared, caseVars, endVars
<1>22. CASE \E i \in DOMAIN dom : Vanish(i)
  BY <1>22 DEF Vanish, destroy, Spared, endVars, caseVars
<1>23. CASE UNCHANGED vars
  BY <1>23 DEF vars, caseVars, endVars
<1> QED
  BY <1>1, <1>2, <1>3, <1>4, <1>5, <1>6, <1>7, <1>8, <1>9, <1>10, <1>11, <1>12, <1>13, <1>14,
     <1>15, <1>16, <1>17, <1>18, <1>19, <1>20, <1>21, <1>22, <1>23 DEF Next, Harness
-----------------------------------------------------------------------------
(* The results and the exit status.                                        *)

(* A command whose status a test case is content with ended by itself. *)
LEMMA WantedIs ==
  ASSUME PlaceInv, pc = "poll", parse_exec_status(cmd).exited, Wanted(parse_exec_status(cmd))
  PROVE  /\ Kind = "exec" => cmd = Command("exit", 0, TRUE)
         /\ Kind = "exit_code" => cmd.by = "exit" /\ cmd.n = 7
<1>1. cmd \in Cmds /\ Kind \in {"exec", "exit_code"}
  BY DEF PlaceInv
<1>2. CASE cmd = NoCmd
  <2>1. cmd.by = "none"
    BY <1>2 DEF NoCmd, Command
  <2>2. parse_exec_status(cmd).exit_code = -1
    BY <2>1 DEF parse_exec_status
  <2> QED BY <1>1, <2>2 DEF Wanted
<1>3. CASE cmd = Running
  <2>1. cmd.by = "running"
    BY <1>3 DEF Running, Command
  <2> QED BY <2>1 DEF parse_exec_status
<1>4. CASE cmd = Command("exit", 0, TRUE)
  <2>1. cmd.by = "exit" /\ cmd.n = 0
    BY <1>4 DEF Command
  <2>2. parse_exec_status(cmd).exit_code = 0
    BY <2>1 DEF parse_exec_status
  <2>3. Kind # "exit_code"
    BY <2>2 DEF Wanted
  <2> QED BY <1>4, <2>3
<1>5. CASE cmd = Command("exit", 0, FALSE)
  <2>1. cmd.by = "exit" /\ cmd.n = 0 /\ ~cmd.good
    BY <1>5 DEF Command
  <2>2. parse_exec_status(cmd).exit_code = 0 /\ ~parse_exec_status(cmd).good
    BY <2>1 DEF parse_exec_status
  <2> QED BY <1>1, <2>2 DEF Wanted
<1>6. CASE cmd = Command("exit", 7, TRUE)
  <2>1. cmd.by = "exit" /\ cmd.n = 7
    BY <1>6 DEF Command
  <2>2. parse_exec_status(cmd).exit_code = 7
    BY <2>1 DEF parse_exec_status
  <2>3. Kind # "exec"
    BY <2>2 DEF Wanted
  <2> QED BY <2>1, <2>3
<1>7. CASE cmd = Command("signal", 9, TRUE)
  <2>1. cmd.by = "signal" /\ cmd.n = 9
    BY <1>7 DEF Command
  <2>2. parse_exec_status(cmd).exit_code = 137
    BY <2>1 DEF parse_exec_status
  <2> QED BY <1>1, <2>2 DEF Wanted
<1> QED BY <1>1, <1>2, <1>3, <1>4, <1>5, <1>6, <1>7 DEF Cmds, Ends

(* A test case that ends adds its result. *)
LEMMA ResultOutcome ==
  ASSUME PlaceInv, ResultInv, NEW o \in {"Passed", "Failed", "Skipped"}, Outcome(o), cfg' = cfg,
         test <= Len(Tests), test \in cfg.filter,
         o = "Passed" => /\ Kind = "exec" => cmd = Command("exit", 0, TRUE)
                         /\ Kind = "exit_code" => cmd.by = "exit" /\ cmd.n = 7
  PROVE  ResultInv'
<1>0. test \in DOMAIN Tests /\ cmd \in Cmds /\ NoCmd \in Cmds /\ test' = test + 1 /\ test \in Nat
  BY KindIs DEF PlaceInv, Cmds, Outcome
<1>1. PICK k \in Cmds : k = IF o = "Passed" THEN cmd ELSE NoCmd
  BY <1>0
<1>2. PICK r \in Result : r = [test |-> test, outcome |-> o, cmd |-> k]
  BY <1>0 DEF Result
<1>3. r.test = test /\ r.outcome = o /\ r.cmd = k
  BY <1>2
<1>4. results' = Append(results, r) /\ results \in Seq(Result)
  BY <1>1, <1>2 DEF Outcome, ResultInv
<1>5. /\ results' \in Seq(Result) /\ Len(results) \in Nat /\ DOMAIN results = 1..Len(results)
      /\ DOMAIN results' = 1..(Len(results) + 1) /\ results'[Len(results) + 1] = r
      /\ \A i \in DOMAIN results : results'[i] = results[i]
  BY <1>4
<1>6. \A i \in DOMAIN results' : i \in DOMAIN results \/ results'[i] = r
  BY <1>5
<1>7. Len(results) + 1 \in DOMAIN results' /\ \A i \in DOMAIN results : i \in DOMAIN results'
  BY <1>5
<1>8. {results'[i].test : i \in DOMAIN results'} = {results[i].test : i \in DOMAIN results} \cup {test}
  <2>1. ASSUME NEW n, n \in {results'[i].test : i \in DOMAIN results'}
        PROVE  n \in {results[i].test : i \in DOMAIN results} \cup {test}
    <3>1. PICK i \in DOMAIN results' : n = results'[i].test
      BY <2>1
    <3> QED BY <1>3, <1>5, <1>6, <3>1
  <2>2. ASSUME NEW n, n \in {results[i].test : i \in DOMAIN results} \cup {test}
        PROVE  n \in {results'[i].test : i \in DOMAIN results'}
    <3>1. CASE n = test
      <4>1. n = results'[Len(results) + 1].test
        BY <1>3, <1>5, <3>1
      <4> QED BY <1>7, <4>1
    <3>2. CASE n \in {results[i].test : i \in DOMAIN results}
      <4>1. PICK i \in DOMAIN results : n = results[i].test
        BY <3>2
      <4>2. i \in DOMAIN results' /\ n = results'[i].test
        BY <1>5, <1>7, <4>1
      <4> QED BY <4>2
    <3> QED BY <2>2, <3>1, <3>2
  <2> QED BY <2>1, <2>2
<1>9. cfg.filter \cap 1..(test' - 1) = (cfg.filter \cap 1..(test - 1)) \cup {test}
  <2>1. 1..(test' - 1) = 1..(test - 1) \cup {test}
    BY <1>0 DEF PlaceInv
  <2> QED BY <2>1
<1>10. PassEarned'
  <2> SUFFICES ASSUME NEW i \in DOMAIN results'
               PROVE  LET e == results'[i] IN
                      /\ e.outcome = "Passed" /\ Tests[e.test] = "exec" => e.cmd = Command("exit", 0, TRUE)
                      /\ e.outcome = "Passed" /\ Tests[e.test] = "exit_code" => e.cmd.by = "exit" /\ e.cmd.n = 7
    BY DEF PassEarned
  <2>1. CASE i \in DOMAIN results
    BY <1>5, <2>1 DEF ResultInv, PassEarned
  <2>2. CASE results'[i] = r
    BY <1>1, <1>3, <2>2 DEF Kind
  <2> QED BY <1>6, <2>1, <2>2
<1> QED BY <1>5, <1>8, <1>9, <1>10 DEF ResultInv

(* Every step of the harness and of its surroundings keeps ResultInv. *)
LEMMA ResultStep ==
  ASSUME PlaceInv, ResultInv, [Next]_vars
  PROVE  ResultInv'
<1>0. cfg' = cfg
  BY
  DEF Next, Harness, Vanish, vars, caseVars, endVars, Spared, parse_args, StartTest, AllDone,
      ensure_vm, release_vm, make_overlay, create_transient, wait_for_agent, t_boot_and_agent,
      t_suspend, t_resume, guest_exec, guest_exec_status, t_shutdown, t_stopped, t_passed,
      t_soak, report, Close, Killed, CommandEnds
<1>1. CASE results' = results /\ test' = test
  BY <1>0, <1>1 DEF ResultInv, PassEarned
<1>2. CASE StartTest
  <2>1. CASE test \notin cfg.filter /\ test' = test + 1 /\ results' = results
    <3>1. cfg.filter \cap 1..(test' - 1) = cfg.filter \cap 1..(test - 1)
      <4>1. 1..(test' - 1) = 1..(test - 1) \cup {test}
        BY KindIs, <2>1 DEF PlaceInv
      <4> QED BY <2>1, <4>1
    <3> QED BY <1>0, <2>1, <3>1 DEF ResultInv, PassEarned
  <2>2. CASE test \in cfg.filter /\ Outcome("Skipped")
    BY <1>0, <1>2, <2>2, ResultOutcome DEF StartTest
  <2> QED BY <1>1, <1>2, <2>1, <2>2 DEF StartTest
<1>3. CASE pc \in InCase /\ (Throw \/ BootFails \/ OverlayFails)
  <2>1. Outcome("Failed") /\ test <= Len(Tests) /\ test \in cfg.filter
    BY <1>3 DEF Throw, BootFails, OverlayFails, PlaceInv
  <2> QED BY <1>0, <2>1, ResultOutcome
<1>4. CASE pc \in InCase /\ Kind \notin {"exec", "exit_code"} /\ Outcome("Passed")
  <2>1. test <= Len(Tests) /\ test \in cfg.filter
    BY <1>4 DEF PlaceInv
  <2> QED BY <1>0, <1>4, <2>1, ResultOutcome
<1>5. CASE pc = "poll" /\ parse_exec_status(cmd).exited /\ Wanted(parse_exec_status(cmd)) /\ Pass
  <2>1. test <= Len(Tests) /\ test \in cfg.filter /\ Outcome("Passed")
    BY <1>5 DEF PlaceInv, InCase, InGuest, Pass
  <2> QED BY <1>0, <1>5, <2>1, WantedIs, ResultOutcome
<1>6. CASE ensure_vm \/ make_overlay \/ create_transient \/ wait_for_agent
  BY <1>1, <1>3, <1>6
  DEF ensure_vm, make_overlay, create_transient, wait_for_agent, Goto, caseVars, InCase
<1>7. CASE t_boot_and_agent
  <2>1. Kind \notin {"exec", "exit_code"} /\ pc \in InCase
    BY <1>7 DEF t_boot_and_agent, PlaceInv, InCase, InGuest
  <2> QED BY <1>3, <1>4, <1>7, <2>1 DEF t_boot_and_agent, Pass
<1>8. CASE t_suspend \/ t_resume \/ t_shutdown \/ t_stopped
  BY <1>1, <1>3, <1>8
  DEF t_suspend, t_resume, t_shutdown, t_stopped, Goto, caseVars, InCase, InGuest
<1>9. CASE guest_exec \/ guest_exec_status
  BY <1>1, <1>3, <1>5, <1>9 DEF guest_exec, guest_exec_status, caseVars, InCase, InGuest
<1>10. CASE t_passed
  <2>1. Kind \notin {"exec", "exit_code"} /\ pc \in InCase
    BY <1>10 DEF t_passed, PlaceInv, InCase, InGuest
  <2> QED BY <1>4, <1>10, <2>1 DEF t_passed, Pass
<1>11. CASE t_soak
  <2>1. Kind \notin {"exec", "exit_code"} /\ pc \in InCase
    BY <1>11 DEF t_soak, PlaceInv, InCase, InGuest
  <2> QED BY <1>1, <1>3, <1>4, <1>11, <2>1 DEF t_soak, NextRound
<1>12. CASE parse_args \/ AllDone \/ release_vm \/ report \/ Close \/ Killed \/ CommandEnds \/ UNCHANGED vars
  BY <1>1, <1>12
  DEF parse_args, AllDone, release_vm, report, Close, Killed, CommandEnds, Goto, caseVars, vars
<1>13. CASE \E i \in DOMAIN dom : Vanish(i)
  BY <1>1, <1>13 DEF Vanish, caseVars
<1> QED
  BY <1>2, <1>6, <1>7, <1>8, <1>9, <1>10, <1>11, <1>12, <1>13 DEF Next, Harness

(* An empty report is not a report, and not a truncated one. *)
LEMMA ReportIs == render_junit # NoReport /\ Truncated # NoReport
<1>1. DOMAIN render_junit = {"total", "suites"} /\ DOMAIN NoReport = {"suites"}
  BY DEF render_junit, NoReport
<1>2. Truncated.suites = <<"truncated">> /\ NoReport.suites = <<>>
  BY DEF Truncated, NoReport
<1> QED BY <1>1, <1>2

(* Every step of the harness and of its surroundings keeps ExitInv. *)
LEMMA ExitStep ==
  ASSUME PlaceInv, ResultInv, ExitInv, [Next]_vars
  PROVE  ExitInv'
<1>1. CASE report
  <2>1. /\ pc = "report" /\ pc' = "close" /\ UNCHANGED <<results, test, cfg>>
        /\ cfg.kind = "run" /\ test > Len(Tests)
    BY <1>1 DEF report, caseVars, ExitInv, PlaceInv
  <2>2. ASSUME exit' = 0
        PROVE  (\A i \in DOMAIN results : results[i].outcome # "Failed") /\ (cfg.junit => junit' # NoReport)
    <3>1. Of("Failed", AllSuites) = {} /\ (cfg.junit => junit' \in {render_junit, Truncated})
      BY <1>1, <2>2 DEF report
    <3>2. \A i \in DOMAIN results : results[i].test \in DOMAIN Tests
      <4>1. \A i \in DOMAIN results : results[i] \in Result
        BY DEF ResultInv
      <4> QED BY <4>1 DEF Result
    <3> QED BY <3>1, <3>2, ReportIs DEF Of, AllSuites
  <2> QED BY <2>1, <2>2 DEF ExitInv
<1>2. CASE parse_args
  BY <1>2 DEF parse_args, caseVars, ExitInv, PlaceInv, Config
<1>3. CASE pc \notin {"args", "close", "exited", "killed"} /\ UNCHANGED endVars
  BY <1>3 DEF ExitInv, endVars
<1>4. CASE Close \/ Killed \/ (\E i \in DOMAIN dom : Vanish(i)) \/ UNCHANGED vars
  BY <1>4 DEF Close, Killed, Vanish, Goto, Spared, vars, caseVars, endVars, ExitInv
<1> QED
  BY <1>1, <1>2, <1>3, <1>4
  DEF Next, Harness, StartTest, AllDone, ensure_vm, release_vm, make_overlay, create_transient,
      wait_for_agent, t_boot_and_agent, t_suspend, t_resume, guest_exec, guest_exec_status,
      t_shutdown, t_stopped, t_passed, t_soak, CommandEnds, Spared

-----------------------------------------------------------------------------
(* The invariant holds.                                                    *)

(* Every state of a run of the harness satisfies the invariant. *)
THEOREM VmInvariant == Spec => []VmInv
<1>1. Init => VmInv
  <2> SUFFICES ASSUME Init PROVE VmInv
    OBVIOUS
  <2>0. Len(Tests) \in Nat
    BY KindIs, VmHarnessAssumption DEF VmHarnessAssumption
  <2>1. PlaceInv
    BY <2>0 DEF Init, PlaceInv, Places, InCase, InGuest, Cmds
  <2>2. DOMAIN dom = {} /\ dom \in [DOMAIN dom -> DomStates]
    BY DEF Init
  <2>3. GuestInv
    BY <2>2 DEF Init, GuestInv, InGuest, NoVm, Alive
  <2>4. CleanInv
    BY <2>2 DEF Init, CleanInv, Alive
  <2>5. results \in Seq(Result) /\ DOMAIN results = {} /\ test = 1
    BY DEF Init
  <2>6. ResultInv
    BY <2>5 DEF ResultInv, PassEarned
  <2>7. ExitInv
    BY DEF Init, ExitInv
  <2> QED BY <2>1, <2>3, <2>4, <2>6, <2>7 DEF VmInv
<1>2. VmInv /\ [Next]_vars => VmInv'
  BY PlaceStep, GuestStep, CleanStep, ResultStep, ExitStep DEF VmInv, ResultInv
<1> QED BY <1>1, <1>2, PTL DEF Spec

(* No guest outlives the harness, even when it is killed.  A run that ends *)
(* has tried to remove every overlay it was told of, and what is left is   *)
(* what remove_file could not remove or a failing qemu-img created; a run  *)
(* that is killed leaves at most one overlay besides.                      *)
THEOREM NothingIsLeft == Spec => []NothingLeft
<1>1. ASSUME VmInv PROVE NothingLeft
  <2>1. pc \in {"exited", "killed"} => Alive = {}
    BY <1>1 DEF VmInv, GuestInv
  <2>2. pc = "exited" => disks \subseteq lost
    BY <1>1 DEF VmInv, GuestInv, NoVm
  <2>3. ASSUME pc = "killed" PROVE Cardinality(disks \ lost) <= 1
    <3>1. PICK i \in Nat : disks \ lost \subseteq {i}
      BY <1>1, <2>3 DEF VmInv, GuestInv
    <3>2. IsFiniteSet({i}) /\ Cardinality({i}) = 1
      BY FS_Singleton
    <3> QED BY <3>1, <3>2, FS_Subset
  <2> QED BY <2>1, <2>2, <2>3 DEF NothingLeft
<1> QED BY <1>1, VmInvariant, PTL

(* The shared guest has its disk as long as the harness holds it. *)
THEOREM GuestKeepsItsDisk == Spec => []SharedGuestHasDisk
<1>1. VmInv => SharedGuestHasDisk
  BY DEF VmInv, GuestInv, SharedGuestHasDisk
<1> QED BY <1>1, VmInvariant, PTL

(* As long as no test case failed and no destroy was refused, there is at  *)
(* most one guest, and the next test case finds the shared one running and *)
(* free of commands.                                                       *)
THEOREM GreenIsClean == Spec => []GreenRunIsClean
<1>1. ASSUME VmInv PROVE GreenRunIsClean
  <2> SUFFICES ASSUME Green
               PROVE  /\ Cardinality(Alive) <= 1
                      /\ pc \in {"test", "ensure"} /\ vm # NoVm => dom[vm] # "paused" /\ vm \notin stray
    BY DEF GreenRunIsClean
  <2>1. /\ Alive \subseteq {Guest} /\ stray = {} /\ (vm # NoVm => vm \in DOMAIN dom)
        /\ \A i \in DOMAIN dom : dom[i] = "paused" => pc = "resume"
    BY <1>1 DEF VmInv, CleanInv, GuestInv
  <2>2. IsFiniteSet({Guest}) /\ Cardinality({Guest}) = 1
    BY FS_Singleton
  <2>3. Cardinality(Alive) <= 1
    BY <2>1, <2>2, FS_Subset
  <2> QED BY <2>1, <2>3
<1> QED BY <1>1, VmInvariant, PTL

-----------------------------------------------------------------------------
(* The totals of the report.  FoldFunction is defined over the sets of     *)
(* suites; the counts of the results in them satisfy its equation, and     *)
(* nothing else does, because the sets are finite.                         *)

(* The results in a set of suites that count for a field. *)
CountedIn(f, S) ==
  {i \in DOMAIN results :
     /\ Suite[results[i].test] \in S
     /\ f = "failures" => results[i].outcome = "Failed"
     /\ f = "skipped"  => results[i].outcome = "Skipped"}

Fields  == {"tests", "failures", "skipped"}
Present == {Suite[results[i].test] : i \in DOMAIN results}

(* Induction over the subsets of a finite set. *)
LEMMA SubsetInduction ==
  ASSUME NEW D, IsFiniteSet(D), NEW P,
         \A s \in SUBSET D : (\A r \in SUBSET s : r # s => r \in P) => s \in P
  PROVE  D \in P
<1> SUFFICES ASSUME D \notin P PROVE FALSE
  OBVIOUS
<1> DEFINE T == {s \in SUBSET D : s \notin P}
<1>1. T \subseteq FiniteSubsetsOf(D) /\ T # {}
  BY FS_FiniteSubsetsOfFinite
<1>2. PICK x \in T : \A y \in T : ~(<<y, x>> \in StrictSubsetOrdering(D))
  <2> HIDE DEF T
  <2> QED BY <1>1, WFMin, FS_StrictSubsetOrderingWellFounded
<1>3. ASSUME NEW r \in SUBSET x, r # x PROVE r \in P
  <2>1. <<r, x>> \in StrictSubsetOrdering(D)
    BY <1>3 DEF StrictSubsetOrdering
  <2> QED BY <1>2, <2>1
<1> QED BY <1>3

(* Two suites have no result in common. *)
LEMMA CountSplits ==
  ASSUME ResultInv, NEW f, NEW s, NEW x \in s
  PROVE  /\ Cardinality(CountedIn(f, s)) = Cardinality(CountedIn(f, {x})) + Cardinality(CountedIn(f, s \ {x}))
         /\ \A S : Cardinality(CountedIn(f, S)) \in Nat
<1>1. IsFiniteSet(DOMAIN results)
  <2>1. PICK n \in Nat : DOMAIN results = 1..n
    BY DEF ResultInv
  <2> QED BY <2>1, FS_Interval
<1>2. ASSUME NEW S PROVE IsFiniteSet(CountedIn(f, S)) /\ Cardinality(CountedIn(f, S)) \in Nat
  <2>1. CountedIn(f, S) \subseteq DOMAIN results
    BY DEF CountedIn
  <2> QED BY <1>1, <2>1, FS_Subset, FS_CardinalityType
<1>3. CountedIn(f, s) = CountedIn(f, {x}) \cup CountedIn(f, s \ {x})
  BY DEF CountedIn
<1>4. CountedIn(f, {x}) \cap CountedIn(f, s \ {x}) = {}
  BY DEF CountedIn
<1>5. PICK A : A = CountedIn(f, {x})
  OBVIOUS
<1>6. PICK B : B = CountedIn(f, s \ {x})
  OBVIOUS
<1>7. IsFiniteSet(A) /\ IsFiniteSet(B) /\ A \cap B = {} /\ Cardinality(A) \in Nat /\ Cardinality(B) \in Nat
  BY <1>2, <1>4, <1>5, <1>6
<1>8. Cardinality(A \cup B) = Cardinality(A) + Cardinality(B) - Cardinality(A \cap B)
  BY <1>7, FS_Union
<1>9. Cardinality(A \cap B) = 0
  BY <1>7, FS_EmptySet
<1>10. Cardinality(A \cup B) = Cardinality(A) + Cardinality(B)
  BY <1>7, <1>8, <1>9
<1> QED BY <1>2, <1>3, <1>5, <1>6, <1>10

(* The sum over the suites of a function g that has the counts. *)
LEMMA SumIsCount ==
  ASSUME ResultInv, NEW f, NEW g, DOMAIN g = Present, \A s \in Present : g[s][f] = Cardinality(CountedIn(f, {s}))
  PROVE  FoldFunction(LAMBDA c, n : c[f] + n, 0, g) = Cardinality(CountedIn(f, Present))
<1> DEFINE D     == Present
           x(s)  == CHOOSE y \in s : TRUE
           I(it) == [s \in SUBSET D |-> IF s = {} THEN 0 ELSE g[x(s)][f] + it[s \ {x(s)}]]
           it0   == CHOOSE it : it = I(it)
           h     == [s \in SUBSET D |-> Cardinality(CountedIn(f, s))]
<1>1. FoldFunction(LAMBDA c, n : c[f] + n, 0, g) = it0[D]
  BY Zenon DEF FoldFunction, FoldFunctionOnSet, MapThenFoldSet
<1>2. \A s \in SUBSET D : s # {} => x(s) \in s
  OBVIOUS
<1>3. ASSUME NEW s \in SUBSET D, s # {}
      PROVE  Cardinality(CountedIn(f, s)) = g[x(s)][f] + Cardinality(CountedIn(f, s \ {x(s)}))
  <2>1. x(s) \in s
    BY <1>2, <1>3
  <2>2. PICK y \in s : y = x(s)
    BY <2>1
  <2>3. g[y][f] = Cardinality(CountedIn(f, {y}))
    BY <2>2
  <2>4. Cardinality(CountedIn(f, s)) = Cardinality(CountedIn(f, {y})) + Cardinality(CountedIn(f, s \ {y}))
    BY CountSplits
  <2> HIDE DEF x
  <2> QED BY <2>2, <2>3, <2>4
<1>4. Cardinality(CountedIn(f, {})) = 0
  <2>1. CountedIn(f, {}) = {}
    BY DEF CountedIn
  <2> QED BY <2>1, FS_EmptySet
<1>5. h = I(h)
  <2> HIDE DEF x
  <2>1. \A s \in SUBSET D : h[s] = I(h)[s]
    <3>1. \A s \in SUBSET D : s \ {x(s)} \in SUBSET D
      OBVIOUS
    <3> QED BY <1>3, <1>4, <3>1
  <2> QED BY <2>1
<1>6. it0 = I(it0)
  <2> HIDE DEF I, h
  <2> QED BY <1>5
<1> HIDE DEF it0
<1>7. \A s \in SUBSET D : it0[s] = IF s = {} THEN 0 ELSE g[x(s)][f] + it0[s \ {x(s)}]
  <2> HIDE DEF x
  <2> QED BY <1>6
<1> DEFINE P == {s \in SUBSET D : it0[s] = Cardinality(CountedIn(f, s))}
<1>8. ASSUME NEW s \in SUBSET D, \A r \in SUBSET s : r # s => r \in P PROVE s \in P
  <2>1. CASE s = {}
    BY <1>4, <1>7, <2>1
  <2>2. CASE s # {}
    <3>1. x(s) \in s
      BY <1>2, <2>2
    <3> HIDE DEF x
    <3>2. s \ {x(s)} \in P
      BY <1>8, <3>1
    <3>3. it0[s] = g[x(s)][f] + Cardinality(CountedIn(f, s \ {x(s)}))
      BY <1>7, <2>2, <3>2
    <3> QED BY <1>3, <2>2, <3>3
  <2> QED BY <2>1, <2>2
<1>9. IsFiniteSet(D)
  <2>1. PICK n \in Nat : DOMAIN results = 1..n
    BY DEF ResultInv
  <2>2. IsFiniteSet(DOMAIN results)
    BY <2>1, FS_Interval
  <2> DEFINE m == [i \in DOMAIN results |-> Suite[results[i].test]]
  <2>3. m \in Surjection(DOMAIN results, D)
    BY DEF Present, Surjection
  <2> QED BY <2>2, <2>3, FS_Surjection
<1>10. D \in P
  <2> HIDE DEF P, D
  <2> QED BY <1>8, <1>9, SubsetInduction
<1> QED BY <1>1, <1>10

(* The report is about all results there are. *)
JunitInv ==
  junit # NoReport => pc \in {"close", "exited", "killed"} /\ junit \in {render_junit, Truncated}

(* Every step of the harness and of its surroundings keeps JunitInv. *)
LEMMA JunitStep ==
  ASSUME JunitInv, [Next]_vars
  PROVE  JunitInv'
<1>1. CASE report
  <2>1. pc = "report" /\ pc' = "close" /\ UNCHANGED results
    BY <1>1 DEF report, caseVars
  <2>2. junit = NoReport
    BY <2>1 DEF JunitInv
  <2>3. junit' = NoReport \/ junit' \in {render_junit, Truncated}
    BY <1>1, <2>2 DEF report
  <2>4. render_junit' = render_junit
    BY <2>1 DEF render_junit, count, Of, AllSuites
  <2> QED BY <2>1, <2>3, <2>4 DEF JunitInv
<1>2. CASE pc \notin {"close", "exited", "killed"} /\ UNCHANGED junit
  BY <1>2 DEF JunitInv
<1>3. CASE UNCHANGED <<junit, results>> /\ (pc' = pc \/ pc' \in {"exited", "killed"})
  <2>1. render_junit' = render_junit
    BY <1>3 DEF render_junit, count, Of, AllSuites
  <2> QED BY <1>3, <2>1 DEF JunitInv
<1>4. CASE Close \/ Killed \/ (\E i \in DOMAIN dom : Vanish(i)) \/ UNCHANGED vars
  BY <1>3, <1>4 DEF Close, Killed, Vanish, Goto, Spared, vars, caseVars, endVars
<1>5. CASE parse_args
  BY <1>2, <1>5 DEF parse_args
<1> QED
  BY <1>1, <1>2, <1>4, <1>5
  DEF Next, Harness, StartTest, AllDone, ensure_vm, release_vm, make_overlay, create_transient,
      wait_for_agent, t_boot_and_agent, t_suspend, t_resume, guest_exec, guest_exec_status,
      t_shutdown, t_stopped, t_passed, t_soak, CommandEnds, Spared, endVars, InCase, InGuest

(* The total of a field and its sum over the suites. *)
LEMMA TotalsMatch ==
  ASSUME ResultInv, NEW f \in Fields
  PROVE  render_junit.total[f] = FoldFunction(LAMBDA c, n : c[f] + n, 0, render_junit.suites)
<1>1. ASSUME NEW S PROVE count(S)[f] = Cardinality(CountedIn(f, S))
  <2>1. /\ CountedIn("tests", S) = {i \in DOMAIN results : Suite[results[i].test] \in S}
        /\ CountedIn("failures", S) = Of("Failed", S)
        /\ CountedIn("skipped", S) = Of("Skipped", S)
    BY DEF CountedIn, Of
  <2>2. /\ count(S)["tests"] = Cardinality({i \in DOMAIN results : Suite[results[i].test] \in S})
        /\ count(S)["failures"] = Cardinality(Of("Failed", S))
        /\ count(S)["skipped"] = Cardinality(Of("Skipped", S))
    BY DEF count
  <2>3. f = "tests" \/ f = "failures" \/ f = "skipped"
    BY DEF Fields
  <2> QED BY <2>1, <2>2, <2>3
<1>2. PICK g : g = render_junit.suites
  OBVIOUS
<1>3. g = [s \in Present |-> count({s})] /\ render_junit.total = count(AllSuites)
  BY <1>2 DEF render_junit, Present
<1>4. DOMAIN g = Present /\ \A s \in Present : g[s][f] = Cardinality(CountedIn(f, {s}))
  BY <1>1, <1>3
<1>5. FoldFunction(LAMBDA c, n : c[f] + n, 0, g) = Cardinality(CountedIn(f, Present))
  BY <1>4, SumIsCount
<1>6. CountedIn(f, Present) = CountedIn(f, AllSuites)
  <2>1. \A i \in DOMAIN results : results[i].test \in DOMAIN Tests
    <3>1. \A i \in DOMAIN results : results[i] \in Result
      BY DEF ResultInv
    <3> QED BY <3>1 DEF Result
  <2> QED BY <2>1 DEF CountedIn, Present, AllSuites
<1> QED BY <1>1, <1>2, <1>3, <1>5, <1>6

(* A test case that runs a command in the guest passes only if the command *)
(* ended by itself with the exit code and output it is about; an exit      *)
(* status of 0 stands for a run in which everything the filter lets        *)
(* through was run, nothing failed, and the report that was asked for was  *)
(* opened, though perhaps not written to its end; and the totals of a      *)
(* report that is not truncated are the sums over its suites.              *)
THEOREM PassesAreEarned == Spec => []PassedMeansDone
<1>1. ASSUME VmInv PROVE PassEarned /\ ZeroEarned
  <2>1. PassEarned
    BY <1>1 DEF VmInv, ResultInv
  <2>2. ASSUME exit = 0, cfg.kind = "run"
        PROVE  {results[i].test : i \in DOMAIN results} = cfg.filter
    <3>1. test > Len(Tests) /\ test \in 1..(Len(Tests) + 1) /\ Len(Tests) \in Nat /\ cfg.filter \in Filters
      BY <1>1, <2>2, KindIs DEF VmInv, ExitInv, PlaceInv, Config
    <3>2. cfg.filter \subseteq 1..(test - 1)
      BY <3>1, VmHarnessAssumption DEF VmHarnessAssumption
    <3> QED BY <1>1, <3>2 DEF VmInv, ResultInv
  <2>3. ZeroEarned
    BY <1>1, <2>2 DEF VmInv, ExitInv, ZeroEarned
  <2> QED BY <2>1, <2>3
<1>2. Spec => []JunitInv
  <2>1. Init => JunitInv
    BY DEF Init, JunitInv
  <2>2. JunitInv /\ [Next]_vars => JunitInv'
    BY JunitStep
  <2> QED BY <2>1, <2>2, PTL DEF Spec
<1>3. ASSUME VmInv, JunitInv PROVE PassedMeansDone
  <2>1. ASSUME junit \notin {NoReport, Truncated}, NEW f \in {"tests", "failures", "skipped"}
        PROVE  junit.total[f] = FoldFunction(LAMBDA c, n : c[f] + n, 0, junit.suites)
    <3>1. junit = render_junit /\ f \in Fields /\ ResultInv
      BY <1>3, <2>1 DEF JunitInv, Fields, VmInv
    <3>2. render_junit.total[f] = FoldFunction(LAMBDA c, n : c[f] + n, 0, render_junit.suites)
      BY <3>1, TotalsMatch
    <3> QED BY <3>1, <3>2, Zenon
  <2> QED BY <1>1, <1>3, <2>1, Zenon DEF PassedMeansDone
<1> QED BY <1>2, <1>3, VmInvariant, PTL
=============================================================================
