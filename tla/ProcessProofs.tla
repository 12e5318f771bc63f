--------------------------- MODULE ProcessProofs ---------------------------
(***************************************************************************)
(* Proofs about run_process, for any number of threads and pids, any pipe  *)
(* capacity and any output limit.                                          *)
(***************************************************************************)
EXTENDS Process, TLAPS

-----------------------------------------------------------------------------
(* The inductive invariant.                                                *)

PcValues ==
  {"idle", "fcntl", "fork", "close", "status", "reap_failed", "drain", "check", "clock",
   "term", "kill", "reap", "last", "return"}

(* The places between fork() and the reap; from "drain" on, the exec is    *)
(* known to have succeeded.                                                *)
Execed == {"drain", "check", "clock", "term", "kill", "reap"}
Busy   == {"close", "status", "reap_failed"} \cup Execed

Deaths   == {"exited", "signaled", "killed"}
Outcomes == {"none", "LaunchFailed", "Exited", "Signaled", "TimedOut"}

CallRec ==
  [pid : Pids \cup {NoPid}, fds : SUBSET PipeEnds, cloexec : BOOLEAN, errno : BOOLEAN,
   clock : {"early", "late", "over"}, out_open : BOOLEAN, timed_out : BOOLEAN, size : Nat,
   truncated : BOOLEAN, read : Nat, wrote : Nat, atExit : Nat, ran : BOOLEAN,
   status : Deaths \cup {"none"}, outcome : Outcomes]

ProcRec ==
  [owner : Threads \cup {NoPid}, state : {"free", "forked", "failed", "running", "zombie"},
   child : BOOLEAN, execw : SUBSET Threads, keep : SUBSET Threads, outw : SUBSET Threads,
   status : Deaths \cup {"none"}]

Typed == pc \in [Threads -> PcValues] /\ call \in [Threads -> CallRec] /\ proc \in [Pids -> ProcRec]

(* What the process p of a call c of thread t is like while t is at `at'. *)
OwnOK(t, at, c, p) ==
  /\ c.pid \in Pids /\ p.owner = t /\ p.state # "free"
  /\ p.state \in {"forked", "failed"} => ~p.child
  /\ p.state = "forked" => ~c.errno /\ ~c.ran
  /\ p.state = "failed" => c.errno
  /\ p.state = "running" => c.ran
  /\ p.state = "zombie" => (c.errno \/ c.ran) /\ p.status \in Deaths
  /\ p.state = "zombie" /\ p.status = "killed" => c.timed_out
  /\ c.errno => ~c.ran /\ ~p.child
  /\ at \in {"close", "status"} /\ p.state = "forked" => t \in p.execw
  /\ at = "reap_failed" => c.errno
  /\ at \in Execed => p.state \in {"running", "zombie"} /\ ~c.errno
  /\ at = "kill" /\ ~c.timed_out => p.state = "zombie"
  /\ at = "reap" => p.state = "zombie" /\ ~p.child

(* The locals of a call alone. *)
CallOK(at, c) ==
  /\ at = "term" => c.timed_out
  /\ at \in {"last", "return"} =>
       c.ran /\ c.status \in Deaths /\ (c.status = "killed" => c.timed_out)
  /\ at \in {"fcntl", "fork"} => ~c.ran /\ ~c.errno
  /\ at = "idle" => c.fds = {} \/ (c.fds = OutPipe /\ c.outcome = "LaunchFailed")
  /\ at \in {"fcntl", "fork", "close"} => c.fds = PipeEnds
  /\ at \notin {"fcntl", "fork", "close"} => "exec_w" \notin c.fds
  /\ at \notin {"idle", "fcntl", "fork", "close"} => "out_w" \notin c.fds
  /\ at \notin {"idle", "fcntl"} => c.cloexec
  /\ c.clock = "over" => c.timed_out
  /\ c.timed_out => c.clock # "early"
  /\ at # "idle" => c.outcome = "none"

HonestOK(c) ==
  /\ c.outcome = "Exited"       => c.status = "exited" /\ c.ran
  /\ c.outcome = "Signaled"     => c.status = "signaled"
  /\ c.outcome = "TimedOut"     => c.clock # "early"
  /\ c.outcome = "LaunchFailed" => ~c.ran

OutOK(at, c) ==
  /\ c.size = min(c.read, Limit) /\ (c.truncated <=> c.read > Limit)
  /\ c.read <= c.wrote /\ c.atExit <= c.wrote
  /\ ~c.out_open => c.wrote = c.read /\ "out_w" \notin c.fds
  /\ at = "return" => c.read >= c.atExit
  /\ c.outcome \in {"Exited", "Signaled", "TimedOut"} => c.read >= c.atExit

(* End of file on the output of t was no mistake. *)
OutShut(t) == ~call[t].out_open => \A q \in Pids : Live(proc[q]) => t \notin proc[q].outw

ThreadInv(t) ==
  /\ pc[t] \in Busy => OwnOK(t, pc[t], call[t], proc[call[t].pid])
  /\ CallOK(pc[t], call[t]) /\ HonestOK(call[t]) /\ OutOK(pc[t], call[t])
  /\ OutShut(t)

(* A pid in use is the pid of its owner's call. *)
PidInv(q) ==
  /\ proc[q].state = "free" => proc[q].owner = NoPid /\ ~proc[q].child /\ proc[q].keep = {}
  /\ proc[q].state # "free" => /\ proc[q].owner \in Threads /\ pc[proc[q].owner] \in Busy
                               /\ call[proc[q].owner].pid = q
  /\ proc[q].state = "running" => proc[q].execw \subseteq proc[q].keep

ProcessInv == Typed /\ (\A t \in Threads : ThreadInv(t)) /\ (\A q \in Pids : PidInv(q))

(* The command of u holds the exec pipe of t beyond its exec. *)
Held(t, u) == \E q \in Pids : proc[q].owner = u /\ t \in proc[q].keep

NoCycle == \A S \in (SUBSET Threads) \ {{}} : \E t \in S : \A u \in S : ~Held(t, u)

-----------------------------------------------------------------------------
(* The shapes of a step: every step belongs to one call.                   *)

(* A step of t leaves the process of another call as it is, except that it *)
(* may take t's pipes from it.                                             *)
Kept(q, t) ==
  /\ proc'[q].owner = proc[q].owner /\ proc'[q].state = proc[q].state
  /\ (proc'[q].child <=> proc[q].child) /\ proc'[q].status = proc[q].status
  /\ \A u \in Threads : u # t => (u \in proc'[q].execw <=> u \in proc[q].execw)
  /\ proc[q].execw \subseteq proc[q].keep => proc'[q].execw \subseteq proc'[q].keep

(* The output pipe of u is handed on to a process only by a fork while the *)
(* agent has its write end open.                                           *)
NoNewWriter(u) ==
  \A q \in Pids : Live(proc'[q]) /\ u \in proc'[q].outw =>
    (Live(proc[q]) /\ u \in proc[q].outw) \/ "out_w" \in call[u].fds

(* A step of thread t, or of its command, that keeps what is said of t and *)
(* of the pids nobody else owns, keeps the invariant.                      *)
LEMMA CallStep ==
  ASSUME ProcessInv, NEW t \in Threads, NEW to \in PcValues, NEW c \in CallRec,
         pc' = [pc EXCEPT ![t] = to], call' = [call EXCEPT ![t] = c],
         proc' \in [Pids -> ProcRec],
         \A q \in Pids : proc[q].owner \notin {t, NoPid} => Kept(q, t),
         \A q \in Pids : proc[q].owner \in {t, NoPid} => PidInv(q)',
         \A u \in Threads : u # t => NoNewWriter(u),
         to \in Busy => OwnOK(t, to, c, proc'[c.pid]),
         CallOK(to, c), HonestOK(c), OutOK(to, c),
         ~c.out_open => \A q \in Pids : Live(proc'[q]) => t \notin proc'[q].outw
  PROVE  ProcessInv'
<1>0. Typed /\ (\A u \in Threads : ThreadInv(u)) /\ (\A q \in Pids : PidInv(q))
  BY DEF ProcessInv
<1>1. pc'[t] = to /\ call'[t] = c /\ \A u \in Threads : u # t => pc'[u] = pc[u] /\ call'[u] = call[u]
  BY <1>0 DEF Typed
<1>2. Typed'
  BY <1>0 DEF Typed
<1>3. ThreadInv(t)'
  BY <1>1 DEF ThreadInv, OutShut
<1>4. ASSUME NEW u \in Threads, u # t PROVE ThreadInv(u)'
  <2>1. pc'[u] = pc[u] /\ call'[u] = call[u] /\ ThreadInv(u)
    BY <1>0, <1>1, <1>4
  <2>2. pc[u] \in Busy => OwnOK(u, pc[u], call[u], proc'[call[u].pid])
    <3> SUFFICES ASSUME pc[u] \in Busy PROVE OwnOK(u, pc[u], call[u], proc'[call[u].pid])
      OBVIOUS
    <3> DEFINE q == call[u].pid
    <3>1. OwnOK(u, pc[u], call[u], proc[q])
      BY <2>1 DEF ThreadInv
    <3>2. q \in Pids /\ proc[q].owner = u
      BY <3>1 DEF OwnOK
    <3>3. Kept(q, t)
      BY <1>4, <3>2, ProcessAssumption DEF ProcessAssumption
    <3> QED BY <1>4, <3>1, <3>3 DEF OwnOK, Kept
  <2>3. OutShut(u)'
    <3>1. "out_w" \in call[u].fds => call[u].out_open
      BY <2>1 DEF ThreadInv, OutOK
    <3>2. OutShut(u) /\ NoNewWriter(u)
      BY <1>4, <2>1 DEF ThreadInv
    <3> QED BY <2>1, <3>1, <3>2 DEF OutShut, NoNewWriter
  <2> QED BY <2>1, <2>2, <2>3 DEF ThreadInv
<1>5. ASSUME NEW q \in Pids PROVE PidInv(q)'
  <2>1. CASE proc[q].owner \in {t, NoPid}
    BY <2>1
  <2>2. CASE proc[q].owner \notin {t, NoPid}
    <3>1. Kept(q, t) /\ PidInv(q)
      BY <1>0, <2>2
    <3>2. proc[q].state # "free" /\ proc[q].owner # t /\ proc[q].owner \in Threads
      BY <2>2, <3>1 DEF PidInv
    <3>3. pc'[proc[q].owner] = pc[proc[q].owner] /\ call'[proc[q].owner] = call[proc[q].owner]
      BY <1>1, <3>2
    <3> QED BY <3>1, <3>2, <3>3 DEF PidInv, Kept
  <2> QED BY <2>1, <2>2
<1> QED BY <1>2, <1>3, <1>4, <1>5 DEF ProcessInv

(* A step of a call between its fork and its reap that changes at most its *)
(* locals and its own process.                                             *)
LEMMA BusyStep ==
  ASSUME ProcessInv, NEW t \in Threads, NEW to \in Busy, NEW c \in CallRec, NEW p \in ProcRec,
         NEW q, q = call[t].pid,
         pc[t] \in Busy, c.pid = q, p.owner = t,
         pc' = [pc EXCEPT ![t] = to], call' = [call EXCEPT ![t] = c],
         proc' = [proc EXCEPT ![q] = p],
         Live(p) => Live(proc[q]), p.outw \subseteq proc[q].outw,
         p.state = "running" => p.execw \subseteq p.keep,
         OwnOK(t, to, c, p), CallOK(to, c), HonestOK(c), OutOK(to, c),
         c.out_open \/ ~call[t].out_open \/ OutWriters(t) = {}
  PROVE  ProcessInv'
<1>0. Typed /\ ThreadInv(t) /\ OwnOK(t, pc[t], call[t], proc[q]) /\ (\A r \in Pids : PidInv(r))
  BY DEF ProcessInv, ThreadInv
<1>1. q \in Pids /\ proc[q].owner = t /\ p.state # "free" /\ t # NoPid
  BY <1>0, ProcessAssumption DEF OwnOK, ProcessAssumption
<1>2. /\ proc' \in [Pids -> ProcRec] /\ proc'[q] = p
      /\ \A r \in Pids : r # q => proc'[r] = proc[r]
      /\ pc'[t] = to /\ call'[t] = c
  BY <1>0, <1>1 DEF Typed
<1>3. \A r \in Pids : r # q => proc[r].owner # t
  BY <1>0, <1>1 DEF PidInv
<1>4. \A r \in Pids : proc[r].owner \notin {t, NoPid} => Kept(r, t)
  BY <1>1, <1>2 DEF Kept
<1>5. ASSUME NEW r \in Pids, proc[r].owner \in {t, NoPid} PROVE PidInv(r)'
  <2>1. CASE r = q
    <3>1. proc'[r] = p
      BY <1>2, <2>1
    <3> QED BY <1>1, <1>2, <2>1, <3>1 DEF PidInv
  <2>2. CASE r # q
    <3>1. proc[r].state = "free" /\ proc'[r] = proc[r] /\ PidInv(r)
      BY <1>0, <1>2, <1>3, <1>5, <2>2, ProcessAssumption DEF PidInv, ProcessAssumption
    <3> QED BY <3>1 DEF PidInv
  <2> QED BY <2>1, <2>2
<1>6. \A u \in Threads : NoNewWriter(u)
  BY <1>2 DEF NoNewWriter
<1>7. ~c.out_open => \A r \in Pids : Live(proc'[r]) => t \notin proc'[r].outw
  <2> SUFFICES ASSUME ~c.out_open, NEW r \in Pids, Live(proc'[r]), t \in proc'[r].outw PROVE FALSE
    OBVIOUS
  <2>1. Live(proc[r]) /\ t \in proc[r].outw
    BY <1>2
  <2>2. OutShut(t)
    BY <1>0 DEF ThreadInv
  <2> QED BY <2>1, <2>2 DEF OutShut, OutWriters
<1>8. to \in PcValues /\ OwnOK(t, to, c, proc'[c.pid])
  BY <1>2 DEF Busy, Execed, PcValues
<1> QED BY <1>2, <1>4, <1>5, <1>6, <1>7, <1>8, CallStep

(* A step of a call without a process, before its fork or after its reap;  *)
(* the last one closes its pipes.                                          *)
LEMMA QuietStep ==
  ASSUME ProcessInv, NEW t \in Threads, NEW to \in PcValues \ Busy, NEW c \in CallRec,
         pc[t] \notin Busy,
         pc' = [pc EXCEPT ![t] = to], call' = [call EXCEPT ![t] = c],
         proc' = proc \/ Close(t),
         CallOK(to, c), HonestOK(c), OutOK(to, c),
         c.out_open \/ ~call[t].out_open \/ OutWriters(t) = {}
  PROVE  ProcessInv'
<1>0. Typed /\ ThreadInv(t) /\ (\A r \in Pids : PidInv(r))
  BY DEF ProcessInv
<1>1. ASSUME NEW q \in Pids
      PROVE  /\ proc'[q] \in ProcRec
             /\ proc'[q].owner = proc[q].owner /\ proc'[q].state = proc[q].state
             /\ (proc'[q].child <=> proc[q].child) /\ proc'[q].status = proc[q].status
             /\ \A u \in Threads : u # t => (u \in proc'[q].execw <=> u \in proc[q].execw)
             /\ proc[q].execw \subseteq proc[q].keep => proc'[q].execw \subseteq proc'[q].keep
             /\ proc'[q].keep \subseteq proc[q].keep /\ proc'[q].outw \subseteq proc[q].outw
  <2>1. PICK p \in ProcRec : p = proc[q]
    BY <1>0 DEF Typed
  <2>2. CASE proc' = proc
    BY <2>1, <2>2
  <2>3. CASE Close(t)
    <3>1. proc'[q] = [p EXCEPT !.execw = p.execw \ {t}, !.keep = p.keep \ {t}, !.outw = p.outw \ {t}]
      BY <2>1, <2>3 DEF Close
    <3>2. PICK r, x, y, z : /\ r = [p EXCEPT !.execw = x, !.keep = y, !.outw = z]
                            /\ x = p.execw \ {t} /\ y = p.keep \ {t} /\ z = p.outw \ {t}
      OBVIOUS
    <3>3. x \in SUBSET Threads /\ y \in SUBSET Threads /\ z \in SUBSET Threads
      BY <3>2 DEF ProcRec
    <3>4. /\ r \in ProcRec /\ r.owner = p.owner /\ r.state = p.state /\ (r.child <=> p.child)
          /\ r.status = p.status /\ r.execw = x /\ r.keep = y /\ r.outw = z
      BY <3>2, <3>3 DEF ProcRec
    <3>5. proc'[q] = r
      BY <3>1, <3>2
    <3> QED BY <2>1, <3>2, <3>4, <3>5
  <2> QED BY <2>2, <2>3
<1>2. proc' \in [Pids -> ProcRec]
  <2>1. proc' = [q \in Pids |-> proc'[q]]
    BY <1>0 DEF Close, Typed
  <2> QED BY <1>1, <2>1
<1>3. \A q \in Pids : Kept(q, t) /\ proc[q].owner # t
  BY <1>0, <1>1, ProcessAssumption DEF Kept, PidInv, ProcessAssumption
<1>4. ASSUME NEW q \in Pids, proc[q].owner \in {t, NoPid} PROVE PidInv(q)'
  <2>1. proc[q].state = "free" /\ PidInv(q)
    BY <1>0, <1>3, <1>4, ProcessAssumption DEF PidInv, ProcessAssumption
  <2> QED BY <1>1, <2>1 DEF PidInv
<1>5. \A u \in Threads : NoNewWriter(u)
  BY <1>1 DEF NoNewWriter, Live
<1>6. ~c.out_open => \A r \in Pids : Live(proc'[r]) => t \notin proc'[r].outw
  <2> SUFFICES ASSUME ~c.out_open, NEW r \in Pids, Live(proc'[r]), t \in proc'[r].outw PROVE FALSE
    OBVIOUS
  <2>1. Live(proc[r]) /\ t \in proc[r].outw
    BY <1>1 DEF Live
  <2>2. OutShut(t)
    BY <1>0 DEF ThreadInv
  <2> QED BY <2>1, <2>2 DEF OutShut, OutWriters
<1> QED BY <1>2, <1>3, <1>4, <1>5, <1>6, CallStep

(* What is known of a call at any place ... *)
LEMMA CallFacts ==
  ASSUME ProcessInv, NEW t \in Threads
  PROVE  /\ call[t] \in CallRec /\ pc[t] \in PcValues
         /\ CallOK(pc[t], call[t]) /\ HonestOK(call[t]) /\ OutOK(pc[t], call[t])
BY DEF ProcessInv, Typed, ThreadInv

(* ... and between its fork and its reap. *)
LEMMA BusyFacts ==
  ASSUME ProcessInv, NEW t \in Threads, pc[t] \in Busy
  PROVE  /\ call[t].pid \in Pids /\ proc[call[t].pid] \in ProcRec
         /\ OwnOK(t, pc[t], call[t], proc[call[t].pid])
         /\ LET p == proc[call[t].pid] IN p.state = "running" => p.execw \subseteq p.keep
<1>1. OwnOK(t, pc[t], call[t], proc[call[t].pid]) /\ Typed /\ \A q \in Pids : PidInv(q)
  BY DEF ProcessInv, ThreadInv
<1>2. call[t].pid \in Pids
  BY <1>1 DEF OwnOK
<1> QED BY <1>1, <1>2 DEF Typed, PidInv

(* The command of a pid in use, seen from its owner's call. *)
LEMMA OwnerFacts ==
  ASSUME ProcessInv, NEW q \in Pids, proc[q].state # "free" \/ proc[q].child
  PROVE  /\ proc[q].owner \in Threads /\ pc[proc[q].owner] \in Busy
         /\ call[proc[q].owner].pid = q
BY DEF ProcessInv, PidInv

(* The locals a call starts with. *)
LEMMA NoCallFacts ==
  /\ NoCall \in CallRec /\ NoCall.fds = {} /\ ~NoCall.ran /\ ~NoCall.errno
  /\ NoCall.clock = "early" /\ ~NoCall.timed_out /\ NoCall.out_open
  /\ NoCall.size = 0 /\ ~NoCall.truncated /\ NoCall.read = 0 /\ NoCall.wrote = 0
  /\ NoCall.atExit = 0 /\ NoCall.outcome = "none"
BY DEF NoCall, CallRec, Outcomes

-----------------------------------------------------------------------------
(* Before the fork and after the reap.                                     *)

(* An early return leaves nothing but the outcome, and perhaps a pipe. *)
LEMMA FailedLaunch ==
  ASSUME NEW made \in {{}, OutPipe},
         NEW c, c = [NoCall EXCEPT !.outcome = "LaunchFailed", !.fds = made]
  PROVE  c \in CallRec /\ c.out_open /\ CallOK("idle", c) /\ HonestOK(c) /\ OutOK("idle", c)
<1>1. PICK n \in CallRec : n = NoCall
  BY NoCallFacts
<1>2. /\ n.fds = {} /\ ~n.ran /\ ~n.errno /\ n.clock = "early" /\ ~n.timed_out /\ n.out_open
      /\ n.size = 0 /\ ~n.truncated /\ n.read = 0 /\ n.wrote = 0 /\ n.atExit = 0
  BY <1>1, NoCallFacts
<1>3. c = [n EXCEPT !.outcome = "LaunchFailed", !.fds = made] /\ made \in SUBSET PipeEnds
  BY <1>1 DEF PipeEnds
<1>4. /\ c \in CallRec /\ c.outcome = "LaunchFailed" /\ c.fds = made /\ ~c.ran /\ c.clock = "early"
      /\ ~c.timed_out /\ c.out_open /\ c.size = 0 /\ ~c.truncated /\ c.read = 0 /\ c.wrote = 0
      /\ c.atExit = 0
  BY <1>2, <1>3 DEF CallRec, Outcomes
<1>5. min(0, Limit) = 0 /\ ~(0 > Limit)
  BY ProcessAssumption DEF ProcessAssumption, min
<1> QED BY <1>4, <1>5 DEF CallOK, HonestOK, OutOK, OutPipe

(* The failure of a fork closes all pipes. *)
LEMMA FailedFork ==
  ASSUME NEW c, c = [NoCall EXCEPT !.outcome = "LaunchFailed"]
  PROVE  c \in CallRec /\ c.out_open /\ CallOK("idle", c) /\ HonestOK(c) /\ OutOK("idle", c)
<1>1. PICK n \in CallRec : n = NoCall /\ n.fds = {}
  BY NoCallFacts
<1>2. PICK m : m = [n EXCEPT !.outcome = "LaunchFailed"]
  OBVIOUS
<1>3. m \in CallRec /\ m.fds = {}
  BY <1>1, <1>2 DEF CallRec, Outcomes
<1>4. m = [m EXCEPT !.fds = {}]
  BY <1>3 DEF CallRec
<1>5. [m EXCEPT !.fds = {}] = [n EXCEPT !.outcome = "LaunchFailed", !.fds = {}]
  BY <1>2
<1> QED BY <1>1, <1>2, <1>4, <1>5, FailedLaunch

(* pipe *)
LEMMA PipeStep ==
  ASSUME ProcessInv, NEW t \in Threads, pipe(t)
  PROVE  ProcessInv'
<1>0. pc[t] = "idle" /\ proc' = proc /\ pc \in [Threads -> PcValues]
  BY DEF pipe, Goto, ProcessInv, Typed
<1>1. {"idle", "fcntl"} \subseteq PcValues \ Busy
  BY DEF PcValues, Busy, Execed
<1>2. CASE pc' = [pc EXCEPT ![t] = "fcntl"] /\ call' = [call EXCEPT ![t] = [NoCall EXCEPT !.fds = PipeEnds]]
  <2>1. PICK n \in CallRec, c \in CallRec : n = NoCall /\ c = [n EXCEPT !.fds = PipeEnds]
    BY NoCallFacts DEF CallRec
  <2>2. /\ ~n.ran /\ ~n.errno /\ n.clock = "early" /\ ~n.timed_out /\ n.out_open
        /\ n.size = 0 /\ ~n.truncated /\ n.read = 0 /\ n.wrote = 0 /\ n.atExit = 0
        /\ n.outcome = "none"
    BY <2>1, NoCallFacts
  <2>3. /\ c \in CallRec /\ c.outcome = "none" /\ c.fds = PipeEnds /\ ~c.ran /\ ~c.errno
        /\ c.clock = "early" /\ ~c.timed_out /\ c.out_open /\ c.size = 0 /\ ~c.truncated
        /\ c.read = 0 /\ c.wrote = 0 /\ c.atExit = 0
    BY <2>1, <2>2 DEF CallRec
  <2>4. min(0, Limit) = 0 /\ ~(0 > Limit)
    BY ProcessAssumption DEF ProcessAssumption, min
  <2>5. CallOK("fcntl", c) /\ HonestOK(c) /\ OutOK("fcntl", c)
    BY <2>3, <2>4 DEF CallOK, HonestOK, OutOK
  <2> QED BY <1>0, <1>1, <1>2, <2>1, <2>3, <2>5, QuietStep
<1>3. ASSUME NEW made \in {{}, OutPipe}, pc' = pc,
             call' = [call EXCEPT ![t] = [NoCall EXCEPT !.outcome = "LaunchFailed", !.fds = made]]
      PROVE  ProcessInv'
  <2>1. PICK c : c = [NoCall EXCEPT !.outcome = "LaunchFailed", !.fds = made]
    OBVIOUS
  <2>2. c \in CallRec /\ c.out_open /\ CallOK("idle", c) /\ HonestOK(c) /\ OutOK("idle", c)
    BY <2>1, FailedLaunch
  <2>3. pc' = [pc EXCEPT ![t] = "idle"]
    BY <1>0, <1>3
  <2> QED BY <1>0, <1>1, <1>3, <2>1, <2>2, <2>3, QuietStep
<1> QED BY <1>2, <1>3 DEF pipe, Goto

(* fcntl: FD_CLOEXEC *)
LEMMA FcntlStep ==
  ASSUME ProcessInv, NEW t \in Threads, fcntl(t)
  PROVE  ProcessInv'
<1>1. PICK c0 \in CallRec, c \in CallRec :
        /\ c0 = call[t] /\ c = [c0 EXCEPT !.cloexec = TRUE]
        /\ CallOK("fcntl", c0) /\ HonestOK(c0) /\ OutOK("fcntl", c0)
  <2>1. call[t] \in CallRec /\ CallOK("fcntl", call[t]) /\ HonestOK(call[t]) /\ OutOK("fcntl", call[t])
    BY CallFacts DEF fcntl, Goto
  <2>2. [call[t] EXCEPT !.cloexec = TRUE] \in CallRec
    BY <2>1 DEF CallRec
  <2> QED BY <2>1, <2>2
<1>2. /\ pc[t] = "fcntl" /\ pc' = [pc EXCEPT ![t] = "fork"] /\ proc' = proc
      /\ call' = [call EXCEPT ![t] = c]
  BY <1>1 DEF fcntl, Goto
<1>3. /\ c \in CallRec /\ c.cloexec /\ c.fds = c0.fds /\ c.errno = c0.errno /\ c.clock = c0.clock
      /\ c.out_open = c0.out_open /\ c.timed_out = c0.timed_out /\ c.size = c0.size
      /\ c.truncated = c0.truncated /\ c.read = c0.read /\ c.wrote = c0.wrote
      /\ c.atExit = c0.atExit /\ c.ran = c0.ran /\ c.status = c0.status /\ c.outcome = c0.outcome
  BY <1>1 DEF CallRec
<1>4. CallOK("fork", c) /\ HonestOK(c) /\ OutOK("fork", c)
  BY <1>1, <1>3 DEF CallOK, HonestOK, OutOK
<1>5. "fcntl" \notin Busy /\ "fork" \in PcValues \ Busy
  BY DEF PcValues, Busy, Execed
<1> QED BY <1>1, <1>2, <1>3, <1>4, <1>5, QuietStep

(* What a successful fork makes of a free pid. *)
ForkOf(t, q) ==
  /\ proc[q].state = "free" /\ pc[t] = "fork"
  /\ pc' = [pc EXCEPT ![t] = "close"] /\ call' = [call EXCEPT ![t].pid = q]
  /\ \E p \in ProcRec :
       /\ proc' = [proc EXCEPT ![q] = p]
       /\ p.owner = t /\ p.state = "forked" /\ ~p.child
       /\ p.execw = {u \in Threads : pc[u] # "idle" /\ "exec_w" \in call[u].fds}
       /\ p.keep = {u \in Threads : pc[u] # "idle" /\ "exec_w" \in call[u].fds /\ ~call[u].cloexec}
       /\ p.outw = {u \in Threads : pc[u] # "idle" /\ "out_w" \in call[u].fds}

(* A fork makes a process, or fails and leaves. *)
LEMMA ForkIs ==
  ASSUME ProcessInv, NEW t \in Threads, fork(t)
  PROVE  \/ \E q \in Pids : ForkOf(t, q)
         \/ /\ pc[t] = "fork" /\ pc' = [pc EXCEPT ![t] = "idle"] /\ Close(t)
            /\ call' = [call EXCEPT ![t] = [NoCall EXCEPT !.outcome = "LaunchFailed"]]
<1> DEFINE W(end) == {u \in Threads : pc[u] # "idle" /\ end \in call[u].fds}
           K == {u \in W("exec_w") : ~call[u].cloexec}
<1>1. ASSUME NEW q \in Pids,
             /\ proc[q].state = "free" /\ ~proc[q].child
             /\ Goto(t, "fork", "close")
             /\ call' = [call EXCEPT ![t].pid = q]
             /\ proc' = [proc EXCEPT ![q] =
                  [NoProc EXCEPT !.owner = t, !.state = "forked", !.execw = W("exec_w"),
                                 !.keep = K, !.outw = W("out_w")]]
      PROVE  ForkOf(t, q)
  <2>0. PICK n, x, y, z : n = NoProc /\ x = W("exec_w") /\ y = K /\ z = W("out_w")
    OBVIOUS
  <2>1. PICK p : p = [n EXCEPT !.owner = t, !.state = "forked", !.execw = x, !.keep = y, !.outw = z]
    OBVIOUS
  <2>2. n \in ProcRec /\ ~n.child
    BY <2>0 DEF NoProc, ProcRec
  <2>3. x \in SUBSET Threads /\ y \in SUBSET Threads /\ z \in SUBSET Threads
    BY <2>0
  <2>4. /\ p \in ProcRec /\ p.owner = t /\ p.state = "forked" /\ ~p.child
        /\ p.execw = x /\ p.keep = y /\ p.outw = z
    BY <2>1, <2>2, <2>3 DEF ProcRec
  <2>5. proc' = [proc EXCEPT ![q] = p]
    BY <1>1, <2>0, <2>1
  <2>6. y = {u \in Threads : pc[u] # "idle" /\ "exec_w" \in call[u].fds /\ ~call[u].cloexec}
    BY <2>0
  <2> QED BY <1>1, <2>0, <2>4, <2>5, <2>6 DEF ForkOf, Goto
<1> QED BY <1>1 DEF fork, Goto

(* fork *)
LEMMA ForkStep ==
  ASSUME ProcessInv, NEW t \in Threads, fork(t)
  PROVE  ProcessInv'
<1>0. Typed /\ \A q \in Pids : PidInv(q)
  BY DEF ProcessInv
<1>1. ASSUME NEW q \in Pids, ForkOf(t, q) PROVE ProcessInv'
  <2>1. PICK p \in ProcRec :
       /\ proc[q].state = "free" /\ pc[t] = "fork"
       /\ pc' = [pc EXCEPT ![t] = "close"] /\ call' = [call EXCEPT ![t].pid = q]
       /\ proc' = [proc EXCEPT ![q] = p]
       /\ p.owner = t /\ p.state = "forked" /\ ~p.child
       /\ p.execw = {u \in Threads : pc[u] # "idle" /\ "exec_w" \in call[u].fds}
       /\ p.outw = {u \in Threads : pc[u] # "idle" /\ "out_w" \in call[u].fds}
    BY <1>1 DEF ForkOf
  <2>2. PICK c0 \in CallRec, c \in CallRec :
          /\ c0 = call[t] /\ c = [c0 EXCEPT !.pid = q]
          /\ CallOK("fork", c0) /\ HonestOK(c0) /\ OutOK("fork", c0)
    <3>1. call[t] \in CallRec /\ CallOK("fork", call[t]) /\ HonestOK(call[t]) /\ OutOK("fork", call[t])
      BY <2>1, CallFacts
    <3>2. [call[t] EXCEPT !.pid = q] \in CallRec
      BY <3>1 DEF CallRec
    <3> QED BY <3>1, <3>2
  <2>3. /\ c \in CallRec /\ c.pid = q /\ c.cloexec = c0.cloexec /\ c.fds = c0.fds /\ c.errno = c0.errno
        /\ c.clock = c0.clock
        /\ c.out_open = c0.out_open /\ c.timed_out = c0.timed_out /\ c.size = c0.size
        /\ c.truncated = c0.truncated /\ c.read = c0.read /\ c.wrote = c0.wrote
        /\ c.atExit = c0.atExit /\ c.ran = c0.ran /\ c.status = c0.status /\ c.outcome = c0.outcome
    BY <2>2 DEF CallRec
  <2>4. /\ CallOK("close", c) /\ HonestOK(c) /\ OutOK("close", c)
    BY <2>2, <2>3 DEF CallOK, HonestOK, OutOK
  <2>5. c.out_open /\ "exec_w" \in c0.fds /\ ~c0.errno /\ ~c0.ran
    BY <2>2, <2>3 DEF CallOK, OutOK, PipeEnds, OutPipe
  <2>6. OwnOK(t, "close", c, p)
    BY <2>1, <2>2, <2>3, <2>5 DEF OwnOK, Execed
  <2>7. /\ proc' \in [Pids -> ProcRec] /\ proc'[q] = p /\ call' = [call EXCEPT ![t] = c]
        /\ (\A r \in Pids : r # q => proc'[r] = proc[r])
        /\ call'[t] = c /\ pc'[t] = "close"
    BY <1>0, <2>1, <2>2 DEF Typed
  <2>8. proc[q].owner = NoPid /\ \A r \in Pids : proc[r].owner # t
    BY <1>0, <2>1, ProcessAssumption DEF PidInv, ProcessAssumption, Busy, Execed
  <2>9. \A r \in Pids : proc[r].owner \notin {t, NoPid} => Kept(r, t)
    BY <2>7, <2>8 DEF Kept
  <2>10. ASSUME NEW r \in Pids, proc[r].owner \in {t, NoPid} PROVE PidInv(r)'
    <3>1. CASE r = q
      <4>1. proc'[r] = p
        BY <2>7, <3>1
      <4> QED BY <2>1, <2>3, <2>7, <3>1, <4>1 DEF PidInv, Busy
    <3>2. CASE r # q
      <4>1. proc[r].state = "free" /\ proc'[r] = proc[r] /\ PidInv(r)
        BY <1>0, <2>7, <2>8, <2>10, <3>2, ProcessAssumption DEF PidInv, ProcessAssumption
      <4> QED BY <4>1 DEF PidInv
    <3> QED BY <3>1, <3>2
  <2>11. \A u \in Threads : NoNewWriter(u)
    BY <2>1, <2>7 DEF NoNewWriter
  <2>12. "close" \in PcValues /\ OwnOK(t, "close", c, proc'[c.pid])
    BY <2>3, <2>6, <2>7 DEF PcValues
  <2> QED BY <2>1, <2>3, <2>4, <2>5, <2>7, <2>9, <2>10, <2>11, <2>12, CallStep
<1>2. CASE /\ pc[t] = "fork" /\ pc' = [pc EXCEPT ![t] = "idle"] /\ Close(t)
           /\ call' = [call EXCEPT ![t] = [NoCall EXCEPT !.outcome = "LaunchFailed"]]
  <2>1. PICK c : c = [NoCall EXCEPT !.outcome = "LaunchFailed"]
    OBVIOUS
  <2>2. c \in CallRec /\ c.out_open /\ CallOK("idle", c) /\ HonestOK(c) /\ OutOK("idle", c)
    BY <2>1, FailedFork
  <2>3. "fork" \notin Busy /\ "idle" \in PcValues \ Busy
    BY DEF PcValues, Busy, Execed
  <2> QED BY <1>2, <2>1, <2>2, <2>3, QuietStep
<1> QED BY <1>1, <1>2, ForkIs

-----------------------------------------------------------------------------
(* From the fork to the reap.                                              *)

(* close *)
LEMMA CloseStep ==
  ASSUME ProcessInv, NEW t \in Threads, close(t)
  PROVE  ProcessInv'
<1>0. pc[t] = "close" /\ pc' = [pc EXCEPT ![t] = "status"] /\ proc' = proc /\ pc[t] \in Busy /\ Typed
  BY DEF close, Goto, Busy, ProcessInv
<1>1. PICK c0 \in CallRec, p \in ProcRec :
        /\ c0 = call[t] /\ p = proc[c0.pid] /\ c0.pid \in Pids
        /\ CallOK("close", c0) /\ HonestOK(c0) /\ OutOK("close", c0) /\ OwnOK(t, "close", c0, p)
        /\ p.state = "running" => p.execw \subseteq p.keep
  BY <1>0, CallFacts, BusyFacts
<1>2. PICK f : f = c0.fds \ {"out_w", "exec_w"}
  OBVIOUS
<1>3. f \in SUBSET PipeEnds /\ "out_w" \notin f /\ "exec_w" \notin f
  BY <1>1, <1>2 DEF CallRec
<1>4. PICK c : c = [c0 EXCEPT !.fds = f]
  OBVIOUS
<1>5. /\ c \in CallRec /\ c.pid = c0.pid /\ c.cloexec = c0.cloexec /\ c.fds = f /\ c.errno = c0.errno
      /\ c.clock = c0.clock /\ c.out_open = c0.out_open /\ c.timed_out = c0.timed_out
      /\ c.size = c0.size /\ c.truncated = c0.truncated /\ c.read = c0.read /\ c.wrote = c0.wrote
      /\ c.atExit = c0.atExit /\ c.ran = c0.ran /\ c.status = c0.status /\ c.outcome = c0.outcome
  BY <1>3, <1>4 DEF CallRec
<1>6. call' = [call EXCEPT ![t] = c] /\ proc' = [proc EXCEPT ![c0.pid] = p]
  BY <1>0, <1>1, <1>2, <1>4 DEF close, Typed
<1>7. CallOK("status", c) /\ HonestOK(c) /\ OutOK("status", c) /\ OwnOK(t, "status", c, p)
  BY <1>1, <1>3, <1>5 DEF CallOK, HonestOK, OutOK, OwnOK, Execed
<1>8. "status" \in Busy /\ p.owner = t /\ (c.out_open \/ ~call[t].out_open)
  BY <1>1, <1>5 DEF Busy, OwnOK
<1>9. PICK q : q = call[t].pid /\ p = proc[q] /\ c.pid = q /\ proc' = [proc EXCEPT ![q] = p]
  BY <1>1, <1>5, <1>6
<1>10. (Live(p) => Live(proc[q])) /\ p.outw \subseteq proc[q].outw
  BY <1>9
<1> QED BY <1>0, <1>1, <1>5, <1>6, <1>7, <1>8, <1>9, <1>10, BusyStep

(* read_status *)
LEMMA ReadStatusStep ==
  ASSUME ProcessInv, NEW t \in Threads, read_status(t)
  PROVE  ProcessInv'
<1>0. pc[t] = "status" /\ pc[t] \in Busy /\ Typed /\ \A q \in Pids : PidInv(q)
  BY DEF read_status, Goto, Busy, ProcessInv
<1>1. PICK c0 \in CallRec, p0 \in ProcRec, q0 \in Pids :
        /\ c0 = call[t] /\ q0 = c0.pid /\ p0 = proc[q0]
        /\ CallOK("status", c0) /\ HonestOK(c0) /\ OutOK("status", c0) /\ OwnOK(t, "status", c0, p0)
  BY <1>0, CallFacts, BusyFacts
<1>2. PICK f : f = c0.fds \ {"exec_r"}
  OBVIOUS
<1>3. f \in SUBSET PipeEnds /\ f \subseteq c0.fds
  BY <1>1, <1>2 DEF CallRec
<1>4. PICK c : c = [c0 EXCEPT !.fds = f]
  OBVIOUS
<1>5. /\ c \in CallRec /\ c.pid = c0.pid /\ c.cloexec = c0.cloexec /\ c.fds = f /\ c.errno = c0.errno
      /\ c.clock = c0.clock /\ c.out_open = c0.out_open /\ c.timed_out = c0.timed_out
      /\ c.size = c0.size /\ c.truncated = c0.truncated /\ c.read = c0.read /\ c.wrote = c0.wrote
      /\ c.atExit = c0.atExit /\ c.ran = c0.ran /\ c.status = c0.status /\ c.outcome = c0.outcome
  BY <1>3, <1>4 DEF CallRec
<1>6. PICK to \in {"reap_failed", "drain"} : to = IF c0.errno THEN "reap_failed" ELSE "drain"
  OBVIOUS
<1>7. pc' = [pc EXCEPT ![t] = to] /\ call' = [call EXCEPT ![t] = c]
  BY <1>1, <1>2, <1>4, <1>6 DEF read_status, Goto
<1>8. ASSUME NEW q \in Pids
      PROVE  /\ proc'[q] \in ProcRec
             /\ proc'[q].owner = proc[q].owner /\ proc'[q].state = proc[q].state
             /\ (proc'[q].child <=> proc[q].child) /\ proc'[q].status = proc[q].status
             /\ \A u \in Threads : u # t => (u \in proc'[q].execw <=> u \in proc[q].execw)
             /\ proc[q].execw \subseteq proc[q].keep => proc'[q].execw \subseteq proc'[q].keep
             /\ proc'[q].keep \subseteq proc[q].keep /\ proc'[q].outw = proc[q].outw
  <2>1. PICK p \in ProcRec : p = proc[q]
    BY <1>0 DEF Typed
  <2>2. proc'[q] = [p EXCEPT !.execw = p.execw \ {t}, !.keep = p.keep \ {t}]
    BY <2>1 DEF read_status
  <2>3. PICK x, y : x = p.execw \ {t} /\ y = p.keep \ {t}
    OBVIOUS
  <2>4. x \in SUBSET Threads /\ y \in SUBSET Threads
    BY <2>3 DEF ProcRec
  <2>5. PICK r : r = [p EXCEPT !.execw = x, !.keep = y]
    OBVIOUS
  <2>6. /\ r \in ProcRec /\ r.owner = p.owner /\ r.state = p.state /\ (r.child <=> p.child)
        /\ r.status = p.status /\ r.execw = x /\ r.keep = y /\ r.outw = p.outw
    BY <2>4, <2>5 DEF ProcRec
  <2>7. proc'[q] = r
    BY <2>2, <2>3, <2>5
  <2> QED BY <2>1, <2>3, <2>6, <2>7
<1>9. proc' \in [Pids -> ProcRec]
  <2>1. proc' = [q \in Pids |-> proc'[q]]
    BY DEF read_status
  <2> QED BY <1>8, <2>1
<1>10. \A q \in Pids : Kept(q, t)
  BY <1>8 DEF Kept
<1>11. ASSUME NEW q \in Pids PROVE PidInv(q)'
  <2>1. PidInv(q) /\ pc'[t] \in Busy /\ call'[t].pid = call[t].pid
    BY <1>0, <1>1, <1>5, <1>6, <1>7 DEF Typed, Busy, Execed
  <2>2. \A u \in Threads : u # t => pc'[u] = pc[u] /\ call'[u] = call[u]
    BY <1>0, <1>7 DEF Typed
  <2> QED BY <1>8, <2>1, <2>2 DEF PidInv
<1>12. (\A u \in Threads : NoNewWriter(u)) /\ OutShut(t) /\ \A q \in Pids : Live(proc'[q]) <=> Live(proc[q])
  BY <1>8 DEF NoNewWriter, Live, ProcessInv, ThreadInv
<1>13. ~c0.errno => p0.state \in {"running", "zombie"}
  <2> SUFFICES ASSUME ~c0.errno, p0.state \notin {"running", "zombie"} PROVE FALSE
    OBVIOUS
  <2>1. p0.state = "forked" /\ t \in p0.execw
    BY <1>1 DEF OwnOK, ProcRec
  <2>2. q0 \in ExecWriters(t)
    BY <1>1, <2>1 DEF ExecWriters, Live
  <2> QED BY <1>1, <2>2 DEF read_status, StatusReadable
<1>14. CallOK(to, c) /\ HonestOK(c) /\ OutOK(to, c)
  BY <1>1, <1>3, <1>5, <1>6 DEF CallOK, HonestOK, OutOK
<1>15. PICK p1 \in ProcRec :
         /\ p1 = proc'[q0] /\ p1.owner = p0.owner /\ p1.state = p0.state
         /\ (p1.child <=> p0.child) /\ p1.status = p0.status
  BY <1>1, <1>8
<1>16. OwnOK(t, to, c, p1)
  BY <1>1, <1>5, <1>6, <1>13, <1>15 DEF OwnOK, Execed
<1>17. ~c.out_open => \A q \in Pids : Live(proc'[q]) => t \notin proc'[q].outw
  BY <1>1, <1>5, <1>8, <1>12 DEF OutShut
<1>18. to \in PcValues /\ OwnOK(t, to, c, proc'[c.pid])
  BY <1>1, <1>5, <1>6, <1>15, <1>16 DEF PcValues
<1> QED BY <1>5, <1>7, <1>9, <1>10, <1>11, <1>12, <1>14, <1>17, <1>18, CallStep

(* The reap gives the pid back. *)
LEMMA ReapStep ==
  ASSUME ProcessInv, NEW t \in Threads, NEW to \in {"idle", "last"}, NEW c \in CallRec,
         pc[t] \in Busy, ~proc[call[t].pid].child,
         pc' = [pc EXCEPT ![t] = to], call' = [call EXCEPT ![t] = c],
         proc' = Reaped(t),
         CallOK(to, c), HonestOK(c), OutOK(to, c), c.out_open \/ ~call[t].out_open
  PROVE  ProcessInv'
<1>1. PICK q \in Pids : q = call[t].pid /\ proc[q].owner = t /\ ~proc[q].child
  BY BusyFacts DEF OwnOK
<1>2. Typed /\ ThreadInv(t) /\ (\A r \in Pids : PidInv(r)) /\ t # NoPid
  BY ProcessAssumption DEF ProcessInv, ProcessAssumption
<1>3. NoProc \in ProcRec /\ NoProc.state = "free" /\ NoProc.owner = NoPid /\ ~NoProc.child
      /\ NoProc.keep = {} /\ NoProc.execw = {} /\ NoProc.outw = {}
  BY DEF NoProc, ProcRec
<1>4. PICK n \in ProcRec : n = NoProc
  BY <1>3
<1>5. proc' = [proc EXCEPT ![q] = n]
  BY <1>1, <1>2, <1>4 DEF Reaped, Typed
<1>6. /\ proc' \in [Pids -> ProcRec] /\ proc'[q] = NoProc
      /\ \A r \in Pids : r # q => proc'[r] = proc[r]
  BY <1>2, <1>4, <1>5 DEF Typed
<1>7. \A r \in Pids : r # q => proc[r].owner # t
  BY <1>1, <1>2 DEF PidInv
<1>8. \A r \in Pids : proc[r].owner \notin {t, NoPid} => Kept(r, t)
  BY <1>1, <1>6 DEF Kept
<1>9. ASSUME NEW r \in Pids, proc[r].owner \in {t, NoPid} PROVE PidInv(r)'
  <2>1. CASE r = q
    BY <1>3, <1>6, <2>1 DEF PidInv
  <2>2. CASE r # q
    <3>1. proc[r].state = "free" /\ proc'[r] = proc[r] /\ PidInv(r)
      BY <1>2, <1>6, <1>7, <1>9, <2>2, ProcessAssumption DEF PidInv, ProcessAssumption
    <3> QED BY <3>1 DEF PidInv
  <2> QED BY <2>1, <2>2
<1>10. (\A u \in Threads : NoNewWriter(u)) /\ \A r \in Pids : proc'[r].outw \subseteq proc[r].outw
  BY <1>3, <1>6 DEF NoNewWriter
<1>11. ~c.out_open => \A r \in Pids : Live(proc'[r]) => t \notin proc'[r].outw
  <2> SUFFICES ASSUME ~c.out_open, NEW r \in Pids, Live(proc'[r]), t \in proc'[r].outw PROVE FALSE
    OBVIOUS
  <2>1. r # q
    BY <1>3, <1>6
  <2>2. OutShut(t) /\ proc'[r] = proc[r]
    BY <1>2, <1>6, <2>1 DEF ThreadInv
  <2> QED BY <2>2 DEF OutShut
<1>12. to \in PcValues /\ to \notin Busy
  BY DEF PcValues, Busy, Execed
<1> QED BY <1>6, <1>8, <1>9, <1>10, <1>11, <1>12, CallStep

(* reap_failed: waitpid after a failed exec *)
LEMMA ReapFailedStep ==
  ASSUME ProcessInv, NEW t \in Threads, reap_failed(t)
  PROVE  ProcessInv'
<1>0. pc[t] = "reap_failed" /\ pc[t] \in Busy
  BY DEF reap_failed, Goto, Busy
<1>1. ~call[t].ran /\ ~proc[call[t].pid].child /\ call[t] \in CallRec
  BY <1>0, CallFacts, BusyFacts DEF OwnOK
<1>2. PICK n \in CallRec, ran \in BOOLEAN : n = NoCall /\ ran = call[t].ran
  BY <1>1, NoCallFacts DEF CallRec
<1>3. PICK c : c = [n EXCEPT !.outcome = "LaunchFailed", !.ran = ran]
  OBVIOUS
<1>4. /\ n.fds = {} /\ ~n.errno /\ n.clock = "early" /\ ~n.timed_out /\ n.out_open
      /\ n.size = 0 /\ ~n.truncated /\ n.read = 0 /\ n.wrote = 0 /\ n.atExit = 0
  BY <1>2, NoCallFacts
<1>5. /\ c \in CallRec /\ c.outcome = "LaunchFailed" /\ c.fds = {} /\ c.ran = ran /\ c.clock = "early"
      /\ ~c.timed_out /\ c.out_open /\ c.size = 0 /\ ~c.truncated /\ c.read = 0 /\ c.wrote = 0
      /\ c.atExit = 0
  BY <1>3, <1>4 DEF CallRec, Outcomes
<1>6. min(0, Limit) = 0 /\ ~(0 > Limit)
  BY ProcessAssumption DEF ProcessAssumption, min
<1>7. CallOK("idle", c) /\ HonestOK(c) /\ OutOK("idle", c)
  BY <1>1, <1>2, <1>5, <1>6 DEF CallOK, HonestOK, OutOK
<1>8. /\ call' = [call EXCEPT ![t] = c] /\ pc' = [pc EXCEPT ![t] = "idle"] /\ proc' = Reaped(t)
  BY <1>2, <1>3 DEF reap_failed, Goto
<1> QED BY <1>0, <1>1, <1>5, <1>7, <1>8, ReapStep

(* waitpid: the reap after the sweep *)
LEMMA WaitpidStep ==
  ASSUME ProcessInv, NEW t \in Threads, waitpid(t)
  PROVE  ProcessInv'
<1>0. pc[t] = "reap" /\ pc[t] \in Busy
  BY DEF waitpid, Goto, Busy, Execed
<1>1. PICK c0 \in CallRec, p0 \in ProcRec, q0 \in Pids :
        /\ c0 = call[t] /\ q0 = c0.pid /\ p0 = proc[q0]
        /\ CallOK("reap", c0) /\ HonestOK(c0) /\ OutOK("reap", c0) /\ OwnOK(t, "reap", c0, p0)
  BY <1>0, CallFacts, BusyFacts
<1>2. PICK st : st = p0.status
  OBVIOUS
<1>3. ~p0.child /\ st \in Deaths /\ c0.ran /\ (st = "killed" => c0.timed_out)
  BY <1>1, <1>2 DEF OwnOK, Execed
<1>4. PICK c : c = [c0 EXCEPT !.status = st]
  OBVIOUS
<1>5. /\ c \in CallRec /\ c.pid = c0.pid /\ c.cloexec = c0.cloexec /\ c.fds = c0.fds /\ c.errno = c0.errno
      /\ c.clock = c0.clock /\ c.out_open = c0.out_open /\ c.timed_out = c0.timed_out
      /\ c.size = c0.size /\ c.truncated = c0.truncated /\ c.read = c0.read /\ c.wrote = c0.wrote
      /\ c.atExit = c0.atExit /\ c.ran = c0.ran /\ c.status = st /\ c.outcome = c0.outcome
  BY <1>3, <1>4 DEF CallRec
<1>6. call' = [call EXCEPT ![t] = c] /\ pc' = [pc EXCEPT ![t] = "last"] /\ proc' = Reaped(t)
  BY <1>1, <1>2, <1>4 DEF waitpid, Goto
<1>7. c0.outcome = "none"
  BY <1>1 DEF CallOK
<1>8. CallOK("last", c) /\ HonestOK(c) /\ OutOK("last", c)
  BY <1>1, <1>3, <1>5, <1>7 DEF CallOK, HonestOK, OutOK
<1> QED BY <1>0, <1>1, <1>3, <1>5, <1>6, <1>8, ReapStep

(* A step of a call that leaves its process alone. *)
LEMMA LocalStep ==
  ASSUME ProcessInv, NEW t \in Threads, NEW to \in Busy, NEW c \in CallRec,
         pc[t] \in Busy, c.pid = call[t].pid,
         pc' = [pc EXCEPT ![t] = to], call' = [call EXCEPT ![t] = c], proc' = proc,
         OwnOK(t, to, c, proc[call[t].pid]), CallOK(to, c), HonestOK(c), OutOK(to, c),
         c.out_open \/ ~call[t].out_open \/ OutWriters(t) = {}
  PROVE  ProcessInv'
<1>1. PICK q \in Pids, p \in ProcRec :
        /\ q = call[t].pid /\ p = proc[q] /\ OwnOK(t, to, c, p)
        /\ (p.state = "running" => p.execw \subseteq p.keep)
  BY BusyFacts
<1>2. proc' = [proc EXCEPT ![q] = p] /\ c.pid = q /\ p.owner = t
  BY <1>1 DEF ProcessInv, Typed, OwnOK
<1>3. (Live(p) => Live(proc[q])) /\ p.outw \subseteq proc[q].outw
  BY <1>1
<1> QED BY <1>1, <1>2, <1>3, BusyStep

(* append counts, and leaves the other locals alone. *)
Alike(c, c0) ==
  /\ c.pid = c0.pid /\ c.cloexec = c0.cloexec /\ c.fds = c0.fds /\ c.errno = c0.errno
  /\ c.clock = c0.clock /\ c.out_open = c0.out_open /\ c.timed_out = c0.timed_out
  /\ c.ran = c0.ran /\ c.status = c0.status /\ c.outcome = c0.outcome

(* What append makes of the locals. *)
LEMMA AppendFacts ==
  ASSUME NEW c0 \in CallRec, NEW at, OutOK(at, c0), at # "return", c0.out_open,
         NEW n \in Nat, 0 < n, n <= c0.wrote - c0.read, NEW c, c = append(c0, n)
  PROVE  c \in CallRec /\ OutOK(at, c) /\ Alike(c, c0)
<1>0. Limit \in Nat
  BY ProcessAssumption DEF ProcessAssumption
<1>1. PICK R \in Nat, W \in Nat, A \in Nat, s \in Nat, tr \in BOOLEAN :
        R = c0.read /\ W = c0.wrote /\ A = c0.atExit /\ s = c0.size /\ tr = c0.truncated
  BY DEF CallRec
<1>2. /\ s = min(R, Limit) /\ (tr <=> R > Limit) /\ R <= W /\ A <= W /\ n \in Nat /\ n > 0
      /\ R + n <= W /\ (c0.outcome \in {"Exited", "Signaled", "TimedOut"} => R >= A)
  BY <1>1 DEF OutOK
<1>3. PICK room \in Nat : room = IF Limit > s THEN Limit - s ELSE 0
  <2>1. (IF Limit > s THEN Limit - s ELSE 0) \in Nat
    BY <1>0, <1>1
  <2> QED BY <2>1
<1>4. PICK take \in Nat : take = min(n, room)
  BY <1>2, <1>3 DEF min
<1>5. PICK R1 \in Nat, s1 \in Nat : R1 = R + n /\ s1 = s + take
  BY <1>2
<1>6. PICK tr1 \in BOOLEAN : tr1 = (tr \/ take < n) /\ (tr1 <=> (tr \/ take < n))
  BY Zenon
<1>7. PICK m : m = [c0 EXCEPT !.read = R1, !.size = s1, !.truncated = tr1]
  OBVIOUS
<1>8. /\ m \in CallRec /\ m.read = R1 /\ m.size = s1 /\ m.truncated = tr1 /\ m.wrote = W /\ m.atExit = A
      /\ m.pid = c0.pid /\ m.cloexec = c0.cloexec /\ m.fds = c0.fds /\ m.errno = c0.errno
      /\ m.clock = c0.clock /\ m.out_open = c0.out_open /\ m.timed_out = c0.timed_out
      /\ m.ran = c0.ran /\ m.status = c0.status /\ m.outcome = c0.outcome
  BY <1>1, <1>7 DEF CallRec
<1>9. c = Recount(m)
  <2>1. append(c0, n) = Recount([c0 EXCEPT !.read = R + n, !.size = s + take, !.truncated = (tr \/ take < n)])
    BY <1>1, <1>3, <1>4 DEF append
  <2> QED BY <1>5, <1>6, <1>7, <2>1
<1>10. PICK k \in Nat : k = IF R1 > Limit + 1 THEN R1 - (Limit + 1) ELSE 0
  <2>1. (IF R1 > Limit + 1 THEN R1 - (Limit + 1) ELSE 0) \in Nat
    BY <1>0
  <2> QED BY <2>1
<1>11. PICK R2 \in Nat, W2 \in Nat, A2 \in Nat :
         R2 = R1 - k /\ W2 = W - k /\ A2 = IF A > k THEN A - k ELSE 0
  <2>1. R1 - k \in Nat /\ W - k \in Nat /\ (IF A > k THEN A - k ELSE 0) \in Nat
    BY <1>0, <1>2, <1>5, <1>10
  <2> QED BY <2>1
<1>12. c = [m EXCEPT !.read = R2, !.wrote = W2, !.atExit = A2]
  BY <1>8, <1>9, <1>10, <1>11 DEF Recount
<1>13. /\ c \in CallRec /\ c.read = R2 /\ c.size = s1 /\ c.truncated = tr1 /\ c.wrote = W2 /\ c.atExit = A2
       /\ c.pid = m.pid /\ c.cloexec = m.cloexec /\ c.fds = m.fds /\ c.errno = m.errno
       /\ c.clock = m.clock /\ c.out_open = m.out_open /\ c.timed_out = m.timed_out
       /\ c.ran = m.ran /\ c.status = m.status /\ c.outcome = m.outcome
  BY <1>8, <1>12 DEF CallRec
<1>14. s1 = min(R2, Limit) /\ R2 <= W2 /\ A2 <= W2 /\ (R >= A => R2 >= A2)
  BY <1>0, <1>2, <1>3, <1>4, <1>5, <1>10, <1>11 DEF min
<1>15. tr1 <=> R2 > Limit
  BY <1>0, <1>2, <1>3, <1>4, <1>5, <1>6, <1>10, <1>11 DEF min
<1>16. OutOK(at, c)
  BY <1>2, <1>8, <1>13, <1>14, <1>15 DEF OutOK
<1> QED BY <1>8, <1>13, <1>16 DEF Alike

(* The drain of a call's output, while its command runs and after its      *)
(* reap: some bytes more ...                                               *)
LEMMA DrainMoreStep ==
  ASSUME ProcessInv, NEW t \in Threads, NEW at \in {"drain", "last"}, drain_more(t, at)
  PROVE  ProcessInv'
<1>0. pc[t] = at /\ pc' = [pc EXCEPT ![t] = at] /\ proc' = proc
  BY DEF drain_more, Goto
<1>1. PICK c0 \in CallRec :
        c0 = call[t] /\ c0.out_open /\ CallOK(at, c0) /\ HonestOK(c0) /\ OutOK(at, c0)
  BY <1>0, CallFacts DEF drain_more
<1>2. PICK n \in 1..(c0.wrote - c0.read) : call' = [call EXCEPT ![t] = append(c0, n)]
  BY <1>1 DEF drain_more
<1>3. PICK c : c = append(c0, n)
  OBVIOUS
<1>4. /\ c \in CallRec /\ OutOK(at, c)
      /\ c.pid = c0.pid /\ c.cloexec = c0.cloexec /\ c.fds = c0.fds /\ c.errno = c0.errno
      /\ c.clock = c0.clock /\ c.out_open = c0.out_open /\ c.timed_out = c0.timed_out
      /\ c.ran = c0.ran /\ c.status = c0.status /\ c.outcome = c0.outcome
  <2>1. at # "return" /\ n \in Nat /\ 0 < n /\ n <= c0.wrote - c0.read
    BY <1>1, <1>2 DEF CallRec
  <2>2. c \in CallRec /\ OutOK(at, c) /\ Alike(c, c0)
    BY <1>1, <1>3, <2>1, AppendFacts
  <2> QED BY <2>2 DEF Alike
<1>5. call' = [call EXCEPT ![t] = c] /\ c.out_open /\ CallOK(at, c) /\ HonestOK(c)
  BY <1>1, <1>2, <1>3, <1>4 DEF CallOK, HonestOK
<1>6. CASE at = "drain"
  <2>1. "drain" \in Busy
    BY DEF Busy, Execed
  <2>2. OwnOK(t, "drain", c0, proc[call[t].pid])
    BY <1>0, <1>1, <1>6, <2>1, BusyFacts
  <2>3. OwnOK(t, "drain", c, proc[call[t].pid])
    BY <1>4, <2>2 DEF OwnOK
  <2> QED BY <1>0, <1>1, <1>4, <1>5, <1>6, <2>1, <2>3, LocalStep
<1>7. CASE at = "last"
  <2>1. "last" \in PcValues \ Busy
    BY DEF PcValues, Busy, Execed
  <2> QED BY <1>0, <1>4, <1>5, <1>7, <2>1, QuietStep
<1> QED BY <1>6, <1>7

(* ... and its end. *)
LEMMA DrainDryStep ==
  ASSUME ProcessInv, NEW t \in Threads, NEW at, NEW to, drain_dry(t, at, to),
         (at = "drain" /\ to = "check") \/ (at = "last" /\ to = "return")
  PROVE  ProcessInv'
<1>0. pc[t] = at /\ pc' = [pc EXCEPT ![t] = to] /\ proc' = proc
  BY DEF drain_dry, Goto
<1>1. PICK c0 \in CallRec :
        /\ c0 = call[t] /\ CallOK(at, c0) /\ HonestOK(c0) /\ OutOK(at, c0)
        /\ (c0.out_open => c0.wrote = c0.read)
  BY <1>0, CallFacts DEF drain_dry
<1>2. PICK o \in BOOLEAN : o = (c0.out_open /\ OutWriters(t) # {})
  OBVIOUS
<1>3. PICK c : c = [c0 EXCEPT !.out_open = o]
  OBVIOUS
<1>4. /\ c \in CallRec /\ c.pid = c0.pid /\ c.cloexec = c0.cloexec /\ c.fds = c0.fds /\ c.errno = c0.errno
      /\ c.clock = c0.clock /\ c.out_open = o /\ c.timed_out = c0.timed_out
      /\ c.size = c0.size /\ c.truncated = c0.truncated /\ c.read = c0.read /\ c.wrote = c0.wrote
      /\ c.atExit = c0.atExit /\ c.ran = c0.ran /\ c.status = c0.status /\ c.outcome = c0.outcome
  BY <1>2, <1>3 DEF CallRec
<1>5. call' = [call EXCEPT ![t] = c]
  BY <1>1, <1>2, <1>3 DEF drain_dry
<1>6. c0.read = c0.wrote /\ c0.read \in Nat /\ c0.atExit <= c0.read /\ "out_w" \notin c0.fds
  BY <1>1 DEF OutOK, CallOK, CallRec
<1>7. CallOK(to, c) /\ HonestOK(c) /\ OutOK(to, c)
  <2>1. HonestOK(c)
    BY <1>1, <1>4 DEF HonestOK
  <2>2. OutOK(to, c)
    BY <1>1, <1>4, <1>6 DEF OutOK
  <2>3. CallOK(to, c)
    BY <1>1, <1>4 DEF CallOK
  <2> QED BY <2>1, <2>2, <2>3
<1>8. c.out_open \/ ~call[t].out_open \/ OutWriters(t) = {}
  BY <1>1, <1>2, <1>4
<1>9. CASE at = "drain" /\ to = "check"
  <2>1. "drain" \in Busy /\ "check" \in Busy
    BY DEF Busy, Execed
  <2>2. OwnOK(t, "drain", c0, proc[call[t].pid])
    BY <1>0, <1>1, <1>9, <2>1, BusyFacts
  <2>3. OwnOK(t, "check", c, proc[call[t].pid])
    BY <1>4, <2>2 DEF OwnOK, Execed
  <2> QED BY <1>0, <1>1, <1>4, <1>5, <1>7, <1>8, <1>9, <2>1, <2>3, LocalStep
<1>10. CASE at = "last" /\ to = "return"
  <2>1. "last" \notin Busy /\ "return" \in PcValues \ Busy
    BY DEF PcValues, Busy, Execed
  <2> QED BY <1>0, <1>4, <1>5, <1>7, <1>8, <1>10, <2>1, QuietStep
<1> QED BY <1>9, <1>10

(* has_exited *)
LEMMA HasExitedStep ==
  ASSUME ProcessInv, NEW t \in Threads, has_exited(t)
  PROVE  ProcessInv'
<1>0. pc[t] = "check" /\ call' = call /\ proc' = proc
  BY DEF has_exited, Goto
<1>1. PICK c \in CallRec :
        c = call[t] /\ CallOK("check", c) /\ HonestOK(c) /\ OutOK("check", c)
  BY <1>0, CallFacts
<1>2. call' = [call EXCEPT ![t] = c]
  BY <1>0, <1>1 DEF ProcessInv, Typed
<1>3. {"check", "kill", "clock"} \subseteq Busy
  BY DEF Busy, Execed
<1>4. OwnOK(t, "check", c, proc[call[t].pid])
  BY <1>0, <1>1, <1>3, BusyFacts
<1>5. PICK to \in {"kill", "clock"} :
        /\ pc' = [pc EXCEPT ![t] = to]
        /\ to = "kill" => proc[call[t].pid].state = "zombie"
  BY DEF has_exited, Goto
<1>6. OwnOK(t, to, c, proc[call[t].pid])
  BY <1>4, <1>5 DEF OwnOK, Execed
<1>7. CallOK(to, c) /\ OutOK(to, c)
  BY <1>1, <1>5 DEF CallOK, OutOK
<1> QED BY <1>0, <1>1, <1>2, <1>3, <1>5, <1>6, <1>7, LocalStep

(* deadline *)
LEMMA DeadlineStep ==
  ASSUME ProcessInv, NEW t \in Threads, deadline(t)
  PROVE  ProcessInv'
<1>0. pc[t] = "clock" /\ proc' = proc
  BY DEF deadline, Goto
<1>1. PICK c0 \in CallRec :
        c0 = call[t] /\ CallOK("clock", c0) /\ HonestOK(c0) /\ OutOK("clock", c0)
  BY <1>0, CallFacts
<1>2. {"clock", "drain", "term", "kill"} \subseteq Busy
  BY DEF Busy, Execed
<1>3. OwnOK(t, "clock", c0, proc[call[t].pid])
  BY <1>0, <1>1, <1>2, BusyFacts
<1>4. CASE /\ pc' = [pc EXCEPT ![t] = "drain"] \/ (pc' = [pc EXCEPT ![t] = "kill"] /\ c0.clock = "over")
           /\ call' = call
  <2>1. PICK to \in {"drain", "kill"} : pc' = [pc EXCEPT ![t] = to] /\ (to = "kill" => c0.clock = "over")
    BY <1>4
  <2>2. call' = [call EXCEPT ![t] = c0]
    BY <1>1, <1>4 DEF ProcessInv, Typed
  <2>3. OwnOK(t, to, c0, proc[call[t].pid]) /\ CallOK(to, c0) /\ OutOK(to, c0)
    BY <1>1, <1>3, <2>1 DEF OwnOK, Execed, CallOK, OutOK
  <2> QED BY <1>0, <1>1, <1>2, <2>1, <2>2, <2>3, LocalStep
<1>5. CASE /\ c0.clock = "late" /\ pc' = [pc EXCEPT ![t] = "term"]
           /\ call' = [call EXCEPT ![t].timed_out = TRUE]
  <2>1. PICK c : c = [c0 EXCEPT !.timed_out = TRUE]
    OBVIOUS
  <2>2. /\ c \in CallRec /\ c.pid = c0.pid /\ c.cloexec = c0.cloexec /\ c.fds = c0.fds /\ c.errno = c0.errno
        /\ c.clock = c0.clock /\ c.out_open = c0.out_open /\ c.timed_out
        /\ c.size = c0.size /\ c.truncated = c0.truncated /\ c.read = c0.read /\ c.wrote = c0.wrote
        /\ c.atExit = c0.atExit /\ c.ran = c0.ran /\ c.status = c0.status /\ c.outcome = c0.outcome
    BY <2>1 DEF CallRec
  <2>3. call' = [call EXCEPT ![t] = c] /\ (c.out_open \/ ~call[t].out_open)
    BY <1>1, <1>5, <2>1, <2>2
  <2>4. OwnOK(t, "term", c, proc[call[t].pid]) /\ CallOK("term", c) /\ HonestOK(c) /\ OutOK("term", c)
    BY <1>1, <1>3, <1>5, <2>2 DEF OwnOK, Execed, CallOK, HonestOK, OutOK
  <2> QED BY <1>0, <1>1, <1>2, <1>5, <2>2, <2>3, <2>4, LocalStep
<1> QED BY <1>1, <1>4, <1>5 DEF deadline, Goto

(* A process that ends, by itself or killed, when it may be. *)
LEMMA EndsStep ==
  ASSUME ProcessInv, NEW t \in Threads, NEW at \in Busy, NEW to \in Busy, NEW st \in Deaths,
         pc[t] = at, pc' = [pc EXCEPT ![t] = to],
         to = at \/ (at = "term" /\ to = "clock"),
         proc[call[t].pid].state = "running", Ends(t, call[t].pid, st),
         st = "killed" => call[t].timed_out
  PROVE  ProcessInv'
<1>1. PICK c0 \in CallRec, p0 \in ProcRec, q \in Pids :
        /\ c0 = call[t] /\ q = call[t].pid /\ p0 = proc[q] /\ q = c0.pid
        /\ CallOK(at, c0) /\ HonestOK(c0) /\ OutOK(at, c0) /\ OwnOK(t, at, c0, p0)
  BY CallFacts, BusyFacts
<1>2. PICK w \in Nat : w = c0.wrote
  BY <1>1 DEF CallRec
<1>3. PICK c : c = [c0 EXCEPT !.atExit = w]
  OBVIOUS
<1>4. PICK p : p = [p0 EXCEPT !.state = "zombie", !.status = st]
  OBVIOUS
<1>5. /\ c \in CallRec /\ c.pid = c0.pid /\ c.cloexec = c0.cloexec /\ c.fds = c0.fds /\ c.errno = c0.errno
      /\ c.clock = c0.clock /\ c.out_open = c0.out_open /\ c.timed_out = c0.timed_out
      /\ c.size = c0.size /\ c.truncated = c0.truncated /\ c.read = c0.read /\ c.wrote = c0.wrote
      /\ c.atExit = w /\ c.ran = c0.ran /\ c.status = c0.status /\ c.outcome = c0.outcome
  BY <1>3 DEF CallRec
<1>6. /\ p \in ProcRec /\ p.owner = p0.owner /\ p.state = "zombie" /\ p.child = p0.child
      /\ p.execw = p0.execw /\ p.keep = p0.keep /\ p.outw = p0.outw /\ p.status = st
  BY <1>4 DEF ProcRec
<1>7. proc' = [proc EXCEPT ![q] = p] /\ call' = [call EXCEPT ![t] = c]
  BY <1>1, <1>2, <1>3, <1>4 DEF Ends, Zombie
<1>8. /\ c0.outcome = "none" /\ at # "return" /\ to # "return" /\ at \notin {"last", "idle"}
      /\ to \notin {"last", "idle", "fcntl", "fork"}
  BY <1>1 DEF CallOK, Busy, Execed
<1>9. CallOK(to, c) /\ HonestOK(c) /\ OutOK(to, c)
  <2>1. CallOK(to, c)
    BY <1>1, <1>5, <1>8 DEF CallOK
  <2>2. HonestOK(c) /\ OutOK(to, c)
    BY <1>1, <1>2, <1>5, <1>8 DEF HonestOK, OutOK, CallRec
  <2> QED BY <2>1, <2>2
<1>10. OwnOK(t, to, c, p)
  BY <1>1, <1>5, <1>6, <1>8 DEF OwnOK, Execed
<1>11. Live(p) => Live(proc[q])
  BY <1>1, <1>6 DEF Live
<1>12. c.pid = q /\ p.owner = t /\ p.outw \subseteq proc[q].outw /\ (c.out_open \/ ~call[t].out_open)
  BY <1>1, <1>5, <1>6 DEF OwnOK
<1> QED BY <1>1, <1>5, <1>6, <1>7, <1>9, <1>10, <1>11, <1>12, BusyStep

(* killpg: SIGTERM *)
LEMMA KillpgTermStep ==
  ASSUME ProcessInv, NEW t \in Threads, killpg_term(t)
  PROVE  ProcessInv'
<1>0. pc[t] = "term" /\ pc' = [pc EXCEPT ![t] = "clock"] /\ {"term", "clock"} \subseteq Busy
  BY DEF killpg_term, Goto, Busy, Execed
<1>1. PICK c0 \in CallRec :
        c0 = call[t] /\ CallOK("term", c0) /\ HonestOK(c0) /\ OutOK("term", c0)
  BY <1>0, CallFacts
<1>2. OwnOK(t, "term", c0, proc[call[t].pid])
  BY <1>0, <1>1, BusyFacts
<1>3. CASE proc[call[t].pid].state = "running" /\ Ends(t, call[t].pid, "killed")
  <2>1. call[t].timed_out /\ "killed" \in Deaths
    BY <1>1 DEF CallOK, Deaths
  <2> QED BY <1>0, <1>3, <2>1, EndsStep
<1>4. CASE UNCHANGED <<call, proc>>
  <2>1. call' = [call EXCEPT ![t] = c0] /\ proc' = proc
    BY <1>1, <1>4 DEF ProcessInv, Typed
  <2>2. OwnOK(t, "clock", c0, proc[call[t].pid]) /\ CallOK("clock", c0) /\ OutOK("clock", c0)
    BY <1>1, <1>2 DEF OwnOK, Execed, CallOK, OutOK
  <2> QED BY <1>0, <1>1, <2>1, <2>2, LocalStep
<1> QED BY <1>3, <1>4 DEF killpg_term

(* killpg: SIGKILL, the sweep *)
LEMMA KillpgKillStep ==
  ASSUME ProcessInv, NEW t \in Threads, killpg_kill(t)
  PROVE  ProcessInv'
<1>0. pc[t] = "kill" /\ pc' = [pc EXCEPT ![t] = "reap"] /\ {"kill", "reap"} \subseteq Busy
  BY DEF killpg_kill, Goto, Busy, Execed
<1>1. PICK c0 \in CallRec, p0 \in ProcRec, q \in Pids :
        /\ c0 = call[t] /\ q = call[t].pid /\ p0 = proc[q] /\ q = c0.pid
        /\ CallOK("kill", c0) /\ HonestOK(c0) /\ OutOK("kill", c0) /\ OwnOK(t, "kill", c0, p0)
  BY <1>0, CallFacts, BusyFacts
<1>2. PICK w \in Nat : w = IF p0.state = "running" THEN c0.wrote ELSE c0.atExit
  <2>1. c0.wrote \in Nat /\ c0.atExit \in Nat
    BY <1>1 DEF CallRec
  <2> QED BY <2>1
<1>3. PICK st : st = IF p0.state = "running" THEN "killed" ELSE p0.status
  OBVIOUS
<1>4. /\ p0.state \in {"running", "zombie"} /\ st \in Deaths /\ (st = "killed" => c0.timed_out)
      /\ p0.owner = t /\ ~c0.errno /\ c0.ran
  BY <1>1, <1>3 DEF OwnOK, Execed, Deaths
<1>5. PICK c : c = [c0 EXCEPT !.atExit = w]
  OBVIOUS
<1>6. /\ c \in CallRec /\ c.pid = c0.pid /\ c.cloexec = c0.cloexec /\ c.fds = c0.fds /\ c.errno = c0.errno
      /\ c.clock = c0.clock /\ c.out_open = c0.out_open /\ c.timed_out = c0.timed_out
      /\ c.size = c0.size /\ c.truncated = c0.truncated /\ c.read = c0.read /\ c.wrote = c0.wrote
      /\ c.atExit = w /\ c.ran = c0.ran /\ c.status = c0.status /\ c.outcome = c0.outcome
  BY <1>5 DEF CallRec
<1>7. PICK p \in ProcRec :
        /\ proc' = [proc EXCEPT ![q] = p] /\ p.owner = t /\ p.state = "zombie" /\ ~p.child
        /\ p.status = st /\ p.outw = p0.outw
  <2>1. CASE p0.state = "running"
    <3>1. PICK r, p : r = [p0 EXCEPT !.state = "zombie", !.status = "killed"] /\ p = [r EXCEPT !.child = FALSE]
      OBVIOUS
    <3>2. r \in ProcRec /\ r.owner = t /\ r.state = "zombie" /\ r.status = "killed" /\ r.outw = p0.outw
      BY <1>4, <3>1 DEF ProcRec, Deaths
    <3>3. /\ p \in ProcRec /\ p.owner = t /\ p.state = "zombie" /\ ~p.child
          /\ p.status = "killed" /\ p.outw = p0.outw
      BY <3>1, <3>2 DEF ProcRec
    <3>4. proc' = [proc EXCEPT ![q] = p]
      BY <1>1, <2>1, <3>1 DEF killpg_kill, Zombie, ProcessInv, Typed
    <3> QED BY <1>3, <2>1, <3>3, <3>4
  <2>2. CASE p0.state = "zombie"
    <3>1. PICK p : p = [p0 EXCEPT !.child = FALSE]
      OBVIOUS
    <3>2. /\ p \in ProcRec /\ p.owner = t /\ p.state = "zombie" /\ ~p.child
          /\ p.status = p0.status /\ p.outw = p0.outw
      BY <1>4, <2>2, <3>1 DEF ProcRec
    <3>3. proc' = [proc EXCEPT ![q] = p]
      BY <1>1, <2>2, <3>1 DEF killpg_kill, ProcessInv, Typed
    <3> QED BY <1>3, <2>2, <3>2, <3>3
  <2> QED BY <1>4, <2>1, <2>2
<1>8. call' = [call EXCEPT ![t] = c]
  BY <1>1, <1>2, <1>5 DEF killpg_kill
<1>9. w <= c0.wrote /\ c0.outcome = "none"
  BY <1>1, <1>2 DEF OutOK, CallRec, CallOK
<1>10. CallOK("reap", c) /\ HonestOK(c) /\ OutOK("reap", c) /\ OwnOK(t, "reap", c, p)
  <2>1. CallOK("reap", c) /\ HonestOK(c)
    BY <1>1, <1>6, <1>9 DEF CallOK, HonestOK
  <2>2. OutOK("reap", c)
    BY <1>1, <1>6, <1>9 DEF OutOK
  <2>3. OwnOK(t, "reap", c, p)
    BY <1>1, <1>4, <1>6, <1>7 DEF OwnOK, Execed
  <2> QED BY <2>1, <2>2, <2>3
<1>11. ~Live(p)
  BY <1>7 DEF Live
<1>12. c.pid = q /\ p.outw \subseteq proc[q].outw /\ (c.out_open \/ ~call[t].out_open)
  BY <1>1, <1>6, <1>7
<1> QED BY <1>0, <1>1, <1>6, <1>7, <1>8, <1>10, <1>11, <1>12, BusyStep

(* return *)
LEMMA ReturnStep ==
  ASSUME ProcessInv, NEW t \in Threads, return(t)
  PROVE  ProcessInv'
<1>0. pc[t] = "return" /\ pc' = [pc EXCEPT ![t] = "idle"] /\ Close(t)
  BY DEF return, Goto
<1>1. PICK c0 \in CallRec :
        c0 = call[t] /\ CallOK("return", c0) /\ HonestOK(c0) /\ OutOK("return", c0)
  BY <1>0, CallFacts
<1>2. PICK o \in Outcomes :
        o = IF c0.timed_out THEN "TimedOut" ELSE IF c0.status = "exited" THEN "Exited" ELSE "Signaled"
  BY DEF Outcomes
<1>3. PICK c : c = [c0 EXCEPT !.fds = {}, !.pid = NoPid, !.cloexec = FALSE, !.outcome = o]
  OBVIOUS
<1>4. /\ c \in CallRec /\ c.fds = {} /\ c.errno = c0.errno
      /\ c.clock = c0.clock /\ c.out_open = c0.out_open /\ c.timed_out = c0.timed_out
      /\ c.size = c0.size /\ c.truncated = c0.truncated /\ c.read = c0.read /\ c.wrote = c0.wrote
      /\ c.atExit = c0.atExit /\ c.ran = c0.ran /\ c.status = c0.status /\ c.outcome = o
  BY <1>3 DEF CallRec
<1>5. call' = [call EXCEPT ![t] = c]
  BY <1>1, <1>2, <1>3 DEF return
<1>6. c0.ran /\ c0.status \in {"exited", "signaled", "killed"} /\ (c0.status = "killed" => c0.timed_out)
  BY <1>1 DEF CallOK, Deaths
<1>7. CallOK("idle", c) /\ HonestOK(c) /\ OutOK("idle", c)
  <2>1. CallOK("idle", c) /\ OutOK("idle", c)
    BY <1>1, <1>4 DEF CallOK, OutOK
  <2>2. HonestOK(c)
    BY <1>1, <1>2, <1>4, <1>6 DEF HonestOK, CallOK
  <2> QED BY <2>1, <2>2
<1>8. "return" \notin Busy /\ "idle" \in PcValues \ Busy /\ (c.out_open \/ ~call[t].out_open)
  BY <1>1, <1>4 DEF PcValues, Busy, Execed
<1> QED BY <1>0, <1>4, <1>5, <1>7, <1>8, QuietStep

-----------------------------------------------------------------------------
(* The command.                                                            *)

(* A step of a command, seen from the call that owns it. *)
LEMMA CommandStep ==
  ASSUME ProcessInv, NEW q \in Pids, proc[q].state # "free" \/ proc[q].child,
         NEW t, t = proc[q].owner, NEW c \in CallRec, NEW p \in ProcRec,
         c.pid = q, p.owner = t,
         pc' = pc, call' = [call EXCEPT ![t] = c], proc' = [proc EXCEPT ![q] = p],
         Live(p) => Live(proc[q]), p.outw \subseteq proc[q].outw,
         p.state = "running" => p.execw \subseteq p.keep,
         OwnOK(t, pc[t], c, p), CallOK(pc[t], c), HonestOK(c), OutOK(pc[t], c),
         c.out_open \/ ~call[t].out_open
  PROVE  ProcessInv'
<1>1. t \in Threads /\ pc[t] \in Busy /\ q = call[t].pid
  BY OwnerFacts
<1>2. pc' = [pc EXCEPT ![t] = pc[t]]
  BY <1>1 DEF ProcessInv, Typed
<1> QED BY <1>1, <1>2, BusyStep

(* What is known of the owner of a pid in use. *)
LEMMA CommandFacts ==
  ASSUME ProcessInv, NEW q \in Pids, proc[q].state # "free" \/ proc[q].child,
         NEW t, t = proc[q].owner
  PROVE  /\ t \in Threads /\ pc[t] \in Busy /\ call[t].pid = q /\ call[t] \in CallRec
         /\ proc[q] \in ProcRec /\ OwnOK(t, pc[t], call[t], proc[q])
         /\ (proc[q].state = "running" => proc[q].execw \subseteq proc[q].keep)
         /\ CallOK(pc[t], call[t]) /\ HonestOK(call[t]) /\ OutOK(pc[t], call[t])
<1>1. t \in Threads /\ pc[t] \in Busy /\ call[t].pid = q
  BY OwnerFacts
<1> QED BY <1>1, CallFacts, BusyFacts

(* execvpe *)
LEMMA ExecvpeStep ==
  ASSUME ProcessInv, NEW q \in Pids, execvpe(q)
  PROVE  ProcessInv'
<1>0. proc[q].state = "forked" /\ pc' = pc
  BY DEF execvpe
<1>1. PICK t \in Threads, c0 \in CallRec, p0 \in ProcRec, at \in Busy :
        /\ t = proc[q].owner /\ c0 = call[t] /\ p0 = proc[q] /\ at = pc[t] /\ c0.pid = q
        /\ OwnOK(t, at, c0, p0) /\ CallOK(at, c0) /\ HonestOK(c0) /\ OutOK(at, c0)
  BY <1>0, CommandFacts
<1>2. ~p0.child /\ ~c0.errno /\ ~c0.ran /\ p0.owner = t /\ c0.outcome = "none"
  BY <1>0, <1>1 DEF OwnOK, CallOK, Busy, Execed
<1>3. /\ at \notin Execed /\ at \notin {"idle", "fcntl", "fork", "last", "return"} /\ at # "reap_failed"
      /\ at # "term"
  BY <1>0, <1>1 DEF OwnOK, Busy, Execed
<1>4. CASE /\ proc' = [proc EXCEPT ![q].state = "running", ![q].execw = @ \cap proc[q].keep]
           /\ call' = [call EXCEPT ![t].ran = TRUE]
  <2>1. PICK x : x = p0.execw \cap p0.keep
    OBVIOUS
  <2>2. x \in SUBSET Threads /\ x \subseteq p0.keep
    BY <1>1, <2>1 DEF ProcRec
  <2>3. PICK p : p = [p0 EXCEPT !.state = "running", !.execw = x]
    OBVIOUS
  <2>4. PICK c : c = [c0 EXCEPT !.ran = TRUE]
    OBVIOUS
  <2>5. /\ p \in ProcRec /\ p.owner = p0.owner /\ p.state = "running" /\ p.child = p0.child
        /\ p.execw = x /\ p.keep = p0.keep /\ p.outw = p0.outw /\ p.status = p0.status
    BY <2>2, <2>3 DEF ProcRec
  <2>6. /\ c \in CallRec /\ c.pid = c0.pid /\ c.cloexec = c0.cloexec /\ c.fds = c0.fds /\ c.errno = c0.errno
        /\ c.clock = c0.clock /\ c.out_open = c0.out_open /\ c.timed_out = c0.timed_out
        /\ c.size = c0.size /\ c.truncated = c0.truncated /\ c.read = c0.read /\ c.wrote = c0.wrote
        /\ c.atExit = c0.atExit /\ c.ran /\ c.status = c0.status /\ c.outcome = c0.outcome
    BY <2>4 DEF CallRec
  <2>7. proc' = [proc EXCEPT ![q] = p] /\ call' = [call EXCEPT ![t] = c]
    BY <1>1, <1>4, <2>1, <2>3, <2>4 DEF ProcessInv, Typed
  <2>8. CallOK(at, c) /\ HonestOK(c)
    BY <1>1, <1>2, <1>3, <2>6 DEF CallOK, HonestOK
  <2>9. OutOK(at, c) /\ OwnOK(t, at, c, p)
    BY <1>1, <1>2, <1>3, <2>5, <2>6 DEF OutOK, OwnOK
  <2>10. Live(p) => Live(proc[q])
    BY <1>0 DEF Live
  <2>11. p.outw \subseteq proc[q].outw /\ (c.out_open \/ ~call[t].out_open) /\ p.execw \subseteq p.keep
         /\ p.owner = t /\ c.pid = q
    BY <1>1, <1>2, <2>2, <2>5, <2>6
  <2> QED BY <1>0, <1>1, <2>5, <2>6, <2>7, <2>8, <2>9, <2>10, <2>11, CommandStep
<1>5. CASE /\ proc' = [proc EXCEPT ![q].state = "failed"]
           /\ call' = [call EXCEPT ![t].errno = TRUE]
  <2>3. PICK p : p = [p0 EXCEPT !.state = "failed"]
    OBVIOUS
  <2>4. PICK c : c = [c0 EXCEPT !.errno = TRUE]
    OBVIOUS
  <2>5. /\ p \in ProcRec /\ p.owner = p0.owner /\ p.state = "failed" /\ p.child = p0.child
        /\ p.execw = p0.execw /\ p.keep = p0.keep /\ p.outw = p0.outw /\ p.status = p0.status
    BY <2>3 DEF ProcRec
  <2>6. /\ c \in CallRec /\ c.pid = c0.pid /\ c.cloexec = c0.cloexec /\ c.fds = c0.fds /\ c.errno
        /\ c.clock = c0.clock /\ c.out_open = c0.out_open /\ c.timed_out = c0.timed_out
        /\ c.size = c0.size /\ c.truncated = c0.truncated /\ c.read = c0.read /\ c.wrote = c0.wrote
        /\ c.atExit = c0.atExit /\ c.ran = c0.ran /\ c.status = c0.status /\ c.outcome = c0.outcome
    BY <2>4 DEF CallRec
  <2>7. proc' = [proc EXCEPT ![q] = p] /\ call' = [call EXCEPT ![t] = c]
    BY <1>1, <1>5, <2>3, <2>4 DEF ProcessInv, Typed
  <2>8. CallOK(at, c) /\ HonestOK(c)
    BY <1>1, <1>2, <1>3, <2>6 DEF CallOK, HonestOK
  <2>9. OutOK(at, c) /\ OwnOK(t, at, c, p)
    BY <1>1, <1>2, <1>3, <2>5, <2>6 DEF OutOK, OwnOK
  <2>10. Live(p) => Live(proc[q])
    BY <1>0 DEF Live
  <2>11. p.outw \subseteq proc[q].outw /\ (c.out_open \/ ~call[t].out_open)
         /\ p.owner = t /\ c.pid = q /\ p.state # "running"
    BY <1>1, <1>2, <2>5, <2>6
  <2> QED BY <1>0, <1>1, <2>5, <2>6, <2>7, <2>8, <2>9, <2>10, <2>11, CommandStep
<1> QED BY <1>1, <1>4, <1>5 DEF execvpe

(* exit127: _exit(127) after a failed exec *)
LEMMA Exit127Step ==
  ASSUME ProcessInv, NEW q \in Pids, exit127(q)
  PROVE  ProcessInv'
<1>0. proc[q].state = "failed" /\ pc' = pc
  BY DEF exit127
<1>1. PICK t \in Threads, c0 \in CallRec, p0 \in ProcRec, at \in Busy :
        /\ t = proc[q].owner /\ c0 = call[t] /\ p0 = proc[q] /\ at = pc[t] /\ c0.pid = q
        /\ OwnOK(t, at, c0, p0) /\ CallOK(at, c0) /\ HonestOK(c0) /\ OutOK(at, c0)
  BY <1>0, CommandFacts
<1>2. PICK p : p = [p0 EXCEPT !.state = "zombie", !.status = "exited"]
  OBVIOUS
<1>3. /\ p \in ProcRec /\ p.owner = p0.owner /\ p.state = "zombie" /\ p.child = p0.child
      /\ p.execw = p0.execw /\ p.keep = p0.keep /\ p.outw = p0.outw /\ p.status = "exited"
  BY <1>2 DEF ProcRec, Deaths
<1>4. proc' = [proc EXCEPT ![q] = p] /\ call' = [call EXCEPT ![t] = c0]
  BY <1>1, <1>2 DEF exit127, Zombie, ProcessInv, Typed
<1>5. OwnOK(t, at, c0, p) /\ p.owner = t
  BY <1>0, <1>1, <1>3 DEF OwnOK, Deaths, Execed
<1>6. Live(p) => Live(proc[q])
  BY <1>0 DEF Live
<1>7. p.outw \subseteq proc[q].outw /\ (c0.out_open \/ ~call[t].out_open)
  BY <1>1, <1>3
<1> QED BY <1>0, <1>1, <1>3, <1>4, <1>5, <1>6, <1>7, CommandStep

(* Die *)
LEMMA DieStep ==
  ASSUME ProcessInv, NEW q \in Pids, Die(q)
  PROVE  ProcessInv'
<1>1. PICK t : t = proc[q].owner
  OBVIOUS
<1>2. PICK st \in {"exited", "signaled"} : proc[q].state = "running" /\ Ends(t, q, st) /\ pc' = pc
  BY <1>1 DEF Die
<1>3. t \in Threads /\ pc[t] \in Busy /\ call[t].pid = q
  BY <1>1, <1>2, OwnerFacts
<1>4. pc' = [pc EXCEPT ![t] = pc[t]] /\ st \in Deaths /\ st # "killed"
  BY <1>2, <1>3 DEF ProcessInv, Typed, Deaths
<1> QED BY <1>2, <1>3, <1>4, EndsStep

(* Write: only while nobody has seen the end of the output *)
LEMMA WriteStep ==
  ASSUME ProcessInv, NEW q \in Pids, Write(q)
  PROVE  ProcessInv'
<1>0. (proc[q].state = "running" \/ proc[q].child) /\ pc' = pc /\ proc' = proc
  BY DEF Write
<1>1. PICK t \in Threads, c0 \in CallRec, p0 \in ProcRec, at \in Busy :
        /\ t = proc[q].owner /\ c0 = call[t] /\ p0 = proc[q] /\ at = pc[t] /\ c0.pid = q
        /\ OwnOK(t, at, c0, p0) /\ CallOK(at, c0) /\ HonestOK(c0) /\ OutOK(at, c0)
  BY <1>0, CommandFacts
<1>2. PICK w \in Nat : w = c0.wrote + 1
  BY <1>1 DEF CallRec
<1>3. PICK c : c = [c0 EXCEPT !.wrote = w]
  OBVIOUS
<1>4. /\ c \in CallRec /\ c.pid = c0.pid /\ c.cloexec = c0.cloexec /\ c.fds = c0.fds /\ c.errno = c0.errno
      /\ c.clock = c0.clock /\ c.out_open = c0.out_open /\ c.timed_out = c0.timed_out
      /\ c.size = c0.size /\ c.truncated = c0.truncated /\ c.read = c0.read /\ c.wrote = w
      /\ c.atExit = c0.atExit /\ c.ran = c0.ran /\ c.status = c0.status /\ c.outcome = c0.outcome
  BY <1>2, <1>3 DEF CallRec
<1>5. call' = [call EXCEPT ![t] = c]
  BY <1>1, <1>2, <1>3 DEF Write
<1>6. c0.out_open
  <2>1. Live(proc[q]) /\ t \in proc[q].outw
    BY <1>0, <1>1 DEF Write, Live
  <2>2. OutShut(t)
    BY DEF ProcessInv, ThreadInv
  <2> QED BY <1>1, <2>1, <2>2 DEF OutShut
<1>7. CallOK(at, c) /\ HonestOK(c) /\ OwnOK(t, at, c, p0)
  BY <1>1, <1>4 DEF CallOK, HonestOK, OwnOK
<1>8. OutOK(at, c)
  BY <1>1, <1>2, <1>4, <1>6 DEF OutOK, CallRec
<1>9. pc' = [pc EXCEPT ![t] = at] /\ c.out_open /\ c.pid = call[t].pid /\ p0 = proc[call[t].pid]
  BY <1>0, <1>1, <1>4, <1>6 DEF ProcessInv, Typed
<1>10. OwnOK(t, at, c, proc[call[t].pid])
  BY <1>7, <1>9
<1> QED BY <1>0, <1>1, <1>4, <1>5, <1>7, <1>8, <1>9, <1>10, LocalStep

(* Hush, Daemon and DaemonDies *)
LEMMA GroupStep ==
  ASSUME ProcessInv, NEW q \in Pids, Hush(q) \/ Daemon(q) \/ DaemonDies(q)
  PROVE  ProcessInv'
<1>0. /\ proc[q].state = "running" \/ proc[q].child
      /\ pc' = pc /\ call' = call
  BY DEF Hush, Daemon, DaemonDies
<1>1. PICK t \in Threads, c0 \in CallRec, p0 \in ProcRec, at \in Busy :
        /\ t = proc[q].owner /\ c0 = call[t] /\ p0 = proc[q] /\ at = pc[t] /\ c0.pid = q
        /\ (p0.state = "running" => p0.execw \subseteq p0.keep)
        /\ OwnOK(t, at, c0, p0) /\ CallOK(at, c0) /\ HonestOK(c0) /\ OutOK(at, c0)
  BY <1>0, CommandFacts
<1>2. PICK p \in ProcRec :
        /\ proc' = [proc EXCEPT ![q] = p] /\ p.owner = t /\ p.state = p0.state
        /\ p.execw = p0.execw /\ p.keep = p0.keep /\ p.status = p0.status
        /\ p.outw \subseteq p0.outw
        /\ p.child => p0.child \/ p0.state = "running"
  <2>1. CASE Hush(q)
    <3>1. PICK p : p = [p0 EXCEPT !.outw = {}]
      OBVIOUS
    <3>2. /\ p \in ProcRec /\ p.owner = p0.owner /\ p.state = p0.state /\ p.child = p0.child
          /\ p.execw = p0.execw /\ p.keep = p0.keep /\ p.outw = {} /\ p.status = p0.status
      BY <3>1 DEF ProcRec
    <3>3. proc' = [proc EXCEPT ![q] = p]
      BY <1>1, <2>1, <3>1 DEF Hush
    <3> QED BY <1>1, <3>2, <3>3
  <2>2. CASE Daemon(q) \/ DaemonDies(q)
    <3>1. PICK d \in BOOLEAN : proc' = [proc EXCEPT ![q].child = d] /\ (d => p0.state = "running")
      BY <1>1, <2>2 DEF Daemon, DaemonDies
    <3>2. PICK p : p = [p0 EXCEPT !.child = d]
      OBVIOUS
    <3>3. /\ p \in ProcRec /\ p.owner = p0.owner /\ p.state = p0.state /\ p.child = d
          /\ p.execw = p0.execw /\ p.keep = p0.keep /\ p.outw = p0.outw /\ p.status = p0.status
      BY <3>2 DEF ProcRec
    <3>4. proc' = [proc EXCEPT ![q] = p]
      BY <1>1, <3>1, <3>2
    <3> QED BY <1>1, <3>1, <3>3, <3>4
  <2> QED BY <2>1, <2>2
<1>3. call' = [call EXCEPT ![t] = c0]
  BY <1>0, <1>1 DEF ProcessInv, Typed
<1>4. p0.state = "running" => c0.ran /\ ~c0.errno
  BY <1>1 DEF OwnOK
<1>5. OwnOK(t, at, c0, p)
  BY <1>1, <1>2, <1>4 DEF OwnOK
<1>6. Live(p) => Live(proc[q])
  BY <1>1, <1>2 DEF Live
<1>7. p.outw \subseteq proc[q].outw /\ (c0.out_open \/ ~call[t].out_open)
  BY <1>1, <1>2
<1>8. proc[q].state # "free" \/ proc[q].child
  BY <1>0
<1> QED BY <1>0, <1>1, <1>2, <1>3, <1>5, <1>6, <1>7, <1>8, CommandStep

(* Tick *)
LEMMA TickStep ==
  ASSUME ProcessInv, NEW t \in Threads, Tick(t)
  PROVE  ProcessInv'
<1>1. PICK c0 \in CallRec, at \in PcValues :
        c0 = call[t] /\ at = pc[t] /\ CallOK(at, c0) /\ HonestOK(c0) /\ OutOK(at, c0)
  BY CallFacts
<1>2. PICK k \in {"late", "over"} :
        /\ at # "idle" /\ pc' = pc /\ proc' = proc
        /\ call' = [call EXCEPT ![t].clock = k] /\ (k = "over" => c0.timed_out)
  BY <1>1 DEF Tick
<1>3. PICK c : c = [c0 EXCEPT !.clock = k]
  OBVIOUS
<1>4. /\ c \in CallRec /\ c.pid = c0.pid /\ c.cloexec = c0.cloexec /\ c.fds = c0.fds /\ c.errno = c0.errno
      /\ c.clock = k /\ c.out_open = c0.out_open /\ c.timed_out = c0.timed_out
      /\ c.size = c0.size /\ c.truncated = c0.truncated /\ c.read = c0.read /\ c.wrote = c0.wrote
      /\ c.atExit = c0.atExit /\ c.ran = c0.ran /\ c.status = c0.status /\ c.outcome = c0.outcome
  BY <1>3 DEF CallRec
<1>5. call' = [call EXCEPT ![t] = c] /\ pc' = [pc EXCEPT ![t] = at]
  BY <1>1, <1>2, <1>3 DEF ProcessInv, Typed
<1>6. CallOK(at, c) /\ HonestOK(c) /\ OutOK(at, c)
  BY <1>1, <1>2, <1>4 DEF CallOK, HonestOK, OutOK
<1>7. (c.out_open \/ ~call[t].out_open) /\ c.pid = call[t].pid
  BY <1>1, <1>4
<1>8. CASE at \in Busy
  <2>1. OwnOK(t, at, c0, proc[call[t].pid])
    BY <1>1, <1>8, BusyFacts
  <2>2. OwnOK(t, at, c, proc[call[t].pid])
    BY <1>4, <2>1 DEF OwnOK
  <2> QED BY <1>1, <1>2, <1>4, <1>5, <1>6, <1>7, <1>8, <2>2, LocalStep
<1>9. CASE at \notin Busy
  BY <1>1, <1>2, <1>4, <1>5, <1>6, <1>7, <1>9, QuietStep
<1> QED BY <1>8, <1>9

-----------------------------------------------------------------------------
(* The invariant holds.                                                    *)

(* Before the first call nothing is in use. *)
LEMMA ProcessInit ==
  ASSUME Init
  PROVE  ProcessInv
<1>1. NoProc \in ProcRec /\ NoProc.state = "free" /\ NoProc.owner = NoPid /\ ~NoProc.child
      /\ NoProc.keep = {} /\ NoProc.execw = {} /\ NoProc.outw = {}
  BY DEF NoProc, ProcRec
<1>2. PICK n \in CallRec, m \in ProcRec : n = NoCall /\ m = NoProc
  BY <1>1, NoCallFacts
<1>3. pc = [t \in Threads |-> "idle"] /\ call = [t \in Threads |-> n] /\ proc = [q \in Pids |-> m]
  BY <1>2 DEF Init
<1>4. Typed
  BY <1>3 DEF Typed, PcValues
<1>5. min(0, Limit) = 0 /\ ~(0 > Limit)
  BY ProcessAssumption DEF ProcessAssumption, min
<1>6. CallOK("idle", n) /\ HonestOK(n) /\ OutOK("idle", n) /\ n.out_open
  BY <1>2, <1>5, NoCallFacts DEF CallOK, HonestOK, OutOK
<1>7. ASSUME NEW t \in Threads PROVE ThreadInv(t)
  <2>1. pc[t] = "idle" /\ call[t] = n /\ "idle" \notin Busy
    BY <1>3 DEF Busy, Execed
  <2> QED BY <1>6, <2>1 DEF ThreadInv, OutShut
<1>8. ASSUME NEW q \in Pids PROVE PidInv(q)
  <2>1. proc[q] = NoProc
    BY <1>2, <1>3
  <2> QED BY <1>1, <2>1 DEF PidInv
<1> QED BY <1>4, <1>7, <1>8 DEF ProcessInv

(* Every step of the agent's threads and of the commands keeps it. *)
LEMMA ProcessStep ==
  ASSUME ProcessInv, [Next]_vars
  PROVE  ProcessInv'
<1>1. ASSUME NEW t \in Threads, run_process(t) PROVE ProcessInv'
  <2>1. CASE fcntl(t) \/ fork(t) \/ close(t) \/ read_status(t) \/ reap_failed(t)
    BY <2>1, FcntlStep, ForkStep, CloseStep, ReadStatusStep, ReapFailedStep
  <2>2. CASE read_ready(t)
    BY <2>2, DrainMoreStep, DrainDryStep DEF read_ready
  <2>3. CASE has_exited(t) \/ deadline(t) \/ killpg_term(t) \/ killpg_kill(t) \/ waitpid(t)
    BY <2>3, HasExitedStep, DeadlineStep, KillpgTermStep, KillpgKillStep, WaitpidStep
  <2>4. CASE last_drain(t)
    BY <2>4, DrainMoreStep, DrainDryStep DEF last_drain
  <2>5. CASE return(t)
    BY <2>5, ReturnStep
  <2> QED BY <1>1, <2>1, <2>2, <2>3, <2>4, <2>5 DEF run_process
<1>2. ASSUME NEW t \in Threads, pipe(t) \/ Tick(t) PROVE ProcessInv'
  BY <1>2, PipeStep, TickStep
<1>3. ASSUME NEW q \in Pids, Command(q) \/ Die(q) \/ Write(q) PROVE ProcessInv'
  BY <1>3, ExecvpeStep, Exit127Step, DieStep, WriteStep DEF Command
<1>4. ASSUME NEW q \in Pids, Hush(q) \/ Daemon(q) \/ DaemonDies(q) PROVE ProcessInv'
  BY <1>4, GroupStep
<1>5. CASE UNCHANGED vars
  BY <1>5 DEF vars, ProcessInv, Typed, ThreadInv, OutShut, PidInv, Live
<1> QED BY <1>1, <1>2, <1>3, <1>4, <1>5 DEF Next

(* Every state of the agent: the calls, the processes behind the pids and  *)
(* the locals agree, whatever the interleaving.                            *)
THEOREM ProcessInvariant == Spec => []ProcessInv
<1>1. Init => ProcessInv
  BY ProcessInit
<1>2. ProcessInv /\ [Next]_vars => ProcessInv'
  BY ProcessStep
<1> QED BY <1>1, <1>2, PTL DEF Spec

(* killpg never hits another call's group, or a stranger's: from the fork  *)
(* to the reap, which comes after the last killpg, the pid is the call's.  *)
THEOREM KillsItsOwnGroup == Spec => []NoStrayKill
<1>1. ProcessInv => NoStrayKill
  <2> SUFFICES ASSUME ProcessInv, NEW t \in Threads, pc[t] \in {"term", "kill"}
               PROVE  proc[call[t].pid].owner = t /\ proc[call[t].pid].state \in {"running", "zombie"}
    BY DEF NoStrayKill
  <2>1. pc[t] \in Execed /\ pc[t] \in Busy
    BY DEF Execed, Busy
  <2>2. OwnOK(t, pc[t], call[t], proc[call[t].pid])
    BY <2>1, BusyFacts
  <2> QED BY <2>1, <2>2 DEF OwnOK
<1> QED BY <1>1, ProcessInvariant, PTL

(* A call that has returned, on whichever path, leaves no process of its   *)
(* group behind, and no descriptor unless it could not make all its pipes. *)
THEOREM GroupIsSwept == Spec => []GroupSwept
<1>1. ProcessInv => GroupSwept
  <2> SUFFICES ASSUME ProcessInv, NEW t \in Threads, pc[t] = "idle"
               PROVE  /\ \A q \in Pids : proc[q].owner # t
                      /\ call[t].fds # {} => call[t].fds = OutPipe /\ call[t].outcome = "LaunchFailed"
    BY DEF GroupSwept
  <2>1. call[t].fds # {} => call[t].fds = OutPipe /\ call[t].outcome = "LaunchFailed"
    BY CallFacts DEF CallOK
  <2>2. "idle" \notin Busy /\ \A q \in Pids : PidInv(q)
    BY DEF Busy, Execed, ProcessInv
  <2> QED BY <2>1, <2>2, ProcessAssumption DEF PidInv, ProcessAssumption
<1> QED BY <1>1, ProcessInvariant, PTL

(* The outcome run_process returns is the truth about the command. *)
THEOREM OutcomeIsHonest == Spec => []OutcomeHonest
<1>1. ProcessInv => OutcomeHonest
  BY CallFacts DEF OutcomeHonest, HonestOK
<1> QED BY <1>1, ProcessInvariant, PTL

(* The captured output is a prefix, marked when cut, and nothing the       *)
(* command wrote before its end is missed.                                 *)
THEOREM OutputIsComplete == Spec => []OutputComplete
<1>1. ProcessInv => OutputComplete
  BY CallFacts DEF OutputComplete, OutOK
<1> QED BY <1>1, ProcessInvariant, PTL

-----------------------------------------------------------------------------
(* Calls waiting for one another.                                          *)

(* Only a fork hands an exec pipe on. *)
Shrinks ==
  \A q \in Pids : /\ proc'[q].keep \subseteq proc[q].keep
                  /\ proc'[q].keep = {} \/ proc'[q].owner = proc[q].owner

(* No other step of a thread does ... *)
LEMMA ThreadShrinks ==
  ASSUME ProcessInv, NEW t \in Threads, pipe(t) \/ run_process(t) \/ Tick(t), ~fork(t)
  PROVE  Shrinks
<1>0. \A q \in Pids : proc[q] \in ProcRec
  BY DEF ProcessInv, Typed
<1>1. CASE proc' = proc
  BY <1>1 DEF Shrinks
<1>2. CASE return(t) \/ read_status(t)
  <2> SUFFICES ASSUME NEW q \in Pids
               PROVE  proc'[q].keep \subseteq proc[q].keep /\ proc'[q].owner = proc[q].owner
    BY DEF Shrinks
  <2>1. PICK p \in ProcRec : p = proc[q]
    BY <1>0
  <2>2. \/ proc'[q] = [p EXCEPT !.execw = p.execw \ {t}, !.keep = p.keep \ {t}]
        \/ proc'[q] = [p EXCEPT !.execw = p.execw \ {t}, !.keep = p.keep \ {t}, !.outw = p.outw \ {t}]
    BY <1>2, <2>1 DEF return, read_status, Close
  <2>3. PICK x, y, z : x = p.execw \ {t} /\ y = p.keep \ {t} /\ z = p.outw \ {t}
    OBVIOUS
  <2>4. /\ [p EXCEPT !.execw = x, !.keep = y].keep = y
        /\ [p EXCEPT !.execw = x, !.keep = y].owner = p.owner
        /\ [p EXCEPT !.execw = x, !.keep = y, !.outw = z].keep = y
        /\ [p EXCEPT !.execw = x, !.keep = y, !.outw = z].owner = p.owner
    BY DEF ProcRec
  <2>5. proc'[q].keep = y /\ proc'[q].owner = p.owner
    BY <2>2, <2>3, <2>4
  <2> QED BY <2>1, <2>3, <2>5
<1>3. CASE reap_failed(t) \/ waitpid(t)
  <2>1. proc' = Reaped(t)
    BY <1>3 DEF reap_failed, waitpid
  <2> SUFFICES ASSUME NEW q \in Pids
               PROVE  /\ proc'[q].keep \subseteq proc[q].keep
                      /\ proc'[q].keep = {} \/ proc'[q].owner = proc[q].owner
    BY DEF Shrinks
  <2>2. PICK p \in ProcRec : p = proc[q]
    BY <1>0
  <2>3. proc'[q] \in {p, [p EXCEPT !.state = "free"], NoProc}
    BY <2>1, <2>2 DEF Reaped, ProcessInv, Typed
  <2>4. NoProc.keep = {} /\ [p EXCEPT !.state = "free"].keep = p.keep
        /\ [p EXCEPT !.state = "free"].owner = p.owner
    BY DEF NoProc, ProcRec
  <2> QED BY <2>2, <2>3, <2>4
<1>4. CASE killpg_term(t) \/ killpg_kill(t)
  <2> SUFFICES ASSUME NEW q \in Pids
               PROVE  proc'[q].keep = proc[q].keep /\ proc'[q].owner = proc[q].owner
    BY DEF Shrinks
  <2>1. PICK p \in ProcRec : p = proc[q]
    BY <1>0
  <2>2. PICK z : z = Zombie(p, "killed")
    OBVIOUS
  <2>3. proc'[q] \in {p, z, [z EXCEPT !.child = FALSE], [p EXCEPT !.child = FALSE]}
    BY <1>4, <2>1, <2>2 DEF killpg_term, killpg_kill, Ends, ProcessInv, Typed
  <2>4. z \in ProcRec /\ z.keep = p.keep /\ z.owner = p.owner
    BY <2>2 DEF Zombie, ProcRec, Deaths
  <2>5. /\ [z EXCEPT !.child = FALSE].keep = z.keep /\ [z EXCEPT !.child = FALSE].owner = z.owner
        /\ [p EXCEPT !.child = FALSE].keep = p.keep /\ [p EXCEPT !.child = FALSE].owner = p.owner
    BY <2>4 DEF ProcRec
  <2> QED BY <2>1, <2>3, <2>4, <2>5
<1> QED
  BY <1>1, <1>2, <1>3, <1>4
  DEF run_process, pipe, Tick, fcntl, close, read_ready, last_drain, drain_more, drain_dry,
      has_exited, deadline

(* ... and none of a command. *)
LEMMA CommandShrinks ==
  ASSUME ProcessInv, NEW r \in Pids,
         Command(r) \/ Die(r) \/ Write(r) \/ Hush(r) \/ Daemon(r) \/ DaemonDies(r)
  PROVE  Shrinks
<1> SUFFICES ASSUME NEW q \in Pids
             PROVE  proc'[q].keep = proc[q].keep /\ proc'[q].owner = proc[q].owner
  BY DEF Shrinks
<1>1. PICK p \in ProcRec : p = proc[q]
  BY DEF ProcessInv, Typed
<1>2. CASE Command(r)
  <2>1. PICK x : x = p.execw \cap p.keep
    OBVIOUS
  <2>2. proc'[q] \in {p, [p EXCEPT !.state = "running", !.execw = x], [p EXCEPT !.state = "failed"],
                      Zombie(p, "exited")}
    BY <1>1, <1>2, <2>1 DEF Command, execvpe, exit127, ProcessInv, Typed
  <2>3. /\ [p EXCEPT !.state = "running", !.execw = x].keep = p.keep
        /\ [p EXCEPT !.state = "running", !.execw = x].owner = p.owner
        /\ [p EXCEPT !.state = "failed"].keep = p.keep /\ [p EXCEPT !.state = "failed"].owner = p.owner
        /\ Zombie(p, "exited").keep = p.keep /\ Zombie(p, "exited").owner = p.owner
    BY DEF ProcRec, Zombie
  <2> QED BY <1>1, <2>2, <2>3
<1>3. CASE Die(r) \/ Write(r)
  <2>1. PICK st : proc'[q] \in {p, Zombie(p, st)}
    BY <1>1, <1>3 DEF Die, Ends, Write, ProcessInv, Typed
  <2>2. Zombie(p, st).keep = p.keep /\ Zombie(p, st).owner = p.owner
    BY DEF ProcRec, Zombie
  <2> QED BY <1>1, <2>1, <2>2
<1>4. CASE Hush(r) \/ Daemon(r) \/ DaemonDies(r)
  <2>1. proc'[q] \in {p, [p EXCEPT !.outw = {}], [p EXCEPT !.child = TRUE], [p EXCEPT !.child = FALSE]}
    BY <1>1, <1>4 DEF Hush, Daemon, DaemonDies, ProcessInv, Typed
  <2>2. /\ [p EXCEPT !.outw = {}].keep = p.keep /\ [p EXCEPT !.outw = {}].owner = p.owner
        /\ [p EXCEPT !.child = TRUE].keep = p.keep /\ [p EXCEPT !.child = TRUE].owner = p.owner
        /\ [p EXCEPT !.child = FALSE].keep = p.keep /\ [p EXCEPT !.child = FALSE].owner = p.owner
    BY DEF ProcRec
  <2> QED BY <1>1, <2>1, <2>2
<1> QED BY <1>2, <1>3, <1>4

(* A fork hands on the pipes of calls between pipe() and fcntl() only.     *)
(* Those have not forked: nobody waits for them, and the new process       *)
(* closes no circle.                                                       *)
LEMMA ForkKeepsNoCycle ==
  ASSUME ProcessInv, NoCycle, NEW t0 \in Threads, NEW q0 \in Pids, ForkOf(t0, q0)
  PROVE  NoCycle'
<1> DEFINE F == {u \in Threads : pc[u] # "idle" /\ "exec_w" \in call[u].fds /\ ~call[u].cloexec}
<1>0. Typed /\ (\A q \in Pids : PidInv(q)) /\ \A u \in Threads : CallOK(pc[u], call[u])
  BY CallFacts DEF ProcessInv
<1>1. PICK p \in ProcRec : /\ proc' = [proc EXCEPT ![q0] = p] /\ p.owner = t0 /\ p.keep = F
                           /\ pc[t0] = "fork" /\ proc[q0].state = "free"
  BY DEF ForkOf
<1>2. proc'[q0] = p /\ \A q \in Pids : q # q0 => proc'[q] = proc[q]
  BY <1>0, <1>1 DEF Typed
<1>3. ASSUME NEW u \in F PROVE u # t0 /\ \A t : ~Held(t, u)
  <2>1. pc[u] = "fcntl" /\ u \in Threads
    BY <1>0, <1>3 DEF CallOK
  <2>2. \A q \in Pids : proc[q].owner # u
    BY <1>0, <2>1, ProcessAssumption DEF PidInv, ProcessAssumption, Busy, Execed
  <2> QED BY <1>1, <2>1, <2>2 DEF Held
<1>4. ASSUME NEW t, NEW u \in Threads, ~Held(t, u), u # t0 \/ t \notin F PROVE ~Held(t, u)'
  <2> SUFFICES ASSUME NEW q \in Pids, proc'[q].owner = u, t \in proc'[q].keep PROVE FALSE
    BY DEF Held
  <2>1. q # q0
    BY <1>1, <1>2, <1>4
  <2> QED BY <1>2, <1>4, <2>1 DEF Held
<1> SUFFICES ASSUME NEW S \in (SUBSET Threads) \ {{}} PROVE \E t \in S : \A u \in S : ~Held(t, u)'
  BY DEF NoCycle
<1>5. CASE S \subseteq F
  <2>1. PICK t \in S : TRUE
    OBVIOUS
  <2>2. \A u \in S : ~Held(t, u) /\ u # t0
    BY <1>3, <1>5
  <2> QED BY <1>4, <2>1, <2>2
<1>6. CASE ~(S \subseteq F)
  <2>1. S \ F \in (SUBSET Threads) \ {{}}
    BY <1>6
  <2>2. PICK t \in S \ F : \A u \in S \ F : ~Held(t, u)
    BY <2>1 DEF NoCycle
  <2>3. \A u \in S : ~Held(t, u)
    BY <1>3, <2>2
  <2>4. \A u \in S : ~Held(t, u)'
    BY <1>4, <2>2, <2>3
  <2> QED BY <2>2, <2>4
<1> QED BY <1>5, <1>6

(* No step closes a circle. *)
LEMMA NoCycleStep ==
  ASSUME ProcessInv, NoCycle, [Next]_vars
  PROVE  NoCycle'
<1>1. ASSUME Shrinks PROVE NoCycle'
  <2>1. ASSUME NEW t, NEW u, Held(t, u)' PROVE Held(t, u)
    BY <1>1, <2>1 DEF Held, Shrinks
  <2> QED BY <2>1 DEF NoCycle
<1>2. ASSUME NEW t \in Threads, fork(t) PROVE NoCycle'
  <2>1. CASE \E q \in Pids : ForkOf(t, q)
    BY <2>1, ForkKeepsNoCycle
  <2>2. CASE Close(t)
    <3> SUFFICES ASSUME NEW q \in Pids
                 PROVE  proc'[q].keep \subseteq proc[q].keep /\ proc'[q].owner = proc[q].owner
      BY <1>1 DEF Shrinks
    <3>1. PICK p \in ProcRec : p = proc[q]
      BY DEF ProcessInv, Typed
    <3>2. PICK x, y, z : x = p.execw \ {t} /\ y = p.keep \ {t} /\ z = p.outw \ {t}
      OBVIOUS
    <3>3. proc'[q] = [p EXCEPT !.execw = x, !.keep = y, !.outw = z]
      BY <2>2, <3>1, <3>2 DEF Close
    <3>4. /\ [p EXCEPT !.execw = x, !.keep = y, !.outw = z].keep = y
          /\ [p EXCEPT !.execw = x, !.keep = y, !.outw = z].owner = p.owner
      BY DEF ProcRec
    <3>5. proc'[q].keep = y /\ proc'[q].owner = p.owner
      BY <3>3, <3>4
    <3> QED BY <3>1, <3>2, <3>5
  <2> QED BY <1>2, <2>1, <2>2, ForkIs
<1>3. CASE UNCHANGED vars
  BY <1>1, <1>3 DEF vars, Shrinks
<1> QED BY <1>1, <1>2, <1>3, ThreadShrinks, CommandShrinks DEF Next

(* No two calls, and no longer chain of them, wait for one another's       *)
(* command to end in the read of their exec status, although a command may *)
(* inherit another call's exec pipe.                                       *)
THEOREM NoCircleOfWaits == Spec => []NoCircularWait
<1>1. Init => NoCycle
  <2> SUFFICES ASSUME Init PROVE \A t, u : ~Held(t, u)
    BY DEF NoCycle
  <2>1. \A q \in Pids : proc[q].keep = {}
    BY DEF Init, NoProc
  <2> QED BY <2>1 DEF Held
<1>2. ProcessInv /\ NoCycle /\ [Next]_vars => NoCycle'
  BY NoCycleStep
<1>3. ProcessInv /\ NoCycle => NoCircularWait
  <2> SUFFICES ASSUME ProcessInv, NoCycle PROVE NoCircularWait
    OBVIOUS
  <2>1. ASSUME NEW t, NEW u, WaitsFor(t, u) PROVE Held(t, u)
    BY <2>1 DEF WaitsFor, ExecWriters, Held, ProcessInv, PidInv
  <2> QED BY <2>1 DEF NoCycle, NoCircularWait
<1> QED BY <1>1, <1>2, <1>3, ProcessInvariant, PTL DEF Spec
=============================================================================
