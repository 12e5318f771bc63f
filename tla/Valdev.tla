------------------------------- MODULE Valdev -------------------------------
(***************************************************************************)
(* The valdev character device (kmod/valdev.c) under concurrent system     *)
(* calls: a byte buffer with a length and a counter behind one mutex, an   *)
(* atomic count of opens, and file positions that the VFS copies in before *)
(* a read or a write and stores back after it.                             *)
(*                                                                         *)
(* A step is one access of shared memory, or a run of accesses nobody else *)
(* can see in between.  User memory is the environment: every copy to or   *)
(* from it, and every allocation, may fail.                                *)
(***************************************************************************)
EXTENDS Integers

CONSTANTS
  Threads,
  Files,       \* open file descriptions; threads may share one
  BufSize,     \* VALDEV_BUF_SIZE
  Bytes,       \* the byte values writers use, 0 included
  CounterMod,  \* the counter is arithmetic modulo 2^64
  Deltas,      \* arguments of ADD_COUNTER
  Counts,      \* sizes asked of read and write
  Offsets,     \* arguments of llseek
  Positions,   \* explicit positions given to pread and pwrite
  MaxOpens,    \* bound on the number of open() calls
  Calls        \* the system calls the threads make

Nobody == "nobody"

ASSUME ValdevAssumption ==
  /\ Nobody \notin Threads
  /\ BufSize \in Nat \ {0} /\ CounterMod \in Nat \ {0} /\ MaxOpens \in Nat
  /\ Bytes \subseteq Nat /\ 0 \in Bytes
  /\ Deltas \subseteq Nat /\ Counts \subseteq Nat /\ Offsets \subseteq Int
  /\ Positions \subseteq Nat  \* the VFS refuses negative ones

Closed == -1
EFAULT == -14
ENOMEM == -12
ENOSPC == -28

min(a, b) == IF a < b THEN a ELSE b

VARIABLES
  lock,     \* vd.lock: the thread that holds it, or Nobody
  buf,      \* vd.buf
  len,      \* vd.len
  counter,  \* vd.counter
  opens,    \* vd.opens
  f_pos,    \* filp->f_pos per file, or Closed
  pc,       \* where each thread is; "user" is outside the kernel
  loc,      \* the local variables of the call a thread is in
  abs       \* history: the protected state when the mutex was last free

vd   == <<buf, len, counter>>
vars == <<lock, buf, len, counter, opens, f_pos, pc, loc, abs>>

(* A piece of the buffer, as a function from absolute offsets. *)
Slice(b, pos, n) == [i \in pos..(pos + n - 1) |-> b[i]]

Overlay(b, data) == [i \in DOMAIN b |-> IF i \in DOMAIN data THEN data[i] ELSE b[i]]

NoCall ==
  [call |-> "none", file |-> Nobody, pos |-> 0, count |-> 0, data |-> <<>>, delta |-> 0,
   stats |-> <<>>, ret |-> 0]

Init ==
  /\ lock = Nobody
  /\ buf = [i \in 0..(BufSize - 1) |-> 0]
  /\ len = 0 /\ counter = 0 /\ opens = 0
  /\ f_pos = [f \in Files |-> Closed]
  /\ pc = [p \in Threads |-> "user"]
  /\ loc = [p \in Threads |-> NoCall]
  /\ abs = [buf |-> buf, len |-> len, counter |-> counter]

-----------------------------------------------------------------------------
(* Steps of a call.                                                        *)

Goto(p, from, to) == pc[p] = from /\ pc' = [pc EXCEPT ![p] = to]

Begin(p, call, f, to) == call \in Calls /\ f_pos[f] # Closed /\ Goto(p, "user", to)

Frame(call, f) == [NoCall EXCEPT !.call = call, !.file = f]

Local(p, l) == loc' = [loc EXCEPT ![p] = l]

mutex_lock(p) == lock = Nobody /\ lock' = p

(* Unlocking publishes the state the critical section leaves behind. *)
mutex_unlock ==
  /\ lock' = Nobody
  /\ abs' = [buf |-> buf', len |-> len', counter |-> counter']

Acquire(p, from, to) ==
  /\ Goto(p, from, to) /\ mutex_lock(p)
  /\ UNCHANGED <<vd, opens, f_pos, loc, abs>>

-----------------------------------------------------------------------------
open(p, f) ==
  /\ "open" \in Calls /\ pc[p] = "user"
  /\ f_pos[f] = Closed /\ opens < MaxOpens
  /\ opens' = opens + 1
  /\ f_pos' = [f_pos EXCEPT ![f] = 0]
  /\ UNCHANGED <<lock, vd, pc, loc, abs>>

(* The last reference is dropped; no call on the file is under way. *)
release(f) ==
  /\ "open" \in Calls /\ f_pos[f] # Closed
  /\ \A p \in Threads : loc[p].file # f
  /\ f_pos' = [f_pos EXCEPT ![f] = Closed]
  /\ UNCHANGED <<lock, vd, opens, pc, loc, abs>>

-----------------------------------------------------------------------------
(* The VFS copies f_pos before it calls the driver's read or write ...;    *)
(* pread and pwrite come with a position of their own, which may lie       *)
(* anywhere.                                                               *)
At(call, f) == IF call \in {"read", "write"} THEN {f_pos[f]} ELSE Positions

read_enter(p, call, f, pos, n) ==
  /\ Begin(p, call, f, IF n = 0 THEN "leave" ELSE "read_lock")
  /\ Local(p, [Frame(call, f) EXCEPT !.pos = pos, !.count = n])
  /\ UNCHANGED <<lock, vd, opens, f_pos, abs>>

read_lock(p) == Acquire(p, "read_lock", "read_snap")

(* Mutants: the mutex is kept on the end-of-file path; the length is not   *)
(* consulted.                                                              *)
read_snap_keeping_lock(p) ==
  /\ pc[p] = "read_snap"
  /\ UNCHANGED <<vd, opens, f_pos>>
  /\ IF loc[p].pos >= len
     THEN pc' = [pc EXCEPT ![p] = "leave"] /\ UNCHANGED <<lock, loc, abs>>
     ELSE /\ pc' = [pc EXCEPT ![p] = "read_out"]
          /\ LET n == min(loc[p].count, len - loc[p].pos) IN
               Local(p, [loc[p] EXCEPT !.count = n, !.data = Slice(buf, loc[p].pos, n)])
          /\ mutex_unlock
read_snap_past_len(p) ==
  /\ pc[p] = "read_snap"
  /\ IF loc[p].pos > BufSize - 1
     THEN pc' = [pc EXCEPT ![p] = "leave"] /\ UNCHANGED loc
     ELSE /\ pc' = [pc EXCEPT ![p] = "read_out"]
          /\ LET n == min(loc[p].count, BufSize - loc[p].pos) IN
               Local(p, [loc[p] EXCEPT !.count = n, !.data = Slice(buf, loc[p].pos, n)])
  /\ UNCHANGED <<vd, opens, f_pos>>
  /\ mutex_unlock

(* Under the mutex: end of file, or a snapshot of what is there.  The copy *)
(* to the user happens after the mutex is released.                        *)
read_snap(p) ==
  /\ pc[p] = "read_snap"
  /\ \/ /\ loc[p].pos \notin 0..(len - 1)
        /\ Goto(p, "read_snap", "leave") /\ UNCHANGED loc
     \/ /\ loc[p].pos \in 0..(len - 1)
        /\ LET n == min(loc[p].count, len - loc[p].pos) IN
             \/ /\ Goto(p, "read_snap", "read_out")
                /\ Local(p, [loc[p] EXCEPT !.count = n, !.data = Slice(buf, loc[p].pos, n)])
             \/ /\ Goto(p, "read_snap", "leave")
                /\ Local(p, [loc[p] EXCEPT !.ret = ENOMEM])
  /\ UNCHANGED <<vd, opens, f_pos>>
  /\ mutex_unlock

(* The snapshot is freed when it has been copied out. *)
read_out(p) ==
  /\ Goto(p, "read_out", "leave")
  /\ \/ Local(p, [loc[p] EXCEPT !.pos = @ + loc[p].count, !.data = <<>>, !.ret = loc[p].count])
     \/ Local(p, [loc[p] EXCEPT !.data = <<>>, !.ret = EFAULT])
  /\ UNCHANGED <<lock, vd, opens, f_pos, abs>>

-----------------------------------------------------------------------------
(* Before the mutex is taken: the bounds, and the copy from the user into  *)
(* a bounce buffer.                                                        *)
write_enter(p, call, f, pos, n, b) ==
  LET new == [Frame(call, f) EXCEPT !.pos = pos]
      m   == min(n, BufSize - pos)
  IN
  /\ \/ n = 0 /\ Begin(p, call, f, "leave") /\ Local(p, new)
     \/ /\ n > 0 /\ pos \notin 0..(BufSize - 1)
        /\ Begin(p, call, f, "leave") /\ Local(p, [new EXCEPT !.ret = ENOSPC])
     \/ /\ n > 0 /\ pos \in 0..(BufSize - 1)
        /\ \/ /\ Begin(p, call, f, "write_lock")
              /\ Local(p, [new EXCEPT !.count = m, !.data = [i \in pos..(pos + m - 1) |-> b]])
           \/ /\ Begin(p, call, f, "leave")
              /\ \E e \in {EFAULT, ENOMEM} : Local(p, [new EXCEPT !.ret = e])
  /\ UNCHANGED <<lock, vd, opens, f_pos, abs>>

write_lock(p) == Acquire(p, "write_lock", "write_copy")

write_copy(p) ==
  /\ Goto(p, "write_copy", "write_len")
  /\ buf' = Overlay(buf, loc[p].data)
  /\ UNCHANGED <<lock, len, counter, opens, f_pos, loc, abs>>

write_len(p) ==
  LET end == loc[p].pos + loc[p].count IN
  /\ Goto(p, "write_len", "leave")
  /\ Local(p, [loc[p] EXCEPT !.pos = end, !.data = <<>>, !.ret = loc[p].count])
  /\ len' = IF end > len THEN end ELSE len
  /\ UNCHANGED <<buf, counter, opens, f_pos>>
  /\ mutex_unlock

-----------------------------------------------------------------------------
(* ioctl ADD_COUNTER: the addition stands even if the result cannot be     *)
(* copied back.                                                            *)
add_enter(p, f, d) ==
  /\ \/ Begin(p, "add", f, "add_lock") /\ Local(p, [Frame("add", f) EXCEPT !.delta = d])
     \/ Begin(p, "add", f, "leave") /\ Local(p, [Frame("add", f) EXCEPT !.ret = EFAULT])
  /\ UNCHANGED <<lock, vd, opens, f_pos, abs>>

add_lock(p) == Acquire(p, "add_lock", "add")

(* Mutant: the mutex is released between the addition and the read-back.   *)
add_unlocked(p) ==
  /\ Goto(p, "add", "add_result")
  /\ counter' = (counter + loc[p].delta) % CounterMod
  /\ UNCHANGED <<buf, len, opens, f_pos, loc>>
  /\ mutex_unlock

add(p) ==
  /\ Goto(p, "add", "add_result")
  /\ counter' = (counter + loc[p].delta) % CounterMod
  /\ UNCHANGED <<lock, buf, len, opens, f_pos, loc, abs>>

add_result(p) ==
  /\ Goto(p, "add_result", "leave")
  /\ \E r \in {0, EFAULT} : Local(p, [loc[p] EXCEPT !.delta = counter, !.ret = r])
  /\ UNCHANGED <<vd, opens, f_pos>>
  /\ mutex_unlock

-----------------------------------------------------------------------------
(* ioctl RESET *)
reset_enter(p, f) ==
  /\ Begin(p, "reset", f, "reset_lock")
  /\ Local(p, Frame("reset", f))
  /\ UNCHANGED <<lock, vd, opens, f_pos, abs>>

reset_lock(p) == Acquire(p, "reset_lock", "reset_counter")

reset_counter(p) ==
  /\ Goto(p, "reset_counter", "reset_len")
  /\ counter' = 0
  /\ UNCHANGED <<lock, buf, len, opens, f_pos, loc, abs>>

reset_len(p) ==
  /\ Goto(p, "reset_len", "reset_buf")
  /\ len' = 0
  /\ UNCHANGED <<lock, buf, counter, opens, f_pos, loc, abs>>

(* Mutant: only the length is reset, old bytes stay behind. *)
reset_buf_not(p) ==
  /\ Goto(p, "reset_buf", "leave")
  /\ UNCHANGED <<buf, len, counter, opens, f_pos, loc>>
  /\ mutex_unlock

reset_buf(p) ==
  /\ Goto(p, "reset_buf", "leave")
  /\ buf' = [i \in DOMAIN buf |-> 0]
  /\ UNCHANGED <<len, counter, opens, f_pos, loc>>
  /\ mutex_unlock

-----------------------------------------------------------------------------
(* ioctl GET_STATS: opens is read after the mutex is released.             *)
stats_enter(p, f) ==
  /\ Begin(p, "stats", f, "stats_lock")
  /\ Local(p, Frame("stats", f))
  /\ UNCHANGED <<lock, vd, opens, f_pos, abs>>

stats_lock(p) == Acquire(p, "stats_lock", "stats")

stats(p) ==
  /\ Goto(p, "stats", "stats_opens")
  /\ Local(p, [loc[p] EXCEPT !.stats = [counter |-> counter, buf_len |-> len]])
  /\ UNCHANGED <<vd, opens, f_pos>>
  /\ mutex_unlock

stats_opens(p) ==
  /\ Goto(p, "stats_opens", "leave")
  /\ \E r \in {0, EFAULT} :
       Local(p, [loc[p] EXCEPT !.ret = r,
                   !.stats = [counter |-> loc[p].stats.counter,
                              buf_len |-> loc[p].stats.buf_len, opens |-> opens]])
  /\ UNCHANGED <<lock, vd, opens, f_pos, abs>>

-----------------------------------------------------------------------------
(* llseek: the base is 0, f_pos, or the length under the mutex.            *)
llseek_enter(p, f, off, whence) ==
  LET call == [Frame("llseek", f) EXCEPT !.delta = off] IN
  /\ \/ whence = "SEEK_SET" /\ Begin(p, "llseek", f, "setpos") /\ Local(p, call)
     \/ /\ whence = "SEEK_CUR" /\ Begin(p, "llseek", f, "setpos")
        /\ Local(p, [call EXCEPT !.pos = f_pos[f]])
     \/ whence = "SEEK_END" /\ Begin(p, "llseek", f, "llseek_lock") /\ Local(p, call)
  /\ UNCHANGED <<lock, vd, opens, f_pos, abs>>

llseek_lock(p) == Acquire(p, "llseek_lock", "llseek_end")

llseek_end(p) ==
  /\ Goto(p, "llseek_end", "setpos")
  /\ Local(p, [loc[p] EXCEPT !.pos = len])
  /\ UNCHANGED <<vd, opens, f_pos>>
  /\ mutex_unlock

(* Mutant: no upper limit on the position. *)
vfs_setpos_unlimited(p) ==
  LET new == loc[p].pos + loc[p].delta IN
  /\ Goto(p, "setpos", "user")
  /\ f_pos' = IF new >= 0 THEN [f_pos EXCEPT ![loc[p].file] = new] ELSE f_pos
  /\ Local(p, NoCall)
  /\ UNCHANGED <<lock, vd, opens, abs>>

(* vfs_setpos refuses a position outside 0..VALDEV_BUF_SIZE. *)
vfs_setpos(p) ==
  LET new == loc[p].pos + loc[p].delta IN
  /\ Goto(p, "setpos", "user")
  /\ f_pos' = IF new \in 0..BufSize THEN [f_pos EXCEPT ![loc[p].file] = new] ELSE f_pos
  /\ Local(p, NoCall)
  /\ UNCHANGED <<lock, vd, opens, abs>>

(* ... and stores the position back if the call did not fail.  Nothing     *)
(* serialises two calls on one file.  For pread, pwrite and an ioctl the   *)
(* position of the file is not touched.                                    *)
vfs_return(p) ==
  /\ Goto(p, "leave", "user")
  /\ f_pos' = IF loc[p].ret >= 0 /\ loc[p].call \in {"read", "write"}
              THEN [f_pos EXCEPT ![loc[p].file] = loc[p].pos] ELSE f_pos
  /\ Local(p, NoCall)
  /\ UNCHANGED <<lock, vd, opens, abs>>

-----------------------------------------------------------------------------
Locking(p) ==
  \/ read_lock(p) \/ write_lock(p) \/ add_lock(p)
  \/ reset_lock(p) \/ stats_lock(p) \/ llseek_lock(p)

(* The rest of the way of a thread through the kernel. *)
Running(p) ==
  \/ read_snap(p) \/ read_out(p)
  \/ write_copy(p) \/ write_len(p)
  \/ add(p) \/ add_result(p)
  \/ reset_counter(p) \/ reset_len(p) \/ reset_buf(p)
  \/ stats(p) \/ stats_opens(p)
  \/ llseek_end(p) \/ vfs_setpos(p)
  \/ vfs_return(p)

Entering(p, f) ==
  \/ open(p, f)
  \/ \E call \in {"read", "pread"}, n \in Counts :
       \E pos \in At(call, f) : read_enter(p, call, f, pos, n)
  \/ \E call \in {"write", "pwrite"}, n \in Counts, b \in Bytes :
       \E pos \in At(call, f) : write_enter(p, call, f, pos, n, b)
  \/ \E d \in Deltas : add_enter(p, f, d)
  \/ reset_enter(p, f) \/ stats_enter(p, f)
  \/ \E o \in Offsets, w \in {"SEEK_SET", "SEEK_CUR", "SEEK_END"} : llseek_enter(p, f, o, w)

Next ==
  \/ \E p \in Threads : Locking(p) \/ Running(p) \/ \E f \in Files : Entering(p, f)
  \/ \E f \in Files : release(f)

Spec == Init /\ [][Next]_vars

(* The kernel runs every thread, and hands a mutex to a waiter that has    *)
(* been passed over.  Nobody has to make another call.                     *)
FairSpec ==
  Spec /\ \A p \in Threads : WF_vars(Running(p)) /\ SF_vars(Locking(p))

-----------------------------------------------------------------------------
(* Properties.                                                             *)

Places ==
  {"user", "leave", "read_lock", "read_snap", "read_out", "write_lock", "write_copy",
   "write_len", "add_lock", "add", "add_result", "reset_lock", "reset_counter",
   "reset_len", "reset_buf", "stats_lock", "stats", "stats_opens", "llseek_lock",
   "llseek_end", "setpos"}

(* The protected fields have their types; every file position, however     *)
(* calls on one file race, stays within the buffer or at its end.          *)
TypeOK ==
  /\ lock \in Threads \cup {Nobody}
  /\ buf \in [0..(BufSize - 1) -> Bytes]
  /\ len \in 0..BufSize /\ counter \in 0..(CounterMod - 1) /\ opens \in 0..MaxOpens
  /\ f_pos \in [Files -> 0..BufSize \cup {Closed}]
  /\ pc \in [Threads -> Places]
  /\ \A p \in Threads : loc[p].call \in {"read", "write"} => loc[p].pos \in 0..BufSize

(* Bytes at or past vd.len are zero whenever the mutex is free, so a write *)
(* beyond the end leaves a hole of zeroes and RESET leaves nothing behind. *)
ZeroBeyondLen ==
  lock = Nobody => \A i \in len..(BufSize - 1) : buf[i] = 0

(* Every change other threads can see is one whole write, one whole        *)
(* addition, whose result is what that addition made of the counter, or    *)
(* one whole reset: concurrent calls are serialised, nothing is lost.      *)
AtomicEffect ==
  [][\E p \in Threads :
       \/ /\ pc[p] = "write_len"
          /\ LET end == loc[p].pos + loc[p].count IN
               abs' = [abs EXCEPT !.buf = Overlay(@, loc[p].data),
                                  !.len = IF end > @ THEN end ELSE @]
       \/ /\ pc[p] = "add_result"
          /\ abs' = [abs EXCEPT !.counter = (@ + loc[p].delta) % CounterMod]
          /\ loc'[p].delta = abs'.counter
       \/ /\ pc[p] = "reset_buf"
          /\ abs' = [buf |-> [i \in DOMAIN buf |-> 0], len |-> 0, counter |-> 0]]_abs

(* What a reader copies out is the content of the device at one instant,   *)
(* clipped to its length, and the counter and the length that GET_STATS    *)
(* reports belong together.                                                *)
ReadsAtomic ==
  [][\A p \in Threads :
       /\ pc[p] # "read_out" /\ pc'[p] = "read_out" =>
            LET l == loc[p] IN
            /\ l.pos < abs.len
            /\ loc'[p].data = Slice(abs.buf, l.pos, min(l.count, abs.len - l.pos))
       /\ pc[p] # "stats_opens" /\ pc'[p] = "stats_opens" =>
            loc'[p].stats = [counter |-> abs.counter, buf_len |-> abs.len]]_vars

(* Every system call returns: no path leaves the mutex locked.             *)
CallsReturn == \A p \in Threads : pc[p] # "user" ~> pc[p] = "user"
=============================================================================
