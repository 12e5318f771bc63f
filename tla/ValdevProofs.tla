---------------------------- MODULE ValdevProofs ----------------------------
(***************************************************************************)
(* Proofs about the valdev device, for any number of threads and files,    *)
(* any buffer size, any counter width and any arguments.                   *)
(***************************************************************************)
EXTENDS Valdev, TLAPS

-----------------------------------------------------------------------------
(* The inductive invariant.                                                *)

Contents == [0..(BufSize - 1) -> Bytes]

(* Pieces of the buffer that calls carry, and what GET_STATS collects. *)
Extents  == {[i..j -> Bytes] : i \in Int, j \in Int}
Pieces   == {<<>>} \cup UNION Extents
HalfDone == [counter : Int, buf_len : Int]
Collects == {<<>>} \cup HalfDone \cup [counter : Int, buf_len : Int, opens : Int]

CallNames == {"none", "read", "write", "pread", "pwrite", "add", "reset", "stats", "llseek"}

Frames ==
  [call : CallNames, file : Files \cup {Nobody}, pos : Int, count : Nat, data : Pieces,
   delta : Int, stats : Collects, ret : Int]

(* What the local variables of a call satisfy where it stands. *)
LocOK(at, l) ==
  /\ l.call \in {"read", "write"} => l.pos \in 0..BufSize
  /\ at \in {"read_lock", "read_snap", "read_out"} => l.pos \in Nat
  /\ at = "read_out" => l.pos + l.count <= BufSize
  /\ at \in {"write_lock", "write_copy", "write_len"} =>
       /\ l.pos \in Nat /\ l.pos + l.count <= BufSize
       /\ l.data \in [l.pos..(l.pos + l.count - 1) -> Bytes]
  /\ at = "stats_opens" => l.stats \in HalfDone

LocInv ==
  /\ loc \in [Threads -> Frames]
  /\ \A p \in Threads : LocOK(pc[p], loc[p])

(* The places where a thread holds the mutex; at the first of a critical   *)
(* section nothing has been changed yet.                                   *)
Fresh    == {"read_snap", "write_copy", "add", "reset_counter", "stats", "llseek_end"}
Critical == Fresh \cup {"write_len", "add_result", "reset_len", "reset_buf"}

LockInv == \A p \in Threads : pc[p] \in Critical <=> lock = p

VdType ==
  /\ buf \in Contents /\ len \in 0..BufSize /\ counter \in 0..(CounterMod - 1)
  /\ abs \in [buf : Contents, len : 0..BufSize, counter : 0..(CounterMod - 1)]

Published == abs.buf = buf /\ abs.len = len /\ abs.counter = counter

(* How far the thread in a critical section has come from the state it     *)
(* found.                                                                  *)
Progress(p) ==
  /\ pc[p] \in Fresh => Published
  /\ pc[p] = "write_len" =>
       buf = Overlay(abs.buf, loc[p].data) /\ len = abs.len /\ counter = abs.counter
  /\ pc[p] = "add_result" =>
       /\ buf = abs.buf /\ len = abs.len
       /\ counter = (abs.counter + loc[p].delta) % CounterMod
  /\ pc[p] = "reset_len" => counter = 0
  /\ pc[p] = "reset_buf" => counter = 0 /\ len = 0

AbsInv ==
  /\ lock = Nobody => Published
  /\ \A p \in Threads : Progress(p)

(* The published state has no byte but zero past its length. *)
ZeroAbs == \A i \in abs.len..(BufSize - 1) : abs.buf[i] = 0

Control ==
  /\ lock \in Threads \cup {Nobody} /\ opens \in 0..MaxOpens
  /\ f_pos \in [Files -> 0..BufSize \cup {Closed}]
  /\ pc \in [Threads -> Places]

ValdevInv == Control /\ VdType /\ LocInv /\ LockInv /\ AbsInv /\ ZeroAbs

-----------------------------------------------------------------------------
(* The shapes of a step.                                                   *)

(* A thread outside every critical section moves to another such place and *)
(* touches only its own variables and a file position.                     *)
LEMMA OutsideStep ==
  ASSUME ValdevInv, NEW p \in Threads, NEW to \in Places \ Critical, NEW l \in Frames,
         pc[p] \notin Critical, pc' = [pc EXCEPT ![p] = to], Local(p, l), LocOK(to, l),
         UNCHANGED <<lock, vd, abs>>,
         opens' \in 0..MaxOpens, f_pos' \in [Files -> 0..BufSize \cup {Closed}]
  PROVE  ValdevInv'
<1>0. Control /\ VdType /\ LocInv /\ LockInv /\ AbsInv /\ ZeroAbs
  BY DEF ValdevInv
<1>1. pc'[p] = to /\ loc'[p] = l /\ \A q \in Threads : q # p => pc'[q] = pc[q] /\ loc'[q] = loc[q]
  BY <1>0 DEF Control, LocInv, Local
<1>2. lock' = lock /\ buf' = buf /\ len' = len /\ counter' = counter /\ abs' = abs
  BY DEF vd
<1>3. Control' /\ VdType' /\ ZeroAbs'
  BY <1>0, <1>2 DEF Control, VdType, ZeroAbs
<1>4. LocInv'
  BY <1>0, <1>1 DEF LocInv, Local
<1>5. LockInv'
  BY <1>0, <1>1, <1>2 DEF LockInv
<1>6. AbsInv'
  <2>1. Published' = Published
    BY <1>2 DEF Published
  <2>2. ASSUME NEW q \in Threads PROVE Progress(q)'
    <3>1. CASE q = p
      BY <1>1, <3>1 DEF Progress, Critical
    <3>2. CASE q # p
      BY <1>0, <1>1, <1>2, <2>1, <3>2 DEF Progress, AbsInv
    <3> QED BY <3>1, <3>2
  <2> QED BY <1>0, <1>2, <2>1, <2>2 DEF AbsInv
<1> QED BY <1>3, <1>4, <1>5, <1>6 DEF ValdevInv

(* A thread takes the mutex and finds the published state. *)
LEMMA AcquireStep ==
  ASSUME ValdevInv, NEW p \in Threads, NEW from \in Places, NEW to \in Fresh, Acquire(p, from, to),
         to = "read_snap" => from = "read_lock", to = "write_copy" => from = "write_lock"
  PROVE  ValdevInv'
<1>0. Control /\ VdType /\ LocInv /\ LockInv /\ AbsInv /\ ZeroAbs
  BY DEF ValdevInv
<1>1. /\ pc[p] = from /\ pc' = [pc EXCEPT ![p] = to] /\ lock = Nobody /\ lock' = p
      /\ buf' = buf /\ len' = len /\ counter' = counter /\ abs' = abs /\ loc' = loc
      /\ opens' = opens /\ f_pos' = f_pos
  BY DEF Acquire, Goto, mutex_lock, vd
<1>2. to \in Places /\ to \in Critical
  BY DEF Fresh, Critical, Places
<1>3. pc'[p] = to /\ \A q \in Threads : q # p => pc'[q] = pc[q]
  BY <1>0, <1>1 DEF Control
<1>4. \A q \in Threads : pc[q] \notin Critical
  BY <1>0, <1>1, ValdevAssumption DEF LockInv, ValdevAssumption
<1>5. Control' /\ VdType' /\ ZeroAbs'
  BY <1>0, <1>1, <1>2 DEF Control, VdType, ZeroAbs
<1>6. LocInv'
  <2>1. LocOK(to, loc[p])
    BY <1>0, <1>1 DEF LocInv, LocOK, Fresh
  <2> QED BY <1>0, <1>1, <1>3, <2>1 DEF LocInv
<1>7. LockInv'
  BY <1>1, <1>2, <1>3, <1>4 DEF LockInv
<1>8. AbsInv'
  <2>1. Published'
    BY <1>0, <1>1 DEF AbsInv, Published
  <2>2. ASSUME NEW q \in Threads PROVE Progress(q)'
    <3>1. CASE q = p
      BY <1>3, <2>1, <3>1 DEF Progress, Fresh
    <3>2. CASE q # p
      BY <1>3, <1>4, <3>2 DEF Progress, Critical
    <3> QED BY <3>1, <3>2
  <2> QED BY <2>1, <2>2 DEF AbsInv
<1> QED BY <1>5, <1>6, <1>7, <1>8 DEF ValdevInv

(* The thread in the critical section takes a step inside it. *)
LEMMA InsideStep ==
  ASSUME ValdevInv, NEW p \in Threads, NEW to \in Critical,
         pc[p] \in Critical, pc' = [pc EXCEPT ![p] = to], LocOK(to, loc[p]),
         UNCHANGED <<lock, opens, f_pos, loc, abs>>,
         buf' \in Contents, len' \in 0..BufSize, counter' \in 0..(CounterMod - 1),
         Progress(p)'
  PROVE  ValdevInv'
<1>0. Control /\ VdType /\ LocInv /\ LockInv /\ AbsInv /\ ZeroAbs /\ to \in Places
  BY DEF ValdevInv, Critical, Fresh, Places
<1>1. pc'[p] = to /\ lock = p /\ \A q \in Threads : q # p => pc'[q] = pc[q] /\ pc[q] \notin Critical
  BY <1>0 DEF Control, LockInv
<1>2. Control' /\ VdType' /\ ZeroAbs'
  BY <1>0 DEF Control, VdType, ZeroAbs
<1>3. LocInv' /\ LockInv'
  BY <1>0, <1>1 DEF LocInv, LockInv
<1>4. AbsInv'
  <2>1. lock' # Nobody
    BY <1>1, ValdevAssumption DEF ValdevAssumption
  <2>2. \A q \in Threads : Progress(q)'
    BY <1>1 DEF Progress, Critical
  <2> QED BY <2>1, <2>2 DEF AbsInv
<1> QED BY <1>2, <1>3, <1>4 DEF ValdevInv

(* The thread in the critical section leaves it and publishes the state. *)
LEMMA UnlockStep ==
  ASSUME ValdevInv, NEW p \in Threads, NEW to \in Places \ Critical, NEW l \in Frames,
         pc[p] \in Critical, pc' = [pc EXCEPT ![p] = to], Local(p, l), LocOK(to, l),
         mutex_unlock, UNCHANGED <<opens, f_pos>>,
         buf' \in Contents, len' \in 0..BufSize, counter' \in 0..(CounterMod - 1),
         \A i \in len'..(BufSize - 1) : buf'[i] = 0
  PROVE  ValdevInv'
<1>0. Control /\ VdType /\ LocInv /\ LockInv /\ AbsInv /\ ZeroAbs
  BY DEF ValdevInv
<1>1. /\ pc'[p] = to /\ loc'[p] = l /\ lock = p
      /\ \A q \in Threads : q # p => pc'[q] = pc[q] /\ loc'[q] = loc[q] /\ pc[q] \notin Critical
  BY <1>0 DEF Control, LocInv, LockInv, Local
<1>2. /\ lock' = Nobody /\ abs' = [buf |-> buf', len |-> len', counter |-> counter']
      /\ abs'.buf = buf' /\ abs'.len = len' /\ abs'.counter = counter'
  BY DEF mutex_unlock
<1>3. Control'
  BY <1>0, <1>2 DEF Control
<1>4. VdType' /\ ZeroAbs' /\ Published'
  BY <1>2 DEF VdType, ZeroAbs, Published
<1>5. LocInv'
  BY <1>0, <1>1 DEF LocInv, Local
<1>6. \A q \in Threads : pc'[q] \notin Critical
  BY <1>1
<1>7. LockInv'
  BY <1>2, <1>6, ValdevAssumption DEF LockInv, ValdevAssumption
<1>8. \A q \in Threads : Progress(q)'
  BY <1>6 DEF Progress, Critical
<1> QED BY <1>3, <1>4, <1>5, <1>7, <1>8 DEF ValdevInv, AbsInv

(* A new call starts with empty local variables. *)
LEMMA FrameType ==
  ASSUME NEW c \in CallNames, NEW f \in Files
  PROVE  /\ NoCall \in Frames /\ NoCall.call = "none"
         /\ Frame(c, f) \in Frames /\ Frame(c, f).call = c /\ Frame(c, f).pos = 0
<1>1. <<>> \in Pieces /\ <<>> \in Collects
  BY DEF Pieces, Collects
<1>2. NoCall \in Frames /\ NoCall.call = "none" /\ NoCall.pos = 0
  BY <1>1 DEF NoCall, Frames, CallNames
<1>3. Frame(c, f) = [NoCall EXCEPT !.call = c, !.file = f]
  BY DEF Frame
<1> QED BY <1>2, <1>3 DEF Frames

(* A piece of the buffer is a piece. *)
LEMMA PieceType ==
  ASSUME NEW i \in Int, NEW j \in Int, NEW d \in [i..j -> Bytes]
  PROVE  d \in Pieces
<1>1. PICK X : X = [i..j -> Bytes]
  OBVIOUS
<1>2. X \in Extents /\ d \in X
  BY <1>1 DEF Extents
<1> QED BY <1>2 DEF Pieces

-----------------------------------------------------------------------------
(* Calls that enter the driver.                                            *)

(* read and write copy the position the file has at that moment, pread and *)
(* pwrite bring their own.                                                 *)
EnterRead(p, f) ==
  \E call \in {"read", "pread"}, n \in Counts :
    \E pos \in At(call, f) : read_enter(p, call, f, pos, n)

EnterWrite(p, f) ==
  \E call \in {"write", "pwrite"}, n \in Counts, b \in Bytes :
    \E pos \in At(call, f) : write_enter(p, call, f, pos, n, b)

LEMMA PositionType ==
  ASSUME Control, NEW call \in {"read", "pread", "write", "pwrite"}, NEW f \in Files,
         f_pos[f] # Closed, NEW pos \in At(call, f)
  PROVE  pos \in Nat /\ (call \in {"read", "write"} => pos \in 0..BufSize)
<1>1. Positions \subseteq Nat /\ BufSize \in Nat
  BY ValdevAssumption DEF ValdevAssumption
<1>2. f_pos[f] \in 0..BufSize
  BY DEF Control
<1>3. CASE call \in {"read", "write"}
  BY <1>1, <1>2, <1>3 DEF At
<1>4. CASE call \notin {"read", "write"}
  BY <1>1, <1>4 DEF At
<1> QED BY <1>3, <1>4

LEMMA EnterReadWrite ==
  ASSUME ValdevInv, NEW p \in Threads, NEW f \in Files, EnterRead(p, f) \/ EnterWrite(p, f)
  PROVE  ValdevInv'
<1>0. Control /\ LocInv
  BY DEF ValdevInv
<1>1. ASSUME NEW call \in {"read", "pread"}, NEW n \in Counts, NEW pos \in At(call, f),
             read_enter(p, call, f, pos, n)
      PROVE  ValdevInv'
  <2> DEFINE to == IF n = 0 THEN "leave" ELSE "read_lock"
             c == Frame(call, f)
             l == [c EXCEPT !.pos = pos, !.count = n]
  <2>1. /\ f_pos[f] # Closed /\ pc[p] = "user" /\ pc' = [pc EXCEPT ![p] = to] /\ Local(p, l)
        /\ UNCHANGED <<lock, vd, opens, f_pos, abs>>
    BY <1>1 DEF read_enter, Begin, Goto
  <2>2. /\ pos \in Nat /\ (call \in {"read", "write"} => pos \in 0..BufSize)
        /\ n \in Nat /\ BufSize \in Nat
    BY <1>0, <2>1, PositionType, ValdevAssumption DEF ValdevAssumption
  <2>3. c \in Frames /\ c.call = call
    BY FrameType DEF CallNames
  <2> HIDE DEF c
  <2>4. l \in Frames /\ l.pos = pos /\ l.call = call
    <3>1. pos \in Int
      BY <2>2
    <3> QED BY <2>2, <2>3, <3>1 DEF Frames
  <2> HIDE DEF l
  <2>5. to \in Places \ Critical /\ "user" \notin Critical
    BY DEF Places, Critical, Fresh
  <2>6. LocOK(to, l)
    BY <2>2, <2>4 DEF LocOK
  <2> HIDE DEF to
  <2> QED BY <1>0, <2>1, <2>4, <2>5, <2>6, OutsideStep DEF Control
<1>2. ASSUME NEW call \in {"write", "pwrite"}, NEW n \in Counts, NEW b \in Bytes,
             NEW pos \in At(call, f), write_enter(p, call, f, pos, n, b)
      PROVE  ValdevInv'
  <2> DEFINE c == Frame(call, f)
             l == [c EXCEPT !.pos = pos]
             m == min(n, BufSize - pos)
             d == [i \in pos..(pos + m - 1) |-> b]
  <2>1. /\ f_pos[f] # Closed /\ pc[p] = "user"
        /\ UNCHANGED <<lock, vd, opens, f_pos, abs>>
        /\ \/ pc' = [pc EXCEPT ![p] = "leave"] /\ Local(p, l)
           \/ \E e \in {ENOSPC, EFAULT, ENOMEM} :
                pc' = [pc EXCEPT ![p] = "leave"] /\ Local(p, [l EXCEPT !.ret = e])
           \/ /\ n > 0 /\ pos \in 0..(BufSize - 1) /\ pc' = [pc EXCEPT ![p] = "write_lock"]
              /\ Local(p, [l EXCEPT !.count = m, !.data = d])
    BY <1>2 DEF write_enter, Begin, Goto
  <2>2. /\ pos \in Nat /\ (call \in {"read", "write"} => pos \in 0..BufSize)
        /\ n \in Nat /\ BufSize \in Nat
    BY <1>0, <2>1, PositionType, ValdevAssumption DEF ValdevAssumption
  <2>3. c \in Frames /\ c.call = call
    BY FrameType DEF CallNames
  <2> HIDE DEF c
  <2>4. l \in Frames /\ l.pos = pos /\ l.call = call
    BY <2>2, <2>3 DEF Frames
  <2>5. {"leave", "write_lock"} \subseteq Places \ Critical /\ "user" \notin Critical
    BY DEF Places, Critical, Fresh
  <2> HIDE DEF l
  <2>6. CASE pc' = [pc EXCEPT ![p] = "leave"] /\ Local(p, l)
    <3>1. LocOK("leave", l)
      BY <2>2, <2>4 DEF LocOK
    <3> QED BY <1>0, <2>1, <2>4, <2>5, <2>6, <3>1, OutsideStep DEF Control
  <2>7. ASSUME NEW e \in {ENOSPC, EFAULT, ENOMEM}, pc' = [pc EXCEPT ![p] = "leave"],
               Local(p, [l EXCEPT !.ret = e])
        PROVE  ValdevInv'
    <3>1. PICK k : k = [l EXCEPT !.ret = e]
      OBVIOUS
    <3>2. k \in Frames /\ k.pos = pos /\ k.call = call
      BY <2>4, <3>1 DEF Frames, ENOSPC, EFAULT, ENOMEM
    <3>3. LocOK("leave", k)
      BY <2>2, <3>2 DEF LocOK
    <3> QED BY <1>0, <2>1, <2>5, <2>7, <3>1, <3>2, <3>3, OutsideStep DEF Control
  <2>8. CASE /\ n > 0 /\ pos \in 0..(BufSize - 1) /\ pc' = [pc EXCEPT ![p] = "write_lock"]
             /\ Local(p, [l EXCEPT !.count = m, !.data = d])
    <3>1. m \in Nat /\ pos + m <= BufSize
      BY <2>2, <2>8 DEF min
    <3> HIDE DEF m
    <3>2. d \in [pos..(pos + m - 1) -> Bytes] /\ pos + m - 1 \in Int /\ pos \in Int
      BY <1>2, <2>2, <3>1
    <3> HIDE DEF d
    <3>3. d \in Pieces
      BY <3>2, PieceType
    <3>4. PICK k : k = [l EXCEPT !.count = m, !.data = d]
      OBVIOUS
    <3>5. k \in Frames /\ k.pos = pos /\ k.call = call /\ k.count = m /\ k.data = d
      BY <2>4, <3>1, <3>3, <3>4 DEF Frames
    <3>6. LocOK("write_lock", k)
      BY <2>2, <3>1, <3>2, <3>5 DEF LocOK
    <3> QED BY <1>0, <2>1, <2>5, <2>8, <3>4, <3>5, <3>6, OutsideStep DEF Control
  <2> QED BY <2>1, <2>6, <2>7, <2>8
<1> QED BY <1>1, <1>2 DEF EnterRead, EnterWrite

(* open and the other calls. *)
LEMMA EnterOthers ==
  ASSUME ValdevInv, NEW p \in Threads, NEW f \in Files,
         \/ open(p, f)
         \/ \E d \in Deltas : add_enter(p, f, d)
         \/ reset_enter(p, f) \/ stats_enter(p, f)
         \/ \E o \in Offsets, w \in {"SEEK_SET", "SEEK_CUR", "SEEK_END"} : llseek_enter(p, f, o, w)
  PROVE  ValdevInv'
<1>0. Control /\ LocInv /\ BufSize \in Nat /\ MaxOpens \in Nat
  BY ValdevAssumption DEF ValdevInv, ValdevAssumption
<1>1. {"leave", "add_lock", "reset_lock", "stats_lock", "llseek_lock", "setpos", "user"}
        \subseteq Places \ Critical
  BY DEF Places, Critical, Fresh
<1>2. CASE open(p, f)
  <2>1. /\ pc[p] = "user" /\ UNCHANGED <<lock, vd, pc, loc, abs>>
        /\ f_pos' \in [Files -> 0..BufSize \cup {Closed}] /\ opens' \in 0..MaxOpens
    BY <1>0, <1>2 DEF open, Control
  <2>2. /\ pc' = [pc EXCEPT ![p] = "user"] /\ Local(p, loc[p])
        /\ loc[p] \in Frames /\ LocOK("user", loc[p])
    BY <1>0, <2>1 DEF Control, LocInv, Local
  <2> QED BY <1>1, <2>1, <2>2, OutsideStep
<1>3. ASSUME NEW to \in {"leave", "add_lock", "reset_lock", "stats_lock", "llseek_lock", "setpos"},
             NEW l \in Frames, l.call \notin {"read", "write"},
             pc[p] = "user", pc' = [pc EXCEPT ![p] = to], Local(p, l),
             UNCHANGED <<lock, vd, opens, f_pos, abs>>
      PROVE  ValdevInv'
  <2>1. LocOK(to, l)
    BY <1>3 DEF LocOK
  <2> QED BY <1>0, <1>1, <1>3, <2>1, OutsideStep DEF Control
<1>4. \A c \in {"add", "reset", "stats", "llseek"} :
        Frame(c, f) \in Frames /\ Frame(c, f).call = c /\ Frame(c, f).pos = 0
  BY FrameType DEF CallNames
<1>5. ASSUME NEW d \in Deltas, add_enter(p, f, d) PROVE ValdevInv'
  <2>1. PICK l : l = Frame("add", f)
    OBVIOUS
  <2>2. l \in Frames /\ l.call = "add" /\ d \in Int
    BY <1>4, <2>1, ValdevAssumption DEF ValdevAssumption
  <2>3. /\ pc[p] = "user" /\ UNCHANGED <<lock, vd, opens, f_pos, abs>>
        /\ \/ pc' = [pc EXCEPT ![p] = "add_lock"] /\ Local(p, [l EXCEPT !.delta = d])
           \/ pc' = [pc EXCEPT ![p] = "leave"] /\ Local(p, [l EXCEPT !.ret = EFAULT])
    BY <1>5, <2>1 DEF add_enter, Begin, Goto
  <2>4. PICK j, k : j = [l EXCEPT !.delta = d] /\ k = [l EXCEPT !.ret = EFAULT]
    OBVIOUS
  <2>5. j \in Frames /\ j.call = "add" /\ k \in Frames /\ k.call = "add"
    BY <2>2, <2>4 DEF Frames, EFAULT
  <2> QED BY <1>3, <2>3, <2>4, <2>5
<1>6. CASE reset_enter(p, f) \/ stats_enter(p, f)
  BY <1>3, <1>4, <1>6 DEF reset_enter, stats_enter, Begin, Goto
<1>7. ASSUME NEW o \in Offsets, NEW w \in {"SEEK_SET", "SEEK_CUR", "SEEK_END"},
             llseek_enter(p, f, o, w)
      PROVE  ValdevInv'
  <2>1. PICK l : l = [Frame("llseek", f) EXCEPT !.delta = o]
    OBVIOUS
  <2>2. PICK c : c = Frame("llseek", f)
    OBVIOUS
  <2>3. c \in Frames /\ c.call = "llseek" /\ o \in Int
    BY <1>4, <2>2, ValdevAssumption DEF ValdevAssumption
  <2>4. l \in Frames /\ l.call = "llseek"
    BY <2>1, <2>2, <2>3 DEF Frames
  <2>5. /\ pc[p] = "user" /\ UNCHANGED <<lock, vd, opens, f_pos, abs>>
        /\ \/ pc' = [pc EXCEPT ![p] = "setpos"] /\ Local(p, l)
           \/ pc' = [pc EXCEPT ![p] = "setpos"] /\ Local(p, [l EXCEPT !.pos = f_pos[f]])
           \/ pc' = [pc EXCEPT ![p] = "llseek_lock"] /\ Local(p, l)
    BY <1>7, <2>1 DEF llseek_enter, Begin, Goto
  <2>6. PICK k : k = [l EXCEPT !.pos = f_pos[f]]
    OBVIOUS
  <2>7. k \in Frames /\ k.call = "llseek"
    BY <1>0, <2>4, <2>6 DEF Frames, Control, Closed
  <2> QED BY <1>3, <2>4, <2>5, <2>6, <2>7
<1> QED BY <1>2, <1>5, <1>6, <1>7

-----------------------------------------------------------------------------
(* Steps inside and at the end of a critical section.                      *)

(* A thread that reads under the mutex and changes nothing publishes what  *)
(* it found.                                                               *)
LEMMA ReaderLeaves ==
  ASSUME ValdevInv, NEW p \in Threads, NEW to \in Places \ Critical, NEW l \in Frames,
         pc[p] \in Fresh, pc' = [pc EXCEPT ![p] = to], Local(p, l), LocOK(to, l),
         mutex_unlock, UNCHANGED <<vd, opens, f_pos>>
  PROVE  ValdevInv' /\ abs' = abs
<1>0. VdType /\ AbsInv /\ ZeroAbs /\ pc[p] \in Critical
  BY DEF ValdevInv, Critical
<1>1. Published /\ buf' = buf /\ len' = len /\ counter' = counter
  BY <1>0 DEF AbsInv, Progress, vd
<1>2. abs' = abs
  BY <1>0, <1>1 DEF mutex_unlock, Published, VdType
<1>3. \A i \in len..(BufSize - 1) : buf[i] = 0
  BY <1>0, <1>1 DEF Published, ZeroAbs
<1> QED BY <1>0, <1>1, <1>2, <1>3, UnlockStep DEF VdType

(* read: end of file, a snapshot clipped to the length, or no memory. *)
LEMMA ReadSnapStep ==
  ASSUME ValdevInv, NEW p \in Threads, read_snap(p)
  PROVE  /\ ValdevInv' /\ abs' = abs
         /\ pc'[p] = "read_out" =>
              /\ loc[p].pos < abs.len
              /\ loc'[p].data = Slice(abs.buf, loc[p].pos, min(loc[p].count, abs.len - loc[p].pos))
<1> DEFINE l == loc[p]
           n == min(l.count, len - l.pos)
           d == Slice(buf, l.pos, n)
<1>0. Control /\ VdType /\ LocInv /\ AbsInv /\ l \in Frames /\ BufSize \in Nat
  BY ValdevAssumption DEF ValdevInv, LocInv, ValdevAssumption
<1>1. /\ pc[p] = "read_snap" /\ mutex_unlock /\ UNCHANGED <<vd, opens, f_pos>>
      /\ \/ pc' = [pc EXCEPT ![p] = "leave"] /\ loc' = loc
         \/ /\ l.pos \in 0..(len - 1)
            /\ pc' = [pc EXCEPT ![p] = "read_out"]
            /\ Local(p, [l EXCEPT !.count = n, !.data = d])
         \/ pc' = [pc EXCEPT ![p] = "leave"] /\ Local(p, [l EXCEPT !.ret = ENOMEM])
  BY DEF read_snap, Goto
<1>2. {"leave", "read_out"} \subseteq Places \ Critical /\ pc[p] \in Fresh
  BY <1>1 DEF Places, Critical, Fresh
<1>3. Published /\ LocOK("read_snap", l)
  BY <1>0, <1>1, <1>2 DEF AbsInv, Progress, LocInv
<1>4. CASE pc' = [pc EXCEPT ![p] = "leave"] /\ loc' = loc
  <2>1. Local(p, l) /\ LocOK("leave", l) /\ pc'[p] = "leave"
    BY <1>0, <1>3, <1>4 DEF LocInv, Local, LocOK, Control
  <2> QED BY <1>0, <1>1, <1>2, <1>4, <2>1, ReaderLeaves
<1>5. CASE pc' = [pc EXCEPT ![p] = "leave"] /\ Local(p, [l EXCEPT !.ret = ENOMEM])
  <2>1. PICK k : k = [l EXCEPT !.ret = ENOMEM]
    OBVIOUS
  <2>2. k \in Frames /\ k.call = l.call /\ k.pos = l.pos /\ pc'[p] = "leave"
    BY <1>0, <1>5, <2>1 DEF Frames, ENOMEM, Control
  <2>3. LocOK("leave", k)
    BY <1>3, <2>2 DEF LocOK
  <2> QED BY <1>1, <1>2, <1>5, <2>1, <2>2, <2>3, ReaderLeaves
<1>6. CASE /\ l.pos \in 0..(len - 1) /\ pc' = [pc EXCEPT ![p] = "read_out"]
           /\ Local(p, [l EXCEPT !.count = n, !.data = d])
  <2>1. l.pos \in Int /\ l.count \in Nat /\ len \in 0..BufSize /\ l.pos < len
    BY <1>0, <1>6 DEF Frames, VdType
  <2>2. n \in Nat /\ l.pos + n <= BufSize
    BY <1>6, <2>1, <1>0 DEF min
  <2>3. d \in Pieces
    <3>1. l.pos >= 0
      BY <1>3 DEF LocOK
    <3>2. d \in [l.pos..(l.pos + n - 1) -> Bytes]
      <4>1. \A i \in l.pos..(l.pos + n - 1) : i \in 0..(BufSize - 1)
        BY <1>0, <2>1, <2>2, <3>1
      <4> HIDE DEF n
      <4> QED BY <1>0, <4>1 DEF Slice, VdType, Contents
    <3>3. l.pos + n - 1 \in Int
      BY <2>1, <2>2
    <3> HIDE DEF d, n
    <3> QED BY <2>1, <3>2, <3>3, PieceType
  <2> HIDE DEF d, n
  <2>4. PICK k : k = [l EXCEPT !.count = n, !.data = d]
    OBVIOUS
  <2>5. k \in Frames /\ k.call = l.call /\ k.pos = l.pos /\ k.count = n /\ k.data = d
    BY <1>0, <2>2, <2>3, <2>4 DEF Frames
  <2>6. LocOK("read_out", k)
    BY <1>3, <2>2, <2>5 DEF LocOK
  <2>7. loc'[p] = k
    BY <1>0, <1>6, <2>4 DEF Local, LocInv
  <2>8. l.pos < abs.len /\ loc'[p].data = Slice(abs.buf, l.pos, min(l.count, abs.len - l.pos))
    BY <1>3, <2>1, <2>5, <2>7 DEF Published, d, n
  <2> QED BY <1>1, <1>2, <1>6, <2>4, <2>5, <2>6, <2>8, ReaderLeaves
<1> QED BY <1>1, <1>4, <1>5, <1>6

(* What one whole system call does to the published state. *)
WholeWrite(p) ==
  /\ pc[p] = "write_len"
  /\ LET end == loc[p].pos + loc[p].count IN
       abs' = [abs EXCEPT !.buf = Overlay(@, loc[p].data), !.len = IF end > @ THEN end ELSE @]
WholeAdd(p) ==
  /\ pc[p] = "add_result"
  /\ abs' = [abs EXCEPT !.counter = (@ + loc[p].delta) % CounterMod]
  /\ loc'[p].delta = abs'.counter
WholeReset(p) ==
  /\ pc[p] = "reset_buf"
  /\ abs' = [buf |-> [i \in DOMAIN buf |-> 0], len |-> 0, counter |-> 0]

(* The bounce buffer goes into the device buffer ... *)
LEMMA WriteCopyStep ==
  ASSUME ValdevInv, NEW p \in Threads, write_copy(p)
  PROVE  ValdevInv' /\ abs' = abs
<1>0. Control /\ VdType /\ LocInv /\ AbsInv
  BY DEF ValdevInv
<1>1. /\ pc[p] = "write_copy" /\ pc' = [pc EXCEPT ![p] = "write_len"]
      /\ buf' = Overlay(buf, loc[p].data)
      /\ UNCHANGED <<lock, len, counter, opens, f_pos, loc, abs>>
  BY DEF write_copy, Goto
<1>2. "write_copy" \in Critical /\ "write_len" \in Critical /\ pc'[p] = "write_len"
  BY <1>0, <1>1 DEF Critical, Fresh, Control
<1>3. LocOK("write_copy", loc[p]) /\ Published
  BY <1>0, <1>1 DEF LocInv, AbsInv, Progress, Fresh
<1>4. LocOK("write_len", loc[p])
  BY <1>3 DEF LocOK
<1>5. buf' \in Contents
  <2>1. PICK x, y, d : d = loc[p].data /\ d \in [x..y -> Bytes]
    BY <1>3 DEF LocOK
  <2> QED BY <1>0, <1>1, <2>1 DEF Overlay, Contents, VdType
<1>6. Progress(p)'
  BY <1>1, <1>2, <1>3 DEF Progress, Fresh, Published
<1> QED BY <1>0, <1>1, <1>2, <1>4, <1>5, <1>6, InsideStep DEF VdType

(* ... and the length follows. *)
LEMMA WriteLenStep ==
  ASSUME ValdevInv, NEW p \in Threads, write_len(p)
  PROVE  ValdevInv' /\ WholeWrite(p)
<1> DEFINE l == loc[p]
           end == l.pos + l.count
<1>0. Control /\ VdType /\ LocInv /\ AbsInv /\ ZeroAbs /\ l \in Frames /\ BufSize \in Nat
  BY ValdevAssumption DEF ValdevInv, LocInv, ValdevAssumption
<1>1. /\ pc[p] = "write_len" /\ pc' = [pc EXCEPT ![p] = "leave"]
      /\ Local(p, [l EXCEPT !.pos = end, !.data = <<>>, !.ret = l.count])
      /\ len' = IF end > len THEN end ELSE len
      /\ UNCHANGED <<buf, counter, opens, f_pos>> /\ mutex_unlock
  BY DEF write_len, Goto
<1>2. "write_len" \in Critical /\ "leave" \in Places \ Critical
  BY DEF Critical, Fresh, Places
<1>3. /\ l.pos \in Nat /\ l.count \in Nat /\ end <= BufSize
      /\ l.data \in [l.pos..(end - 1) -> Bytes]
  BY <1>0, <1>1 DEF LocInv, LocOK, Frames
<1>4. buf = Overlay(abs.buf, l.data) /\ len = abs.len /\ counter = abs.counter
  BY <1>0, <1>1 DEF AbsInv, Progress
<1>5. PICK k : k = [l EXCEPT !.pos = end, !.data = <<>>, !.ret = l.count]
  OBVIOUS
<1>6. k \in Frames /\ k.pos = end
  <2>1. end \in Int /\ l.count \in Int /\ <<>> \in Pieces
    BY <1>3 DEF Pieces
  <2> HIDE DEF end
  <2> QED BY <1>0, <1>5, <2>1 DEF Frames
<1>7. LocOK("leave", k)
  BY <1>0, <1>3, <1>6 DEF LocOK
<1>8. len' \in 0..BufSize /\ end \in 0..BufSize /\ len \in 0..BufSize
  BY <1>0, <1>1, <1>3 DEF VdType
<1>9. \A i \in len'..(BufSize - 1) : buf'[i] = 0
  <2> SUFFICES ASSUME NEW i \in len'..(BufSize - 1) PROVE buf[i] = 0
    BY <1>1
  <2>1. i \in abs.len..(BufSize - 1) /\ i \notin l.pos..(end - 1) /\ i \in 0..(BufSize - 1)
    BY <1>0, <1>1, <1>3, <1>4, <1>8
  <2>2. DOMAIN abs.buf = 0..(BufSize - 1) /\ DOMAIN l.data = l.pos..(end - 1)
    BY <1>0, <1>3 DEF VdType, Contents
  <2>3. buf[i] = abs.buf[i]
    BY <1>4, <2>1, <2>2 DEF Overlay
  <2> QED BY <1>0, <2>1, <2>3 DEF ZeroAbs
<1>10. ValdevInv'
  BY <1>0, <1>1, <1>2, <1>5, <1>6, <1>7, <1>8, <1>9, UnlockStep DEF VdType
<1>11. WholeWrite(p)
  <2>1. abs' = [buf |-> buf, len |-> len', counter |-> counter]
    BY <1>1 DEF mutex_unlock
  <2>2. abs' = [abs EXCEPT !.buf = Overlay(abs.buf, l.data),
                           !.len = IF end > abs.len THEN end ELSE abs.len]
    <3>1. PICK x, n : /\ x = Overlay(abs.buf, l.data)
                      /\ n = IF end > abs.len THEN end ELSE abs.len
      OBVIOUS
    <3>2. abs' = [buf |-> x, len |-> n, counter |-> abs.counter]
      BY <1>1, <1>4, <2>1, <3>1
    <3>3. abs' = [abs EXCEPT !.buf = x, !.len = n]
      <4>1. PICK r \in [buf : Contents, len : 0..BufSize, counter : 0..(CounterMod - 1)] : r = abs
        BY <1>0 DEF VdType
      <4>2. PICK q, e : q = abs' /\ e = [r EXCEPT !.buf = x, !.len = n]
        OBVIOUS
      <4>3. q = [buf |-> x, len |-> n, counter |-> r.counter]
        BY <3>2, <4>1, <4>2
      <4>4. q = e
        <5> DEFINE D == {"buf", "len", "counter"}
        <5>1. DOMAIN q = D /\ q.buf = x /\ q.len = n /\ q.counter = r.counter
          BY <4>3
        <5>2. DOMAIN e = D /\ e.buf = x /\ e.len = n /\ e.counter = r.counter
          BY <4>2
        <5>3. q = [i \in D |-> q[i]] /\ e = [i \in D |-> e[i]]
          BY <4>2, <4>3
        <5> QED BY <5>1, <5>2, <5>3
      <4> QED BY <4>1, <4>2, <4>4
    <3> QED BY <3>1, <3>3
  <2> QED BY <1>1, <2>2 DEF WholeWrite
<1> QED BY <1>10, <1>11

(* ADD_COUNTER adds ... *)
LEMMA AddStep ==
  ASSUME ValdevInv, NEW p \in Threads, add(p)
  PROVE  ValdevInv' /\ abs' = abs
<1>0. Control /\ VdType /\ LocInv /\ AbsInv /\ loc[p] \in Frames /\ CounterMod \in Nat \ {0}
  BY ValdevAssumption DEF ValdevInv, LocInv, ValdevAssumption
<1>1. /\ pc[p] = "add" /\ pc' = [pc EXCEPT ![p] = "add_result"]
      /\ counter' = (counter + loc[p].delta) % CounterMod
      /\ UNCHANGED <<lock, buf, len, opens, f_pos, loc, abs>>
  BY DEF add, Goto
<1>2. "add" \in Critical /\ "add_result" \in Critical /\ pc'[p] = "add_result"
  BY <1>0, <1>1 DEF Critical, Fresh, Control
<1>3. LocOK("add_result", loc[p]) /\ Published
  BY <1>0, <1>1 DEF LocInv, LocOK, AbsInv, Progress, Fresh
<1>4. counter' \in 0..(CounterMod - 1)
  <2>1. counter + loc[p].delta \in Int
    BY <1>0 DEF VdType, Frames
  <2> QED BY <1>0, <1>1, <2>1
<1>5. Progress(p)'
  BY <1>1, <1>2, <1>3 DEF Progress, Fresh, Published
<1> QED BY <1>0, <1>1, <1>2, <1>3, <1>4, <1>5, InsideStep DEF VdType

(* ... and reads the sum back before it releases the mutex. *)
LEMMA AddResultStep ==
  ASSUME ValdevInv, NEW p \in Threads, add_result(p)
  PROVE  ValdevInv' /\ WholeAdd(p)
<1>0. Control /\ VdType /\ LocInv /\ AbsInv /\ ZeroAbs /\ loc[p] \in Frames
      /\ CounterMod \in Nat \ {0}
  BY ValdevAssumption DEF ValdevInv, LocInv, ValdevAssumption
<1>1. PICK r \in {0, EFAULT} :
      /\ pc[p] = "add_result" /\ pc' = [pc EXCEPT ![p] = "leave"]
      /\ Local(p, [loc[p] EXCEPT !.delta = counter, !.ret = r])
      /\ UNCHANGED <<vd, opens, f_pos>> /\ mutex_unlock
  BY DEF add_result, Goto
<1>2. "add_result" \in Critical /\ "leave" \in Places \ Critical
  BY DEF Critical, Fresh, Places
<1>3. buf = abs.buf /\ len = abs.len /\ counter = (abs.counter + loc[p].delta) % CounterMod
  BY <1>0, <1>1 DEF AbsInv, Progress
<1>4. PICK k : k = [loc[p] EXCEPT !.delta = counter, !.ret = r]
  OBVIOUS
<1>5. k \in Frames /\ k.call = loc[p].call /\ k.pos = loc[p].pos /\ k.delta = counter
  <2>1. counter \in Int /\ r \in Int
    BY <1>0 DEF VdType, EFAULT
  <2> QED BY <1>0, <1>4, <2>1 DEF Frames
<1>6. LocOK("leave", k)
  BY <1>0, <1>5 DEF LocInv, LocOK
<1>7. buf' = buf /\ len' = len /\ counter' = counter
  BY <1>1 DEF vd
<1>8. ValdevInv'
  BY <1>0, <1>1, <1>2, <1>3, <1>4, <1>5, <1>6, <1>7, UnlockStep DEF VdType, ZeroAbs
<1>9. abs' = [abs EXCEPT !.counter = (abs.counter + loc[p].delta) % CounterMod]
  BY <1>0, <1>1, <1>3, <1>7 DEF mutex_unlock, VdType
<1>10. loc'[p].delta = abs'.counter
  BY <1>0, <1>1, <1>4, <1>5, <1>7 DEF Local, LocInv, mutex_unlock
<1> QED BY <1>1, <1>8, <1>9, <1>10 DEF WholeAdd

(* RESET clears the counter, the length and every byte. *)
LEMMA ResetStep ==
  ASSUME ValdevInv, NEW p \in Threads, reset_counter(p) \/ reset_len(p)
  PROVE  ValdevInv' /\ abs' = abs
<1>0. Control /\ VdType /\ LocInv /\ AbsInv
      /\ BufSize \in Nat /\ CounterMod \in Nat \ {0}
  BY ValdevAssumption DEF ValdevInv, ValdevAssumption
<1>1. PICK from, to :
      /\ \/ from = "reset_counter" /\ to = "reset_len" /\ counter' = 0 /\ len' = len
         \/ from = "reset_len" /\ to = "reset_buf" /\ len' = 0 /\ counter' = counter
      /\ pc[p] = from /\ pc' = [pc EXCEPT ![p] = to]
      /\ UNCHANGED <<lock, buf, opens, f_pos, loc, abs>>
  BY DEF reset_counter, reset_len, Goto
<1>2. from \in Critical /\ to \in Critical /\ pc'[p] = to
  BY <1>0, <1>1 DEF Critical, Fresh, Control
<1>3. LocOK(to, loc[p]) /\ (from = "reset_len" => counter = 0)
  BY <1>0, <1>1 DEF LocInv, LocOK, AbsInv, Progress
<1>4. len' \in 0..BufSize /\ counter' \in 0..(CounterMod - 1)
  BY <1>0, <1>1 DEF VdType
<1>5. Progress(p)'
  BY <1>1, <1>2, <1>3 DEF Progress, Fresh
<1> QED BY <1>0, <1>1, <1>2, <1>3, <1>4, <1>5, InsideStep DEF VdType

(* The last store of RESET, and the release of the mutex. *)
LEMMA ResetBufStep ==
  ASSUME ValdevInv, NEW p \in Threads, reset_buf(p)
  PROVE  ValdevInv' /\ WholeReset(p)
<1>0. Control /\ VdType /\ LocInv /\ AbsInv /\ loc[p] \in Frames
      /\ BufSize \in Nat /\ CounterMod \in Nat \ {0} /\ 0 \in Bytes
  BY ValdevAssumption DEF ValdevInv, LocInv, ValdevAssumption
<1>1. /\ pc[p] = "reset_buf" /\ pc' = [pc EXCEPT ![p] = "leave"]
      /\ buf' = [i \in DOMAIN buf |-> 0]
      /\ UNCHANGED <<len, counter, opens, f_pos, loc>> /\ mutex_unlock
  BY DEF reset_buf, Goto
<1>2. "reset_buf" \in Critical /\ "leave" \in Places \ Critical
  BY DEF Critical, Fresh, Places
<1>3. counter = 0 /\ len = 0 /\ DOMAIN buf = 0..(BufSize - 1)
  BY <1>0, <1>1 DEF AbsInv, Progress, VdType, Contents
<1>4. Local(p, loc[p]) /\ LocOK("leave", loc[p])
  BY <1>0, <1>1 DEF LocInv, LocOK, Local
<1>5. buf' \in Contents /\ \A i \in len'..(BufSize - 1) : buf'[i] = 0
  BY <1>0, <1>1, <1>3 DEF Contents
<1>6. ValdevInv'
  BY <1>0, <1>1, <1>2, <1>4, <1>5, UnlockStep DEF VdType
<1>7. abs' = [buf |-> [i \in DOMAIN buf |-> 0], len |-> 0, counter |-> 0]
  BY <1>1, <1>3 DEF mutex_unlock
<1> QED BY <1>1, <1>6, <1>7 DEF WholeReset

(* GET_STATS takes the counter and the length under the mutex; SEEK_END    *)
(* takes the length.                                                       *)
LEMMA StatsStep ==
  ASSUME ValdevInv, NEW p \in Threads, stats(p) \/ llseek_end(p)
  PROVE  /\ ValdevInv' /\ abs' = abs
         /\ pc'[p] = "stats_opens" => loc'[p].stats = [counter |-> abs.counter, buf_len |-> abs.len]
         /\ pc'[p] # "read_out"
<1>0. Control /\ VdType /\ LocInv /\ AbsInv /\ loc[p] \in Frames
      /\ BufSize \in Nat /\ CounterMod \in Nat
  BY ValdevAssumption DEF ValdevInv, LocInv, ValdevAssumption
<1>1. {"stats", "llseek_end"} \subseteq Fresh /\ {"stats_opens", "setpos"} \subseteq Places \ Critical
  BY DEF Critical, Fresh, Places
<1>2. CASE stats(p)
  <2>1. PICK k, x : x = [counter |-> counter, buf_len |-> len] /\ k = [loc[p] EXCEPT !.stats = x]
    OBVIOUS
  <2>2. /\ pc[p] = "stats" /\ pc' = [pc EXCEPT ![p] = "stats_opens"] /\ Local(p, k)
        /\ UNCHANGED <<vd, opens, f_pos>> /\ mutex_unlock
    BY <1>2, <2>1 DEF stats, Goto
  <2>3. x \in HalfDone
    BY <1>0, <2>1 DEF HalfDone, VdType
  <2>4. k \in Frames /\ k.call = loc[p].call /\ k.pos = loc[p].pos /\ k.stats = x
    <3>1. x \in Collects
      BY <2>3 DEF Collects
    <3> QED BY <1>0, <2>1, <3>1 DEF Frames
  <2>5. LocOK("stats_opens", k)
    BY <1>0, <2>3, <2>4 DEF LocInv, LocOK
  <2>6. Published /\ loc'[p] = k /\ pc'[p] = "stats_opens"
    BY <1>0, <1>1, <2>2 DEF AbsInv, Progress, Local, LocInv, Control
  <2>7. loc'[p].stats = [counter |-> abs.counter, buf_len |-> abs.len]
    BY <2>1, <2>4, <2>6 DEF Published
  <2> QED BY <1>1, <2>2, <2>4, <2>5, <2>6, <2>7, ReaderLeaves
<1>3. CASE llseek_end(p)
  <2>1. PICK k : k = [loc[p] EXCEPT !.pos = len]
    OBVIOUS
  <2>2. /\ pc[p] = "llseek_end" /\ pc' = [pc EXCEPT ![p] = "setpos"] /\ Local(p, k)
        /\ UNCHANGED <<vd, opens, f_pos>> /\ mutex_unlock
    BY <1>3, <2>1 DEF llseek_end, Goto
  <2>3. len \in 0..BufSize /\ len \in Int
    BY <1>0 DEF VdType
  <2>4. k \in Frames /\ k.pos = len
    BY <1>0, <2>1, <2>3 DEF Frames
  <2>5. LocOK("setpos", k) /\ pc'[p] = "setpos"
    BY <1>0, <2>2, <2>3, <2>4 DEF LocOK, Control
  <2> QED BY <1>1, <2>2, <2>4, <2>5, ReaderLeaves
<1> QED BY <1>2, <1>3

-----------------------------------------------------------------------------
(* The way out of the kernel.                                              *)

(* Copying to the user, the count of opens, and the stores of a position.  *)
LEMMA LeaveStep ==
  ASSUME ValdevInv, NEW p \in Threads,
         read_out(p) \/ stats_opens(p) \/ vfs_setpos(p) \/ vfs_return(p)
  PROVE  ValdevInv' /\ abs' = abs /\ pc'[p] \notin {"read_out", "stats_opens"}
<1>0. Control /\ LocInv /\ loc[p] \in Frames /\ BufSize \in Nat /\ MaxOpens \in Nat
  BY ValdevAssumption DEF ValdevInv, LocInv, ValdevAssumption
<1>1. /\ {"leave", "user"} \subseteq Places \ Critical
      /\ {"read_out", "stats_opens", "setpos", "leave"} \cap Critical = {}
  BY DEF Critical, Fresh, Places
<1>2. ASSUME NEW to \in {"leave", "user"}, NEW l \in Frames, pc[p] \notin Critical,
             pc' = [pc EXCEPT ![p] = to], Local(p, l),
             l.call \in {"read", "write"} => l.pos \in 0..BufSize,
             UNCHANGED <<lock, vd, opens, abs>>,
             f_pos' \in [Files -> 0..BufSize \cup {Closed}]
      PROVE  ValdevInv' /\ abs' = abs /\ pc'[p] \notin {"read_out", "stats_opens"}
  <2>1. LocOK(to, l) /\ pc'[p] = to
    BY <1>0, <1>2 DEF LocOK, Control
  <2> QED BY <1>0, <1>1, <1>2, <2>1, OutsideStep DEF Control
<1>3. CASE read_out(p)
  <2>1. PICK j, k :
          /\ j = [loc[p] EXCEPT !.pos = loc[p].pos + loc[p].count, !.data = <<>>,
                                !.ret = loc[p].count]
          /\ k = [loc[p] EXCEPT !.data = <<>>, !.ret = EFAULT]
    OBVIOUS
  <2>2. /\ pc[p] = "read_out" /\ pc' = [pc EXCEPT ![p] = "leave"]
        /\ Local(p, j) \/ Local(p, k)
        /\ UNCHANGED <<lock, vd, opens, f_pos, abs>>
    BY <1>3, <2>1 DEF read_out, Goto
  <2>3. /\ loc[p].pos \in 0..BufSize /\ loc[p].count \in Nat
        /\ loc[p].pos + loc[p].count \in 0..BufSize /\ <<>> \in Pieces
    BY <1>0, <2>2 DEF LocInv, LocOK, Frames, Pieces
  <2>4. j \in Frames /\ j.pos = loc[p].pos + loc[p].count
    <3>1. PICK x \in Int, y \in Int : x = loc[p].pos + loc[p].count /\ y = loc[p].count
      BY <2>3
    <3> QED BY <1>0, <2>1, <2>3, <3>1 DEF Frames
  <2>5. k \in Frames /\ k.pos = loc[p].pos
    <3>1. EFAULT \in Int /\ <<>> \in Pieces
      BY <2>3 DEF EFAULT
    <3> QED BY <1>0, <2>1, <3>1 DEF Frames
  <2> QED BY <1>0, <1>1, <1>2, <2>2, <2>3, <2>4, <2>5 DEF Control
<1>4. CASE stats_opens(p)
  <2> DEFINE x == [counter |-> loc[p].stats.counter, buf_len |-> loc[p].stats.buf_len,
                   opens |-> opens]
  <2>1. PICK r \in {0, EFAULT} :
          /\ pc[p] = "stats_opens" /\ pc' = [pc EXCEPT ![p] = "leave"]
          /\ Local(p, [loc[p] EXCEPT !.ret = r, !.stats = x])
          /\ UNCHANGED <<lock, vd, opens, f_pos, abs>>
    BY <1>4 DEF stats_opens, Goto
  <2>2. x \in Collects
    BY <1>0, <2>1 DEF LocInv, LocOK, HalfDone, Collects, Control
  <2>3. r \in Int
    BY <2>1 DEF EFAULT
  <2> HIDE DEF x
  <2> DEFINE k == [loc[p] EXCEPT !.ret = r, !.stats = x]
  <2>4. k \in Frames /\ k.call = loc[p].call /\ k.pos = loc[p].pos
    BY <1>0, <2>1, <2>2, <2>3 DEF Frames
  <2>5. Local(p, k)
    BY <2>1
  <2> HIDE DEF k
  <2>6. loc[p].call \in {"read", "write"} => loc[p].pos \in 0..BufSize
    BY <1>0 DEF LocInv, LocOK
  <2> QED BY <1>0, <1>1, <1>2, <2>1, <2>4, <2>5, <2>6 DEF Control
<1>5. NoCall \in Frames /\ NoCall.call \notin {"read", "write"}
  <2>1. <<>> \in Pieces /\ <<>> \in Collects
    BY DEF Pieces, Collects
  <2> QED BY <2>1 DEF NoCall, Frames, CallNames
<1>6. CASE vfs_setpos(p)
  <2>1. /\ pc[p] = "setpos" /\ pc' = [pc EXCEPT ![p] = "user"] /\ Local(p, NoCall)
        /\ UNCHANGED <<lock, vd, opens, abs>>
    BY <1>6 DEF vfs_setpos, Goto
  <2>2. f_pos' \in [Files -> 0..BufSize \cup {Closed}]
    <3>1. PICK new, f : f_pos' = IF new \in 0..BufSize THEN [f_pos EXCEPT ![f] = new] ELSE f_pos
      BY <1>6 DEF vfs_setpos
    <3> QED BY <1>0, <3>1 DEF Control
  <2> QED BY <1>1, <1>2, <1>5, <2>1, <2>2
<1>7. CASE vfs_return(p)
  <2>1. /\ pc[p] = "leave" /\ pc' = [pc EXCEPT ![p] = "user"] /\ Local(p, NoCall)
        /\ UNCHANGED <<lock, vd, opens, abs>>
    BY <1>7 DEF vfs_return, Goto
  <2>2. f_pos' \in [Files -> 0..BufSize \cup {Closed}]
    <3>1. \/ f_pos' = f_pos
          \/ /\ loc[p].call \in {"read", "write"}
             /\ f_pos' = [f_pos EXCEPT ![loc[p].file] = loc[p].pos]
      BY <1>7 DEF vfs_return
    <3>2. loc[p].call \in {"read", "write"} => loc[p].pos \in 0..BufSize
      BY <1>0 DEF LocInv, LocOK
    <3> QED BY <1>0, <3>1, <3>2 DEF Control
  <2> QED BY <1>1, <1>2, <1>5, <2>1, <2>2
<1> QED BY <1>3, <1>4, <1>6, <1>7

(* Taking the mutex, in each of the six calls that do. *)
LEMMA LockingStep ==
  ASSUME ValdevInv, NEW p \in Threads, Locking(p)
  PROVE  ValdevInv' /\ abs' = abs /\ pc'[p] \in Fresh
<1>1. PICK from \in Places, to \in Fresh :
        /\ Acquire(p, from, to)
        /\ to = "read_snap" => from = "read_lock"
        /\ to = "write_copy" => from = "write_lock"
  <2>1. {"read_lock", "write_lock", "add_lock", "reset_lock", "stats_lock", "llseek_lock"}
          \subseteq Places
    BY DEF Places
  <2>2. {"read_snap", "write_copy", "add", "reset_counter", "stats", "llseek_end"} = Fresh
    BY DEF Fresh
  <2> QED BY <2>1, <2>2 DEF Locking, read_lock, write_lock, add_lock, reset_lock, stats_lock, llseek_lock
<1>2. ValdevInv'
  BY <1>1, AcquireStep
<1>3. abs' = abs /\ pc'[p] = to
  BY <1>1 DEF Acquire, Goto, ValdevInv, Control
<1> QED BY <1>2, <1>3

(* Entering the driver. *)
LEMMA EnteringStep ==
  ASSUME ValdevInv, NEW p \in Threads, NEW f \in Files, Entering(p, f)
  PROVE  ValdevInv' /\ abs' = abs /\ pc'[p] \notin {"read_out", "stats_opens"}
<1>1. ValdevInv'
  BY EnterReadWrite, EnterOthers DEF Entering, EnterRead, EnterWrite
<1>2. pc \in [Threads -> Places]
  BY DEF ValdevInv, Control
<1>3. /\ abs' = abs
      /\ \/ pc' = pc /\ pc[p] = "user"
         \/ \E to \in {"leave", "read_lock", "write_lock", "add_lock", "reset_lock", "stats_lock",
                       "llseek_lock", "setpos"} : pc' = [pc EXCEPT ![p] = to]
  <2>1. CASE EnterRead(p, f) \/ EnterWrite(p, f)
    BY <2>1 DEF EnterRead, EnterWrite, read_enter, write_enter, Begin, Goto
  <2>2. CASE \/ open(p, f)
             \/ \E d \in Deltas : add_enter(p, f, d)
             \/ reset_enter(p, f) \/ stats_enter(p, f)
    BY <2>2 DEF open, add_enter, reset_enter, stats_enter, Begin, Goto
  <2>3. CASE \E o \in Offsets, w \in {"SEEK_SET", "SEEK_CUR", "SEEK_END"} : llseek_enter(p, f, o, w)
    BY <2>3 DEF llseek_enter, Begin, Goto
  <2> QED BY <2>1, <2>2, <2>3 DEF Entering, EnterRead, EnterWrite
<1> QED BY <1>1, <1>2, <1>3

(* The last reference to a file is dropped. *)
LEMMA ReleaseStep ==
  ASSUME ValdevInv, NEW f \in Files, release(f)
  PROVE  ValdevInv' /\ UNCHANGED <<abs, pc>>
<1>1. f_pos' \in [Files -> 0..BufSize \cup {Closed}] /\ UNCHANGED <<lock, buf, len, counter, opens, pc, loc, abs>>
  BY DEF release, ValdevInv, Control, vd
<1>2. Control' /\ VdType' /\ LocInv' /\ LockInv' /\ ZeroAbs'
  BY <1>1 DEF ValdevInv, Control, VdType, LocInv, LockInv, ZeroAbs
<1>3. AbsInv'
  BY <1>1 DEF ValdevInv, AbsInv, Progress, Published
<1> QED BY <1>1, <1>2, <1>3 DEF ValdevInv

-----------------------------------------------------------------------------
(* The theorems.                                                           *)

(* The device starts empty and unlocked. *)
LEMMA ValdevInit == Init => ValdevInv
<1> SUFFICES ASSUME Init PROVE ValdevInv
  OBVIOUS
<1>0. BufSize \in Nat \ {0} /\ CounterMod \in Nat \ {0} /\ MaxOpens \in Nat /\ 0 \in Bytes
      /\ Nobody \notin Threads
  BY ValdevAssumption DEF ValdevAssumption
<1>1. /\ lock = Nobody /\ buf = [i \in 0..(BufSize - 1) |-> 0] /\ len = 0 /\ counter = 0
      /\ opens = 0 /\ f_pos = [f \in Files |-> Closed] /\ pc = [p \in Threads |-> "user"]
      /\ loc = [p \in Threads |-> NoCall]
      /\ abs = [buf |-> buf, len |-> len, counter |-> counter]
  BY DEF Init
<1>2. Control
  BY <1>0, <1>1 DEF Control, Places
<1>3. VdType /\ Published /\ ZeroAbs
  <2>1. buf \in Contents /\ \A i \in 0..(BufSize - 1) : buf[i] = 0
    BY <1>0, <1>1 DEF Contents
  <2> QED BY <1>0, <1>1, <2>1 DEF VdType, Published, ZeroAbs
<1>4. LocInv
  <2>1. <<>> \in Pieces /\ <<>> \in Collects
    BY DEF Pieces, Collects
  <2>2. NoCall \in Frames /\ NoCall.call = "none"
    BY <2>1 DEF NoCall, Frames, CallNames
  <2> QED BY <1>1, <2>2 DEF LocInv, LocOK
<1>5. \A p \in Threads : pc[p] \notin Critical
  BY <1>1 DEF Critical, Fresh
<1>6. LockInv /\ AbsInv
  BY <1>0, <1>1, <1>3, <1>5 DEF LockInv, AbsInv, Progress, Critical
<1> QED BY <1>2, <1>3, <1>4, <1>6 DEF ValdevInv

Whole == \E p \in Threads : WholeWrite(p) \/ WholeAdd(p) \/ WholeReset(p)

Honest(p) ==
  /\ pc[p] # "read_out" /\ pc'[p] = "read_out" =>
       LET l == loc[p] IN
       /\ l.pos < abs.len
       /\ loc'[p].data = Slice(abs.buf, l.pos, min(l.count, abs.len - l.pos))
  /\ pc[p] # "stats_opens" /\ pc'[p] = "stats_opens" =>
       loc'[p].stats = [counter |-> abs.counter, buf_len |-> abs.len]

(* A thread never moves another one. *)
LEMMA OthersStay ==
  ASSUME ValdevInv, NEW p \in Threads, Locking(p) \/ Running(p) \/ \E f \in Files : Entering(p, f)
  PROVE  \A q \in Threads : q # p => pc'[q] = pc[q]
<1>0. pc \in [Threads -> Places]
  BY DEF ValdevInv, Control
<1>1. CASE Locking(p)
  BY <1>0, <1>1 DEF Locking, read_lock, write_lock, add_lock, reset_lock, stats_lock, llseek_lock,
                    Acquire, Goto
<1>2. CASE Running(p)
  BY <1>0, <1>2 DEF Running, Goto, read_snap, read_out, write_copy, write_len, add, add_result,
       reset_counter, reset_len, reset_buf, stats, stats_opens, llseek_end, vfs_setpos, vfs_return
<1>3. ASSUME NEW f \in Files, Entering(p, f) PROVE \A q \in Threads : q # p => pc'[q] = pc[q]
  BY <1>0, <1>3 DEF Entering, open, read_enter, write_enter, add_enter, reset_enter, stats_enter,
                    llseek_enter, Begin, Goto
<1> QED BY <1>1, <1>2, <1>3

(* Every step keeps the invariant, publishes one whole call or nothing,    *)
(* and a reader that has its snapshot has what is published.               *)
LEMMA ValdevStep ==
  ValdevInv /\ [Next]_vars =>
    ValdevInv' /\ (Whole \/ abs' = abs) /\ (\A p \in Threads : Honest(p))
<1> SUFFICES ASSUME ValdevInv, [Next]_vars
             PROVE  ValdevInv' /\ (Whole \/ abs' = abs) /\ (\A p \in Threads : Honest(p))
  OBVIOUS
<1>0. pc \in [Threads -> Places]
  BY DEF ValdevInv, Control
<1>1. ASSUME NEW p \in Threads, Locking(p) \/ Running(p) \/ \E f \in Files : Entering(p, f)
      PROVE  ValdevInv' /\ (Whole \/ abs' = abs) /\ (\A q \in Threads : Honest(q))
  <2>1. \A q \in Threads : q # p => pc'[q] = pc[q]
    BY <1>1, OthersStay
  <2>2. ASSUME Honest(p) PROVE \A q \in Threads : Honest(q)
    BY <2>1, <2>2 DEF Honest
  <2>3. CASE Locking(p)
    <3>1. ValdevInv' /\ abs' = abs /\ pc'[p] \in Fresh
      BY <2>3, LockingStep
    <3> QED BY <2>2, <3>1 DEF Honest, Fresh
  <2>4. ASSUME NEW f \in Files, Entering(p, f)
        PROVE  ValdevInv' /\ (Whole \/ abs' = abs) /\ (\A q \in Threads : Honest(q))
    <3>1. ValdevInv' /\ abs' = abs /\ pc'[p] \notin {"read_out", "stats_opens"}
      BY <2>4, EnteringStep
    <3> QED BY <2>2, <3>1 DEF Honest
  <2>5. CASE read_snap(p)
    <3>1. /\ ValdevInv' /\ abs' = abs
          /\ pc'[p] = "read_out" =>
               /\ loc[p].pos < abs.len
               /\ loc'[p].data = Slice(abs.buf, loc[p].pos, min(loc[p].count, abs.len - loc[p].pos))
      BY <2>5, ReadSnapStep
    <3>2. pc'[p] # "stats_opens"
      BY <1>0, <2>5 DEF read_snap, Goto
    <3>3. Honest(p)
      BY <3>1, <3>2 DEF Honest
    <3> QED BY <2>2, <3>1, <3>3
  <2>6. CASE stats(p) \/ llseek_end(p)
    <3>1. Honest(p) /\ ValdevInv' /\ abs' = abs
      BY <2>6, StatsStep DEF Honest
    <3> QED BY <2>2, <3>1
  <2>7. CASE read_out(p) \/ stats_opens(p) \/ vfs_setpos(p) \/ vfs_return(p)
    <3>1. ValdevInv' /\ abs' = abs /\ pc'[p] \notin {"read_out", "stats_opens"}
      BY <2>7, LeaveStep
    <3> QED BY <2>2, <3>1 DEF Honest
  <2>8. CASE write_copy(p) \/ add(p) \/ reset_counter(p) \/ reset_len(p)
    <3>1. ValdevInv' /\ abs' = abs
      BY <2>8, WriteCopyStep, AddStep, ResetStep
    <3>2. pc'[p] \notin {"read_out", "stats_opens"}
      BY <1>0, <2>8 DEF write_copy, add, reset_counter, reset_len, Goto
    <3> QED BY <2>2, <3>1, <3>2 DEF Honest
  <2>9. CASE write_len(p) \/ add_result(p) \/ reset_buf(p)
    <3>1. ValdevInv' /\ Whole
      BY <2>9, WriteLenStep, AddResultStep, ResetBufStep DEF Whole
    <3>2. pc'[p] \notin {"read_out", "stats_opens"}
      BY <1>0, <2>9 DEF write_len, add_result, reset_buf, Goto
    <3> QED BY <2>2, <3>1, <3>2 DEF Honest
  <2> QED BY <1>1, <2>3, <2>4, <2>5, <2>6, <2>7, <2>8, <2>9 DEF Running
<1>2. ASSUME NEW f \in Files, release(f)
      PROVE  ValdevInv' /\ abs' = abs /\ (\A p \in Threads : Honest(p))
  BY <1>2, ReleaseStep DEF Honest
<1>3. CASE UNCHANGED vars
  <2>1. UNCHANGED <<lock, buf, len, counter, opens, f_pos, pc, loc, abs>>
    BY <1>3 DEF vars
  <2>2. Control' /\ VdType' /\ LocInv' /\ LockInv' /\ ZeroAbs' /\ AbsInv'
    BY <2>1 DEF ValdevInv, Control, VdType, LocInv, LockInv, ZeroAbs, AbsInv, Progress, Published
  <2> QED BY <2>1, <2>2 DEF ValdevInv, Honest
<1> QED BY <1>1, <1>2, <1>3 DEF Next

(* The invariant holds in every reachable state of the device. *)
THEOREM ValdevInvariant == Spec => []ValdevInv
BY ValdevInit, ValdevStep, PTL DEF Spec

(* Type correctness: whatever calls race on one file, its position stays   *)
(* inside the buffer or at its end.                                        *)
THEOREM ValdevTypes == Spec => []TypeOK
<1>1. ValdevInv => TypeOK
  BY DEF ValdevInv, TypeOK, Control, VdType, Contents, LocInv, LocOK
<1> QED BY <1>1, ValdevInvariant, PTL

(* No byte other than zero is left at or past vd.len when the mutex is     *)
(* free: neither by a write past the end nor by RESET.                     *)
THEOREM NothingBeyondLen == Spec => []ZeroBeyondLen
<1>1. ValdevInv => ZeroBeyondLen
  BY DEF ValdevInv, AbsInv, Published, ZeroAbs, ZeroBeyondLen
<1> QED BY <1>1, ValdevInvariant, PTL

(* Every change of the device other threads can see is one whole call: no  *)
(* update is lost, and ADD_COUNTER reports what its own addition made.     *)
THEOREM EffectsAreAtomic == Spec => AtomicEffect
<1> DEFINE A == \E p \in Threads :
       \/ /\ pc[p] = "write_len"
          /\ LET end == loc[p].pos + loc[p].count IN
               abs' = [abs EXCEPT !.buf = Overlay(@, loc[p].data),
                                  !.len = IF end > @ THEN end ELSE @]
       \/ /\ pc[p] = "add_result"
          /\ abs' = [abs EXCEPT !.counter = (@ + loc[p].delta) % CounterMod]
          /\ loc'[p].delta = abs'.counter
       \/ /\ pc[p] = "reset_buf"
          /\ abs' = [buf |-> [i \in DOMAIN buf |-> 0], len |-> 0, counter |-> 0]
<1>1. ValdevInv /\ [Next]_vars => [A]_abs
  <2>1. Whole => A
    BY DEF Whole, WholeWrite, WholeAdd, WholeReset
  <2> QED BY <2>1, ValdevStep
<1>2. AtomicEffect <=> [][A]_abs
  BY PTL DEF AtomicEffect
<1> QED BY <1>1, <1>2, ValdevInvariant, PTL DEF Spec

(* A read returns the content of the device at one instant, clipped to its *)
(* length then, although the copy to the user follows after the unlock.    *)
THEOREM SnapshotsAreAtomic == Spec => ReadsAtomic
<1>1. ValdevInv /\ [Next]_vars => [\A p \in Threads : Honest(p)]_vars
  BY ValdevStep
<1>2. ReadsAtomic <=> [][\A p \in Threads : Honest(p)]_vars
  BY PTL DEF ReadsAtomic, Honest
<1> QED BY <1>1, <1>2, ValdevInvariant, PTL DEF Spec
=============================================================================
