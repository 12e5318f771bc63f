------------------------------- MODULE Kernels -------------------------------
(***************************************************************************)
(* The CUDA kernels and their launchers (cudatest/src/kernels.cu).  The    *)
(* threads of a grid run in any order; those of one block share memory and *)
(* meet at barriers.  A kernel is cut at its barriers into segments, and a *)
(* thread runs a segment in one step: RaceFree says that this is sound.    *)
(*                                                                         *)
(* Data are abstracted to where they come from.  The value of an element   *)
(* of a float input is its index, a sum a[i] + b[i] is i, and the value of *)
(* a dot product is the sequence of the index pairs multiplied, in order.  *)
(* Blocks and threads are pairs <<x, y>>.                                  *)
(***************************************************************************)
EXTENDS Integers, Sequences, FiniteSets, FiniteSetsExt

CONSTANTS
  Launches,             \* the launches tried: kernel, sizes, block, null pointers, input
  kMaxThreadsPerBlock,
  kMinReduceBlock,      \* 32
  kMaxGrid,             \* 65535
  MaxGridY,             \* 65535, the limit of CUDA on gridDim.y
  kBins,                \* 256
  kTile, kTransTile, kTransRows,
  Garbage               \* what memory may hold before it is written

Gemm == {"gemm_naive", "gemm_tiled"}
Zeroing == {"reduce_sum", "histogram256"}

(* What the declarations of the launchers admit: the sizes are integers of *)
(* any sign, and an input that is there has an element for every index.    *)
IsLaunch(a) ==
  /\ a.kernel \in Gemm \cup Zeroing \cup {"vector_add", "transpose"}
  /\ a.kernel \in Gemm => {a.M, a.N, a.K} \subseteq Int
  /\ a.kernel = "transpose" => {a.rows, a.cols} \subseteq Int
  /\ a.kernel \in Zeroing \cup {"vector_add"} => {a.n, a.block} \subseteq Int
  /\ a.kernel \in Zeroing /\ "in" \notin a.null =>
       a.in \in [0..(a.n - 1) -> IF a.kernel = "histogram256" THEN 0..(kBins - 1) ELSE Nat]

ASSUME KernelsAssumption ==
  /\ {kMaxThreadsPerBlock, kMinReduceBlock, kMaxGrid, MaxGridY, kBins} \subseteq Nat \ {0}
  /\ {kTile, kTransTile, kTransRows} \subseteq Nat \ {0}
  /\ kTransTile % kTransRows = 0
  /\ Garbage \subseteq Int
  /\ \A a \in Launches : IsLaunch(a)

VARIABLES
  args,    \* the launch
  status,  \* "none", "running", or the cudaError_t
  phase,   \* per thread, the next segment
  shared,  \* per block, its shared memory
  acc,     \* per thread, the accumulator of the tiled product
  out      \* the output array

vars == <<args, status, phase, shared, acc, out>>

ceil(n, d) == (n + d - 1) \div d
is_pow2(v) == \E l \in 0..v : v = 2^l
blocks_for(n, block) == Max({1, Min({ceil(n, block), kMaxGrid})})

-----------------------------------------------------------------------------
(* The launchers.                                                          *)

Invalid(a) ==
  CASE a.kernel = "vector_add"   -> a.n < 0 \/ (a.n > 0 /\ a.null # {})
    [] a.kernel = "reduce_sum"   -> \/ a.n < 0 \/ "out" \in a.null \/ (a.n > 0 /\ "in" \in a.null)
                                    \/ ~is_pow2(a.block)
                                    \/ a.block \notin kMinReduceBlock..kMaxThreadsPerBlock
    [] a.kernel = "histogram256" -> \/ a.n < 0 \/ "out" \in a.null \/ (a.n > 0 /\ "in" \in a.null)
                                    \/ a.block \notin 1..kMaxThreadsPerBlock
    [] a.kernel \in Gemm         -> a.null # {} \/ a.M < 0 \/ a.N < 0 \/ a.K < 0
    [] a.kernel = "transpose"    -> \/ a.rows < 0 \/ a.cols < 0
                                    \/ (a.rows > 0 /\ a.cols > 0 /\ a.null # {})

Empty(a) ==
  CASE a.kernel \in Gemm      -> a.M = 0 \/ a.N = 0
    [] a.kernel = "transpose" -> a.rows = 0 \/ a.cols = 0
    [] OTHER                  -> a.n = 0

(* gridDim and blockDim. *)
grid(a) ==
  CASE a.kernel \in Gemm      -> <<ceil(a.N, kTile), ceil(a.M, kTile)>>
    [] a.kernel = "transpose" -> <<ceil(a.cols, kTransTile), ceil(a.rows, kTransTile)>>
    [] OTHER                  -> <<IF a.block > 0 THEN blocks_for(a.n, a.block) ELSE 1, 1>>
block(a) ==
  CASE a.kernel \in Gemm      -> <<kTile, kTile>>
    [] a.kernel = "transpose" -> <<kTransTile, kTransRows>>
    [] OTHER                  -> <<a.block, 1>>

Below(d) == (0..(d[1] - 1)) \X (0..(d[2] - 1))
Blocks   == Below(grid(args))
Threads  == Below(block(args))

(* What the driver accepts; it is the only check of vector_add's block,    *)
(* and of the number of rows of tiles of a matrix.                         *)
Launchable(a) == block(a)[1] * block(a)[2] \in 1..kMaxThreadsPerBlock /\ grid(a)[2] <= MaxGridY

(* The arrays the host passes, and the shared arrays of a block. *)
OutCells(a) ==
  CASE a.kernel = "reduce_sum"   -> {0}
    [] a.kernel = "histogram256" -> 0..(kBins - 1)
    [] a.kernel \in Gemm         -> 0..(a.M * a.N - 1)
    [] a.kernel = "transpose"    -> 0..(a.rows * a.cols - 1)
    [] OTHER                     -> 0..(a.n - 1)
SharedCells(a) ==
  CASE a.kernel = "reduce_sum"   -> 0..(a.block - 1)
    [] a.kernel = "histogram256" -> 0..(kBins - 1)
    [] a.kernel = "gemm_tiled"   -> {"As", "Bs"} \X Below(<<kTile, kTile>>)
    [] a.kernel = "transpose"    -> Below(<<kTransTile, kTransTile + 1>>)
    [] OTHER                     -> {}

Init ==
  /\ args \in Launches
  /\ status = "none" /\ phase = <<>> /\ shared = <<>> /\ acc = <<>>
  /\ \E g \in Garbage : out = [c \in OutCells(args) |-> g]

(* The launchers of the accumulating kernels clear the output first. *)
cudaMemset(a) == IF a.kernel \in Zeroing THEN [c \in OutCells(a) |-> 0] ELSE out

Refuse(error) == status' = error /\ UNCHANGED <<phase, shared, acc, out>>

launch ==
  /\ status = "none" /\ UNCHANGED args
  /\ \/ Invalid(args) /\ Refuse("InvalidValue")
     \/ ~Invalid(args) /\ args.kernel \in Zeroing /\ Refuse("MemsetFailed")
     \/ ~Invalid(args) /\ Empty(args) /\ status' = "Success" /\ out' = cudaMemset(args)
        /\ UNCHANGED <<phase, shared, acc>>
     \/ /\ ~Invalid(args) /\ ~Empty(args) /\ ~Launchable(args)
        /\ Refuse("InvalidConfiguration")
     \/ /\ ~Invalid(args) /\ ~Empty(args) /\ Launchable(args)
        /\ status' = "running" /\ out' = cudaMemset(args)
        /\ phase' = [b \in Blocks |-> [t \in Threads |-> 0]]
        /\ acc' = [b \in Blocks |-> [t \in Threads |-> <<>>]]
        /\ \E g \in Garbage : shared' = [b \in Blocks |-> [c \in SharedCells(args) |-> g]]

-----------------------------------------------------------------------------
(* The kernels: what thread t of block b does in segment j.  `reads' are   *)
(* the shared cells it reads, `writes' and `stores' what it writes to      *)
(* shared and to global memory; `atomic' if it does so with atomicAdd.     *)

Cell(c, v) == [x \in {c} |-> v]

Idle(b, t) ==
  [reads |-> {}, writes |-> <<>>, stores |-> <<>>, atomic |-> FALSE, acc |-> acc[b][t]]

(* Mutant: the stride is one block instead of the whole grid. *)
GridStride_block(b, t) ==
  LET start == b[1] * args.block + t[1]
  IN  {i \in start..(args.n - 1) : (i - start) % args.block = 0}

(* The indices of a grid-stride loop. *)
GridStride(b, t) ==
  LET start == b[1] * args.block + t[1]
  IN  {i \in start..(args.n - 1) : (i - start) % (grid(args)[1] * args.block) = 0}

BlockStride(t) == {c \in 0..(kBins - 1) : c % args.block = t[1]}

vector_add_kernel(b, t, j) ==
  [Idle(b, t) EXCEPT !.stores = [i \in GridStride(b, t) |-> i]]

(* The sum of the elements of the input at the indices S. *)
InputSum(S) == LET in(i) == args.in[i] IN MapThenSumSet(in, S)

(* A tree in shared memory, then one atomicAdd per block. *)
reduce_sum_kernel(b, t, j) ==
  LET i == t[1]
      s == args.block \div 2^j
  IN
  CASE j = 0 ->
         [Idle(b, t) EXCEPT !.writes = Cell(i, InputSum(GridStride(b, t)))]
    [] j > 0 /\ i < s ->
         [Idle(b, t) EXCEPT !.reads = {i, i + s},
            !.writes = Cell(i, shared[b][i] + shared[b][i + s])]
    [] s = 0 /\ i = 0 ->
         [Idle(b, t) EXCEPT !.reads = {0}, !.atomic = TRUE,
            !.stores = Cell(0, out[0] + shared[b][0])]
    [] OTHER -> Idle(b, t)

(* A private histogram per block, added to the global one. *)
histogram256_kernel(b, t, j) ==
  LET mine == GridStride(b, t)
      full == {c \in BlockStride(t) : shared[b][c] # 0}
  IN
  CASE j = 0 -> [Idle(b, t) EXCEPT !.writes = [c \in BlockStride(t) |-> 0]]
    [] j = 1 ->
         [Idle(b, t) EXCEPT !.atomic = TRUE,
            !.writes = [c \in {args.in[i] : i \in mine} |->
                          shared[b][c] + Cardinality({i \in mine : args.in[i] = c})]]
    [] j = 2 ->
         [Idle(b, t) EXCEPT !.atomic = TRUE, !.reads = BlockStride(t),
            !.stores = [c \in full |-> out[c] + shared[b][c]]]

(* Row and column of C that a thread computes. *)
row(b, t) == b[2] * kTile + t[2]
col(b, t) == b[1] * kTile + t[1]
Inside(b, t) == row(b, t) < args.M /\ col(b, t) < args.N

gemm_naive_kernel(b, t, j) ==
  LET r == row(b, t)
      c == col(b, t)
  IN  IF Inside(b, t)
      THEN [Idle(b, t) EXCEPT !.stores = Cell(r * args.N + c,
              [k \in 1..args.K |-> <<r * args.K + k - 1, (k - 1) * args.N + c>>])]
      ELSE Idle(b, t)

Zero == -1
(* The dot product after the terms of a tile; a padding zero adds nothing. *)
Multiplied(b, t) ==
  LET term(k) == <<shared[b][<<"As", <<k, t[2]>>>>], shared[b][<<"Bs", <<t[1], k>>>>]>>
      sum[k \in 0..kTile] ==
        IF k = 0 THEN acc[b][t]
        ELSE IF term(k - 1) = <<Zero, Zero>> THEN sum[k - 1] ELSE Append(sum[k - 1], term(k - 1))
  IN  sum[kTile]

(* For each tile: load it, barrier, multiply, barrier; in the end store.   *)
gemm_tiled_kernel(b, t, j) ==
  LET tile == j \div 2
      r  == row(b, t)
      c  == col(b, t)
      ak == tile * kTile + t[1]
      bk == tile * kTile + t[2]
  IN
  CASE tile < ceil(args.K, kTile) /\ j % 2 = 0 ->
         [Idle(b, t) EXCEPT !.writes = [x \in {"As", "Bs"} \X {t} |->
            IF x[1] = "As" THEN IF r < args.M /\ ak < args.K THEN r * args.K + ak ELSE Zero
                           ELSE IF bk < args.K /\ c < args.N THEN bk * args.N + c ELSE Zero]]
    [] tile < ceil(args.K, kTile) /\ j % 2 = 1 ->
         [Idle(b, t) EXCEPT !.acc = Multiplied(b, t),
            !.reads = {<<"As", <<k, t[2]>>>> : k \in 0..(kTile - 1)} \cup
                      {<<"Bs", <<t[1], k>>>> : k \in 0..(kTile - 1)}]
    [] tile = ceil(args.K, kTile) ->
         IF Inside(b, t)
         THEN [Idle(b, t) EXCEPT !.stores = Cell(r * args.N + c, acc[b][t])] ELSE Idle(b, t)

(* A tile is read by rows and written by columns. *)
transpose_kernel(b, t, j) ==
  LET passes == {k \in 0..(kTransTile - 1) : k % kTransRows = 0}
      x == b[1] * kTransTile + t[1]
      y == b[2] * kTransTile + t[2]
      u == b[2] * kTransTile + t[1]
      v == b[1] * kTransTile + t[2]
      load  == {k \in passes : x < args.cols /\ y + k < args.rows}
      store == {k \in passes : u < args.rows /\ v + k < args.cols}
  IN
  CASE j = 0 ->
         [Idle(b, t) EXCEPT !.writes =
            [p \in {<<t[2] + k, t[1]>> : k \in load} |-> (y + p[1] - t[2]) * args.cols + x]]
    [] j = 1 ->
         [Idle(b, t) EXCEPT !.reads = {<<t[1], t[2] + k>> : k \in store},
            !.stores = [i \in {(v + k) * args.rows + u : k \in store} |->
                          shared[b][<<t[1], t[2] + i \div args.rows - v>>]]]
-----------------------------------------------------------------------------
(* The grid.                                                               *)

kernel(b, t) ==
  LET j == phase[b][t] IN
  CASE args.kernel = "vector_add"   -> vector_add_kernel(b, t, j)
    [] args.kernel = "reduce_sum"   -> reduce_sum_kernel(b, t, j)
    [] args.kernel = "histogram256" -> histogram256_kernel(b, t, j)
    [] args.kernel = "gemm_naive"   -> gemm_naive_kernel(b, t, j)
    [] args.kernel = "gemm_tiled"   -> gemm_tiled_kernel(b, t, j)
    [] args.kernel = "transpose"    -> transpose_kernel(b, t, j)

(* The barriers of a thread's way through the kernel, plus one. *)
Segments ==
  CASE args.kernel = "reduce_sum"   -> 2 + CHOOSE l \in 0..args.block : 2^l = args.block
    [] args.kernel = "histogram256" -> 3
    [] args.kernel = "gemm_tiled"   -> 2 * ceil(args.K, kTile) + 1
    [] args.kernel = "transpose"    -> 2
    [] OTHER                        -> 1

(* Mutant: the barriers are forgotten. *)
syncthreads_none(b, t) == TRUE

(* __syncthreads: nobody goes on before all threads of the block are here. *)
syncthreads(b, t) == \A u \in Threads : phase[b][u] >= phase[b][t]

(* Mutant: threads outside the matrix return before the barriers. *)
CanRun_inside(b, t) ==
  /\ phase[b][t] < Segments /\ syncthreads(b, t)
  /\ args.kernel = "gemm_tiled" => Inside(b, t)

(* Every thread takes part in every segment, with work to do or without. *)
CanRun(b, t) == phase[b][t] < Segments /\ syncthreads(b, t)

(* Memory m after the writes w. *)
Written(w, m) == [c \in DOMAIN w \cup DOMAIN m |-> IF c \in DOMAIN w THEN w[c] ELSE m[c]]

Run(b, t) ==
  LET s == kernel(b, t) IN
  /\ status = "running" /\ CanRun(b, t)
  /\ phase' = [phase EXCEPT ![b][t] = @ + 1]
  /\ shared' = [shared EXCEPT ![b] = Written(s.writes, @)]
  /\ acc' = [acc EXCEPT ![b][t] = s.acc]
  /\ out' = Written(s.stores, out)
  /\ UNCHANGED <<args, status>>

(* The stream has caught up. *)
Finish ==
  /\ status = "running"
  /\ \A b \in Blocks, t \in Threads : phase[b][t] = Segments
  /\ status' = "Success"
  /\ UNCHANGED <<args, phase, shared, acc, out>>

RunSome == status = "running" /\ \E b \in Blocks, t \in Threads : Run(b, t)

Next == launch \/ RunSome \/ Finish

Spec == Init /\ [][Next]_vars

(* The launcher returns, and the device goes on as long as it can. *)
FairSpec == Spec /\ WF_vars(Next)

-----------------------------------------------------------------------------
(* Properties.                                                             *)

(* The CPU references (cudatest/src/reference.cpp). *)
cpu_vector_add == [i \in 0..(args.n - 1) |-> i]
cpu_reduce_sum == [c \in {0} |-> InputSum(0..(args.n - 1))]
cpu_histogram256 ==
  [c \in 0..(kBins - 1) |-> Cardinality({i \in 0..(args.n - 1) : args.in[i] = c})]
cpu_gemm ==
  [x \in 0..(args.M * args.N - 1) |->
     LET i == x \div args.N
         j == x % args.N
     IN  [k \in 1..args.K |-> <<i * args.K + k - 1, (k - 1) * args.N + j>>]]
cpu_transpose ==
  [x \in 0..(args.rows * args.cols - 1) |->
     (x % args.rows) * args.cols + x \div args.rows]

Reference ==
  CASE args.kernel = "vector_add"   -> cpu_vector_add
    [] args.kernel = "reduce_sum"   -> cpu_reduce_sum
    [] args.kernel = "histogram256" -> cpu_histogram256
    [] args.kernel \in Gemm         -> cpu_gemm
    [] args.kernel = "transpose"    -> cpu_transpose

(* Whatever the order of the threads, and whatever memory held before, a   *)
(* successful launch computes exactly what the CPU reference does, writes  *)
(* nothing beyond the output, and leaves no element out; sizes that are    *)
(* no multiple of a block or a tile included.                              *)
MatchesReference == status = "Success" => out = Reference

(* Two threads of a block between the same two barriers never touch the    *)
(* same cell of shared memory if one of them writes it, unless both use    *)
(* atomicAdd, and no two threads of the grid store to one output element   *)
(* without it.                                                             *)
RaceFree ==
  status = "running" =>
    \A b, d \in Blocks : \A t, u \in Threads :
      <<b, t>> # <<d, u>> /\ CanRun(b, t) /\ CanRun(d, u) =>
        LET s == kernel(b, t)
            r == kernel(d, u)
        IN  \/ s.atomic /\ r.atomic
            \/ /\ DOMAIN s.stores \cap DOMAIN r.stores = {}
               /\ b = d => DOMAIN s.writes \cap (r.reads \cup DOMAIN r.writes) = {}

(* A launch that passes the launcher's checks comes to an end: every       *)
(* thread of a block reaches every barrier.                                *)
Completes == status = "running" ~> status = "Success"
=============================================================================
