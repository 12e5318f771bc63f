--------------------------- MODULE KernelsProofs ---------------------------
(***************************************************************************)
(* Proofs about the CUDA kernels, for any launch, any size of block, tile  *)
(* and grid, and any order of the threads.                                 *)
(***************************************************************************)
EXTENDS Kernels, FiniteSetTheorems, TLAPS

-----------------------------------------------------------------------------
(* Division.                                                               *)

(* Quotient and remainder. *)
LEMMA Division ==
  ASSUME NEW n \in Nat \ {0}, NEW a \in Int
  PROVE  /\ a \div n \in Int /\ a % n \in 0..(n - 1) /\ a = (a \div n) * n + (a % n)
         /\ a >= 0 => a \div n \in Nat
OBVIOUS

(* They are the only ones. *)
LEMMA DivisionUnique ==
  ASSUME NEW n \in Nat \ {0}, NEW q \in Int, NEW r \in 0..(n - 1)
  PROVE  (q * n + r) \div n = q /\ (q * n + r) % n = r
OBVIOUS

(* Positions in a table with n columns determine row and column. *)
LEMMA SamePosition ==
  ASSUME NEW n \in Nat \ {0}, NEW q \in Int, NEW r \in 0..(n - 1),
         NEW p \in Int, NEW s \in 0..(n - 1), q * n + r = p * n + s
  PROVE  q = p /\ r = s
<1>1. (q * n + r) \div n = q /\ (q * n + r) % n = r
  BY DivisionUnique
<1>2. (p * n + s) \div n = p /\ (p * n + s) % n = s
  BY DivisionUnique
<1> QED BY <1>1, <1>2

(* A position before the end of a table of m rows is in one of its rows. *)
LEMMA TablePosition ==
  ASSUME NEW n \in Nat \ {0}, NEW m \in Nat, NEW x \in 0..(m * n - 1)
  PROVE  x \div n \in 0..(m - 1) /\ x % n \in 0..(n - 1) /\ x = (x \div n) * n + (x % n)
<1>1. x \in Int /\ x >= 0 /\ x < m * n
  OBVIOUS
<1>2. x \div n \in Nat /\ x % n \in 0..(n - 1) /\ x = (x \div n) * n + (x % n)
  BY <1>1, Division
<1>3. PICK q \in Nat : q = x \div n
  BY <1>2
<1>4. q * n <= x
  BY <1>2, <1>3
<1>5. q < m
  <2> SUFFICES ASSUME q >= m PROVE FALSE
    BY <1>3
  <2>1. q * n >= m * n
    OBVIOUS
  <2>2. q * n \in Int /\ m * n \in Int
    OBVIOUS
  <2> QED BY <1>1, <1>4, <2>1, <2>2
<1> QED BY <1>2, <1>3, <1>5

(* And the other way round. *)
LEMMA InTable ==
  ASSUME NEW n \in Nat \ {0}, NEW m \in Nat, NEW q \in 0..(m - 1), NEW r \in 0..(n - 1)
  PROVE  q * n + r \in 0..(m * n - 1)
<1>1. q * n + n <= m * n
  <2>1. (q + 1) * n <= m * n
    OBVIOUS
  <2> QED BY <2>1
<1>2. q * n \in Nat /\ m * n \in Nat
  OBVIOUS
<1> QED BY <1>1, <1>2

(* The smallest number of pieces of size d that cover n. *)
LEMMA Ceil ==
  ASSUME NEW n \in Nat, NEW d \in Nat \ {0}
  PROVE  ceil(n, d) \in Nat /\ ceil(n, d) * d >= n /\ (ceil(n, d) - 1) * d < n
<1>1. PICK c \in Int : c = ceil(n, d)
  BY DEF ceil
<1>2. PICK r \in 0..(d - 1) : n + d - 1 = c * d + r
  <2>1. n + d - 1 \in Int
    OBVIOUS
  <2>2. (n + d - 1) % d \in 0..(d - 1) /\ n + d - 1 = ((n + d - 1) \div d) * d + ((n + d - 1) % d)
    BY <2>1, Division
  <2> QED BY <1>1, <2>2 DEF ceil
<1>3. c \in Nat
  BY <1>1, Division DEF ceil
<1>4. c * d \in Int /\ (c - 1) * d = c * d - d
  OBVIOUS
<1> QED BY <1>1, <1>2, <1>3, <1>4

-----------------------------------------------------------------------------
(* The launches that run: sizes, blocks and threads.                       *)

Valid == args \in Launches /\ ~Invalid(args) /\ ~Empty(args) /\ Launchable(args)

(* A launch is one of the six kernels. *)
LEMMA SomeKernel ==
  ASSUME Valid
  PROVE  args.kernel \in {"vector_add", "reduce_sum", "histogram256", "gemm_naive", "gemm_tiled", "transpose"}
BY KernelsAssumption DEF KernelsAssumption, Valid, IsLaunch, Gemm, Zeroing

(* At least one block is launched. *)
LEMMA BlocksFor ==
  ASSUME NEW n \in Nat, NEW bl \in Nat \ {0}
  PROVE  blocks_for(n, bl) \in Nat \ {0}
<1>1. PICK m : m = Min({ceil(n, bl), kMaxGrid})
  OBVIOUS
<1>2. ceil(n, bl) \in Nat /\ kMaxGrid \in Nat
  BY Ceil, KernelsAssumption DEF KernelsAssumption
<1>3. m \in {ceil(n, bl), kMaxGrid}
  <2>1. \E x \in {ceil(n, bl), kMaxGrid} : \A y \in {ceil(n, bl), kMaxGrid} : x <= y
    BY <1>2
  <2> QED BY <1>1, <2>1 DEF Min
<1>4. m \in Nat
  BY <1>2, <1>3
<1>5. \E x \in {1, m} : \A y \in {1, m} : x >= y
  BY <1>4
<1>6. Max({1, m}) \in {1, m} /\ \A y \in {1, m} : Max({1, m}) >= y
  BY <1>5 DEF Max
<1>7. Max({1, m}) \in Nat /\ Max({1, m}) >= 1
  BY <1>4, <1>6
<1> QED BY <1>1, <1>7 DEF blocks_for

Vector == {"vector_add", "reduce_sum", "histogram256"}
Width == grid(args)[1]

(* A kernel over a vector has one row of blocks with one row of threads. *)
LEMMA VectorLaunch ==
  ASSUME Valid, args.kernel \in Vector
  PROVE  /\ args.n \in Nat \ {0} /\ args.block \in Nat \ {0} /\ Width \in Nat \ {0}
         /\ Blocks = (0..(Width - 1)) \X (0..0) /\ Threads = (0..(args.block - 1)) \X (0..0)
<1>1. args.n \in Int /\ args.block \in Int
  BY KernelsAssumption DEF KernelsAssumption, Valid, IsLaunch, Zeroing, Vector
<1>2. args.n >= 0 /\ args.n # 0
  <2>1. CASE args.kernel = "vector_add"
    BY <1>1, <2>1 DEF Valid, Invalid, Empty, Gemm
  <2>2. CASE args.kernel = "reduce_sum"
    BY <1>1, <2>2 DEF Valid, Invalid, Empty, Gemm
  <2>3. CASE args.kernel = "histogram256"
    BY <1>1, <2>3 DEF Valid, Invalid, Empty, Gemm
  <2> QED BY <2>1, <2>2, <2>3 DEF Vector
<1>3. block(args) = <<args.block, 1>>
  BY DEF block, Vector, Gemm
<1>4. args.block * 1 \in 1..kMaxThreadsPerBlock
  BY <1>3 DEF Valid, Launchable
<1>5. args.block >= 1
  BY <1>1, <1>4, KernelsAssumption DEF KernelsAssumption
<1>6. grid(args) = <<blocks_for(args.n, args.block), 1>>
  BY <1>1, <1>5 DEF grid, Vector, Gemm
<1>7. blocks_for(args.n, args.block) \in Nat \ {0}
  BY <1>1, <1>2, <1>5, BlocksFor
<1>8. Width = blocks_for(args.n, args.block)
  BY <1>6 DEF Width
<1> QED BY <1>1, <1>2, <1>3, <1>5, <1>6, <1>7, <1>8 DEF Blocks, Threads, Below

(* The tiles of a product. *)
LEMMA GemmLaunch ==
  ASSUME Valid, args.kernel \in Gemm
  PROVE  /\ args.M \in Nat \ {0} /\ args.N \in Nat \ {0} /\ args.K \in Nat /\ kTile \in Nat \ {0}
         /\ Blocks = (0..(ceil(args.N, kTile) - 1)) \X (0..(ceil(args.M, kTile) - 1))
         /\ Threads = (0..(kTile - 1)) \X (0..(kTile - 1))
<1>1. args.M \in Int /\ args.N \in Int /\ args.K \in Int
  BY KernelsAssumption DEF KernelsAssumption, Valid, IsLaunch
<1>2. args.M >= 0 /\ args.N >= 0 /\ args.K >= 0 /\ args.M # 0 /\ args.N # 0
  <2>1. CASE args.kernel = "gemm_naive"
    BY <1>1, <2>1 DEF Valid, Invalid, Empty, Gemm
  <2>2. CASE args.kernel = "gemm_tiled"
    BY <1>1, <2>2 DEF Valid, Invalid, Empty, Gemm
  <2> QED BY <2>1, <2>2 DEF Gemm
<1>3. block(args) = <<kTile, kTile>> /\ grid(args) = <<ceil(args.N, kTile), ceil(args.M, kTile)>>
  BY DEF block, grid, Gemm
<1> QED BY <1>1, <1>2, <1>3, KernelsAssumption DEF KernelsAssumption, Blocks, Threads, Below

(* The tiles of a transposition. *)
LEMMA TransposeLaunch ==
  ASSUME Valid, args.kernel = "transpose"
  PROVE  /\ args.rows \in Nat \ {0} /\ args.cols \in Nat \ {0}
         /\ kTransTile \in Nat \ {0} /\ kTransRows \in Nat \ {0}
         /\ Blocks = (0..(ceil(args.cols, kTransTile) - 1)) \X (0..(ceil(args.rows, kTransTile) - 1))
         /\ Threads = (0..(kTransTile - 1)) \X (0..(kTransRows - 1))
<1>1. args.rows \in Int /\ args.cols \in Int
  BY KernelsAssumption DEF KernelsAssumption, Valid, IsLaunch
<1>2. args.rows >= 0 /\ args.cols >= 0 /\ args.rows # 0 /\ args.cols # 0
  BY <1>1 DEF Valid, Invalid, Empty, Gemm
<1>3. /\ block(args) = <<kTransTile, kTransRows>>
      /\ grid(args) = <<ceil(args.cols, kTransTile), ceil(args.rows, kTransTile)>>
  BY DEF block, grid, Gemm
<1> QED BY <1>1, <1>2, <1>3, KernelsAssumption DEF KernelsAssumption, Blocks, Threads, Below

-----------------------------------------------------------------------------
(* The grid-stride loop: an index has one owner.                           *)

OwnerBlock(i)  == <<(i % (Width * args.block)) \div args.block, 0>>
OwnerThread(i) == <<(i % (Width * args.block)) % args.block, 0>>

(* Every index has an owner in the grid. *)
LEMMA OwnerExists ==
  ASSUME Valid, args.kernel \in Vector, NEW i \in Int
  PROVE  OwnerBlock(i) \in Blocks /\ OwnerThread(i) \in Threads
<1>1. Width \in Nat \ {0} /\ args.block \in Nat \ {0} /\ Width * args.block \in Nat \ {0}
  BY VectorLaunch
<1>2. i % (Width * args.block) \in 0..(Width * args.block - 1)
  BY <1>1, Division
<1>3. PICK r \in 0..(Width * args.block - 1) : r = i % (Width * args.block)
  BY <1>2
<1>4. r \div args.block \in 0..(Width - 1) /\ r % args.block \in 0..(args.block - 1)
  BY <1>1, TablePosition
<1>5. 0 \in 0..0
  OBVIOUS
<1> QED BY <1>3, <1>4, <1>5, VectorLaunch DEF OwnerBlock, OwnerThread

(* A thread of the grid loops over exactly the indices it owns. *)
LEMMA StrideOwner ==
  ASSUME Valid, args.kernel \in Vector, NEW b \in Blocks, NEW t \in Threads, NEW i
  PROVE  i \in GridStride(b, t) <=> i \in 0..(args.n - 1) /\ OwnerBlock(i) = b /\ OwnerThread(i) = t
<1>1. args.n \in Nat /\ Width \in Nat \ {0} /\ args.block \in Nat \ {0} /\ Width * args.block \in Nat \ {0}
  BY VectorLaunch
<1>2. PICK p \in Nat \ {0} : p = Width * args.block
  BY <1>1
<1>3. b \in (0..(Width - 1)) \X (0..0) /\ t \in (0..(args.block - 1)) \X (0..0)
  BY VectorLaunch
<1>4. /\ b[1] \in 0..(Width - 1) /\ b[2] = 0 /\ b = <<b[1], b[2]>>
      /\ t[1] \in 0..(args.block - 1) /\ t[2] = 0 /\ t = <<t[1], t[2]>>
  BY <1>3
<1>5. PICK start \in 0..(p - 1) : start = b[1] * args.block + t[1]
  BY <1>1, <1>2, <1>4, InTable
<1>6. start \div args.block = b[1] /\ start % args.block = t[1]
  <2>1. PICK n \in Nat \ {0} : n = args.block
    BY <1>1
  <2>2. PICK q \in Int : q = b[1]
    BY <1>1, <1>4
  <2>3. PICK r \in 0..(n - 1) : r = t[1]
    BY <1>4, <2>1
  <2>4. start = q * n + r
    BY <1>5, <2>1, <2>2, <2>3
  <2> QED BY <2>1, <2>2, <2>3, <2>4, DivisionUnique
<1>7. GridStride(b, t) = {k \in start..(args.n - 1) : (k - start) % p = 0}
  BY <1>2, <1>5 DEF GridStride, Width
<1>8. ASSUME NEW k \in Int PROVE k % p = start <=> (k - start) % p = 0
  <2>1. k = (k \div p) * p + (k % p) /\ k \div p \in Int /\ k % p \in 0..(p - 1)
    BY Division
  <2>2. k - start = ((k - start) \div p) * p + ((k - start) % p) /\ (k - start) \div p \in Int
    BY Division
  <2>3. ASSUME k % p = start PROVE (k - start) % p = 0
    <3>1. PICK q \in Int : q = k \div p
      BY <2>1
    <3>2. k - start = q * p + 0 /\ 0 \in 0..(p - 1)
      BY <2>1, <2>3, <3>1
    <3> QED BY <3>2, DivisionUnique
  <2>4. ASSUME (k - start) % p = 0 PROVE k % p = start
    <3>1. PICK q \in Int : q = (k - start) \div p
      BY <2>2
    <3>2. k = q * p + start
      BY <2>2, <2>4, <3>1
    <3> QED BY <3>2, DivisionUnique
  <2> QED BY <2>3, <2>4
<1>9. ASSUME NEW k \in 0..(args.n - 1) PROVE k % p = start => k >= start
  <2>1. k = (k \div p) * p + (k % p) /\ k \div p \in Nat
    <3>1. k \in Int /\ k >= 0
      BY <1>1
    <3> QED BY <3>1, Division
  <2>2. (k \div p) * p \in Nat
    BY <2>1
  <2> QED BY <2>1, <2>2
<1>10. ASSUME NEW k \in Int PROVE OwnerBlock(k) = b /\ OwnerThread(k) = t <=> k % p = start
  <2>1. k % p \in 0..(p - 1)
    BY Division
  <2>2. PICK r \in 0..(p - 1) : r = k % p
    BY <2>1
  <2>3. OwnerBlock(k) = <<r \div args.block, 0>> /\ OwnerThread(k) = <<r % args.block, 0>>
    BY <1>2, <2>2 DEF OwnerBlock, OwnerThread
  <2>4. r = (r \div args.block) * args.block + (r % args.block)
    <3>1. PICK n \in Nat \ {0} : n = args.block
      BY <1>1
    <3>2. r \in Int
      OBVIOUS
    <3>3. r = (r \div n) * n + (r % n)
      BY <3>2, Division
    <3> QED BY <3>1, <3>3
  <2>5. ASSUME OwnerBlock(k) = b, OwnerThread(k) = t PROVE r = start
    BY <1>4, <1>5, <2>3, <2>4, <2>5
  <2>6. ASSUME r = start PROVE OwnerBlock(k) = b /\ OwnerThread(k) = t
    BY <1>4, <1>6, <2>3, <2>6
  <2> QED BY <2>2, <2>5, <2>6
<1>11. ASSUME i \in GridStride(b, t) PROVE i \in 0..(args.n - 1) /\ OwnerBlock(i) = b /\ OwnerThread(i) = t
  <2>1. i \in start..(args.n - 1) /\ (i - start) % p = 0
    BY <1>7, <1>11
  <2>2. i \in Int /\ i \in 0..(args.n - 1)
    BY <1>1, <2>1
  <2> QED BY <1>8, <1>10, <2>1, <2>2
<1>12. ASSUME i \in 0..(args.n - 1), OwnerBlock(i) = b, OwnerThread(i) = t PROVE i \in GridStride(b, t)
  <2>1. i \in Int
    BY <1>1, <1>12
  <2>2. i % p = start
    BY <1>10, <1>12, <2>1
  <2>3. (i - start) % p = 0
    BY <1>8, <2>1, <2>2
  <2>4. i >= start
    BY <1>9, <1>12, <2>2
  <2> QED BY <1>1, <1>7, <1>12, <2>3, <2>4
<1> QED BY <1>11, <1>12

(* The loop of a block over the bins. *)
LEMMA BlockStrideOwner ==
  ASSUME Valid, args.kernel \in Vector, NEW t \in Threads, NEW u \in Threads,
         BlockStride(t) \cap BlockStride(u) # {}
  PROVE  t = u
<1>1. t \in (0..(args.block - 1)) \X (0..0) /\ u \in (0..(args.block - 1)) \X (0..0)
  BY VectorLaunch
<1>2. t = <<t[1], 0>> /\ u = <<u[1], 0>>
  BY <1>1
<1>3. t[1] = u[1]
  BY DEF BlockStride
<1> QED BY <1>2, <1>3

-----------------------------------------------------------------------------
(* Tiles: an element of a table that is cut into tiles has one place.      *)

(* The tile of a number and the place in it. *)
LEMMA TilePlace ==
  ASSUME NEW n \in Nat, NEW d \in Nat \ {0}, NEW x \in 0..(n - 1)
  PROVE  /\ x \div d \in 0..(ceil(n, d) - 1) /\ x % d \in 0..(d - 1)
         /\ x = (x \div d) * d + (x % d)
<1>1. PICK m \in Nat : m = ceil(n, d) /\ m * d >= n
  BY Ceil
<1>2. m * d \in Nat /\ x < m * d
  BY <1>1
<1>3. x \in 0..(m * d - 1)
  BY <1>2
<1> QED BY <1>1, <1>3, TablePosition

(* Row and column of a thread. *)
LEMMA GemmPlace ==
  ASSUME Valid, args.kernel \in Gemm, NEW b \in Blocks, NEW t \in Threads
  PROVE  /\ b[1] \in Nat /\ b[2] \in Nat /\ t[1] \in 0..(kTile - 1) /\ t[2] \in 0..(kTile - 1)
         /\ b = <<b[1], b[2]>> /\ t = <<t[1], t[2]>>
         /\ row(b, t) \in Nat /\ col(b, t) \in Nat
<1>1. ceil(args.N, kTile) \in Nat /\ ceil(args.M, kTile) \in Nat
  BY GemmLaunch, Ceil
<1>2. b \in (0..(ceil(args.N, kTile) - 1)) \X (0..(ceil(args.M, kTile) - 1))
  BY GemmLaunch
<1>3. t \in (0..(kTile - 1)) \X (0..(kTile - 1)) /\ kTile \in Nat
  BY GemmLaunch
<1>4. b[1] \in Nat /\ b[2] \in Nat /\ b = <<b[1], b[2]>>
  BY <1>1, <1>2
<1>5. t[1] \in 0..(kTile - 1) /\ t[2] \in 0..(kTile - 1) /\ t = <<t[1], t[2]>>
  BY <1>3
<1>6. b[2] * kTile + t[2] \in Nat /\ b[1] * kTile + t[1] \in Nat
  BY <1>3, <1>4, <1>5
<1> QED BY <1>4, <1>5, <1>6 DEF row, col

(* No two threads compute the same element. *)
LEMMA GemmDistinct ==
  ASSUME Valid, args.kernel \in Gemm, NEW b \in Blocks, NEW t \in Threads, NEW d \in Blocks, NEW u \in Threads,
         row(b, t) = row(d, u), col(b, t) = col(d, u)
  PROVE  b = d /\ t = u
<1>1. kTile \in Nat \ {0}
  BY GemmLaunch
<1>2. /\ b[1] \in Int /\ b[2] \in Int /\ t[1] \in 0..(kTile - 1) /\ t[2] \in 0..(kTile - 1)
      /\ b = <<b[1], b[2]>> /\ t = <<t[1], t[2]>>
  BY GemmPlace
<1>3. /\ d[1] \in Int /\ d[2] \in Int /\ u[1] \in 0..(kTile - 1) /\ u[2] \in 0..(kTile - 1)
      /\ d = <<d[1], d[2]>> /\ u = <<u[1], u[2]>>
  BY GemmPlace
<1>4. b[2] = d[2] /\ t[2] = u[2]
  <2>1. b[2] * kTile + t[2] = d[2] * kTile + u[2]
    BY DEF row
  <2> QED BY <1>1, <1>2, <1>3, <2>1, SamePosition
<1>5. b[1] = d[1] /\ t[1] = u[1]
  <2>1. b[1] * kTile + t[1] = d[1] * kTile + u[1]
    BY DEF col
  <2> QED BY <1>1, <1>2, <1>3, <2>1, SamePosition
<1> QED BY <1>2, <1>3, <1>4, <1>5

(* The cell of the output that belongs to a thread inside the matrix. *)
LEMMA GemmCell ==
  ASSUME Valid, args.kernel \in Gemm, NEW b \in Blocks, NEW t \in Threads, Inside(b, t)
  PROVE  /\ row(b, t) \in 0..(args.M - 1) /\ col(b, t) \in 0..(args.N - 1)
         /\ row(b, t) * args.N + col(b, t) \in 0..(args.M * args.N - 1)
         /\ (row(b, t) * args.N + col(b, t)) \div args.N = row(b, t)
         /\ (row(b, t) * args.N + col(b, t)) % args.N = col(b, t)
<1>1. args.M \in Nat /\ args.N \in Nat \ {0}
  BY GemmLaunch
<1>2. row(b, t) \in 0..(args.M - 1) /\ col(b, t) \in 0..(args.N - 1)
  BY <1>1, GemmPlace DEF Inside
<1>3. row(b, t) \in Int
  BY GemmPlace
<1>4. PICK m \in Nat, n \in Nat \ {0} : m = args.M /\ n = args.N
  BY <1>1
<1>5. PICK r \in 0..(m - 1) : r = row(b, t)
  BY <1>2, <1>4
<1>6. PICK c \in 0..(n - 1) : c = col(b, t)
  BY <1>2, <1>4
<1>7. r \in Int
  BY <1>3, <1>5
<1>8. r * n + c \in 0..(m * n - 1) /\ (r * n + c) \div n = r /\ (r * n + c) % n = c
  BY <1>7, InTable, DivisionUnique
<1> QED BY <1>2, <1>4, <1>5, <1>6, <1>8

(* Every element is computed by some thread. *)
LEMMA GemmCovered ==
  ASSUME Valid, args.kernel \in Gemm, NEW x \in 0..(args.M * args.N - 1)
  PROVE  \E b \in Blocks : \E t \in Threads :
            /\ Inside(b, t) /\ row(b, t) = x \div args.N /\ col(b, t) = x % args.N
            /\ x = row(b, t) * args.N + col(b, t)
<1>1. args.M \in Nat \ {0} /\ args.N \in Nat \ {0} /\ kTile \in Nat \ {0}
  BY GemmLaunch
<1>2. PICK m \in Nat, n \in Nat \ {0}, T \in Nat \ {0} : m = args.M /\ n = args.N /\ T = kTile
  BY <1>1
<1>3. x \in 0..(m * n - 1)
  BY <1>2
<1>4. PICK r \in 0..(m - 1) : r = x \div n
  BY <1>3, TablePosition
<1>5. PICK c \in 0..(n - 1) : c = x % n
  BY <1>3, TablePosition
<1>6. x = r * n + c
  BY <1>3, <1>4, <1>5, TablePosition
<1>7. r \div T \in 0..(ceil(m, T) - 1) /\ r % T \in 0..(T - 1) /\ r = (r \div T) * T + (r % T)
  BY TilePlace
<1>8. c \div T \in 0..(ceil(n, T) - 1) /\ c % T \in 0..(T - 1) /\ c = (c \div T) * T + (c % T)
  BY TilePlace
<1>9. PICK b : b = <<c \div T, r \div T>>
  OBVIOUS
<1>10. PICK t : t = <<c % T, r % T>>
  OBVIOUS
<1>11. b \in Blocks /\ t \in Threads
  BY <1>2, <1>7, <1>8, <1>9, <1>10, GemmLaunch
<1>12. row(b, t) = r /\ col(b, t) = c
  BY <1>2, <1>7, <1>8, <1>9, <1>10 DEF row, col
<1>13. r < m /\ c < n
  OBVIOUS
<1> QED BY <1>2, <1>4, <1>5, <1>6, <1>11, <1>12, <1>13 DEF Inside

(* The passes of a block of the transposition over its tile. *)
Passes == {k \in 0..(kTransTile - 1) : k % kTransRows = 0}

(* A row of the tile belongs to one row of threads in one pass. *)
LEMMA PassPlace ==
  ASSUME Valid, args.kernel = "transpose", NEW k \in Passes, NEW i \in 0..(kTransRows - 1)
  PROVE  k \in Nat /\ i + k \in 0..(kTransTile - 1) /\ (i + k) % kTransRows = i
<1>1. PICK R \in Nat \ {0}, T \in Nat \ {0} : R = kTransRows /\ T = kTransTile
  BY TransposeLaunch
<1>2. T % R = 0 /\ k \in 0..(T - 1) /\ k % R = 0 /\ i \in 0..(R - 1)
  BY <1>1, KernelsAssumption DEF KernelsAssumption, Passes
<1>3. k \in Int /\ T \in Int /\ k >= 0 /\ T >= 0
  BY <1>2
<1>4. PICK q \in Nat : k = q * R
  <2>1. k = (k \div R) * R + (k % R) /\ k \div R \in Nat
    BY <1>3, Division
  <2>2. PICK q \in Nat : q = k \div R
    BY <2>1
  <2>3. k = q * R + 0
    BY <1>2, <2>1, <2>2
  <2> QED BY <2>3
<1>5. PICK m \in Nat : T = m * R
  <2>1. T = (T \div R) * R + (T % R) /\ T \div R \in Nat
    BY <1>3, Division
  <2>2. PICK m \in Nat : m = T \div R
    BY <2>1
  <2>3. T = m * R + 0
    BY <1>2, <2>1, <2>2
  <2> QED BY <2>3
<1>6. q < m
  <2> SUFFICES ASSUME q >= m PROVE FALSE
    OBVIOUS
  <2>1. q * R >= m * R
    OBVIOUS
  <2> QED BY <1>2, <1>4, <1>5, <2>1
<1>7. q \in 0..(m - 1) /\ q \in Int
  BY <1>6
<1>8. q * R + i \in 0..(m * R - 1)
  BY <1>2, <1>7, InTable
<1>9. (q * R + i) % R = i
  BY <1>2, <1>7, DivisionUnique
<1>10. i + k = q * R + i
  BY <1>2, <1>4
<1> QED BY <1>1, <1>3, <1>5, <1>8, <1>9, <1>10

(* Every row of the tile does. *)
LEMMA PassExists ==
  ASSUME Valid, args.kernel = "transpose", NEW y \in 0..(kTransTile - 1)
  PROVE  \E i \in 0..(kTransRows - 1) : \E k \in Passes : y = i + k
<1>1. PICK R \in Nat \ {0}, T \in Nat \ {0} : R = kTransRows /\ T = kTransTile
  BY TransposeLaunch
<1>2. y \in Int /\ y >= 0 /\ y < T
  BY <1>1
<1>3. PICK q \in Nat, i \in 0..(R - 1) : y = q * R + i
  <2>1. y = (y \div R) * R + (y % R) /\ y \div R \in Nat /\ y % R \in 0..(R - 1)
    BY <1>2, Division
  <2> QED BY <2>1
<1>4. q * R \in Nat /\ q * R <= y
  BY <1>3
<1>5. (q * R + 0) % R = 0
  <2>1. 0 \in 0..(R - 1) /\ q \in Int
    OBVIOUS
  <2> QED BY <2>1, DivisionUnique
<1>6. q * R \in 0..(T - 1) /\ (q * R) % R = 0
  BY <1>2, <1>4, <1>5
<1>7. q * R \in Passes
  BY <1>1, <1>6 DEF Passes
<1>8. y = i + (q * R) /\ i \in 0..(kTransRows - 1)
  BY <1>1, <1>3, <1>4
<1> QED BY <1>7, <1>8

(* The coordinates of a block and of a thread. *)
LEMMA TransposePlace ==
  ASSUME Valid, args.kernel = "transpose", NEW b \in Blocks, NEW t \in Threads
  PROVE  /\ b[1] \in Nat /\ b[2] \in Nat /\ t[1] \in 0..(kTransTile - 1) /\ t[2] \in 0..(kTransRows - 1)
         /\ b = <<b[1], b[2]>> /\ t = <<t[1], t[2]>>
<1>1. ceil(args.cols, kTransTile) \in Nat /\ ceil(args.rows, kTransTile) \in Nat
  BY TransposeLaunch, Ceil
<1>2. b \in (0..(ceil(args.cols, kTransTile) - 1)) \X (0..(ceil(args.rows, kTransTile) - 1))
  BY TransposeLaunch
<1>3. t \in (0..(kTransTile - 1)) \X (0..(kTransRows - 1))
  BY TransposeLaunch
<1>4. b[1] \in Nat /\ b[2] \in Nat /\ b = <<b[1], b[2]>>
  BY <1>1, <1>2
<1> QED BY <1>3, <1>4

(* Where a thread stores what it finds in the tile, in pass k. *)
OutColumn(b, t) == b[2] * kTransTile + t[1]
OutRow(b, t, k) == b[1] * kTransTile + t[2] + k
StorePasses(b, t) == {k \in Passes : OutColumn(b, t) < args.rows /\ OutRow(b, t, k) < args.cols}
StoreCell(b, t, k) == OutRow(b, t, k) * args.rows + OutColumn(b, t)

(* It is inside the output, in its own row and column. *)
LEMMA StoreInside ==
  ASSUME Valid, args.kernel = "transpose", NEW b \in Blocks, NEW t \in Threads, NEW k \in StorePasses(b, t)
  PROVE  /\ OutColumn(b, t) \in 0..(args.rows - 1) /\ OutRow(b, t, k) \in 0..(args.cols - 1)
         /\ StoreCell(b, t, k) \in 0..(args.rows * args.cols - 1)
         /\ StoreCell(b, t, k) \div args.rows = OutRow(b, t, k)
         /\ StoreCell(b, t, k) % args.rows = OutColumn(b, t)
<1>1. PICK m \in Nat \ {0}, n \in Nat \ {0}, T \in Nat \ {0} : m = args.cols /\ n = args.rows /\ T = kTransTile
  BY TransposeLaunch
<1>2. b[1] \in Nat /\ b[2] \in Nat /\ t[1] \in Nat /\ t[2] \in Nat
  BY TransposePlace, TransposeLaunch
<1>3. k \in Passes /\ k \in Nat
  BY DEF StorePasses, Passes
<1>4. b[2] * T + t[1] \in Nat /\ b[1] * T + t[2] + k \in Nat
  BY <1>2, <1>3
<1>5. OutColumn(b, t) \in Nat /\ OutRow(b, t, k) \in Nat
  BY <1>1, <1>4 DEF OutColumn, OutRow
<1>6. PICK c \in 0..(n - 1) : c = OutColumn(b, t)
  BY <1>1, <1>5 DEF StorePasses
<1>7. PICK r \in 0..(m - 1) : r = OutRow(b, t, k)
  BY <1>1, <1>5 DEF StorePasses
<1>8. r \in Int
  BY <1>5, <1>7
<1>9. r * n + c \in 0..(m * n - 1) /\ (r * n + c) \div n = r /\ (r * n + c) % n = c
  BY <1>8, InTable, DivisionUnique
<1>10. m * n = args.rows * args.cols
  BY <1>1
<1> QED BY <1>1, <1>6, <1>7, <1>9, <1>10 DEF StoreCell

(* No two threads store to the same cell, and no thread does so twice. *)
LEMMA StoreDistinct ==
  ASSUME Valid, args.kernel = "transpose", NEW b \in Blocks, NEW t \in Threads, NEW k \in StorePasses(b, t),
         NEW d \in Blocks, NEW u \in Threads, NEW l \in StorePasses(d, u),
         StoreCell(b, t, k) = StoreCell(d, u, l)
  PROVE  b = d /\ t = u /\ k = l
<1>1. OutColumn(b, t) = OutColumn(d, u) /\ OutRow(b, t, k) = OutRow(d, u, l)
  BY StoreInside
<1>2. PICK T \in Nat \ {0} : T = kTransTile
  BY TransposeLaunch
<1>3. /\ b[1] \in Int /\ b[2] \in Int /\ t[1] \in 0..(T - 1) /\ t[2] \in 0..(kTransRows - 1)
      /\ b = <<b[1], b[2]>> /\ t = <<t[1], t[2]>>
  BY <1>2, TransposePlace
<1>4. /\ d[1] \in Int /\ d[2] \in Int /\ u[1] \in 0..(T - 1) /\ u[2] \in 0..(kTransRows - 1)
      /\ d = <<d[1], d[2]>> /\ u = <<u[1], u[2]>>
  BY <1>2, TransposePlace
<1>5. k \in Nat /\ t[2] + k \in 0..(T - 1) /\ (t[2] + k) % kTransRows = t[2]
  BY <1>2, <1>3, PassPlace DEF StorePasses
<1>6. l \in Nat /\ u[2] + l \in 0..(T - 1) /\ (u[2] + l) % kTransRows = u[2]
  BY <1>2, <1>4, PassPlace DEF StorePasses
<1>7. b[2] = d[2] /\ t[1] = u[1]
  <2>1. b[2] * T + t[1] = d[2] * T + u[1]
    BY <1>1, <1>2 DEF OutColumn
  <2> QED BY <1>3, <1>4, <2>1, SamePosition
<1>8. b[1] = d[1] /\ t[2] + k = u[2] + l
  <2>1. b[1] * T + t[2] + k = d[1] * T + u[2] + l
    BY <1>1, <1>2 DEF OutRow
  <2>2. kTransRows \in Nat /\ t[2] \in Int /\ u[2] \in Int
    BY <1>3, <1>4, TransposeLaunch
  <2>3. b[1] * T + (t[2] + k) = d[1] * T + (u[2] + l)
    BY <1>3, <1>4, <1>5, <1>6, <2>1, <2>2
  <2> HIDE <2>1
  <2> QED BY <1>3, <1>4, <1>5, <1>6, <2>3, SamePosition
<1>9. t[2] = u[2]
  BY <1>5, <1>6, <1>8
<1>10. k = l
  <2>1. t[2] \in Int
    BY <1>3, TransposeLaunch
  <2> QED BY <1>5, <1>6, <1>8, <1>9, <2>1
<1> QED BY <1>3, <1>4, <1>7, <1>8, <1>9, <1>10

-----------------------------------------------------------------------------
(* What a segment does.                                                    *)

Does(b, t, r, w, s, at, a) ==
  LET k == kernel(b, t)
  IN  k.reads = r /\ k.writes = w /\ k.stores = s /\ k.atomic = at /\ k.acc = a

(* vector_add stores what it loops over. *)
LEMMA VectorAddDoes ==
  ASSUME args.kernel = "vector_add", NEW b, NEW t
  PROVE  Does(b, t, {}, <<>>, [i \in GridStride(b, t) |-> i], FALSE, acc[b][t])
BY DEF Does, kernel, vector_add_kernel, Idle

Stride(j) == args.block \div 2^j

(* reduce_sum: load, add the cell one stride away, add to the output. *)
LEMMA ReduceDoes ==
  ASSUME args.kernel = "reduce_sum", NEW b, NEW t, NEW j \in Nat, j = phase[b][t], Stride(0) # 0
  PROVE  /\ j = 0 =>
              Does(b, t, {}, Cell(t[1], InputSum(GridStride(b, t))), <<>>, FALSE, acc[b][t])
         /\ j > 0 /\ t[1] < Stride(j) =>
              Does(b, t, {t[1], t[1] + Stride(j)}, Cell(t[1], shared[b][t[1]] + shared[b][t[1] + Stride(j)]),
                   <<>>, FALSE, acc[b][t])
         /\ j > 0 /\ ~(t[1] < Stride(j)) /\ Stride(j) = 0 /\ t[1] = 0 =>
              Does(b, t, {0}, <<>>, Cell(0, out[0] + shared[b][0]), TRUE, acc[b][t])
         /\ j > 0 /\ ~(t[1] < Stride(j)) /\ ~(Stride(j) = 0 /\ t[1] = 0) =>
              Does(b, t, {}, <<>>, <<>>, FALSE, acc[b][t])
<1>1. kernel(b, t) = reduce_sum_kernel(b, t, j)
  BY DEF kernel
<1>2. ASSUME j = 0 PROVE Does(b, t, {}, Cell(t[1], InputSum(GridStride(b, t))), <<>>, FALSE, acc[b][t])
  <2>1. kernel(b, t) = [Idle(b, t) EXCEPT !.writes = Cell(t[1], InputSum(GridStride(b, t)))]
    BY <1>1, <1>2 DEF reduce_sum_kernel, Stride
  <2> QED BY <2>1 DEF Does, Idle
<1>3. ASSUME j > 0 /\ t[1] < Stride(j) PROVE Does(b, t, {t[1], t[1] + Stride(j)}, Cell(t[1], shared[b][t[1]] + shared[b][t[1] + Stride(j)]),
                   <<>>, FALSE, acc[b][t])
  <2>1. kernel(b, t) = [Idle(b, t) EXCEPT !.reads = {t[1], t[1] + Stride(j)},
                          !.writes = Cell(t[1], shared[b][t[1]] + shared[b][t[1] + Stride(j)])]
    BY <1>1, <1>3 DEF reduce_sum_kernel, Stride
  <2> QED BY <2>1 DEF Does, Idle
<1>4. ASSUME j > 0 /\ ~(t[1] < Stride(j)) /\ Stride(j) = 0 /\ t[1] = 0 PROVE Does(b, t, {0}, <<>>, Cell(0, out[0] + shared[b][0]), TRUE, acc[b][t])
  <2>1. kernel(b, t) = [Idle(b, t) EXCEPT !.reads = {0}, !.atomic = TRUE, !.stores = Cell(0, out[0] + shared[b][0])]
    BY <1>1, <1>4 DEF reduce_sum_kernel, Stride
  <2> QED BY <2>1 DEF Does, Idle
<1>5. ASSUME j > 0 /\ ~(t[1] < Stride(j)) /\ ~(Stride(j) = 0 /\ t[1] = 0) PROVE Does(b, t, {}, <<>>, <<>>, FALSE, acc[b][t])
  <2>1. kernel(b, t) = Idle(b, t)
    BY <1>1, <1>5 DEF reduce_sum_kernel, Stride
  <2> QED BY <2>1 DEF Does, Idle
<1> QED BY <1>2, <1>3, <1>4, <1>5

(* The elements of a thread that fall into a bin, and the bins it adds. *)
Mine(b, t, c) == {i \in GridStride(b, t) : args.in[i] = c}
Full(b, t) == {c \in BlockStride(t) : shared[b][c] # 0}
Counted(b, t) ==
  [c \in {args.in[i] : i \in GridStride(b, t)} |-> shared[b][c] + Cardinality(Mine(b, t, c))]
Added(b, t) == [c \in Full(b, t) |-> out[c] + shared[b][c]]

(* histogram256: clear, count, add to the output. *)
LEMMA HistogramDoes ==
  ASSUME args.kernel = "histogram256", NEW b, NEW t
  PROVE  /\ phase[b][t] = 0 =>
              Does(b, t, {}, [c \in BlockStride(t) |-> 0], <<>>, FALSE, acc[b][t])
         /\ phase[b][t] = 1 =>
              Does(b, t, {}, Counted(b, t), <<>>, TRUE, acc[b][t])
         /\ phase[b][t] = 2 =>
              Does(b, t, BlockStride(t), <<>>, Added(b, t), TRUE, acc[b][t])
<1>1. kernel(b, t) = histogram256_kernel(b, t, phase[b][t])
  BY DEF kernel
<1>2. ASSUME phase[b][t] = 0 PROVE Does(b, t, {}, [c \in BlockStride(t) |-> 0], <<>>, FALSE, acc[b][t])
  <2>1. kernel(b, t) = [Idle(b, t) EXCEPT !.writes = [c \in BlockStride(t) |-> 0]]
    BY <1>1, <1>2 DEF histogram256_kernel, Counted, Mine, Added, Full
  <2> QED BY <2>1 DEF Does, Idle
<1>3. ASSUME phase[b][t] = 1 PROVE Does(b, t, {}, Counted(b, t), <<>>, TRUE, acc[b][t])
  <2>1. kernel(b, t) = [Idle(b, t) EXCEPT !.atomic = TRUE, !.writes = Counted(b, t)]
    BY <1>1, <1>3 DEF histogram256_kernel, Counted, Mine, Added, Full
  <2> QED BY <2>1 DEF Does, Idle
<1>4. ASSUME phase[b][t] = 2 PROVE Does(b, t, BlockStride(t), <<>>, Added(b, t), TRUE, acc[b][t])
  <2>1. kernel(b, t) = [Idle(b, t) EXCEPT !.atomic = TRUE, !.reads = BlockStride(t), !.stores = Added(b, t)]
    BY <1>1, <1>4 DEF histogram256_kernel, Counted, Mine, Added, Full
  <2> QED BY <2>1 DEF Does, Idle
<1> QED BY <1>2, <1>3, <1>4

Dot(r, c) == [k \in 1..args.K |-> <<r * args.K + k - 1, (k - 1) * args.N + c>>]
GemmAt(b, t) == row(b, t) * args.N + col(b, t)

(* gemm_naive: a thread inside the matrix stores its dot product. *)
LEMMA GemmNaiveDoes ==
  ASSUME args.kernel = "gemm_naive", NEW b, NEW t
  PROVE  /\ Inside(b, t) =>
              Does(b, t, {}, <<>>, Cell(GemmAt(b, t), Dot(row(b, t), col(b, t))), FALSE, acc[b][t])
         /\ ~Inside(b, t) =>
              Does(b, t, {}, <<>>, <<>>, FALSE, acc[b][t])
<1>1. kernel(b, t) = gemm_naive_kernel(b, t, phase[b][t])
  BY DEF kernel
<1>2. ASSUME Inside(b, t) PROVE Does(b, t, {}, <<>>, Cell(GemmAt(b, t), Dot(row(b, t), col(b, t))), FALSE, acc[b][t])
  <2>1. kernel(b, t) = [Idle(b, t) EXCEPT !.stores = Cell(GemmAt(b, t), Dot(row(b, t), col(b, t)))]
    BY <1>1, <1>2 DEF gemm_naive_kernel, GemmAt, Dot
  <2> QED BY <2>1 DEF Does, Idle
<1>3. ASSUME ~Inside(b, t) PROVE Does(b, t, {}, <<>>, <<>>, FALSE, acc[b][t])
  <2>1. kernel(b, t) = Idle(b, t)
    BY <1>1, <1>3 DEF gemm_naive_kernel, GemmAt, Dot
  <2> QED BY <2>1 DEF Does, Idle
<1> QED BY <1>2, <1>3

Tiles == ceil(args.K, kTile)
AElement(b, t, k) ==
  IF row(b, t) < args.M /\ k < args.K THEN row(b, t) * args.K + k ELSE Zero
BElement(b, t, k) ==
  IF k < args.K /\ col(b, t) < args.N THEN k * args.N + col(b, t) ELSE Zero
TileReads(t) ==
  {<<"As", <<k, t[2]>>>> : k \in 0..(kTile - 1)} \cup {<<"Bs", <<t[1], k>>>> : k \in 0..(kTile - 1)}
Loaded(b, t, tile) ==
  [x \in {"As", "Bs"} \X {t} |->
     IF x[1] = "As" THEN AElement(b, t, tile * kTile + t[1]) ELSE BElement(b, t, tile * kTile + t[2])]

(* gemm_tiled: load a tile, multiply it, in the end store. *)
LEMMA GemmTiledDoes ==
  ASSUME args.kernel = "gemm_tiled", NEW b, NEW t, NEW j \in Nat, j = phase[b][t], Tiles \in Nat
  PROVE  /\ j \div 2 < Tiles /\ j % 2 = 0 =>
              Does(b, t, {}, Loaded(b, t, j \div 2), <<>>, FALSE, acc[b][t])
         /\ j \div 2 < Tiles /\ j % 2 = 1 =>
              Does(b, t, TileReads(t), <<>>, <<>>, FALSE, Multiplied(b, t))
         /\ j \div 2 = Tiles /\ Inside(b, t) =>
              Does(b, t, {}, <<>>, Cell(GemmAt(b, t), acc[b][t]), FALSE, acc[b][t])
         /\ j \div 2 = Tiles /\ ~Inside(b, t) =>
              Does(b, t, {}, <<>>, <<>>, FALSE, acc[b][t])
<1>1. kernel(b, t) = gemm_tiled_kernel(b, t, j)
  BY DEF kernel
<1>2. ASSUME j \div 2 < Tiles /\ j % 2 = 0 PROVE Does(b, t, {}, Loaded(b, t, j \div 2), <<>>, FALSE, acc[b][t])
  <2>1. kernel(b, t) = [Idle(b, t) EXCEPT !.writes = Loaded(b, t, j \div 2)]
    BY <1>1, <1>2 DEF gemm_tiled_kernel, Loaded, AElement, BElement, TileReads, GemmAt, Tiles
  <2> QED BY <2>1 DEF Does, Idle
<1>3. ASSUME j \div 2 < Tiles /\ j % 2 = 1 PROVE Does(b, t, TileReads(t), <<>>, <<>>, FALSE, Multiplied(b, t))
  <2>1. kernel(b, t) = [Idle(b, t) EXCEPT !.acc = Multiplied(b, t), !.reads = TileReads(t)]
    BY <1>1, <1>3 DEF gemm_tiled_kernel, Loaded, AElement, BElement, TileReads, GemmAt, Tiles
  <2> QED BY <2>1 DEF Does, Idle
<1>4. ASSUME j \div 2 = Tiles /\ Inside(b, t) PROVE Does(b, t, {}, <<>>, Cell(GemmAt(b, t), acc[b][t]), FALSE, acc[b][t])
  <2>1. kernel(b, t) = [Idle(b, t) EXCEPT !.stores = Cell(GemmAt(b, t), acc[b][t])]
    BY <1>1, <1>4 DEF gemm_tiled_kernel, Loaded, AElement, BElement, TileReads, GemmAt, Tiles
  <2> QED BY <2>1 DEF Does, Idle
<1>5. ASSUME j \div 2 = Tiles /\ ~Inside(b, t) PROVE Does(b, t, {}, <<>>, <<>>, FALSE, acc[b][t])
  <2>1. kernel(b, t) = Idle(b, t)
    BY <1>1, <1>5 DEF gemm_tiled_kernel, Loaded, AElement, BElement, TileReads, GemmAt, Tiles
  <2> QED BY <2>1 DEF Does, Idle
<1> QED BY <1>2, <1>3, <1>4, <1>5

(* Where a thread of the transposition reads its input, in pass k, and     *)
(* what it leaves in the tile and in the output.                           *)
InColumn(b, t) == b[1] * kTransTile + t[1]
InRow(b, t)    == b[2] * kTransTile + t[2]
LoadPasses(b, t) == {k \in Passes : InColumn(b, t) < args.cols /\ InRow(b, t) + k < args.rows}
TileWrites(b, t) ==
  [p \in {<<t[2] + k, t[1]>> : k \in LoadPasses(b, t)} |->
     (InRow(b, t) + p[1] - t[2]) * args.cols + InColumn(b, t)]
TileStores(b, t) ==
  [i \in {StoreCell(b, t, k) : k \in StorePasses(b, t)} |->
     shared[b][<<t[1], t[2] + i \div args.rows - (b[1] * kTransTile + t[2])>>]]

(* transpose: fill the tile, then store it by columns. *)
LEMMA TransposeDoes ==
  ASSUME args.kernel = "transpose", NEW b, NEW t
  PROVE  /\ phase[b][t] = 0 =>
              Does(b, t, {}, TileWrites(b, t), <<>>, FALSE, acc[b][t])
         /\ phase[b][t] = 1 =>
              Does(b, t, {<<t[1], t[2] + k>> : k \in StorePasses(b, t)}, <<>>, TileStores(b, t), FALSE, acc[b][t])
<1>1. kernel(b, t) = transpose_kernel(b, t, phase[b][t])
  BY DEF kernel
<1>2. ASSUME phase[b][t] = 0 PROVE Does(b, t, {}, TileWrites(b, t), <<>>, FALSE, acc[b][t])
  <2>1. kernel(b, t) = [Idle(b, t) EXCEPT !.writes = TileWrites(b, t)]
    BY <1>1, <1>2 DEF transpose_kernel, TileWrites, TileStores, LoadPasses, InRow, InColumn,
           StorePasses, StoreCell, OutRow, OutColumn, Passes
  <2> QED BY <2>1 DEF Does, Idle
<1>3. ASSUME phase[b][t] = 1 PROVE Does(b, t, {<<t[1], t[2] + k>> : k \in StorePasses(b, t)}, <<>>, TileStores(b, t), FALSE, acc[b][t])
  <2>1. kernel(b, t) = [Idle(b, t) EXCEPT !.reads = {<<t[1], t[2] + k>> : k \in StorePasses(b, t)},
                          !.stores = TileStores(b, t)]
    BY <1>1, <1>3 DEF transpose_kernel, TileWrites, TileStores, LoadPasses, InRow, InColumn,
           StorePasses, StoreCell, OutRow, OutColumn, Passes
  <2> QED BY <2>1 DEF Does, Idle
<1> QED BY <1>2, <1>3

(* The first stride is the block. *)
LEMMA FirstStride ==
  ASSUME Valid, args.kernel = "reduce_sum"
  PROVE  Stride(0) = args.block /\ Stride(0) # 0
<1>1. 2^0 = 1
  OBVIOUS
<1>2. args.block \in Nat \ {0}
  BY VectorLaunch DEF Vector
<1>3. args.block \div 1 = args.block
  BY <1>2
<1> QED BY <1>1, <1>2, <1>3 DEF Stride

-----------------------------------------------------------------------------
(* Powers of two, which the provers know as numbers of subsets only.       *)

(* 2^(n + 1) is twice 2^n: a new element is in a subset or not. *)
LEMMA PowerStep ==
  ASSUME NEW n \in Nat
  PROVE  2^n \in Nat \ {0} /\ 2^(n + 1) = 2 * 2^n
<1> DEFINE S == 1..n
           X == SUBSET S
           Y == {s \in SUBSET (1..(n + 1)) : n + 1 \in s}
<1>1. IsFiniteSet(S) /\ Cardinality(S) = n
  BY FS_Interval
<1>2. IsFiniteSet(1..(n + 1)) /\ Cardinality(1..(n + 1)) = n + 1
  <2>1. 1 \in Int /\ n + 1 \in Int /\ ~(1 > n + 1) /\ (n + 1) - 1 + 1 = n + 1
    OBVIOUS
  <2> QED BY <2>1, FS_Interval
<1>3. IsFiniteSet(X) /\ Cardinality(X) = 2^n
  BY <1>1, FS_SUBSET
<1>4. Cardinality(SUBSET (1..(n + 1))) = 2^(n + 1)
  BY <1>2, FS_SUBSET
<1>5. n + 1 \notin S
  OBVIOUS
<1>6. SUBSET (1..(n + 1)) = X \cup Y
  <2>1. ASSUME NEW s \in SUBSET (1..(n + 1)), n + 1 \notin s PROVE s \in X
    BY <2>1
  <2>2. X \subseteq SUBSET (1..(n + 1))
    OBVIOUS
  <2> QED BY <2>1, <2>2
<1>7. X \cap Y = {}
  BY <1>5
<1>8. ExistsBijection(X, Y)
  <2> DEFINE f == [s \in X |-> s \cup {n + 1}]
  <2>1. ASSUME NEW s \in X PROVE s \cup {n + 1} \in Y
    <3>1. s \cup {n + 1} \in SUBSET (1..(n + 1))
      OBVIOUS
    <3> QED BY <3>1
  <2>2. ASSUME NEW s \in X, NEW r \in X, s \cup {n + 1} = r \cup {n + 1} PROVE s = r
    BY <1>5, <2>2
  <2>3. ASSUME NEW y \in Y PROVE \E s \in X : s \cup {n + 1} = y
    <3>1. y \ {n + 1} \in X /\ (y \ {n + 1}) \cup {n + 1} = y
      OBVIOUS
    <3> QED BY <3>1
  <2>4. f \in Bijection(X, Y)
    <3> HIDE DEF X, Y
    <3>1. f \in [X -> Y]
      BY <2>1
    <3>2. \A s, r \in X : f[s] = f[r] => s = r
      BY <2>2
    <3>3. \A y \in Y : \E s \in X : f[s] = y
      BY <2>3
    <3> HIDE DEF f
    <3> QED BY <3>1, <3>2, <3>3 DEF Bijection, Injection, Surjection, IsInjective
  <2> QED BY <2>4 DEF ExistsBijection
<1> HIDE DEF X, Y
<1>9. IsFiniteSet(Y) /\ Cardinality(Y) = Cardinality(X)
  BY <1>3, <1>8, FS_Bijection
<1>10. Cardinality(X) \in Nat /\ Cardinality(X \cap Y) = 0
  BY <1>3, <1>7, FS_CardinalityType, FS_EmptySet
<1>11. Cardinality(X \cup Y) = Cardinality(X) + Cardinality(Y) - Cardinality(X \cap Y)
  BY <1>3, <1>9, FS_Union
<1>12. Cardinality(X) # 0
  <2>1. {} \in X
    BY DEF X
  <2> QED BY <1>3, <2>1, FS_EmptySet
<1>13. PICK c \in Nat \ {0} : c = Cardinality(X)
  BY <1>10, <1>12
<1>14. Cardinality(X \cup Y) = c + c
  BY <1>9, <1>10, <1>11, <1>13
<1>15. 2^n = c /\ 2^(n + 1) = c + c
  BY <1>3, <1>4, <1>6, <1>13, <1>14
<1> QED BY <1>15

(* A stride is a number of threads. *)
LEMMA StrideNat ==
  ASSUME Valid, args.kernel = "reduce_sum", NEW j \in Nat
  PROVE  Stride(j) \in Nat
<1>1. args.block \in Nat \ {0}
  BY VectorLaunch DEF Vector
<1>2. 2^j \in Nat \ {0}
  BY PowerStep
<1>3. PICK p \in Nat \ {0}, n \in Nat : p = 2^j /\ n = args.block
  BY <1>1, <1>2
<1>4. n \div p \in Nat
  BY Division
<1> QED BY <1>3, <1>4 DEF Stride

-----------------------------------------------------------------------------
(* No races.                                                               *)

Phases == status = "running" => Valid /\ phase \in [Blocks -> [Threads -> Nat]]

NoRace(b, t, d, u) ==
  LET s == kernel(b, t)
      r == kernel(d, u)
  IN  \/ s.atomic /\ r.atomic
      \/ /\ DOMAIN s.stores \cap DOMAIN r.stores = {}
         /\ b = d => DOMAIN s.writes \cap (r.reads \cup DOMAIN r.writes) = {}

(* Two threads that may run, those of one block between the same barriers. *)
Both(b, t, d, u) ==
  /\ Valid /\ b \in Blocks /\ d \in Blocks /\ t \in Threads /\ u \in Threads
  /\ b # d \/ t # u
  /\ phase[b][t] \in Nat /\ phase[d][u] \in Nat
  /\ phase[b][t] < Segments /\ phase[d][u] < Segments
  /\ b = d => phase[b][t] = phase[d][u]

(* The empty tuple writes nothing. *)
LEMMA NothingWritten == DOMAIN <<>> = {}
OBVIOUS

(* A cell writes one place. *)
LEMMA OneCell == ASSUME NEW c, NEW v PROVE DOMAIN Cell(c, v) = {c} /\ Cell(c, v)[c] = v
BY DEF Cell

(* The cells a segment reads, writes and stores to. *)
Touches(b, t, R, W, S, at) ==
  /\ kernel(b, t).reads = R /\ DOMAIN kernel(b, t).writes = W
  /\ DOMAIN kernel(b, t).stores = S /\ kernel(b, t).atomic = at

(* The footprint of a segment, from what it does. *)
LEMMA DoesTouches ==
  ASSUME NEW b, NEW t, NEW r, NEW w, NEW s, NEW at, NEW a, Does(b, t, r, w, s, at, a)
  PROVE  Touches(b, t, r, DOMAIN w, DOMAIN s, at)
BY DEF Does, Touches

(* Disjoint footprints, or atomic ones, do not race. *)
LEMMA TouchesNoRace ==
  ASSUME NEW b, NEW t, NEW R, NEW W, NEW S, NEW at, Touches(b, t, R, W, S, at),
         NEW d, NEW u, NEW Q, NEW X, NEW Y, NEW au, Touches(d, u, Q, X, Y, au),
         (at = TRUE /\ au = TRUE) \/ (S \cap Y = {} /\ (b = d => W \cap (Q \cup X) = {}))
  PROVE  NoRace(b, t, d, u)
BY DEF Touches, NoRace

(* The footprint of vector_add. *)
LEMMA VectorAddTouches ==
  ASSUME args.kernel = "vector_add", NEW b, NEW t
  PROVE  Touches(b, t, {}, {}, GridStride(b, t), FALSE)
<1>1. Does(b, t, {}, <<>>, [i \in GridStride(b, t) |-> i], FALSE, acc[b][t])
  BY VectorAddDoes
<1>2. Touches(b, t, {}, DOMAIN <<>>, DOMAIN [i \in GridStride(b, t) |-> i], FALSE)
  BY <1>1, DoesTouches
<1> QED BY <1>2, NothingWritten

(* The footprints of the segments of reduce_sum. *)
LEMMA ReduceTouches ==
  ASSUME args.kernel = "reduce_sum", NEW b, NEW t, NEW j \in Nat, j = phase[b][t], Stride(0) # 0
  PROVE  /\ j = 0 => Touches(b, t, {}, {t[1]}, {}, FALSE)
         /\ j > 0 /\ t[1] < Stride(j) => Touches(b, t, {t[1], t[1] + Stride(j)}, {t[1]}, {}, FALSE)
         /\ j > 0 /\ ~(t[1] < Stride(j)) /\ Stride(j) = 0 /\ t[1] = 0 => Touches(b, t, {0}, {}, {0}, TRUE)
         /\ j > 0 /\ ~(t[1] < Stride(j)) /\ ~(Stride(j) = 0 /\ t[1] = 0) => Touches(b, t, {}, {}, {}, FALSE)
<1>1. ASSUME j = 0 PROVE Touches(b, t, {}, {t[1]}, {}, FALSE)
  <2>1. Does(b, t, {}, Cell(t[1], InputSum(GridStride(b, t))), <<>>, FALSE, acc[b][t])
    BY <1>1, ReduceDoes
  <2>2. Touches(b, t, {}, DOMAIN Cell(t[1], InputSum(GridStride(b, t))), DOMAIN <<>>, FALSE)
    BY <2>1, DoesTouches
  <2> QED BY <2>2, NothingWritten, OneCell
<1>2. ASSUME j > 0 /\ t[1] < Stride(j) PROVE Touches(b, t, {t[1], t[1] + Stride(j)}, {t[1]}, {}, FALSE)
  <2>1. Does(b, t, {t[1], t[1] + Stride(j)}, Cell(t[1], shared[b][t[1]] + shared[b][t[1] + Stride(j)]), <<>>, FALSE, acc[b][t])
    BY <1>2, ReduceDoes
  <2>2. Touches(b, t, {t[1], t[1] + Stride(j)}, DOMAIN Cell(t[1], shared[b][t[1]] + shared[b][t[1] + Stride(j)]), DOMAIN <<>>, FALSE)
    BY <2>1, DoesTouches
  <2> QED BY <2>2, NothingWritten, OneCell
<1>3. ASSUME j > 0 /\ ~(t[1] < Stride(j)) /\ Stride(j) = 0 /\ t[1] = 0 PROVE Touches(b, t, {0}, {}, {0}, TRUE)
  <2>1. Does(b, t, {0}, <<>>, Cell(0, out[0] + shared[b][0]), TRUE, acc[b][t])
    BY <1>3, ReduceDoes
  <2>2. Touches(b, t, {0}, DOMAIN <<>>, DOMAIN Cell(0, out[0] + shared[b][0]), TRUE)
    BY <2>1, DoesTouches
  <2> QED BY <2>2, NothingWritten, OneCell
<1>4. ASSUME j > 0 /\ ~(t[1] < Stride(j)) /\ ~(Stride(j) = 0 /\ t[1] = 0) PROVE Touches(b, t, {}, {}, {}, FALSE)
  <2>1. Does(b, t, {}, <<>>, <<>>, FALSE, acc[b][t])
    BY <1>4, ReduceDoes
  <2>2. Touches(b, t, {}, DOMAIN <<>>, DOMAIN <<>>, FALSE)
    BY <2>1, DoesTouches
  <2> QED BY <2>2, NothingWritten, OneCell
<1> QED BY <1>1, <1>2, <1>3, <1>4

(* The footprints of the segments of histogram256. *)
LEMMA HistogramTouches ==
  ASSUME args.kernel = "histogram256", NEW b, NEW t
  PROVE  /\ phase[b][t] = 0 => Touches(b, t, {}, BlockStride(t), {}, FALSE)
         /\ phase[b][t] = 1 => Touches(b, t, {}, {args.in[i] : i \in GridStride(b, t)}, {}, TRUE)
         /\ phase[b][t] = 2 => Touches(b, t, BlockStride(t), {}, Full(b, t), TRUE)
<1>1. ASSUME phase[b][t] = 0 PROVE Touches(b, t, {}, BlockStride(t), {}, FALSE)
  <2>1. Does(b, t, {}, [c \in BlockStride(t) |-> 0], <<>>, FALSE, acc[b][t])
    BY <1>1, HistogramDoes
  <2>2. Touches(b, t, {}, DOMAIN [c \in BlockStride(t) |-> 0], DOMAIN <<>>, FALSE)
    BY <2>1, DoesTouches
  <2> QED BY <2>2, NothingWritten, OneCell
<1>2. ASSUME phase[b][t] = 1 PROVE Touches(b, t, {}, {args.in[i] : i \in GridStride(b, t)}, {}, TRUE)
  <2>1. Does(b, t, {}, Counted(b, t), <<>>, TRUE, acc[b][t])
    BY <1>2, HistogramDoes
  <2>2. Touches(b, t, {}, DOMAIN Counted(b, t), DOMAIN <<>>, TRUE)
    BY <2>1, DoesTouches
  <2> QED BY <2>2, NothingWritten, OneCell DEF Counted
<1>3. ASSUME phase[b][t] = 2 PROVE Touches(b, t, BlockStride(t), {}, Full(b, t), TRUE)
  <2>1. Does(b, t, BlockStride(t), <<>>, Added(b, t), TRUE, acc[b][t])
    BY <1>3, HistogramDoes
  <2>2. Touches(b, t, BlockStride(t), DOMAIN <<>>, DOMAIN Added(b, t), TRUE)
    BY <2>1, DoesTouches
  <2> QED BY <2>2, NothingWritten, OneCell DEF Added
<1> QED BY <1>1, <1>2, <1>3

(* The footprint of gemm_naive. *)
LEMMA GemmNaiveTouches ==
  ASSUME args.kernel = "gemm_naive", NEW b, NEW t
  PROVE  /\ Inside(b, t) => Touches(b, t, {}, {}, {GemmAt(b, t)}, FALSE)
         /\ ~Inside(b, t) => Touches(b, t, {}, {}, {}, FALSE)
<1>1. ASSUME Inside(b, t) PROVE Touches(b, t, {}, {}, {GemmAt(b, t)}, FALSE)
  <2>1. Does(b, t, {}, <<>>, Cell(GemmAt(b, t), Dot(row(b, t), col(b, t))), FALSE, acc[b][t])
    BY <1>1, GemmNaiveDoes
  <2>2. Touches(b, t, {}, DOMAIN <<>>, DOMAIN Cell(GemmAt(b, t), Dot(row(b, t), col(b, t))), FALSE)
    BY <2>1, DoesTouches
  <2> QED BY <2>2, NothingWritten, OneCell
<1>2. ASSUME ~Inside(b, t) PROVE Touches(b, t, {}, {}, {}, FALSE)
  <2>1. Does(b, t, {}, <<>>, <<>>, FALSE, acc[b][t])
    BY <1>2, GemmNaiveDoes
  <2>2. Touches(b, t, {}, DOMAIN <<>>, DOMAIN <<>>, FALSE)
    BY <2>1, DoesTouches
  <2> QED BY <2>2, NothingWritten, OneCell
<1> QED BY <1>1, <1>2

(* The footprints of the segments of gemm_tiled. *)
LEMMA GemmTiledTouches ==
  ASSUME args.kernel = "gemm_tiled", NEW b, NEW t, NEW j \in Nat, j = phase[b][t], Tiles \in Nat
  PROVE  /\ j \div 2 < Tiles /\ j % 2 = 0 => Touches(b, t, {}, {"As", "Bs"} \X {t}, {}, FALSE)
         /\ j \div 2 < Tiles /\ j % 2 = 1 => Touches(b, t, TileReads(t), {}, {}, FALSE)
         /\ j \div 2 = Tiles /\ Inside(b, t) => Touches(b, t, {}, {}, {GemmAt(b, t)}, FALSE)
         /\ j \div 2 = Tiles /\ ~Inside(b, t) => Touches(b, t, {}, {}, {}, FALSE)
<1>1. ASSUME j \div 2 < Tiles /\ j % 2 = 0 PROVE Touches(b, t, {}, {"As", "Bs"} \X {t}, {}, FALSE)
  <2>1. Does(b, t, {}, Loaded(b, t, j \div 2), <<>>, FALSE, acc[b][t])
    BY <1>1, GemmTiledDoes
  <2>2. Touches(b, t, {}, DOMAIN Loaded(b, t, j \div 2), DOMAIN <<>>, FALSE)
    BY <2>1, DoesTouches
  <2> QED BY <2>2, NothingWritten, OneCell DEF Loaded
<1>2. ASSUME j \div 2 < Tiles /\ j % 2 = 1 PROVE Touches(b, t, TileReads(t), {}, {}, FALSE)
  <2>1. Does(b, t, TileReads(t), <<>>, <<>>, FALSE, Multiplied(b, t))
    BY <1>2, GemmTiledDoes
  <2>2. Touches(b, t, TileReads(t), DOMAIN <<>>, DOMAIN <<>>, FALSE)
    BY <2>1, DoesTouches
  <2> QED BY <2>2, NothingWritten, OneCell
<1>3. ASSUME j \div 2 = Tiles /\ Inside(b, t) PROVE Touches(b, t, {}, {}, {GemmAt(b, t)}, FALSE)
  <2>1. Does(b, t, {}, <<>>, Cell(GemmAt(b, t), acc[b][t]), FALSE, acc[b][t])
    BY <1>3, GemmTiledDoes
  <2>2. Touches(b, t, {}, DOMAIN <<>>, DOMAIN Cell(GemmAt(b, t), acc[b][t]), FALSE)
    BY <2>1, DoesTouches
  <2> QED BY <2>2, NothingWritten, OneCell
<1>4. ASSUME j \div 2 = Tiles /\ ~Inside(b, t) PROVE Touches(b, t, {}, {}, {}, FALSE)
  <2>1. Does(b, t, {}, <<>>, <<>>, FALSE, acc[b][t])
    BY <1>4, GemmTiledDoes
  <2>2. Touches(b, t, {}, DOMAIN <<>>, DOMAIN <<>>, FALSE)
    BY <2>1, DoesTouches
  <2> QED BY <2>2, NothingWritten, OneCell
<1> QED BY <1>1, <1>2, <1>3, <1>4

(* The footprints of the two halves of the transposition. *)
LEMMA TransposeTouches ==
  ASSUME args.kernel = "transpose", NEW b, NEW t
  PROVE  /\ phase[b][t] = 0 => Touches(b, t, {}, {<<t[2] + k, t[1]>> : k \in LoadPasses(b, t)}, {}, FALSE)
         /\ phase[b][t] = 1 => Touches(b, t, {<<t[1], t[2] + k>> : k \in StorePasses(b, t)}, {},
                 {StoreCell(b, t, k) : k \in StorePasses(b, t)}, FALSE)
<1>1. ASSUME phase[b][t] = 0 PROVE Touches(b, t, {}, {<<t[2] + k, t[1]>> : k \in LoadPasses(b, t)}, {}, FALSE)
  <2>1. Does(b, t, {}, TileWrites(b, t), <<>>, FALSE, acc[b][t])
    BY <1>1, TransposeDoes
  <2>2. Touches(b, t, {}, DOMAIN TileWrites(b, t), DOMAIN <<>>, FALSE)
    BY <2>1, DoesTouches
  <2> QED BY <2>2, NothingWritten, OneCell DEF TileWrites
<1>2. ASSUME phase[b][t] = 1 PROVE Touches(b, t, {<<t[1], t[2] + k>> : k \in StorePasses(b, t)}, {},
                 {StoreCell(b, t, k) : k \in StorePasses(b, t)}, FALSE)
  <2>1. Does(b, t, {<<t[1], t[2] + k>> : k \in StorePasses(b, t)}, <<>>, TileStores(b, t), FALSE, acc[b][t])
    BY <1>2, TransposeDoes
  <2>2. Touches(b, t, {<<t[1], t[2] + k>> : k \in StorePasses(b, t)}, DOMAIN <<>>, DOMAIN TileStores(b, t), FALSE)
    BY <2>1, DoesTouches
  <2> QED BY <2>2, NothingWritten, OneCell DEF TileStores
<1> QED BY <1>1, <1>2

(* vector_add: an index has one owner. *)
LEMMA VectorAddNoRace ==
  ASSUME NEW b, NEW t, NEW d, NEW u, Both(b, t, d, u), args.kernel = "vector_add"
  PROVE  NoRace(b, t, d, u)
<1>1. GridStride(b, t) \cap GridStride(d, u) = {}
  BY StrideOwner DEF Both, Vector
<1>2. Touches(b, t, {}, {}, GridStride(b, t), FALSE) /\ Touches(d, u, {}, {}, GridStride(d, u), FALSE)
  BY VectorAddTouches
<1> QED BY <1>1, <1>2 DEF Touches, NoRace

(* reduce_sum: who writes is below the stride, what it reads else is not. *)
LEMMA ReduceNoRace ==
  ASSUME NEW b, NEW t, NEW d, NEW u, Both(b, t, d, u), args.kernel = "reduce_sum"
  PROVE  NoRace(b, t, d, u)
<1>1. Valid /\ args.kernel \in Vector /\ b \in Blocks /\ d \in Blocks /\ t \in Threads /\ u \in Threads
  BY DEF Both, Vector
<1>2. t \in (0..(args.block - 1)) \X (0..0) /\ u \in (0..(args.block - 1)) \X (0..0) /\ args.block \in Nat
  BY <1>1, VectorLaunch
<1>3. t[1] \in Nat /\ u[1] \in Nat /\ (t[1] = u[1] => t = u)
  BY <1>2
<1>4. PICK j \in Nat, k \in Nat : j = phase[b][t] /\ k = phase[d][u]
  BY DEF Both
<1>5. Stride(j) \in Nat /\ Stride(k) \in Nat /\ Stride(0) # 0
  BY <1>1, StrideNat, FirstStride
<1>6. PICK R, W, S, at :
        /\ Touches(b, t, R, W, S, at) /\ (at = TRUE \/ S = {})
        /\ W = {} \/ (W = {t[1]} /\ (j = 0 \/ t[1] < Stride(j)))
  <2>1. CASE j = 0
    <3>1. Touches(b, t, {}, {t[1]}, {}, FALSE)
      BY <1>4, <1>5, <2>1, ReduceTouches
    <3> QED BY <2>1, <3>1
  <2>2. CASE j > 0 /\ t[1] < Stride(j)
    <3>1. Touches(b, t, {t[1], t[1] + Stride(j)}, {t[1]}, {}, FALSE)
      BY <1>4, <1>5, <2>2, ReduceTouches
    <3> QED BY <2>2, <3>1
  <2>3. CASE j > 0 /\ ~(t[1] < Stride(j)) /\ Stride(j) = 0 /\ t[1] = 0
    <3>1. Touches(b, t, {0}, {}, {0}, TRUE)
      BY <1>4, <1>5, <2>3, ReduceTouches
    <3> QED BY <2>3, <3>1
  <2>4. CASE j > 0 /\ ~(t[1] < Stride(j)) /\ ~(Stride(j) = 0 /\ t[1] = 0)
    <3>1. Touches(b, t, {}, {}, {}, FALSE)
      BY <1>4, <1>5, <2>4, ReduceTouches
    <3> QED BY <3>1
  <2>5. j = 0 \/ j > 0
    OBVIOUS
  <2> QED BY Zenon, <2>1, <2>2, <2>3, <2>4, <2>5
<1>7. PICK Q, X, Y, au :
        /\ Touches(d, u, Q, X, Y, au) /\ (au = TRUE \/ Y = {})
        /\ \/ Q = {} /\ X = {u[1]} /\ k = 0
           \/ Q = {u[1], u[1] + Stride(k)} /\ X = {u[1]} /\ k > 0
           \/ Q = {0} /\ X = {} /\ Stride(k) = 0 /\ k > 0
           \/ Q = {} /\ X = {}
  <2>1. CASE k = 0
    <3>1. Touches(d, u, {}, {u[1]}, {}, FALSE)
      BY <1>4, <1>5, <2>1, ReduceTouches
    <3> QED BY <2>1, <3>1
  <2>2. CASE k > 0 /\ u[1] < Stride(k)
    <3>1. Touches(d, u, {u[1], u[1] + Stride(k)}, {u[1]}, {}, FALSE)
      BY <1>4, <1>5, <2>2, ReduceTouches
    <3> QED BY <2>2, <3>1
  <2>3. CASE k > 0 /\ ~(u[1] < Stride(k)) /\ Stride(k) = 0 /\ u[1] = 0
    <3>1. Touches(d, u, {0}, {}, {0}, TRUE)
      BY <1>4, <1>5, <2>3, ReduceTouches
    <3> QED BY <2>3, <3>1
  <2>4. CASE k > 0 /\ ~(u[1] < Stride(k)) /\ ~(Stride(k) = 0 /\ u[1] = 0)
    <3>1. Touches(d, u, {}, {}, {}, FALSE)
      BY <1>4, <1>5, <2>4, ReduceTouches
    <3> QED BY <3>1
  <2>5. k = 0 \/ k > 0
    OBVIOUS
  <2> QED BY Zenon, <2>1, <2>2, <2>3, <2>4, <2>5
<1>8. ASSUME b = d PROVE W \cap (Q \cup X) = {}
  <2>1. j = k /\ t[1] # u[1]
    BY <1>3, <1>4, <1>8 DEF Both
  <2>2. t[1] < Stride(j) => t[1] # u[1] + Stride(k) /\ Stride(k) # 0
    BY <1>3, <1>5, <2>1
  <2> QED BY <1>6, <1>7, <2>1, <2>2
<1>9. (at = TRUE /\ au = TRUE) \/ (S \cap Y = {} /\ (b = d => W \cap (Q \cup X) = {}))
  BY <1>6, <1>7, <1>8
<1>10. Touches(b, t, R, W, S, at) /\ Touches(d, u, Q, X, Y, au)
  BY <1>6, <1>7
<1>11. CASE at = TRUE /\ au = TRUE
  BY <1>10, <1>11 DEF Touches, NoRace
<1>12. CASE S \cap Y = {} /\ (b = d => W \cap (Q \cup X) = {})
  BY <1>10, <1>12 DEF Touches, NoRace
<1> QED BY <1>9, <1>11, <1>12

(* histogram256: the cells are split among the threads, or added to atomically. *)
LEMMA HistogramNoRace ==
  ASSUME NEW b, NEW t, NEW d, NEW u, Both(b, t, d, u), args.kernel = "histogram256"
  PROVE  NoRace(b, t, d, u)
<1>1. Valid /\ args.kernel \in Vector /\ b \in Blocks /\ d \in Blocks /\ t \in Threads /\ u \in Threads
  BY DEF Both, Vector
<1>2. Segments = 3
  BY DEF Segments
<1>3. phase[b][t] \in {0, 1, 2} /\ phase[d][u] \in {0, 1, 2}
  BY <1>2 DEF Both
<1>4. PICK R, W, S, at :
        /\ Touches(b, t, R, W, S, at)
        /\ (at = TRUE /\ phase[b][t] # 0) \/ (R = {} /\ W = BlockStride(t) /\ S = {} /\ phase[b][t] = 0)
  BY <1>3, HistogramTouches
<1>5. PICK Q, X, Y, au :
        /\ Touches(d, u, Q, X, Y, au)
        /\ (au = TRUE /\ phase[d][u] # 0) \/ (Q = {} /\ X = BlockStride(u) /\ Y = {} /\ phase[d][u] = 0)
  BY <1>3, HistogramTouches
<1>6. ASSUME b = d PROVE BlockStride(t) \cap BlockStride(u) = {} /\ phase[b][t] = phase[d][u]
  BY <1>1, <1>6, BlockStrideOwner DEF Both
<1>7. (at = TRUE /\ au = TRUE) \/ (S \cap Y = {} /\ (b = d => W \cap (Q \cup X) = {}))
  BY <1>4, <1>5, <1>6
<1> QED BY <1>4, <1>5, <1>7, TouchesNoRace

(* The threads of a product store to different cells. *)
LEMMA GemmStores ==
  ASSUME Valid, args.kernel \in Gemm, NEW b \in Blocks, NEW d \in Blocks, NEW t \in Threads, NEW u \in Threads,
         b # d \/ t # u, Inside(b, t), Inside(d, u)
  PROVE  GemmAt(b, t) # GemmAt(d, u)
<1>1. row(b, t) = GemmAt(b, t) \div args.N /\ col(b, t) = GemmAt(b, t) % args.N
  BY GemmCell DEF GemmAt
<1>2. row(d, u) = GemmAt(d, u) \div args.N /\ col(d, u) = GemmAt(d, u) % args.N
  BY GemmCell DEF GemmAt
<1> QED BY <1>1, <1>2, GemmDistinct

(* gemm_naive: an element of the product has one thread. *)
LEMMA GemmNaiveNoRace ==
  ASSUME NEW b, NEW t, NEW d, NEW u, Both(b, t, d, u), args.kernel = "gemm_naive"
  PROVE  NoRace(b, t, d, u)
<1>1. Inside(b, t) /\ Inside(d, u) => GemmAt(b, t) # GemmAt(d, u)
  BY GemmStores DEF Both, Gemm
<1>2. PICK S : Touches(b, t, {}, {}, S, FALSE) /\ (S = {} \/ (S = {GemmAt(b, t)} /\ Inside(b, t)))
  BY GemmNaiveTouches
<1>3. PICK Y : Touches(d, u, {}, {}, Y, FALSE) /\ (Y = {} \/ (Y = {GemmAt(d, u)} /\ Inside(d, u)))
  BY GemmNaiveTouches
<1>4. S \cap Y = {}
  BY <1>1, <1>2, <1>3
<1> QED BY <1>2, <1>3, <1>4 DEF Touches, NoRace

(* gemm_tiled: a thread writes its own place of a tile only. *)
LEMMA GemmTiledNoRace ==
  ASSUME NEW b, NEW t, NEW d, NEW u, Both(b, t, d, u), args.kernel = "gemm_tiled"
  PROVE  NoRace(b, t, d, u)
<1>1. Valid /\ args.kernel \in Gemm /\ b \in Blocks /\ d \in Blocks /\ t \in Threads /\ u \in Threads
  BY DEF Both, Gemm
<1>2. Tiles \in Nat
  BY <1>1, GemmLaunch, Ceil DEF Tiles
<1>3. Inside(b, t) /\ Inside(d, u) => GemmAt(b, t) # GemmAt(d, u)
  BY <1>1, GemmStores DEF Both
<1>4. PICK j \in Nat, k \in Nat : j = phase[b][t] /\ k = phase[d][u]
  BY DEF Both
<1>5. Segments = 2 * Tiles + 1
  BY DEF Segments, Tiles
<1>6. j < 2 * Tiles + 1 /\ k < 2 * Tiles + 1
  BY <1>4, <1>5 DEF Both
<1>7. ASSUME NEW i \in Nat, i < 2 * Tiles + 1
      PROVE  i \div 2 = Tiles \/ (i \div 2 < Tiles /\ i % 2 \in {0, 1})
  BY <1>2, <1>7
<1>8. PICK R, W, S :
        /\ Touches(b, t, R, W, S, FALSE) /\ (S = {} \/ (S = {GemmAt(b, t)} /\ Inside(b, t)))
        /\ W = {} \/ (W = {"As", "Bs"} \X {t} /\ j \div 2 < Tiles /\ j % 2 = 0)
  BY <1>2, <1>4, <1>6, <1>7, GemmTiledTouches
<1>9. PICK Q, X, Y :
        /\ Touches(d, u, Q, X, Y, FALSE) /\ (Y = {} \/ (Y = {GemmAt(d, u)} /\ Inside(d, u)))
        /\ X = {} \/ X = {"As", "Bs"} \X {u}
        /\ k \div 2 < Tiles /\ k % 2 = 0 => Q = {}
  BY <1>2, <1>4, <1>6, <1>7, GemmTiledTouches
<1>10. S \cap Y = {}
  BY <1>3, <1>8, <1>9
<1>11. ASSUME b = d PROVE W \cap (Q \cup X) = {}
  <2>1. j = k /\ t # u
    BY <1>4, <1>11 DEF Both
  <2>2. ({"As", "Bs"} \X {t}) \cap ({"As", "Bs"} \X {u}) = {}
    BY <2>1
  <2> QED BY <1>8, <1>9, <2>1, <2>2
<1> QED BY <1>8, <1>9, <1>10, <1>11, TouchesNoRace

(* transpose: a place of the tile and a cell of the output have one writer. *)
LEMMA TransposeNoRace ==
  ASSUME NEW b, NEW t, NEW d, NEW u, Both(b, t, d, u), args.kernel = "transpose"
  PROVE  NoRace(b, t, d, u)
<1>1. Valid /\ b \in Blocks /\ d \in Blocks /\ t \in Threads /\ u \in Threads /\ (b # d \/ t # u)
  BY DEF Both
<1>2. Segments = 2
  BY DEF Segments
<1>3. phase[b][t] \in {0, 1} /\ phase[d][u] \in {0, 1}
  BY <1>2 DEF Both
<1> DEFINE W(s, c) == {<<c[2] + k, c[1]>> : k \in LoadPasses(s, c)}
           S(s, c) == {StoreCell(s, c, k) : k \in StorePasses(s, c)}
<1>4. PICK R : \/ Touches(b, t, R, W(b, t), {}, FALSE) /\ phase[b][t] = 0
               \/ Touches(b, t, R, {}, S(b, t), FALSE) /\ phase[b][t] = 1
  BY <1>3, TransposeTouches
<1>5. PICK Q : \/ Touches(d, u, {}, W(d, u), {}, FALSE) /\ phase[d][u] = 0
               \/ Touches(d, u, Q, {}, S(d, u), FALSE) /\ phase[d][u] = 1
  BY <1>3, TransposeTouches
<1>6. S(b, t) \cap S(d, u) = {}
  BY <1>1, StoreDistinct
<1>7. ASSUME b = d PROVE W(b, t) \cap W(d, u) = {} /\ phase[b][t] = phase[d][u]
  <2>1. /\ t[1] \in 0..(kTransTile - 1) /\ t[2] \in 0..(kTransRows - 1) /\ t = <<t[1], t[2]>>
        /\ u[1] \in 0..(kTransTile - 1) /\ u[2] \in 0..(kTransRows - 1) /\ u = <<u[1], u[2]>>
    BY <1>1, TransposePlace
  <2>2. ASSUME NEW k \in Passes, NEW l \in Passes, t[2] + k = u[2] + l, t[1] = u[1] PROVE FALSE
    <3>1. (t[2] + k) % kTransRows = t[2] /\ (u[2] + l) % kTransRows = u[2]
      BY <1>1, <2>1, PassPlace
    <3>2. t = u
      BY <2>1, <2>2, <3>1
    <3> QED BY <1>1, <1>7, <3>2
  <2>3. phase[b][t] = phase[d][u]
    BY <1>7 DEF Both
  <2>4. LoadPasses(b, t) \subseteq Passes /\ LoadPasses(d, u) \subseteq Passes
    BY DEF LoadPasses
  <2> QED BY <2>2, <2>3, <2>4
<1> HIDE DEF W, S
<1>8. CASE phase[b][t] = 0 /\ phase[d][u] = 0
  BY <1>4, <1>5, <1>7, <1>8 DEF Touches, NoRace
<1>9. CASE phase[b][t] = 1 \/ phase[d][u] = 1
  BY <1>4, <1>5, <1>6, <1>7, <1>9 DEF Touches, NoRace
<1> QED BY <1>3, <1>8, <1>9

(* Whatever the kernel, two threads that may run do not race. *)
LEMMA BothNoRace ==
  ASSUME NEW b, NEW t, NEW d, NEW u, Both(b, t, d, u)
  PROVE  NoRace(b, t, d, u)
<1>1. args.kernel \in {"vector_add", "reduce_sum", "histogram256", "gemm_naive", "gemm_tiled", "transpose"}
  BY SomeKernel DEF Both
<1> QED BY <1>1, VectorAddNoRace, ReduceNoRace, HistogramNoRace, GemmNaiveNoRace, GemmTiledNoRace, TransposeNoRace

(* Threads of one block that may both run are between the same barriers. *)
LEMMA PhasesNoRace == Phases => RaceFree
<1> SUFFICES ASSUME Phases, status = "running",
                    NEW b \in Blocks, NEW d \in Blocks, NEW t \in Threads, NEW u \in Threads,
                    <<b, t>> # <<d, u>>, CanRun(b, t), CanRun(d, u)
             PROVE  NoRace(b, t, d, u)
  BY DEF RaceFree, NoRace
<1>1. Valid /\ phase \in [Blocks -> [Threads -> Nat]]
  BY DEF Phases
<1>2. phase[b][t] \in Nat /\ phase[d][u] \in Nat /\ (b # d \/ t # u)
  BY <1>1
<1>3. phase[b][t] < Segments /\ phase[d][u] < Segments
  BY DEF CanRun
<1>4. ASSUME b = d PROVE phase[b][t] = phase[d][u]
  <2>1. phase[b][t] >= phase[d][u] /\ phase[d][u] >= phase[b][t]
    BY <1>4 DEF CanRun, syncthreads
  <2> QED BY <1>2, <2>1
<1>5. Both(b, t, d, u)
  BY <1>1, <1>2, <1>3, <1>4 DEF Both
<1> QED BY <1>5, BothNoRace

(* Phases is inductive: a barrier counter only goes up. *)
LEMMA PhasesStep == Phases /\ args \in Launches /\ [Next]_vars => Phases' /\ args' = args
<1> SUFFICES ASSUME Phases, args \in Launches, [Next]_vars PROVE Phases' /\ args' = args
  OBVIOUS
<1>1. args' = args
  BY DEF Next, launch, RunSome, Run, Finish, vars
<1>2. Blocks' = Blocks /\ Threads' = Threads /\ Valid' = Valid
  BY <1>1 DEF Blocks, Threads, Valid
<1>3. CASE launch
  <2>1. status' = "running" =>
          /\ Valid
          /\ phase' = [b \in Blocks |-> [t \in Threads |-> 0]]
    BY <1>3 DEF launch, Refuse, Valid
  <2> QED BY <1>1, <1>2, <2>1 DEF Phases
<1>4. CASE RunSome
  <2>1. PICK b \in Blocks, t \in Threads : Run(b, t)
    BY <1>4 DEF RunSome
  <2>2. status = "running" /\ phase' = [phase EXCEPT ![b][t] = @ + 1]
    BY <2>1 DEF Run
  <2>3. phase' \in [Blocks -> [Threads -> Nat]]
    BY <2>2 DEF Phases
  <2> QED BY <1>1, <1>2, <2>2, <2>3 DEF Phases
<1>5. CASE Finish \/ UNCHANGED vars
  <2>1. UNCHANGED phase /\ (status' = "running" => status = "running")
    BY <1>5 DEF Finish, vars
  <2> QED BY <1>1, <1>2, <2>1 DEF Phases
<1> QED BY <1>3, <1>4, <1>5 DEF Next

(* No two threads of a launch race, for any of the kernels, whatever the   *)
(* sizes of matrices, vectors, tiles, blocks and grids: the barriers are   *)
(* enough, and every element has one writer or is added to atomically.     *)
THEOREM NoTwoThreadsRace == Spec => []RaceFree
<1>1. Init => Phases /\ args \in Launches
  BY DEF Init, Phases
<1>2. Phases /\ args \in Launches /\ [Next]_vars => Phases' /\ (args \in Launches)'
  BY PhasesStep
<1> QED BY <1>1, <1>2, PhasesNoRace, PTL DEF Spec

-----------------------------------------------------------------------------
(* What the memory looks like while a launch runs, and what a step does.   *)

(* f is an array with the cells D. *)
IsArray(f, D) == f = [c \in D |-> f[c]]

(* No thread is more than one barrier ahead of another of its block. *)
Lockstep ==
  \A b \in Blocks : \A t, u \in Threads : phase[b][u] <= phase[b][t] + 1

Memory ==
  /\ phase \in [Blocks -> [Threads -> Nat]] /\ Lockstep
  /\ \A b \in Blocks : \A t \in Threads : phase[b][t] <= Segments
  /\ IsArray(out, OutCells(args))
  /\ IsArray(shared, Blocks) /\ \A b \in Blocks : IsArray(shared[b], SharedCells(args))
  /\ IsArray(acc, Blocks) /\ \A b \in Blocks : IsArray(acc[b], Threads)

(* The effect of a segment. *)
Ran(b, t, w, s, a) ==
  /\ args' = args /\ status' = status
  /\ \A d \in Blocks : \A u \in Threads :
       phase'[d][u] = IF d = b /\ u = t THEN phase[b][t] + 1 ELSE phase[d][u]
  /\ \A d \in Blocks : shared'[d] = IF d = b THEN Written(w, shared[b]) ELSE shared[d]
  /\ \A d \in Blocks : \A u \in Threads : acc'[d][u] = IF d = b /\ u = t THEN a ELSE acc[d][u]
  /\ out' = Written(s, out)

(* Writes inside an array leave an array with the same cells. *)
LEMMA WrittenArray ==
  ASSUME NEW D, NEW m, IsArray(m, D), NEW w, DOMAIN w \subseteq D
  PROVE  /\ IsArray(Written(w, m), D)
         /\ \A c \in D : Written(w, m)[c] = IF c \in DOMAIN w THEN w[c] ELSE m[c]
<1>1. DOMAIN m = D
  BY DEF IsArray
<1>2. DOMAIN w \cup DOMAIN m = D
  BY <1>1
<1>3. Written(w, m) = [c \in D |-> IF c \in DOMAIN w THEN w[c] ELSE m[c]]
  BY <1>2 DEF Written
<1> QED BY <1>3 DEF IsArray

(* The effect of a step, from what its segment does. *)
LEMMA RunEffect ==
  ASSUME Memory, NEW b \in Blocks, NEW t \in Threads, Run(b, t),
         NEW r, NEW w, NEW s, NEW at, NEW a, Does(b, t, r, w, s, at, a)
  PROVE  Ran(b, t, w, s, a)
<1>1. /\ args' = args /\ status' = status
      /\ phase' = [phase EXCEPT ![b][t] = @ + 1]
      /\ shared' = [shared EXCEPT ![b] = Written(w, @)]
      /\ acc' = [acc EXCEPT ![b][t] = a]
      /\ out' = Written(s, out)
  BY DEF Run, Does
<1>2. \A d \in Blocks : \A u \in Threads :
        phase'[d][u] = IF d = b /\ u = t THEN phase[b][t] + 1 ELSE phase[d][u]
  BY <1>1 DEF Memory
<1>3. DOMAIN shared = Blocks
  BY DEF Memory, IsArray
<1>4. \A d \in Blocks : shared'[d] = IF d = b THEN Written(w, shared[b]) ELSE shared[d]
  BY <1>1, <1>3
<1>5. DOMAIN acc = Blocks /\ \A d \in Blocks : DOMAIN acc[d] = Threads
  BY DEF Memory, IsArray
<1>6. \A d \in Blocks : acc'[d] = IF d = b THEN [acc[b] EXCEPT ![t] = a] ELSE acc[d]
  BY <1>1, <1>5
<1>7. \A d \in Blocks : \A u \in Threads : acc'[d][u] = IF d = b /\ u = t THEN a ELSE acc[d][u]
  BY <1>5, <1>6
<1> QED BY <1>1, <1>2, <1>4, <1>7 DEF Ran

(* A segment that stays inside its arrays keeps Memory. *)
LEMMA MemoryStep ==
  ASSUME Memory, NEW b \in Blocks, NEW t \in Threads, Run(b, t),
         NEW r, NEW w, NEW s, NEW at, NEW a, Does(b, t, r, w, s, at, a), Segments \in Nat,
         DOMAIN w \subseteq SharedCells(args), DOMAIN s \subseteq OutCells(args)
  PROVE  Memory'
<1>1. /\ args' = args /\ status' = status
      /\ phase' = [phase EXCEPT ![b][t] = @ + 1]
      /\ shared' = [shared EXCEPT ![b] = Written(w, @)]
      /\ acc' = [acc EXCEPT ![b][t] = a]
      /\ out' = Written(s, out)
  BY DEF Run, Does
<1>2. Blocks' = Blocks /\ Threads' = Threads /\ Segments' = Segments
  BY <1>1 DEF Blocks, Threads, Segments
<1>3. Ran(b, t, w, s, a)
  BY RunEffect
<1>4. phase' \in [Blocks -> [Threads -> Nat]]
  BY <1>1 DEF Memory
<1>5. phase[b][t] < Segments /\ \A u \in Threads : phase[b][u] >= phase[b][t]
  BY DEF Run, CanRun, syncthreads
<1>6. \A d \in Blocks : \A u \in Threads : phase[d][u] \in Nat /\ phase[d][u] <= Segments
  BY DEF Memory
<1>7. \A d \in Blocks : \A u \in Threads : phase'[d][u] <= Segments
  BY <1>3, <1>5, <1>6 DEF Ran
<1>8. ASSUME NEW d \in Blocks, NEW u \in Threads, NEW v \in Threads PROVE phase'[d][v] <= phase'[d][u] + 1
  <2>1. phase[d][v] <= phase[d][u] + 1
    BY DEF Memory, Lockstep
  <2>2. phase'[d][u] \in {phase[d][u], phase[d][u] + 1}
    BY <1>3 DEF Ran
  <2>3. CASE d = b /\ v = t
    <3>1. phase'[d][v] = phase[b][t] + 1 /\ phase[b][u] >= phase[b][t]
      BY <1>3, <1>5, <2>3 DEF Ran
    <3> QED BY <1>6, <2>2, <2>3, <3>1
  <2>4. CASE ~(d = b /\ v = t)
    <3>1. phase'[d][v] = phase[d][v]
      BY <1>3, <2>4 DEF Ran
    <3> QED BY <1>6, <2>1, <2>2, <3>1
  <2> QED BY <2>3, <2>4
<1>9. IsArray(out', OutCells(args))
  BY <1>1, WrittenArray DEF Memory
<1>10. IsArray(shared', Blocks) /\ IsArray(acc', Blocks)
  BY <1>1 DEF Memory, IsArray
<1>11. \A d \in Blocks : IsArray(shared'[d], SharedCells(args))
  <2>1. IsArray(Written(w, shared[b]), SharedCells(args))
    BY WrittenArray DEF Memory
  <2> QED BY <1>3, <2>1 DEF Ran, Memory
<1>12. \A d \in Blocks : IsArray(acc'[d], Threads)
  <2>1. DOMAIN acc = Blocks /\ \A d \in Blocks : IsArray(acc[d], Threads)
    BY DEF Memory, IsArray
  <2>2. \A d \in Blocks : acc'[d] = IF d = b THEN [acc[b] EXCEPT ![t] = a] ELSE acc[d]
    BY <1>1, <2>1
  <2>3. IsArray([acc[b] EXCEPT ![t] = a], Threads)
    BY <2>1 DEF IsArray
  <2> QED BY <2>1, <2>2, <2>3
<1>13. IsArray(out, OutCells(args))' /\ IsArray(shared, Blocks)' /\ IsArray(acc, Blocks)'
  BY <1>1, <1>2, <1>9, <1>10 DEF OutCells
<1>14. (\A d \in Blocks : IsArray(shared[d], SharedCells(args)))' /\ (\A d \in Blocks : IsArray(acc[d], Threads))'
  BY <1>1, <1>2, <1>11, <1>12 DEF SharedCells
<1>15. Lockstep'
  BY <1>2, <1>8 DEF Lockstep
<1> QED BY <1>2, <1>4, <1>7, <1>13, <1>14, <1>15 DEF Memory

-----------------------------------------------------------------------------
(* vector_add: who has run has stored its elements.                        *)

VectorAddInv ==
  \A b \in Blocks : \A t \in Threads :
    phase[b][t] >= 1 => \A i \in GridStride(b, t) : out[i] = i

(* A step of vector_add keeps its invariant. *)
LEMMA VectorAddStep ==
  ASSUME Valid, Memory, VectorAddInv, args.kernel = "vector_add",
         NEW b \in Blocks, NEW t \in Threads, Run(b, t)
  PROVE  Memory' /\ VectorAddInv'
<1> DEFINE s == [i \in GridStride(b, t) |-> i]
<1>1. Does(b, t, {}, <<>>, s, FALSE, acc[b][t])
  BY VectorAddDoes
<1>2. OutCells(args) = 0..(args.n - 1) /\ Segments = 1
  BY DEF OutCells, Segments, Gemm
<1>3. ASSUME NEW d \in Blocks, NEW u \in Threads PROVE GridStride(d, u) \subseteq OutCells(args)
  BY <1>2, StrideOwner DEF Vector
<1>4. Ran(b, t, <<>>, s, acc[b][t])
  BY <1>1, RunEffect
<1>5. Memory'
  <2>1. DOMAIN <<>> \subseteq SharedCells(args) /\ DOMAIN s \subseteq OutCells(args) /\ Segments \in Nat
    BY <1>2, <1>3
  <2> HIDE DEF s
  <2> QED BY <1>1, <2>1, MemoryStep
<1>6. \A i \in OutCells(args) : out'[i] = IF i \in GridStride(b, t) THEN i ELSE out[i]
  <2>1. DOMAIN s = GridStride(b, t) /\ \A i \in GridStride(b, t) : s[i] = i
    OBVIOUS
  <2>2. IsArray(out, OutCells(args)) /\ out' = Written(s, out)
    BY <1>4 DEF Memory, Ran
  <2> HIDE DEF s
  <2> QED BY <1>3, <2>1, <2>2, WrittenArray
<1>7. args' = args /\ Blocks' = Blocks /\ Threads' = Threads /\ \A d, u : GridStride(d, u)' = GridStride(d, u)
  BY <1>4 DEF Ran, Blocks, Threads, GridStride
<1>8. ASSUME NEW d \in Blocks, NEW u \in Threads, phase'[d][u] >= 1, NEW i \in GridStride(d, u) PROVE out'[i] = i
  <2>1. CASE d = b /\ u = t
    BY <1>3, <1>6, <2>1
  <2>2. CASE ~(d = b /\ u = t)
    <3>1. phase'[d][u] = phase[d][u]
      BY <1>4, <2>2 DEF Ran
    <3>2. out[i] = i
      BY <1>8, <3>1 DEF VectorAddInv
    <3> QED BY <1>3, <1>6, <3>2
  <2> QED BY <2>1, <2>2
<1> HIDE DEF s
<1> QED BY <1>5, <1>7, <1>8 DEF VectorAddInv

(* And in the end the output is the reference. *)
LEMMA VectorAddDone ==
  ASSUME Valid, Memory, VectorAddInv, args.kernel = "vector_add",
         \A b \in Blocks : \A t \in Threads : phase[b][t] = Segments
  PROVE  out = Reference
<1>1. OutCells(args) = 0..(args.n - 1) /\ Segments = 1
  BY DEF OutCells, Segments, Gemm
<1>2. ASSUME NEW i \in 0..(args.n - 1) PROVE out[i] = i
  <2>1. i \in Int /\ args.n \in Nat
    BY VectorLaunch DEF Vector
  <2>2. OwnerBlock(i) \in Blocks /\ OwnerThread(i) \in Threads
    BY <2>1, OwnerExists DEF Vector
  <2>3. i \in GridStride(OwnerBlock(i), OwnerThread(i))
    BY <2>2, StrideOwner DEF Vector
  <2> QED BY <1>1, <2>2, <2>3 DEF VectorAddInv
<1>3. out = [i \in 0..(args.n - 1) |-> out[i]]
  BY <1>1 DEF Memory, IsArray
<1>4. [i \in 0..(args.n - 1) |-> out[i]] = [i \in 0..(args.n - 1) |-> i]
  BY <1>2
<1>5. Reference = cpu_vector_add
  BY DEF Reference, Gemm
<1> QED BY <1>3, <1>4, <1>5 DEF cpu_vector_add

-----------------------------------------------------------------------------
(* gemm_naive: who has run has stored its dot product.                     *)

GemmNaiveInv ==
  \A b \in Blocks : \A t \in Threads :
    phase[b][t] >= 1 /\ Inside(b, t) => out[GemmAt(b, t)] = Dot(row(b, t), col(b, t))

(* A step of gemm_naive keeps its invariant. *)
LEMMA GemmNaiveStep ==
  ASSUME Valid, Memory, GemmNaiveInv, args.kernel = "gemm_naive",
         NEW b \in Blocks, NEW t \in Threads, Run(b, t)
  PROVE  Memory' /\ GemmNaiveInv'
<1>1. PICK s :
        /\ Does(b, t, {}, <<>>, s, FALSE, acc[b][t])
        /\ Inside(b, t) => DOMAIN s = {GemmAt(b, t)} /\ s[GemmAt(b, t)] = Dot(row(b, t), col(b, t))
        /\ ~Inside(b, t) => DOMAIN s = {}
  <2>1. CASE Inside(b, t)
    <3> DEFINE c == Cell(GemmAt(b, t), Dot(row(b, t), col(b, t)))
    <3>1. Does(b, t, {}, <<>>, c, FALSE, acc[b][t])
      BY <2>1, GemmNaiveDoes
    <3>2. DOMAIN c = {GemmAt(b, t)} /\ c[GemmAt(b, t)] = Dot(row(b, t), col(b, t))
      BY OneCell
    <3> HIDE DEF c
    <3> QED BY <2>1, <3>1, <3>2
  <2>2. CASE ~Inside(b, t)
    <3>1. Does(b, t, {}, <<>>, <<>>, FALSE, acc[b][t])
      BY <2>2, GemmNaiveDoes
    <3> QED BY <2>2, <3>1, NothingWritten
  <2> QED BY <2>1, <2>2
<1>2. OutCells(args) = 0..(args.M * args.N - 1) /\ Segments = 1 /\ args.kernel \in Gemm
  BY DEF OutCells, Segments, Gemm
<1>3. ASSUME NEW d \in Blocks, NEW u \in Threads, Inside(d, u) PROVE GemmAt(d, u) \in OutCells(args)
  BY <1>2, <1>3, GemmCell DEF GemmAt
<1>4. Ran(b, t, <<>>, s, acc[b][t])
  BY <1>1, RunEffect
<1>5. DOMAIN s \subseteq OutCells(args)
  BY <1>1, <1>3
<1>6. Memory'
  BY <1>1, <1>2, <1>5, NothingWritten, MemoryStep
<1>7. \A i \in OutCells(args) : out'[i] = IF i \in DOMAIN s THEN s[i] ELSE out[i]
  BY <1>4, <1>5, WrittenArray DEF Memory, Ran
<1>8. /\ args' = args /\ Blocks' = Blocks /\ Threads' = Threads
      /\ \A d, u : row(d, u)' = row(d, u) /\ col(d, u)' = col(d, u)
      /\ \A d, u : GemmAt(d, u)' = GemmAt(d, u) /\ Inside(d, u)' = Inside(d, u)
      /\ \A x, y : Dot(x, y)' = Dot(x, y)
  BY <1>4 DEF Ran, Blocks, Threads, GemmAt, Inside, row, col, Dot
<1>9. ASSUME NEW d \in Blocks, NEW u \in Threads, phase'[d][u] >= 1, Inside(d, u)
      PROVE  out'[GemmAt(d, u)] = Dot(row(d, u), col(d, u))
  <2>1. CASE d = b /\ u = t
    BY <1>1, <1>3, <1>7, <1>9, <2>1
  <2>2. CASE ~(d = b /\ u = t)
    <3>1. phase'[d][u] = phase[d][u]
      BY <1>4, <2>2 DEF Ran
    <3>2. out[GemmAt(d, u)] = Dot(row(d, u), col(d, u))
      BY <1>9, <3>1 DEF GemmNaiveInv
    <3>3. GemmAt(d, u) \notin DOMAIN s
      BY <1>1, <1>2, <1>9, <2>2, GemmStores
    <3> QED BY <1>3, <1>7, <1>9, <3>2, <3>3
  <2> QED BY <2>1, <2>2
<1> QED BY <1>6, <1>8, <1>9 DEF GemmNaiveInv

(* The reference, element by element. *)
LEMMA GemmReference ==
  ASSUME Valid, Memory, args.kernel \in Gemm,
         \A b \in Blocks : \A t \in Threads : Inside(b, t) => out[GemmAt(b, t)] = Dot(row(b, t), col(b, t))
  PROVE  out = Reference
<1>1. OutCells(args) = 0..(args.M * args.N - 1)
  BY DEF OutCells, Gemm
<1>2. ASSUME NEW x \in 0..(args.M * args.N - 1) PROVE out[x] = Dot(x \div args.N, x % args.N)
  BY GemmCovered DEF GemmAt
<1>3. out = [x \in 0..(args.M * args.N - 1) |-> out[x]]
  BY <1>1 DEF Memory, IsArray
<1>4. [x \in 0..(args.M * args.N - 1) |-> out[x]] = [x \in 0..(args.M * args.N - 1) |-> Dot(x \div args.N, x % args.N)]
  BY <1>2
<1>5. Reference = cpu_gemm
  BY DEF Reference, Gemm
<1>6. cpu_gemm = [x \in 0..(args.M * args.N - 1) |-> Dot(x \div args.N, x % args.N)]
  BY DEF cpu_gemm, Dot
<1> QED BY <1>3, <1>4, <1>5, <1>6

(* In the end the output is the reference. *)
LEMMA GemmNaiveDone ==
  ASSUME Valid, Memory, GemmNaiveInv, args.kernel = "gemm_naive",
         \A b \in Blocks : \A t \in Threads : phase[b][t] = Segments
  PROVE  out = Reference
<1>1. Segments = 1 /\ args.kernel \in Gemm
  BY DEF Segments, Gemm
<1>2. \A b \in Blocks : \A t \in Threads : Inside(b, t) => out[GemmAt(b, t)] = Dot(row(b, t), col(b, t))
  BY <1>1 DEF GemmNaiveInv
<1> QED BY <1>1, <1>2, GemmReference

-----------------------------------------------------------------------------
(* transpose: a thread past the barrier finds in the tile what it stores.  *)

(* The element that belongs at place p of the tile of block b. *)
TileElement(b, p) == (b[2] * kTransTile + p[1]) * args.cols + b[1] * kTransTile + p[2]

TransposeInv ==
  \A b \in Blocks : \A t \in Threads :
    /\ phase[b][t] >= 1 =>
         \A k \in LoadPasses(b, t) : shared[b][<<t[2] + k, t[1]>>] = TileElement(b, <<t[2] + k, t[1]>>)
    /\ phase[b][t] >= 2 =>
         \A k \in StorePasses(b, t) :
           out[StoreCell(b, t, k)] = OutColumn(b, t) * args.cols + OutRow(b, t, k)

(* What a thread loads belongs where it puts it, and the place exists. *)
LEMMA TileWritten ==
  ASSUME Valid, args.kernel = "transpose", NEW b \in Blocks, NEW t \in Threads, NEW k \in LoadPasses(b, t)
  PROVE  /\ <<t[2] + k, t[1]>> \in DOMAIN TileWrites(b, t) /\ <<t[2] + k, t[1]>> \in SharedCells(args)
         /\ TileWrites(b, t)[<<t[2] + k, t[1]>>] = TileElement(b, <<t[2] + k, t[1]>>)
<1>1. k \in Passes
  BY DEF LoadPasses
<1>2. PICK T \in Nat \ {0} : T = kTransTile
  BY TransposeLaunch
<1>3. b[1] \in Nat /\ b[2] \in Nat /\ t[1] \in 0..(T - 1) /\ t[2] \in 0..(kTransRows - 1) /\ kTransRows \in Nat
  BY <1>2, TransposePlace, TransposeLaunch
<1>4. k \in Nat /\ t[2] + k \in 0..(T - 1)
  BY <1>1, <1>2, <1>3, PassPlace
<1>5. SharedCells(args) = (0..(T - 1)) \X (0..T)
  <2>1. SharedCells(args) = Below(<<kTransTile, kTransTile + 1>>)
    BY DEF SharedCells
  <2>2. (T + 1) - 1 = T
    OBVIOUS
  <2> QED BY <1>2, <2>1, <2>2 DEF Below
<1>6. t[1] \in 0..T
  BY <1>3
<1>7. PICK p : p = <<t[2] + k, t[1]>>
  OBVIOUS
<1>8. p \in DOMAIN TileWrites(b, t)
  BY <1>7 DEF TileWrites
<1>9. TileWrites(b, t)[p] = (InRow(b, t) + p[1] - t[2]) * args.cols + InColumn(b, t)
  BY <1>8 DEF TileWrites
<1>10. InRow(b, t) + p[1] - t[2] = b[2] * T + p[1] /\ InColumn(b, t) = b[1] * T + p[2]
  <2>1. InRow(b, t) = b[2] * T + t[2] /\ InColumn(b, t) = b[1] * T + t[1]
    BY <1>2 DEF InRow, InColumn
  <2>2. b[2] * T \in Int /\ t[2] \in Int
    BY <1>3
  <2>3. p[1] = t[2] + k /\ p[2] = t[1]
    BY <1>7
  <2>4. p[1] \in Int
    BY <1>4, <2>3
  <2> QED BY <2>1, <2>2, <2>3, <2>4
<1>11. TileElement(b, p) = (b[2] * T + p[1]) * args.cols + b[1] * T + p[2]
  BY <1>2 DEF TileElement
<1>12. (b[2] * T + p[1]) * args.cols + b[1] * T + p[2] = (b[2] * T + p[1]) * args.cols + (b[1] * T + p[2])
  <2>1. PICK x \in Int : x = (b[2] * T + p[1]) * args.cols
    BY <1>3, <1>4, <1>7, TransposeLaunch
  <2>2. b[1] * T \in Int /\ p[2] \in Int
    BY <1>3, <1>7
  <2> QED BY <2>1, <2>2
<1>13. p \in SharedCells(args)
  BY <1>4, <1>5, <1>6, <1>7
<1> QED BY <1>7, <1>8, <1>9, <1>10, <1>11, <1>12, <1>13

(* What a thread stores in pass k was loaded by a thread of its block. *)
LEMMA TileRead ==
  ASSUME Valid, args.kernel = "transpose", NEW b \in Blocks, NEW t \in Threads, NEW k \in StorePasses(b, t)
  PROVE  \E u \in Threads : \E l \in LoadPasses(b, u) :
           /\ u[2] + l = t[1] /\ u[1] = t[2] + k
           /\ TileElement(b, <<u[2] + l, u[1]>>) = OutColumn(b, t) * args.cols + OutRow(b, t, k)
<1>1. k \in Passes /\ OutColumn(b, t) < args.rows /\ OutRow(b, t, k) < args.cols
  BY DEF StorePasses
<1>2. PICK T \in Nat \ {0} : T = kTransTile
  BY TransposeLaunch
<1>3. b[1] \in Nat /\ b[2] \in Nat /\ t[1] \in 0..(T - 1) /\ t[2] \in 0..(kTransRows - 1) /\ kTransRows \in Nat
  BY <1>2, TransposePlace, TransposeLaunch
<1>4. k \in Nat /\ t[2] + k \in 0..(T - 1)
  BY <1>1, <1>2, <1>3, PassPlace
<1>5. PICK i \in 0..(kTransRows - 1) : \E l \in Passes : t[1] = i + l
  BY <1>2, <1>3, PassExists
<1>6. PICK l \in Passes : t[1] = i + l
  BY <1>5
<1>7. PICK u : u = <<t[2] + k, i>>
  OBVIOUS
<1>8. u \in Threads /\ u[1] = t[2] + k /\ u[2] = i
  BY <1>2, <1>4, <1>7, TransposeLaunch
<1>9. l \in Nat /\ i \in Nat /\ t[2] \in Nat
  BY <1>3, <1>6, TransposeLaunch DEF Passes
<1>10. /\ b[1] * T \in Nat /\ b[2] * T \in Nat
       /\ OutColumn(b, t) = b[2] * T + t[1] /\ OutRow(b, t, k) = b[1] * T + t[2] + k
       /\ InColumn(b, u) = b[1] * T + u[1] /\ InRow(b, u) = b[2] * T + u[2]
  BY <1>2, <1>3 DEF OutColumn, OutRow, InColumn, InRow
<1>11. InColumn(b, u) = OutRow(b, t, k) /\ InRow(b, u) + l = OutColumn(b, t)
  BY <1>4, <1>6, <1>8, <1>9, <1>10
<1>12. l \in LoadPasses(b, u)
  BY <1>1, <1>6, <1>11 DEF LoadPasses
<1>13. TileElement(b, <<u[2] + l, u[1]>>) = OutColumn(b, t) * args.cols + OutRow(b, t, k)
  <2>1. TileElement(b, <<u[2] + l, u[1]>>) = (b[2] * T + t[1]) * args.cols + b[1] * T + u[1]
    BY <1>2, <1>6, <1>8 DEF TileElement
  <2>2. PICK x \in Int : x = (b[2] * T + t[1]) * args.cols
    BY <1>3, <1>10, TransposeLaunch
  <2>3. x + b[1] * T + u[1] = x + (b[1] * T + t[2] + k)
    BY <1>4, <1>8, <1>9, <1>10
  <2> QED BY <1>10, <2>1, <2>2, <2>3
<1> QED BY <1>6, <1>8, <1>12, <1>13

(* A thread of the transposition that loads its part of the tile. *)
LEMMA TransposeLoad ==
  ASSUME Valid, Memory, TransposeInv, args.kernel = "transpose",
         NEW b \in Blocks, NEW t \in Threads, Run(b, t), phase[b][t] = 0
  PROVE  Memory' /\ TransposeInv'
<1>1. Does(b, t, {}, TileWrites(b, t), <<>>, FALSE, acc[b][t])
  BY TransposeDoes
<1>2. Ran(b, t, TileWrites(b, t), <<>>, acc[b][t])
  BY <1>1, RunEffect
<1>3. Segments = 2
  BY DEF Segments
<1>4. DOMAIN TileWrites(b, t) = {<<t[2] + k, t[1]>> : k \in LoadPasses(b, t)}
  BY DEF TileWrites
<1>5. DOMAIN TileWrites(b, t) \subseteq SharedCells(args)
  BY <1>4, TileWritten
<1>6. Memory'
  BY <1>1, <1>3, <1>5, NothingWritten, MemoryStep
<1>7. /\ args' = args /\ Blocks' = Blocks /\ Threads' = Threads
      /\ \A d, u : LoadPasses(d, u)' = LoadPasses(d, u) /\ StorePasses(d, u)' = StorePasses(d, u)
      /\ \A d, u : OutColumn(d, u)' = OutColumn(d, u)
      /\ \A d, u, k : OutRow(d, u, k)' = OutRow(d, u, k) /\ StoreCell(d, u, k)' = StoreCell(d, u, k)
      /\ \A d, p : TileElement(d, p)' = TileElement(d, p)
  BY <1>2 DEF Ran, Blocks, Threads, LoadPasses, StorePasses, OutColumn, OutRow, StoreCell, TileElement,
       InColumn, InRow, Passes
<1>8. out' = out
  <2>1. IsArray(out, OutCells(args)) /\ out' = Written(<<>>, out)
    BY <1>2 DEF Memory, Ran
  <2>2. IsArray(out', OutCells(args)) /\ \A c \in OutCells(args) : out'[c] = out[c]
    BY <2>1, NothingWritten, WrittenArray
  <2> QED BY <2>1, <2>2 DEF IsArray
<1>9. \A c \in SharedCells(args) :
        shared'[b][c] = IF c \in DOMAIN TileWrites(b, t) THEN TileWrites(b, t)[c] ELSE shared[b][c]
  <2>1. IsArray(shared[b], SharedCells(args)) /\ shared'[b] = Written(TileWrites(b, t), shared[b])
    BY <1>2 DEF Memory, Ran
  <2> QED BY <1>5, <2>1, WrittenArray
<1>10. ASSUME NEW d \in Blocks, NEW u \in Threads, phase'[d][u] >= 1, NEW k \in LoadPasses(d, u)
       PROVE  shared'[d][<<u[2] + k, u[1]>>] = TileElement(d, <<u[2] + k, u[1]>>)
  <2>1. PICK p : p = <<u[2] + k, u[1]>>
    OBVIOUS
  <2>2. p \in SharedCells(args)
    BY <2>1, TileWritten
  <2>3. CASE d = b /\ p \in DOMAIN TileWrites(b, t)
    <3>1. PICK l \in LoadPasses(b, t) : p = <<t[2] + l, t[1]>>
      BY <1>4, <2>3
    <3>2. TileWrites(b, t)[p] = TileElement(b, p)
      BY <3>1, TileWritten
    <3> QED BY <1>9, <2>1, <2>2, <2>3, <3>2
  <2>4. CASE ~(d = b /\ p \in DOMAIN TileWrites(b, t))
    <3>1. shared'[d][p] = shared[d][p]
      <4>1. CASE d = b
        BY <1>9, <2>2, <2>4, <4>1
      <4>2. CASE d # b
        BY <1>2, <4>2 DEF Ran
      <4> QED BY <4>1, <4>2
    <3>2. ~(d = b /\ u = t)
      BY <1>4, <2>1, <2>4
    <3>3. phase'[d][u] = phase[d][u]
      BY <1>2, <3>2 DEF Ran
    <3>4. shared[d][p] = TileElement(d, p)
      BY <1>10, <2>1, <3>3 DEF TransposeInv
    <3> QED BY <2>1, <3>1, <3>4
  <2> QED BY <2>3, <2>4
<1>11. ASSUME NEW d \in Blocks, NEW u \in Threads, phase'[d][u] >= 2, NEW k \in StorePasses(d, u)
       PROVE  out'[StoreCell(d, u, k)] = OutColumn(d, u) * args.cols + OutRow(d, u, k)
  <2>1. phase'[d][u] = phase[d][u]
    BY <1>2, <1>11 DEF Ran
  <2> QED BY <1>8, <1>11, <2>1 DEF TransposeInv
<1> QED BY <1>6, <1>7, <1>10, <1>11 DEF TransposeInv

(* A thread of the transposition that stores what the tile holds for it. *)
LEMMA TransposeStore ==
  ASSUME Valid, Memory, TransposeInv, args.kernel = "transpose",
         NEW b \in Blocks, NEW t \in Threads, Run(b, t), phase[b][t] = 1
  PROVE  Memory' /\ TransposeInv'
<1>1. PICK r : Does(b, t, r, <<>>, TileStores(b, t), FALSE, acc[b][t])
  BY TransposeDoes
<1>2. Ran(b, t, <<>>, TileStores(b, t), acc[b][t])
  BY <1>1, RunEffect
<1>3. Segments = 2 /\ OutCells(args) = 0..(args.rows * args.cols - 1)
  BY DEF Segments, OutCells, Gemm
<1>4. DOMAIN TileStores(b, t) = {StoreCell(b, t, k) : k \in StorePasses(b, t)}
  BY DEF TileStores
<1>5. DOMAIN TileStores(b, t) \subseteq OutCells(args)
  BY <1>3, <1>4, StoreInside
<1>6. Memory'
  BY <1>1, <1>3, <1>5, NothingWritten, MemoryStep
<1>7. /\ args' = args /\ Blocks' = Blocks /\ Threads' = Threads
      /\ \A d, u : LoadPasses(d, u)' = LoadPasses(d, u) /\ StorePasses(d, u)' = StorePasses(d, u)
      /\ \A d, u : OutColumn(d, u)' = OutColumn(d, u)
      /\ \A d, u, k : OutRow(d, u, k)' = OutRow(d, u, k) /\ StoreCell(d, u, k)' = StoreCell(d, u, k)
      /\ \A d, p : TileElement(d, p)' = TileElement(d, p)
  BY <1>2 DEF Ran, Blocks, Threads, LoadPasses, StorePasses, OutColumn, OutRow, StoreCell, TileElement,
       InColumn, InRow, Passes
<1>8. \A d \in Blocks : \A c \in SharedCells(args) : shared'[d][c] = shared[d][c]
  <2>1. IsArray(shared[b], SharedCells(args)) /\ shared'[b] = Written(<<>>, shared[b])
    BY <1>2 DEF Memory, Ran
  <2>2. \A c \in SharedCells(args) : shared'[b][c] = shared[b][c]
    BY <2>1, NothingWritten, WrittenArray
  <2> QED BY <1>2, <2>2 DEF Ran
<1>9. \A c \in OutCells(args) :
        out'[c] = IF c \in DOMAIN TileStores(b, t) THEN TileStores(b, t)[c] ELSE out[c]
  <2>1. IsArray(out, OutCells(args)) /\ out' = Written(TileStores(b, t), out)
    BY <1>2 DEF Memory, Ran
  <2> QED BY <1>5, <2>1, WrittenArray
<1>10. ASSUME NEW d \in Blocks, NEW u \in Threads, phase'[d][u] >= 1, NEW k \in LoadPasses(d, u)
       PROVE  shared'[d][<<u[2] + k, u[1]>>] = TileElement(d, <<u[2] + k, u[1]>>)
  <2>1. <<u[2] + k, u[1]>> \in SharedCells(args)
    BY TileWritten
  <2>2. phase[d][u] >= 1
    BY <1>2, <1>10 DEF Ran
  <2>3. shared[d][<<u[2] + k, u[1]>>] = TileElement(d, <<u[2] + k, u[1]>>)
    BY <2>2 DEF TransposeInv
  <2> QED BY <1>8, <2>1, <2>3
<1>11. ASSUME NEW d \in Blocks, NEW u \in Threads, phase'[d][u] >= 2, NEW k \in StorePasses(d, u)
       PROVE  out'[StoreCell(d, u, k)] = OutColumn(d, u) * args.cols + OutRow(d, u, k)
  <2>1. StoreCell(d, u, k) \in OutCells(args)
    BY <1>3, StoreInside
  <2>2. CASE d = b /\ u = t
    <3>1. PICK i : i = StoreCell(b, t, k)
      OBVIOUS
    <3>2. i \in DOMAIN TileStores(b, t)
      BY <1>4, <2>2, <3>1
    <3>3. TileStores(b, t)[i] = shared[b][<<t[1], t[2] + i \div args.rows - (b[1] * kTransTile + t[2])>>]
      BY <1>4, <3>2 DEF TileStores
    <3>4. i \div args.rows = OutRow(b, t, k)
      BY <2>2, <3>1, StoreInside
    <3>5. t[2] + i \div args.rows - (b[1] * kTransTile + t[2]) = t[2] + k
      <4>1. b[1] \in Nat /\ kTransTile \in Nat /\ t[2] \in Nat /\ k \in Nat
        <5>1. b[1] \in Nat /\ t[2] \in 0..(kTransRows - 1)
          BY TransposePlace
        <5>2. kTransRows \in Nat /\ kTransTile \in Nat
          BY TransposeLaunch
        <5> QED BY <5>1, <5>2, <2>2 DEF StorePasses, Passes
      <4>2. PICK x \in Nat : x = b[1] * kTransTile
        BY <4>1
      <4>3. i \div args.rows = x + t[2] + k
        BY <3>4, <4>2 DEF OutRow
      <4> QED BY <4>1, <4>2, <4>3
    <3>6. PICK v \in Threads : \E l \in LoadPasses(b, v) :
            /\ v[2] + l = t[1] /\ v[1] = t[2] + k
            /\ TileElement(b, <<v[2] + l, v[1]>>) = OutColumn(b, t) * args.cols + OutRow(b, t, k)
      BY <2>2, TileRead
    <3>7. PICK l \in LoadPasses(b, v) :
            /\ v[2] + l = t[1] /\ v[1] = t[2] + k
            /\ TileElement(b, <<v[2] + l, v[1]>>) = OutColumn(b, t) * args.cols + OutRow(b, t, k)
      BY <3>6
    <3>8. phase[b][v] >= 1
      BY DEF Run, CanRun, syncthreads
    <3>9. shared[b][<<v[2] + l, v[1]>>] = TileElement(b, <<v[2] + l, v[1]>>)
      BY <3>8 DEF TransposeInv
    <3>10. TileStores(b, t)[i] = OutColumn(b, t) * args.cols + OutRow(b, t, k)
      BY <3>3, <3>5, <3>7, <3>9
    <3> QED BY <1>9, <2>1, <2>2, <3>1, <3>2, <3>10
  <2>3. CASE ~(d = b /\ u = t)
    <3>1. phase'[d][u] = phase[d][u]
      BY <1>2, <2>3 DEF Ran
    <3>2. out[StoreCell(d, u, k)] = OutColumn(d, u) * args.cols + OutRow(d, u, k)
      BY <1>11, <3>1 DEF TransposeInv
    <3>3. StoreCell(d, u, k) \notin DOMAIN TileStores(b, t)
      BY <1>4, <2>3, StoreDistinct
    <3> QED BY <1>9, <2>1, <3>2, <3>3
  <2> QED BY <2>2, <2>3
<1> QED BY <1>6, <1>7, <1>10, <1>11 DEF TransposeInv

(* A step of the transposition keeps its invariant. *)
LEMMA TransposeStep ==
  ASSUME Valid, Memory, TransposeInv, args.kernel = "transpose",
         NEW b \in Blocks, NEW t \in Threads, Run(b, t)
  PROVE  Memory' /\ TransposeInv'
<1>1. Segments = 2
  BY DEF Segments
<1>2. phase[b][t] \in Nat /\ phase[b][t] < 2
  BY <1>1 DEF Memory, Run, CanRun
<1>3. phase[b][t] = 0 \/ phase[b][t] = 1
  BY <1>2
<1> QED BY <1>3, TransposeLoad, TransposeStore

(* In the end the output is the reference: some thread stored every cell. *)
LEMMA TransposeDone ==
  ASSUME Valid, Memory, TransposeInv, args.kernel = "transpose",
         \A b \in Blocks : \A t \in Threads : phase[b][t] = Segments
  PROVE  out = Reference
<1>1. Segments = 2 /\ OutCells(args) = 0..(args.rows * args.cols - 1)
  BY DEF Segments, OutCells, Gemm
<1>2. PICK m \in Nat \ {0}, n \in Nat \ {0}, T \in Nat \ {0}, R \in Nat \ {0} :
        m = args.cols /\ n = args.rows /\ T = kTransTile /\ R = kTransRows
  BY TransposeLaunch
<1>3. ASSUME NEW x \in 0..(args.rows * args.cols - 1)
      PROVE  out[x] = (x % args.rows) * args.cols + x \div args.rows
  <2>1. x \in 0..(m * n - 1)
    <3>1. m * n = args.rows * args.cols
      BY <1>2
    <3> QED BY <3>1
  <2>2. PICK r \in 0..(m - 1), c \in 0..(n - 1) : r = x \div n /\ c = x % n /\ x = r * n + c
    <3>1. x \div n \in 0..(m - 1) /\ x % n \in 0..(n - 1) /\ x = (x \div n) * n + (x % n)
      BY <2>1, TablePosition
    <3> QED BY <3>1
  <2>3. r \div T \in 0..(ceil(m, T) - 1) /\ r % T \in 0..(T - 1) /\ r = (r \div T) * T + (r % T)
    BY TilePlace
  <2>4. c \div T \in 0..(ceil(n, T) - 1) /\ c % T \in 0..(T - 1) /\ c = (c \div T) * T + (c % T)
    BY TilePlace
  <2>5. PICK i \in 0..(R - 1) : \E k \in Passes : r % T = i + k
    BY <1>2, <2>3, PassExists
  <2>6. PICK k \in Passes : r % T = i + k
    BY <2>5
  <2>7. PICK b, t : b = <<r \div T, c \div T>> /\ t = <<c % T, i>>
    OBVIOUS
  <2>8. b \in Blocks /\ t \in Threads
    BY <1>2, <2>3, <2>4, <2>7, TransposeLaunch
  <2>9. OutColumn(b, t) = c
    BY <1>2, <2>4, <2>7 DEF OutColumn
  <2>10. OutRow(b, t, k) = r
    <3>1. OutRow(b, t, k) = (r \div T) * T + i + k
      BY <1>2, <2>7 DEF OutRow
    <3>2. PICK q \in Int : q = (r \div T) * T
      BY Division
    <3>3. i \in Int /\ k \in Int
      BY <1>2, <2>6 DEF Passes
    <3> QED BY <2>3, <2>6, <3>1, <3>2, <3>3
  <2>11. k \in StorePasses(b, t)
    BY <1>2, <2>6, <2>9, <2>10 DEF StorePasses
  <2>12. StoreCell(b, t, k) = x
    BY <1>2, <2>2, <2>9, <2>10 DEF StoreCell
  <2>13. out[StoreCell(b, t, k)] = OutColumn(b, t) * args.cols + OutRow(b, t, k)
    BY <1>1, <2>8, <2>11 DEF TransposeInv
  <2> QED BY <1>2, <2>2, <2>9, <2>10, <2>12, <2>13
<1>4. out = [x \in 0..(args.rows * args.cols - 1) |-> out[x]]
  BY <1>1 DEF Memory, IsArray
<1>5. [x \in 0..(args.rows * args.cols - 1) |-> out[x]]
        = [x \in 0..(args.rows * args.cols - 1) |-> (x % args.rows) * args.cols + x \div args.rows]
  BY <1>3
<1>6. Reference = cpu_transpose
  BY DEF Reference, Gemm
<1> QED BY <1>4, <1>5, <1>6 DEF cpu_transpose

-----------------------------------------------------------------------------
(* histogram256: a block counts its elements, then adds its counters.      *)

Bins == 0..(kBins - 1)
BinOwner(c) == <<c % args.block, 0>>

(* The elements with value c that block b has counted in shared memory,    *)
(* and those that its counter has carried to the output.                   *)
CountedBy(b, c) ==
  {i \in 0..(args.n - 1) : args.in[i] = c /\ OwnerBlock(i) = b /\ phase[b][OwnerThread(i)] >= 2}
CarriedOut(c) ==
  {i \in 0..(args.n - 1) : args.in[i] = c /\ phase[OwnerBlock(i)][BinOwner(c)] >= 3}

HistogramInv ==
  \A c \in Bins :
    /\ \A b \in Blocks : phase[b][BinOwner(c)] >= 1 => shared[b][c] = Cardinality(CountedBy(b, c))
    /\ out[c] = Cardinality(CarriedOut(c))

(* Sets of indices are finite, and disjoint ones are counted separately. *)
LEMMA CountIndices ==
  ASSUME NEW n \in Nat, NEW S \in SUBSET (0..(n - 1))
  PROVE  IsFiniteSet(S) /\ Cardinality(S) \in Nat
<1>1. IsFiniteSet(0..(n - 1))
  BY FS_Interval
<1> QED BY <1>1, FS_Subset, FS_CardinalityType

(* Disjoint sets of indices add up. *)
LEMMA CountDisjoint ==
  ASSUME NEW n \in Nat, NEW S \in SUBSET (0..(n - 1)), NEW T \in SUBSET (0..(n - 1)), S \cap T = {}
  PROVE  Cardinality(S \cup T) = Cardinality(S) + Cardinality(T)
<1>1. IsFiniteSet(S) /\ IsFiniteSet(T) /\ Cardinality(S) \in Nat /\ Cardinality(T) \in Nat
  BY CountIndices
<1>2. Cardinality(S \cap T) = 0
  BY FS_EmptySet
<1>3. Cardinality(S \cup T) = Cardinality(S) + Cardinality(T) - Cardinality(S \cap T)
  BY <1>1, FS_Union
<1> QED BY <1>1, <1>2, <1>3

(* The values are bins, and a bin is cleared and added by one thread. *)
LEMMA HistogramLaunch ==
  ASSUME Valid, args.kernel = "histogram256"
  PROVE  /\ args.n \in Nat \ {0} /\ args.block \in Nat \ {0} /\ kBins \in Nat \ {0}
         /\ \A i \in 0..(args.n - 1) : args.in[i] \in Bins
         /\ \A c \in Bins : BinOwner(c) \in Threads
         /\ \A t \in Threads : \A c : c \in BlockStride(t) <=> c \in Bins /\ BinOwner(c) = t
         /\ Segments = 3 /\ OutCells(args) = Bins /\ SharedCells(args) = Bins
<1>1. args.n \in Nat \ {0} /\ args.block \in Nat \ {0} /\ kBins \in Nat \ {0}
  BY VectorLaunch, KernelsAssumption DEF KernelsAssumption, Vector
<1>2. args.in \in [0..(args.n - 1) -> Bins]
  <2>1. "in" \notin args.null
    <3>1. args.n > 0 /\ ~Invalid(args)
      BY <1>1 DEF Valid
    <3> QED BY <3>1 DEF Invalid, Gemm
  <2>2. IsLaunch(args)
    BY KernelsAssumption DEF KernelsAssumption, Valid
  <2> QED BY <2>1, <2>2 DEF IsLaunch, Zeroing, Bins
<1>3. Threads = (0..(args.block - 1)) \X (0..0)
  BY VectorLaunch DEF Vector
<1>4. ASSUME NEW c \in Bins PROVE c % args.block \in 0..(args.block - 1)
  BY <1>1 DEF Bins
<1>5. ASSUME NEW c \in Bins PROVE BinOwner(c) \in Threads
  BY <1>3, <1>4 DEF BinOwner
<1>6. ASSUME NEW t \in Threads, NEW c PROVE c \in BlockStride(t) <=> c \in Bins /\ BinOwner(c) = t
  <2>1. t = <<t[1], 0>>
    BY <1>3
  <2> QED BY <2>1 DEF BlockStride, Bins, BinOwner
<1>7. Segments = 3 /\ OutCells(args) = Bins /\ SharedCells(args) = Bins
  BY DEF Segments, OutCells, SharedCells, Bins, Gemm
<1> QED BY <1>1, <1>2, <1>5, <1>6, <1>7

(* Every element has a block and a thread. *)
LEMMA HistogramOwners ==
  ASSUME Valid, args.kernel = "histogram256", NEW i \in 0..(args.n - 1)
  PROVE  OwnerBlock(i) \in Blocks /\ OwnerThread(i) \in Threads
<1>1. i \in Int
  BY HistogramLaunch
<1> QED BY <1>1, OwnerExists DEF Vector

(* What depends on the launch alone does not change. *)
LEMMA HistogramUnchanged ==
  ASSUME args' = args
  PROVE  /\ Blocks' = Blocks /\ Threads' = Threads
         /\ \A c : BinOwner(c)' = BinOwner(c)
         /\ \A i : OwnerBlock(i)' = OwnerBlock(i) /\ OwnerThread(i)' = OwnerThread(i)
BY DEF Blocks, Threads, BinOwner, OwnerBlock, OwnerThread, Width

(* The first segment clears. *)
LEMMA HistogramClear ==
  ASSUME Valid, Memory, HistogramInv, args.kernel = "histogram256",
         NEW b \in Blocks, NEW t \in Threads, Run(b, t), phase[b][t] = 0
  PROVE  Memory' /\ HistogramInv'
<1> DEFINE w == [c \in BlockStride(t) |-> 0]
<1>1. Does(b, t, {}, w, <<>>, FALSE, acc[b][t])
  BY HistogramDoes
<1>2. DOMAIN w = BlockStride(t) /\ \A c \in BlockStride(t) : w[c] = 0
  OBVIOUS
<1> HIDE DEF w
<1>3. Ran(b, t, w, <<>>, acc[b][t])
  BY <1>1, RunEffect
<1>4. DOMAIN w \subseteq SharedCells(args) /\ Segments \in Nat
  BY <1>2, HistogramLaunch
<1>5. Memory'
  BY <1>1, <1>4, NothingWritten, MemoryStep
<1>6. args' = args
  BY <1>3 DEF Ran
<1>7. \A c \in Bins : out'[c] = out[c]
  <2>1. IsArray(out, OutCells(args)) /\ out' = Written(<<>>, out)
    BY <1>3 DEF Memory, Ran
  <2> QED BY <2>1, NothingWritten, WrittenArray, HistogramLaunch
<1>8. \A c \in Bins : shared'[b][c] = IF c \in BlockStride(t) THEN 0 ELSE shared[b][c]
  <2>1. IsArray(shared[b], SharedCells(args)) /\ shared'[b] = Written(w, shared[b])
    BY <1>3 DEF Memory, Ran
  <2> QED BY <1>2, <1>4, <2>1, WrittenArray, HistogramLaunch
<1>9. \A d \in Blocks : \A u \in Threads : phase[d][u] \in Nat /\ phase[b][u] <= 1
  BY DEF Memory, Lockstep
<1>10. \A d \in Blocks : \A u \in Threads :
         /\ phase'[d][u] >= 2 <=> phase[d][u] >= 2
         /\ phase'[d][u] >= 3 <=> phase[d][u] >= 3
  BY <1>3 DEF Ran
<1>11. ASSUME NEW c \in Bins PROVE CarriedOut(c)' = CarriedOut(c)
  <2>1. BinOwner(c) \in Threads
    BY HistogramLaunch
  <2>2. \A i \in 0..(args.n - 1) :
          phase'[OwnerBlock(i)][BinOwner(c)] >= 3 <=> phase[OwnerBlock(i)][BinOwner(c)] >= 3
    BY <1>10, <2>1, HistogramOwners
  <2> QED BY <1>6, <2>2, HistogramUnchanged DEF CarriedOut
<1>12. ASSUME NEW d \in Blocks, NEW c \in Bins PROVE CountedBy(d, c)' = CountedBy(d, c)
  <2>1. \A i \in 0..(args.n - 1) : phase'[d][OwnerThread(i)] >= 2 <=> phase[d][OwnerThread(i)] >= 2
    BY <1>10, HistogramOwners
  <2> QED BY <1>6, <2>1, HistogramUnchanged DEF CountedBy
<1>13. ASSUME NEW d \in Blocks, NEW c \in Bins, phase'[d][BinOwner(c)] >= 1
       PROVE  shared'[d][c] = Cardinality(CountedBy(d, c))
  <2>1. CASE d = b /\ c \in BlockStride(t)
    <3>1. \A i \in 0..(args.n - 1) : ~(phase[b][OwnerThread(i)] >= 2)
      BY <1>9, HistogramOwners
    <3>2. CountedBy(b, c) = {}
      BY <3>1 DEF CountedBy
    <3> QED BY <1>8, <2>1, <3>2, FS_EmptySet
  <2>2. CASE ~(d = b /\ c \in BlockStride(t))
    <3>1. BinOwner(c) \in Threads /\ ~(d = b /\ BinOwner(c) = t)
      BY <2>2, HistogramLaunch
    <3>2. phase[d][BinOwner(c)] >= 1
      BY <1>3, <1>13, <3>1 DEF Ran
    <3>3. shared'[d][c] = shared[d][c]
      BY <1>3, <1>8, <2>2 DEF Ran
    <3> QED BY <3>2, <3>3 DEF HistogramInv
  <2> QED BY <2>1, <2>2
<1>14. \A c \in Bins : out'[c] = Cardinality(CarriedOut(c))
  BY <1>7 DEF HistogramInv
<1>15. Bins' = Bins
  BY DEF Bins
<1> QED BY <1>5, <1>6, <1>11, <1>12, <1>13, <1>14, <1>15, HistogramUnchanged DEF HistogramInv

(* The second segment counts. *)
LEMMA HistogramCount ==
  ASSUME Valid, Memory, HistogramInv, args.kernel = "histogram256",
         NEW b \in Blocks, NEW t \in Threads, Run(b, t), phase[b][t] = 1
  PROVE  Memory' /\ HistogramInv'
<1>1. Does(b, t, {}, Counted(b, t), <<>>, TRUE, acc[b][t])
  BY HistogramDoes
<1>2. /\ DOMAIN Counted(b, t) = {args.in[i] : i \in GridStride(b, t)}
      /\ \A c \in DOMAIN Counted(b, t) : Counted(b, t)[c] = shared[b][c] + Cardinality(Mine(b, t, c))
  BY DEF Counted
<1>3. Ran(b, t, Counted(b, t), <<>>, acc[b][t])
  BY <1>1, RunEffect
<1>4. \A i : i \in GridStride(b, t) <=> i \in 0..(args.n - 1) /\ OwnerBlock(i) = b /\ OwnerThread(i) = t
  BY StrideOwner DEF Vector
<1>5. DOMAIN Counted(b, t) \subseteq SharedCells(args) /\ Segments \in Nat
  BY <1>2, <1>4, HistogramLaunch
<1>6. Memory'
  BY <1>1, <1>5, NothingWritten, MemoryStep
<1>7. args' = args
  BY <1>3 DEF Ran
<1>8. \A c \in Bins : out'[c] = out[c]
  <2>1. IsArray(out, OutCells(args)) /\ out' = Written(<<>>, out)
    BY <1>3 DEF Memory, Ran
  <2> QED BY <2>1, NothingWritten, WrittenArray, HistogramLaunch
<1>9. \A c \in Bins : shared'[b][c] = IF c \in DOMAIN Counted(b, t) THEN Counted(b, t)[c] ELSE shared[b][c]
  <2>1. IsArray(shared[b], SharedCells(args)) /\ shared'[b] = Written(Counted(b, t), shared[b])
    BY <1>3 DEF Memory, Ran
  <2> QED BY <1>5, <2>1, WrittenArray, HistogramLaunch
<1>10. \A d \in Blocks : \A u \in Threads :
         /\ phase[d][u] \in Nat /\ phase[b][u] >= 1
         /\ phase'[d][u] >= 3 <=> phase[d][u] >= 3
         /\ phase'[d][u] >= 2 <=> phase[d][u] >= 2 \/ (d = b /\ u = t)
  <2>1. \A d \in Blocks : \A u \in Threads : phase[d][u] \in Nat
    BY DEF Memory
  <2>2. \A u \in Threads : phase[b][u] >= 1
    BY DEF Run, CanRun, syncthreads
  <2> QED BY <1>3, <2>1, <2>2 DEF Ran
<1>11. ASSUME NEW c \in Bins PROVE CarriedOut(c)' = CarriedOut(c)
  <2>1. BinOwner(c) \in Threads
    BY HistogramLaunch
  <2>2. \A i \in 0..(args.n - 1) :
          phase'[OwnerBlock(i)][BinOwner(c)] >= 3 <=> phase[OwnerBlock(i)][BinOwner(c)] >= 3
    BY <1>10, <2>1, HistogramOwners
  <2> QED BY <1>7, <2>2, HistogramUnchanged DEF CarriedOut
<1>12. ASSUME NEW d \in Blocks, NEW c \in Bins, d # b PROVE CountedBy(d, c)' = CountedBy(d, c)
  <2>1. \A i \in 0..(args.n - 1) : phase'[d][OwnerThread(i)] >= 2 <=> phase[d][OwnerThread(i)] >= 2
    BY <1>10, <1>12, HistogramOwners
  <2> QED BY <1>7, <2>1, HistogramUnchanged DEF CountedBy
<1>13. ASSUME NEW c \in Bins PROVE CountedBy(b, c)' = CountedBy(b, c) \cup Mine(b, t, c)
  <2>1. \A i \in 0..(args.n - 1) :
          phase'[b][OwnerThread(i)] >= 2 <=> phase[b][OwnerThread(i)] >= 2 \/ OwnerThread(i) = t
    BY <1>10, HistogramOwners
  <2>2. CountedBy(b, c)' = {i \in 0..(args.n - 1) : /\ args.in[i] = c /\ OwnerBlock(i) = b
                                                    /\ phase'[b][OwnerThread(i)] >= 2}
    BY <1>7, HistogramUnchanged DEF CountedBy
  <2> QED BY <1>4, <2>1, <2>2 DEF CountedBy, Mine
<1>14. ASSUME NEW c \in Bins PROVE CountedBy(b, c) \cap Mine(b, t, c) = {}
  <2>1. ~(phase[b][t] >= 2)
    OBVIOUS
  <2> QED BY <1>4, <2>1 DEF CountedBy, Mine
<1>15. ASSUME NEW c \in Bins PROVE shared'[b][c] = Cardinality(CountedBy(b, c)')
  <2>1. PICK n \in Nat : n = args.n
    BY HistogramLaunch
  <2>2. CountedBy(b, c) \in SUBSET (0..(n - 1)) /\ Mine(b, t, c) \in SUBSET (0..(n - 1))
    BY <1>4, <2>1 DEF CountedBy, Mine
  <2>3. Cardinality(CountedBy(b, c) \cup Mine(b, t, c)) = Cardinality(CountedBy(b, c)) + Cardinality(Mine(b, t, c))
    BY <1>14, <2>2, CountDisjoint
  <2>4. shared[b][c] = Cardinality(CountedBy(b, c))
    <3>1. BinOwner(c) \in Threads
      BY HistogramLaunch
    <3> QED BY <1>10, <3>1 DEF HistogramInv
  <2>5. Cardinality(CountedBy(b, c)) \in Nat
    BY <2>2, CountIndices
  <2>6. CASE c \in DOMAIN Counted(b, t)
    BY <1>2, <1>9, <1>13, <2>3, <2>4, <2>6
  <2>7. CASE c \notin DOMAIN Counted(b, t)
    <3>1. Mine(b, t, c) = {}
      BY <1>2, <2>7 DEF Mine
    <3>2. CountedBy(b, c) \cup Mine(b, t, c) = CountedBy(b, c)
      BY <3>1
    <3> QED BY <1>9, <1>13, <2>4, <2>7, <3>2
  <2> QED BY <2>6, <2>7
<1>16. ASSUME NEW d \in Blocks, NEW c \in Bins, phase'[d][BinOwner(c)] >= 1
       PROVE  shared'[d][c] = Cardinality(CountedBy(d, c)')
  <2>1. CASE d = b
    BY <1>15, <2>1
  <2>2. CASE d # b
    <3>1. BinOwner(c) \in Threads
      BY HistogramLaunch
    <3>2. phase[d][BinOwner(c)] >= 1 /\ shared'[d][c] = shared[d][c]
      BY <1>3, <1>16, <2>2, <3>1 DEF Ran
    <3> QED BY <1>12, <2>2, <3>2 DEF HistogramInv
  <2> QED BY <2>1, <2>2
<1>17. \A c \in Bins : out'[c] = Cardinality(CarriedOut(c))
  BY <1>8 DEF HistogramInv
<1>18. Bins' = Bins
  BY DEF Bins
<1> QED BY <1>6, <1>7, <1>11, <1>16, <1>17, <1>18, HistogramUnchanged DEF HistogramInv

(* The third segment adds to the output. *)
LEMMA HistogramAdd ==
  ASSUME Valid, Memory, HistogramInv, args.kernel = "histogram256",
         NEW b \in Blocks, NEW t \in Threads, Run(b, t), phase[b][t] = 2
  PROVE  Memory' /\ HistogramInv'
<1>1. Does(b, t, BlockStride(t), <<>>, Added(b, t), TRUE, acc[b][t])
  BY HistogramDoes
<1>2. /\ DOMAIN Added(b, t) = Full(b, t)
      /\ \A c \in Full(b, t) : Added(b, t)[c] = out[c] + shared[b][c]
  BY DEF Added
<1>3. Ran(b, t, <<>>, Added(b, t), acc[b][t])
  BY <1>1, RunEffect
<1>4. DOMAIN Added(b, t) \subseteq OutCells(args) /\ Segments \in Nat
  BY <1>2, HistogramLaunch DEF Full
<1>5. Memory'
  BY <1>1, <1>4, NothingWritten, MemoryStep
<1>6. args' = args
  BY <1>3 DEF Ran
<1>7. \A d \in Blocks : \A c \in Bins : shared'[d][c] = shared[d][c]
  <2>1. IsArray(shared[b], SharedCells(args)) /\ shared'[b] = Written(<<>>, shared[b])
    BY <1>3 DEF Memory, Ran
  <2>2. \A c \in Bins : shared'[b][c] = shared[b][c]
    BY <2>1, NothingWritten, WrittenArray, HistogramLaunch
  <2> QED BY <1>3, <2>2 DEF Ran
<1>8. \A c \in Bins : out'[c] = IF c \in Full(b, t) THEN out[c] + shared[b][c] ELSE out[c]
  <2>1. IsArray(out, OutCells(args)) /\ out' = Written(Added(b, t), out)
    BY <1>3 DEF Memory, Ran
  <2> QED BY <1>2, <1>4, <2>1, WrittenArray, HistogramLaunch
<1>9. \A d \in Blocks : \A u \in Threads :
         /\ phase[d][u] \in Nat /\ phase[b][u] >= 2
         /\ phase'[d][u] >= 1 <=> phase[d][u] >= 1
         /\ phase'[d][u] >= 2 <=> phase[d][u] >= 2
         /\ phase'[d][u] >= 3 <=> phase[d][u] >= 3 \/ (d = b /\ u = t)
  <2>1. \A d \in Blocks : \A u \in Threads : phase[d][u] \in Nat
    BY DEF Memory
  <2>2. \A u \in Threads : phase[b][u] >= 2
    BY DEF Run, CanRun, syncthreads
  <2> QED BY <1>3, <2>1, <2>2 DEF Ran
<1>10. ASSUME NEW d \in Blocks, NEW c \in Bins PROVE CountedBy(d, c)' = CountedBy(d, c)
  <2>1. \A i \in 0..(args.n - 1) : phase'[d][OwnerThread(i)] >= 2 <=> phase[d][OwnerThread(i)] >= 2
    BY <1>9, HistogramOwners
  <2> QED BY <1>6, <2>1, HistogramUnchanged DEF CountedBy
<1>11. ASSUME NEW c \in Bins PROVE out'[c] = Cardinality(CarriedOut(c)')
  <2>1. BinOwner(c) \in Threads /\ (c \in BlockStride(t) <=> BinOwner(c) = t)
    BY HistogramLaunch
  <2>2. out[c] = Cardinality(CarriedOut(c))
    BY DEF HistogramInv
  <2>3. CarriedOut(c)' = {i \in 0..(args.n - 1) : args.in[i] = c /\ phase'[OwnerBlock(i)][BinOwner(c)] >= 3}
    BY <1>6, HistogramUnchanged DEF CarriedOut
  <2>4. CASE BinOwner(c) # t
    <3>1. \A i \in 0..(args.n - 1) :
            phase'[OwnerBlock(i)][BinOwner(c)] >= 3 <=> phase[OwnerBlock(i)][BinOwner(c)] >= 3
      BY <1>9, <2>1, <2>4, HistogramOwners
    <3>2. CarriedOut(c)' = CarriedOut(c)
      BY <2>3, <3>1 DEF CarriedOut
    <3>3. out'[c] = out[c]
      BY <1>8, <2>1, <2>4 DEF Full
    <3> QED BY <2>2, <3>2, <3>3
  <2>5. CASE BinOwner(c) = t
    <3>1. \A i \in 0..(args.n - 1) :
            phase'[OwnerBlock(i)][t] >= 3 <=> phase[OwnerBlock(i)][t] >= 3 \/ OwnerBlock(i) = b
      BY <1>9, HistogramOwners
    <3>2. \A i \in 0..(args.n - 1) : phase[b][OwnerThread(i)] >= 2
      BY <1>9, HistogramOwners
    <3>3. CountedBy(b, c) = {i \in 0..(args.n - 1) : args.in[i] = c /\ OwnerBlock(i) = b}
      BY <3>2 DEF CountedBy
    <3>4. CarriedOut(c)' = CarriedOut(c) \cup CountedBy(b, c)
      BY <2>3, <2>5, <3>1, <3>3 DEF CarriedOut
    <3>5. CarriedOut(c) \cap CountedBy(b, c) = {}
      <4>1. ~(phase[b][t] >= 3)
        OBVIOUS
      <4> QED BY <2>5, <3>3, <4>1 DEF CarriedOut
    <3>6. PICK n \in Nat : n = args.n
      BY HistogramLaunch
    <3>7. CountedBy(b, c) \in SUBSET (0..(n - 1)) /\ CarriedOut(c) \in SUBSET (0..(n - 1))
      BY <3>6 DEF CountedBy, CarriedOut
    <3>8. Cardinality(CarriedOut(c) \cup CountedBy(b, c)) = Cardinality(CarriedOut(c)) + Cardinality(CountedBy(b, c))
      BY <3>5, <3>7, CountDisjoint
    <3>9. Cardinality(CarriedOut(c)) \in Nat /\ Cardinality(CountedBy(b, c)) \in Nat
      BY <3>7, CountIndices
    <3>10. shared[b][c] = Cardinality(CountedBy(b, c))
      <4>1. phase[b][t] >= 1
        OBVIOUS
      <4> QED BY <2>5, <4>1 DEF HistogramInv
    <3>11. c \in Full(b, t) <=> shared[b][c] # 0
      BY <2>1, <2>5 DEF Full
    <3>12. out'[c] = out[c] + shared[b][c]
      BY <1>8, <2>2, <3>9, <3>10, <3>11
    <3> QED BY <2>2, <3>4, <3>8, <3>10, <3>12
  <2> QED BY <2>4, <2>5
<1>12. ASSUME NEW d \in Blocks, NEW c \in Bins, phase'[d][BinOwner(c)] >= 1
       PROVE  shared'[d][c] = Cardinality(CountedBy(d, c))
  <2>1. BinOwner(c) \in Threads
    BY HistogramLaunch
  <2>2. phase[d][BinOwner(c)] >= 1
    BY <1>9, <1>12, <2>1
  <2> QED BY <1>7, <2>2 DEF HistogramInv
<1>13. Bins' = Bins
  BY DEF Bins
<1> QED BY <1>5, <1>6, <1>10, <1>11, <1>12, <1>13, HistogramUnchanged DEF HistogramInv

(* A step of histogram256 keeps its invariant. *)
LEMMA HistogramStep ==
  ASSUME Valid, Memory, HistogramInv, args.kernel = "histogram256",
         NEW b \in Blocks, NEW t \in Threads, Run(b, t)
  PROVE  Memory' /\ HistogramInv'
<1>1. Segments = 3
  BY HistogramLaunch
<1>2. phase[b][t] \in Nat /\ phase[b][t] < 3
  BY <1>1 DEF Memory, Run, CanRun
<1>3. phase[b][t] = 0 \/ phase[b][t] = 1 \/ phase[b][t] = 2
  BY <1>2
<1> QED BY <1>3, HistogramClear, HistogramCount, HistogramAdd

(* In the end all elements have been carried to the output. *)
LEMMA HistogramDone ==
  ASSUME Valid, Memory, HistogramInv, args.kernel = "histogram256",
         \A b \in Blocks : \A t \in Threads : phase[b][t] = Segments
  PROVE  out = Reference
<1>1. ASSUME NEW c \in Bins PROVE out[c] = Cardinality({i \in 0..(args.n - 1) : args.in[i] = c})
  <2>1. BinOwner(c) \in Threads /\ Segments = 3
    BY HistogramLaunch
  <2>2. \A i \in 0..(args.n - 1) : phase[OwnerBlock(i)][BinOwner(c)] >= 3
    BY <2>1, HistogramOwners
  <2>3. CarriedOut(c) = {i \in 0..(args.n - 1) : args.in[i] = c}
    BY <2>2 DEF CarriedOut
  <2> QED BY <2>3 DEF HistogramInv
<1>2. out = [c \in Bins |-> out[c]]
  BY HistogramLaunch DEF Memory, IsArray
<1>3. [c \in Bins |-> out[c]] = [c \in Bins |-> Cardinality({i \in 0..(args.n - 1) : args.in[i] = c})]
  BY <1>1
<1>4. Reference = cpu_histogram256
  BY DEF Reference, Gemm
<1> QED BY <1>2, <1>3, <1>4 DEF cpu_histogram256, Bins

-----------------------------------------------------------------------------
(* gemm_tiled: after each tile the accumulator is a prefix of the product. *)

(* Induction: a set with 0 and with every successor has all naturals. *)
LEMMA NatSetInduction ==
  ASSUME NEW S, 0 \in S, \A n \in Nat : n \in S => n + 1 \in S
  PROVE  Nat \subseteq S
<1> SUFFICES ASSUME Nat \ S # {} PROVE FALSE
  OBVIOUS
<1>1. PICK x \in Nat \ S : \A y \in Nat \ S : ~ (<<y, x>> \in OpToRel(<, Nat))
  BY WFMin, NatLessThanWellFounded
<1>2. \A y \in Nat \ S : ~(y < x)
  BY <1>1 DEF OpToRel
<1>3. x # 0 /\ x - 1 \in Nat
  OBVIOUS
<1>4. x - 1 \in S
  BY <1>2, <1>3
<1> QED BY <1>3, <1>4

(* The first m terms of the dot product of a thread. *)
Term(b, t, k) == <<row(b, t) * args.K + k - 1, (k - 1) * args.N + col(b, t)>>
FirstTerms(b, t, m) == [k \in 1..m |-> Term(b, t, k)]
Clip(m) == IF m < args.K THEN m ELSE args.K

(* One more term. *)
LEMMA FirstTermsAppend ==
  ASSUME NEW b, NEW t, NEW m \in Nat
  PROVE  Append(FirstTerms(b, t, m), Term(b, t, m + 1)) = FirstTerms(b, t, m + 1)
<1> DEFINE g == [k \in Nat |-> Term(b, t, k)]
           V == {Term(b, t, k) : k \in Nat}
<1>1. FirstTerms(b, t, m) = [k \in 1..m |-> g[k]] /\ FirstTerms(b, t, m + 1) = [k \in 1..(m + 1) |-> g[k]]
  BY DEF FirstTerms
<1>2. g \in [Nat -> V] /\ g[m + 1] = Term(b, t, m + 1)
  OBVIOUS
<1> HIDE DEF g, V
<1>3. PICK s : s = [k \in 1..m |-> g[k]]
  OBVIOUS
<1>4. s \in Seq(V) /\ Len(s) = m
  BY <1>2, <1>3
<1>5. g[m + 1] \in V
  BY <1>2
<1>6. Append(s, g[m + 1]) = [k \in 1..(m + 1) |-> g[k]]
  BY <1>2, <1>3, <1>4, <1>5
<1> QED BY <1>1, <1>2, <1>3, <1>6

(* The step of the sum over a tile. *)
Summand(b, t, k) == <<shared[b][<<"As", <<k, t[2]>>>>], shared[b][<<"Bs", <<t[1], k>>>>]>>
IsSumOf(b, t, f) ==
  [k \in 0..kTile |->
     IF k = 0 THEN acc[b][t]
     ELSE IF Summand(b, t, k - 1) = <<Zero, Zero>> THEN f[k - 1] ELSE Append(f[k - 1], Summand(b, t, k - 1))]

(* A function that solves the recursion of Multiplied gives its value. *)
LEMMA MultipliedIs ==
  ASSUME NEW b, NEW t, NEW g, g = IsSumOf(b, t, g), kTile \in Nat
  PROVE  Multiplied(b, t) = g[kTile]
<1> DEFINE h == CHOOSE f : f = IsSumOf(b, t, f)
<1>1. Multiplied(b, t) = h[kTile]
  BY DEF Multiplied, IsSumOf, Summand
<1>2. h = IsSumOf(b, t, h)
  OBVIOUS
<1> HIDE DEF h
<1> DEFINE P == {k \in Nat : k <= kTile => h[k] = g[k]}
<1>3. 0 \in P
  <2>1. 0 \in 0..kTile
    OBVIOUS
  <2>2. h[0] = acc[b][t]
    BY <1>2, <2>1 DEF IsSumOf
  <2>3. g[0] = acc[b][t]
    BY <2>1 DEF IsSumOf
  <2> QED BY <2>2, <2>3
<1>4. ASSUME NEW k \in Nat, k \in P PROVE k + 1 \in P
  <2> SUFFICES ASSUME k + 1 <= kTile PROVE h[k + 1] = g[k + 1]
    OBVIOUS
  <2>1. k + 1 \in 0..kTile /\ k + 1 # 0 /\ (k + 1) - 1 = k
    OBVIOUS
  <2>2. h[k + 1] = IF Summand(b, t, k) = <<Zero, Zero>> THEN h[k] ELSE Append(h[k], Summand(b, t, k))
    BY <1>2, <2>1 DEF IsSumOf
  <2>3. g[k + 1] = IF Summand(b, t, k) = <<Zero, Zero>> THEN g[k] ELSE Append(g[k], Summand(b, t, k))
    BY <2>1 DEF IsSumOf
  <2>4. h[k] = g[k]
    BY <1>4
  <2> QED BY <2>2, <2>3, <2>4
<1>5. Nat \subseteq P
  <2> HIDE DEF P
  <2> QED BY <1>3, <1>4, NatSetInduction
<1>6. kTile \in P
  BY <1>5
<1>7. h[kTile] = g[kTile]
  BY <1>6
<1> QED BY <1>1, <1>7

(* A tile adds its terms, and no more than there are. *)
LEMMA TileMultiplied ==
  ASSUME NEW b, NEW t, NEW tile \in Nat, kTile \in Nat, args.K \in Nat,
         acc[b][t] = FirstTerms(b, t, Clip(tile * kTile)),
         \A k \in 0..(kTile - 1) :
           Summand(b, t, k) = IF tile * kTile + k < args.K THEN Term(b, t, tile * kTile + k + 1) ELSE <<Zero, Zero>>,
         \A k \in 1..args.K : Term(b, t, k) # <<Zero, Zero>>
  PROVE  Multiplied(b, t) = FirstTerms(b, t, Clip((tile + 1) * kTile))
<1>1. PICK o \in Nat : o = tile * kTile
  OBVIOUS
<1> DEFINE g == [k \in 0..kTile |-> FirstTerms(b, t, Clip(o + k))]
<1>2. ASSUME NEW k \in 0..kTile
      PROVE  g[k] = IF k = 0 THEN acc[b][t]
                    ELSE IF Summand(b, t, k - 1) = <<Zero, Zero>> THEN g[k - 1]
                    ELSE Append(g[k - 1], Summand(b, t, k - 1))
  <2>1. CASE k = 0
    <3>1. o + 0 = o
      OBVIOUS
    <3> QED BY <1>1, <2>1, <3>1
  <2>2. CASE k # 0
    <3>1. k - 1 \in 0..(kTile - 1) /\ k - 1 \in 0..kTile /\ k \in Nat /\ o + (k - 1) + 1 = o + k /\ o + (k - 1) \in Nat
      BY <2>2
    <3>2. g[k] = FirstTerms(b, t, Clip(o + k)) /\ g[k - 1] = FirstTerms(b, t, Clip(o + (k - 1)))
      BY <3>1
    <3> HIDE DEF g
    <3>3. CASE o + (k - 1) < args.K
      <4>1. Clip(o + (k - 1)) = o + (k - 1) /\ Clip(o + k) = o + (k - 1) + 1 /\ o + k \in 1..args.K
        BY <3>1, <3>3 DEF Clip
      <4>2. Summand(b, t, k - 1) = Term(b, t, o + k) /\ Term(b, t, o + k) # <<Zero, Zero>>
        BY <1>1, <3>1, <3>3, <4>1
      <4>3. Append(FirstTerms(b, t, o + (k - 1)), Term(b, t, o + k)) = FirstTerms(b, t, o + k)
        BY <3>1, FirstTermsAppend
      <4> QED BY <2>2, <3>1, <3>2, <4>1, <4>2, <4>3
    <3>4. CASE ~(o + (k - 1) < args.K)
      <4>1. Clip(o + (k - 1)) = args.K /\ Clip(o + k) = args.K
        BY <3>1, <3>4 DEF Clip
      <4>2. Summand(b, t, k - 1) = <<Zero, Zero>>
        BY <1>1, <3>1, <3>4
      <4> QED BY <2>2, <3>2, <4>1, <4>2
    <3> QED BY <3>3, <3>4
  <2> QED BY <2>1, <2>2
<1>3. g = IsSumOf(b, t, g)
  <2>1. DOMAIN g = 0..kTile /\ g = [k \in 0..kTile |-> g[k]]
    OBVIOUS
  <2> HIDE DEF g
  <2> QED BY <1>2, <2>1 DEF IsSumOf
<1>4. g[kTile] = FirstTerms(b, t, Clip(o + kTile))
  OBVIOUS
<1> HIDE DEF g
<1>5. Multiplied(b, t) = g[kTile]
  BY <1>3, MultipliedIs
<1>6. o + kTile = (tile + 1) * kTile
  BY <1>1
<1> QED BY <1>4, <1>5, <1>6

HoldsTile(b, u, tile) ==
  /\ shared[b][<<"As", u>>] = AElement(b, u, tile * kTile + u[1])
  /\ shared[b][<<"Bs", u>>] = BElement(b, u, tile * kTile + u[2])

(* What a thread has loaded is the element of the tile it is in; it has    *)
(* added the terms of the tiles before; in the end it stores them all.     *)
GemmTiledInv ==
  \A b \in Blocks : \A u \in Threads :
    /\ phase[b][u] \in 1..(2 * Tiles) => HoldsTile(b, u, (phase[b][u] - 1) \div 2)
    /\ Inside(b, u) => acc[b][u] = FirstTerms(b, u, Clip((phase[b][u] \div 2) * kTile))
    /\ phase[b][u] = 2 * Tiles + 1 /\ Inside(b, u) => out[GemmAt(b, u)] = Dot(row(b, u), col(b, u))

(* The tiles cover the inner dimension. *)
LEMMA GemmTiledLaunch ==
  ASSUME Valid, args.kernel = "gemm_tiled"
  PROVE  /\ args.kernel \in Gemm /\ Tiles \in Nat /\ Segments = 2 * Tiles + 1
         /\ Tiles * kTile >= args.K /\ args.K \in Nat /\ kTile \in Nat \ {0}
         /\ OutCells(args) = 0..(args.M * args.N - 1) /\ SharedCells(args) = {"As", "Bs"} \X Threads
<1>1. args.kernel \in Gemm
  BY DEF Gemm
<1>2. args.K \in Nat /\ kTile \in Nat \ {0}
  BY <1>1, GemmLaunch
<1>3. Tiles \in Nat /\ Tiles * kTile >= args.K
  BY <1>2, Ceil DEF Tiles
<1>4. Segments = 2 * Tiles + 1
  BY DEF Segments, Tiles
<1>5. OutCells(args) = 0..(args.M * args.N - 1)
  BY DEF OutCells, Gemm
<1>6. Below(<<kTile, kTile>>) = Threads
  BY <1>1, GemmLaunch DEF Below
<1>7. SharedCells(args) = {"As", "Bs"} \X Threads
  BY <1>6 DEF SharedCells
<1> QED BY <1>1, <1>2, <1>3, <1>4, <1>5, <1>7

(* What depends on the launch alone does not change. *)
LEMMA GemmUnchanged ==
  ASSUME args' = args
  PROVE  /\ Blocks' = Blocks /\ Threads' = Threads /\ Tiles' = Tiles
         /\ \A b, t : row(b, t)' = row(b, t) /\ col(b, t)' = col(b, t)
         /\ \A b, t : GemmAt(b, t)' = GemmAt(b, t) /\ Inside(b, t)' = Inside(b, t)
         /\ \A r, c : Dot(r, c)' = Dot(r, c)
         /\ \A m : Clip(m)' = Clip(m)
         /\ \A b, t, m : FirstTerms(b, t, m)' = FirstTerms(b, t, m)
         /\ \A b, t, k : AElement(b, t, k)' = AElement(b, t, k) /\ BElement(b, t, k)' = BElement(b, t, k)
BY DEF Blocks, Threads, Tiles, row, col, GemmAt, Inside, Dot, Clip, FirstTerms, Term, AElement, BElement

(* It is enough to show the invariant with the launch as it was. *)
LEMMA GemmTiledNext ==
  ASSUME args' = args,
         \A b \in Blocks : \A u \in Threads :
           /\ phase'[b][u] \in 1..(2 * Tiles) =>
                /\ shared'[b][<<"As", u>>] = AElement(b, u, ((phase'[b][u] - 1) \div 2) * kTile + u[1])
                /\ shared'[b][<<"Bs", u>>] = BElement(b, u, ((phase'[b][u] - 1) \div 2) * kTile + u[2])
           /\ Inside(b, u) => acc'[b][u] = FirstTerms(b, u, Clip((phase'[b][u] \div 2) * kTile))
           /\ phase'[b][u] = 2 * Tiles + 1 /\ Inside(b, u) => out'[GemmAt(b, u)] = Dot(row(b, u), col(b, u))
  PROVE  GemmTiledInv'
<1>1. Blocks' = Blocks /\ Threads' = Threads /\ Tiles' = Tiles
  BY GemmUnchanged
<1>2. ASSUME NEW b \in Blocks, NEW u \in Threads
      PROVE  (phase[b][u] \in 1..(2 * Tiles) => HoldsTile(b, u, (phase[b][u] - 1) \div 2))'
  <2>1. \A k : AElement(b, u, k)' = AElement(b, u, k) /\ BElement(b, u, k)' = BElement(b, u, k)
    BY GemmUnchanged
  <2> QED BY <1>1, <2>1 DEF HoldsTile
<1>3. ASSUME NEW b \in Blocks, NEW u \in Threads
      PROVE  (Inside(b, u) => acc[b][u] = FirstTerms(b, u, Clip((phase[b][u] \div 2) * kTile)))'
  <2>1. Inside(b, u) => acc'[b][u] = FirstTerms(b, u, Clip((phase'[b][u] \div 2) * kTile))
    OBVIOUS
  <2>2. Inside(b, u)' <=> Inside(b, u)
    BY DEF Inside, row, col
  <2>3. (FirstTerms(b, u, Clip((phase[b][u] \div 2) * kTile)))' = FirstTerms(b, u, Clip((phase'[b][u] \div 2) * kTile))
    BY DEF FirstTerms, Term, Clip, row, col
  <2> QED BY <2>1, <2>2, <2>3
<1>4. ASSUME NEW b \in Blocks, NEW u \in Threads
      PROVE  (phase[b][u] = 2 * Tiles + 1 /\ Inside(b, u) => out[GemmAt(b, u)] = Dot(row(b, u), col(b, u)))'
  <2>1. phase'[b][u] = 2 * Tiles + 1 /\ Inside(b, u) => out'[GemmAt(b, u)] = Dot(row(b, u), col(b, u))
    OBVIOUS
  <2>2. Inside(b, u)' <=> Inside(b, u)
    BY DEF Inside, row, col
  <2>3. (Dot(row(b, u), col(b, u)))' = Dot(row(b, u), col(b, u)) /\ GemmAt(b, u)' = GemmAt(b, u)
    BY DEF Dot, GemmAt, row, col
  <2> QED BY <1>1, <2>1, <2>2, <2>3
<1> QED BY <1>1, <1>2, <1>3, <1>4 DEF GemmTiledInv

(* A thread that loads its elements of a tile. *)
LEMMA GemmTiledLoad ==
  ASSUME Valid, Memory, GemmTiledInv, args.kernel = "gemm_tiled",
         NEW b \in Blocks, NEW t \in Threads, Run(b, t),
         NEW q \in Nat, phase[b][t] = 2 * q, q < Tiles
  PROVE  Memory' /\ GemmTiledInv'
<1>1. Tiles \in Nat /\ (2 * q) \div 2 = q /\ (2 * q) % 2 = 0 /\ 2 * q \in Nat
  BY GemmTiledLaunch
<1>2. Does(b, t, {}, Loaded(b, t, q), <<>>, FALSE, acc[b][t])
  BY <1>1, GemmTiledDoes
<1>3. Ran(b, t, Loaded(b, t, q), <<>>, acc[b][t])
  BY <1>2, RunEffect
<1>4. /\ DOMAIN Loaded(b, t, q) = {"As", "Bs"} \X {t}
      /\ Loaded(b, t, q)[<<"As", t>>] = AElement(b, t, q * kTile + t[1])
      /\ Loaded(b, t, q)[<<"Bs", t>>] = BElement(b, t, q * kTile + t[2])
  BY DEF Loaded
<1>5. DOMAIN Loaded(b, t, q) \subseteq SharedCells(args) /\ Segments \in Nat
  BY <1>1, <1>4, GemmTiledLaunch
<1>6. Memory'
  BY <1>2, <1>5, NothingWritten, MemoryStep
<1>7. out' = out
  <2>1. IsArray(out, OutCells(args)) /\ out' = Written(<<>>, out)
    BY <1>3 DEF Memory, Ran
  <2>2. IsArray(out', OutCells(args)) /\ \A c \in OutCells(args) : out'[c] = out[c]
    BY <2>1, NothingWritten, WrittenArray
  <2> QED BY <2>1, <2>2 DEF IsArray
<1>8. \A c \in SharedCells(args) :
        shared'[b][c] = IF c \in DOMAIN Loaded(b, t, q) THEN Loaded(b, t, q)[c] ELSE shared[b][c]
  <2>1. IsArray(shared[b], SharedCells(args)) /\ shared'[b] = Written(Loaded(b, t, q), shared[b])
    BY <1>3 DEF Memory, Ran
  <2> QED BY <1>5, <2>1, WrittenArray
<1>9. phase'[b][t] = 2 * q + 1 /\ (2 * q + 1 - 1) \div 2 = q /\ (2 * q + 1) \div 2 = q /\ 2 * q + 1 # 2 * Tiles + 1
  BY <1>1, <1>3 DEF Ran
<1>10. \A d \in Blocks : \A u \in Threads : acc'[d][u] = acc[d][u]
  BY <1>3 DEF Ran
<1>11. ASSUME NEW d \in Blocks, NEW u \in Threads, d # b \/ u # t
       PROVE  /\ phase'[d][u] = phase[d][u]
              /\ shared'[d][<<"As", u>>] = shared[d][<<"As", u>>]
              /\ shared'[d][<<"Bs", u>>] = shared[d][<<"Bs", u>>]
  <2>1. phase'[d][u] = phase[d][u]
    BY <1>3, <1>11 DEF Ran
  <2>2. CASE d # b
    BY <1>3, <2>1, <2>2 DEF Ran
  <2>3. CASE d = b
    <3>1. u # t
      BY <1>11, <2>3
    <3>2. /\ <<"As", u>> \in SharedCells(args) /\ <<"Bs", u>> \in SharedCells(args)
          /\ <<"As", u>> \notin DOMAIN Loaded(b, t, q) /\ <<"Bs", u>> \notin DOMAIN Loaded(b, t, q)
      BY <1>4, <3>1, GemmTiledLaunch
    <3> QED BY <1>8, <2>1, <2>3, <3>2
  <2> QED BY <2>2, <2>3
<1>12. /\ shared'[b][<<"As", t>>] = AElement(b, t, q * kTile + t[1])
       /\ shared'[b][<<"Bs", t>>] = BElement(b, t, q * kTile + t[2])
  <2>1. /\ <<"As", t>> \in SharedCells(args) /\ <<"Bs", t>> \in SharedCells(args)
        /\ <<"As", t>> \in DOMAIN Loaded(b, t, q) /\ <<"Bs", t>> \in DOMAIN Loaded(b, t, q)
    BY <1>4, GemmTiledLaunch
  <2> QED BY <1>4, <1>8, <2>1
<1>13. ASSUME NEW d \in Blocks, NEW u \in Threads
       PROVE  /\ phase'[d][u] \in 1..(2 * Tiles) =>
                   /\ shared'[d][<<"As", u>>] = AElement(d, u, ((phase'[d][u] - 1) \div 2) * kTile + u[1])
                   /\ shared'[d][<<"Bs", u>>] = BElement(d, u, ((phase'[d][u] - 1) \div 2) * kTile + u[2])
              /\ Inside(d, u) => acc'[d][u] = FirstTerms(d, u, Clip((phase'[d][u] \div 2) * kTile))
              /\ phase'[d][u] = 2 * Tiles + 1 /\ Inside(d, u) => out'[GemmAt(d, u)] = Dot(row(d, u), col(d, u))
  <2>1. CASE d = b /\ u = t
    <3>1. Inside(b, t) => acc[b][t] = FirstTerms(b, t, Clip(q * kTile))
      BY <1>1 DEF GemmTiledInv
    <3> QED BY <1>9, <1>10, <1>12, <2>1, <3>1
  <2>2. CASE d # b \/ u # t
    BY <1>7, <1>10, <1>11, <2>2 DEF GemmTiledInv, HoldsTile
  <2> QED BY <2>1, <2>2
<1>14. args' = args
  BY <1>3 DEF Ran
<1> QED BY <1>6, <1>13, <1>14, GemmTiledNext

(* A thread that multiplies: its row and its column of the tile are there. *)
LEMMA GemmTiledMultiply ==
  ASSUME Valid, Memory, GemmTiledInv, args.kernel = "gemm_tiled",
         NEW b \in Blocks, NEW t \in Threads, Run(b, t),
         NEW q \in Nat, phase[b][t] = 2 * q + 1, q < Tiles
  PROVE  Memory' /\ GemmTiledInv'
<1>1. Tiles \in Nat /\ (2 * q + 1) \div 2 = q /\ (2 * q + 1) % 2 = 1 /\ 2 * q + 1 \in Nat
  BY GemmTiledLaunch
<1>2. Does(b, t, TileReads(t), <<>>, <<>>, FALSE, Multiplied(b, t))
  BY <1>1, GemmTiledDoes
<1>3. Ran(b, t, <<>>, <<>>, Multiplied(b, t))
  BY <1>2, RunEffect
<1>4. Segments \in Nat
  BY <1>1, GemmTiledLaunch
<1>5. Memory'
  BY <1>2, <1>4, NothingWritten, MemoryStep
<1>6. out' = out
  <2>1. IsArray(out, OutCells(args)) /\ out' = Written(<<>>, out)
    BY <1>3 DEF Memory, Ran
  <2>2. IsArray(out', OutCells(args)) /\ \A c \in OutCells(args) : out'[c] = out[c]
    BY <2>1, NothingWritten, WrittenArray
  <2> QED BY <2>1, <2>2 DEF IsArray
<1>7. \A d \in Blocks : shared'[d] = shared[d]
  <2>1. IsArray(shared[b], SharedCells(args)) /\ shared'[b] = Written(<<>>, shared[b])
    BY <1>3 DEF Memory, Ran
  <2>2. IsArray(shared'[b], SharedCells(args)) /\ \A c \in SharedCells(args) : shared'[b][c] = shared[b][c]
    BY <2>1, NothingWritten, WrittenArray
  <2>3. shared'[b] = shared[b]
    BY <2>1, <2>2 DEF IsArray
  <2> QED BY <1>3, <2>3 DEF Ran
<1>8. ASSUME NEW u \in Threads PROVE HoldsTile(b, u, q)
  <2>1. phase[b][u] \in Nat /\ phase[b][u] >= 2 * q + 1 /\ phase[b][u] <= 2 * q + 2
    BY DEF Run, CanRun, syncthreads, Memory, Lockstep
  <2>2. phase[b][u] \in 1..(2 * Tiles) /\ (phase[b][u] - 1) \div 2 = q
    BY <1>1, <2>1
  <2> QED BY <2>2 DEF GemmTiledInv
<1>9. ASSUME Inside(b, t) PROVE Multiplied(b, t) = FirstTerms(b, t, Clip((q + 1) * kTile))
  <2>1. PICK K \in Nat, T \in Nat \ {0} : K = args.K /\ T = kTile
    BY GemmTiledLaunch
  <2>2. /\ row(b, t) \in Nat /\ col(b, t) \in Nat /\ row(b, t) < args.M /\ col(b, t) < args.N /\ args.N \in Nat
        /\ t[1] \in 0..(kTile - 1) /\ t[2] \in 0..(kTile - 1)
    BY <1>9, GemmTiledLaunch, GemmPlace, GemmLaunch DEF Inside
  <2>3. acc[b][t] = FirstTerms(b, t, Clip(q * kTile))
    BY <1>1, <1>9 DEF GemmTiledInv
  <2>4. ASSUME NEW k \in 0..(kTile - 1)
        PROVE  Summand(b, t, k) = IF q * kTile + k < args.K THEN Term(b, t, q * kTile + k + 1) ELSE <<Zero, Zero>>
    <3>1. <<k, t[2]>> \in Threads /\ <<t[1], k>> \in Threads
      BY <2>2, GemmTiledLaunch, GemmLaunch
    <3>2. HoldsTile(b, <<k, t[2]>>, q) /\ HoldsTile(b, <<t[1], k>>, q)
      BY <1>8, <3>1
    <3>3. row(b, <<k, t[2]>>) = row(b, t) /\ col(b, <<t[1], k>>) = col(b, t)
      BY DEF row, col
    <3>4. PICK kk \in Nat : kk = q * kTile + k
      BY <2>1
    <3>5. shared[b][<<"As", <<k, t[2]>>>>] = AElement(b, <<k, t[2]>>, kk)
      BY <3>2, <3>4 DEF HoldsTile
    <3>6. shared[b][<<"Bs", <<t[1], k>>>>] = BElement(b, <<t[1], k>>, kk)
      BY <3>2, <3>4 DEF HoldsTile
    <3>7. AElement(b, <<k, t[2]>>, kk) = IF kk < args.K THEN row(b, t) * args.K + kk ELSE Zero
      BY <2>2, <3>3 DEF AElement
    <3>8. BElement(b, <<t[1], k>>, kk) = IF kk < args.K THEN kk * args.N + col(b, t) ELSE Zero
      BY <2>2, <3>3 DEF BElement
    <3>9. Term(b, t, kk + 1) = <<row(b, t) * args.K + kk, kk * args.N + col(b, t)>>
      <4>1. row(b, t) * args.K \in Int /\ (kk + 1) - 1 = kk
        BY <2>1, <2>2
      <4>2. row(b, t) * args.K + (kk + 1) - 1 = row(b, t) * args.K + kk
        BY <4>1
      <4> QED BY <4>1, <4>2 DEF Term
    <3>10. Summand(b, t, k) = IF kk < args.K THEN Term(b, t, kk + 1) ELSE <<Zero, Zero>>
      BY <3>5, <3>6, <3>7, <3>8, <3>9 DEF Summand
    <3> QED BY <3>4, <3>10
  <2>5. ASSUME NEW k \in 1..args.K PROVE Term(b, t, k) # <<Zero, Zero>>
    <3>1. row(b, t) * args.K \in Nat /\ k \in Nat /\ k >= 1
      BY <2>1, <2>2
    <3>2. row(b, t) * args.K + k - 1 >= 0
      BY <3>1
    <3>3. row(b, t) * args.K + k - 1 # Zero
      BY <3>1, <3>2 DEF Zero
    <3> QED BY <3>3 DEF Term
  <2> QED BY <2>1, <2>3, <2>4, <2>5, TileMultiplied
<1>10. phase'[b][t] = 2 * q + 2 /\ (2 * q + 2 - 1) \div 2 = q /\ (2 * q + 2) \div 2 = q + 1 /\ 2 * q + 2 # 2 * Tiles + 1
  BY <1>1, <1>3 DEF Ran
<1>11. ASSUME NEW d \in Blocks, NEW u \in Threads
       PROVE  /\ phase'[d][u] \in 1..(2 * Tiles) =>
                   /\ shared'[d][<<"As", u>>] = AElement(d, u, ((phase'[d][u] - 1) \div 2) * kTile + u[1])
                   /\ shared'[d][<<"Bs", u>>] = BElement(d, u, ((phase'[d][u] - 1) \div 2) * kTile + u[2])
              /\ Inside(d, u) => acc'[d][u] = FirstTerms(d, u, Clip((phase'[d][u] \div 2) * kTile))
              /\ phase'[d][u] = 2 * Tiles + 1 /\ Inside(d, u) => out'[GemmAt(d, u)] = Dot(row(d, u), col(d, u))
  <2>1. CASE d = b /\ u = t
    <3>1. acc'[b][t] = Multiplied(b, t)
      BY <1>3 DEF Ran
    <3>2. shared'[b] = shared[b] /\ HoldsTile(b, t, q)
      BY <1>7, <1>8
    <3> QED BY <1>9, <1>10, <2>1, <3>1, <3>2 DEF HoldsTile
  <2>2. CASE ~(d = b /\ u = t)
    <3>1. phase'[d][u] = phase[d][u] /\ acc'[d][u] = acc[d][u] /\ shared'[d] = shared[d]
      BY <1>3, <1>7, <2>2 DEF Ran
    <3> QED BY <1>6, <3>1 DEF GemmTiledInv, HoldsTile
  <2> QED BY <2>1, <2>2
<1>12. args' = args
  BY <1>3 DEF Ran
<1> QED BY <1>5, <1>11, <1>12, GemmTiledNext

(* A thread that stores the finished product. *)
LEMMA GemmTiledStore ==
  ASSUME Valid, Memory, GemmTiledInv, args.kernel = "gemm_tiled",
         NEW b \in Blocks, NEW t \in Threads, Run(b, t), phase[b][t] = 2 * Tiles
  PROVE  Memory' /\ GemmTiledInv'
<1>1. Tiles \in Nat /\ (2 * Tiles) \div 2 = Tiles /\ 2 * Tiles \in Nat /\ (2 * Tiles + 1) \div 2 = Tiles
  BY GemmTiledLaunch
<1>2. PICK r, s, at :
        /\ Does(b, t, r, <<>>, s, at, acc[b][t])
        /\ Inside(b, t) => DOMAIN s = {GemmAt(b, t)} /\ s[GemmAt(b, t)] = acc[b][t]
        /\ ~Inside(b, t) => DOMAIN s = {}
  <2>1. CASE Inside(b, t)
    <3> DEFINE c == Cell(GemmAt(b, t), acc[b][t])
    <3>1. Does(b, t, {}, <<>>, c, FALSE, acc[b][t])
      BY <1>1, <2>1, GemmTiledDoes
    <3>2. DOMAIN c = {GemmAt(b, t)} /\ c[GemmAt(b, t)] = acc[b][t]
      BY OneCell
    <3> HIDE DEF c
    <3> QED BY <2>1, <3>1, <3>2
  <2>2. CASE ~Inside(b, t)
    <3>1. Does(b, t, {}, <<>>, <<>>, FALSE, acc[b][t])
      BY <1>1, <2>2, GemmTiledDoes
    <3> QED BY <2>2, <3>1, NothingWritten
  <2> QED BY <2>1, <2>2
<1>3. Ran(b, t, <<>>, s, acc[b][t])
  BY <1>2, RunEffect
<1>4. ASSUME NEW d \in Blocks, NEW u \in Threads, Inside(d, u) PROVE GemmAt(d, u) \in OutCells(args)
  BY <1>4, GemmTiledLaunch, GemmCell DEF GemmAt
<1>5. DOMAIN s \subseteq OutCells(args) /\ Segments \in Nat
  BY <1>1, <1>2, <1>4, GemmTiledLaunch
<1>6. Memory'
  BY <1>2, <1>5, NothingWritten, MemoryStep
<1>7. \A i \in OutCells(args) : out'[i] = IF i \in DOMAIN s THEN s[i] ELSE out[i]
  BY <1>3, <1>5, WrittenArray DEF Memory, Ran
<1>8. \A d \in Blocks : \A u \in Threads : acc'[d][u] = acc[d][u]
  BY <1>3 DEF Ran
<1>9. \A d \in Blocks : shared'[d] = shared[d]
  <2>1. IsArray(shared[b], SharedCells(args)) /\ shared'[b] = Written(<<>>, shared[b])
    BY <1>3 DEF Memory, Ran
  <2>2. IsArray(shared'[b], SharedCells(args)) /\ \A c \in SharedCells(args) : shared'[b][c] = shared[b][c]
    BY <2>1, NothingWritten, WrittenArray
  <2>3. shared'[b] = shared[b]
    BY <2>1, <2>2 DEF IsArray
  <2> QED BY <1>3, <2>3 DEF Ran
<1>10. phase'[b][t] = 2 * Tiles + 1 /\ 2 * Tiles + 1 \notin 1..(2 * Tiles)
  BY <1>1, <1>3 DEF Ran
<1>11. Inside(b, t) => acc[b][t] = FirstTerms(b, t, Clip(Tiles * kTile))
  BY <1>1 DEF GemmTiledInv
<1>12. FirstTerms(b, t, Clip(Tiles * kTile)) = Dot(row(b, t), col(b, t))
  <2>1. Clip(Tiles * kTile) = args.K
    <3>1. PICK K \in Nat, x \in Nat : K = args.K /\ x = Tiles * kTile /\ x >= K
      BY GemmTiledLaunch
    <3> QED BY <3>1 DEF Clip
  <2> QED BY <2>1 DEF FirstTerms, Term, Dot
<1>13. ASSUME NEW d \in Blocks, NEW u \in Threads
       PROVE  /\ phase'[d][u] \in 1..(2 * Tiles) =>
                   /\ shared'[d][<<"As", u>>] = AElement(d, u, ((phase'[d][u] - 1) \div 2) * kTile + u[1])
                   /\ shared'[d][<<"Bs", u>>] = BElement(d, u, ((phase'[d][u] - 1) \div 2) * kTile + u[2])
              /\ Inside(d, u) => acc'[d][u] = FirstTerms(d, u, Clip((phase'[d][u] \div 2) * kTile))
              /\ phase'[d][u] = 2 * Tiles + 1 /\ Inside(d, u) => out'[GemmAt(d, u)] = Dot(row(d, u), col(d, u))
  <2>1. CASE d = b /\ u = t
    <3>1. Inside(b, t) => out'[GemmAt(b, t)] = acc[b][t]
      BY <1>2, <1>4, <1>7
    <3> QED BY <1>1, <1>8, <1>10, <1>11, <1>12, <2>1, <3>1
  <2>2. CASE ~(d = b /\ u = t)
    <3>1. phase'[d][u] = phase[d][u] /\ acc'[d][u] = acc[d][u] /\ shared'[d] = shared[d]
      BY <1>3, <1>8, <1>9, <2>2 DEF Ran
    <3>2. ASSUME Inside(d, u) PROVE out'[GemmAt(d, u)] = out[GemmAt(d, u)]
      <4>1. GemmAt(d, u) \notin DOMAIN s
        BY <1>2, <2>2, <3>2, GemmTiledLaunch, GemmStores
      <4> QED BY <1>4, <1>7, <3>2, <4>1
    <3> QED BY <3>1, <3>2 DEF GemmTiledInv, HoldsTile
  <2> QED BY <2>1, <2>2
<1>14. args' = args
  BY <1>3 DEF Ran
<1> QED BY <1>6, <1>13, <1>14, GemmTiledNext

(* A step of gemm_tiled keeps its invariant. *)
LEMMA GemmTiledStep ==
  ASSUME Valid, Memory, GemmTiledInv, args.kernel = "gemm_tiled",
         NEW b \in Blocks, NEW t \in Threads, Run(b, t)
  PROVE  Memory' /\ GemmTiledInv'
<1>1. phase[b][t] \in Nat /\ phase[b][t] < 2 * Tiles + 1 /\ Tiles \in Nat
  BY GemmTiledLaunch DEF Memory, Run, CanRun
<1>2. PICK q \in Nat : phase[b][t] = 2 * q \/ phase[b][t] = 2 * q + 1
  <2>1. phase[b][t] \div 2 \in Nat /\ (phase[b][t] = 2 * (phase[b][t] \div 2) \/ phase[b][t] = 2 * (phase[b][t] \div 2) + 1)
    BY <1>1
  <2> QED BY <2>1
<1>3. \/ phase[b][t] = 2 * Tiles
      \/ phase[b][t] = 2 * q /\ q < Tiles
      \/ phase[b][t] = 2 * q + 1 /\ q < Tiles
  BY <1>1, <1>2
<1> QED BY <1>3, GemmTiledLoad, GemmTiledMultiply, GemmTiledStore

(* In the end the output is the reference. *)
LEMMA GemmTiledDone ==
  ASSUME Valid, Memory, GemmTiledInv, args.kernel = "gemm_tiled",
         \A b \in Blocks : \A t \in Threads : phase[b][t] = Segments
  PROVE  out = Reference
<1>1. Segments = 2 * Tiles + 1 /\ args.kernel \in Gemm
  BY GemmTiledLaunch
<1>2. \A b \in Blocks : \A t \in Threads : Inside(b, t) => out[GemmAt(b, t)] = Dot(row(b, t), col(b, t))
  BY <1>1 DEF GemmTiledInv
<1> QED BY <1>1, <1>2, GemmReference

-----------------------------------------------------------------------------
(* Sums of the input, as the sizes of sets: an element i of the input is   *)
(* in[i] units.                                                            *)

(* Induction over the subsets of a finite set. *)
LEMMA SubsetInduction ==
  ASSUME NEW D, IsFiniteSet(D), NEW P,
         \A s \in SUBSET D : (\A r \in SUBSET s : r # s => r \in P) => s \in P
  PROVE  D \in P
<1> SUFFICES ASSUME D \notin P PROVE FALSE
  OBVIOUS
<1> DEFINE T == {s \in SUBSET D : s \notin P}
<1>1. T \subseteq FiniteSubsetsOf(D) /\ T # {}
  BY FS_FiniteSubsetsOfFinite
<1>2. PICK x \in T : \A y \in T : ~(<<y, x>> \in StrictSubsetOrdering(D))
  <2> HIDE DEF T
  <2> QED BY <1>1, WFMin, FS_StrictSubsetOrderingWellFounded
<1>3. ASSUME NEW r \in SUBSET x, r # x PROVE r \in P
  <2>1. <<r, x>> \in StrictSubsetOrdering(D)
    BY <1>3 DEF StrictSubsetOrdering
  <2> QED BY <1>2, <2>1
<1> QED BY <1>3

Units(S) == UNION {{i} \X (1..args.in[i]) : i \in S}

(* The input is there, and the block is a power of two. *)
LEMMA ReduceLaunch ==
  ASSUME Valid, args.kernel = "reduce_sum"
  PROVE  /\ args.n \in Nat \ {0} /\ args.in \in [0..(args.n - 1) -> Nat]
         /\ args.block \in Nat \ {0} /\ is_pow2(args.block)
         /\ Threads = (0..(args.block - 1)) \X (0..0)
         /\ OutCells(args) = {0} /\ SharedCells(args) = 0..(args.block - 1)
<1>1. args.n \in Nat \ {0} /\ args.block \in Nat \ {0} /\ Threads = (0..(args.block - 1)) \X (0..0)
  BY VectorLaunch DEF Vector
<1>2. args.n > 0 /\ ~Invalid(args)
  BY <1>1 DEF Valid
<1>3. "in" \notin args.null /\ is_pow2(args.block)
  BY <1>2 DEF Invalid, Gemm
<1>4. IsLaunch(args)
  BY KernelsAssumption DEF KernelsAssumption, Valid
<1>5. args.in \in [0..(args.n - 1) -> Nat]
  BY <1>3, <1>4 DEF IsLaunch, Zeroing
<1>6. OutCells(args) = {0} /\ SharedCells(args) = 0..(args.block - 1)
  BY DEF OutCells, SharedCells, Gemm
<1> QED BY <1>1, <1>3, <1>5, <1>6

(* One element has as many units as its value says. *)
LEMMA UnitsOfOne ==
  ASSUME Valid, args.kernel = "reduce_sum", NEW i \in 0..(args.n - 1)
  PROVE  /\ IsFiniteSet({i} \X (1..args.in[i])) /\ Cardinality({i} \X (1..args.in[i])) = args.in[i]
         /\ Units({i}) = {i} \X (1..args.in[i])
<1>1. PICK v \in Nat : v = args.in[i]
  BY ReduceLaunch
<1>2. IsFiniteSet(1..v) /\ Cardinality(1..v) = v
  BY FS_Interval
<1>3. IsFiniteSet({i}) /\ Cardinality({i}) = 1
  BY FS_Singleton
<1>4. IsFiniteSet({i} \X (1..v)) /\ Cardinality({i} \X (1..v)) = 1 * v
  BY <1>2, <1>3, FS_Product
<1>5. Units({i}) = {i} \X (1..args.in[i])
  BY DEF Units
<1>6. 1 * v = v
  OBVIOUS
<1>7. IsFiniteSet({i} \X (1..args.in[i])) /\ Cardinality({i} \X (1..args.in[i])) = args.in[i]
  BY <1>1, <1>4, <1>6, Zenon
<1> QED BY <1>5, <1>7

(* Indices have finitely many units. *)
LEMMA UnitsFinite ==
  ASSUME Valid, args.kernel = "reduce_sum", NEW S \in SUBSET (0..(args.n - 1))
  PROVE  IsFiniteSet(Units(S)) /\ Cardinality(Units(S)) \in Nat
<1>1. IsFiniteSet(S)
  BY ReduceLaunch, CountIndices
<1> DEFINE X == {{i} \X (1..args.in[i]) : i \in S}
           f == [i \in S |-> {i} \X (1..args.in[i])]
<1>2. f \in Surjection(S, X)
  BY DEF Surjection
<1>3. IsFiniteSet(X)
  BY <1>1, <1>2, FS_Surjection
<1>4. \A x \in X : IsFiniteSet(x)
  BY UnitsOfOne
<1> HIDE DEF X, f
<1>5. IsFiniteSet(UNION X)
  BY <1>3, <1>4, FS_UNION
<1>6. Units(S) = UNION X
  BY DEF Units, X
<1> QED BY <1>5, <1>6, FS_CardinalityType

(* Disjoint sets of indices have different units. *)
LEMMA UnitsSplit ==
  ASSUME Valid, args.kernel = "reduce_sum",
         NEW S \in SUBSET (0..(args.n - 1)), NEW T \in SUBSET (0..(args.n - 1)), S \cap T = {}
  PROVE  Cardinality(Units(S \cup T)) = Cardinality(Units(S)) + Cardinality(Units(T))
<1>1. /\ IsFiniteSet(Units(S)) /\ Cardinality(Units(S)) \in Nat
      /\ IsFiniteSet(Units(T)) /\ Cardinality(Units(T)) \in Nat
  BY UnitsFinite
<1>2. Units(S \cup T) = Units(S) \cup Units(T)
  BY DEF Units
<1>3. Units(S) \cap Units(T) = {}
  BY DEF Units
<1>4. Cardinality(Units(S) \cup Units(T)) = Cardinality(Units(S)) + Cardinality(Units(T)) - Cardinality(Units(S) \cap Units(T))
  BY <1>1, FS_Union
<1>5. Cardinality(Units(S) \cap Units(T)) = 0
  BY <1>3, FS_EmptySet
<1>6. PICK p \in Nat, q \in Nat : p = Cardinality(Units(S)) /\ q = Cardinality(Units(T))
  BY <1>1
<1>7. p + q - 0 = p + q
  OBVIOUS
<1> QED BY <1>2, <1>4, <1>5, <1>6, <1>7, Zenon

(* The sum of the input over a set of indices is the number of units. *)
LEMMA InputSumIs ==
  ASSUME Valid, args.kernel = "reduce_sum", NEW D \in SUBSET (0..(args.n - 1))
  PROVE  InputSum(D) = Cardinality(Units(D))
<1> DEFINE x(s)  == CHOOSE y \in s : TRUE
           I(it) == [s \in SUBSET D |-> IF s = {} THEN 0 ELSE args.in[x(s)] + it[s \ {x(s)}]]
           it0   == CHOOSE it : it = I(it)
           h     == [s \in SUBSET D |-> Cardinality(Units(s))]
<1>1. InputSum(D) = it0[D]
  BY Zenon DEF InputSum, MapThenSumSet, MapThenFoldSet
<1>2. \A s \in SUBSET D : s # {} => x(s) \in s
  OBVIOUS
<1>3. ASSUME NEW s \in SUBSET D, s # {}
      PROVE  Cardinality(Units(s)) = args.in[x(s)] + Cardinality(Units(s \ {x(s)}))
  <2>1. x(s) \in s
    BY <1>2, <1>3
  <2>2. PICK y \in s : y = x(s)
    BY <2>1
  <2>3. y \in 0..(args.n - 1) /\ {y} \in SUBSET (0..(args.n - 1)) /\ s \ {y} \in SUBSET (0..(args.n - 1))
    OBVIOUS
  <2>4. args.in[y] = Cardinality(Units({y}))
    BY <2>3, UnitsOfOne
  <2>5. Cardinality(Units({y} \cup (s \ {y}))) = Cardinality(Units({y})) + Cardinality(Units(s \ {y}))
    BY <2>3, UnitsSplit
  <2>6. {y} \cup (s \ {y}) = s
    OBVIOUS
  <2> HIDE DEF x
  <2> QED BY <2>2, <2>4, <2>5, <2>6
<1>4. Cardinality(Units({})) = 0
  <2>1. Units({}) = {}
    BY DEF Units
  <2> QED BY <2>1, FS_EmptySet
<1>5. h = I(h)
  <2> HIDE DEF x
  <2>1. \A s \in SUBSET D : h[s] = I(h)[s]
    <3>1. \A s \in SUBSET D : s \ {x(s)} \in SUBSET D
      OBVIOUS
    <3> QED BY <1>3, <1>4, <3>1
  <2> QED BY <2>1
<1>6. it0 = I(it0)
  <2> HIDE DEF I, h
  <2> QED BY <1>5
<1> HIDE DEF it0
<1>7. \A s \in SUBSET D : it0[s] = IF s = {} THEN 0 ELSE args.in[x(s)] + it0[s \ {x(s)}]
  <2> HIDE DEF x
  <2> QED BY <1>6
<1> DEFINE P == {s \in SUBSET D : it0[s] = Cardinality(Units(s))}
<1>8. ASSUME NEW s \in SUBSET D, \A r \in SUBSET s : r # s => r \in P PROVE s \in P
  <2>1. CASE s = {}
    BY <1>4, <1>7, <2>1
  <2>2. CASE s # {}
    <3>1. x(s) \in s
      BY <1>2, <2>2
    <3> HIDE DEF x
    <3>2. s \ {x(s)} \in P
      BY <1>8, <3>1
    <3>3. it0[s] = args.in[x(s)] + Cardinality(Units(s \ {x(s)}))
      BY <1>7, <2>2, <3>2
    <3> QED BY <1>3, <2>2, <3>3
  <2> QED BY <2>1, <2>2
<1>9. IsFiniteSet(D)
  BY ReduceLaunch, CountIndices
<1>10. D \in P
  <2> HIDE DEF P
  <2> QED BY <1>8, <1>9, SubsetInduction
<1> QED BY <1>1, <1>10

(* Sums of disjoint parts add up. *)
LEMMA InputSumSplit ==
  ASSUME Valid, args.kernel = "reduce_sum",
         NEW S \in SUBSET (0..(args.n - 1)), NEW T \in SUBSET (0..(args.n - 1)), S \cap T = {}
  PROVE  InputSum(S \cup T) = InputSum(S) + InputSum(T)
<1>1. S \cup T \in SUBSET (0..(args.n - 1))
  OBVIOUS
<1> QED BY <1>1, InputSumIs, UnitsSplit

(* The sum of nothing. *)
LEMMA InputSumEmpty == InputSum({}) = 0
<1> DEFINE x(s)  == CHOOSE y \in s : TRUE
           I(it) == [s \in SUBSET {} |-> IF s = {} THEN 0 ELSE args.in[x(s)] + it[s \ {x(s)}]]
           it0   == CHOOSE it : it = I(it)
           h     == [s \in SUBSET {} |-> 0]
<1>1. InputSum({}) = it0[{}]
  BY Zenon DEF InputSum, MapThenSumSet, MapThenFoldSet
<1>2. h = I(h)
  <2>1. \A s \in SUBSET {} : s = {}
    OBVIOUS
  <2> HIDE DEF x
  <2> QED BY <2>1
<1>3. it0 = I(it0)
  <2> HIDE DEF I, h
  <2> QED BY <1>2
<1> HIDE DEF it0
<1>4. {} \in SUBSET {}
  OBVIOUS
<1>5. it0[{}] = 0
  <2> HIDE DEF x
  <2> QED BY <1>3, <1>4
<1> QED BY <1>1, <1>5

(* A sum depends on the launch alone. *)
LEMMA InputSumUnchanged ==
  ASSUME args' = args, NEW S
  PROVE  InputSum(S)' = InputSum(S)
BY Zenon DEF InputSum, MapThenSumSet, MapThenFoldSet

-----------------------------------------------------------------------------
(* The strides of the tree: from the block down to one, by halves.         *)

(* The power of a sum. *)
LEMMA PowerSum ==
  ASSUME NEW j \in Nat, NEW k \in Nat
  PROVE  2^(j + k) = 2^j * 2^k
<1> DEFINE P == {m \in Nat : 2^(j + m) = 2^j * 2^m}
<1>1. 2^j \in Nat \ {0}
  BY PowerStep
<1>2. 0 \in P
  <2>1. 2^0 = 1 /\ j + 0 = j
    OBVIOUS
  <2>2. 2^j * 1 = 2^j
    BY <1>1
  <2> QED BY <2>1, <2>2
<1>3. ASSUME NEW m \in Nat, m \in P PROVE m + 1 \in P
  <2>1. 2^m \in Nat \ {0} /\ 2^(m + 1) = 2 * 2^m
    BY PowerStep
  <2>2. j + m \in Nat /\ j + (m + 1) = (j + m) + 1
    OBVIOUS
  <2>3. 2^((j + m) + 1) = 2 * 2^(j + m)
    BY <2>2, PowerStep
  <2>4. 2^(j + m) = 2^j * 2^m
    BY <1>3
  <2>5. PICK x \in Nat, y \in Nat : x = 2^j /\ y = 2^m
    BY <1>1, <2>1
  <2>6. 2 * (x * y) = x * (2 * y)
    OBVIOUS
  <2>7. 2^(j + (m + 1)) = 2^j * 2^(m + 1)
    BY <2>1, <2>2, <2>3, <2>4, <2>5, <2>6
  <2> QED BY <2>7
<1>4. Nat \subseteq P
  <2> HIDE DEF P
  <2> QED BY <1>2, <1>3, NatSetInduction
<1>5. k \in P
  BY <1>4
<1> QED BY <1>5

(* The number of halvings. *)
Halvings == CHOOSE l \in 0..args.block : 2^l = args.block

(* The block is 2^Halvings, with a segment for each halving and two more. *)
LEMMA ReduceSegments ==
  ASSUME Valid, args.kernel = "reduce_sum"
  PROVE  Halvings \in Nat /\ 2^Halvings = args.block /\ Segments = 2 + Halvings
<1>1. \E l \in 0..args.block : 2^l = args.block
  BY ReduceLaunch DEF is_pow2
<1>2. Halvings \in 0..args.block /\ 2^Halvings = args.block
  BY <1>1 DEF Halvings
<1>3. Halvings \in Nat
  BY <1>2, ReduceLaunch
<1>4. Segments = 2 + Halvings
  BY DEF Segments, Halvings
<1> QED BY <1>2, <1>3, <1>4

(* The strides are powers of two, the last ones 1 and 0. *)
LEMMA Strides ==
  ASSUME Valid, args.kernel = "reduce_sum"
  PROVE  /\ \A j \in 0..Halvings : Stride(j) = 2^(Halvings - j) /\ Stride(j) \in Nat \ {0}
         /\ Stride(Halvings) = 1 /\ Stride(Halvings + 1) = 0
         /\ \A j \in 1..Halvings : Stride(j - 1) = 2 * Stride(j)
<1>1. PICK L \in Nat : L = Halvings
  BY ReduceSegments
<1>2. args.block = 2^L
  BY <1>1, ReduceSegments
<1>3. ASSUME NEW j \in 0..L PROVE Stride(j) = 2^(L - j) /\ Stride(j) \in Nat \ {0}
  <2>1. j \in Nat /\ L - j \in Nat /\ (L - j) + j = L
    OBVIOUS
  <2>2. PICK x \in Nat \ {0}, y \in Nat \ {0} : x = 2^j /\ y = 2^(L - j)
    BY <2>1, PowerStep
  <2>3. args.block = y * x + 0 /\ y \in Int /\ 0 \in 0..(x - 1)
    <3>1. 2^L = y * x
      BY <2>1, <2>2, PowerSum
    <3>2. y * x + 0 = y * x
      OBVIOUS
    <3> QED BY <1>2, <3>1, <3>2
  <2>4. (y * x + 0) \div x = y
    BY <2>3, DivisionUnique
  <2>5. Stride(j) = y
    BY <2>2, <2>3, <2>4 DEF Stride
  <2> QED BY <2>2, <2>5
<1>4. Stride(L) = 1
  <2>1. L \in 0..L /\ L - L = 0 /\ 2^0 = 1
    OBVIOUS
  <2> QED BY <1>3, <2>1
<1>5. Stride(L + 1) = 0
  <2>1. PICK x \in Nat \ {0} : x = 2^L
    BY PowerStep
  <2>2. 2^(L + 1) = 2 * x
    BY <2>1, PowerStep
  <2>3. 2 * x \in Nat \ {0} /\ x \in 0..(2 * x - 1) /\ 0 * (2 * x) + x = x
    OBVIOUS
  <2>4. (0 * (2 * x) + x) \div (2 * x) = 0
    BY <2>3, DivisionUnique
  <2>5. x \div (2 * x) = 0
    BY <2>3, <2>4
  <2> QED BY <1>2, <2>1, <2>2, <2>5 DEF Stride
<1>6. ASSUME NEW j \in 1..L PROVE Stride(j - 1) = 2 * Stride(j)
  <2>1. j \in 0..L /\ j - 1 \in 0..L /\ L - j \in Nat /\ L - (j - 1) = (L - j) + 1
    OBVIOUS
  <2>2. 2^((L - j) + 1) = 2 * 2^(L - j)
    BY <2>1, PowerStep
  <2> QED BY <1>3, <2>1, <2>2
<1> QED BY <1>1, <1>3, <1>4, <1>5, <1>6

(* The strides go down. *)
LEMMA StridesFall ==
  ASSUME Valid, args.kernel = "reduce_sum", NEW q \in Nat, NEW j \in Nat, q <= j, j <= Halvings
  PROVE  Stride(q) >= Stride(j)
<1>1. PICK L \in Nat : L = Halvings
  BY ReduceSegments
<1>2. q \in 0..L /\ j \in 0..L /\ L - q = (L - j) + (j - q) /\ L - j \in Nat /\ j - q \in Nat
  BY <1>1
<1>3. PICK x \in Nat \ {0}, y \in Nat \ {0} : x = 2^(L - j) /\ y = 2^(j - q)
  BY <1>2, PowerStep
<1>4. 2^(L - q) = x * y
  BY <1>2, <1>3, PowerSum
<1>5. x * y >= x
  OBVIOUS
<1>6. Stride(q) = x * y /\ Stride(j) = x
  BY <1>1, <1>2, <1>3, <1>4, Strides
<1> QED BY <1>5, <1>6

(* A remainder by s is one of two remainders by 2s. *)
LEMMA Halves ==
  ASSUME NEW s \in Nat \ {0}, NEW i \in 0..(s - 1), NEW x \in Nat
  PROVE  x % s = i <=> x % (2 * s) = i \/ x % (2 * s) = i + s
<1>1. 2 * s \in Nat \ {0} /\ x \in Int /\ x >= 0
  OBVIOUS
<1>2. PICK q \in Int, r \in 0..(2 * s - 1) : r = x % (2 * s) /\ x = q * (2 * s) + r
  BY <1>1, Division
<1>3. CASE r < s
  <2>1. r \in 0..(s - 1) /\ 2 * q \in Int
    BY <1>3
  <2>2. ((2 * q) * s + r) % s = r
    BY <2>1, DivisionUnique
  <2>3. (2 * q) * s + r = x
    BY <1>2
  <2> QED BY <1>2, <1>3, <2>1, <2>2, <2>3
<1>4. CASE r >= s
  <2>1. r - s \in 0..(s - 1) /\ 2 * q + 1 \in Int
    BY <1>4
  <2>2. ((2 * q + 1) * s + (r - s)) % s = r - s
    BY <2>1, DivisionUnique
  <2>3. (2 * q + 1) * s + (r - s) = x
    <3>1. (2 * q + 1) * s = q * (2 * s) + s
      OBVIOUS
    <3>2. q * (2 * s) \in Int
      OBVIOUS
    <3> QED BY <1>2, <3>1, <3>2
  <2>4. x % s = r - s
    BY <2>2, <2>3
  <2> QED BY <1>2, <1>4, <2>1, <2>4
<1> QED BY <1>3, <1>4

(* The indices that cell i of block b stands for when the stride is s. *)
Share(b, i, s) == {k \in 0..(args.n - 1) : OwnerBlock(k) = b /\ OwnerThread(k)[1] % s = i}

(* The share of a cell is its own and that of the cell one stride away. *)
LEMMA ShareHalves ==
  ASSUME Valid, args.kernel = "reduce_sum", NEW b, NEW s \in Nat \ {0}, NEW i \in 0..(s - 1)
  PROVE  InputSum(Share(b, i, s)) = InputSum(Share(b, i, 2 * s)) + InputSum(Share(b, i + s, 2 * s))
<1>1. ASSUME NEW k \in 0..(args.n - 1) PROVE OwnerThread(k)[1] \in Nat
  <2>1. k \in Int
    BY ReduceLaunch
  <2>2. OwnerThread(k) \in (0..(args.block - 1)) \X (0..0)
    BY <2>1, OwnerExists, ReduceLaunch DEF Vector
  <2>3. args.block \in Nat
    BY ReduceLaunch
  <2> QED BY <2>2, <2>3
<1>2. Share(b, i, s) = Share(b, i, 2 * s) \cup Share(b, i + s, 2 * s)
  BY <1>1, Halves DEF Share
<1>3. Share(b, i, 2 * s) \cap Share(b, i + s, 2 * s) = {}
  <2>1. i # i + s
    OBVIOUS
  <2> QED BY <2>1 DEF Share
<1>4. Share(b, i, 2 * s) \in SUBSET (0..(args.n - 1)) /\ Share(b, i + s, 2 * s) \in SUBSET (0..(args.n - 1))
  BY DEF Share
<1> QED BY <1>2, <1>3, <1>4, InputSumSplit

-----------------------------------------------------------------------------
(* reduce_sum: every cell holds the sum of its share.                      *)

Total(S) == Cardinality(Units(S))

(* Cell i, of a thread in phase p, was last written in segment q - 1. *)
Due(p, i, q) ==
  q \in 1..(Halvings + 1) /\ q <= p /\ i < Stride(q - 1) /\ (q = p \/ i >= Stride(q))

(* The indices whose block has added its sum to the output. *)
Sent == {k \in 0..(args.n - 1) : phase[OwnerBlock(k)][<<0, 0>>] >= Halvings + 2}

ReduceInv ==
  /\ \A b \in Blocks : \A t \in Threads : \A q \in Nat :
       Due(phase[b][t], t[1], q) => shared[b][t[1]] = Total(Share(b, t[1], Stride(q - 1)))
  /\ out[0] = Total(Sent)

(* A thread is its first coordinate. *)
LEMMA ReducePlace ==
  ASSUME Valid, args.kernel = "reduce_sum", NEW t \in Threads
  PROVE  t[1] \in 0..(args.block - 1) /\ t[1] \in Nat /\ t = <<t[1], 0>>
<1>1. t \in (0..(args.block - 1)) \X (0..0) /\ args.block \in Nat
  BY ReduceLaunch
<1> QED BY <1>1

(* Every element has a block and a thread. *)
LEMMA ReduceOwners ==
  ASSUME Valid, args.kernel = "reduce_sum", NEW k \in 0..(args.n - 1)
  PROVE  OwnerBlock(k) \in Blocks /\ OwnerThread(k) \in Threads
<1>1. k \in Int
  BY ReduceLaunch
<1> QED BY <1>1, OwnerExists DEF Vector

(* What depends on the launch alone does not change. *)
LEMMA ReduceUnchanged ==
  ASSUME args' = args
  PROVE  /\ Blocks' = Blocks /\ Threads' = Threads /\ Halvings' = Halvings
         /\ \A j : Stride(j)' = Stride(j)
         /\ \A b, i, s : Share(b, i, s)' = Share(b, i, s)
         /\ \A S : Total(S)' = Total(S)
         /\ \A k : OwnerBlock(k)' = OwnerBlock(k)
BY DEF Blocks, Threads, Halvings, Stride, Share, Total, Units, OwnerBlock, OwnerThread, Width

(* It is enough to show the invariant with the launch as it was. *)
LEMMA ReduceNext ==
  ASSUME args' = args,
         \A b \in Blocks : \A t \in Threads : \A q \in Nat :
           Due(phase'[b][t], t[1], q) => shared'[b][t[1]] = Total(Share(b, t[1], Stride(q - 1))),
         out'[0] = Total({k \in 0..(args.n - 1) : phase'[OwnerBlock(k)][<<0, 0>>] >= Halvings + 2})
  PROVE  ReduceInv'
<1>1. Blocks' = Blocks /\ Threads' = Threads /\ Halvings' = Halvings
  BY ReduceUnchanged
<1>2. ASSUME NEW b \in Blocks, NEW t \in Threads, NEW q \in Nat
      PROVE  (Due(phase[b][t], t[1], q) => shared[b][t[1]] = Total(Share(b, t[1], Stride(q - 1))))'
  <2>1. Due(phase'[b][t], t[1], q) => shared'[b][t[1]] = Total(Share(b, t[1], Stride(q - 1)))
    OBVIOUS
  <2>2. Due(phase[b][t], t[1], q)' <=> Due(phase'[b][t], t[1], q)
    BY <1>1, ReduceUnchanged DEF Due
  <2>3. Total(Share(b, t[1], Stride(q - 1)))' = Total(Share(b, t[1], Stride(q - 1)))
    BY DEF Stride, Share, Total, Units, OwnerBlock, OwnerThread, Width
  <2> QED BY <2>1, <2>2, <2>3
<1>3. (out[0] = Total(Sent))'
  <2>1. Sent' = {k \in 0..(args.n - 1) : phase'[OwnerBlock(k)][<<0, 0>>] >= Halvings + 2}
    BY <1>1, ReduceUnchanged DEF Sent
  <2>2. Total(Sent)' = Total({k \in 0..(args.n - 1) : phase'[OwnerBlock(k)][<<0, 0>>] >= Halvings + 2})
    BY <2>1 DEF Total, Units
  <2> QED BY <2>2
<1> QED BY <1>1, <1>2, <1>3 DEF ReduceInv

(* What is due after a segment that left the cell alone, was due before. *)
LEMMA DueKept ==
  ASSUME Valid, args.kernel = "reduce_sum", NEW p \in Nat, NEW i \in Nat, NEW q \in Nat,
         ~(i < Stride(p)), Due(p + 1, i, q)
  PROVE  Due(p, i, q)
<1>1. q \in 1..(Halvings + 1) /\ q <= p + 1 /\ i < Stride(q - 1) /\ (q = p + 1 \/ i >= Stride(q))
  BY DEF Due
<1>2. q # p + 1
  <2> SUFFICES ASSUME q = p + 1 PROVE FALSE
    OBVIOUS
  <2>1. q - 1 = p
    OBVIOUS
  <2> QED BY <1>1, <2>1
<1>3. q <= p /\ i >= Stride(q)
  BY <1>1, <1>2
<1> QED BY <1>1, <1>3 DEF Due

(* After a segment that wrote the cell, what it wrote is due. *)
LEMMA DueWritten ==
  ASSUME Valid, args.kernel = "reduce_sum", NEW p \in Nat, p <= Halvings, NEW i \in Nat, NEW q \in Nat,
         i < Stride(p), Due(p + 1, i, q)
  PROVE  q = p + 1
<1>1. q \in Nat /\ q <= p + 1 /\ (q = p + 1 \/ i >= Stride(q))
  BY DEF Due
<1> SUFFICES ASSUME q # p + 1 PROVE FALSE
  OBVIOUS
<1>2. q <= p /\ i >= Stride(q)
  BY <1>1
<1>3. Stride(q) >= Stride(p)
  BY <1>2, StridesFall
<1>4. Stride(q) \in Nat /\ Stride(p) \in Nat
  BY StrideNat
<1> QED BY <1>2, <1>3, <1>4

(* The loop of a thread runs over its share of the whole block. *)
LEMMA ShareOfLoop ==
  ASSUME Valid, args.kernel = "reduce_sum", NEW b \in Blocks, NEW t \in Threads
  PROVE  InputSum(GridStride(b, t)) = Total(Share(b, t[1], Stride(0)))
<1>1. ASSUME NEW k \in 0..(args.n - 1) PROVE OwnerThread(k)[1] % args.block = t[1] <=> OwnerThread(k) = t
  <2>1. OwnerThread(k) \in Threads
    BY ReduceOwners
  <2>2. OwnerThread(k)[1] \in 0..(args.block - 1) /\ OwnerThread(k) = <<OwnerThread(k)[1], 0>>
    BY <2>1, ReducePlace
  <2>3. PICK n \in Nat \ {0} : n = args.block
    BY ReduceLaunch
  <2>4. PICK x \in 0..(n - 1) : x = OwnerThread(k)[1]
    BY <2>2, <2>3
  <2>5. (0 * n + x) % n = x /\ 0 * n + x = x
    BY DivisionUnique
  <2>6. OwnerThread(k)[1] % args.block = OwnerThread(k)[1]
    BY <2>3, <2>4, <2>5
  <2>7. t = <<t[1], 0>>
    BY ReducePlace
  <2> QED BY <2>2, <2>6, <2>7
<1>2. \A k : k \in GridStride(b, t) <=> k \in 0..(args.n - 1) /\ OwnerBlock(k) = b /\ OwnerThread(k) = t
  BY StrideOwner DEF Vector
<1>3. Stride(0) = args.block
  BY FirstStride
<1>4. GridStride(b, t) = Share(b, t[1], Stride(0))
  BY <1>1, <1>2, <1>3 DEF Share
<1>5. Share(b, t[1], Stride(0)) \in SUBSET (0..(args.n - 1))
  BY DEF Share
<1> QED BY <1>4, <1>5, InputSumIs DEF Total

(* A step that writes the cell of its thread alone, or nothing, and stores *)
(* nothing: who is behind is as it was, and so is the output.              *)
LEMMA ReduceOthers ==
  ASSUME Valid, Memory, ReduceInv, args.kernel = "reduce_sum",
         NEW b \in Blocks, NEW t \in Threads, Run(b, t),
         NEW w, NEW a, Ran(b, t, w, <<>>, a), DOMAIN w \subseteq {t[1]}, phase[b][t] <= Halvings,
         \A q \in Nat : Due(phase[b][t] + 1, t[1], q) => shared'[b][t[1]] = Total(Share(b, t[1], Stride(q - 1)))
  PROVE  ReduceInv'
<1>1. args' = args /\ \A d \in Blocks : \A u \in Threads :
        phase'[d][u] = IF d = b /\ u = t THEN phase[b][t] + 1 ELSE phase[d][u]
  BY DEF Ran
<1>2. ASSUME NEW d \in Blocks, NEW u \in Threads, ~(d = b /\ u = t)
      PROVE  phase'[d][u] = phase[d][u] /\ shared'[d][u[1]] = shared[d][u[1]]
  <2>1. phase'[d][u] = phase[d][u]
    BY <1>1, <1>2
  <2>2. CASE d # b
    BY <2>1, <2>2 DEF Ran
  <2>3. CASE d = b
    <3>1. t = <<t[1], 0>> /\ u = <<u[1], 0>> /\ u[1] \in 0..(args.block - 1) /\ t[1] \in 0..(args.block - 1)
      BY ReducePlace
    <3>2. u[1] # t[1]
      BY <1>2, <2>3, <3>1
    <3>3. SharedCells(args) = 0..(args.block - 1)
      BY ReduceLaunch
    <3>4. IsArray(shared[b], SharedCells(args)) /\ shared'[b] = Written(w, shared[b])
      BY DEF Memory, Ran
    <3>5. DOMAIN w \subseteq SharedCells(args)
      BY <3>1, <3>3
    <3>6. \A c \in SharedCells(args) : shared'[b][c] = IF c \in DOMAIN w THEN w[c] ELSE shared[b][c]
      BY <3>4, <3>5, WrittenArray
    <3> QED BY <2>1, <2>3, <3>1, <3>2, <3>3, <3>6
  <2> QED BY <2>2, <2>3
<1>3. ASSUME NEW d \in Blocks, NEW u \in Threads, NEW q \in Nat, Due(phase'[d][u], u[1], q)
      PROVE  shared'[d][u[1]] = Total(Share(d, u[1], Stride(q - 1)))
  <2>1. CASE d = b /\ u = t
    BY <1>1, <1>3, <2>1
  <2>2. CASE ~(d = b /\ u = t)
    BY <1>2, <1>3, <2>2 DEF ReduceInv
  <2> QED BY <2>1, <2>2
<1>4. out'[0] = out[0]
  <2>1. IsArray(out, OutCells(args)) /\ out' = Written(<<>>, out) /\ 0 \in OutCells(args)
    BY ReduceLaunch DEF Memory, Ran
  <2> QED BY <2>1, NothingWritten, WrittenArray
<1>5. \A d \in Blocks : \A u \in Threads : phase'[d][u] >= Halvings + 2 <=> phase[d][u] >= Halvings + 2
  <2>1. Halvings \in Nat /\ phase[b][t] \in Nat
    BY ReduceSegments DEF Memory
  <2> QED BY <1>1, <2>1
<1>6. <<0, 0>> \in Threads
  <2>1. args.block \in Nat \ {0} /\ Threads = (0..(args.block - 1)) \X (0..0)
    BY ReduceLaunch
  <2> QED BY <2>1
<1>7. {k \in 0..(args.n - 1) : phase'[OwnerBlock(k)][<<0, 0>>] >= Halvings + 2} = Sent
  BY <1>5, <1>6, ReduceOwners DEF Sent
<1>8. out[0] = Total(Sent)
  BY DEF ReduceInv
<1> QED BY <1>1, <1>3, <1>4, <1>7, <1>8, ReduceNext

(* The first segment: the sum of the thread's own elements. *)
LEMMA ReduceLoad ==
  ASSUME Valid, Memory, ReduceInv, args.kernel = "reduce_sum",
         NEW b \in Blocks, NEW t \in Threads, Run(b, t), phase[b][t] = 0
  PROVE  Memory' /\ ReduceInv'
<1>1. PICK v : v = InputSum(GridStride(b, t))
  OBVIOUS
<1>2. Does(b, t, {}, Cell(t[1], v), <<>>, FALSE, acc[b][t])
  <2>1. Stride(0) # 0 /\ 0 \in Nat
    BY FirstStride
  <2>2. Does(b, t, {}, Cell(t[1], InputSum(GridStride(b, t))), <<>>, FALSE, acc[b][t])
    BY <2>1, ReduceDoes
  <2> QED BY <1>1, <2>2
<1>3. Ran(b, t, Cell(t[1], v), <<>>, acc[b][t])
  BY <1>2, RunEffect
<1>4. DOMAIN Cell(t[1], v) = {t[1]} /\ Cell(t[1], v)[t[1]] = v
  BY OneCell
<1>5. {t[1]} \subseteq SharedCells(args) /\ Segments \in Nat /\ Halvings \in Nat
  BY ReducePlace, ReduceLaunch, ReduceSegments
<1>6. Memory'
  BY <1>2, <1>4, <1>5, NothingWritten, MemoryStep
<1>7. shared'[b][t[1]] = v
  <2>1. IsArray(shared[b], SharedCells(args)) /\ shared'[b] = Written(Cell(t[1], v), shared[b])
    BY <1>3 DEF Memory, Ran
  <2> QED BY <1>4, <1>5, <2>1, WrittenArray
<1>8. v = Total(Share(b, t[1], Stride(0)))
  BY <1>1, ShareOfLoop
<1>9. ASSUME NEW q \in Nat, Due(phase[b][t] + 1, t[1], q)
      PROVE  shared'[b][t[1]] = Total(Share(b, t[1], Stride(q - 1)))
  <2>1. q >= 1 /\ q <= 1
    BY <1>5, <1>9 DEF Due
  <2>2. q - 1 = 0
    BY <2>1
  <2> QED BY <1>7, <1>8, <2>2
<1>10. phase[b][t] <= Halvings
  BY <1>5
<1> QED BY <1>3, <1>4, <1>6, <1>9, <1>10, ReduceOthers

(* A segment of the tree in which the thread adds another cell to its own. *)
LEMMA ReduceAdd ==
  ASSUME Valid, Memory, ReduceInv, args.kernel = "reduce_sum",
         NEW b \in Blocks, NEW t \in Threads, Run(b, t),
         NEW j \in 1..Halvings, phase[b][t] = j, t[1] < Stride(j)
  PROVE  Memory' /\ ReduceInv'
<1>1. Halvings \in Nat /\ Segments \in Nat /\ Segments = 2 + Halvings
  BY ReduceSegments
<1>2. j \in Nat /\ j > 0 /\ j \in 0..Halvings /\ j - 1 \in 0..Halvings
  BY <1>1
<1>3. PICK s \in Nat \ {0} : s = Stride(j) /\ Stride(j - 1) = 2 * s
  BY <1>2, Strides
<1>4. PICK i \in 0..(s - 1) : i = t[1]
  BY <1>3, ReducePlace
<1>5. PICK v : v = shared[b][i] + shared[b][i + s]
  OBVIOUS
<1>6. PICK r : Does(b, t, r, Cell(t[1], v), <<>>, FALSE, acc[b][t])
  BY <1>2, <1>3, <1>4, <1>5, ReduceDoes, FirstStride
<1>7. Ran(b, t, Cell(t[1], v), <<>>, acc[b][t])
  BY <1>6, RunEffect
<1>8. DOMAIN Cell(t[1], v) = {t[1]} /\ Cell(t[1], v)[t[1]] = v
  BY OneCell
<1>9. {t[1]} \subseteq SharedCells(args)
  BY ReducePlace, ReduceLaunch
<1>10. Memory'
  BY <1>1, <1>6, <1>8, <1>9, NothingWritten, MemoryStep
<1>11. shared'[b][t[1]] = v
  <2>1. IsArray(shared[b], SharedCells(args)) /\ shared'[b] = Written(Cell(t[1], v), shared[b])
    BY <1>7 DEF Memory, Ran
  <2> QED BY <1>8, <1>9, <2>1, WrittenArray
<1>12. shared[b][i] = Total(Share(b, i, 2 * s))
  <2>1. Due(phase[b][t], t[1], j)
    BY <1>1, <1>2, <1>3, <1>4 DEF Due
  <2> QED BY <1>2, <1>3, <1>4, <2>1 DEF ReduceInv
<1>13. PICK u \in Threads : u[1] = i + s
  <2>1. i + s < Stride(j - 1) /\ i + s \in Nat
    BY <1>3
  <2>2. Stride(0) >= Stride(j - 1) /\ Stride(0) = args.block /\ args.block \in Nat
    <3>1. 0 \in Nat /\ j - 1 \in Nat /\ 0 <= j - 1 /\ j - 1 <= Halvings
      BY <1>1
    <3> QED BY <3>1, StridesFall, FirstStride, ReduceLaunch
  <2>3. i + s \in 0..(args.block - 1)
    BY <1>3, <2>1, <2>2
  <2>4. <<i + s, 0>> \in Threads
    BY <2>3, ReduceLaunch
  <2> QED BY <2>4
<1>14. shared[b][i + s] = Total(Share(b, i + s, 2 * s))
  <2>1. phase[b][u] \in Nat /\ phase[b][u] >= j /\ phase[b][u] <= j + 1
    BY DEF Run, CanRun, syncthreads, Memory, Lockstep
  <2>2. i + s < Stride(j - 1) /\ i + s >= Stride(j)
    BY <1>3
  <2>3. Due(phase[b][u], u[1], j)
    BY <1>1, <1>2, <1>13, <2>1, <2>2 DEF Due
  <2> QED BY <1>2, <1>3, <1>13, <2>3 DEF ReduceInv
<1>15. v = Total(Share(b, t[1], Stride(j)))
  <2>1. InputSum(Share(b, i, s)) = InputSum(Share(b, i, 2 * s)) + InputSum(Share(b, i + s, 2 * s))
    BY ShareHalves
  <2>2. \A x, y : Share(b, x, y) \in SUBSET (0..(args.n - 1))
    BY DEF Share
  <2>3. \A x, y : InputSum(Share(b, x, y)) = Total(Share(b, x, y))
    BY <2>2, InputSumIs DEF Total
  <2> QED BY <1>3, <1>4, <1>5, <1>12, <1>14, <2>1, <2>3
<1>16. ASSUME NEW q \in Nat, Due(phase[b][t] + 1, t[1], q)
       PROVE  shared'[b][t[1]] = Total(Share(b, t[1], Stride(q - 1)))
  <2>1. t[1] \in Nat /\ j <= Halvings
    BY <1>1, ReducePlace
  <2>2. q = j + 1
    BY <1>2, <1>16, <2>1, DueWritten
  <2>3. q - 1 = j
    BY <1>2, <2>2
  <2> QED BY <1>11, <1>15, <2>3
<1>17. phase[b][t] <= Halvings
  BY <1>1
<1> QED BY <1>7, <1>8, <1>10, <1>16, <1>17, ReduceOthers

(* A segment in which the thread has nothing to do. *)
LEMMA ReduceIdle ==
  ASSUME Valid, Memory, ReduceInv, args.kernel = "reduce_sum",
         NEW b \in Blocks, NEW t \in Threads, Run(b, t),
         NEW j \in 1..Halvings, phase[b][t] = j, ~(t[1] < Stride(j))
  PROVE  Memory' /\ ReduceInv'
<1>1. Halvings \in Nat /\ Segments \in Nat /\ Segments = 2 + Halvings
  BY ReduceSegments
<1>2. j \in Nat /\ j > 0 /\ Stride(j) \in Nat \ {0}
  <2>1. j \in 0..Halvings
    BY <1>1
  <2> QED BY <1>1, <2>1, Strides
<1>3. Does(b, t, {}, <<>>, <<>>, FALSE, acc[b][t])
  BY <1>2, ReduceDoes, FirstStride
<1>4. Ran(b, t, <<>>, <<>>, acc[b][t])
  BY <1>3, RunEffect
<1>5. Memory'
  BY <1>1, <1>3, NothingWritten, MemoryStep
<1>6. t[1] \in SharedCells(args) /\ t[1] \in Nat
  BY ReducePlace, ReduceLaunch
<1>7. shared'[b][t[1]] = shared[b][t[1]]
  <2>1. IsArray(shared[b], SharedCells(args)) /\ shared'[b] = Written(<<>>, shared[b])
    BY <1>4 DEF Memory, Ran
  <2> QED BY <1>6, <2>1, NothingWritten, WrittenArray
<1>8. ASSUME NEW q \in Nat, Due(phase[b][t] + 1, t[1], q)
      PROVE  shared'[b][t[1]] = Total(Share(b, t[1], Stride(q - 1)))
  <2>1. Due(phase[b][t], t[1], q)
    BY <1>2, <1>6, <1>8, DueKept
  <2> QED BY <1>7, <2>1 DEF ReduceInv
<1>9. phase[b][t] <= Halvings
  BY <1>1
<1> QED BY <1>4, <1>5, <1>8, <1>9, NothingWritten, ReduceOthers

(* The last segment: the first thread adds the sum of the block. *)
LEMMA ReduceSend ==
  ASSUME Valid, Memory, ReduceInv, args.kernel = "reduce_sum",
         NEW b \in Blocks, NEW t \in Threads, Run(b, t), phase[b][t] = Halvings + 1
  PROVE  Memory' /\ ReduceInv'
<1>1. Halvings \in Nat /\ Segments \in Nat /\ Halvings + 1 \in Nat /\ Halvings + 1 > 0
  BY ReduceSegments
<1>2. Stride(Halvings + 1) = 0 /\ Stride(Halvings) = 1 /\ Stride(0) # 0
  BY Strides, FirstStride
<1>3. t[1] \in Nat /\ t = <<t[1], 0>> /\ ~(t[1] < 0) /\ <<0, 0>> \in Threads
  <2>1. args.block \in Nat \ {0} /\ Threads = (0..(args.block - 1)) \X (0..0)
    BY ReduceLaunch
  <2> QED BY <2>1, ReducePlace
<1>4. PICK v : v = out[0] + shared[b][0]
  OBVIOUS
<1>5. PICK r, s, at :
        /\ Does(b, t, r, <<>>, s, at, acc[b][t])
        /\ t[1] = 0 => DOMAIN s = {0} /\ s[0] = v
        /\ t[1] # 0 => DOMAIN s = {}
  <2>1. CASE t[1] = 0
    <3>1. Does(b, t, {0}, <<>>, Cell(0, v), TRUE, acc[b][t])
      BY <1>1, <1>2, <1>3, <1>4, <2>1, ReduceDoes
    <3>2. DOMAIN Cell(0, v) = {0} /\ Cell(0, v)[0] = v
      BY OneCell
    <3> QED BY <2>1, <3>1, <3>2
  <2>2. CASE t[1] # 0
    <3>1. Does(b, t, {}, <<>>, <<>>, FALSE, acc[b][t])
      BY <1>1, <1>2, <1>3, <2>2, ReduceDoes
    <3> QED BY <2>2, <3>1, NothingWritten
  <2> QED BY <2>1, <2>2
<1>6. Ran(b, t, <<>>, s, acc[b][t])
  BY <1>5, RunEffect
<1>7. DOMAIN s \subseteq OutCells(args) /\ OutCells(args) = {0}
  BY <1>5, ReduceLaunch
<1>8. Memory'
  BY <1>1, <1>5, <1>7, NothingWritten, MemoryStep
<1>9. args' = args /\ \A d \in Blocks : \A u \in Threads :
        phase'[d][u] = IF d = b /\ u = t THEN phase[b][t] + 1 ELSE phase[d][u]
  BY <1>6 DEF Ran
<1>10. \A d \in Blocks : shared'[d] = shared[d]
  <2>1. IsArray(shared[b], SharedCells(args)) /\ shared'[b] = Written(<<>>, shared[b])
    BY <1>6 DEF Memory, Ran
  <2>2. IsArray(shared'[b], SharedCells(args)) /\ \A c \in SharedCells(args) : shared'[b][c] = shared[b][c]
    BY <2>1, NothingWritten, WrittenArray
  <2>3. shared'[b] = shared[b]
    BY <2>1, <2>2 DEF IsArray
  <2> QED BY <1>6, <2>3 DEF Ran
<1>11. ASSUME NEW d \in Blocks, NEW u \in Threads, NEW q \in Nat, Due(phase'[d][u], u[1], q)
       PROVE  shared'[d][u[1]] = Total(Share(d, u[1], Stride(q - 1)))
  <2>1. Due(phase[d][u], u[1], q)
    <3>1. CASE d = b /\ u = t
      <4>1. Due((Halvings + 1) + 1, t[1], q) /\ ~(t[1] < Stride(Halvings + 1))
        BY <1>2, <1>3, <1>9, <1>11, <3>1
      <4> QED BY <1>1, <1>3, <3>1, <4>1, DueKept
    <3>2. CASE ~(d = b /\ u = t)
      BY <1>9, <1>11, <3>2
    <3> QED BY <3>1, <3>2
  <2> QED BY <1>10, <2>1 DEF ReduceInv
<1> DEFINE After == {k \in 0..(args.n - 1) : phase'[OwnerBlock(k)][<<0, 0>>] >= Halvings + 2}
<1>12. out[0] = Total(Sent)
  BY DEF ReduceInv
<1>13. out'[0] = IF 0 \in DOMAIN s THEN s[0] ELSE out[0]
  <2>1. IsArray(out, OutCells(args)) /\ out' = Written(s, out)
    BY <1>6 DEF Memory, Ran
  <2> QED BY <1>7, <2>1, WrittenArray
<1>14. out'[0] = Total(After)
  <2>1. CASE t[1] # 0
    <3>1. \A d \in Blocks : phase'[d][<<0, 0>>] = phase[d][<<0, 0>>]
      <4>1. t # <<0, 0>>
        BY <1>3, <2>1
      <4> QED BY <1>3, <1>9, <4>1
    <3>2. After = Sent
      BY <3>1, ReduceOwners DEF Sent
    <3>3. out'[0] = out[0]
      BY <1>5, <1>13, <2>1
    <3> QED BY <1>12, <3>2, <3>3
  <2>2. CASE t[1] = 0
    <3>1. t = <<0, 0>>
      BY <1>3, <2>2
    <3> DEFINE Part == {k \in 0..(args.n - 1) : OwnerBlock(k) = b}
    <3>2. Share(b, 0, 1) = Part
      <4>1. ASSUME NEW k \in 0..(args.n - 1) PROVE OwnerThread(k)[1] % 1 = 0
        <5>1. OwnerThread(k)[1] \in Nat
          BY ReduceOwners, ReducePlace
        <5> QED BY <5>1
      <4> QED BY <4>1 DEF Share
    <3>3. shared[b][0] = Total(Part)
      <4>1. Halvings + 1 \in 1..(Halvings + 1) /\ (Halvings + 1) - 1 = Halvings
        BY <1>1
      <4>2. Due(phase[b][t], t[1], Halvings + 1)
        BY <1>1, <1>2, <2>2, <4>1 DEF Due
      <4>3. shared[b][t[1]] = Total(Share(b, t[1], Stride((Halvings + 1) - 1)))
        BY <1>1, <4>2 DEF ReduceInv
      <4> HIDE DEF Part
      <4> QED BY <1>2, <2>2, <3>2, <4>1, <4>3
    <3>4. /\ ~(phase[b][<<0, 0>>] >= Halvings + 2) /\ phase'[b][<<0, 0>>] >= Halvings + 2
          /\ \A d \in Blocks : d # b => phase'[d][<<0, 0>>] = phase[d][<<0, 0>>]
      BY <1>1, <1>3, <1>9, <3>1
    <3>5. After = Sent \cup Part
      BY <3>4, ReduceOwners DEF Sent
    <3>6. Sent \cap Part = {}
      BY <3>4 DEF Sent
    <3>7. Sent \in SUBSET (0..(args.n - 1)) /\ Part \in SUBSET (0..(args.n - 1))
      BY DEF Sent
    <3> HIDE DEF Part
    <3>8. Total(Sent \cup Part) = Total(Sent) + Total(Part)
      BY <3>6, <3>7, UnitsSplit DEF Total
    <3>9. out'[0] = v
      BY <1>5, <1>13, <2>2
    <3> HIDE DEF After
    <3> QED BY <1>4, <1>12, <3>3, <3>5, <3>8, <3>9
  <2> QED BY <2>1, <2>2
<1> QED BY <1>8, <1>9, <1>11, <1>14, ReduceNext

(* A step of reduce_sum keeps its invariant. *)
LEMMA ReduceStep ==
  ASSUME Valid, Memory, ReduceInv, args.kernel = "reduce_sum",
         NEW b \in Blocks, NEW t \in Threads, Run(b, t)
  PROVE  Memory' /\ ReduceInv'
<1>1. phase[b][t] \in Nat /\ phase[b][t] < 2 + Halvings /\ Halvings \in Nat
  BY ReduceSegments DEF Memory, Run, CanRun
<1>2. phase[b][t] = 0 \/ phase[b][t] \in 1..Halvings \/ phase[b][t] = Halvings + 1
  BY <1>1
<1>3. ASSUME phase[b][t] \in 1..Halvings PROVE Memory' /\ ReduceInv'
  <2>1. PICK j \in 1..Halvings : phase[b][t] = j
    BY <1>3
  <2> QED BY <2>1, ReduceAdd, ReduceIdle
<1> QED BY <1>2, <1>3, ReduceLoad, ReduceSend

(* In the end every block has added its sum. *)
LEMMA ReduceDone ==
  ASSUME Valid, Memory, ReduceInv, args.kernel = "reduce_sum",
         \A b \in Blocks : \A t \in Threads : phase[b][t] = Segments
  PROVE  out = Reference
<1>1. <<0, 0>> \in Threads
  <2>1. args.block \in Nat \ {0} /\ Threads = (0..(args.block - 1)) \X (0..0)
    BY ReduceLaunch
  <2> QED BY <2>1
<1>2. Segments = Halvings + 2 /\ Halvings \in Nat
  BY ReduceSegments
<1>3. Sent = 0..(args.n - 1)
  BY <1>1, <1>2, ReduceOwners DEF Sent
<1>4. out[0] = InputSum(0..(args.n - 1))
  <2>1. 0..(args.n - 1) \in SUBSET (0..(args.n - 1))
    OBVIOUS
  <2>2. InputSum(0..(args.n - 1)) = Total(0..(args.n - 1))
    BY <2>1, InputSumIs DEF Total
  <2> QED BY <1>3, <2>2 DEF ReduceInv
<1>5. out = [c \in {0} |-> out[c]]
  BY ReduceLaunch DEF Memory, IsArray
<1>6. Reference = cpu_reduce_sum
  BY DEF Reference, Gemm
<1>7. [c \in {0} |-> out[c]] = [c \in {0} |-> InputSum(0..(args.n - 1))]
  BY <1>4
<1> QED BY <1>5, <1>6, <1>7 DEF cpu_reduce_sum

-----------------------------------------------------------------------------
(* All kernels together.                                                   *)

Computes ==
  /\ args.kernel = "vector_add"   => VectorAddInv
  /\ args.kernel = "reduce_sum"   => ReduceInv
  /\ args.kernel = "histogram256" => HistogramInv
  /\ args.kernel = "gemm_naive"   => GemmNaiveInv
  /\ args.kernel = "gemm_tiled"   => GemmTiledInv
  /\ args.kernel = "transpose"    => TransposeInv

(* The inductive invariant. *)
GridInv ==
  /\ args \in Launches
  /\ status = "none" => IsArray(out, OutCells(args))
  /\ status = "running" => Valid /\ Memory /\ Computes
  /\ MatchesReference

(* What the threads find when the grid is launched. *)
Fresh ==
  /\ Valid
  /\ phase = [b \in Blocks |-> [t \in Threads |-> 0]]
  /\ acc = [b \in Blocks |-> [t \in Threads |-> <<>>]]
  /\ \E g \in Garbage : shared = [b \in Blocks |-> [c \in SharedCells(args) |-> g]]
  /\ IsArray(out, OutCells(args))
  /\ args.kernel \in Zeroing => \A c \in OutCells(args) : out[c] = 0

(* A kernel has at least one segment. *)
LEMMA SegmentsNat ==
  ASSUME Valid
  PROVE  Segments \in Nat
<1>1. CASE args.kernel = "reduce_sum"
  BY <1>1, ReduceSegments
<1>2. CASE args.kernel = "gemm_tiled"
  BY <1>2, GemmTiledLaunch
<1>3. CASE args.kernel \notin {"reduce_sum", "gemm_tiled"}
  BY <1>3, SomeKernel DEF Segments
<1> QED BY <1>1, <1>2, <1>3

(* A fresh grid has the arrays it should. *)
LEMMA FreshMemory == Fresh => Memory
<1> SUFFICES ASSUME Fresh PROVE Memory
  OBVIOUS
<1>1. phase = [b \in Blocks |-> [t \in Threads |-> 0]] /\ Segments \in Nat
  BY SegmentsNat DEF Fresh
<1>2. \A b \in Blocks : \A t \in Threads : phase[b][t] = 0
  BY <1>1
<1>3. phase \in [Blocks -> [Threads -> Nat]]
  BY <1>1
<1>4. Lockstep /\ \A b \in Blocks : \A t \in Threads : phase[b][t] <= Segments
  BY <1>1, <1>2 DEF Lockstep
<1>5. IsArray(acc, Blocks) /\ \A b \in Blocks : IsArray(acc[b], Threads)
  BY DEF Fresh, IsArray
<1>6. IsArray(shared, Blocks) /\ \A b \in Blocks : IsArray(shared[b], SharedCells(args))
  <2>1. PICK g \in Garbage : shared = [b \in Blocks |-> [c \in SharedCells(args) |-> g]]
    BY DEF Fresh
  <2> QED BY <2>1 DEF IsArray
<1>7. IsArray(out, OutCells(args))
  BY DEF Fresh
<1> QED BY <1>3, <1>4, <1>5, <1>6, <1>7 DEF Memory

(* A fresh grid has computed nothing, and nothing is what it has. *)
LEMMA FreshComputes == Fresh => Computes
<1> SUFFICES ASSUME Fresh PROVE Computes
  OBVIOUS
<1>1. Valid /\ \A b \in Blocks : \A t \in Threads : phase[b][t] = 0 /\ acc[b][t] = <<>>
  BY DEF Fresh
<1>2. ~(0 >= 1) /\ ~(0 >= 2) /\ ~(0 >= 3)
  OBVIOUS
<1>3. ASSUME args.kernel = "vector_add" PROVE VectorAddInv
  BY <1>1, <1>2 DEF VectorAddInv
<1>4. ASSUME args.kernel = "gemm_naive" PROVE GemmNaiveInv
  BY <1>1, <1>2 DEF GemmNaiveInv
<1>5. ASSUME args.kernel = "transpose" PROVE TransposeInv
  BY <1>1, <1>2 DEF TransposeInv
<1>6. ASSUME args.kernel = "histogram256" PROVE HistogramInv
  <2>1. ASSUME NEW c \in Bins PROVE out[c] = Cardinality(CarriedOut(c))
    <3>1. BinOwner(c) \in Threads /\ OutCells(args) = Bins
      BY <1>1, <1>6, HistogramLaunch
    <3>2. \A i \in 0..(args.n - 1) : ~(phase[OwnerBlock(i)][BinOwner(c)] >= 3)
      BY <1>1, <1>2, <1>6, <3>1, HistogramOwners
    <3>3. CarriedOut(c) = {}
      BY <3>2 DEF CarriedOut
    <3>4. out[c] = 0
      BY <1>6, <3>1 DEF Fresh, Zeroing
    <3> QED BY <3>3, <3>4, FS_EmptySet
  <2>2. ASSUME NEW c \in Bins, NEW b \in Blocks PROVE ~(phase[b][BinOwner(c)] >= 1)
    <3>1. BinOwner(c) \in Threads
      BY <1>1, <1>6, HistogramLaunch
    <3> QED BY <1>1, <1>2, <3>1
  <2> QED BY <2>1, <2>2 DEF HistogramInv
<1>7. ASSUME args.kernel = "gemm_tiled" PROVE GemmTiledInv
  <2>1. kTile \in Nat /\ args.K \in Nat /\ Tiles \in Nat
    BY <1>1, <1>7, GemmTiledLaunch
  <2>2. 0 \notin 1..(2 * Tiles) /\ 0 # 2 * Tiles + 1 /\ Clip((0 \div 2) * kTile) = 0
    <3>1. (0 \div 2) * kTile = 0
      BY <2>1
    <3> QED BY <2>1, <3>1 DEF Clip
  <2>3. \A b, t : FirstTerms(b, t, 0) = <<>>
    BY DEF FirstTerms
  <2> QED BY <1>1, <2>2, <2>3 DEF GemmTiledInv
<1>8. ASSUME args.kernel = "reduce_sum" PROVE ReduceInv
  <2>1. ASSUME NEW b \in Blocks, NEW t \in Threads, NEW q \in Nat PROVE ~Due(phase[b][t], t[1], q)
    <3>1. Halvings \in Nat /\ phase[b][t] = 0
      BY <1>1, <1>8, ReduceSegments
    <3> QED BY <3>1 DEF Due
  <2>2. <<0, 0>> \in Threads /\ Halvings \in Nat
    <3>1. args.block \in Nat \ {0} /\ Threads = (0..(args.block - 1)) \X (0..0)
      BY <1>1, <1>8, ReduceLaunch
    <3> QED BY <1>1, <1>8, <3>1, ReduceSegments
  <2>3. \A k \in 0..(args.n - 1) : ~(phase[OwnerBlock(k)][<<0, 0>>] >= Halvings + 2)
    BY <1>1, <1>8, <2>2, ReduceOwners
  <2>4. Sent = {}
    BY <2>3 DEF Sent
  <2>5. Total({}) = 0
    <3>1. Units({}) = {}
      BY DEF Units
    <3> QED BY <3>1, FS_EmptySet DEF Total
  <2>6. out[0] = 0
    BY <1>1, <1>8, ReduceLaunch DEF Fresh, Zeroing
  <2> QED BY <2>1, <2>4, <2>5, <2>6 DEF ReduceInv
<1> QED BY <1>3, <1>4, <1>5, <1>6, <1>7, <1>8 DEF Computes

(* The same of the next state. *)
LEMMA FreshNext == Fresh' => Memory' /\ Computes'
BY FreshMemory, FreshComputes, PTL

(* A launch with nothing to do: the output as the launcher leaves it. *)
LEMMA EmptyReference ==
  ASSUME NEW a \in Launches, a = args, ~Invalid(args), Empty(args), NEW o, IsArray(o, OutCells(args)),
         args.kernel \in Zeroing => \A c \in OutCells(args) : o[c] = 0
  PROVE  o = Reference
<1>1. IsLaunch(args)
  BY KernelsAssumption DEF KernelsAssumption
<1>2. args.kernel \in {"vector_add", "reduce_sum", "histogram256", "gemm_naive", "gemm_tiled", "transpose"}
  BY <1>1 DEF IsLaunch, Gemm, Zeroing
<1>3. o = [c \in OutCells(args) |-> o[c]]
  BY DEF IsArray
<1>4. CASE args.kernel = "vector_add"
  <2>1. args.n = 0
    BY <1>4 DEF Empty, Gemm
  <2>2. OutCells(args) = 0..(args.n - 1) /\ Reference = cpu_vector_add
    BY <1>4 DEF OutCells, Reference, Gemm
  <2>3. 0..(0 - 1) = {}
    OBVIOUS
  <2> QED BY <1>3, <2>1, <2>2, <2>3 DEF cpu_vector_add
<1>5. CASE args.kernel = "reduce_sum"
  <2>1. args.n = 0
    BY <1>5 DEF Empty, Gemm
  <2>2. OutCells(args) = {0} /\ Reference = cpu_reduce_sum
    BY <1>5 DEF OutCells, Reference, Gemm
  <2>3. 0..(args.n - 1) = {}
    BY <2>1
  <2>4. InputSum(0..(args.n - 1)) = 0
    BY <2>3, InputSumEmpty
  <2>5. o[0] = 0
    BY <1>5, <2>2 DEF Zeroing
  <2>6. o = [c \in {0} |-> 0]
    BY <1>3, <2>2, <2>5
  <2> QED BY <2>2, <2>4, <2>6 DEF cpu_reduce_sum
<1>6. CASE args.kernel = "histogram256"
  <2>1. args.n = 0
    BY <1>6 DEF Empty, Gemm
  <2>2. OutCells(args) = 0..(kBins - 1) /\ Reference = cpu_histogram256
    BY <1>6 DEF OutCells, Reference, Gemm
  <2>3. 0..(args.n - 1) = {}
    BY <2>1
  <2>4. ASSUME NEW c \in 0..(kBins - 1) PROVE o[c] = Cardinality({i \in 0..(args.n - 1) : args.in[i] = c})
    <3>1. {i \in 0..(args.n - 1) : args.in[i] = c} = {}
      BY <2>3
    <3>2. o[c] = 0
      BY <1>6, <2>2 DEF Zeroing
    <3> QED BY <3>1, <3>2, FS_EmptySet
  <2>5. o = [c \in 0..(kBins - 1) |-> o[c]]
    BY <1>3, <2>2
  <2> QED BY <2>2, <2>4, <2>5 DEF cpu_histogram256
<1>7. CASE args.kernel \in Gemm
  <2>1. args.M = 0 \/ args.N = 0
    BY <1>7 DEF Empty, Gemm
  <2>2. args.M \in Int /\ args.N \in Int
    BY <1>1, <1>7 DEF IsLaunch
  <2>3. args.M * args.N = 0
    BY <2>1, <2>2
  <2>4. OutCells(args) = 0..(args.M * args.N - 1) /\ Reference = cpu_gemm
    BY <1>7 DEF OutCells, Reference, Gemm
  <2>5. 0..(args.M * args.N - 1) = {}
    BY <2>3
  <2> QED BY <1>3, <2>4, <2>5 DEF cpu_gemm
<1>8. CASE args.kernel = "transpose"
  <2>1. args.rows = 0 \/ args.cols = 0
    BY <1>8 DEF Empty, Gemm
  <2>2. args.rows \in Int /\ args.cols \in Int
    BY <1>1, <1>8 DEF IsLaunch
  <2>3. args.rows * args.cols = 0
    BY <2>1, <2>2
  <2>4. OutCells(args) = 0..(args.rows * args.cols - 1) /\ Reference = cpu_transpose
    BY <1>8 DEF OutCells, Reference, Gemm
  <2>5. 0..(args.rows * args.cols - 1) = {}
    BY <2>3
  <2> QED BY <1>3, <2>4, <2>5 DEF cpu_transpose
<1> QED BY <1>2, <1>4, <1>5, <1>6, <1>7, <1>8 DEF Gemm

(* The reference depends on the launch alone. *)
LEMMA ReferenceUnchanged ==
  ASSUME args' = args
  PROVE  Reference' = Reference
<1>1. cpu_reduce_sum' = cpu_reduce_sum
  BY InputSumUnchanged DEF cpu_reduce_sum
<1>2. cpu_vector_add' = cpu_vector_add /\ cpu_histogram256' = cpu_histogram256
  BY DEF cpu_vector_add, cpu_histogram256
<1>3. cpu_gemm' = cpu_gemm /\ cpu_transpose' = cpu_transpose
  BY DEF cpu_gemm, cpu_transpose
<1> QED BY <1>1, <1>2, <1>3, Zenon DEF Reference

(* A launch leaves the output as it was or clears it. *)
LEMMA MemsetArray ==
  ASSUME IsArray(out, OutCells(args))
  PROVE  /\ IsArray(cudaMemset(args), OutCells(args))
         /\ args.kernel \in Zeroing => \A c \in OutCells(args) : cudaMemset(args)[c] = 0
BY DEF cudaMemset, IsArray

(* Every launch establishes the invariant. *)
LEMMA GridLaunch ==
  ASSUME GridInv, launch
  PROVE  GridInv'
<1>1. status = "none" /\ args' = args /\ args \in Launches /\ IsArray(out, OutCells(args))
  BY DEF launch, GridInv
<1>2. /\ Blocks' = Blocks /\ Threads' = Threads /\ Valid' = Valid
      /\ OutCells(args)' = OutCells(args) /\ SharedCells(args)' = SharedCells(args)
  BY <1>1 DEF Blocks, Threads, Valid, OutCells, SharedCells
<1>3. CASE \E e \in {"InvalidValue", "MemsetFailed", "InvalidConfiguration"} : Refuse(e)
  <2>1. status' \notin {"none", "running", "Success"}
    BY <1>3 DEF Refuse
  <2> QED BY <1>1, <2>1 DEF GridInv, MatchesReference
<1>4. CASE ~Invalid(args) /\ Empty(args) /\ status' = "Success" /\ out' = cudaMemset(args)
  <2>1. /\ IsArray(out', OutCells(args))
        /\ args.kernel \in Zeroing => \A c \in OutCells(args) : out'[c] = 0
    BY <1>1, <1>4, MemsetArray
  <2>2. out' = Reference
    BY <1>1, <1>4, <2>1, EmptyReference
  <2>3. Reference' = Reference
    BY <1>1, ReferenceUnchanged
  <2> QED BY <1>1, <1>4, <2>2, <2>3 DEF GridInv, MatchesReference
<1>5. CASE /\ ~Invalid(args) /\ ~Empty(args) /\ Launchable(args)
           /\ status' = "running" /\ out' = cudaMemset(args)
           /\ phase' = [b \in Blocks |-> [t \in Threads |-> 0]]
           /\ acc' = [b \in Blocks |-> [t \in Threads |-> <<>>]]
           /\ \E g \in Garbage : shared' = [b \in Blocks |-> [c \in SharedCells(args) |-> g]]
  <2>1. /\ IsArray(out', OutCells(args))
        /\ args.kernel \in Zeroing => \A c \in OutCells(args) : out'[c] = 0
    BY <1>1, <1>5, MemsetArray
  <2>2. Valid
    BY <1>1, <1>5 DEF Valid
  <2>3. Fresh'
    <3>1. Valid' /\ phase' = [b \in Blocks' |-> [t \in Threads' |-> 0]]
      BY <1>2, <1>5, <2>2
    <3>2. acc' = [b \in Blocks' |-> [t \in Threads' |-> <<>>]]
      BY <1>2, <1>5
    <3>3. \E g \in Garbage : shared' = [b \in Blocks' |-> [c \in SharedCells(args)' |-> g]]
      BY <1>2, <1>5
    <3>4. IsArray(out, OutCells(args))'
      BY <1>1, <1>2, <2>1 DEF OutCells
    <3>5. (args.kernel \in Zeroing => \A c \in OutCells(args) : out[c] = 0)'
      BY <1>1, <1>2, <2>1 DEF OutCells, Zeroing
    <3> QED BY <3>1, <3>2, <3>3, <3>4, <3>5 DEF Fresh, SharedCells
  <2>4. Memory' /\ Computes'
    BY <2>3, FreshNext
  <2>5. Valid' /\ status' = "running"
    BY <1>2, <1>5, <2>2
  <2> QED BY <1>1, <2>4, <2>5 DEF GridInv, MatchesReference
<1> QED BY <1>3, <1>4, <1>5 DEF launch

(* Every segment of every kernel keeps it. *)
LEMMA GridRun ==
  ASSUME GridInv, RunSome
  PROVE  GridInv'
<1>1. PICK b \in Blocks, t \in Threads : Run(b, t)
  BY DEF RunSome
<1>2. status = "running" /\ status' = "running" /\ args' = args
  BY <1>1 DEF Run
<1>3. Valid /\ Memory /\ Computes /\ args \in Launches
  BY <1>2 DEF GridInv
<1>4. Valid'
  BY <1>2, <1>3 DEF Valid
<1>5. args.kernel \in {"vector_add", "reduce_sum", "histogram256", "gemm_naive", "gemm_tiled", "transpose"}
  BY <1>3, SomeKernel
<1>6. CASE args.kernel = "vector_add"
  <2>1. Memory' /\ VectorAddInv'
    BY <1>1, <1>3, <1>6, VectorAddStep DEF Computes
  <2> QED BY <1>2, <1>3, <1>4, <1>6, <2>1 DEF GridInv, Computes, MatchesReference
<1>7. CASE args.kernel = "reduce_sum"
  <2>1. Memory' /\ ReduceInv'
    BY <1>1, <1>3, <1>7, ReduceStep DEF Computes
  <2> QED BY <1>2, <1>3, <1>4, <1>7, <2>1 DEF GridInv, Computes, MatchesReference
<1>8. CASE args.kernel = "histogram256"
  <2>1. Memory' /\ HistogramInv'
    BY <1>1, <1>3, <1>8, HistogramStep DEF Computes
  <2> QED BY <1>2, <1>3, <1>4, <1>8, <2>1 DEF GridInv, Computes, MatchesReference
<1>9. CASE args.kernel = "gemm_naive"
  <2>1. Memory' /\ GemmNaiveInv'
    BY <1>1, <1>3, <1>9, GemmNaiveStep DEF Computes
  <2> QED BY <1>2, <1>3, <1>4, <1>9, <2>1 DEF GridInv, Computes, MatchesReference
<1>10. CASE args.kernel = "gemm_tiled"
  <2>1. Memory' /\ GemmTiledInv'
    BY <1>1, <1>3, <1>10, GemmTiledStep DEF Computes
  <2> QED BY <1>2, <1>3, <1>4, <1>10, <2>1 DEF GridInv, Computes, MatchesReference
<1>11. CASE args.kernel = "transpose"
  <2>1. Memory' /\ TransposeInv'
    BY <1>1, <1>3, <1>11, TransposeStep DEF Computes
  <2> QED BY <1>2, <1>3, <1>4, <1>11, <2>1 DEF GridInv, Computes, MatchesReference
<1> QED BY <1>5, <1>6, <1>7, <1>8, <1>9, <1>10, <1>11

(* When all threads are through, the output is the reference. *)
LEMMA GridFinish ==
  ASSUME GridInv, Finish
  PROVE  GridInv'
<1>1. /\ status = "running" /\ status' = "Success" /\ args' = args /\ out' = out
      /\ \A b \in Blocks : \A t \in Threads : phase[b][t] = Segments
  BY DEF Finish
<1>2. Valid /\ Memory /\ Computes /\ args \in Launches
  BY <1>1 DEF GridInv
<1>3. out = Reference
  <2>1. args.kernel \in {"vector_add", "reduce_sum", "histogram256", "gemm_naive", "gemm_tiled", "transpose"}
    BY <1>2, SomeKernel
  <2> QED BY <1>1, <1>2, <2>1, VectorAddDone, ReduceDone, HistogramDone, GemmNaiveDone, GemmTiledDone,
             TransposeDone DEF Computes
<1>4. Reference' = Reference
  BY <1>1, ReferenceUnchanged
<1> QED BY <1>1, <1>2, <1>3, <1>4 DEF GridInv, MatchesReference

(* A state that does not change keeps it. *)
LEMMA GridStutter ==
  ASSUME GridInv, UNCHANGED vars
  PROVE  GridInv'
<1>1. UNCHANGED <<args, status, phase, shared, acc, out>>
  BY DEF vars
<1>2. /\ Blocks' = Blocks /\ Threads' = Threads /\ Valid' = Valid /\ Segments' = Segments
      /\ OutCells(args)' = OutCells(args) /\ SharedCells(args)' = SharedCells(args)
  BY <1>1 DEF Blocks, Threads, Valid, OutCells, SharedCells, Segments
<1>3. IsArray(out, OutCells(args))' = IsArray(out, OutCells(args))
  BY <1>1 DEF IsArray, OutCells
<1>4. Memory' = Memory
  <2>1. Lockstep' = Lockstep
    BY <1>1, <1>2 DEF Lockstep
  <2>2. /\ IsArray(shared, Blocks)' = IsArray(shared, Blocks)
        /\ IsArray(acc, Blocks)' = IsArray(acc, Blocks)
    BY <1>1, <1>2 DEF IsArray
  <2>3. /\ \A b : IsArray(shared[b], SharedCells(args))' = IsArray(shared[b], SharedCells(args))
        /\ \A b : IsArray(acc[b], Threads)' = IsArray(acc[b], Threads)
    BY <1>1, <1>2 DEF IsArray, SharedCells
  <2> QED BY <1>1, <1>2, <1>3, <2>1, <2>2, <2>3 DEF Memory
<1>5. Computes => Computes'
  <2>1. VectorAddInv => VectorAddInv'
    BY <1>1, <1>2 DEF VectorAddInv, GridStride
  <2>2. ReduceInv => ReduceInv'
    BY <1>1, ReduceNext DEF ReduceInv, Sent
  <2>3. HistogramInv => HistogramInv'
    <3>1. Bins' = Bins /\ (\A c : BinOwner(c)' = BinOwner(c) /\ CarriedOut(c)' = CarriedOut(c))
      BY <1>1, HistogramUnchanged DEF Bins, CarriedOut
    <3>2. \A b, c : CountedBy(b, c)' = CountedBy(b, c)
      BY <1>1, HistogramUnchanged DEF CountedBy
    <3> QED BY <1>1, <1>2, <3>1, <3>2 DEF HistogramInv
  <2>4. GemmNaiveInv => GemmNaiveInv'
    BY <1>1, <1>2 DEF GemmNaiveInv, GemmAt, Inside, row, col, Dot
  <2>5. GemmTiledInv => GemmTiledInv'
    BY <1>1, GemmTiledNext DEF GemmTiledInv, HoldsTile
  <2>6. TransposeInv => TransposeInv'
    BY <1>1, <1>2 DEF TransposeInv, LoadPasses, StorePasses, OutColumn, OutRow, StoreCell, TileElement,
         InColumn, InRow, Passes
  <2> QED BY <1>1, <2>1, <2>2, <2>3, <2>4, <2>5, <2>6 DEF Computes
<1>6. Reference' = Reference
  BY <1>1, ReferenceUnchanged
<1> QED BY <1>1, <1>2, <1>3, <1>4, <1>5, <1>6 DEF GridInv, MatchesReference

(* Whatever the launch, the sizes of tiles, blocks and grids, the order of *)
(* the threads and what the memory held before: a launch that succeeds     *)
(* leaves in the output exactly what the CPU reference computes.           *)
THEOREM EveryKernelMatches == Spec => []MatchesReference
<1>1. Init => GridInv
  <2> SUFFICES ASSUME Init PROVE GridInv
    OBVIOUS
  <2>1. args \in Launches /\ status = "none"
    BY DEF Init
  <2>2. IsArray(out, OutCells(args))
    BY DEF Init, IsArray
  <2> QED BY <2>1, <2>2 DEF GridInv, MatchesReference
<1>2. GridInv /\ [Next]_vars => GridInv'
  BY GridLaunch, GridRun, GridFinish, GridStutter DEF Next
<1>3. GridInv => MatchesReference
  BY DEF GridInv
<1> QED BY <1>1, <1>2, <1>3, PTL DEF Spec
=============================================================================
