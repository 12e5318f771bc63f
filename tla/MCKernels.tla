----------------------------- MODULE MCKernels -----------------------------
(* Launches with tiles of two by two, grids of at most two blocks in one   *)
(* dimension and inputs that no block size divides.                        *)
EXTENDS Kernels

(* Powers of two tell every set of summands apart. *)
Powers(n) == [i \in 0..(n - 1) |-> 2^i]
Bytes(n)  == [i \in 0..(n - 1) |-> (i * i) % kBins]

Vector(k, n, bl, in) == [kernel |-> k, n |-> n, block |-> bl, null |-> {}, in |-> in]
Product(k, m, n, kk) == [kernel |-> k, M |-> m, N |-> n, K |-> kk, null |-> {}]
Transpose(r, c) == [kernel |-> "transpose", rows |-> r, cols |-> c, null |-> {}]

Good ==
  {Vector("vector_add", 5, 2, <<>>), Vector("reduce_sum", 9, 4, Powers(9)),
   Vector("reduce_sum", 3, 4, Powers(3)), Vector("histogram256", 7, 2, Bytes(7)),
   Product("gemm_naive", 3, 1, 2), Product("gemm_tiled", 1, 3, 3), Product("gemm_tiled", 2, 1, 0),
   Transpose(3, 2), Transpose(1, 3)}

NoWork ==
  {Vector("vector_add", 0, 2, <<>>), [Vector("reduce_sum", 0, 4, <<>>) EXCEPT !.null = {"in"}],
   Product("gemm_tiled", 0, 2, 2), Transpose(0, 2)}

Bad ==
  {Vector("vector_add", 5, 0, <<>>), Vector("vector_add", -1, 2, <<>>),
   Vector("reduce_sum", 3, 3, Powers(3)), Vector("reduce_sum", 3, 8, Powers(3)),
   Vector("histogram256", 3, 0, Bytes(3)), Product("gemm_tiled", 2, -1, 2),
   Transpose(-1, 2), Transpose(5, 1), Product("gemm_naive", 5, 1, 1), [Transpose(1, 1) EXCEPT !.null = {"in"}],
   [Vector("reduce_sum", 3, 4, Powers(3)) EXCEPT !.null = {"in"}],
   [Vector("histogram256", 0, 2, <<>>) EXCEPT !.null = {"out"}]}

SomeLaunches == Good \cup NoWork \cup Bad
=============================================================================
