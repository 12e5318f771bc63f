-------------------------- MODULE ControllerProofs --------------------------
(***************************************************************************)
(* Proofs about dtest-ctl, for any job that was accepted and any list of   *)
(* agents: what its exit status and its reports say is what the commands   *)
(* did.                                                                    *)
(***************************************************************************)
EXTENDS Controller, FiniteSetTheorems, TLAPS

-----------------------------------------------------------------------------
(* Induction and folds.  A loop of the parser is a FoldLeft, defined over  *)
(* the sets of indices; these lemmas give its value after each index.      *)

(* Induction: a set with 0 and with every successor has all naturals. *)
LEMMA NatSetInduction ==
  ASSUME NEW S, 0 \in S, \A n \in Nat : n \in S => n + 1 \in S
  PROVE  Nat \subseteq S
<1> SUFFICES ASSUME Nat \ S # {} PROVE FALSE
  OBVIOUS
<1>1. PICK x \in Nat \ S : \A y \in Nat \ S : ~ (<<y, x>> \in OpToRel(<, Nat))
  BY WFMin, NatLessThanWellFounded
<1>2. \A y \in Nat \ S : ~(y < x)
  BY <1>1 DEF OpToRel
<1>3. x # 0 /\ x - 1 \in Nat
  OBVIOUS
<1>4. x - 1 \in S
  BY <1>2, <1>3
<1> QED BY <1>3, <1>4

(* The maximum of a set that has its bound in it. *)
LEMMA MaxIs ==
  ASSUME NEW n \in Nat, NEW s \in SUBSET (1..n), n \in s
  PROVE  Max(s) = n
<1>1. n \in s /\ \A y \in s : n >= y
  OBVIOUS
<1>2. Max(s) \in s /\ \A y \in s : Max(s) >= y
  BY <1>1 DEF Max
<1>3. Max(s) \in 1..n
  BY <1>2
<1> QED BY <1>1, <1>2, <1>3

(* The maximum of a set of indices is one. *)
LEMMA MaxIn ==
  ASSUME NEW n \in Nat, NEW s \in SUBSET (1..n), s # {}
  PROVE  Max(s) \in 1..n
<1> DEFINE P == {m \in Nat : \A z \in SUBSET (1..m) : z # {} => Max(z) \in 1..m}
<1>1. 0 \in P
  <2>1. 1..0 = {}
    OBVIOUS
  <2> QED BY <2>1
<1>2. ASSUME NEW m \in Nat, m \in P PROVE m + 1 \in P
  <2>1. ASSUME NEW z \in SUBSET (1..(m + 1)), z # {} PROVE Max(z) \in 1..(m + 1)
    <3>1. CASE m + 1 \in z
      BY <3>1, MaxIs
    <3>2. CASE m + 1 \notin z
      <4>1. z \in SUBSET (1..m)
        BY <3>2
      <4>2. Max(z) \in 1..m
        BY <1>2, <2>1, <4>1
      <4> QED BY <4>2
    <3> QED BY <3>1, <3>2
  <2> QED BY <2>1
<1> HIDE DEF P
<1>3. n \in P
  BY <1>1, <1>2, NatSetInduction
<1> QED BY <1>3 DEF P

(* What a fold from the first index on computes, for each set of indices. *)
Folds(h, n, x0, F) ==
  \A s \in SUBSET (1..n) : h[s] = IF s = {} THEN x0 ELSE F[Max(s)][h[s \ {Max(s)}]]

(* There is such a function. *)
LEMMA FoldExists ==
  ASSUME NEW X, NEW x0 \in X, NEW F \in [Nat -> [X -> X]], NEW n \in Nat
  PROVE  \E h \in [SUBSET (1..n) -> X] : Folds(h, n, x0, F)
<1> DEFINE P == {m \in Nat : \E h \in [SUBSET (1..m) -> X] : Folds(h, m, x0, F)}
<1>1. 0 \in P
  <2>1. [s \in SUBSET (1..0) |-> x0] \in [SUBSET (1..0) -> X]
    OBVIOUS
  <2>2. \A s \in SUBSET (1..0) : s = {}
    OBVIOUS
  <2>3. Folds([s \in SUBSET (1..0) |-> x0], 0, x0, F)
    BY <2>2 DEF Folds
  <2> QED BY <2>1, <2>3
<1>2. ASSUME NEW m \in Nat, m \in P PROVE m + 1 \in P
  <2>1. PICK h \in [SUBSET (1..m) -> X] : Folds(h, m, x0, F)
    BY <1>2
  <2> DEFINE g == [s \in SUBSET (1..(m + 1)) |->
                     IF m + 1 \in s THEN F[m + 1][h[s \ {m + 1}]] ELSE h[s]]
  <2>2. ASSUME NEW s \in SUBSET (1..(m + 1)), m + 1 \in s
        PROVE  s \ {m + 1} \in SUBSET (1..m) /\ Max(s) = m + 1
    BY <2>2, MaxIs
  <2>3. ASSUME NEW s \in SUBSET (1..(m + 1)), m + 1 \notin s
        PROVE  s \in SUBSET (1..m)
    BY <2>3
  <2>4. g \in [SUBSET (1..(m + 1)) -> X]
    BY <2>2, <2>3
  <2>5. ASSUME NEW s \in SUBSET (1..(m + 1))
        PROVE  g[s] = IF s = {} THEN x0 ELSE F[Max(s)][g[s \ {Max(s)}]]
    <3>1. CASE m + 1 \in s
      <4>1. g[s \ {m + 1}] = h[s \ {m + 1}]
        BY <3>1
      <4> QED BY <2>2, <3>1, <4>1
    <3>2. CASE m + 1 \notin s
      <4>1. s \in SUBSET (1..m) /\ s \ {Max(s)} \in SUBSET (1..m)
        BY <2>3, <3>2
      <4>2. m + 1 \notin s \ {Max(s)} /\ s \ {Max(s)} \in SUBSET (1..(m + 1))
        BY <3>2
      <4>3. g[s] = h[s] /\ g[s \ {Max(s)}] = h[s \ {Max(s)}]
        BY <3>2, <4>2
      <4> HIDE DEF g
      <4> QED BY <2>1, <4>1, <4>3 DEF Folds
    <3> QED BY <3>1, <3>2
  <2> HIDE DEF g
  <2>6. Folds(g, m + 1, x0, F)
    BY <2>5 DEF Folds
  <2> QED BY <2>4, <2>6
<1> HIDE DEF P
<1>3. n \in P
  BY <1>1, <1>2, NatSetInduction
<1> QED BY <1>3 DEF P

(* The last of the first indices. *)
LEMMA FirstIndices ==
  ASSUME NEW n \in Nat, NEW k \in 1..n
  PROVE  /\ 1..k # {} /\ 1..k \in SUBSET (1..n) /\ Max(1..k) = k /\ (1..k) \ {k} = 1..(k - 1)
<1>1. Max(1..k) = k
  BY MaxIs
<1>2. (1..k) \ {k} = 1..(k - 1)
  OBVIOUS
<1>3. k \in 1..k /\ \A i \in 1..k : i \in 1..n
  OBVIOUS
<1> QED BY <1>1, <1>2, <1>3

(* The values f of a fold after each index, and of one that is known at    *)
(* the sets 1..k only.                                                     *)
Steps(f, n, x0, F) == f[0] = x0 /\ \A k \in 1..n : f[k] = F[k][f[k - 1]]

StepsAlong(it, n, X, F) ==
  \A k \in 1..n : it[1..(k - 1)] \in X => it[1..k] = F[k][it[1..(k - 1)]]

(* The latter has such values. *)
LEMMA FoldValues ==
  ASSUME NEW X, NEW x0 \in X, NEW n \in Nat, NEW F \in [Nat -> [X -> X]], NEW it, it[{}] = x0,
         StepsAlong(it, n, X, F)
  PROVE  \E f \in [0..n -> X] : f[n] = it[1..n] /\ Steps(f, n, x0, F)
<1> DEFINE f == [k \in 0..n |-> it[1..k]]
           P == {k \in Nat : k \in 0..n => f[k] \in X}
<1>1. f[0] = x0 /\ f[n] = it[1..n]
  <2>1. 1..0 = {} /\ 0 \in 0..n /\ n \in 0..n
    OBVIOUS
  <2> QED BY <2>1
<1>2. ASSUME NEW k \in 1..n, f[k - 1] \in X PROVE f[k] = F[k][f[k - 1]] /\ f[k] \in X
  <2>1. k \in Nat /\ k \in 0..n /\ k - 1 \in 0..n
    OBVIOUS
  <2>2. f[k] = it[1..k] /\ f[k - 1] = it[1..(k - 1)]
    BY <2>1
  <2> HIDE DEF f
  <2>3. f[k] = F[k][f[k - 1]]
    BY <1>2, <2>2 DEF StepsAlong
  <2> QED BY <1>2, <2>1, <2>3
<1>3. 0 \in P
  BY <1>1
<1>4. ASSUME NEW k \in Nat, k \in P PROVE k + 1 \in P
  <2>1. CASE k + 1 \in 0..n
    <3>1. k + 1 \in 1..n /\ k \in 0..n /\ (k + 1) - 1 = k
      BY <2>1
    <3>2. f[k] \in X
      BY <1>4, <3>1
    <3>3. f[k + 1] \in X
      BY <1>2, <3>1, <3>2
    <3> QED BY <3>3
  <2> QED BY <2>1
<1>5. ASSUME NEW k \in 0..n PROVE f[k] \in X
  <2>1. k \in Nat
    OBVIOUS
  <2> HIDE DEF P
  <2>2. k \in P
    BY <1>3, <1>4, <2>1, NatSetInduction
  <2> QED BY <2>2 DEF P
<1>6. f \in [0..n -> X]
  BY <1>5
<1>7. ASSUME NEW k \in 1..n PROVE f[k] = F[k][f[k - 1]]
  <2>1. k - 1 \in 0..n
    OBVIOUS
  <2> QED BY <1>2, <1>5, <2>1
<1> HIDE DEF f
<1>8. Steps(f, n, x0, F)
  BY <1>1, <1>7 DEF Steps
<1> QED BY <1>1, <1>6, <1>8

(* The results of the loop over the copies of an entry, after each one. *)
CopiesAdded(f, X, n, res, q) ==
  /\ f \in [0..n -> X] /\ f[0] = res /\ f[n] = FoldLeft(add_copy, res, q)
  /\ \A i \in 1..n : f[i] = add_copy(f[i - 1], q[i])

(* There are such results. *)
LEMMA AddCopyFold ==
  ASSUME NEW X, NEW res \in X, NEW n \in Nat, NEW q, DOMAIN q = 1..n,
         \A r \in X, i \in 1..n : add_copy(r, q[i]) \in X
  PROVE  \E f : CopiesAdded(f, X, n, res, q)
<1> DEFINE I(it) == [s \in SUBSET (1..n) |->
                       IF s = {} THEN res ELSE add_copy(it[s \ {Max(s)}], q[Max(s)])]
           it0 == CHOOSE it : it = I(it)
           F == [i \in Nat |-> [r \in X |-> IF i \in 1..n THEN add_copy(r, q[i]) ELSE r]]
<1>1. FoldLeft(add_copy, res, q) = it0[1..n]
  BY Zenon DEF FoldLeft, MapThenFoldSet
<1>2. F \in [Nat -> [X -> X]]
  OBVIOUS
<1>3. PICK h \in [SUBSET (1..n) -> X] : Folds(h, n, res, F)
  <2> HIDE DEF F
  <2> QED BY <1>2, FoldExists
<1>4. h = I(h)
  <2>1. ASSUME NEW s \in SUBSET (1..n), s # {}
        PROVE  h[s] = add_copy(h[s \ {Max(s)}], q[Max(s)])
    <3>1. Max(s) \in 1..n
      BY <2>1, MaxIn
    <3>2. h[s \ {Max(s)}] \in X
      OBVIOUS
    <3>3. F[Max(s)][h[s \ {Max(s)}]] = add_copy(h[s \ {Max(s)}], q[Max(s)])
      BY <3>1, <3>2
    <3> HIDE DEF F
    <3> QED BY <1>3, <2>1, <3>3 DEF Folds
  <2> HIDE DEF F
  <2>2. \A s \in SUBSET (1..n) : h[s] = I(h)[s]
    BY <1>3, <2>1 DEF Folds
  <2> QED BY <2>2
<1>5. it0 = I(it0)
  <2> HIDE DEF I
  <2> QED BY <1>4
<1> HIDE DEF it0
<1>6. it0[{}] = res
  BY <1>5
<1>7. ASSUME NEW k \in 1..n PROVE it0[1..k] = add_copy(it0[1..(k - 1)], q[k])
  <2>1. 1..k # {} /\ 1..k \in SUBSET (1..n) /\ Max(1..k) = k /\ (1..k) \ {k} = 1..(k - 1)
    BY FirstIndices
  <2> QED BY <1>5, <2>1
<1>8. StepsAlong(it0, n, X, F)
  BY <1>7 DEF StepsAlong
<1>9. PICK f \in [0..n -> X] : f[n] = it0[1..n] /\ Steps(f, n, res, F)
  <2> HIDE DEF F
  <2> QED BY <1>2, <1>6, <1>8, FoldValues
<1>10. ASSUME NEW k \in 1..n PROVE f[k] = add_copy(f[k - 1], q[k])
  <2>1. f[k - 1] \in X /\ k \in Nat
    OBVIOUS
  <2>2. F[k][f[k - 1]] = add_copy(f[k - 1], q[k])
    BY <2>1
  <2> HIDE DEF F
  <2> QED BY <1>9, <2>2 DEF Steps
<1> HIDE DEF F
<1> QED BY <1>1, <1>9, <1>10 DEF Steps, CopiesAdded

(* What the loop over the entries starts from. *)
NothingRead == [tasks |-> <<>>, error |-> ""]

(* The results of the loop over the entries, after each one. *)
EntriesRead(f, X, n, rt) ==
  /\ f \in [0..n -> X] /\ f[0] = NothingRead /\ f[n] = parse_jobs(rt)
  /\ \A i \in 1..n : f[i] = parse_task(f[i - 1], rt.tasks[i], defaults(rt.defaults))

(* There are such results. *)
LEMMA ParseTaskFold ==
  ASSUME NEW X, NothingRead \in X, NEW n \in Nat, NEW rt, DOMAIN rt.tasks = 1..n, ValidHeader(rt),
         \A r \in X, i \in 1..n : parse_task(r, rt.tasks[i], defaults(rt.defaults)) \in X
  PROVE  \E f : EntriesRead(f, X, n, rt)
<1> DEFINE I(it) == [s \in SUBSET (1..n) |->
                       IF s = {} THEN NothingRead ELSE parse_task(it[s \ {Max(s)}], rt.tasks[Max(s)], defaults(rt.defaults))]
           it0 == CHOOSE it : it = I(it)
           F == [i \in Nat |-> [r \in X |-> IF i \in 1..n THEN parse_task(r, rt.tasks[i], defaults(rt.defaults)) ELSE r]]
<1>1. parse_jobs(rt) = it0[1..n]
  BY Zenon DEF parse_jobs, FoldLeft, MapThenFoldSet, NothingRead
<1>2. F \in [Nat -> [X -> X]]
  OBVIOUS
<1>3. PICK h \in [SUBSET (1..n) -> X] : Folds(h, n, NothingRead, F)
  <2> HIDE DEF F
  <2> QED BY <1>2, FoldExists
<1>4. h = I(h)
  <2>1. ASSUME NEW s \in SUBSET (1..n), s # {}
        PROVE  h[s] = parse_task(h[s \ {Max(s)}], rt.tasks[Max(s)], defaults(rt.defaults))
    <3>1. Max(s) \in 1..n
      BY <2>1, MaxIn
    <3>2. h[s \ {Max(s)}] \in X
      OBVIOUS
    <3>3. F[Max(s)][h[s \ {Max(s)}]] = parse_task(h[s \ {Max(s)}], rt.tasks[Max(s)], defaults(rt.defaults))
      BY <3>1, <3>2
    <3> HIDE DEF F
    <3> QED BY <1>3, <2>1, <3>3 DEF Folds
  <2> HIDE DEF F
  <2>2. \A s \in SUBSET (1..n) : h[s] = I(h)[s]
    BY <1>3, <2>1 DEF Folds
  <2> QED BY <2>2
<1>5. it0 = I(it0)
  <2> HIDE DEF I
  <2> QED BY <1>4
<1> HIDE DEF it0
<1>6. it0[{}] = NothingRead
  BY <1>5
<1>7. ASSUME NEW k \in 1..n PROVE it0[1..k] = parse_task(it0[1..(k - 1)], rt.tasks[k], defaults(rt.defaults))
  <2>1. 1..k # {} /\ 1..k \in SUBSET (1..n) /\ Max(1..k) = k /\ (1..k) \ {k} = 1..(k - 1)
    BY FirstIndices
  <2> QED BY <1>5, <2>1
<1>8. StepsAlong(it0, n, X, F)
  BY <1>7 DEF StepsAlong
<1>9. PICK f \in [0..n -> X] : f[n] = it0[1..n] /\ Steps(f, n, NothingRead, F)
  <2> HIDE DEF F
  <2> QED BY <1>2, <1>6, <1>8, FoldValues
<1>10. ASSUME NEW k \in 1..n PROVE f[k] = parse_task(f[k - 1], rt.tasks[k], defaults(rt.defaults))
  <2>1. f[k - 1] \in X /\ k \in Nat
    OBVIOUS
  <2>2. F[k][f[k - 1]] = parse_task(f[k - 1], rt.tasks[k], defaults(rt.defaults))
    BY <2>1
  <2> HIDE DEF F
  <2> QED BY <1>9, <2>2 DEF Steps
<1> HIDE DEF F
<1> QED BY <1>1, <1>9, <1>10 DEF Steps, EntriesRead

(* The partial sums of the copies. *)
Sums(f, n, q) ==
  /\ f \in [0..n -> Int] /\ f[0] = 0 /\ f[n] = Total(q)
  /\ \A i \in 1..n : f[i] = f[i - 1] + copies(q[i])

(* It is made of them. *)
LEMMA TotalFold ==
  ASSUME NEW n \in Nat, NEW q, DOMAIN q = 1..n, \A i \in 1..n : copies(q[i]) \in Int
  PROVE  \E f : Sums(f, n, q)
<1>0. PICK X : X = Int
  OBVIOUS
<1> DEFINE I(it) == [s \in SUBSET (1..n) |->
                       IF s = {} THEN 0 ELSE it[s \ {Max(s)}] + copies(q[Max(s)])]
           it0 == CHOOSE it : it = I(it)
           F == [i \in Nat |-> [r \in X |-> IF i \in 1..n THEN r + copies(q[i]) ELSE r]]
<1>1. Total(q) = it0[1..n]
  BY Zenon DEF Total, FoldLeft, MapThenFoldSet
<1>2. 0 \in X /\ F \in [Nat -> [X -> X]]
  BY <1>0
<1>3. PICK h \in [SUBSET (1..n) -> X] : Folds(h, n, 0, F)
  <2> HIDE DEF F
  <2> QED BY <1>2, FoldExists
<1>4. h = I(h)
  <2>1. ASSUME NEW s \in SUBSET (1..n), s # {}
        PROVE  h[s] = h[s \ {Max(s)}] + copies(q[Max(s)])
    <3>1. Max(s) \in 1..n
      BY <2>1, MaxIn
    <3>2. h[s \ {Max(s)}] \in X
      OBVIOUS
    <3>3. F[Max(s)][h[s \ {Max(s)}]] = h[s \ {Max(s)}] + copies(q[Max(s)])
      BY <3>1, <3>2
    <3> HIDE DEF F
    <3> QED BY <1>3, <2>1, <3>3 DEF Folds
  <2> HIDE DEF F
  <2>2. \A s \in SUBSET (1..n) : h[s] = I(h)[s]
    BY <1>3, <2>1 DEF Folds
  <2> QED BY <2>2
<1>5. it0 = I(it0)
  <2> HIDE DEF I
  <2> QED BY <1>4
<1> HIDE DEF it0
<1>6. it0[{}] = 0
  BY <1>5
<1>7. ASSUME NEW k \in 1..n PROVE it0[1..k] = it0[1..(k - 1)] + copies(q[k])
  <2>1. 1..k # {} /\ 1..k \in SUBSET (1..n) /\ Max(1..k) = k /\ (1..k) \ {k} = 1..(k - 1)
    BY FirstIndices
  <2> QED BY <1>5, <2>1
<1>8. StepsAlong(it0, n, X, F)
  BY <1>7 DEF StepsAlong
<1>9. PICK f \in [0..n -> X] : f[n] = it0[1..n] /\ Steps(f, n, 0, F)
  <2> HIDE DEF F
  <2>1. PICK z \in X : z = 0
    BY <1>2
  <2>2. it0[{}] = z
    BY <1>6, <2>1
  <2>3. \E f \in [0..n -> X] : f[n] = it0[1..n] /\ Steps(f, n, z, F)
    BY <1>2, <1>8, <2>2, FoldValues
  <2> QED BY <2>1, <2>3
<1>10. ASSUME NEW k \in 1..n PROVE f[k] = f[k - 1] + copies(q[k])
  <2>1. f[k - 1] \in X /\ k \in Nat
    OBVIOUS
  <2>2. F[k][f[k - 1]] = f[k - 1] + copies(q[k])
    BY <2>1
  <2> HIDE DEF F
  <2> QED BY <1>9, <2>2 DEF Steps
<1> HIDE DEF F
<1> QED BY <1>0, <1>1, <1>9, <1>10 DEF Steps, Sums

-----------------------------------------------------------------------------
(* How many tasks the entries make.                                        *)

(* A list is a sequence, and so is its beginning. *)
LEMMA ListFacts ==
  ASSUME NEW q, IsList(q)
  PROVE  /\ Len(q) \in Nat /\ DOMAIN q = 1..Len(q) /\ q \in Seq(Range(q))
         /\ SubSeq(q, 1, Len(q)) = q
         /\ \A k \in 0..Len(q) : /\ DOMAIN SubSeq(q, 1, k) = 1..k
                                 /\ \A i \in 1..k : SubSeq(q, 1, k)[i] = q[i]
<1>1. PICK n \in Nat : n = Len(q)
  BY DEF IsList
<1>2. DOMAIN q = 1..n /\ q = [i \in 1..n |-> q[i]]
  BY <1>1 DEF IsList
<1>3. \A i \in 1..n : q[i] \in Range(q)
  BY <1>2 DEF Range
<1>4. q \in Seq(Range(q))
  BY <1>2, <1>3
<1>5. ASSUME NEW k \in 0..n
      PROVE  DOMAIN SubSeq(q, 1, k) = 1..k /\ \A i \in 1..k : SubSeq(q, 1, k)[i] = q[i]
  BY <1>1, <1>4
<1>6. SubSeq(q, 1, n) = q
  BY <1>1, <1>4
<1> QED BY <1>1, <1>2, <1>4, <1>5, <1>6

(* The number of tasks that the first k entries make. *)
TotalTo(q, k) == Total(SubSeq(q, 1, k))

(* It is the sum of their copies. *)
LEMMA TotalSteps ==
  ASSUME NEW q, IsList(q), NEW n \in Nat, n = Len(q), \A k \in 1..n : copies(q[k]) \in Int
  PROVE  /\ TotalTo(q, 0) = 0 /\ TotalTo(q, n) = Total(q)
         /\ \A k \in 0..n : TotalTo(q, k) \in Int
         /\ \A k \in 1..n : TotalTo(q, k) = TotalTo(q, k - 1) + copies(q[k])
<1>1. ASSUME NEW k \in 0..n
      PROVE  \E f : Sums(f, k, SubSeq(q, 1, k)) /\ \A i \in 1..k : SubSeq(q, 1, k)[i] = q[i]
  <2>1. PICK z : z = SubSeq(q, 1, k)
    OBVIOUS
  <2>2. DOMAIN z = 1..k /\ \A i \in 1..k : z[i] = q[i]
    BY <2>1, ListFacts
  <2>3. k \in Nat /\ \A i \in 1..k : copies(z[i]) \in Int
    BY <2>2
  <2>4. \E f : Sums(f, k, z)
    BY <2>2, <2>3, TotalFold
  <2> QED BY <2>1, <2>2, <2>4
<1>a. ASSUME NEW k \in 0..n
      PROVE  \E f \in [0..k -> Int] : /\ f[0] = 0 /\ f[k] = TotalTo(q, k)
                                      /\ \A i \in 1..k : f[i] = f[i - 1] + copies(q[i])
  BY <1>1 DEF Sums, TotalTo
<1>2. ASSUME NEW k \in 1..n
      PROVE  TotalTo(q, k) = TotalTo(q, k - 1) + copies(q[k])
  <2>1. PICK f \in [0..k -> Int] : /\ f[0] = 0 /\ f[k] = TotalTo(q, k)
                                   /\ \A i \in 1..k : f[i] = f[i - 1] + copies(q[i])
    <3>1. k \in 0..n
      OBVIOUS
    <3> QED BY <1>a, <3>1
  <2>2. PICK g \in [0..(k - 1) -> Int] : /\ g[0] = 0 /\ g[k - 1] = TotalTo(q, k - 1)
                                         /\ \A i \in 1..(k - 1) : g[i] = g[i - 1] + copies(q[i])
    <3>1. k - 1 \in 0..n
      OBVIOUS
    <3> QED BY <1>a, <3>1
  <2> DEFINE P == {i \in Nat : i <= k - 1 => f[i] = g[i]}
  <2>3. 0 \in P
    BY <2>1, <2>2
  <2>4. ASSUME NEW i \in Nat, i \in P PROVE i + 1 \in P
    <3>1. CASE i + 1 <= k - 1
      <4>1. i + 1 \in 1..k /\ i + 1 \in 1..(k - 1) /\ (i + 1) - 1 = i /\ i <= k - 1
        BY <3>1
      <4>2. f[i] = g[i]
        BY <2>4, <4>1
      <4>3. f[i + 1] = f[i] + copies(q[i + 1]) /\ g[i + 1] = g[i] + copies(q[i + 1])
        BY <2>1, <2>2, <4>1
      <4> QED BY <4>2, <4>3
    <3> QED BY <3>1
  <2>5. f[k - 1] = g[k - 1]
    <3>1. k - 1 \in Nat /\ k - 1 <= k - 1
      OBVIOUS
    <3> HIDE DEF P
    <3>2. k - 1 \in P
      BY <2>3, <2>4, <3>1, NatSetInduction
    <3> QED BY <3>1, <3>2 DEF P
  <2>6. k \in 1..k
    OBVIOUS
  <2> QED BY <2>1, <2>2, <2>5, <2>6
<1>3. TotalTo(q, 0) = 0
  BY <1>a
<1>4. \A k \in 0..n : TotalTo(q, k) \in Int
  <2>1. ASSUME NEW k \in 0..n PROVE TotalTo(q, k) \in Int
    <3>1. PICK f \in [0..k -> Int] : f[k] = TotalTo(q, k)
      BY <1>a
    <3> QED BY <3>1
  <2> QED BY <2>1
<1>5. TotalTo(q, n) = Total(q)
  BY ListFacts DEF TotalTo
<1> QED BY <1>2, <1>3, <1>4, <1>5

(* It grows with every entry that has a copy. *)
LEMMA TotalGrows ==
  ASSUME NEW q, IsList(q), NEW n \in Nat, n = Len(q), \A k \in 1..n : copies(q[k]) \in Nat \ {0}
  PROVE  \A k, l \in 0..n : /\ TotalTo(q, k) \in Nat
                            /\ k <= l => TotalTo(q, k) <= TotalTo(q, l)
                            /\ k < l  => TotalTo(q, k) < TotalTo(q, l)
<1> DEFINE P == {m \in Nat : \A k, l \in 0..n : l <= m =>
                              /\ TotalTo(q, l) \in Nat
                              /\ k <= l => TotalTo(q, k) <= TotalTo(q, l)
                              /\ k < l  => TotalTo(q, k) < TotalTo(q, l)}
<1>0. /\ TotalTo(q, 0) = 0 /\ \A k \in 0..n : TotalTo(q, k) \in Int
      /\ \A k \in 1..n : TotalTo(q, k) = TotalTo(q, k - 1) + copies(q[k])
  <2>1. \A k \in 1..n : copies(q[k]) \in Int
    OBVIOUS
  <2> QED BY <2>1, TotalSteps
<1>1. 0 \in P
  <2>1. \A k, l \in 0..n : l <= 0 => l = 0 /\ ~(k < l) /\ (k <= l => k = 0)
    OBVIOUS
  <2> QED BY <1>0, <2>1
<1>2. ASSUME NEW m \in Nat, m \in P PROVE m + 1 \in P
  <2>1. CASE m + 1 \in 1..n
    <3>1. /\ TotalTo(q, m + 1) = TotalTo(q, m) + copies(q[m + 1]) /\ m \in 0..n
          /\ copies(q[m + 1]) \in Nat \ {0} /\ TotalTo(q, m) \in Int
      <4>1. m \in 0..n /\ (m + 1) - 1 = m
        BY <2>1
      <4> QED BY <1>0, <2>1, <4>1
    <3>2. TotalTo(q, m) \in Nat /\ \A k \in 0..n : k <= m => TotalTo(q, k) <= TotalTo(q, m)
      BY <1>2, <3>1
    <3>3. ASSUME NEW k \in 0..n, NEW l \in 0..n, l <= m + 1
          PROVE  /\ TotalTo(q, l) \in Nat
                 /\ k <= l => TotalTo(q, k) <= TotalTo(q, l)
                 /\ k < l  => TotalTo(q, k) < TotalTo(q, l)
      <4>1. CASE l <= m
        BY <1>2, <4>1
      <4>2. CASE l = m + 1
        <5>1. TotalTo(q, k) \in Int /\ (k <= l => k <= m \/ k = l) /\ (k < l => k <= m)
          BY <1>0, <4>2
        <5> QED BY <3>1, <3>2, <4>2, <5>1
      <4> QED BY <3>3, <4>1, <4>2
    <3> QED BY <3>3
  <2>2. CASE m + 1 \notin 1..n
    <3>1. \A l \in 0..n : l <= m + 1 => l <= m
      BY <2>2
    <3> QED BY <1>2, <3>1
  <2> QED BY <2>1, <2>2
<1>3. n \in P
  <2> HIDE DEF P
  <2> QED BY <1>1, <1>2, NatSetInduction
<1> QED BY <1>3

-----------------------------------------------------------------------------
(* The loops of the parser, one copy and one entry at a time.  As long as  *)
(* nothing was wrong, the list holds the copies read so far, each at its   *)
(* place; once something was, the file is not acceptable.                  *)

Messages == {"", "header", "entry", "duplicate", "too many"}

(* The task that copy i of entry l is meant to be, and its place. *)
Copy(rt, l, i) ==
  [Merged(rt.tasks[l], defaults(rt.defaults)) EXCEPT !.name = CopyName(rt.tasks[l], i)]

Place(rt, l, i) == TotalTo(rt.tasks, l - 1) + i

TasksOf(rt) == UNION {{Copy(rt, l, i) : i \in Int} : l \in DOMAIN rt.tasks}

(* What the parser can have in hand. *)
Results(rt) == [tasks : Seq(TasksOf(rt)), error : Messages]

(* Copy i of entry l comes before copy j + 1 of entry k. *)
Copied(rt, l, i, k, j) ==
  /\ l \in DOMAIN rt.tasks /\ i \in 1..copies(rt.tasks[l])
  /\ l < k \/ (l = k /\ i <= j)

(* The list after copy j of entry k, as long as nothing was wrong. *)
ListTo(rt, k, j, ts) ==
  /\ Len(ts) = Place(rt, k, j) /\ Len(ts) <= kMaxTasks
  /\ \A p, q \in DOMAIN ts : ts[p].name = ts[q].name => p = q
  /\ \A l, i : Copied(rt, l, i, k, j) =>
       Place(rt, l, i) \in DOMAIN ts /\ ts[Place(rt, l, i)] = Copy(rt, l, i)
  /\ \A p \in DOMAIN ts : \E l, i : Copied(rt, l, i, k, j) /\ p = Place(rt, l, i)

ReadTo(rt, k, j, r) ==
  /\ r \in Results(rt)
  /\ r.error # "" => r.tasks = <<>> /\ ~Acceptable(rt)
  /\ r.error = "" => /\ ListTo(rt, k, j, r.tasks)
                     /\ \A l \in DOMAIN rt.tasks : l < k => ValidEntry(rt.tasks[l])

(* The numbers of copies of a document. *)
LEMMA DocumentCopies ==
  ASSUME NEW rt, IsDocument(rt), NEW n \in Nat, n = Len(rt.tasks)
  PROVE  /\ IsList(rt.tasks) /\ DOMAIN rt.tasks = 1..n
         /\ \A l \in 1..n : /\ copies(rt.tasks[l]) \in Int
                            /\ ValidEntry(rt.tasks[l]) => copies(rt.tasks[l]) \in Nat \ {0}
<1>1. IsList(rt.tasks) /\ DOMAIN rt.tasks = 1..n
  BY ListFacts DEF IsDocument
<1>2. ASSUME NEW l \in 1..n
      PROVE  /\ copies(rt.tasks[l]) \in Int
             /\ ValidEntry(rt.tasks[l]) => copies(rt.tasks[l]) \in Nat \ {0}
  <2>1. PICK key : key = rt.tasks[l].repeat
    OBVIOUS
  <2>2. IsNumber(key)
    BY <1>1, <2>1 DEF IsDocument
  <2>3. ValidEntry(rt.tasks[l]) => is_int_in(key, 1, MaxRepeat)
    BY <2>1 DEF ValidEntry
  <2>4. copies(rt.tasks[l]) = IF Given(key) THEN key[1] ELSE 1
    BY <2>1 DEF copies, ValueOr
  <2>5. Given(key) => key[1] \in Int /\ (ValidEntry(rt.tasks[l]) => key[1] \in 1..MaxRepeat)
    BY <2>2, <2>3 DEF IsNumber, is_int_in
  <2> QED BY <2>4, <2>5, JobFileAssumption
<1> QED BY <1>1, <1>2

(* The empty list is one of anything. *)
LEMMA EmptyList ==
  ASSUME NEW S
  PROVE  <<>> \in Seq(S)
OBVIOUS

(* What a refused file leaves. *)
LEMMA Refused ==
  ASSUME NEW rt, NEW k, NEW j, NEW m \in Messages \ {""}, ~Acceptable(rt)
  PROVE  ReadTo(rt, k, j, fail(m))
<1>0. <<>> \in Seq(TasksOf(rt))
  BY EmptyList
<1>1. m \in Messages /\ m # ""
  OBVIOUS
<1>2. fail(m) \in Results(rt)
  BY <1>0, <1>1 DEF fail, Results
<1>3. fail(m).error = m /\ fail(m).tasks = <<>>
  BY DEF fail
<1> QED BY <1>1, <1>2, <1>3 DEF ReadTo

(* Every copy is a task of the file. *)
LEMMA CopyType ==
  ASSUME NEW rt, NEW l \in DOMAIN rt.tasks, NEW i \in Int
  PROVE  Copy(rt, l, i) \in TasksOf(rt) /\ Copy(rt, l, i).name = CopyName(rt.tasks[l], i)
<1>1. Copy(rt, l, i) \in {Copy(rt, l, v) : v \in Int}
  OBVIOUS
<1>2. Copy(rt, l, i).name = CopyName(rt.tasks[l], i)
  BY DEF Copy, Merged
<1> QED BY <1>1, <1>2 DEF TasksOf

(* A copy is added to the list, or the file is not acceptable. *)
LEMMA AddCopyStep ==
  ASSUME NEW rt, IsDocument(rt), ValidHeader(rt), NEW k \in DOMAIN rt.tasks, ValidEntry(rt.tasks[k]),
         NEW j \in Nat, j + 1 <= copies(rt.tasks[k]), NEW r, ReadTo(rt, k, j, r)
  PROVE  ReadTo(rt, k, j + 1, add_copy(r, Copy(rt, k, j + 1)))
<1>1. PICK n \in Nat : n = Len(rt.tasks)
  BY DEF IsDocument, IsList
<1>2. /\ IsList(rt.tasks) /\ DOMAIN rt.tasks = 1..n /\ k \in 1..n
      /\ \A l \in 1..n : copies(rt.tasks[l]) \in Int
      /\ \A l \in 1..n : ValidEntry(rt.tasks[l]) => copies(rt.tasks[l]) \in Nat \ {0}
  BY <1>1, DocumentCopies
<1> DEFINE T(l) == TotalTo(rt.tasks, l)
           S    == TasksOf(rt)
           task == Copy(rt, k, j + 1)
<1>3. /\ \A l \in 0..n : T(l) \in Int
      /\ \A l \in 1..n : T(l) = T(l - 1) + copies(rt.tasks[l])
      /\ T(n) = Total(rt.tasks)
  BY <1>1, <1>2, TotalSteps
<1> HIDE DEF T
<1>4. task \in S /\ task.name = CopyName(rt.tasks[k], j + 1)
  BY CopyType
<1>5. j \in 0..copies(rt.tasks[k]) /\ j + 1 \in 1..copies(rt.tasks[k])
  BY <1>2
<1> HIDE DEF S, task
<1>6. CASE r.error # ""
  BY <1>6 DEF add_copy, ReadTo
<1>7. CASE r.error = ""
  <2>1. PICK ts \in Seq(S) : ts = r.tasks
    BY DEF ReadTo, Results, S
  <2>2. PICK m \in Nat : m = Len(ts) /\ DOMAIN ts = 1..m
    OBVIOUS
  <2>3. /\ ListTo(rt, k, j, ts) /\ m = T(k - 1) + j /\ T(k - 1) \in Int /\ m <= kMaxTasks
        /\ \A l \in DOMAIN rt.tasks : l < k => ValidEntry(rt.tasks[l])
    <3>1. k - 1 \in 0..n
      BY <1>2
    <3> QED BY <1>3, <1>7, <2>1, <2>2, <3>1 DEF ReadTo, ListTo, Place, T
  <2>4. CASE \E p \in DOMAIN ts : ts[p].name = task.name
    <3>1. PICK p \in DOMAIN ts : ts[p].name = task.name
      BY <2>4
    <3>2. PICK l, i : Copied(rt, l, i, k, j) /\ p = Place(rt, l, i)
      BY <2>3, <3>1 DEF ListTo
    <3>3. ts[p].name = CopyName(rt.tasks[l], i)
      <4>1. ts[p] = Copy(rt, l, i)
        BY <2>3, <3>2 DEF ListTo
      <4> QED BY <3>2, <4>1, CopyType DEF Copied
    <3>4. CopyName(rt.tasks[l], i) = CopyName(rt.tasks[k], j + 1) /\ ~(l = k /\ i = j + 1)
      <4>1. l \in 1..n /\ i \in Int /\ (l = k => i <= j)
        BY <1>2, <3>2 DEF Copied
      <4> QED BY <1>4, <3>1, <3>3, <4>1
    <3>5. ~Acceptable(rt)
      BY <1>5, <3>2, <3>4 DEF Acceptable, Copied
    <3>6. add_copy(r, task) = fail("duplicate")
      BY <1>7, <2>1, <2>4 DEF add_copy
    <3> QED BY <3>5, <3>6, Refused DEF Messages, task
  <2>5. CASE ~(\E p \in DOMAIN ts : ts[p].name = task.name) /\ m + 1 > kMaxTasks
    <3>1. ~Acceptable(rt)
      <4>1. SUFFICES ASSUME Acceptable(rt) PROVE FALSE
        OBVIOUS
      <4>2. \A l \in 1..n : copies(rt.tasks[l]) \in Nat \ {0}
        BY <1>2, <4>1 DEF Acceptable
      <4>3. T(k) <= T(n)
        <5>1. k \in 0..n /\ n \in 0..n /\ k <= n
          BY <1>2
        <5> QED BY <1>1, <1>2, <4>2, <5>1, TotalGrows DEF T
      <4>4. T(n) <= kMaxTasks
        BY <1>3, <4>1 DEF Acceptable
      <4>5. m + 1 <= T(k) /\ T(k) \in Int /\ T(n) \in Int /\ kMaxTasks \in Nat
        <5>1. T(k) = T(k - 1) + copies(rt.tasks[k]) /\ T(k) \in Int /\ T(n) \in Int
          <6>1. k \in 1..n /\ k \in 0..n /\ n \in 0..n
            BY <1>2
          <6> QED BY <1>3, <6>1
        <5>2. copies(rt.tasks[k]) \in Int /\ T(k - 1) \in Int
          BY <1>2, <2>3
        <5>3. m + 1 <= T(k)
          BY <2>3, <5>1, <5>2
        <5> QED BY <5>1, <5>3, JobFileAssumption
      <4> QED BY <2>5, <4>3, <4>4, <4>5
    <3>2. add_copy(r, task) = fail("too many")
      BY <1>7, <2>1, <2>2, <2>5 DEF add_copy
    <3> QED BY <3>1, <3>2, Refused DEF Messages, task
  <2>6. CASE ~(\E p \in DOMAIN ts : ts[p].name = task.name) /\ ~(m + 1 > kMaxTasks)
    <3>1. PICK u : u = Append(ts, task)
      OBVIOUS
    <3>2. /\ u \in Seq(S) /\ Len(u) = m + 1 /\ DOMAIN u = 1..(m + 1) /\ u[m + 1] = task
          /\ \A p \in 1..m : u[p] = ts[p]
      BY <1>4, <2>2, <3>1
    <3>3. PICK r2 : r2 = add_copy(r, task)
      OBVIOUS
    <3>4. r2 = [r EXCEPT !.tasks = u]
      BY <1>7, <2>1, <2>2, <2>6, <3>1, <3>3 DEF add_copy
    <3>5. r2.tasks = u /\ r2.error = "" /\ r2 \in [tasks : Seq(S), error : Messages]
      BY <1>7, <3>2, <3>4 DEF ReadTo, Results, S
    <3>6. \A p \in 1..(m + 1) : p = m + 1 \/ p \in 1..m
      OBVIOUS
    <3>7. \A p, q \in 1..(m + 1) : u[p].name = u[q].name => p = q
      <4>1. \A p, q \in 1..m : ts[p].name = ts[q].name => p = q
        BY <2>2, <2>3 DEF ListTo
      <4>2. \A p \in 1..m : ts[p].name # task.name
        BY <2>2, <2>6
      <4> QED BY <3>2, <3>6, <4>1, <4>2
    <3>8. Place(rt, k, j + 1) = m + 1 /\ m + 1 \in 1..(m + 1)
      BY <2>3 DEF Place, T
    <3>9. ASSUME NEW l, NEW i, Copied(rt, l, i, k, j + 1)
          PROVE  Place(rt, l, i) \in 1..(m + 1) /\ u[Place(rt, l, i)] = Copy(rt, l, i)
      <4>1. CASE Copied(rt, l, i, k, j)
        <5>1. Place(rt, l, i) \in 1..m /\ ts[Place(rt, l, i)] = Copy(rt, l, i)
          BY <2>2, <2>3, <4>1 DEF ListTo
        <5>2. \A p \in 1..m : p \in 1..(m + 1)
          OBVIOUS
        <5> QED BY <3>2, <5>1, <5>2
      <4>2. CASE ~Copied(rt, l, i, k, j)
        <5>1. l = k /\ i = j + 1
          BY <1>2, <3>9, <4>2 DEF Copied
        <5> QED BY <3>2, <3>8, <5>1 DEF task
      <4> QED BY <4>1, <4>2
    <3>10. ASSUME NEW p \in 1..(m + 1)
           PROVE  \E l, i : Copied(rt, l, i, k, j + 1) /\ p = Place(rt, l, i)
      <4>1. CASE p \in 1..m
        <5>1. PICK l, i : Copied(rt, l, i, k, j) /\ p = Place(rt, l, i)
          BY <2>2, <2>3, <4>1 DEF ListTo
        <5>2. Copied(rt, l, i, k, j + 1)
          BY <1>2, <5>1 DEF Copied
        <5> QED BY <5>1, <5>2
      <4>2. CASE p = m + 1
        <5>1. Copied(rt, k, j + 1, k, j + 1)
          BY <1>2, <1>5 DEF Copied
        <5> QED BY <3>8, <4>2, <5>1
      <4> QED BY <3>6, <4>1, <4>2
    <3>11. m + 1 <= kMaxTasks
      <4>1. ~(m + 1 > kMaxTasks)
        BY <2>6
      <4> QED BY <4>1, JobFileAssumption
    <3>12. ListTo(rt, k, j + 1, u)
      BY <3>2, <3>7, <3>8, <3>9, <3>10, <3>11 DEF ListTo
    <3> QED BY <2>3, <3>3, <3>5, <3>12 DEF ReadTo, Results, S, task
  <2> QED BY <2>4, <2>5, <2>6
<1> QED BY <1>6, <1>7

(* What add_copy returns. *)
LEMMA AddCopyIn ==
  ASSUME NEW S, NEW r \in [tasks : Seq(S), error : Messages], NEW task \in S
  PROVE  add_copy(r, task) \in [tasks : Seq(S), error : Messages]
<1>1. "duplicate" \in Messages /\ "too many" \in Messages
  BY DEF Messages
<1>2. fail("duplicate") \in [tasks : Seq(S), error : Messages]
  BY <1>1, EmptyList DEF fail
<1>3. fail("too many") \in [tasks : Seq(S), error : Messages]
  BY <1>1, EmptyList DEF fail
<1>4. [r EXCEPT !.tasks = Append(@, task)] \in [tasks : Seq(S), error : Messages]
  <2>1. PICK ts \in Seq(S) : ts = r.tasks
    OBVIOUS
  <2>2. PICK u : u = Append(ts, task)
    OBVIOUS
  <2>3. u \in Seq(S)
    BY <2>2
  <2>4. [r EXCEPT !.tasks = Append(@, task)] = [r EXCEPT !.tasks = u]
    BY <2>1, <2>2
  <2> QED BY <2>3, <2>4
<1> QED BY <1>2, <1>3, <1>4 DEF add_copy

(* The same for a file. *)
LEMMA AddCopyType ==
  ASSUME NEW rt, NEW r \in Results(rt), NEW task \in TasksOf(rt)
  PROVE  add_copy(r, task) \in Results(rt)
BY AddCopyIn DEF Results

(* After the last copy of an entry comes the next entry. *)
LEMMA NextEntry ==
  ASSUME NEW rt, IsDocument(rt), NEW k \in DOMAIN rt.tasks, ValidEntry(rt.tasks[k]), NEW r,
         ReadTo(rt, k, copies(rt.tasks[k]), r)
  PROVE  ReadTo(rt, k + 1, 0, r)
<1>1. PICK n \in Nat : n = Len(rt.tasks)
  BY DEF IsDocument, IsList
<1>2. /\ IsList(rt.tasks) /\ DOMAIN rt.tasks = 1..n /\ k \in 1..n
      /\ \A l \in 1..n : copies(rt.tasks[l]) \in Int
  BY <1>1, DocumentCopies
<1>3. PICK c \in Int : c = copies(rt.tasks[k])
  BY <1>2
<1>4. Place(rt, k + 1, 0) = Place(rt, k, c)
  <2>1. /\ TotalTo(rt.tasks, k) = TotalTo(rt.tasks, k - 1) + c
        /\ TotalTo(rt.tasks, k) \in Int /\ (k + 1) - 1 = k
    <3>1. k \in 0..n
      BY <1>2
    <3>2. /\ \A l \in 0..n : TotalTo(rt.tasks, l) \in Int
          /\ \A l \in 1..n : TotalTo(rt.tasks, l) = TotalTo(rt.tasks, l - 1) + copies(rt.tasks[l])
      BY <1>1, <1>2, TotalSteps
    <3>3. (k + 1) - 1 = k
      BY <1>2
    <3>4. TotalTo(rt.tasks, k) = TotalTo(rt.tasks, k - 1) + c
      BY <1>2, <1>3, <3>2
    <3> QED BY <3>1, <3>2, <3>3, <3>4
  <2> QED BY <2>1 DEF Place
<1>5. ASSUME NEW l, NEW i
      PROVE  Copied(rt, l, i, k + 1, 0) <=> Copied(rt, l, i, k, c)
  BY <1>2, <1>3 DEF Copied
<1>6. \A l \in DOMAIN rt.tasks : l < k + 1 => l < k \/ l = k
  BY <1>2
<1>7. ASSUME NEW ts, ListTo(rt, k, c, ts) PROVE ListTo(rt, k + 1, 0, ts)
  BY <1>4, <1>5, <1>7 DEF ListTo
<1> QED BY <1>3, <1>6, <1>7 DEF ReadTo

(* The copies of an entry are tasks of the file. *)
LEMMA CopiesType ==
  ASSUME NEW rt, NEW k \in DOMAIN rt.tasks, NEW c \in Nat
  PROVE  \A i \in 1..c : Copy(rt, k, i) \in TasksOf(rt)
<1>1. \A i \in 1..c : i \in Int
  OBVIOUS
<1> QED BY <1>1, CopyType

(* What a valid entry does, one copy after the other. *)
EntryCopied(f, c, r, rt, k) ==
  /\ c \in Nat /\ c = copies(rt.tasks[k]) /\ f \in [0..c -> Results(rt)] /\ f[0] = r
  /\ f[c] = parse_task(r, rt.tasks[k], defaults(rt.defaults))
  /\ \A i \in 1..c : f[i] = add_copy(f[i - 1], Copy(rt, k, i))

(* It does. *)
LEMMA ParseTaskCopies ==
  ASSUME NEW rt, IsDocument(rt), NEW k \in DOMAIN rt.tasks, ValidEntry(rt.tasks[k]),
         NEW r \in Results(rt), r.error = ""
  PROVE  \E c, f : EntryCopied(f, c, r, rt, k)
<1>1. PICK c \in Nat : c = copies(rt.tasks[k])
  <2>1. PICK n \in Nat : n = Len(rt.tasks)
    BY DEF IsDocument, IsList
  <2>2. /\ DOMAIN rt.tasks = 1..n
        /\ \A l \in 1..n : ValidEntry(rt.tasks[l]) => copies(rt.tasks[l]) \in Nat \ {0}
    BY <2>1, DocumentCopies
  <2> QED BY <2>2
<1>2. PICK q : q = [i \in 1..c |-> Copy(rt, k, i)]
  OBVIOUS
<1>3. DOMAIN q = 1..c /\ \A i \in 1..c : q[i] = Copy(rt, k, i)
  BY <1>2
<1>4. parse_task(r, rt.tasks[k], defaults(rt.defaults)) = FoldLeft(add_copy, r, q)
  BY <1>1, <1>2, Zenon DEF parse_task, Copy
<1>5. \A x \in Results(rt), i \in 1..c : add_copy(x, q[i]) \in Results(rt)
  <2>1. ASSUME NEW x \in Results(rt), NEW i \in 1..c PROVE add_copy(x, q[i]) \in Results(rt)
    <3>3. q[i] \in TasksOf(rt)
      BY <1>3, CopiesType
    <3> QED BY <3>3, AddCopyType
  <2> QED BY <2>1
<1>6. PICK f : CopiesAdded(f, Results(rt), c, r, q)
  BY <1>3, <1>5, AddCopyFold
<1>7. EntryCopied(f, c, r, rt, k)
  BY <1>1, <1>3, <1>4, <1>6 DEF CopiesAdded, EntryCopied
<1> QED BY <1>7

(* An entry adds its copies, or the file is not acceptable. *)
LEMMA ParseTaskStep ==
  ASSUME NEW rt, IsDocument(rt), ValidHeader(rt), NEW k \in DOMAIN rt.tasks, NEW r,
         ReadTo(rt, k, 0, r)
  PROVE  ReadTo(rt, k + 1, 0, parse_task(r, rt.tasks[k], defaults(rt.defaults)))
<1>1. CASE r.error # ""
  BY <1>1 DEF parse_task, ReadTo
<1>2. CASE r.error = "" /\ ~ValidEntry(rt.tasks[k])
  <2>1. ~Acceptable(rt)
    BY <1>2 DEF Acceptable
  <2>2. parse_task(r, rt.tasks[k], defaults(rt.defaults)) = fail("entry")
    BY <1>2 DEF parse_task
  <2> QED BY <2>1, <2>2, Refused DEF Messages
<1>3. CASE r.error = "" /\ ValidEntry(rt.tasks[k])
  <2>2. r \in Results(rt)
    BY DEF ReadTo
  <2>3. PICK c, f : EntryCopied(f, c, r, rt, k)
    BY <1>3, <2>2, ParseTaskCopies
  <2>8. /\ c \in Nat /\ f \in [0..c -> Results(rt)] /\ c = copies(rt.tasks[k]) /\ f[0] = r
        /\ f[c] = parse_task(r, rt.tasks[k], defaults(rt.defaults))
        /\ \A i \in 1..c : f[i] = add_copy(f[i - 1], Copy(rt, k, i))
    BY <2>3 DEF EntryCopied
  <2> DEFINE P == {j \in Nat : j <= c => ReadTo(rt, k, j, f[j])}
  <2>9. 0 \in P
    BY <2>8
  <2>10. ASSUME NEW j \in Nat, j \in P PROVE j + 1 \in P
    <3>1. CASE j + 1 <= c
      <4>1. j <= c /\ j + 1 \in 1..c /\ (j + 1) - 1 = j
        BY <2>8, <3>1
      <4>2. ReadTo(rt, k, j, f[j])
        BY <2>10, <4>1
      <4>3. f[j + 1] = add_copy(f[j], Copy(rt, k, j + 1))
        BY <2>8, <4>1
      <4>4. ReadTo(rt, k, j + 1, f[j + 1])
        BY <1>3, <2>8, <3>1, <4>2, <4>3, AddCopyStep
      <4> QED BY <4>4
    <3> QED BY <3>1
  <2>11. ReadTo(rt, k, c, f[c])
    <3> HIDE DEF P
    <3>1. c \in P /\ c <= c
      BY <2>8, <2>9, <2>10, NatSetInduction
    <3> QED BY <3>1 DEF P
  <2> QED BY <1>3, <2>8, <2>11, NextEntry
<1> QED BY <1>1, <1>2, <1>3

(* What parse_jobs returns for a file with a valid header. *)
LEMMA ParseJobsReads ==
  ASSUME NEW rt, IsDocument(rt), ValidHeader(rt), NEW n \in Nat, n = Len(rt.tasks)
  PROVE  ReadTo(rt, n + 1, 0, parse_jobs(rt))
<1>1. /\ IsList(rt.tasks) /\ DOMAIN rt.tasks = 1..n
      /\ \A l \in 1..n : copies(rt.tasks[l]) \in Int
  BY DocumentCopies
<1>3. ReadTo(rt, 1, 0, NothingRead)
  <2>1. NothingRead \in Results(rt)
    BY EmptyList DEF NothingRead, Messages, Results
  <2>2. NothingRead.tasks = <<>> /\ NothingRead.error = ""
    BY DEF NothingRead
  <2>3. Place(rt, 1, 0) = 0
    BY <1>1, TotalSteps DEF Place
  <2>4. Len(<<>>) = 0 /\ DOMAIN <<>> = {} /\ 0 <= kMaxTasks
    BY JobFileAssumption
  <2>5. \A l, i : ~Copied(rt, l, i, 1, 0)
    BY <1>1 DEF Copied
  <2>6. ListTo(rt, 1, 0, <<>>)
    BY <2>3, <2>4, <2>5 DEF ListTo
  <2>7. \A l \in DOMAIN rt.tasks : ~(l < 1)
    BY <1>1
  <2> QED BY <2>1, <2>2, <2>6, <2>7 DEF ReadTo
<1>4. ASSUME NEW x \in Results(rt), NEW i \in 1..n
      PROVE  parse_task(x, rt.tasks[i], defaults(rt.defaults)) \in Results(rt)
  <2>1. CASE x.error # ""
    BY <2>1 DEF parse_task
  <2>2. CASE x.error = "" /\ ~ValidEntry(rt.tasks[i])
    <3>1. fail("entry") \in Results(rt)
      BY EmptyList DEF fail, Messages, Results
    <3> QED BY <2>2, <3>1 DEF parse_task
  <2>3. CASE x.error = "" /\ ValidEntry(rt.tasks[i])
    <3>1. PICK c, f : EntryCopied(f, c, x, rt, i)
      BY <1>1, <2>3, ParseTaskCopies
    <3>2. c \in 0..c
      BY <3>1 DEF EntryCopied
    <3> QED BY <3>1, <3>2 DEF EntryCopied
  <2> QED BY <2>1, <2>2, <2>3
<1>5. PICK f : EntriesRead(f, Results(rt), n, rt)
  <2>1. NothingRead \in Results(rt)
    BY <1>3 DEF ReadTo
  <2> QED BY <1>1, <1>4, <2>1, ParseTaskFold
<1> DEFINE P == {k \in Nat : k <= n => ReadTo(rt, k + 1, 0, f[k])}
<1>6. 0 \in P
  BY <1>3, <1>5 DEF EntriesRead
<1>7. ASSUME NEW k \in Nat, k \in P PROVE k + 1 \in P
  <2>1. CASE k + 1 <= n
    <3>1. k <= n /\ k + 1 \in 1..n /\ k + 1 \in DOMAIN rt.tasks /\ (k + 1) - 1 = k
      BY <1>1, <2>1
    <3>2. ReadTo(rt, k + 1, 0, f[k])
      BY <1>7, <3>1
    <3>3. f[k + 1] = parse_task(f[k], rt.tasks[k + 1], defaults(rt.defaults))
      BY <1>5, <3>1 DEF EntriesRead
    <3>4. ReadTo(rt, (k + 1) + 1, 0, f[k + 1])
      BY <3>1, <3>2, <3>3, ParseTaskStep
    <3> QED BY <3>4
  <2> QED BY <2>1
<1>8. ReadTo(rt, n + 1, 0, f[n])
  <2> HIDE DEF P
  <2>1. n \in P /\ n <= n
    BY <1>6, <1>7, NatSetInduction
  <2> QED BY <2>1 DEF P
<1> QED BY <1>5, <1>8 DEF EntriesRead

-----------------------------------------------------------------------------
(* What the parser returns.                                                *)

(* The list of an accepted file. *)
ListOf(rt, ts) ==
  /\ ValidHeader(rt) /\ \A l \in DOMAIN rt.tasks : ValidEntry(rt.tasks[l])
  /\ Len(ts) \in 1..kMaxTasks /\ DOMAIN ts = 1..Len(ts) /\ Len(ts) = Total(rt.tasks)
  /\ \A p, q \in DOMAIN ts : ts[p].name = ts[q].name => p = q
  /\ \A l \in DOMAIN rt.tasks : \A i \in 1..copies(rt.tasks[l]) :
       Place(rt, l, i) \in DOMAIN ts /\ ts[Place(rt, l, i)] = Copy(rt, l, i)
  /\ \A p \in DOMAIN ts : \E l \in DOMAIN rt.tasks : \E i \in 1..copies(rt.tasks[l]) : ts[p] = Copy(rt, l, i)

(* What parse_jobs returns, for every file. *)
LEMMA ParseJobsResult ==
  ASSUME NEW rt, IsDocument(rt)
  PROVE  /\ parse_jobs(rt).error # "" => parse_jobs(rt).tasks = <<>> /\ ~Acceptable(rt)
         /\ parse_jobs(rt).error = "" => ListOf(rt, parse_jobs(rt).tasks)
<1>1. PICK n \in Nat : n = Len(rt.tasks)
  BY DEF IsDocument, IsList
<1>2. /\ IsList(rt.tasks) /\ DOMAIN rt.tasks = 1..n
      /\ \A l \in 1..n : copies(rt.tasks[l]) \in Int
      /\ \A l \in 1..n : ValidEntry(rt.tasks[l]) => copies(rt.tasks[l]) \in Nat \ {0}
  BY <1>1, DocumentCopies
<1>3. PICK r : r = parse_jobs(rt)
  OBVIOUS
<1>4. CASE ~ValidHeader(rt)
  <2>1. r = fail("header")
    BY <1>3, <1>4 DEF parse_jobs
  <2>2. r.error # "" /\ r.tasks = <<>>
    BY <2>1 DEF fail
  <2> QED BY <1>3, <1>4, <2>2 DEF Acceptable
<1>5. CASE ValidHeader(rt)
  <2>1. ReadTo(rt, n + 1, 0, r)
    BY <1>1, <1>3, <1>5, ParseJobsReads
  <2>2. CASE r.error # ""
    BY <1>3, <2>1, <2>2 DEF ReadTo
  <2>3. CASE r.error = ""
    <3>1. PICK S : S = TasksOf(rt)
      OBVIOUS
    <3>2. PICK ts \in Seq(S) : ts = r.tasks
      BY <2>1, <3>1 DEF ReadTo, Results
    <3>3. ListTo(rt, n + 1, 0, ts) /\ \A l \in DOMAIN rt.tasks : l < n + 1 => ValidEntry(rt.tasks[l])
      BY <2>1, <2>3, <3>2 DEF ReadTo
    <3>4. \A l \in 1..n : ValidEntry(rt.tasks[l]) /\ copies(rt.tasks[l]) \in Nat \ {0}
      BY <1>2, <3>3
    <3>5. /\ TotalTo(rt.tasks, n) = Total(rt.tasks) /\ TotalTo(rt.tasks, 0) = 0
          /\ TotalTo(rt.tasks, n) \in Nat /\ TotalTo(rt.tasks, n) >= 1
      <4>1. TotalTo(rt.tasks, n) = Total(rt.tasks) /\ TotalTo(rt.tasks, 0) = 0
        BY <1>1, <1>2, TotalSteps
      <4>2. n > 0
        <5>1. rt.tasks # <<>>
          BY <1>5 DEF ValidHeader
        <5>2. n # 0
          BY <1>1, <1>2, <5>1 DEF IsList
        <5> QED BY <5>2
      <4>3. 0 \in 0..n /\ n \in 0..n /\ 0 < n
        BY <4>2
      <4>4. TotalTo(rt.tasks, n) \in Nat /\ TotalTo(rt.tasks, 0) < TotalTo(rt.tasks, n)
        BY <1>1, <1>2, <3>4, <4>3, TotalGrows
      <4> QED BY <4>1, <4>4
    <3>6. Place(rt, n + 1, 0) = Total(rt.tasks)
      <4>1. (n + 1) - 1 = n
        OBVIOUS
      <4> QED BY <3>5, <4>1 DEF Place
    <3>7. Len(ts) \in 1..kMaxTasks /\ DOMAIN ts = 1..Len(ts) /\ Len(ts) = Total(rt.tasks)
      <4>1. Len(ts) = Total(rt.tasks) /\ Len(ts) <= kMaxTasks /\ kMaxTasks \in Nat
        BY <3>3, <3>6, JobFileAssumption DEF ListTo
      <4>2. DOMAIN ts = 1..Len(ts)
        OBVIOUS
      <4> QED BY <3>5, <4>1, <4>2
    <3>8. \A l \in 1..n : \A i \in 1..copies(rt.tasks[l]) : Copied(rt, l, i, n + 1, 0)
      BY <1>2 DEF Copied
    <3>9. \A p \in DOMAIN ts : \E l \in DOMAIN rt.tasks : \E i \in 1..copies(rt.tasks[l]) :
            ts[p] = Copy(rt, l, i)
      BY <3>3 DEF ListTo, Copied
    <3>10. ListOf(rt, ts)
      BY <1>2, <1>5, <3>3, <3>4, <3>7, <3>8, <3>9 DEF ListOf, ListTo
    <3> QED BY <1>3, <2>3, <3>2, <3>10
  <2> QED BY <2>2, <2>3
<1> QED BY <1>4, <1>5

(* Different copies have different places, so that distinct names in the   *)
(* list are distinct names in the file.                                    *)
LEMMA AcceptedAcceptable ==
  ASSUME NEW rt, IsDocument(rt), NEW ts, ListOf(rt, ts)
  PROVE  Acceptable(rt)
<1>1. PICK n \in Nat : n = Len(rt.tasks)
  BY DEF IsDocument, IsList
<1>2. /\ IsList(rt.tasks) /\ DOMAIN rt.tasks = 1..n
      /\ \A l \in 1..n : ValidEntry(rt.tasks[l]) => copies(rt.tasks[l]) \in Nat \ {0}
  BY <1>1, DocumentCopies
<1>3. \A l \in 1..n : copies(rt.tasks[l]) \in Nat \ {0} /\ copies(rt.tasks[l]) \in Int
  BY <1>2 DEF ListOf
<1> DEFINE T(l) == TotalTo(rt.tasks, l)
<1>4. /\ \A l \in 0..n : T(l) \in Int
      /\ \A l \in 1..n : T(l) = T(l - 1) + copies(rt.tasks[l])
  BY <1>1, <1>2, <1>3, TotalSteps
<1>5. \A k, l \in 0..n : k <= l => T(k) <= T(l)
  BY <1>1, <1>2, <1>3, TotalGrows
<1> HIDE DEF T
<1>6. ASSUME NEW k \in 1..n, NEW l \in 1..n, k < l,
             NEW i \in 1..copies(rt.tasks[k]), NEW j \in 1..copies(rt.tasks[l])
      PROVE  T(k - 1) + i < T(l - 1) + j
  <2>1. k \in 0..n /\ k - 1 \in 0..n /\ l - 1 \in 0..n /\ k <= l - 1
    BY <1>6
  <2>2. T(k) <= T(l - 1) /\ T(k) \in Int /\ T(k - 1) \in Int /\ T(l - 1) \in Int
    BY <1>4, <1>5, <2>1
  <2>3. T(k) = T(k - 1) + copies(rt.tasks[k])
    BY <1>4
  <2>4. i \in Int /\ j \in Int /\ i <= copies(rt.tasks[k]) /\ 1 <= j /\ copies(rt.tasks[k]) \in Int
    BY <1>3
  <2> QED BY <2>2, <2>3, <2>4
<1>7. ASSUME NEW k \in 1..n, NEW l \in 1..n,
             NEW i \in 1..copies(rt.tasks[k]), NEW j \in 1..copies(rt.tasks[l]),
             CopyName(rt.tasks[k], i) = CopyName(rt.tasks[l], j)
      PROVE  k = l /\ i = j
  <2>1. /\ Place(rt, k, i) \in DOMAIN ts /\ ts[Place(rt, k, i)] = Copy(rt, k, i)
        /\ Place(rt, l, j) \in DOMAIN ts /\ ts[Place(rt, l, j)] = Copy(rt, l, j)
    BY <1>2 DEF ListOf
  <2>2. Copy(rt, k, i).name = Copy(rt, l, j).name
    BY <1>2, <1>3, <1>7, CopyType
  <2>3. Place(rt, k, i) = Place(rt, l, j)
    BY <2>1, <2>2 DEF ListOf
  <2>4. /\ T(k - 1) + i = T(l - 1) + j /\ T(k - 1) \in Int /\ T(l - 1) \in Int
        /\ i \in Int /\ j \in Int
    <3>1. k - 1 \in 0..n /\ l - 1 \in 0..n
      OBVIOUS
    <3> QED BY <1>3, <1>4, <2>3, <3>1 DEF Place, T
  <2>5. ~(k < l) /\ ~(l < k)
    BY <1>6, <2>4
  <2>6. k = l
    BY <2>5
  <2> QED BY <2>4, <2>6
<1>8. Total(rt.tasks) <= kMaxTasks
  BY JobFileAssumption DEF ListOf
<1> QED BY <1>2, <1>7, <1>8 DEF Acceptable, ListOf

(* An entry that was found valid makes a task no agent finds fault with,   *)
(* whether its numbers are its own or those of valid defaults.             *)
LEMMA EntryMakesTask ==
  ASSUME NEW e, NEW d, NEW name, ValidEntry(e), ValidNumbers(d)
  PROVE  LET task == [Merged(e, defaults(d)) EXCEPT !.name = name]
         IN  task.name = name /\ ArgumentsValid(task) /\ task.retries \in 0..MaxRetries
<1> DEFINE m    == Merged(e, defaults(d))
           task == [m EXCEPT !.name = name]
<1>1. /\ task.name = name /\ task.argv = e.argv
      /\ task.timeout_s = ValueOr(e.timeout_s, ValueOr(d.timeout_s, 60))
      /\ task.retries = ValueOr(e.retries, ValueOr(d.retries, 0))
  BY DEF Merged, defaults
<1> HIDE DEF task
<1>2. MaxRetries \in Nat /\ MaxTimeout \in Nat /\ 60 <= MaxTimeout /\ MaxTimeout <= 24 * 3600
  BY JobFileAssumption
<1>a. /\ Given(e.retries) => e.retries[1] \in 0..MaxRetries
      /\ Given(d.retries) => d.retries[1] \in 0..MaxRetries
      /\ Given(e.timeout_s) => e.timeout_s[1] \in 1..MaxTimeout
      /\ Given(d.timeout_s) => d.timeout_s[1] \in 1..MaxTimeout
  BY DEF ValidEntry, ValidNumbers, is_int_in
<1>3. task.retries \in 0..MaxRetries
  BY <1>1, <1>2, <1>a DEF ValueOr
<1>4. task.timeout_s \in 1..MaxTimeout
  BY <1>1, <1>2, <1>a DEF ValueOr
<1>5. ArgumentsValid(task)
  <2>1. task.timeout_s * 1000 > 0 /\ task.timeout_s * 1000 <= 24 * 3600 * 1000
    BY <1>2, <1>4, SMT
  <2>2. task.argv # "empty"
    BY <1>1 DEF ValidEntry
  <2> QED BY <2>1, <2>2 DEF ArgumentsValid, timeout_ms
<1> QED BY <1>1, <1>3, <1>5 DEF task

(* The list of an accepted file is one the scheduler and the agents can    *)
(* work with.                                                              *)
LEMMA ListUsable ==
  ASSUME NEW rt, NEW ts, ListOf(rt, ts)
  PROVE  /\ \A i, j \in DOMAIN ts : ts[i].name = ts[j].name => i = j
         /\ Len(ts) \in 1..kMaxTasks /\ DOMAIN ts = 1..Len(ts)
         /\ \A i \in DOMAIN ts : ArgumentsValid(ts[i]) /\ ts[i].retries \in 0..MaxRetries
<1>1. ASSUME NEW p \in DOMAIN ts
      PROVE  ArgumentsValid(ts[p]) /\ ts[p].retries \in 0..MaxRetries
  <2>1. PICK l \in DOMAIN rt.tasks : \E i \in 1..copies(rt.tasks[l]) : ts[p] = Copy(rt, l, i)
    BY DEF ListOf
  <2>2. PICK i \in 1..copies(rt.tasks[l]) : ts[p] = Copy(rt, l, i)
    BY <2>1
  <2>3. ValidEntry(rt.tasks[l]) /\ ValidNumbers(rt.defaults)
    BY DEF ListOf, ValidHeader
  <2>4. ArgumentsValid(Copy(rt, l, i)) /\ Copy(rt, l, i).retries \in 0..MaxRetries
    BY <2>3, EntryMakesTask DEF Copy
  <2> QED BY <2>2, <2>4
<1> QED BY <1>1 DEF ListOf

(* The job that is run. *)
LEMMA JobUsable ==
  /\ IsFiniteSet(tasks) /\ tasks # {}
  /\ \A t \in tasks : retries[t] \in Nat
<1>1. ListOf(JobRoot, JobTasks)
  BY ControllerAssumption, JobAssumption, ParseJobsResult DEF JobTasks
<1>2. PICK ts : ts = JobTasks
  OBVIOUS
<1>3. /\ Len(ts) \in 1..kMaxTasks /\ DOMAIN ts = 1..Len(ts)
      /\ \A t \in DOMAIN ts : ts[t].retries \in 0..MaxRetries
  BY <1>1, <1>2, ListUsable
<1>4. kMaxTasks \in Nat /\ MaxRetries \in Nat
  BY JobFileAssumption
<1>5. PICK n \in Nat : n >= 1 /\ DOMAIN ts = 1..n
  <2>1. PICK n : n = Len(ts)
    OBVIOUS
  <2>2. n \in 1..kMaxTasks /\ DOMAIN ts = 1..n
    BY <1>3, <2>1
  <2>3. n \in Nat /\ n >= 1
    BY <1>4, <2>2
  <2> QED BY <2>2, <2>3
<1>6. IsFiniteSet(1..n) /\ 1 \in 1..n
  BY <1>5, FS_Interval
<1> QED BY <1>2, <1>3, <1>4, <1>5, <1>6 DEF tasks, retries

(* What ParsedAsMeant says of a task t that entry e makes under defaults d. *)
MeantBy(t, e, d) ==
  /\ SubSeq(t.name, 1, Len(e.name)) = e.name
  /\ Len(t.name) = Len(e.name) + (IF copies(e) > 1 THEN 1 ELSE 0)
  /\ t.timeout_s = ValueOr(e.timeout_s, ValueOr(d.timeout_s, 60))
  /\ t.retries = ValueOr(e.retries, ValueOr(d.retries, 0))
  /\ t.needs = ValueOr(e.requires, ValueOr(d.requires, {}))
  /\ ValueOr(e.env, {}) \subseteq t.env
  /\ \A p \in ValueOr(d.env, {}) : \E q \in t.env : q[1] = p[1]
  /\ \A p, q \in t.env : p[1] = q[1] => p = q

(* A copy is what it is meant to be. *)
LEMMA CopyMeant ==
  ASSUME NEW rt, IsDocument(rt), ValidHeader(rt), NEW k \in DOMAIN rt.tasks,
         ValidEntry(rt.tasks[k]), NEW i
  PROVE  MeantBy(Copy(rt, k, i), rt.tasks[k], rt.defaults)
<1>1. PICK e : e = rt.tasks[k]
  OBVIOUS
<1>2. PICK d : d = rt.defaults
  OBVIOUS
<1>3. PICK t : t = Copy(rt, k, i)
  OBVIOUS
<1>4. /\ t.name = CopyName(e, i)
      /\ t.timeout_s = ValueOr(e.timeout_s, ValueOr(d.timeout_s, 60))
      /\ t.retries = ValueOr(e.retries, ValueOr(d.retries, 0))
      /\ t.needs = ValueOr(e.requires, ValueOr(d.requires, {}))
      /\ t.env = Over(ValueOr(e.env, {}), ValueOr(d.env, {}))
  BY <1>1, <1>2, <1>3 DEF Copy, Merged, defaults
<1>5. SubSeq(t.name, 1, Len(e.name)) = e.name /\ Len(t.name) = Len(e.name) + (IF copies(e) > 1 THEN 1 ELSE 0)
  <2>1. PICK s : s = e.name
    OBVIOUS
  <2>2. IsList(s)
    BY <1>1, <2>1 DEF IsDocument
  <2>3. s \in Seq(Range(s)) /\ Len(s) \in Nat /\ SubSeq(s, 1, Len(s)) = s
    BY <2>2, ListFacts
  <2>4. SubSeq(Append(s, i), 1, Len(s)) = s /\ Len(Append(s, i)) = Len(s) + 1
    <3>1. PICK S : S = Range(s) \cup {i}
      OBVIOUS
    <3>2. s \in Seq(S) /\ i \in S
      BY <2>3, <3>1
    <3> QED BY <2>3, <3>2
  <2>5. CASE copies(e) > 1
    <3>1. t.name = Append(s, i)
      BY <1>4, <2>1, <2>5 DEF CopyName
    <3> QED BY <2>1, <2>4, <2>5, <3>1
  <2>6. CASE ~(copies(e) > 1)
    <3>1. t.name = s
      BY <1>4, <2>1, <2>6 DEF CopyName
    <3> QED BY <2>1, <2>3, <2>6, <3>1
  <2> QED BY <2>5, <2>6
<1>6. PICK own : own = ValueOr(e.env, {})
  OBVIOUS
<1>7. PICK base : base = ValueOr(d.env, {})
  OBVIOUS
<1>8. KeysDistinct(own) /\ KeysDistinct(base)
  <2>1. IsObject(e.env) /\ WellFormed(e.env) /\ IsObject(d.env) /\ WellFormed(d.env)
    BY <1>1, <1>2 DEF IsDocument, ValidHeader, ValidEntry
  <2> QED BY <1>6, <1>7, <2>1 DEF IsObject, ValueOr, KeysDistinct
<1>9. t.env = own \cup {p \in base : \A q \in own : q[1] # p[1]}
  BY <1>4, <1>6, <1>7 DEF Over
<1>10. own \subseteq t.env /\ \A p \in base : \E q \in t.env : q[1] = p[1]
  BY <1>9
<1>11. \A p, q \in t.env : p[1] = q[1] => p = q
  BY <1>8, <1>9 DEF KeysDistinct
<1>12. MeantBy(t, e, d)
  BY <1>4, <1>5, <1>6, <1>7, <1>10, <1>11, Zenon DEF MeantBy
<1> QED BY <1>1, <1>2, <1>3, <1>12

(* What parse_jobs returns is as meant and usable. *)
LEMMA ParsedRight ==
  ASSUME root \in Roots, parsed = parse_jobs(root)
  PROVE  ParsedAsMeant /\ TasksUsable
<1>1. IsDocument(root)
  BY ControllerAssumption
<1>2. /\ parsed.error # "" => parsed.tasks = <<>> /\ ~Acceptable(root)
      /\ parsed.error = "" => ListOf(root, parsed.tasks)
  BY <1>1, ParseJobsResult
<1>3. parsed.error = "" => Acceptable(root)
  BY <1>1, <1>2, AcceptedAcceptable
<1>4. TasksUsable
  BY <1>2, ListUsable DEF TasksUsable
<1>5. ASSUME parsed.error = ""
      PROVE  /\ Len(parsed.tasks) = Total(root.tasks)
             /\ \A k \in DOMAIN root.tasks : \A i \in 1..copies(root.tasks[k]) :
                  MeantBy(parsed.tasks[Total(SubSeq(root.tasks, 1, k - 1)) + i],
                          root.tasks[k], root.defaults)
  <2>1. ListOf(root, parsed.tasks)
    BY <1>2, <1>5
  <2>2. Len(parsed.tasks) = Total(root.tasks) /\ ValidHeader(root)
    BY <2>1 DEF ListOf
  <2>3. ASSUME NEW k \in DOMAIN root.tasks, NEW i \in 1..copies(root.tasks[k])
        PROVE  /\ parsed.tasks[Total(SubSeq(root.tasks, 1, k - 1)) + i] = Copy(root, k, i)
               /\ ValidEntry(root.tasks[k])
    BY <2>1 DEF ListOf, Place, TotalTo
  <2> QED BY <1>1, <2>2, <2>3, CopyMeant
<1> QED BY <1>2, <1>3, <1>4, <1>5, Zenon DEF ParsedAsMeant, MeantBy

-----------------------------------------------------------------------------
(* The inductive invariant.                                                *)

Outcomes  == {"Passed", "Failed", "TimedOut", "AgentError"}
Finals    == {"Passed", "Failed", "TimedOut", "Unschedulable"}
CmdStates == {"sent", "running", "ok", "bad", "timed out", "none"}
Attempt   == [agent : Agents, status : Outcomes]
Before    == {"options", "jobs", "connect"}

TypeInv ==
  /\ opts \in Options /\ pc \in Before \cup {"run", "report", "exited"}
  /\ live \subseteq Agents /\ up \subseteq Agents /\ inflight \subseteq tasks \X live
  /\ history \in [tasks -> Seq(Attempt)]
  /\ verdict \in [tasks -> Finals \cup {"Pending"}]
  /\ cmd \in [tasks -> Seq(CmdStates)]

(* Nothing happens before the run, and calls are made only during it. *)
PlaceInv ==
  /\ pc \in Before => /\ live = {} /\ \A t \in tasks : verdict[t] = "Pending" /\ ~Attempted(t)
                      /\ text = NoReport /\ written = NoReport
  /\ inflight # {} => pc = "run"
  /\ pc \in {"run", "report"} => text = NoReport /\ written = NoReport
  /\ pc = "report" => \A t \in tasks : verdict[t] \in Finals

(* What a command whose attempt has this outcome on record did. *)
Fits(s, c) ==
  /\ s = "Passed" => c = "ok"
  /\ s = "TimedOut" => c = "timed out"
  /\ s = "Failed" => c \in {"bad", "none"}

(* One call per task at a time, and one command per call. *)
CallInv(t) ==
  /\ \A a, b \in live : <<t, a>> \in inflight /\ <<t, b>> \in inflight => a = b
  /\ ~Idle(inflight, t) => verdict[t] = "Pending" /\ Len(cmd[t]) = Len(history[t]) + 1
  /\ Idle(inflight, t) => Len(cmd[t]) = Len(history[t])
  /\ \A i \in DOMAIN history[t] : Fits(history[t][i].status, cmd[t][i])

Errors(h) == Cardinality({i \in DOMAIN h : h[i].status = "AgentError"})

NoPass(h) == \A i \in DOMAIN h : h[i].status # "Passed"

(* The verdict and the attempts it rests on. *)
VerdictInv(t) ==
  LET h == history[t] IN
  /\ verdict[t] \in {"Pending", "Unschedulable"} =>
       NoPass(h) /\ Spent(h) <= retries[t] /\ Len(h) = Spent(h) + Errors(h)
  /\ verdict[t] = "Passed" =>
       /\ h # <<>> /\ h[Len(h)].status = "Passed"
       /\ Spent(h) <= retries[t] /\ Len(h) = Spent(h) + Errors(h) + 1
  /\ verdict[t] \in TestFailure =>
       /\ h # <<>> /\ h[Len(h)].status = verdict[t]
       /\ Spent(h) = retries[t] + 1 /\ Len(h) = Spent(h) + Errors(h)
  /\ verdict[t] = "Unschedulable" => \A a \in up : ~able(a, t)

(* The agents that broke down are those with an infrastructure error on    *)
(* record.                                                                 *)
Broken == {a \in Agents : \E t \in tasks : \E i \in DOMAIN history[t] :
             history[t][i] = [agent |-> a, status |-> "AgentError"]}

RetiredInv == pc \in {"run", "report"} \/ text # NoReport => live \ up = Broken /\ up \subseteq live

(* A report, once there is one, is about the end of the run. *)
Reported == pc = "exited" /\ text = render_text /\ \A t \in tasks : verdict[t] \in Finals

ReportInv ==
  /\ text # NoReport \/ written # NoReport => Reported
  /\ written \notin {NoReport, Truncated} => written = render_junit

ControllerInv ==
  /\ TypeInv /\ PlaceInv /\ RetiredInv /\ ReportInv /\ ExitHonest
  /\ \A t \in tasks : CallInv(t) /\ VerdictInv(t)

-----------------------------------------------------------------------------
(* Facts about the lists of attempts.                                      *)

(* A task is idle if no call for it is under way. *)
LEMMA IdleMeans ==
  ASSUME NEW F, NEW L, F \subseteq tasks \X L, NEW t
  PROVE  Idle(F, t) <=> \A a \in L : <<t, a>> \notin F
BY DEF Idle

(* The elements of a longer sequence. *)
LEMMA Appended ==
  ASSUME NEW S, NEW q \in Seq(S), NEW e \in S
  PROVE  /\ Append(q, e) \in Seq(S) /\ Len(Append(q, e)) = Len(q) + 1 /\ Len(q) \in Nat
         /\ DOMAIN q = 1..Len(q) /\ DOMAIN Append(q, e) = 1..(Len(q) + 1)
         /\ \A i \in 1..Len(q) : Append(q, e)[i] = q[i]
         /\ Append(q, e)[Len(q) + 1] = e
OBVIOUS

(* The attempts of a list with an outcome in S. *)
With(q, S) == {i \in DOMAIN q : q[i].status \in S}

(* A new attempt is one more of those with its outcome. *)
LEMMA CountAppend ==
  ASSUME NEW h \in Seq(Attempt), NEW e \in Attempt, NEW S
  PROVE  /\ IsFiniteSet(With(h, S)) /\ Cardinality(With(h, S)) \in Nat
         /\ e.status \in S => Cardinality(With(Append(h, e), S)) = Cardinality(With(h, S)) + 1
         /\ e.status \notin S => With(Append(h, e), S) = With(h, S)
<1> DEFINE n == Len(h)
<1>1. PICK r : r = Append(h, e)
  OBVIOUS
<1>2. /\ n \in Nat /\ DOMAIN h = 1..n /\ DOMAIN r = 1..(n + 1)
      /\ \A i \in 1..n : r[i] = h[i]
      /\ r[n + 1] = e
  BY <1>1
<1>3. IsFiniteSet(1..n) /\ n + 1 \notin 1..n
  BY <1>2, FS_Interval
<1>4. With(h, S) \subseteq 1..n
  BY <1>2 DEF With
<1>5. IsFiniteSet(With(h, S)) /\ n + 1 \notin With(h, S)
  BY <1>3, <1>4, FS_Subset
<1>6. e.status \in S => With(r, S) = With(h, S) \cup {n + 1}
  BY <1>2 DEF With
<1>7. e.status \notin S => With(r, S) = With(h, S)
  BY <1>2 DEF With
<1>8. Cardinality(With(h, S) \cup {n + 1}) = Cardinality(With(h, S)) + 1
  BY <1>5, FS_AddElement
<1> QED BY <1>1, <1>5, <1>6, <1>7, <1>8, FS_CardinalityType

(* Test failures and infrastructure errors on a longer list. *)
LEMMA CountsAppend ==
  ASSUME NEW h \in Seq(Attempt), NEW e \in Attempt
  PROVE  /\ Spent(h) \in Nat /\ Errors(h) \in Nat
         /\ Spent(Append(h, e)) = Spent(h) + (IF e.status \in TestFailure THEN 1 ELSE 0)
         /\ Errors(Append(h, e)) = Errors(h) + (IF e.status = "AgentError" THEN 1 ELSE 0)
<1>1. \A q : Spent(q) = Cardinality(With(q, TestFailure))
  BY DEF Spent, With, TestFailure
<1>2. \A q : Errors(q) = Cardinality(With(q, {"AgentError"}))
  <2>1. \A q : {i \in DOMAIN q : q[i].status = "AgentError"} = With(q, {"AgentError"})
    BY DEF With
  <2> QED BY <2>1 DEF Errors
<1>3. /\ Spent(h) \in Nat
      /\ Spent(Append(h, e)) = Spent(h) + (IF e.status \in TestFailure THEN 1 ELSE 0)
  BY <1>1, CountAppend
<1>4. /\ Errors(h) \in Nat
      /\ Errors(Append(h, e)) = Errors(h) + (IF e.status = "AgentError" THEN 1 ELSE 0)
  BY <1>2, CountAppend
<1> QED BY <1>3, <1>4

(* There are none exactly where there are none on the list. *)
LEMMA Counts ==
  ASSUME NEW h \in Seq(Attempt)
  PROVE  /\ Spent(h) \in Nat /\ Errors(h) \in Nat
         /\ Spent(h) = 0 <=> \A i \in DOMAIN h : h[i].status \notin TestFailure
<1> DEFINE F == {i \in DOMAIN h : h[i].status \in {"Failed", "TimedOut"}}
           E == {i \in DOMAIN h : h[i].status = "AgentError"}
<1>1. IsFiniteSet(DOMAIN h)
  BY FS_Interval
<1>2. F \in SUBSET (DOMAIN h) /\ E \in SUBSET (DOMAIN h)
  OBVIOUS
<1>3. F = {} <=> \A i \in DOMAIN h : h[i].status \notin TestFailure
  BY DEF TestFailure
<1>4. Spent(h) = Cardinality(F) /\ Errors(h) = Cardinality(E)
  BY DEF Spent, Errors
<1> HIDE DEF F, E
<1>5. IsFiniteSet(F) /\ IsFiniteSet(E)
  BY <1>1, <1>2, FS_Subset
<1>6. Cardinality(F) \in Nat /\ Cardinality(E) \in Nat
  BY <1>5, FS_CardinalityType
<1>7. Cardinality(F) = 0 <=> F = {}
  BY <1>5, FS_EmptySet
<1> QED BY <1>3, <1>4, <1>6, <1>7

(* An empty list has neither. *)
LEMMA NoCounts ==
  Spent(<<>>) = 0 /\ Errors(<<>>) = 0 /\ NoPass(<<>>)
<1>1. /\ {i \in DOMAIN <<>> : <<>>[i].status \in {"Failed", "TimedOut"}} = {}
      /\ {i \in DOMAIN <<>> : <<>>[i].status = "AgentError"} = {}
  OBVIOUS
<1> QED BY <1>1, FS_EmptySet DEF Spent, Errors, NoPass

-----------------------------------------------------------------------------
(* The command line, the job file and the connections.                     *)

(* The initial states. *)
LEMMA InitInv == Init => ControllerInv
<1> SUFFICES ASSUME Init PROVE ControllerInv
  OBVIOUS
<1> USE DEF Init, JobInit
<1>0. <<>> \in Seq(Attempt) /\ <<>> \in Seq(CmdStates) /\ Len(<<>>) = 0 /\ DOMAIN <<>> = {}
  OBVIOUS
<1>1. TypeInv
  BY <1>0 DEF TypeInv, Before, Finals
<1>2. PlaceInv
  BY DEF PlaceInv, Before, Attempted
<1>3. RetiredInv /\ ReportInv /\ ExitHonest
  BY DEF RetiredInv, ReportInv, ExitHonest
<1>4. ASSUME NEW t \in tasks PROVE CallInv(t) /\ VerdictInv(t)
  <2>1. history[t] = <<>> /\ cmd[t] = <<>> /\ verdict[t] = "Pending" /\ inflight = {}
    OBVIOUS
  <2>2. CallInv(t)
    BY <1>0, <2>1 DEF CallInv, Idle
  <2>3. VerdictInv(t)
    BY <1>0, <2>1, NoCounts, JobUsable DEF VerdictInv, TestFailure
  <2> QED BY <2>2, <2>3
<1> QED BY <1>1, <1>2, <1>3, <1>4 DEF ControllerInv

(* What depends on the run alone is kept by a step that leaves it alone. *)
LEMMA SameRun ==
  ASSUME UNCHANGED <<inflight, history, verdict, up, cmd, live>>,
         \A t \in tasks : CallInv(t) /\ VerdictInv(t)
  PROVE  \A t \in tasks : CallInv(t)' /\ VerdictInv(t)'
BY DEF CallInv, VerdictInv

(* A step before the run. *)
LEMMA EarlyStep ==
  ASSUME ControllerInv, pc \in Before, pc' \in Before \cup {"exited"},
         UNCHANGED <<opts, live, text, written, runVars, cmd>>, ExitHonest'
  PROVE  ControllerInv'
<1> USE DEF ControllerInv, runVars
<1>1. TypeInv'
  BY DEF TypeInv
<1>2. PlaceInv'
  BY DEF PlaceInv, Before, Attempted
<1>3. RetiredInv' /\ ReportInv'
  BY DEF PlaceInv, RetiredInv, ReportInv, Before
<1>4. \A t \in tasks : CallInv(t)' /\ VerdictInv(t)'
  BY SameRun
<1> QED BY <1>1, <1>2, <1>3, <1>4

(* parse_options. *)
LEMMA OptionsStep == ControllerInv /\ parse_options => ControllerInv'
<1> SUFFICES ASSUME ControllerInv, parse_options PROVE ControllerInv'
  OBVIOUS
<1>1. /\ pc = "options" /\ pc' \in {"jobs", "exited"} /\ opts' = opts
      /\ pc' = "exited" => exit' = 2 \/ (exit' = 0 /\ opts.kind = "help")
      /\ UNCHANGED <<opts, live, text, written, runVars, cmd>>
  BY DEF parse_options, Exit
<1>2. ExitHonest'
  BY <1>1 DEF ExitHonest
<1> QED BY <1>1, <1>2, EarlyStep DEF Before

(* read_jobs. *)
LEMMA JobsStep == ControllerInv /\ read_jobs => ControllerInv'
<1> SUFFICES ASSUME ControllerInv, read_jobs PROVE ControllerInv'
  OBVIOUS
<1>1. /\ pc = "jobs" /\ pc' \in {"connect", "exited"} /\ opts' = opts
      /\ pc' = "exited" => exit' = 2 \/ (exit' = 0 /\ opts.kind = "validate")
      /\ UNCHANGED <<opts, live, text, written, runVars, cmd>>
  BY DEF read_jobs, Exit
<1>2. ExitHonest'
  BY <1>1 DEF ExitHonest
<1> QED BY <1>1, <1>2, EarlyStep DEF Before

(* connect: the thread of one agent. *)
LEMMA ConnectStep == ASSUME ControllerInv, NEW a \in Agents, connect(a) PROVE ControllerInv'
<1>1. pc = "connect" /\ pc' = pc /\ UNCHANGED <<opts, live, text, written, runVars, cmd>>
  BY DEF connect
<1>2. ExitHonest'
  BY <1>1 DEF ExitHonest
<1> QED BY <1>1, <1>2, EarlyStep DEF Before

(* join_connects. *)
LEMMA JoinStep == ControllerInv /\ join_connects => ControllerInv'
<1> SUFFICES ASSUME ControllerInv, join_connects PROVE ControllerInv'
  OBVIOUS
<1> USE DEF ControllerInv
<1>1. /\ pc = "connect" /\ live' \subseteq Agents /\ up' = live'
      /\ pc' = "run" \/ (pc' = "exited" /\ exit' = 1)
      /\ UNCHANGED <<opts, text, written, inflight, history, verdict, cmd>>
  BY DEF join_connects, Exit
<1>2. /\ inflight = {} /\ text = NoReport /\ written = NoReport
      /\ \A t \in tasks : verdict[t] = "Pending" /\ history[t] = <<>>
  BY <1>1 DEF TypeInv, PlaceInv, Before, Attempted
<1>3. TypeInv'
  BY <1>1, <1>2 DEF TypeInv
<1>4. PlaceInv'
  BY <1>1, <1>2 DEF PlaceInv, Before
<1>5. RetiredInv'
  BY <1>1, <1>2 DEF RetiredInv, Broken
<1>6. ReportInv'
  BY <1>1, <1>2 DEF ReportInv
<1>7. ExitHonest'
  <2>1. PICK t \in tasks : TRUE
    BY JobUsable
  <2> QED BY <1>1, <1>2, <2>1 DEF ExitHonest, Attempted
<1>8. ASSUME NEW t \in tasks PROVE CallInv(t)' /\ VerdictInv(t)'
  BY <1>1, <1>2 DEF CallInv, VerdictInv, Idle
<1> QED BY <1>3, <1>4, <1>5, <1>6, <1>7, <1>8

-----------------------------------------------------------------------------
(* The run.                                                                *)

(* A step of the run keeps the parts that speak of what comes after it. *)
LEMMA DuringRun ==
  ASSUME ControllerInv, pc = "run", UNCHANGED ctlVars
  PROVE  PlaceInv' /\ ReportInv' /\ ExitHonest'
BY DEF ControllerInv, ctlVars, PlaceInv, Before, ReportInv, ExitHonest

(* dispatch. *)
LEMMA DispatchStep ==
  ASSUME ControllerInv, NEW t \in tasks, NEW a \in live, dispatch(t, a)
  PROVE  ControllerInv'
<1> USE DEF ControllerInv
<1>1. /\ pc = "run" /\ verdict[t] = "Pending" /\ Idle(inflight, t)
      /\ inflight' = inflight \cup {<<t, a>>} /\ UNCHANGED <<history, verdict, up>>
      /\ cmd' = [cmd EXCEPT ![t] = Append(@, "sent")] /\ UNCHANGED ctlVars
  BY DEF dispatch, Dispatch
<1>2. UNCHANGED <<opts, pc, live, text, written, exit>>
  BY <1>1 DEF ctlVars
<1>3. \A u \in tasks : history[u] \in Seq(Attempt) /\ cmd[u] \in Seq(CmdStates)
  BY DEF TypeInv
<1>4. PICK c : c = Append(cmd[t], "sent")
  OBVIOUS
<1>a. "sent" \in CmdStates
  BY DEF CmdStates
<1>5. /\ c \in Seq(CmdStates) /\ Len(c) = Len(cmd[t]) + 1
      /\ \A i \in DOMAIN cmd[t] : c[i] = cmd[t][i]
  BY <1>a, <1>3, <1>4, Appended
<1>6. cmd'[t] = c /\ \A u \in tasks : u # t => cmd'[u] = cmd[u]
  BY <1>1, <1>4 DEF TypeInv
<1>7. TypeInv'
  <2>1. cmd' \in [tasks -> Seq(CmdStates)]
    BY <1>1, <1>4, <1>5 DEF TypeInv
  <2> QED BY <1>1, <1>2, <2>1 DEF TypeInv
<1>8. RetiredInv'
  BY <1>1, <1>2 DEF RetiredInv, Broken
<1>9. ASSUME NEW u \in tasks PROVE CallInv(u)' /\ VerdictInv(u)'
  <2>1. VerdictInv(u)'
    BY <1>1, <1>2 DEF VerdictInv
  <2>2. CASE u = t
    <3>1. ~Idle(inflight, t)'
      <4>1. <<t, a>> \in inflight' /\ <<t, a>>[1] = t
        BY <1>1
      <4> QED BY <4>1 DEF Idle
    <3>2. \A b \in live : <<t, b>> \in inflight' => b = a
      BY <1>1, IdleMeans DEF TypeInv
    <3>3. Len(cmd[t]) = Len(history[t]) /\ DOMAIN history[t] = DOMAIN cmd[t]
      BY <1>1, <1>3 DEF CallInv
    <3> QED BY <1>1, <1>2, <1>3, <1>5, <1>6, <2>1, <2>2, <3>1, <3>2, <3>3 DEF CallInv
  <2>3. CASE u # t
    <3>1. Idle(inflight, u)' <=> Idle(inflight, u)
      BY <1>1, <2>3 DEF Idle
    <3>2. \A b \in live : <<u, b>> \in inflight' <=> <<u, b>> \in inflight
      BY <1>1, <2>3
    <3> QED BY <1>1, <1>2, <1>6, <2>1, <2>3, <3>1, <3>2 DEF CallInv
  <2> QED BY <2>2, <2>3
<1> QED BY <1>1, <1>7, <1>8, <1>9, DuringRun

(* A step that changes commands and nothing else: start_command and        *)
(* end_command.                                                            *)
LEMMA CommandStep ==
  ASSUME ControllerInv, pc = "run", UNCHANGED <<ctlVars, runVars>>,
         NEW t \in tasks, NEW i \in DOMAIN cmd[t], NEW s \in CmdStates,
         cmd[t][i] \in {"sent", "running"}, Becomes(t, i, s)
  PROVE  ControllerInv'
<1> USE DEF ControllerInv
<1>1. UNCHANGED <<opts, pc, live, text, written, exit, inflight, history, verdict, up>>
  BY DEF ctlVars, runVars
<1>2. PICK c : c = [cmd[t] EXCEPT ![i] = s]
  OBVIOUS
<1>3. /\ c \in Seq(CmdStates) /\ Len(c) = Len(cmd[t])
      /\ \A j \in DOMAIN cmd[t] : j # i => c[j] = cmd[t][j]
  BY <1>2 DEF TypeInv
<1>4. cmd' = [cmd EXCEPT ![t] = c]
  BY <1>2 DEF Becomes
<1>5. cmd'[t] = c /\ \A u \in tasks : u # t => cmd'[u] = cmd[u]
  BY <1>4 DEF TypeInv
<1>6. TypeInv'
  <2>1. cmd' \in [tasks -> Seq(CmdStates)]
    BY <1>3, <1>4 DEF TypeInv
  <2> QED BY <1>1, <2>1 DEF TypeInv
<1>7. RetiredInv'
  BY <1>1 DEF RetiredInv, Broken
<1>8. ASSUME NEW u \in tasks PROVE CallInv(u)' /\ VerdictInv(u)'
  <2>1. VerdictInv(u)'
    BY <1>1 DEF VerdictInv
  <2>2. Idle(inflight, u)' <=> Idle(inflight, u)
    BY <1>1 DEF Idle
  <2>3. CASE u = t
    <3>1. \A j \in DOMAIN history[t] : j \in DOMAIN cmd[t]
      BY DEF CallInv, TypeInv
    <3>2. ASSUME NEW j \in DOMAIN history[t] PROVE Fits(history[t][j].status, c[j])
      <4>0. history[t] \in Seq(Attempt) /\ Fits(history[t][j].status, cmd[t][j])
        BY DEF CallInv, TypeInv
      <4>a. history[t][j] \in Attempt
        BY <4>0
      <4>1. Fits(history[t][j].status, cmd[t][j]) /\ history[t][j].status \in Outcomes
        BY <4>0, <4>a DEF Attempt
      <4>2. CASE j = i
        BY <4>1, <4>2 DEF Fits, Outcomes
      <4> QED BY <1>3, <3>1, <4>1, <4>2
    <3> QED BY <1>1, <1>3, <1>5, <2>1, <2>2, <2>3, <3>2 DEF CallInv
  <2>4. CASE u # t
    BY <1>1, <1>5, <2>1, <2>2, <2>4 DEF CallInv
  <2> QED BY <2>3, <2>4
<1> QED BY <1>6, <1>7, <1>8, DuringRun

(* give_up: the tasks nobody left can run. *)
LEMMA GiveUpStep == ControllerInv /\ give_up => ControllerInv'
<1> SUFFICES ASSUME ControllerInv, give_up PROVE ControllerInv'
  OBVIOUS
<1> USE DEF ControllerInv
<1>1. /\ pc = "run" /\ UNCHANGED <<ctlVars, cmd>> /\ UNCHANGED <<inflight, history, up>>
  BY DEF give_up, GiveUp
<1>2. PICK G \in SUBSET tasks : /\ Hopeless(G, inflight, verdict, up)
                                /\ verdict' = GivenUp(verdict, G)
  BY DEF give_up, GiveUp
<1>3. UNCHANGED <<opts, pc, live, text, written, exit>>
  BY <1>1 DEF ctlVars
<1>4. \A u \in tasks : verdict'[u] = IF u \in G THEN "Unschedulable" ELSE verdict[u]
  BY <1>2 DEF GivenUp
<1>5. TypeInv'
  BY <1>1, <1>2, <1>3 DEF TypeInv, GivenUp, Finals
<1>6. RetiredInv'
  BY <1>1, <1>3 DEF RetiredInv, Broken
<1>7. ASSUME NEW u \in tasks PROVE CallInv(u)' /\ VerdictInv(u)'
  <2>1. u \in G => verdict[u] = "Pending" /\ Idle(inflight, u) /\ \A b \in up : ~able(b, u)
    BY <1>2 DEF Hopeless
  <2>2. CallInv(u)'
    BY <1>1, <1>3, <1>4, <2>1 DEF CallInv, Idle
  <2>3. VerdictInv(u)'
    BY <1>1, <1>4, <2>1 DEF VerdictInv, TestFailure
  <2> QED BY <2>2, <2>3
<1> QED BY <1>1, <1>5, <1>6, <1>7, DuringRun

(* A result arrives: the task is judged, and an agent that failed to       *)
(* answer is retired.  The command may change at that moment (declined),   *)
(* and in any case fits the result.                                        *)
LEMMA ReportStep ==
  ASSUME ControllerInv, NEW t \in tasks, NEW a \in live, NEW s \in Outcomes, Report(t, a, s),
         UNCHANGED ctlVars,
         cmd' \in [tasks -> Seq(CmdStates)],
         \A u \in tasks : /\ Len(cmd'[u]) = Len(cmd[u])
                          /\ \A i \in 1..Len(history[u]) : cmd'[u][i] = cmd[u][i],
         Fits(s, cmd'[t][Len(cmd[t])])
  PROVE  ControllerInv'
<1> USE DEF ControllerInv
<1>1. PICK e : e = [agent |-> a, status |-> s]
  OBVIOUS
<1>2. e \in Attempt /\ e.status = s /\ e.agent = a
  BY <1>1 DEF Attempt, TypeInv
<1>3. PICK h : h = Append(history[t], e)
  OBVIOUS
<1>4. \A u \in tasks : history[u] \in Seq(Attempt) /\ Len(history[u]) \in Nat
                       /\ DOMAIN history[u] = 1..Len(history[u])
  BY DEF TypeInv
<1>5. /\ h \in Seq(Attempt) /\ Len(h) = Len(history[t]) + 1 /\ DOMAIN h = 1..(Len(history[t]) + 1)
      /\ \A i \in 1..Len(history[t]) : h[i] = history[t][i]
      /\ h[Len(history[t]) + 1] = e
  BY <1>2, <1>3, <1>4, Appended
<1>a. /\ \A i \in DOMAIN history[t] : i \in DOMAIN h /\ h[i] = history[t][i]
      /\ \A i \in DOMAIN h : \/ i = Len(history[t]) + 1 /\ h[i] = e
                             \/ i \in DOMAIN history[t] /\ h[i] = history[t][i]
  <2>1. PICK n \in Nat : n = Len(history[t]) /\ DOMAIN history[t] = 1..n
    BY <1>4
  <2> QED BY <1>5, <2>1
<1>6. /\ <<t, a>> \in inflight /\ inflight' = inflight \ {<<t, a>>}
      /\ history' = [history EXCEPT ![t] = h]
      /\ up' = IF s = "AgentError" THEN up \ {a} ELSE up
  BY <1>1, <1>3 DEF Report
<1>7. UNCHANGED <<opts, pc, live, text, written, exit>> /\ pc = "run"
  BY <1>6 DEF ctlVars, PlaceInv
<1>8. history'[t] = h /\ \A u \in tasks : u # t => history'[u] = history[u]
  BY <1>6 DEF TypeInv
<1>9. PICK V : V = [verdict EXCEPT ![t] = Judge(h, retries[t])]
  OBVIOUS
<1>10. PICK G \in SUBSET tasks : Hopeless(G, inflight', V, up') /\ verdict' = GivenUp(V, G)
  BY <1>8, <1>9 DEF Report
<1>11. /\ V[t] = Judge(h, retries[t]) /\ \A u \in tasks : u # t => V[u] = verdict[u]
       /\ \A u \in tasks : verdict'[u] = IF u \in G THEN "Unschedulable" ELSE V[u]
  BY <1>9, <1>10 DEF GivenUp, TypeInv
<1>12. \A u \in G : V[u] = "Pending" /\ \A b \in up' : ~able(b, u)
  BY <1>10 DEF Hopeless
<1>13. Judge(h, retries[t]) = IF s = "Passed" THEN "Passed"
                              ELSE IF s \in TestFailure /\ Spent(h) > retries[t] THEN s ELSE "Pending"
  BY <1>2, <1>5 DEF Judge, TestFailure
<1>14. verdict[t] = "Pending" /\ Len(cmd[t]) = Len(history[t]) + 1 /\ Idle(inflight', t)
  <2>1. ~Idle(inflight, t)
    <3>1. <<t, a>>[1] = t
      OBVIOUS
    <3> QED BY <1>6, <3>1 DEF Idle
  <2>2. \A b \in live : <<t, b>> \in inflight => b = a
    BY <1>6 DEF CallInv
  <2>3. inflight' \subseteq tasks \X live
    BY <1>6 DEF TypeInv
  <2>4. Idle(inflight', t)
    BY <1>6, <2>2, <2>3, IdleMeans
  <2> QED BY <2>1, <2>4 DEF CallInv
<1>15. TypeInv'
  <2>1. verdict' \in [tasks -> Finals \cup {"Pending"}]
    BY <1>9, <1>10, <1>13 DEF TypeInv, GivenUp, Finals, TestFailure
  <2>2. history' \in [tasks -> Seq(Attempt)]
    BY <1>5, <1>6 DEF TypeInv
  <2> QED BY <1>6, <1>7, <2>1, <2>2 DEF TypeInv
<1>16. RetiredInv'
  <2>1. Broken' = IF s = "AgentError" THEN Broken \cup {a} ELSE Broken
    <3>1. ASSUME NEW b \in Agents, NEW u \in tasks, NEW i \in DOMAIN history[u],
                 history[u][i] = [agent |-> b, status |-> "AgentError"]
          PROVE  i \in DOMAIN history'[u] /\ history'[u][i] = [agent |-> b, status |-> "AgentError"]
      BY <1>a, <1>8, <3>1
    <3>2. ASSUME NEW b \in Agents, NEW u \in tasks, NEW i \in DOMAIN history'[u],
                 history'[u][i] = [agent |-> b, status |-> "AgentError"]
          PROVE  \/ i \in DOMAIN history[u] /\ history[u][i] = [agent |-> b, status |-> "AgentError"]
                 \/ s = "AgentError" /\ b = a
      <4>1. CASE u = t
        BY <1>1, <1>a, <1>8, <3>2, <4>1
      <4>2. CASE u # t
        BY <1>8, <3>2, <4>2
      <4> QED BY <4>1, <4>2
    <3>3. s = "AgentError" => /\ Len(history[t]) + 1 \in DOMAIN history'[t] /\ a \in Agents
                              /\ history'[t][Len(history[t]) + 1] = [agent |-> a, status |-> "AgentError"]
      BY <1>1, <1>4, <1>5, <1>8 DEF TypeInv
    <3>4. ASSUME NEW b \in Broken PROVE b \in Broken'
      BY <3>1 DEF Broken
    <3>5. ASSUME NEW b \in Broken' PROVE b \in Broken \/ (s = "AgentError" /\ b = a)
      BY <3>2 DEF Broken
    <3>6. s = "AgentError" => a \in Broken'
      BY <3>3 DEF Broken
    <3> QED BY <3>4, <3>5, <3>6
  <2> QED BY <1>6, <1>7, <2>1 DEF RetiredInv
<1>17. ASSUME NEW u \in tasks PROVE CallInv(u)'
  <2>1. CASE u = t
    <3>1. ASSUME NEW i \in DOMAIN h PROVE Fits(h[i].status, cmd'[t][i])
      <4>1. CASE i = Len(history[t]) + 1
        BY <1>2, <1>5, <1>14, <4>1
      <4>2. CASE i # Len(history[t]) + 1
        <5>1. i \in 1..Len(history[t])
          BY <1>4, <1>5, <4>2
        <5>2. Fits(history[t][i].status, cmd[t][i])
          BY <1>4, <5>1 DEF CallInv
        <5> QED BY <1>5, <5>1, <5>2
      <4> QED BY <4>1, <4>2
    <3>2. Len(cmd'[t]) = Len(h)
      BY <1>5, <1>14
    <3>3. \A b, c \in live' : <<t, b>> \in inflight' /\ <<t, c>> \in inflight' => b = c
      BY <1>6, <1>7 DEF CallInv
    <3> QED BY <1>8, <1>14, <2>1, <3>1, <3>2, <3>3 DEF CallInv
  <2>2. CASE u # t
    <3>1. Idle(inflight', u) <=> Idle(inflight, u)
      <4>1. inflight \subseteq tasks \X live /\ inflight' \subseteq tasks \X live
        BY <1>6 DEF TypeInv
      <4>2. \A b \in live : <<u, b>> \in inflight' <=> <<u, b>> \in inflight
        BY <1>6, <2>2
      <4>3. Idle(inflight', u) <=> \A b \in live : <<u, b>> \notin inflight'
        BY <4>1, IdleMeans
      <4>4. Idle(inflight, u) <=> \A b \in live : <<u, b>> \notin inflight
        BY <4>1, IdleMeans
      <4> QED BY <4>2, <4>3, <4>4
    <3>2. ~Idle(inflight', u) => u \notin G
      BY <1>10 DEF Hopeless
    <3>3. ~Idle(inflight', u) => verdict'[u] = verdict[u]
      BY <1>11, <2>2, <3>2
    <3>4. \A i \in DOMAIN history[u] : cmd'[u][i] = cmd[u][i]
      BY <1>4
    <3>5. \A b, c \in live' : <<u, b>> \in inflight' /\ <<u, c>> \in inflight' => b = c
      BY <1>6, <1>7 DEF CallInv
    <3> QED BY <1>8, <2>2, <3>1, <3>3, <3>4, <3>5 DEF CallInv
  <2> QED BY <2>1, <2>2
<1>18. ASSUME NEW u \in tasks PROVE VerdictInv(u)'
  <2>0. up' \subseteq up
    BY <1>6
  <2>1. CASE u = t
    <3>1. /\ Spent(history[t]) \in Nat /\ Errors(history[t]) \in Nat
          /\ Spent(h) = Spent(history[t]) + (IF s \in TestFailure THEN 1 ELSE 0)
          /\ Errors(h) = Errors(history[t]) + (IF s = "AgentError" THEN 1 ELSE 0)
      BY <1>2, <1>3, <1>4, CountsAppend
    <3>2. /\ NoPass(history[t]) /\ Spent(history[t]) <= retries[t] /\ retries[t] \in Nat
          /\ Len(history[t]) = Spent(history[t]) + Errors(history[t])
      BY <1>14, JobUsable DEF VerdictInv
    <3>3. s # "Passed" => NoPass(h)
      BY <1>2, <1>a, <3>2 DEF NoPass
    <3>4. h # <<>> /\ h[Len(h)].status = s /\ Len(h) = Len(history[t]) + 1
      BY <1>2, <1>4, <1>5
    <3>5. t \in G => V[t] = "Pending" /\ \A b \in up' : ~able(b, t)
      BY <1>12
    <3>6. CASE s = "Passed"
      <4>1. verdict'[t] = "Passed" /\ Spent(h) = Spent(history[t]) /\ Errors(h) = Errors(history[t])
        BY <1>11, <1>13, <3>1, <3>5, <3>6 DEF TestFailure
      <4> QED BY <1>8, <2>1, <3>1, <3>2, <3>4, <3>6, <4>1 DEF VerdictInv, TestFailure
    <3>7. CASE s \in TestFailure
      <4>1. Spent(h) = Spent(history[t]) + 1 /\ Errors(h) = Errors(history[t])
        BY <3>1, <3>7 DEF TestFailure
      <4>2. CASE Spent(h) > retries[t]
        <5>1. verdict'[t] = s /\ Spent(h) = retries[t] + 1
          BY <1>11, <1>13, <3>1, <3>2, <3>5, <3>7, <4>1, <4>2 DEF TestFailure
        <5> QED BY <1>8, <2>1, <3>1, <3>2, <3>4, <3>7, <4>1, <5>1 DEF VerdictInv, TestFailure
      <4>3. CASE ~(Spent(h) > retries[t])
        <5>1. /\ verdict'[t] \in {"Pending", "Unschedulable"} /\ Spent(h) <= retries[t] /\ NoPass(h)
              /\ Len(h) = Spent(h) + Errors(h)
              /\ verdict'[t] = "Unschedulable" => t \in G
          BY <1>11, <1>13, <3>1, <3>2, <3>3, <3>4, <3>7, <4>1, <4>3 DEF TestFailure
        <5>2. verdict'[t] # "Passed" /\ verdict'[t] \notin TestFailure
          BY <5>1 DEF TestFailure
        <5> QED BY <1>8, <2>1, <3>5, <5>1, <5>2 DEF VerdictInv
      <4> QED BY <4>2, <4>3
    <3>8. CASE s = "AgentError"
      <4>0. s \notin TestFailure /\ s # "Passed"
        BY <3>8 DEF TestFailure
      <4>1. Spent(h) = Spent(history[t]) /\ Errors(h) = Errors(history[t]) + 1
        BY <3>1, <3>8, <4>0
      <4>a. /\ verdict'[t] \in {"Pending", "Unschedulable"}
            /\ verdict'[t] = "Unschedulable" => t \in G
        BY <1>11, <1>13, <4>0
      <4>2. /\ verdict'[t] \in {"Pending", "Unschedulable"} /\ Spent(h) <= retries[t] /\ NoPass(h)
            /\ Len(h) = Spent(h) + Errors(h)
            /\ verdict'[t] = "Unschedulable" => t \in G
        BY <3>1, <3>2, <3>3, <3>4, <4>0, <4>1, <4>a
      <4>3. verdict'[t] # "Passed" /\ verdict'[t] \notin TestFailure
        BY <4>2 DEF TestFailure
      <4> QED BY <1>8, <2>1, <3>5, <4>2, <4>3 DEF VerdictInv
    <3> QED BY <3>6, <3>7, <3>8 DEF Outcomes, TestFailure
  <2>2. CASE u # t /\ u \notin G
    BY <1>8, <1>11, <2>0, <2>2 DEF VerdictInv
  <2>3. CASE u # t /\ u \in G
    <3>1. verdict'[u] = "Unschedulable" /\ verdict[u] = "Pending" /\ \A b \in up' : ~able(b, u)
      BY <1>11, <1>12, <2>3
    <3> QED BY <1>8, <2>3, <3>1 DEF VerdictInv, TestFailure
  <2> QED BY <2>1, <2>2, <2>3
<1> QED BY <1>7, <1>15, <1>16, <1>17, <1>18, DuringRun

(* answered: the command had ended before its result arrives. *)
LEMMA AnsweredStep ==
  ASSUME ControllerInv, NEW t \in tasks, NEW a \in live, answered(t, a)
  PROVE  ControllerInv'
<1> DEFINE c == cmd[t][Latest(t)]
<1>1. /\ c \in {"ok", "bad", "timed out"} /\ Report(t, a, attempt_status(c)) /\ UNCHANGED <<ctlVars, cmd>>
  BY DEF answered
<1>2. attempt_status(c) \in Outcomes /\ Fits(attempt_status(c), c)
  BY <1>1 DEF attempt_status, Outcomes, Fits
<1>3. cmd' \in [tasks -> Seq(CmdStates)] /\ c = cmd'[t][Len(cmd[t])]
  BY <1>1 DEF ControllerInv, TypeInv, Latest
<1> HIDE DEF c
<1> QED BY <1>1, <1>2, <1>3, ReportStep

(* declined: the agent did not start the command. *)
LEMMA DeclinedStep ==
  ASSUME ControllerInv, NEW t \in tasks, NEW a \in live, declined(t, a)
  PROVE  ControllerInv'
<1>1. PICK s \in {"Failed", "AgentError"} : Report(t, a, s)
  BY DEF declined
<1>2. <<t, a>> \in inflight /\ UNCHANGED ctlVars /\ cmd' = [cmd EXCEPT ![t][Len(cmd[t])] = "none"]
  BY DEF declined, Becomes, Latest
<1>3. \A u \in tasks : /\ history[u] \in Seq(Attempt) /\ cmd[u] \in Seq(CmdStates)
                       /\ Len(history[u]) \in Nat
  BY DEF ControllerInv, TypeInv
<1>4. Len(cmd[t]) = Len(history[t]) + 1
  <2>1. <<t, a>>[1] = t
    OBVIOUS
  <2>2. ~Idle(inflight, t)
    BY <1>2, <2>1 DEF Idle
  <2> QED BY <2>2 DEF ControllerInv, CallInv
<1>5. PICK q : q = [cmd[t] EXCEPT ![Len(cmd[t])] = "none"]
  OBVIOUS
<1>6. "none" \in CmdStates
  BY DEF CmdStates
<1>7. /\ q \in Seq(CmdStates) /\ Len(q) = Len(cmd[t]) /\ q[Len(cmd[t])] = "none"
      /\ \A i \in 1..Len(history[t]) : q[i] = cmd[t][i]
  BY <1>3, <1>4, <1>5, <1>6
<1>8. cmd' = [cmd EXCEPT ![t] = q]
  BY <1>2, <1>5
<1>9. /\ cmd' \in [tasks -> Seq(CmdStates)] /\ cmd'[t] = q
      /\ \A u \in tasks : u # t => cmd'[u] = cmd[u]
  BY <1>7, <1>8 DEF ControllerInv, TypeInv
<1>10. s \in Outcomes /\ Fits(s, "none")
  BY DEF Outcomes, Fits
<1>11. \A u \in tasks : /\ Len(cmd'[u]) = Len(cmd[u])
                        /\ \A i \in 1..Len(history[u]) : cmd'[u][i] = cmd[u][i]
  BY <1>7, <1>9
<1> QED BY <1>1, <1>2, <1>7, <1>9, <1>10, <1>11, ReportStep

(* no_answer: whatever the command does, it fits an infrastructure error. *)
LEMMA NoAnswerStep ==
  ASSUME ControllerInv, NEW t \in tasks, NEW a \in live, no_answer(t, a)
  PROVE  ControllerInv'
<1>1. Report(t, a, "AgentError") /\ UNCHANGED <<ctlVars, cmd>>
  BY DEF no_answer
<1>2. "AgentError" \in Outcomes /\ \A c : Fits("AgentError", c)
  BY DEF Outcomes, Fits
<1>3. cmd' \in [tasks -> Seq(CmdStates)]
  BY <1>1 DEF ControllerInv, TypeInv
<1> QED BY <1>1, <1>2, <1>3, ReportStep

(* run_returns. *)
LEMMA ReturnStep == ControllerInv /\ run_returns => ControllerInv'
<1> SUFFICES ASSUME ControllerInv, run_returns PROVE ControllerInv'
  OBVIOUS
<1> USE DEF ControllerInv
<1>1. /\ pc = "run" /\ pc' = "report" /\ inflight = {}
      /\ UNCHANGED <<opts, live, exit, text, written, inflight, history, up, cmd>>
      /\ verdict' = [t \in tasks |-> IF verdict[t] = "Pending" THEN "Unschedulable" ELSE verdict[t]]
      /\ \A t \in tasks : verdict[t] = "Pending" => up = {}
  BY DEF run_returns
<1>2. \A t \in tasks : verdict'[t] = IF verdict[t] = "Pending" THEN "Unschedulable" ELSE verdict[t]
  BY <1>1
<1>3. TypeInv'
  BY <1>1 DEF TypeInv, Finals
<1>4. PlaceInv'
  BY <1>1, <1>2 DEF PlaceInv, Before, TypeInv, Finals
<1>5. RetiredInv' /\ ReportInv' /\ ExitHonest'
  BY <1>1 DEF RetiredInv, Broken, ReportInv, ExitHonest, PlaceInv
<1>6. ASSUME NEW t \in tasks PROVE CallInv(t)' /\ VerdictInv(t)'
  <2>1. CallInv(t)'
    BY <1>1 DEF CallInv, Idle
  <2>2. CASE verdict[t] = "Pending"
    BY <1>1, <1>2, <2>1, <2>2 DEF VerdictInv, TestFailure
  <2>3. CASE verdict[t] # "Pending"
    BY <1>1, <1>2, <2>1, <2>3 DEF VerdictInv
  <2> QED BY <2>2, <2>3
<1> QED BY <1>3, <1>4, <1>5, <1>6

-----------------------------------------------------------------------------
(* The report and the exit status.                                         *)

(* all_passed counts, and is true just when every task passed. *)
LEMMA AllPassed ==
  /\ all_passed => \A t \in tasks : verdict[t] = "Passed"
  /\ ~all_passed => \E t \in tasks : verdict[t] # "Passed"
<1> DEFINE P == {t \in tasks : verdict[t] = "Passed"}
<1>1. P \in SUBSET tasks /\ (P = tasks <=> \A t \in tasks : verdict[t] = "Passed")
  OBVIOUS
<1>2. all_passed <=> Cardinality(P) = Cardinality(tasks)
  BY DEF all_passed, count
<1> HIDE DEF P
<1>3. Cardinality(P) = Cardinality(tasks) => P = tasks
  BY <1>1, FS_Subset, JobUsable
<1> QED BY <1>1, <1>2, <1>3

(* In the end, the last command of a task that passed ended well, and the  *)
(* last attempt of any other did not pass.                                 *)
LEMMA LastAttempt ==
  ASSUME ControllerInv, pc = "report", NEW t \in tasks
  PROVE  /\ verdict[t] = "Passed" => cmd[t] # <<>> /\ Last(cmd[t]) = "ok"
         /\ verdict[t] # "Passed" => ~(Attempted(t) /\ LastStatus(t) = "Passed")
<1>1. /\ history[t] \in Seq(Attempt) /\ cmd[t] \in Seq(CmdStates) /\ Len(cmd[t]) = Len(history[t])
      /\ \A i \in DOMAIN history[t] : Fits(history[t][i].status, cmd[t][i])
  BY DEF ControllerInv, TypeInv, PlaceInv, CallInv, Idle
<1>2. PICK n \in Nat : n = Len(history[t]) /\ DOMAIN history[t] = 1..n
  BY <1>1
<1>3. history[t] # <<>> => n \in 1..n
  BY <1>1, <1>2
<1>4. Last(cmd[t]) = cmd[t][n] /\ (Attempted(t) => LastStatus(t) = history[t][n].status)
  BY <1>1, <1>2 DEF Last, LastStatus
<1>5. verdict[t] \in Finals
  BY DEF ControllerInv, PlaceInv
<1>6. CASE verdict[t] = "Passed"
  <2>1. history[t] # <<>> /\ history[t][n].status = "Passed"
    BY <1>2, <1>6 DEF ControllerInv, VerdictInv
  <2>2. cmd[t][n] = "ok"
    BY <1>1, <1>2, <1>3, <2>1 DEF Fits
  <2> QED BY <1>1, <1>2, <1>3, <1>4, <1>6, <2>1, <2>2
<1>7. CASE verdict[t] \in TestFailure
  BY <1>2, <1>4, <1>7 DEF ControllerInv, VerdictInv, TestFailure
<1>8. CASE verdict[t] = "Unschedulable"
  BY <1>2, <1>3, <1>4, <1>8 DEF ControllerInv, VerdictInv, NoPass, Attempted
<1> QED BY <1>5, <1>6, <1>7, <1>8 DEF Finals, TestFailure

(* A complete file is not the absence of one. *)
LEMMA JUnitIsAFile == render_junit # NoReport /\ Truncated # NoReport
<1>1. "cases" \in DOMAIN render_junit /\ "cases" \notin DOMAIN NoReport
  BY DEF render_junit, NoReport
<1>2. Truncated.file # NoReport.file
  BY DEF Truncated, NoReport
<1> QED BY <1>1, <1>2

(* write_report. *)
LEMMA WriteStep == ControllerInv /\ write_report => ControllerInv'
<1> SUFFICES ASSUME ControllerInv, write_report PROVE ControllerInv'
  OBVIOUS
<1> USE DEF ControllerInv
<1>1. /\ pc = "report" /\ pc' = "exited" /\ text' = render_text
      /\ UNCHANGED <<opts, live, inflight, history, verdict, up, cmd>>
  BY DEF write_report, Exit, runVars
<1>2. written' = written \/ (opts.junit /\ written' \in {render_junit, Truncated})
  BY DEF write_report
<1>3. \/ exit' = 2
      \/ /\ exit' = IF all_passed THEN 0 ELSE 1
         /\ opts.junit => written' \in {render_junit, Truncated}
  BY DEF write_report, Exit
<1>4. written = NoReport /\ inflight = {} /\ \A t \in tasks : verdict[t] \in Finals
  BY <1>1 DEF PlaceInv
<1>5. TypeInv' /\ PlaceInv'
  BY <1>1, <1>4 DEF TypeInv, PlaceInv, Before
<1>6. RetiredInv'
  BY <1>1 DEF RetiredInv, Broken
<1>7. render_text' = render_text /\ render_junit' = render_junit
  BY <1>1 DEF render_text, render_junit, count, flaky, flaky_count, last_agent, describe_last_attempt, Attempted
<1>8. ReportInv'
  BY <1>1, <1>2, <1>4, <1>7, JUnitIsAFile DEF ReportInv, Reported, NoReport, Truncated
<1>9. ExitHonest'
  <2>1. CASE exit' = 2
    BY <2>1 DEF ExitHonest
  <2>2. CASE exit' = 0 /\ all_passed /\ (opts.junit => written' \in {render_junit, Truncated})
    <3>1. \A t \in tasks : cmd[t] # <<>> /\ Last(cmd[t]) = "ok"
      BY <1>1, <2>2, AllPassed, LastAttempt
    <3>2. opts.junit => written' # NoReport
      BY <2>2, JUnitIsAFile
    <3> QED BY <1>1, <2>2, <3>1, <3>2 DEF ExitHonest, NoReport
  <2>3. CASE exit' = 1 /\ ~all_passed
    <3>1. PICK t \in tasks : verdict[t] # "Passed"
      BY <2>3, AllPassed
    <3>2. ~(Attempted(t) /\ LastStatus(t) = "Passed")
      BY <1>1, <3>1, LastAttempt
    <3> QED BY <1>1, <2>3, <3>2 DEF ExitHonest, Attempted, LastStatus
  <2> QED BY <1>3, <2>1, <2>2, <2>3
<1>10. \A t \in tasks : CallInv(t)' /\ VerdictInv(t)'
  BY <1>1, SameRun
<1> QED BY <1>5, <1>6, <1>8, <1>9, <1>10

(* The controller calls one agent at a time for a task and records what    *)
(* its commands did; verdicts follow from the record, agents are retired   *)
(* for the errors on it, and report and exit status follow from both.      *)
THEOREM ControllerInvariant == Spec => []ControllerInv
<1>1. Init => ControllerInv
  BY InitInv
<1>2. ControllerInv /\ [Next]_vars => ControllerInv'
  <2> SUFFICES ASSUME ControllerInv, [Next]_vars PROVE ControllerInv'
    OBVIOUS
  <2>1. CASE parse_options \/ read_jobs \/ (\E a \in Agents : connect(a)) \/ join_connects
    BY <2>1, OptionsStep, JobsStep, ConnectStep, JoinStep
  <2>2. CASE give_up \/ run_returns \/ write_report
    BY <2>2, GiveUpStep, ReturnStep, WriteStep
  <2>3. ASSUME NEW t \in tasks, NEW a \in live,
               dispatch(t, a) \/ answered(t, a) \/ declined(t, a) \/ no_answer(t, a)
        PROVE  ControllerInv'
    BY <2>3, DispatchStep, AnsweredStep, DeclinedStep, NoAnswerStep
  <2>4. ASSUME NEW t \in tasks, NEW i \in DOMAIN cmd[t], start_command(t, i) \/ end_command(t, i)
        PROVE  ControllerInv'
    <3>1. /\ pc = "run" /\ UNCHANGED <<ctlVars, runVars>> /\ cmd[t][i] \in {"sent", "running"}
          /\ \E s \in {"running", "ok", "bad", "timed out"} : Becomes(t, i, s)
      BY <2>4 DEF start_command, end_command
    <3>2. PICK s \in CmdStates : Becomes(t, i, s)
      BY <3>1 DEF CmdStates
    <3> QED BY <3>1, <3>2, CommandStep
  <2>5. CASE UNCHANGED vars
    <3>1. UNCHANGED <<opts, pc, live, text, written, exit, inflight, history, verdict, up, cmd>>
      BY <2>5 DEF vars, ctlVars, runVars
    <3>2. \A t \in tasks : CallInv(t)' /\ VerdictInv(t)'
      BY <3>1, SameRun DEF ControllerInv
    <3>3. render_text' = render_text /\ render_junit' = render_junit
      BY <3>1 DEF render_text, render_junit, count, flaky, flaky_count, last_agent, describe_last_attempt,
         Attempted
    <3>4. TypeInv' /\ PlaceInv' /\ RetiredInv' /\ ExitHonest'
      BY <3>1 DEF ControllerInv, TypeInv, PlaceInv, RetiredInv, Broken, ExitHonest, Attempted, LastStatus
    <3>5. ReportInv'
      BY <3>1, <3>3 DEF ControllerInv, ReportInv, Reported
    <3> QED BY <3>2, <3>4, <3>5 DEF ControllerInv
  <2> QED BY <2>1, <2>2, <2>3, <2>4, <2>5 DEF Next
<1> QED BY <1>1, <1>2, PTL DEF Spec

-----------------------------------------------------------------------------
(* What follows from the invariant.                                        *)

(* An exit status of 0 means that the last command of every task ended     *)
(* well and that the JUnit file that was asked for was opened; 1 means     *)
(* that a task did not pass.                                               *)
THEOREM ExitIsHonest == Spec => []ExitHonest
<1>1. ControllerInv => ExitHonest
  BY DEF ControllerInv
<1> QED BY <1>1, ControllerInvariant, PTL

(* Every result on record is the one its command ended with; a command     *)
(* that is run again, or is still running after the report, was written    *)
(* off as an infrastructure error; and their number is bounded by the      *)
(* retries and those errors.                                               *)
THEOREM RunsAreExplained == Spec => []RunsExplained
<1>1. ControllerInv => RunsExplained
  <2> SUFFICES ASSUME ControllerInv, NEW t \in tasks
               PROVE  LET h == history[t]
                          errors == {i \in DOMAIN h : h[i].status = "AgentError"}
                      IN
                      /\ \A i \in DOMAIN h \ errors :
                           CASE h[i].status = "Passed"   -> cmd[t][i] = "ok"
                             [] h[i].status = "TimedOut" -> cmd[t][i] = "timed out"
                             [] OTHER                    -> cmd[t][i] \in {"bad", "none"}
                      /\ pc \in {"report", "exited"} =>
                           \A i \in DOMAIN cmd[t] : cmd[t][i] \in {"sent", "running"} => i \in errors
                      /\ Len(cmd[t]) <= retries[t] + 1 + Cardinality(errors)
    BY DEF RunsExplained
  <2> DEFINE h == history[t]
             errors == {i \in DOMAIN h : h[i].status = "AgentError"}
  <2>1. /\ h \in Seq(Attempt) /\ cmd[t] \in Seq(CmdStates) /\ retries[t] \in Nat
        /\ verdict[t] \in Finals \cup {"Pending"}
        /\ \A i \in DOMAIN h : Fits(h[i].status, cmd[t][i])
    BY JobUsable DEF ControllerInv, TypeInv, CallInv
  <2>2. \A i \in DOMAIN h : h[i].status \in Outcomes
    <3>1. \A i \in DOMAIN h : h[i] \in Attempt
      BY <2>1
    <3> QED BY <3>1 DEF Attempt
  <2>3. ASSUME NEW i \in DOMAIN h \ errors
        PROVE  CASE h[i].status = "Passed"   -> cmd[t][i] = "ok"
                 [] h[i].status = "TimedOut" -> cmd[t][i] = "timed out"
                 [] OTHER                    -> cmd[t][i] \in {"bad", "none"}
    <3>1. Fits(h[i].status, cmd[t][i]) /\ h[i].status \in {"Passed", "Failed", "TimedOut"}
      BY <2>1, <2>2 DEF Outcomes
    <3> QED BY <3>1 DEF Fits
  <2>4. ASSUME pc \in {"report", "exited"}, NEW i \in DOMAIN cmd[t], cmd[t][i] \in {"sent", "running"}
        PROVE  i \in errors
    <3>1. Len(cmd[t]) = Len(h)
      BY <2>4 DEF ControllerInv, PlaceInv, CallInv, Idle
    <3>2. i \in DOMAIN h
      BY <2>1, <3>1
    <3> QED BY <2>1, <2>2, <2>4, <3>2 DEF Fits, Outcomes
  <2>5. Len(cmd[t]) <= retries[t] + 1 + Cardinality(errors)
    <3>0. Cardinality(errors) = Errors(h)
      BY DEF Errors
    <3>1. Spent(h) \in Nat /\ Errors(h) \in Nat
      BY <2>1, Counts
    <3>2. /\ Len(h) \in Nat
          /\ Len(cmd[t]) = Len(h) \/ (verdict[t] = "Pending" /\ Len(cmd[t]) = Len(h) + 1)
      BY <2>1 DEF ControllerInv, CallInv
    <3>3. \/ verdict[t] = "Pending" /\ Len(h) <= retries[t] + Errors(h)
          \/ Len(h) <= retries[t] + 1 + Errors(h)
      BY <2>1, <3>1 DEF ControllerInv, VerdictInv, Finals, TestFailure
    <3>4. verdict[t] = "Pending" => Len(h) <= retries[t] + Errors(h)
      BY <2>1, <3>1 DEF ControllerInv, VerdictInv
    <3> HIDE DEF h, errors
    <3> QED BY <2>1, <3>0, <3>1, <3>2, <3>3, <3>4
  <2> QED BY <2>3, <2>4, <2>5
<1> QED BY <1>1, ControllerInvariant, PTL

(* The cardinality of a disjoint union. *)
LEMMA DisjointUnion ==
  ASSUME NEW S, NEW T, IsFiniteSet(S), IsFiniteSet(T), S \cap T = {}
  PROVE  IsFiniteSet(S \cup T) /\ Cardinality(S \cup T) = Cardinality(S) + Cardinality(T)
<1>1. IsFiniteSet(S \cup T) /\ Cardinality(S \cup T) = Cardinality(S) + Cardinality(T) - Cardinality(S \cap T)
  BY FS_Union
<1>2. Cardinality(S) \in Nat /\ Cardinality(T) \in Nat /\ Cardinality(S \cap T) = 0
  BY FS_CardinalityType, FS_EmptySet
<1> QED BY <1>1, <1>2

(* Every task has one mark and one tag, and they say the same. *)
LEMMA Marks ==
  ASSUME NEW t \in tasks, verdict[t] \in Finals
  PROVE  LET m == render_junit.cases[t]
             g == render_text.tags[t]
         IN  /\ m \in {"ok", "flaky", "skipped", "failure"}
             /\ g \in {"PASS", "FLAKY", "TIMEOUT", "SKIPPED", "FAIL"}
             /\ m = "failure" <=> verdict[t] \in TestFailure
             /\ m = "flaky" <=> flaky(t)
             /\ m = "ok" <=> verdict[t] = "Passed" /\ ~flaky(t)
             /\ m = "skipped" <=> verdict[t] = "Unschedulable"
             /\ g \in {"FAIL", "TIMEOUT"} <=> verdict[t] \in TestFailure
             /\ g = "FLAKY" <=> flaky(t)
             /\ g = "PASS" <=> verdict[t] = "Passed" /\ ~flaky(t)
             /\ g = "SKIPPED" <=> verdict[t] = "Unschedulable"
<1>0. flaky(t) \in BOOLEAN /\ (flaky(t) => verdict[t] = "Passed")
  BY DEF flaky
<1>1. render_junit.cases[t] = CASE verdict[t] = "Passed" /\ ~flaky(t) -> "ok"
                                [] flaky(t)                           -> "flaky"
                                [] verdict[t] = "Unschedulable"       -> "skipped"
                                [] verdict[t] \in TestFailure         -> "failure"
  BY DEF render_junit
<1>2. render_text.tags[t] = CASE verdict[t] = "Passed"        -> IF flaky(t) THEN "FLAKY" ELSE "PASS"
                              [] verdict[t] = "TimedOut"      -> "TIMEOUT"
                              [] verdict[t] = "Unschedulable" -> "SKIPPED"
                              [] OTHER                        -> "FAIL"
  BY DEF render_text
<1>3. CASE flaky(t)
  BY <1>0, <1>1, <1>2, <1>3 DEF TestFailure
<1>4. CASE ~flaky(t) /\ verdict[t] = "Passed"
  BY <1>1, <1>2, <1>4 DEF TestFailure
<1>5. CASE verdict[t] = "Unschedulable"
  BY <1>0, <1>1, <1>2, <1>5 DEF TestFailure
<1>6. CASE verdict[t] \in TestFailure
  BY <1>0, <1>1, <1>2, <1>6 DEF TestFailure
<1> QED BY <1>0, <1>3, <1>4, <1>5, <1>6 DEF Finals, TestFailure

(* The sets of tasks with each verdict, and the totals of the reports. *)
LEMMA Totals ==
  ASSUME \A t \in tasks : verdict[t] \in Finals
  PROVE  LET Case(m) == {t \in tasks : render_junit.cases[t] = m}
         IN  /\ count("Failed") + count("TimedOut") = Cardinality(Case("failure"))
             /\ count("Unschedulable") = Cardinality(Case("skipped"))
             /\ count("Passed") = Cardinality(Case("ok") \cup Case("flaky"))
             /\ flaky_count = Cardinality(Case("flaky"))
             /\ Cardinality(tasks) = count("Passed") + (count("Failed") + count("TimedOut"))
                                      + count("Unschedulable")
<1> DEFINE Case(m) == {t \in tasks : render_junit.cases[t] = m}
           V(s) == {t \in tasks : verdict[t] = s}
<1>1. \A s : count(s) = Cardinality(V(s))
  BY DEF count
<1>2. \A s : V(s) \in SUBSET tasks
  OBVIOUS
<1>3. /\ Case("failure") = V("Failed") \cup V("TimedOut") /\ V("Failed") \cap V("TimedOut") = {}
      /\ Case("skipped") = V("Unschedulable")
      /\ Case("ok") \cup Case("flaky") = V("Passed")
      /\ Case("flaky") = {t \in tasks : flaky(t)}
  <2>1. \A t \in tasks : /\ render_junit.cases[t] = "failure" <=> verdict[t] \in TestFailure
                         /\ render_junit.cases[t] = "flaky" <=> flaky(t)
                         /\ render_junit.cases[t] = "ok" <=> verdict[t] = "Passed" /\ ~flaky(t)
                         /\ render_junit.cases[t] = "skipped" <=> verdict[t] = "Unschedulable"
    BY Marks
  <2>2. \A t \in tasks : flaky(t) => verdict[t] = "Passed"
    BY DEF flaky
  <2>3. \A t : verdict[t] \in TestFailure <=> verdict[t] = "Failed" \/ verdict[t] = "TimedOut"
    BY DEF TestFailure
  <2> QED BY <2>1, <2>2, <2>3
<1>4. tasks = (V("Passed") \cup (V("Failed") \cup V("TimedOut"))) \cup V("Unschedulable")
  BY DEF Finals
<1>5. /\ V("Passed") \cap (V("Failed") \cup V("TimedOut")) = {}
      /\ (V("Passed") \cup (V("Failed") \cup V("TimedOut"))) \cap V("Unschedulable") = {}
  OBVIOUS
<1>6. flaky_count = Cardinality({t \in tasks : flaky(t)})
  BY DEF flaky_count
<1> HIDE DEF V, Case
<1>7. \A s : IsFiniteSet(V(s))
  BY <1>2, FS_Subset, JobUsable
<1>8. /\ IsFiniteSet(V("Failed") \cup V("TimedOut"))
      /\ Cardinality(V("Failed") \cup V("TimedOut")) = count("Failed") + count("TimedOut")
  BY <1>1, <1>3, <1>7, DisjointUnion
<1>9. /\ IsFiniteSet(V("Passed") \cup (V("Failed") \cup V("TimedOut")))
      /\ Cardinality(V("Passed") \cup (V("Failed") \cup V("TimedOut")))
           = count("Passed") + (count("Failed") + count("TimedOut"))
  BY <1>1, <1>5, <1>7, <1>8, DisjointUnion
<1>10. Cardinality(tasks) = count("Passed") + (count("Failed") + count("TimedOut")) + count("Unschedulable")
  BY <1>1, <1>4, <1>5, <1>7, <1>9, DisjointUnion
<1>11. /\ count("Failed") + count("TimedOut") = Cardinality(Case("failure"))
       /\ count("Unschedulable") = Cardinality(Case("skipped"))
       /\ count("Passed") = Cardinality(Case("ok") \cup Case("flaky"))
       /\ flaky_count = Cardinality(Case("flaky"))
  BY <1>1, <1>3, <1>6, <1>8
<1> QED BY <1>10, <1>11 DEF Case

(* Every mark of the JUnit file and every tag of the summary follows from  *)
(* the attempts of its task, the totals match the marks, and the retired   *)
(* agents are those that broke down.                                       *)
THEOREM ReportIsHonest == Spec => []ReportHonest
<1>1. ControllerInv => ReportHonest
  <2> SUFFICES ASSUME ControllerInv PROVE ReportHonest
    OBVIOUS
  <2>0. \A t \in tasks : /\ history[t] \in Seq(Attempt) /\ retries[t] \in Nat
                         /\ Attempted(t) => Last(history[t]) = history[t][Len(history[t])]
    BY JobUsable DEF ControllerInv, TypeInv, Last
  <2>1. ASSUME Reported, NEW t \in tasks
        PROVE  LET h == history[t] IN
               /\ verdict[t] \in Finals
               /\ verdict[t] # "Unschedulable" => Attempted(t)
               /\ verdict[t] \in TestFailure => describe_last_attempt(t) \in TestFailure
                                               /\ Spent(h) = retries[t] + 1
               /\ verdict[t] = "Passed" => LastStatus(t) = "Passed" /\ Spent(h) \in 0..retries[t]
               /\ flaky(t) => verdict[t] = "Passed" /\ Spent(h) # 0
               /\ verdict[t] = "Passed" /\ ~flaky(t) => Spent(h) = 0
               /\ verdict[t] = "Unschedulable" => \A a \in live : able(a, t) => a \in live \ up
    <3>1. verdict[t] \in Finals /\ VerdictInv(t)
      BY <2>1 DEF Reported, ControllerInv
    <3>2. verdict[t] # "Unschedulable" => Attempted(t)
      BY <3>1 DEF VerdictInv, Finals, TestFailure, Attempted
    <3>3. verdict[t] \in TestFailure => describe_last_attempt(t) \in TestFailure
                                      /\ Spent(history[t]) = retries[t] + 1
      BY <2>0, <3>1, <3>2 DEF VerdictInv, TestFailure, describe_last_attempt
    <3>4. Spent(history[t]) \in Nat /\ retries[t] \in Nat
      BY <2>0, Counts
    <3>5. verdict[t] = "Passed" => LastStatus(t) = "Passed" /\ Spent(history[t]) \in 0..retries[t]
      BY <2>0, <3>1, <3>2, <3>4 DEF VerdictInv, LastStatus
    <3>6. Spent(history[t]) = 0 <=> \A i \in DOMAIN history[t] : history[t][i].status \notin TestFailure
      BY <2>0, Counts
    <3>7. /\ flaky(t) => verdict[t] = "Passed" /\ Spent(history[t]) # 0
          /\ verdict[t] = "Passed" /\ ~flaky(t) => Spent(history[t]) = 0
      BY <3>6 DEF flaky
    <3>8. verdict[t] = "Unschedulable" => \A a \in live : able(a, t) => a \in live \ up
      BY <3>1 DEF VerdictInv
    <3> QED BY <3>1, <3>2, <3>3, <3>5, <3>7, <3>8
  <2>2. ASSUME text # NoReport
        PROVE  /\ \A t \in tasks : text.tags[t] # "SKIPPED" => Attempted(t)
               /\ text.retired = {a \in Agents : \E t \in tasks : \E i \in DOMAIN history[t] :
                                    history[t][i] = [agent |-> a, status |-> "AgentError"]}
    <3>1. Reported /\ text = render_text /\ live \ up = Broken
      BY <2>2 DEF ControllerInv, ReportInv, Reported, RetiredInv
    <3>2. \A t \in tasks : text.tags[t] = "SKIPPED" <=> verdict[t] = "Unschedulable"
      BY <2>1, <3>1, Marks
    <3>3. text.retired = Broken
      BY <3>1 DEF render_text
    <3> QED BY <2>1, <3>1, <3>2, <3>3 DEF Broken
  <2>3. ASSUME written \notin {NoReport, Truncated}
        PROVE  LET Case(m) == {t \in tasks : written.cases[t] = m}
                   Tag(m)  == {t \in tasks : text.tags[t] = m}
               IN
               /\ \A t \in Case("failure") : /\ written.message[t] \in TestFailure
                                              /\ Spent(history[t]) = retries[t] + 1
               /\ \A t \in Case("flaky")   : LastStatus(t) = "Passed" /\ Spent(history[t]) \in 1..retries[t]
               /\ \A t \in Case("ok")      : LastStatus(t) = "Passed" /\ Spent(history[t]) = 0
               /\ \A t \in Case("skipped") : \A a \in live : able(a, t) => a \in text.retired
               /\ Case("failure") = Tag("FAIL") \cup Tag("TIMEOUT") /\ Case("flaky") = Tag("FLAKY")
               /\ Case("ok") = Tag("PASS") /\ Case("skipped") = Tag("SKIPPED")
               /\ written.failures = Cardinality(Case("failure"))
               /\ written.skipped = Cardinality(Case("skipped"))
               /\ written.tests = Cardinality(Case("ok") \cup Case("flaky")) + written.failures + written.skipped
               /\ text.passed = Cardinality(Case("ok") \cup Case("flaky"))
               /\ text.flaky = Cardinality(Case("flaky"))
    <3> DEFINE Case(m) == {t \in tasks : written.cases[t] = m}
               Tag(m)  == {t \in tasks : text.tags[t] = m}
    <3>1. Reported /\ text = render_text /\ written = render_junit
      BY <2>3 DEF ControllerInv, ReportInv, Reported
    <3>2. \A t \in tasks : verdict[t] \in Finals
      BY <3>1 DEF Reported
    <3>3. \A t \in tasks :
            /\ written.cases[t] = "failure" <=> verdict[t] \in TestFailure
            /\ written.cases[t] = "flaky" <=> flaky(t)
            /\ written.cases[t] = "ok" <=> verdict[t] = "Passed" /\ ~flaky(t)
            /\ written.cases[t] = "skipped" <=> verdict[t] = "Unschedulable"
            /\ text.tags[t] = "FAIL" \/ text.tags[t] = "TIMEOUT" <=> verdict[t] \in TestFailure
            /\ text.tags[t] = "FLAKY" <=> flaky(t)
            /\ text.tags[t] = "PASS" <=> verdict[t] = "Passed" /\ ~flaky(t)
            /\ text.tags[t] = "SKIPPED" <=> verdict[t] = "Unschedulable"
      BY <3>1, <3>2, Marks
    <3>4. /\ text.retired = live \ up /\ text.passed = count("Passed") /\ text.flaky = flaky_count
          /\ written.failures = count("Failed") + count("TimedOut") /\ written.skipped = count("Unschedulable")
          /\ written.tests = Cardinality(tasks)
          /\ \A t \in tasks : verdict[t] # "Unschedulable" => written.message[t] = describe_last_attempt(t)
      BY <3>1 DEF render_text, render_junit
    <3>5. /\ Case("failure") = Tag("FAIL") \cup Tag("TIMEOUT") /\ Case("flaky") = Tag("FLAKY")
          /\ Case("ok") = Tag("PASS") /\ Case("skipped") = Tag("SKIPPED")
      BY <3>3
    <3>6. ASSUME NEW t \in Case("failure")
          PROVE  written.message[t] \in TestFailure /\ Spent(history[t]) = retries[t] + 1
      BY <2>1, <3>1, <3>3, <3>4 DEF TestFailure
    <3>7. ASSUME NEW t \in Case("flaky")
          PROVE  LastStatus(t) = "Passed" /\ Spent(history[t]) \in 1..retries[t]
      <4>1. /\ LastStatus(t) = "Passed" /\ Spent(history[t]) \in 0..retries[t] /\ Spent(history[t]) # 0
            /\ retries[t] \in Nat
        BY <2>0, <2>1, <3>1, <3>3
      <4> QED BY <4>1
    <3>8. ASSUME NEW t \in Case("ok") PROVE LastStatus(t) = "Passed" /\ Spent(history[t]) = 0
      BY <2>1, <3>1, <3>3
    <3>9. ASSUME NEW t \in Case("skipped") PROVE \A a \in live : able(a, t) => a \in text.retired
      BY <2>1, <3>1, <3>3, <3>4
    <3>10. /\ written.failures = Cardinality(Case("failure"))
           /\ written.skipped = Cardinality(Case("skipped"))
           /\ written.tests = Cardinality(Case("ok") \cup Case("flaky")) + written.failures + written.skipped
           /\ text.passed = Cardinality(Case("ok") \cup Case("flaky"))
           /\ text.flaky = Cardinality(Case("flaky"))
      BY <3>1, <3>2, <3>4, Totals
    <3> HIDE DEF Case, Tag
    <3>11. /\ \A t \in Case("failure") : written.message[t] \in TestFailure /\ Spent(history[t]) = retries[t] + 1
           /\ \A t \in Case("flaky")   : LastStatus(t) = "Passed" /\ Spent(history[t]) \in 1..retries[t]
           /\ \A t \in Case("ok")      : LastStatus(t) = "Passed" /\ Spent(history[t]) = 0
           /\ \A t \in Case("skipped") : \A a \in live : able(a, t) => a \in text.retired
      BY <3>6, <3>7, <3>8, <3>9
    <3> QED BY <3>5, <3>10, <3>11 DEF Case, Tag
  <2> QED BY <2>2, <2>3, Zenon DEF ReportHonest
<1> QED BY <1>1, ControllerInvariant, PTL

-----------------------------------------------------------------------------
(* The job file, for every file that can be read.                          *)

(* The list in hand is what the parser made of the file. *)
ParsedInv ==
  /\ root \in Roots \cup {Unreadable}
  /\ parsed = NotParsed \/ (root \in Roots /\ parsed = parse_jobs(root))

(* The parser runs once, on a file that does not change. *)
LEMMA ParsedInvariant == Spec => []ParsedInv
<1>1. Init => ParsedInv
  BY DEF Init, ParsedInv
<1>2. ParsedInv /\ [Next]_vars => ParsedInv'
  <2> SUFFICES ASSUME ParsedInv, [Next]_vars PROVE ParsedInv'
    OBVIOUS
  <2>1. CASE read_jobs
    BY <2>1 DEF read_jobs, ParsedInv
  <2>2. CASE UNCHANGED <<root, parsed>>
    BY <2>2 DEF ParsedInv
  <2>3. read_jobs \/ UNCHANGED <<root, parsed>>
    <3> USE DEF ctlVars
    <3>1. CASE \E t \in tasks : \/ \E a \in live : dispatch(t, a) \/ answered(t, a) \/ declined(t, a) \/ no_answer(t, a)
                                \/ \E i \in DOMAIN cmd[t] : start_command(t, i) \/ end_command(t, i)
      BY <3>1 DEF dispatch, answered, declined, no_answer, start_command, end_command
    <3>2. CASE parse_options \/ (\E a \in Agents : connect(a)) \/ join_connects
      BY <3>2 DEF parse_options, connect, join_connects
    <3>3. CASE give_up \/ run_returns \/ write_report
      BY <3>3 DEF give_up, run_returns, write_report
    <3>4. CASE UNCHANGED vars
      BY <3>4 DEF vars
    <3> QED BY <3>1, <3>2, <3>3, <3>4 DEF Next
  <2> QED BY <2>1, <2>2, <2>3
<1> QED BY <1>1, <1>2, PTL DEF Spec

(* parse_jobs accepts a file if and only if nothing is wrong with it, and  *)
(* makes of an accepted one the copies of its entries, in input order,     *)
(* each with the values it is meant to have.                               *)
THEOREM JobFileParsedAsMeant == Spec => []ParsedAsMeant
<1>1. ParsedInv => ParsedAsMeant
  <2>1. parsed = NotParsed => ParsedAsMeant
    BY DEF ParsedAsMeant
  <2> QED BY <2>1, ParsedRight DEF ParsedInv
<1> QED BY <1>1, ParsedInvariant, PTL

(* The tasks of an accepted file have names that identify them, are within *)
(* the limits, and have arguments no agent finds fault with.               *)
THEOREM AcceptedTasksUsable == Spec => []TasksUsable
<1>1. ParsedInv => TasksUsable
  <2>1. parsed = NotParsed => TasksUsable
    <3>1. NotParsed.error # ""
      BY DEF NotParsed
    <3> QED BY <3>1 DEF TasksUsable
  <2> QED BY <2>1, ParsedRight DEF ParsedInv
<1> QED BY <1>1, ParsedInvariant, PTL
=============================================================================
