--------------------------- MODULE ArenaOpsProofs ---------------------------
(***************************************************************************)
(* Lemmas for the arena and for everything kept in one.  First, facts      *)
(* about numbers and sequences, which depend on no constant here: induction *)
(* as a statement about sets of numbers, and what FlattenSeq, which the    *)
(* models use for contents spread over the blocks of an arena, makes of    *)
(* sequences that grow at either end.  Then what every operation of arena.c *)
(* preserves, for any number of blocks, any sizes and any size_t.          *)
(***************************************************************************)
EXTENDS ArenaOps, SequenceTheorems, NaturalsInduction, WellFoundedInduction, TLAPS

LEMMA LeastNumber ==
  ASSUME NEW T \in SUBSET Nat, T # {}
  PROVE  \E x \in T : \A y \in T : x <= y
<1>1. IsWellFoundedOn(OpToRel(<, Nat), Nat)
  BY NatLessThanWellFounded
<1>2. PICK x \in T : \A y \in T : ~(<<y, x>> \in OpToRel(<, Nat))
  BY <1>1, WFMin
<1>3. ASSUME NEW y \in T
      PROVE  x <= y
  <2>1. <<y, x>> \in Nat \X Nat
    OBVIOUS
  <2>2. ~(y < x)
    BY <1>2, <2>1 DEF OpToRel
  <2> QED  BY <2>2
<1> QED  BY <1>3

(* A set that holds the first of some numbers and the successor of each of  *)
(* its members but the last holds them all.                                 *)
LEMMA IntervalInduction ==
  ASSUME NEW m \in Nat, NEW n \in Nat, NEW T, m <= n => m \in T,
         \A i \in m .. n - 1 : i \in T => i + 1 \in T
  PROVE  \A i \in m .. n : i \in T
<1> DEFINE U == {i \in m .. n : i \notin T}
<1>1. SUFFICES ASSUME U # {} PROVE FALSE
  OBVIOUS
<1>2. U \in SUBSET Nat
  OBVIOUS
<1>3. PICK x \in U : \A y \in U : x <= y
  <2> HIDE DEF U
  <2> QED  BY <1>1, <1>2, LeastNumber
<1>4. x # m
  BY <1>3
<1>5. x - 1 \in m .. n - 1 /\ x - 1 \notin U
  BY <1>3, <1>4
<1>6. x - 1 + 1 = x
  BY <1>5
<1> QED  BY <1>3, <1>5, <1>6

LEMMA DownwardInduction ==
  ASSUME NEW m \in Nat, NEW n \in Nat, NEW T, m <= n => n \in T,
         \A i \in m .. n - 1 : i + 1 \in T => i \in T
  PROVE  \A i \in m .. n : i \in T
<1> SUFFICES ASSUME m <= n PROVE \A i \in m .. n : i \in T
  OBVIOUS
<1> DEFINE U == {k \in 0 .. n - m : n - k \in T}
<1>1. 0 \in U
  OBVIOUS
<1>2. ASSUME NEW k \in 0 .. (n - m) - 1, k \in U
      PROVE  k + 1 \in U
  <2>1. /\ n - (k + 1) \in m .. n - 1 /\ (n - (k + 1)) + 1 = n - k
        /\ k + 1 \in 0 .. n - m
    OBVIOUS
  <2>2. n - k \in T
    BY <1>2
  <2>3. (n - (k + 1)) + 1 \in T
    BY <2>1, <2>2
  <2>4. n - (k + 1) \in T
    BY <2>1, <2>3
  <2> QED  BY <2>1, <2>4
<1>3. \A k \in 0 .. n - m : k \in U
  <2>1. n - m \in Nat
    OBVIOUS
  <2> HIDE DEF U
  <2> QED  BY <1>1, <1>2, <2>1, IntervalInduction
<1>4. ASSUME NEW i \in m .. n
      PROVE  i \in T
  <2>1. n - i \in 0 .. n - m /\ n - (n - i) = i
    OBVIOUS
  <2>2. n - (n - i) \in T
    BY <1>3, <2>1
  <2> QED  BY <2>1, <2>2
<1> QED  BY <1>4

(* How many whole d there are in a number of bytes. *)
LEMMA DivIs ==
  ASSUME NEW d \in Nat \ {0}, NEW q \in Int, NEW r \in 0 .. d - 1
  PROVE  (q * d + r) \div d = q
  OBVIOUS

LEMMA MultDiv ==
  ASSUME NEW d \in Nat \ {0}, NEW q \in Nat
  PROVE  (q * d) \div d = q
  OBVIOUS

LEMMA DivMore ==
  ASSUME NEW d \in Nat \ {0}, NEW x \in Nat, NEW k \in Nat
  PROVE  (x + k * d) \div d = (x \div d) + k /\ x \div d \in Nat
<1> DEFINE q == x \div d
<1>1. q \in Nat
  OBVIOUS
<1>2. d * q <= x /\ x < d * q + d
  OBVIOUS
<1> HIDE DEF q
<1>3. x - q * d \in 0 .. d - 1
  <2>1. q * d = d * q /\ q * d \in Nat
    BY <1>1
  <2> QED  BY <1>2, <2>1
<1>4. x + k * d = (q + k) * d + (x - q * d)
  BY <1>1
<1>5. ((q + k) * d + (x - q * d)) \div d = q + k
  BY <1>1, <1>3, DivIs
<1> QED  BY <1>1, <1>4, <1>5 DEF q

-----------------------------------------------------------------------------
(* The recursive function inside FlattenSeq.  Concatenation has a name so   *)
(* that the provers look into it only where a step says so.                 *)
Cat(s, t) == s \o t

LEMMA CatAssociative ==
  ASSUME NEW S, NEW s \in Seq(S), NEW t \in Seq(S), NEW u \in Seq(S)
  PROVE  Cat(Cat(s, t), u) = Cat(s, Cat(t, u))
  BY ConcatAssociative DEF Cat

IsCat(t, s, e, n, k, S) ==
  s \in Seq(S) /\ e \in Seq(S) /\ t = Cat(s, e) /\ n = Len(s) /\ k = Len(e)

Appended(t, s, e, n, k, S) ==
  /\ t \in Seq(S) /\ Len(t) = n + k /\ n \in Nat /\ k \in Nat
  /\ \A i \in 1 .. n : t[i] = s[i]
  /\ \A j \in 1 .. k : t[n + j] = e[j]

LEMMA CatIs ==
  ASSUME NEW S, NEW s, NEW e, NEW t, NEW n, NEW k, IsCat(t, s, e, n, k, S)
  PROVE  Appended(t, s, e, n, k, S)
<1>1. n \in Nat /\ k \in Nat
  BY LenProperties DEF IsCat
<1>2. /\ t \in Seq(S) /\ Len(t) = n + k
      /\ \A i \in 1 .. n + k : t[i] = IF i <= n THEN s[i] ELSE e[i - n]
  BY ConcatProperties DEF Cat, IsCat
<1>3. \A i \in 1 .. n : i \in 1 .. n + k /\ i <= n
  BY <1>1
<1>4. \A j \in 1 .. k : n + j \in 1 .. n + k /\ ~(n + j <= n) /\ (n + j) - n = j
  BY <1>1
<1>5. \A i \in 1 .. n : t[i] = s[i]
  BY <1>2, <1>3
<1>6. ASSUME NEW j \in 1 .. k PROVE t[n + j] = e[j]
  <2>1. t[n + j] = e[(n + j) - n]
    BY <1>2, <1>4
  <2> QED  BY <1>4, <2>1
<1> QED  BY <1>1, <1>2, <1>5, <1>6 DEF Appended

FlattenStep(f, seqs, i) == IF i = 1 THEN seqs[i] ELSE Cat(f[i - 1], seqs[i])
IsFlatten(f, seqs, n) == f = [i \in 1 .. n |-> FlattenStep(f, seqs, i)]

LEMMA FlattenFirst ==
  ASSUME NEW seqs, NEW n \in Nat, n >= 1, NEW f, IsFlatten(f, seqs, n)
  PROVE  f[1] = seqs[1]
<1>1. f[1] = FlattenStep(f, seqs, 1)
  BY DEF IsFlatten
<1> QED  BY <1>1 DEF FlattenStep

LEMMA FlattenNext ==
  ASSUME NEW seqs, NEW n \in Nat, NEW f, IsFlatten(f, seqs, n), NEW i \in 1 .. n - 1
  PROVE  f[i + 1] = Cat(f[i], seqs[i + 1])
<1>1. i + 1 \in 1 .. n /\ i + 1 # 1 /\ i + 1 - 1 = i
  OBVIOUS
<1>2. f[i + 1] = FlattenStep(f, seqs, i + 1)
  BY <1>1 DEF IsFlatten
<1> QED  BY <1>1, <1>2 DEF FlattenStep

LEMMA FlattenExists ==
  ASSUME NEW seqs, NEW n \in Nat
  PROVE  \E f : IsFlatten(f, seqs, n)
<1> DEFINE T == {k \in 0 .. n : \E f : IsFlatten(f, seqs, k)}
<1>1. 0 \in T
  <2>1. IsFlatten([i \in 1 .. 0 |-> 0], seqs, 0)
    BY DEF IsFlatten
  <2> QED  BY <2>1
<1>2. ASSUME NEW k \in 0 .. n - 1, k \in T
      PROVE  k + 1 \in T
  <2>1. PICK f : IsFlatten(f, seqs, k)
    BY <1>2
  <2> DEFINE g == [i \in 1 .. k + 1 |-> FlattenStep(f, seqs, i)]
  <2>2. ASSUME NEW i \in 1 .. k + 1
        PROVE  g[i] = FlattenStep(g, seqs, i)
    <3>1. g[i] = FlattenStep(f, seqs, i)
      OBVIOUS
    <3>2. CASE i = 1
      BY <3>1, <3>2 DEF FlattenStep
    <3>3. CASE i # 1
      <4>1. i - 1 \in 1 .. k
        BY <3>3
      <4>2. f[i - 1] = FlattenStep(f, seqs, i - 1)
        BY <2>1, <4>1 DEF IsFlatten
      <4>3. g[i - 1] = FlattenStep(f, seqs, i - 1)
        BY <4>1
      <4> HIDE DEF g
      <4> QED  BY <3>1, <4>2, <4>3 DEF FlattenStep
    <3> QED  BY <3>2, <3>3
  <2>3. g = [i \in 1 .. k + 1 |-> FlattenStep(g, seqs, i)]
    <3>1. g = [i \in 1 .. k + 1 |-> g[i]]
      OBVIOUS
    <3> HIDE DEF g
    <3> QED  BY <2>2, <3>1
  <2> HIDE DEF g
  <2>4. IsFlatten(g, seqs, k + 1)
    BY <2>3 DEF IsFlatten
  <2> QED  BY <2>4
<1>3. \A k \in 0 .. n : k \in T
  <2> HIDE DEF T
  <2> QED  BY <1>1, <1>2, IntervalInduction
<1> QED  BY <1>3

(* It gives sequences, and depends on the first seqs only. *)
LEMMA FlattenType ==
  ASSUME NEW S, NEW n \in Nat, NEW seqs, \A i \in 1 .. n : seqs[i] \in Seq(S),
         NEW f, IsFlatten(f, seqs, n)
  PROVE  f \in [1 .. n -> Seq(S)]
<1> DEFINE T == {i \in 1 .. n : f[i] \in Seq(S)}
<1>1. 1 <= n => 1 \in T
  <2>1. 1 <= n => f[1] = seqs[1]
    BY FlattenFirst
  <2> QED  BY <2>1
<1>2. ASSUME NEW i \in 1 .. n - 1, i \in T
      PROVE  i + 1 \in T
  <2>1. f[i + 1] = Cat(f[i], seqs[i + 1]) /\ i + 1 \in 1 .. n
    BY FlattenNext
  <2> HIDE DEF T
  <2>2. f[i] \in Seq(S) /\ seqs[i + 1] \in Seq(S)
    BY <1>2, <2>1 DEF T
  <2>3. Cat(f[i], seqs[i + 1]) \in Seq(S)
    BY <2>2, ConcatProperties DEF Cat
  <2> QED  BY <2>1, <2>3 DEF T
<1>3. \A i \in 1 .. n : i \in T
  <2> HIDE DEF T
  <2> QED  BY <1>1, <1>2, IntervalInduction
<1>4. f = [i \in 1 .. n |-> FlattenStep(f, seqs, i)]
  BY DEF IsFlatten
<1> QED  BY <1>3, <1>4

LEMMA FlattenAgrees ==
  ASSUME NEW n \in Nat, NEW s, NEW f, IsFlatten(f, s, n),
         NEW m \in Nat, NEW t, NEW g, IsFlatten(g, t, m),
         n <= m, \A i \in 1 .. n : s[i] = t[i]
  PROVE  \A i \in 1 .. n : f[i] = g[i]
<1> DEFINE T == {i \in 1 .. n : f[i] = g[i]}
<1>1. 1 <= n => 1 \in T
  BY FlattenFirst
<1>2. ASSUME NEW i \in 1 .. n - 1, i \in T
      PROVE  i + 1 \in T
  <2>1. i \in 1 .. m - 1 /\ i + 1 \in 1 .. n
    OBVIOUS
  <2>2. f[i + 1] = Cat(f[i], s[i + 1]) /\ g[i + 1] = Cat(g[i], t[i + 1])
    BY <2>1, FlattenNext
  <2> QED  BY <1>2, <2>1, <2>2
<1>3. \A i \in 1 .. n : i \in T
  <2> HIDE DEF T
  <2> QED  BY <1>1, <1>2, IntervalInduction
<1> QED  BY <1>3

LEMMA FlattenUnfolds ==
  ASSUME NEW S, NEW seqs \in Seq(Seq(S)), Len(seqs) # 0
  PROVE  \E f \in [1 .. Len(seqs) -> Seq(S)] :
            IsFlatten(f, seqs, Len(seqs)) /\ FlattenSeq(seqs) = f[Len(seqs)]
<1>1. Len(seqs) \in Nat
  BY LenProperties
<1>2. \E f : IsFlatten(f, seqs, Len(seqs))
  BY <1>1, FlattenExists
<1> DEFINE f == CHOOSE f : IsFlatten(f, seqs, Len(seqs))
<1>3. IsFlatten(f, seqs, Len(seqs))
  BY <1>2
<1>4. FlattenSeq(seqs) = f[Len(seqs)]
  BY DEF FlattenSeq, IsFlatten, FlattenStep, Cat
<1> HIDE DEF f
<1>5. f \in [1 .. Len(seqs) -> Seq(S)]
  <2>1. \A i \in 1 .. Len(seqs) : seqs[i] \in Seq(S)
    BY LenProperties
  <2> QED  BY <1>1, <1>3, <2>1, FlattenType
<1> QED  BY <1>3, <1>4, <1>5

LEMMA FlattenEmpty ==
  ASSUME NEW S, NEW seqs \in Seq(Seq(S)), Len(seqs) = 0
  PROVE  FlattenSeq(seqs) = <<>>
<1>1. seqs = <<>>
  BY EmptySeq
<1> QED  BY <1>1 DEF FlattenSeq

LEMMA FlattenIsSeq ==
  ASSUME NEW S, NEW seqs \in Seq(Seq(S))
  PROVE  FlattenSeq(seqs) \in Seq(S)
<1>1. CASE Len(seqs) = 0
  BY <1>1, FlattenEmpty, EmptySeq
<1>2. CASE Len(seqs) # 0
  <2>1. PICK f \in [1 .. Len(seqs) -> Seq(S)] : FlattenSeq(seqs) = f[Len(seqs)]
    BY <1>2, FlattenUnfolds
  <2>2. Len(seqs) \in 1 .. Len(seqs)
    BY <1>2, LenProperties
  <2> QED  BY <2>1, <2>2
<1> QED  BY <1>1, <1>2

LEMMA FlattenOne ==
  ASSUME NEW S, NEW seqs \in Seq(Seq(S)), Len(seqs) = 1
  PROVE  FlattenSeq(seqs) = seqs[1]
<1>1. PICK f \in [1 .. Len(seqs) -> Seq(S)] :
        IsFlatten(f, seqs, Len(seqs)) /\ FlattenSeq(seqs) = f[Len(seqs)]
  BY FlattenUnfolds
<1> QED  BY <1>1, FlattenFirst

(* One more sequence behind the others. *)
LEMMA FlattenLast ==
  ASSUME NEW n \in Nat \ {0}, NEW s, NEW t, \A i \in 1 .. n : t[i] = s[i],
         NEW f, IsFlatten(f, s, n), NEW g, IsFlatten(g, t, n + 1)
  PROVE  g[n + 1] = Cat(f[n], t[n + 1])
<1>1. n \in Nat /\ n + 1 \in Nat /\ n <= n + 1 /\ n \in 1 .. (n + 1) - 1 /\ n \in 1 .. n
  OBVIOUS
<1>2. f[n] = g[n]
  BY <1>1, FlattenAgrees
<1>3. g[n + 1] = Cat(g[n], t[n + 1])
  BY <1>1, FlattenNext
<1> QED  BY <1>2, <1>3

LEMMA FlattenSnoc ==
  ASSUME NEW S, NEW seqs \in Seq(Seq(S)), NEW more \in Seq(Seq(S)),
         NEW n \in Nat, Len(seqs) = n, Len(more) = n + 1,
         \A i \in 1 .. n : more[i] = seqs[i]
  PROVE  FlattenSeq(more) = FlattenSeq(seqs) \o more[n + 1]
<1>1. CASE n = 0
  <2>1. Len(more) = 1 /\ Len(seqs) = 0
    BY <1>1
  <2>2. FlattenSeq(more) = more[1]
    BY <2>1, FlattenOne
  <2>3. FlattenSeq(seqs) = <<>>
    BY <2>1, FlattenEmpty
  <2>4. more[1] \in Seq(S)
    BY <2>1, LenProperties
  <2> QED  BY <1>1, <2>2, <2>3, <2>4, ConcatEmptySeq
<1>2. CASE n # 0
  <2>1. Len(seqs) # 0 /\ Len(more) # 0
    BY <1>2
  <2>2. PICK f \in [1 .. Len(seqs) -> Seq(S)] :
          IsFlatten(f, seqs, Len(seqs)) /\ FlattenSeq(seqs) = f[Len(seqs)]
    BY <2>1, FlattenUnfolds
  <2>3. PICK g \in [1 .. Len(more) -> Seq(S)] :
          IsFlatten(g, more, Len(more)) /\ FlattenSeq(more) = g[Len(more)]
    BY <2>1, FlattenUnfolds
  <2>4. IsFlatten(f, seqs, n) /\ IsFlatten(g, more, n + 1)
    BY <2>2, <2>3
  <2>5. g[n + 1] = Cat(f[n], more[n + 1])
    BY <1>2, <2>4, FlattenLast, ZenonT(60)
  <2> QED  BY <2>2, <2>3, <2>5 DEF Cat
<1> QED  BY <1>1, <1>2

(* One more sequence in front of the others. *)
FirstAdded(n, s, t) ==
  \E S : /\ t[1] \in Seq(S)
         /\ \A i \in 1 .. n : s[i] \in Seq(S) /\ t[i + 1] = s[i]

LEMMA FlattenRest ==
  ASSUME NEW n \in Nat \ {0}, NEW s, NEW t, FirstAdded(n, s, t),
         NEW m, m = n + 1, NEW f, IsFlatten(f, s, n), NEW g, IsFlatten(g, t, m)
  PROVE  g[m] = Cat(t[1], f[n])
<1> DEFINE T == {i \in 1 .. n : g[i + 1] = Cat(t[1], f[i])}
<1>1. n \in Nat /\ n >= 1 /\ n + 1 \in Nat /\ n + 1 >= 1 /\ n \in 1 .. n
  OBVIOUS
<1>0. PICK S :
      /\ t[1] \in Seq(S)
      /\ \A i \in 1 .. n : s[i] \in Seq(S)
      /\ \A i \in 1 .. n : t[i + 1] = s[i]
  BY DEF FirstAdded
<1>2. f \in [1 .. n -> Seq(S)]
  BY <1>0, <1>1, FlattenType
<1>3. 1 \in T
  <2>1. f[1] = s[1] /\ g[1] = t[1]
    BY <1>1, FlattenFirst
  <2>2. 1 \in 1 .. (n + 1) - 1 /\ 1 \in 1 .. n
    BY <1>1
  <2>3. g[1 + 1] = Cat(g[1], t[1 + 1])
    BY <1>1, <2>2, FlattenNext
  <2> QED  BY <1>0, <2>1, <2>2, <2>3
<1>4. ASSUME NEW i \in 1 .. n - 1, i \in T
      PROVE  i + 1 \in T
  <2>1. i + 1 \in 1 .. n /\ i \in 1 .. n /\ i + 1 \in 1 .. (n + 1) - 1
    OBVIOUS
  <2>2. g[(i + 1) + 1] = Cat(g[i + 1], t[(i + 1) + 1])
    BY <1>1, <2>1, FlattenNext
  <2>3. f[i + 1] = Cat(f[i], s[i + 1])
    BY <1>1, FlattenNext
  <2>4. t[(i + 1) + 1] = s[i + 1] /\ f[i] \in Seq(S) /\ s[i + 1] \in Seq(S)
    BY <1>0, <1>2, <2>1
  <2>5. Cat(Cat(t[1], f[i]), s[i + 1]) = Cat(t[1], Cat(f[i], s[i + 1]))
    BY <1>0, <2>4, CatAssociative
  <2>6. g[i + 1] = Cat(t[1], f[i])
    BY <1>4
  <2> QED  BY <2>1, <2>2, <2>3, <2>4, <2>5, <2>6
<1>5. \A i \in 1 .. n : i \in T
  <2> HIDE DEF T
  <2> QED  BY <1>1, <1>3, <1>4, IntervalInduction
<1> QED  BY <1>1, <1>5

(* x is what the last point of such a function is. *)
IsFlattened(x, s, n) == \E f : IsFlatten(f, s, n) /\ x = f[n]

LEMMA FlattenedRest ==
  ASSUME NEW n \in Nat \ {0}, NEW s, NEW t, FirstAdded(n, s, t),
         NEW x, IsFlattened(x, s, n), NEW y, IsFlattened(y, t, n + 1)
  PROVE  y = Cat(t[1], x)
<1>1. PICK f : IsFlatten(f, s, n) /\ x = f[n]
  BY DEF IsFlattened
<1>2. PICK g : IsFlatten(g, t, n + 1) /\ y = g[n + 1]
  BY DEF IsFlattened
<1>3. g[n + 1] = Cat(t[1], f[n])
  BY <1>1, <1>2, FlattenRest
<1> QED  BY <1>1, <1>2, <1>3

LEMMA FlattenCons ==
  ASSUME NEW S, NEW seqs \in Seq(Seq(S)), NEW more \in Seq(Seq(S)),
         NEW n \in Nat, Len(seqs) = n, Len(more) = n + 1,
         \A i \in 1 .. n : more[i + 1] = seqs[i]
  PROVE  FlattenSeq(more) = more[1] \o FlattenSeq(seqs)
<1>1. /\ \A i \in 1 .. n + 1 : more[i] \in Seq(S)
      /\ \A i \in 1 .. n : seqs[i] \in Seq(S)
  BY LenProperties
<1>2. more[1] \in Seq(S)
  BY <1>1
<1>3. CASE n = 0
  <2>1. Len(more) = 1 /\ Len(seqs) = 0
    BY <1>3
  <2>2. FlattenSeq(more) = more[1]
    BY <2>1, FlattenOne
  <2>3. FlattenSeq(seqs) = <<>>
    BY <2>1, FlattenEmpty
  <2> QED  BY <1>2, <2>2, <2>3, ConcatEmptySeq
<1>4. CASE n # 0
  <2>1. Len(seqs) # 0 /\ Len(more) # 0
    BY <1>4
  <2>2. IsFlattened(FlattenSeq(seqs), seqs, n)
    BY <2>1, FlattenUnfolds DEF IsFlattened
  <2>3. IsFlattened(FlattenSeq(more), more, n + 1)
    BY <2>1, FlattenUnfolds, ZenonT(60) DEF IsFlattened
  <2>4. FirstAdded(n, seqs, more)
    BY <1>1, <1>2 DEF FirstAdded
  <2>5. FlattenSeq(more) = Cat(more[1], FlattenSeq(seqs))
    BY <1>4, <2>2, <2>3, <2>4, FlattenedRest, SMTT(60)
  <2> QED  BY <2>5 DEF Cat
<1> QED  BY <1>3, <1>4
(* The first or the last of the sequences grows. *)
AreSeqs(s, t, u) == \E S : s \in Seq(S) /\ t \in Seq(S) /\ u \in Seq(S)

LEMMA CatRegroup ==
  ASSUME NEW s, NEW t, NEW u, AreSeqs(s, t, u)
  PROVE  Cat(Cat(s, t), u) = Cat(s, Cat(t, u))
  BY CatAssociative DEF AreSeqs

FirstGrows(S, seqs, more, n, e) ==
  /\ seqs \in Seq(Seq(S)) /\ more \in Seq(Seq(S)) /\ e \in Seq(S)
  /\ n \in Nat \ {0} /\ Len(seqs) = n /\ Len(more) = n
  /\ more[1] = e \o seqs[1] /\ \A i \in 2 .. n : more[i] = seqs[i]

LEMMA FlattenFirstGrown ==
  ASSUME NEW S, NEW seqs, NEW more, NEW n, NEW e, FirstGrows(S, seqs, more, n, e)
  PROVE  FlattenSeq(more) = e \o FlattenSeq(seqs)
<1> USE DEF FirstGrows
<1> DEFINE rest == [i \in 1 .. n - 1 |-> seqs[i + 1]]
<1>1. rest \in Seq(Seq(S)) /\ Len(rest) = n - 1
  <2>1. \A i \in 1 .. n - 1 : seqs[i + 1] \in Seq(S)
    <3>1. \A i \in 1 .. n : seqs[i] \in Seq(S)
      BY ElementOfSeq
    <3> QED  BY <3>1
  <2>2. n - 1 \in Nat
    OBVIOUS
  <2>3. rest \in [1 .. n - 1 -> Seq(S)]
    BY <2>1
  <2> HIDE DEF rest
  <2>4. rest \in Seq(Seq(S))
    BY <2>2, <2>3, SeqDef
  <2> QED  BY <2>2, <2>3, <2>4, LenProperties
<1>2. \A i \in 1 .. n - 1 : seqs[i + 1] = rest[i] /\ more[i + 1] = rest[i]
  OBVIOUS
<1> HIDE DEF rest
<1>3. n - 1 \in Nat /\ (n - 1) + 1 = n
  OBVIOUS
<1>4. FlattenSeq(seqs) = seqs[1] \o FlattenSeq(rest)
  <2>1. Len(seqs) = (n - 1) + 1 /\ \A i \in 1 .. n - 1 : seqs[i + 1] = rest[i]
    BY <1>2
  <2> QED  BY <1>1, <1>3, <2>1, FlattenCons
<1>5. FlattenSeq(more) = more[1] \o FlattenSeq(rest)
  <2>1. Len(more) = (n - 1) + 1 /\ \A i \in 1 .. n - 1 : more[i + 1] = rest[i]
    BY <1>2
  <2> QED  BY <1>1, <1>3, <2>1, FlattenCons
<1>6. seqs[1] \in Seq(S) /\ FlattenSeq(rest) \in Seq(S)
  BY <1>1, FlattenIsSeq, ElementOfSeq
<1>7. AreSeqs(e, seqs[1], FlattenSeq(rest))
  BY <1>6 DEF AreSeqs
<1>8. Cat(Cat(e, seqs[1]), FlattenSeq(rest)) = Cat(e, Cat(seqs[1], FlattenSeq(rest)))
  BY <1>7, CatRegroup
<1> QED  BY <1>4, <1>5, <1>8 DEF Cat

LastGrows(S, seqs, more, n, e) ==
  /\ seqs \in Seq(Seq(S)) /\ more \in Seq(Seq(S)) /\ e \in Seq(S)
  /\ n \in Nat \ {0} /\ Len(seqs) = n /\ Len(more) = n
  /\ more[n] = seqs[n] \o e /\ \A i \in 1 .. n - 1 : more[i] = seqs[i]

LEMMA FlattenLastGrown ==
  ASSUME NEW S, NEW seqs, NEW more, NEW n, NEW e, LastGrows(S, seqs, more, n, e)
  PROVE  FlattenSeq(more) = FlattenSeq(seqs) \o e
<1> USE DEF LastGrows
<1> DEFINE front == [i \in 1 .. n - 1 |-> seqs[i]]
<1>1. front \in Seq(Seq(S)) /\ Len(front) = n - 1
  <2>1. \A i \in 1 .. n - 1 : seqs[i] \in Seq(S)
    BY ElementOfSeq
  <2>2. n - 1 \in Nat
    OBVIOUS
  <2>3. front \in [1 .. n - 1 -> Seq(S)]
    BY <2>1
  <2> HIDE DEF front
  <2>4. front \in Seq(Seq(S))
    BY <2>2, <2>3, SeqDef
  <2> QED  BY <2>2, <2>3, <2>4, LenProperties
<1>2. \A i \in 1 .. n - 1 : seqs[i] = front[i] /\ more[i] = front[i]
  OBVIOUS
<1> HIDE DEF front
<1>3. n - 1 \in Nat /\ (n - 1) + 1 = n
  OBVIOUS
<1>4. FlattenSeq(seqs) = FlattenSeq(front) \o seqs[n]
  <2>1. Len(seqs) = (n - 1) + 1 /\ \A i \in 1 .. n - 1 : seqs[i] = front[i]
    BY <1>2
  <2>2. FlattenSeq(seqs) = FlattenSeq(front) \o seqs[(n - 1) + 1]
    BY <1>1, <1>3, <2>1, FlattenSnoc, ZenonT(60)
  <2> QED  BY <1>3, <2>2
<1>5. FlattenSeq(more) = FlattenSeq(front) \o more[n]
  <2>1. Len(more) = (n - 1) + 1 /\ \A i \in 1 .. n - 1 : more[i] = front[i]
    BY <1>2
  <2>2. FlattenSeq(more) = FlattenSeq(front) \o more[(n - 1) + 1]
    BY <1>1, <1>3, <2>1, FlattenSnoc, ZenonT(60)
  <2> QED  BY <1>3, <2>2
<1>6. seqs[n] \in Seq(S) /\ FlattenSeq(front) \in Seq(S)
  BY <1>1, FlattenIsSeq, ElementOfSeq
<1>7. AreSeqs(FlattenSeq(front), seqs[n], e)
  BY <1>6 DEF AreSeqs
<1>8. Cat(Cat(FlattenSeq(front), seqs[n]), e) = Cat(FlattenSeq(front), Cat(seqs[n], e))
  BY <1>7, CatRegroup
<1> QED  BY <1>4, <1>5, <1>8 DEF Cat

(* Flattening keeps all elements and adds none. *)
HoldsSeqs(seqs, n) == \E S : \A i \in 1 .. n : seqs[i] \in Seq(S)

LEMMA FlattenFunctionRange ==
  ASSUME NEW n \in Nat, NEW seqs, HoldsSeqs(seqs, n), NEW f, IsFlatten(f, seqs, n)
  PROVE  \A i \in 1 .. n : Range(f[i]) = UNION {Range(seqs[j]) : j \in 1 .. i}
<1>0. PICK S : \A i \in 1 .. n : seqs[i] \in Seq(S)
  BY DEF HoldsSeqs
<1> DEFINE T == {i \in 1 .. n : Range(f[i]) = UNION {Range(seqs[j]) : j \in 1 .. i}}
<1>1. 1 <= n => 1 \in T
  <2>1. 1 <= n => f[1] = seqs[1]
    BY FlattenFirst
  <2>2. {Range(seqs[j]) : j \in 1 .. 1} = {Range(seqs[1])}
    OBVIOUS
  <2>3. UNION {Range(seqs[1])} = Range(seqs[1])
    OBVIOUS
  <2> QED  BY <2>1, <2>2, <2>3
<1>2. ASSUME NEW i \in 1 .. n - 1, i \in T
      PROVE  i + 1 \in T
  <2>1. f[i + 1] = Cat(f[i], seqs[i + 1]) /\ i + 1 \in 1 .. n /\ i \in 1 .. n
    BY FlattenNext
  <2>2. f[i] \in Seq(S) /\ seqs[i + 1] \in Seq(S)
    BY <1>0, <2>1, FlattenType
  <2>3. Range(Cat(f[i], seqs[i + 1])) = Range(f[i]) \cup Range(seqs[i + 1])
    BY <2>2, RangeConcatenation DEF Cat
  <2>4. Range(f[i]) = UNION {Range(seqs[j]) : j \in 1 .. i}
    BY <1>2
  <2>5. \A j : j \in 1 .. i + 1 <=> j \in 1 .. i \/ j = i + 1
    BY <2>1
  <2> DEFINE R(j) == Range(seqs[j])
  <2>6. UNION {R(j) : j \in 1 .. i + 1} = (UNION {R(j) : j \in 1 .. i}) \cup R(i + 1)
    <3> HIDE DEF R
    <3> QED  BY <2>5
  <2>7. Range(f[i + 1]) = UNION {Range(seqs[j]) : j \in 1 .. i + 1}
    BY <2>1, <2>3, <2>4, <2>6
  <2> QED  BY <2>1, <2>7
<1>3. \A i \in 1 .. n : i \in T
  <2> HIDE DEF T
  <2> QED  BY <1>1, <1>2, IntervalInduction
<1> QED  BY <1>3

LEMMA FlattenRange ==
  ASSUME NEW S, NEW seqs \in Seq(Seq(S))
  PROVE  Range(FlattenSeq(seqs)) = UNION {Range(seqs[j]) : j \in 1 .. Len(seqs)}
<1>1. Len(seqs) \in Nat /\ \A i \in 1 .. Len(seqs) : seqs[i] \in Seq(S)
  BY LenProperties, ElementOfSeq
<1>4. HoldsSeqs(seqs, Len(seqs))
  BY <1>1 DEF HoldsSeqs
<1>2. CASE Len(seqs) = 0
  <2>1. FlattenSeq(seqs) = <<>>
    BY <1>2, FlattenEmpty
  <2>2. Range(<<>>) = {}
    BY DEF Range
  <2> QED  BY <1>2, <2>1, <2>2
<1>3. CASE Len(seqs) # 0
  <2>1. PICK f : IsFlatten(f, seqs, Len(seqs)) /\ FlattenSeq(seqs) = f[Len(seqs)]
    BY <1>3, FlattenUnfolds
  <2>2. Len(seqs) \in 1 .. Len(seqs)
    BY <1>1, <1>3
  <2>3. \A i \in 1 .. Len(seqs) :
          Range(f[i]) = UNION {Range(seqs[j]) : j \in 1 .. i}
    BY <1>1, <1>4, <2>1, FlattenFunctionRange, ZenonT(60)
  <2> QED  BY <2>1, <2>2, <2>3
<1> QED  BY <1>2, <1>3

-----------------------------------------------------------------------------
(* A sequence read through a function. *)
Mapped(f, s) == [i \in DOMAIN s |-> f[s[i]]]

ReadsInto(f, s, T) == \A x \in Range(s) : f[x] \in T

LEMMA MappedType ==
  ASSUME NEW S, NEW T, NEW f, NEW s \in Seq(S), ReadsInto(f, s, T)
  PROVE  Mapped(f, s) \in Seq(T) /\ Len(Mapped(f, s)) = Len(s)
<1>1. /\ Len(s) \in Nat /\ DOMAIN s = 1 .. Len(s)
      /\ \A i \in 1 .. Len(s) : s[i] \in Range(s)
  BY LenProperties DEF Range
<1> DEFINE t == Mapped(f, s)
<1>2. t \in [1 .. Len(s) -> T]
  BY <1>1 DEF Mapped, ReadsInto
<1> HIDE DEF t
<1>3. t \in Seq(T)
  BY <1>1, <1>2, SeqDef
<1>4. Len(t) = Len(s)
  BY <1>1, <1>2, <1>3, LenProperties
<1> QED  BY <1>3, <1>4 DEF t

LEMMA MappedSame ==
  ASSUME NEW f, NEW g, NEW s, \A x \in Range(s) : g[x] = f[x]
  PROVE  Mapped(g, s) = Mapped(f, s)
  BY DEF Mapped, Range

ReadsOneMore(f, p, s, S, T) ==
  p \in S /\ s \in Seq(S) /\ f[p] \in T /\ ReadsInto(f, s, T)

LEMMA MappedCons ==
  ASSUME NEW S, NEW T, NEW f, NEW p, NEW s, ReadsOneMore(f, p, s, S, T)
  PROVE  /\ Mapped(f, Cons(p, s)) = Cons(f[p], Mapped(f, s))
         /\ Range(Cons(p, s)) = {p} \cup Range(s)
<1>0. p \in S /\ s \in Seq(S) /\ f[p] \in T /\ ReadsInto(f, s, T)
  BY DEF ReadsOneMore
<1>1. <<p>> \in Seq(S) /\ Len(<<p>>) = 1 /\ <<p>>[1] = p
  BY <1>0
<1>2. /\ <<p>> \o s \in Seq(S) /\ Len(<<p>> \o s) = Len(s) + 1 /\ Len(s) \in Nat
      /\ \A i \in 1 .. Len(s) + 1 :
           (<<p>> \o s)[i] = IF i <= 1 THEN <<p>>[i] ELSE s[i - 1]
  BY <1>0, <1>1, ConcatProperties, LenProperties
<1>3. Range(<<p>>) = {p}
  BY <1>1 DEF Range
<1>4. Range(<<p>> \o s) = {p} \cup Range(s)
  <2>1. Range(<<p>> \o s) = Range(<<p>>) \cup Range(s)
    BY <1>0, <1>1, RangeConcatenation, ZenonT(60)
  <2> HIDE DEF Range
  <2> QED  BY <1>3, <2>1
<1> DEFINE w == <<p>> \o s
           t == Mapped(f, w)
           u == Mapped(f, s)
<1> HIDE DEF w
<1>5. /\ t \in Seq(T) /\ Len(t) = Len(s) + 1
      /\ \A i \in 1 .. Len(s) + 1 : t[i] = f[w[i]]
  <2>1. w \in Seq(S) /\ ReadsInto(f, w, T)
    BY <1>0, <1>2, <1>4 DEF w, ReadsInto
  <2>2. DOMAIN w = 1 .. Len(s) + 1
    BY <1>2, LenProperties DEF w
  <2>3. Len(w) = Len(s) + 1
    BY <1>2 DEF w
  <2>4. t \in Seq(T) /\ Len(t) = Len(s) + 1
    BY <2>1, <2>3, MappedType
  <2> QED  BY <2>2, <2>4 DEF Mapped
<1>6. /\ u \in Seq(T) /\ Len(u) = Len(s)
      /\ \A i \in 1 .. Len(s) : u[i] = f[s[i]]
  BY <1>0, MappedType, LenProperties DEF Mapped
<1> HIDE DEF t, u
<1> DEFINE e == f[p]
<1>7. <<e>> \in Seq(T) /\ Len(<<e>>) = 1 /\ <<e>>[1] = e
  BY <1>0
<1>8. /\ <<e>> \o u \in Seq(T) /\ Len(<<e>> \o u) = Len(s) + 1
      /\ \A i \in 1 .. Len(s) + 1 :
           (<<e>> \o u)[i] = IF i <= 1 THEN <<e>>[i] ELSE u[i - 1]
  <2> HIDE DEF e
  <2> QED  BY <1>2, <1>6, <1>7, ConcatProperties
<1>9. ASSUME NEW i \in 1 .. Len(s) + 1
      PROVE  t[i] = (<<e>> \o u)[i]
  <2>1. CASE i = 1
    BY <1>1, <1>2, <1>5, <1>7, <1>8, <2>1 DEF w
  <2>2. CASE i # 1
    <3>1. i - 1 \in 1 .. Len(s) /\ ~(i <= 1)
      BY <1>2, <2>2
    <3>2. w[i] = s[i - 1] /\ (<<e>> \o u)[i] = u[i - 1]
      BY <1>2, <1>8, <3>1 DEF w
    <3> QED  BY <1>5, <1>6, <3>1, <3>2
  <2> QED  BY <2>1, <2>2
<1>10. t = <<e>> \o u
  <2> HIDE DEF e
  <2> QED  BY <1>2, <1>5, <1>8, <1>9, SeqEqual
<1> QED  BY <1>4, <1>10 DEF t, u, w, Cons

LEMMA EmptyRange ==
  ASSUME NEW S, NEW s \in Seq(S), Range(s) = {}
  PROVE  s = <<>>
<1>1. Len(s) \in Nat /\ DOMAIN s = 1 .. Len(s)
  BY LenProperties
<1>2. Len(s) # 0 => s[1] \in Range(s)
  BY <1>1 DEF Range
<1> QED  BY <1>1, <1>2, EmptySeq

LEMMA HeadTailOfCons ==
  ASSUME NEW T, NEW e \in T, NEW u \in Seq(T)
  PROVE  /\ <<e>> \o u # <<>>
         /\ Head(<<e>> \o u) = e
         /\ Tail(<<e>> \o u) = u
<1>1. <<e>> \in Seq(T) /\ Len(<<e>>) = 1 /\ <<e>>[1] = e
  OBVIOUS
<1>2. /\ <<e>> \o u \in Seq(T) /\ Len(<<e>> \o u) = Len(u) + 1 /\ Len(u) \in Nat
      /\ \A i \in 1 .. Len(u) + 1 :
           (<<e>> \o u)[i] = IF i <= 1 THEN <<e>>[i] ELSE u[i - 1]
  BY <1>1, ConcatProperties, LenProperties
<1> DEFINE w == <<e>> \o u
<1> HIDE DEF w
<1>3. /\ w \in Seq(T) /\ Len(w) = Len(u) + 1 /\ w[1] = e
      /\ \A i \in 1 .. Len(u) : w[i + 1] = u[i]
  <2>1. w[1] = e
    BY <1>1, <1>2 DEF w
  <2>2. ASSUME NEW i \in 1 .. Len(u)
        PROVE  w[i + 1] = u[i]
    <3>1. i + 1 \in 1 .. Len(u) + 1 /\ ~(i + 1 <= 1) /\ (i + 1) - 1 = i
      BY <1>2
    <3> QED  BY <1>2, <3>1 DEF w
  <2> QED  BY <1>2, <2>1, <2>2 DEF w
<1>4. w # <<>>
  BY <1>2, <1>3, EmptySeq
<1>5. Head(w) = e
  BY <1>3, <1>4
<1>6. /\ Tail(w) \in Seq(T) /\ Len(Tail(w)) = Len(u)
      /\ \A i \in 1 .. Len(u) : Tail(w)[i] = w[i + 1]
  BY <1>2, <1>3, <1>4, HeadTailProperties
<1>7. Tail(w) = u
  BY <1>3, <1>6, SeqEqual
<1> QED  BY <1>4, <1>5, <1>7 DEF w

-----------------------------------------------------------------------------
(* A while loop over a finite or infinite set of places, as a recursive     *)
(* function: it answers val at the places where it stops and moves to step  *)
(* from the others.  Such a function exists even if the loop never stops    *)
(* from some of them.                                                       *)
LoopAt(f, stop, val, step, x) == IF x \in stop THEN val[x] ELSE f[step[x]]
IsLoop(f, D, stop, val, step) == f = [x \in D |-> LoopAt(f, stop, val, step, x)]

LoopClosed(T, stop, step) == \A y \in T : y \notin stop => step[y] \in T
LoopReach(x, D, stop, step) ==
  {y \in D : \A T \in SUBSET D : x \in T /\ LoopClosed(T, stop, step) => y \in T}

LEMMA LoopReachClosed ==
  ASSUME NEW D, NEW stop, NEW step, \A x \in D \ stop : step[x] \in D, NEW x \in D
  PROVE  /\ x \in LoopReach(x, D, stop, step)
         /\ LoopClosed(LoopReach(x, D, stop, step), stop, step)
<1>1. x \in LoopReach(x, D, stop, step)
  BY DEF LoopReach
<1>2. ASSUME NEW y \in LoopReach(x, D, stop, step), y \notin stop
      PROVE  step[y] \in LoopReach(x, D, stop, step)
  <2>1. y \in D /\ step[y] \in D
    BY <1>2 DEF LoopReach
  <2>2. ASSUME NEW T \in SUBSET D, x \in T, LoopClosed(T, stop, step)
        PROVE  step[y] \in T
    <3>1. y \in T
      BY <2>2 DEF LoopReach
    <3> QED  BY <1>2, <2>2, <3>1 DEF LoopClosed
  <2> QED  BY <2>1, <2>2 DEF LoopReach
<1> QED  BY <1>1, <1>2 DEF LoopClosed

LEMMA LoopEnds ==
  ASSUME NEW D, NEW stop \in SUBSET D, NEW step, \A x \in D \ stop : step[x] \in D,
         NEW x \in D
  PROVE  LoopReach(x, D, stop, step) \cap stop
           = IF x \in stop THEN {x} ELSE LoopReach(step[x], D, stop, step) \cap stop
<1> DEFINE R(y) == LoopReach(y, D, stop, step)
<1>1. x \in R(x)
  BY LoopReachClosed
<1>2. CASE x \in stop
  <2>1. LoopClosed({x}, stop, step) /\ {x} \in SUBSET D
    BY <1>2 DEF LoopClosed
  <2>2. R(x) \subseteq {x}
    BY <2>1 DEF LoopReach
  <2> QED  BY <1>1, <1>2, <2>2
<1>3. CASE x \notin stop
  <2>1. step[x] \in D
    BY <1>3
  <2>2. step[x] \in R(step[x]) /\ LoopClosed(R(step[x]), stop, step)
    BY <2>1, LoopReachClosed
  <2>3. R(step[x]) \in SUBSET D
    BY DEF LoopReach
  <2>4. LoopClosed({x} \cup R(step[x]), stop, step)
    BY <2>2 DEF LoopClosed
  <2>5. R(x) \subseteq {x} \cup R(step[x])
    <3> DEFINE T == {x} \cup R(step[x])
    <3>1. T \in SUBSET D /\ x \in T /\ LoopClosed(T, stop, step)
      BY <2>3, <2>4
    <3> HIDE DEF T
    <3>2. R(x) \subseteq T
      BY <3>1 DEF LoopReach
    <3> QED  BY <3>2 DEF T
  <2>6. R(step[x]) \subseteq R(x)
    <3>1. ASSUME NEW y \in R(step[x]), NEW T \in SUBSET D, x \in T,
                 LoopClosed(T, stop, step)
          PROVE  y \in T
      <4>1. step[x] \in T
        BY <1>3, <3>1 DEF LoopClosed
      <4> QED  BY <3>1, <4>1 DEF LoopReach
    <3>2. \A y \in R(step[x]) : y \in D
      BY <2>3
    <3> QED  BY <3>1, <3>2 DEF LoopReach
  <2> HIDE DEF R
  <2>7. R(x) \cap stop = R(step[x]) \cap stop
    BY <1>3, <2>5, <2>6
  <2> QED  BY <1>3, <2>7 DEF R
<1> QED  BY <1>2, <1>3

LEMMA LoopExists ==
  ASSUME NEW D, NEW stop \in SUBSET D, NEW val, NEW step,
         \A x \in D \ stop : step[x] \in D
  PROVE  \E f : IsLoop(f, D, stop, val, step)
<1> DEFINE Ends(x) == LoopReach(x, D, stop, step) \cap stop
           f == [x \in D |-> val[CHOOSE y : y \in Ends(x)]]
<1>1. ASSUME NEW x \in D
      PROVE  f[x] = LoopAt(f, stop, val, step, x)
  <2>1. Ends(x) = IF x \in stop THEN {x} ELSE Ends(step[x])
    BY LoopEnds
  <2>4. f[x] = val[CHOOSE y : y \in Ends(x)]
    OBVIOUS
  <2>2. CASE x \in stop
    <3> HIDE DEF f
    <3>1. (CHOOSE y : y \in Ends(x)) = x
      <4> HIDE DEF Ends
      <4> QED  BY <2>1, <2>2
    <3> HIDE DEF Ends
    <3> QED  BY <2>2, <2>4, <3>1 DEF LoopAt
  <2>3. CASE x \notin stop
    <3>1. step[x] \in D
      BY <2>3
    <3> HIDE DEF Ends
    <3>2. f[x] = f[step[x]]
      BY <2>1, <2>3, <3>1
    <3> QED  BY <2>3, <3>2 DEF LoopAt
  <2> QED  BY <2>2, <2>3
<1>2. f = [x \in D |-> LoopAt(f, stop, val, step, x)]
  <2>1. f = [x \in D |-> f[x]]
    OBVIOUS
  <2> HIDE DEF f
  <2> QED  BY <1>1, <2>1
<1> HIDE DEF f
<1> QED  BY <1>2 DEF IsLoop

-----------------------------------------------------------------------------
(* Two lists of sequences, one behind the other; a mapped concatenation; a  *)
(* worklist that is written top first and read bottom first.                *)
Prefix(u, m) == [i \in 1 .. m |-> u[i]]

LEMMA PrefixType ==
  ASSUME NEW S, NEW u \in Seq(S), NEW m \in 0 .. Len(u)
  PROVE  Prefix(u, m) \in Seq(S) /\ Len(Prefix(u, m)) = m
<1>1. Len(u) \in Nat /\ \A i \in 1 .. Len(u) : u[i] \in S
  BY LenProperties
<1>2. m \in Nat /\ \A i \in 1 .. m : i \in 1 .. Len(u)
  BY <1>1
<1> DEFINE s == Prefix(u, m)
<1>3. s \in [1 .. m -> S]
  BY <1>1, <1>2 DEF Prefix
<1> HIDE DEF s
<1>4. s \in Seq(S)
  BY <1>2, <1>3, SeqDef
<1>5. Len(s) = m
  BY <1>2, <1>3, <1>4, LenProperties
<1> QED  BY <1>4, <1>5 DEF s

LEMMA PrefixWhole ==
  ASSUME NEW S, NEW u \in Seq(S)
  PROVE  Prefix(u, Len(u)) = u
  BY LenProperties DEF Prefix

LEMMA FlattenPrefix ==
  ASSUME NEW S, NEW u \in Seq(Seq(S)), NEW m \in 0 .. Len(u) - 1
  PROVE  FlattenSeq(Prefix(u, m + 1)) = Cat(FlattenSeq(Prefix(u, m)), u[m + 1])
<1>1. Len(u) \in Nat /\ m \in Nat /\ m \in 0 .. Len(u) /\ m + 1 \in 0 .. Len(u)
  BY LenProperties
<1> DEFINE s == Prefix(u, m)
           t == Prefix(u, m + 1)
<1>2. /\ s \in Seq(Seq(S)) /\ Len(s) = m /\ t \in Seq(Seq(S)) /\ Len(t) = m + 1
  BY <1>1, PrefixType
<1>3. t[m + 1] = u[m + 1] /\ \A i \in 1 .. m : t[i] = s[i]
  BY <1>1 DEF Prefix
<1> HIDE DEF s, t
<1>4. FlattenSeq(t) = FlattenSeq(s) \o t[m + 1]
  BY <1>1, <1>2, <1>3, FlattenSnoc
<1> QED  BY <1>3, <1>4 DEF s, t, Cat

LEMMA FlattenCat ==
  ASSUME NEW S, NEW s \in Seq(Seq(S)), NEW t \in Seq(Seq(S))
  PROVE  FlattenSeq(Cat(s, t)) = Cat(FlattenSeq(s), FlattenSeq(t))
<1> DEFINE u == Cat(s, t)
           n == Len(s)
           k == Len(t)
           T == {j \in 0 .. k : FlattenSeq(Prefix(u, n + j))
                                  = Cat(FlattenSeq(s), FlattenSeq(Prefix(t, j)))}
<1>1. IsCat(u, s, t, n, k, Seq(S))
  BY DEF IsCat
<1>2. Appended(u, s, t, n, k, Seq(S))
  BY <1>1, CatIs
<1> HIDE DEF u, n, k
<1>3. /\ u \in Seq(Seq(S)) /\ Len(u) = n + k /\ n \in Nat /\ k \in Nat
      /\ \A i \in 1 .. n : u[i] = s[i]
      /\ \A j \in 1 .. k : u[n + j] = t[j]
  BY <1>2 DEF Appended
<1>4. 0 \in T
  <2>1. Prefix(u, n + 0) = s
    <3>1. Prefix(u, n) = Prefix(s, n)
      BY <1>3 DEF Prefix
    <3>2. n + 0 = n
      BY <1>3
    <3> QED  BY <3>1, <3>2, PrefixWhole DEF n
  <2>2. Prefix(t, 0) \in Seq(Seq(S)) /\ Len(Prefix(t, 0)) = 0
    <3>1. 0 \in 0 .. Len(t)
      BY <1>3 DEF k
    <3> QED  BY <3>1, PrefixType
  <2>3. FlattenSeq(Prefix(t, 0)) = <<>>
    BY <2>2, FlattenEmpty
  <2>4. Cat(FlattenSeq(s), <<>>) = FlattenSeq(s)
    BY FlattenIsSeq, ConcatEmptySeq DEF Cat
  <2> QED  BY <1>3, <2>1, <2>3, <2>4
<1>5. ASSUME NEW j \in 0 .. k - 1, j \in T
      PROVE  j + 1 \in T
  <2>1. /\ n + j \in 0 .. Len(u) - 1 /\ j \in 0 .. Len(t) - 1 /\ j + 1 \in 1 .. k
        /\ n + (j + 1) = (n + j) + 1 /\ j \in 0 .. Len(t)
    BY <1>3 DEF k
  <2>2. FlattenSeq(Prefix(u, (n + j) + 1)) = Cat(FlattenSeq(Prefix(u, n + j)), u[(n + j) + 1])
    BY <1>3, <2>1, FlattenPrefix
  <2>3. FlattenSeq(Prefix(t, j + 1)) = Cat(FlattenSeq(Prefix(t, j)), t[j + 1])
    BY <2>1, FlattenPrefix
  <2>4. u[(n + j) + 1] = t[j + 1]
    BY <1>3, <2>1
  <2>5. FlattenSeq(Prefix(u, n + j)) = Cat(FlattenSeq(s), FlattenSeq(Prefix(t, j)))
    BY <1>5
  <2>6. /\ FlattenSeq(s) \in Seq(S) /\ FlattenSeq(Prefix(t, j)) \in Seq(S)
        /\ t[j + 1] \in Seq(S)
    <3>1. Prefix(t, j) \in Seq(Seq(S))
      BY <2>1, PrefixType
    <3>2. t[j + 1] \in Seq(S)
      BY <2>1, LenProperties DEF k
    <3> QED  BY <3>1, <3>2, FlattenIsSeq
  <2>7. Cat(Cat(FlattenSeq(s), FlattenSeq(Prefix(t, j))), t[j + 1])
          = Cat(FlattenSeq(s), Cat(FlattenSeq(Prefix(t, j)), t[j + 1]))
    BY <2>6, CatAssociative
  <2>8. FlattenSeq(Prefix(u, n + (j + 1))) = Cat(FlattenSeq(s), FlattenSeq(Prefix(t, j + 1)))
    BY <2>1, <2>2, <2>3, <2>4, <2>5, <2>7
  <2> QED  BY <2>1, <2>8
<1>6. \A j \in 0 .. k : j \in T
  <2> HIDE DEF T
  <2> QED  BY <1>3, <1>4, <1>5, IntervalInduction
<1>7. FlattenSeq(Prefix(u, n + k)) = Cat(FlattenSeq(s), FlattenSeq(Prefix(t, k)))
  <2>1. k \in T
    BY <1>3, <1>6
  <2> QED  BY <2>1
<1> QED  BY <1>3, <1>7, PrefixWhole DEF u, k

ReadsAll(f, S, T) == \A x \in S : f[x] \in T

LEMMA MappedCat ==
  ASSUME NEW S, NEW T, NEW f, NEW s \in Seq(S), NEW t \in Seq(S), ReadsAll(f, S, T)
  PROVE  Mapped(f, Cat(s, t)) = Cat(Mapped(f, s), Mapped(f, t))
<1> DEFINE u == Cat(s, t)
           n == Len(s)
           k == Len(t)
           v == Cat(Mapped(f, s), Mapped(f, t))
<1>1. Appended(u, s, t, n, k, S)
  <2>1. IsCat(u, s, t, n, k, S)
    BY DEF IsCat
  <2> QED  BY <2>1, CatIs
<1>2. \A q \in Seq(S) : Mapped(f, q) \in Seq(T) /\ Len(Mapped(f, q)) = Len(q)
  <2> TAKE q \in Seq(S)
  <2>1. ReadsInto(f, q, T)
    BY RangeOfSeq DEF ReadsInto, ReadsAll
  <2> QED  BY <2>1, MappedType
<1>3. Appended(v, Mapped(f, s), Mapped(f, t), n, k, T)
  <2>1. IsCat(v, Mapped(f, s), Mapped(f, t), n, k, T)
    BY <1>2 DEF IsCat
  <2> QED  BY <2>1, CatIs
<1> HIDE DEF u, v
<1>4. /\ u \in Seq(S) /\ Len(u) = n + k /\ n \in Nat /\ k \in Nat
      /\ v \in Seq(T) /\ Len(v) = n + k
      /\ \A i \in 1 .. n : u[i] = s[i] /\ v[i] = Mapped(f, s)[i]
      /\ \A j \in 1 .. k : u[n + j] = t[j] /\ v[n + j] = Mapped(f, t)[j]
  BY <1>1, <1>3 DEF Appended
<1>5. Mapped(f, u) \in Seq(T) /\ Len(Mapped(f, u)) = n + k
  BY <1>2, <1>4
<1>6. /\ \A i \in 1 .. n : Mapped(f, s)[i] = f[s[i]]
      /\ \A j \in 1 .. k : Mapped(f, t)[j] = f[t[j]]
      /\ \A i \in 1 .. n + k : Mapped(f, u)[i] = f[u[i]]
  BY <1>4, LenProperties DEF Mapped
<1> HIDE DEF n, k
<1>7. ASSUME NEW i \in 1 .. n + k
      PROVE  Mapped(f, u)[i] = v[i]
  <2>1. CASE i \in 1 .. n
    BY <1>4, <1>6, <2>1
  <2>2. CASE i \notin 1 .. n
    <3>1. i - n \in 1 .. k /\ n + (i - n) = i
      BY <1>4, <2>2
    <3> DEFINE j == i - n
    <3>2. j \in 1 .. k /\ n + j = i
      BY <3>1
    <3> HIDE DEF j
    <3>3. u[i] = t[j] /\ v[i] = Mapped(f, t)[j]
      BY <1>4, <3>2
    <3> QED  BY <1>6, <3>2, <3>3
  <2> QED  BY <2>1, <2>2
<1>8. Mapped(f, u) = v
  BY <1>4, <1>5, <1>7, SeqEqual
<1> QED  BY <1>8 DEF u, v

LEMMA ReverseType ==
  ASSUME NEW S, NEW s \in Seq(S)
  PROVE  /\ Reverse(s) \in Seq(S) /\ Len(Reverse(s)) = Len(s)
         /\ \A i \in 1 .. Len(s) : Reverse(s)[i] = s[(Len(s) - i) + 1]
<1>1. Len(s) \in Nat /\ \A i \in 1 .. Len(s) : s[i] \in S
  BY LenProperties
<1>2. \A i \in 1 .. Len(s) : (Len(s) - i) + 1 \in 1 .. Len(s)
  BY <1>1
<1> DEFINE r == Reverse(s)
<1>3. r \in [1 .. Len(s) -> S] /\ \A i \in 1 .. Len(s) : r[i] = s[(Len(s) - i) + 1]
  BY <1>1, <1>2 DEF Reverse
<1> HIDE DEF r
<1>4. r \in Seq(S)
  BY <1>1, <1>3, SeqDef
<1>5. Len(r) = Len(s)
  BY <1>1, <1>3, <1>4, LenProperties
<1> QED  BY <1>3, <1>4, <1>5 DEF r

LEMMA ReversePushed ==
  ASSUME NEW S, NEW s \in Seq(S), NEW e \in Seq(S)
  PROVE  Reverse(Cat(Reverse(e), s)) = Cat(Reverse(s), e)
<1> DEFINE n == Len(s)
           k == Len(e)
           re == Reverse(e)
           rs == Reverse(s)
           u == Cat(re, s)
           v == Cat(rs, e)
           ru == Reverse(u)
<1>1. /\ n \in Nat /\ k \in Nat
      /\ re \in Seq(S) /\ Len(re) = k /\ \A i \in 1 .. k : re[i] = e[(k - i) + 1]
      /\ rs \in Seq(S) /\ Len(rs) = n /\ \A i \in 1 .. n : rs[i] = s[(n - i) + 1]
  BY ReverseType, LenProperties
<1> HIDE DEF re, rs
<1>2. Appended(u, re, s, k, n, S) /\ Appended(v, rs, e, n, k, S)
  <2>1. IsCat(u, re, s, k, n, S) /\ IsCat(v, rs, e, n, k, S)
    BY <1>1 DEF IsCat
  <2> QED  BY <2>1, CatIs
<1> HIDE DEF u, v
<1>3. /\ u \in Seq(S) /\ Len(u) = k + n
      /\ \A i \in 1 .. k : u[i] = re[i]
      /\ \A j \in 1 .. n : u[k + j] = s[j]
      /\ v \in Seq(S) /\ Len(v) = n + k
      /\ \A i \in 1 .. n : v[i] = rs[i]
      /\ \A j \in 1 .. k : v[n + j] = e[j]
  BY <1>2 DEF Appended
<1>4. /\ ru \in Seq(S) /\ Len(ru) = k + n
      /\ \A i \in 1 .. k + n : ru[i] = u[((k + n) - i) + 1]
  <2> HIDE DEF n, k
  <2>1. u \in Seq(S) /\ Len(u) = k + n
    BY <1>3
  <2>2. /\ ru \in Seq(S) /\ Len(ru) = Len(u)
        /\ \A i \in 1 .. Len(u) : ru[i] = u[(Len(u) - i) + 1]
    BY <2>1, ReverseType
  <2> HIDE DEF ru
  <2> QED  BY <2>1, <2>2
<1> HIDE DEF n, k, ru
<1>5. ASSUME NEW i \in 1 .. n
      PROVE  ru[i] = v[i]
  <2>1. /\ i \in 1 .. k + n /\ (n - i) + 1 \in 1 .. n
        /\ ((k + n) - i) + 1 = k + ((n - i) + 1)
    BY <1>1
  <2>2. ru[i] = u[k + ((n - i) + 1)]
    BY <1>4, <2>1
  <2> QED  BY <1>1, <1>3, <2>1, <2>2
<1>6. ASSUME NEW j \in 1 .. k
      PROVE  ru[n + j] = v[n + j]
  <2>1. /\ n + j \in 1 .. k + n /\ (k - j) + 1 \in 1 .. k
        /\ ((k + n) - (n + j)) + 1 = (k - j) + 1
        /\ (k - ((k - j) + 1)) + 1 = j
    BY <1>1
  <2>2. ru[n + j] = u[(k - j) + 1]
    BY <1>4, <2>1
  <2>3. u[(k - j) + 1] = e[(k - ((k - j) + 1)) + 1]
    BY <1>1, <1>3, <2>1
  <2> QED  BY <1>3, <2>1, <2>2, <2>3
<1>7. ASSUME NEW i \in 1 .. n + k
      PROVE  ru[i] = v[i]
  <2>1. i \in 1 .. n \/ (i - n \in 1 .. k /\ n + (i - n) = i)
    BY <1>1
  <2> QED  BY <1>5, <1>6, <2>1
<1>8. k + n = n + k
  BY <1>1
<1>9. ru = v
  BY <1>3, <1>4, <1>7, <1>8, SeqEqual
<1> QED  BY <1>9 DEF ru, v, u, re, rs
-----------------------------------------------------------------------------
(* A chain holds its ends. *)
LEMMA ChainEnds ==
  ASSUME NEW a, a.block_count \in Nat, Chained(a)
  PROVE  /\ a.head_block \in a.live /\ a.tail_block \in a.live
         /\ a.block_count >= 1
  BY DEF Chained, Chains, IsChain

LEMMA ChainMakesChained ==
  ASSUME NEW a, a.block_count >= 1,
         NEW s \in [1 .. a.block_count -> a.live], IsChain(a, s)
  PROVE  Chained(a)
  BY DEF Chained, Chains

(* Offsets do not matter to the chain. *)
LEMMA SameLinksChained ==
  ASSUME NEW a, NEW g, Chained(a), a.block_count \in Nat,
         g.live = a.live, g.block_count = a.block_count,
         g.head_block = a.head_block, g.tail_block = a.tail_block,
         \A b \in a.live : /\ g.block[b].prev = a.block[b].prev
                           /\ g.block[b].next = a.block[b].next
  PROVE  Chained(g)
<1>1. PICK s \in [1 .. a.block_count -> a.live] : IsChain(a, s)
  BY DEF Chained, Chains
<1>2. IsChain(g, s)
  BY <1>1, ZenonT(60) DEF IsChain
<1> QED  BY <1>2, ChainMakesChained DEF Chained

LEMMA StartOffsetBounds ==
  ASSUME NEW size \in Nat, NEW offset \in Offsets
  PROVE  StartOffset(size, offset) \in 0 .. size
  BY DEF StartOffset, Offsets

(* lf_init_arena makes a chain of one block. *)
LEMMA InitArenaOK ==
  ASSUME NEW n \in Blocks, NEW size \in Nat, NEW offset \in Offsets
  PROVE  ArenaOK(InitArena(n, size, offset))
<1> DEFINE a == InitArena(n, size, offset)
           start == StartOffset(size, offset)
<1>1. start \in 0 .. size
  BY StartOffsetBounds
<1>2. a \in Arenas
  BY <1>1, SizeModAssumption DEF InitArena, Arenas, MemBlocks, Freed
<1>3. Chained(a)
  <2> DEFINE s == [i \in 1 .. 1 |-> n]
  <2>1. s \in [1 .. a.block_count -> a.live]
    BY DEF InitArena
  <2>2. IsChain(a, s)
    BY DEF InitArena, IsChain
  <2>3. a.block_count >= 1
    BY DEF InitArena
  <2> HIDE DEF a, s
  <2> QED  BY <2>1, <2>2, <2>3, ChainMakesChained
<1>4. InBounds(a)
  BY <1>1 DEF InitArena, InBounds
<1> QED  BY <1>2, <1>3, <1>4 DEF ArenaOK

-----------------------------------------------------------------------------
(* AllocHeadBlock, field by field. *)
LEMMA AllocHeadBlockFields ==
  ASSUME NEW a \in Arenas, NEW n \in Blocks, n # a.head_block
  PROVE  LET g == AllocHeadBlock(a, n)
         IN  /\ g \in Arenas
             /\ g.live = a.live \cup {n}
             /\ g.head_block = n
             /\ g.tail_block = a.tail_block
             /\ g.cursor_block = a.cursor_block
             /\ g.block_count = a.block_count + 1
             /\ g.block_size = a.block_size
             /\ g.block_offset = a.block_offset
             /\ g.size = a.size
             /\ g.block[n] = [left_offset |-> a.block_size,
                              right_offset |-> a.block_size, size |-> a.block_size,
                              prev |-> Null, next |-> a.head_block]
             /\ g.block[a.head_block] = [a.block[a.head_block] EXCEPT !.prev = n]
             /\ \A b \in Blocks \ {n, a.head_block} : g.block[b] = a.block[b]
<1> DEFINE g == AllocHeadBlock(a, n)
           new == [left_offset |-> a.block_size, right_offset |-> a.block_size,
                   size |-> a.block_size, prev |-> Null, next |-> a.head_block]
           linked == [a.block EXCEPT ![a.head_block].prev = n]
<1>1. g.block = [linked EXCEPT ![n] = new]
  BY DEF AllocHeadBlock, Arenas
<1>2. linked \in [Blocks -> MemBlocks]
  BY DEF Arenas, MemBlocks
<1>3. new \in MemBlocks
  BY DEF Arenas, MemBlocks
<1>4. g.block \in [Blocks -> MemBlocks]
  <2> HIDE DEF linked, new, g
  <2> QED  BY <1>1, <1>2, <1>3
<1>5. /\ g.live = a.live \cup {n}
      /\ g.head_block = n
      /\ g.tail_block = a.tail_block
      /\ g.cursor_block = a.cursor_block
      /\ g.block_count = a.block_count + 1
      /\ g.block_size = a.block_size
      /\ g.block_offset = a.block_offset
      /\ g.size = a.size
  BY DEF AllocHeadBlock, Arenas
<1>6. g \in Arenas
  <2>1. g = [a EXCEPT !.live = @ \cup {n}, !.block = g.block,
                      !.block_count = @ + 1, !.head_block = n]
    BY <1>1 DEF AllocHeadBlock, Arenas
  <2>2. a.live \cup {n} \in SUBSET Blocks /\ a.block_count + 1 \in Nat
    BY DEF Arenas
  <2> HIDE DEF g
  <2> QED  BY <1>4, <2>1, <2>2 DEF Arenas
<1>7. /\ g.block[n] = new
      /\ g.block[a.head_block] = [a.block[a.head_block] EXCEPT !.prev = n]
      /\ \A b \in Blocks \ {n, a.head_block} : g.block[b] = a.block[b]
  <2>1. /\ a.head_block \in Blocks
        /\ a.block \in [Blocks -> MemBlocks]
    BY DEF Arenas
  <2> HIDE DEF g, new
  <2> QED  BY <1>1, <2>1
<1> QED  BY <1>5, <1>6, <1>7

(* A new head block goes in front of the chain. *)
LEMMA AllocHeadBlockOK ==
  ASSUME NEW a, ArenaOK(a), NEW n \in Fresh(a)
  PROVE  ArenaOK(AllocHeadBlock(a, n))
<1> DEFINE g == AllocHeadBlock(a, n)
<1>1. /\ a \in Arenas /\ Chained(a) /\ InBounds(a)
      /\ n \in Blocks /\ n \notin a.live /\ a.block_count \in Nat
      /\ a.block_size \in Nat
  BY DEF ArenaOK, Fresh, Arenas
<1>2. a.head_block \in a.live /\ a.tail_block \in a.live /\ a.block_count >= 1
  BY <1>1, ChainEnds
<1>3. n # a.head_block /\ a.live \subseteq Blocks
  BY <1>1, <1>2 DEF Arenas
<1>4. /\ g \in Arenas
      /\ g.live = a.live \cup {n}
      /\ g.head_block = n /\ g.tail_block = a.tail_block
      /\ g.block_count = a.block_count + 1
      /\ g.block_size = a.block_size
      /\ g.block[n] = [left_offset |-> a.block_size, right_offset |-> a.block_size,
                       size |-> a.block_size, prev |-> Null, next |-> a.head_block]
      /\ g.block[a.head_block] = [a.block[a.head_block] EXCEPT !.prev = n]
      /\ \A b \in Blocks \ {n, a.head_block} : g.block[b] = a.block[b]
  BY <1>1, <1>3, AllocHeadBlockFields
<1>5. PICK s \in [1 .. a.block_count -> a.live] : IsChain(a, s)
  BY <1>1 DEF Chained, Chains
<1>6. \A b \in a.live : /\ g.block[b].next = a.block[b].next
                        /\ g.block[b].left_offset = a.block[b].left_offset
                        /\ g.block[b].right_offset = a.block[b].right_offset
                        /\ g.block[b].size = a.block[b].size
                        /\ g.block[b].prev = IF b = a.head_block THEN n
                                             ELSE a.block[b].prev
  <2> TAKE b \in a.live
  <2>1. a.block[b] \in MemBlocks
    BY <1>1, <1>3 DEF Arenas
  <2>2. CASE b = a.head_block
    BY <1>4, <2>1, <2>2 DEF MemBlocks
  <2>3. CASE b # a.head_block
    BY <1>1, <1>3, <1>4, <2>3
  <2> QED  BY <2>2, <2>3
<1>7. Chained(g)
  <2> DEFINE t == [i \in 1 .. g.block_count |-> IF i = 1 THEN n ELSE s[i - 1]]
  <2>1. t \in [1 .. g.block_count -> g.live]
    BY <1>1, <1>4, <1>5
  <2>2. IsChain(g, t)
    <3> HIDE DEF g
    <3>1. \A b \in g.live : \E i \in 1 .. g.block_count : t[i] = b
      <4> TAKE b \in g.live
      <4>1. CASE b = n
        <5>1. 1 \in 1 .. g.block_count /\ t[1] = b
          BY <1>1, <1>4, <4>1
        <5> QED  BY <5>1
      <4>2. CASE b # n
        <5>1. PICK i \in 1 .. a.block_count : s[i] = b
          BY <1>4, <1>5, <4>2 DEF IsChain
        <5>2. i + 1 \in 1 .. g.block_count /\ t[i + 1] = b
          BY <1>1, <1>4, <5>1
        <5> QED  BY <5>2
      <4> QED  BY <4>1, <4>2
    <3>2. \A i, j \in 1 .. g.block_count : t[i] = t[j] => i = j
      BY <1>1, <1>4, <1>5 DEF IsChain
    <3>3. t[1] = g.head_block /\ t[g.block_count] = g.tail_block
      BY <1>1, <1>2, <1>4, <1>5 DEF IsChain
    <3>4. \A i \in 1 .. g.block_count :
            /\ g.block[t[i]].prev = IF i = 1 THEN Null ELSE t[i - 1]
            /\ g.block[t[i]].next = IF i = g.block_count THEN Null ELSE t[i + 1]
      <4> TAKE i \in 1 .. g.block_count
      <4>1. CASE i = 1
        BY <1>1, <1>2, <1>4, <1>5, <4>1 DEF IsChain
      <4>2. CASE i # 1
        <5>1. i - 1 \in 1 .. a.block_count /\ t[i] = s[i - 1] /\ s[i - 1] \in a.live
          BY <1>1, <1>4, <1>5, <4>2
        <5>2. s[i - 1] = a.head_block <=> i - 1 = 1
          BY <1>2, <1>5, <5>1 DEF IsChain
        <5>3. g.block[t[i]].prev = t[i - 1]
          BY <1>1, <1>4, <1>5, <1>6, <4>2, <5>1, <5>2, SMTT(60) DEF IsChain
        <5>4. g.block[t[i]].next = IF i = g.block_count THEN Null ELSE t[i + 1]
          BY <1>1, <1>4, <1>5, <1>6, <4>2, <5>1, SMTT(60) DEF IsChain
        <5> QED  BY <4>2, <5>3, <5>4
      <4> QED  BY <4>1, <4>2
    <3> QED  BY <3>1, <3>2, <3>3, <3>4 DEF IsChain
  <2>3. g.block_count >= 1
    BY <1>1, <1>4
  <2> HIDE DEF g, t
  <2> QED  BY <2>1, <2>2, <2>3, ChainMakesChained
<1>8. InBounds(g)
  <2> HIDE DEF g
  <2>1. ASSUME NEW b \in a.live
        PROVE  /\ g.block[b].left_offset <= g.block[b].right_offset
               /\ g.block[b].right_offset <= g.block[b].size
               /\ g.block[b].size = g.block_size
    BY <1>1, <1>4, <1>6 DEF InBounds
  <2> QED  BY <1>1, <1>4, <2>1 DEF InBounds
<1> QED  BY <1>4, <1>7, <1>8 DEF ArenaOK

(* A new head block leaves what the others hold where it is. *)
LEMMA AllocHeadBlockKeeps ==
  ASSUME NEW a, ArenaOK(a), NEW n \in Fresh(a)
  PROVE  LET g == AllocHeadBlock(a, n)
         IN  /\ ArenaOK(g)
             /\ g.block_size = a.block_size /\ g.block_offset = a.block_offset
             /\ g.live = a.live \cup {n} /\ g.head_block = n
             /\ \A b \in a.live :
                  /\ g.block[b].left_offset = a.block[b].left_offset
                  /\ g.block[b].right_offset = a.block[b].right_offset
<1> DEFINE g == AllocHeadBlock(a, n)
<1>1. /\ a \in Arenas /\ Chained(a) /\ a.block_count \in Nat
      /\ a.live \subseteq Blocks /\ a.block \in [Blocks -> MemBlocks]
      /\ n \in Blocks /\ n \notin a.live
  BY DEF ArenaOK, Arenas, Fresh
<1>2. a.head_block \in a.live /\ n # a.head_block
  BY <1>1, ChainEnds
<1>3. /\ g.live = a.live \cup {n} /\ g.head_block = n
      /\ g.block_size = a.block_size /\ g.block_offset = a.block_offset
      /\ g.block[a.head_block] = [a.block[a.head_block] EXCEPT !.prev = n]
      /\ \A b \in Blocks \ {n, a.head_block} : g.block[b] = a.block[b]
  BY <1>1, <1>2, AllocHeadBlockFields, ZenonT(60)
<1>4. ArenaOK(g)
  BY AllocHeadBlockOK
<1> HIDE DEF g
<1>5. ASSUME NEW b \in a.live
      PROVE  /\ g.block[b].left_offset = a.block[b].left_offset
             /\ g.block[b].right_offset = a.block[b].right_offset
  <2>1. CASE b = a.head_block
    BY <1>1, <1>3, <2>1 DEF MemBlocks
  <2>2. CASE b # a.head_block
    BY <1>1, <1>3, <2>2
  <2> QED  BY <2>1, <2>2
<1> QED  BY <1>3, <1>4, <1>5 DEF g

-----------------------------------------------------------------------------
(* AllocTailBlock, field by field. *)
LEMMA AllocTailBlockFields ==
  ASSUME NEW a \in Arenas, NEW n \in Blocks, n # a.tail_block
  PROVE  LET g == AllocTailBlock(a, n)
         IN  /\ g \in Arenas
             /\ g.live = a.live \cup {n}
             /\ g.head_block = a.head_block
             /\ g.tail_block = n
             /\ g.cursor_block = a.cursor_block
             /\ g.block_count = a.block_count + 1
             /\ g.block_size = a.block_size
             /\ g.block_offset = a.block_offset
             /\ g.size = a.size
             /\ g.block[n] = [left_offset |-> 0, right_offset |-> 0,
                              size |-> a.block_size,
                              prev |-> a.tail_block, next |-> Null]
             /\ g.block[a.tail_block] = [a.block[a.tail_block] EXCEPT !.next = n]
             /\ \A b \in Blocks \ {n, a.tail_block} : g.block[b] = a.block[b]
<1> DEFINE g == AllocTailBlock(a, n)
           new == [left_offset |-> 0, right_offset |-> 0, size |-> a.block_size,
                   prev |-> a.tail_block, next |-> Null]
           linked == [a.block EXCEPT ![a.tail_block].next = n]
<1>1. g.block = [linked EXCEPT ![n] = new]
  BY DEF AllocTailBlock, Arenas
<1>2. linked \in [Blocks -> MemBlocks]
  BY DEF Arenas, MemBlocks
<1>3. new \in MemBlocks
  BY DEF Arenas, MemBlocks
<1>4. g.block \in [Blocks -> MemBlocks]
  <2> HIDE DEF linked, new, g
  <2> QED  BY <1>1, <1>2, <1>3
<1>5. /\ g.live = a.live \cup {n}
      /\ g.head_block = a.head_block
      /\ g.tail_block = n
      /\ g.cursor_block = a.cursor_block
      /\ g.block_count = a.block_count + 1
      /\ g.block_size = a.block_size
      /\ g.block_offset = a.block_offset
      /\ g.size = a.size
  BY DEF AllocTailBlock, Arenas
<1>6. g \in Arenas
  <2>1. g = [a EXCEPT !.live = @ \cup {n}, !.block = g.block,
                      !.block_count = @ + 1, !.tail_block = n]
    BY <1>1 DEF AllocTailBlock, Arenas
  <2>2. a.live \cup {n} \in SUBSET Blocks /\ a.block_count + 1 \in Nat
    BY DEF Arenas
  <2> HIDE DEF g
  <2> QED  BY <1>4, <2>1, <2>2 DEF Arenas
<1>7. /\ g.block[n] = new
      /\ g.block[a.tail_block] = [a.block[a.tail_block] EXCEPT !.next = n]
      /\ \A b \in Blocks \ {n, a.tail_block} : g.block[b] = a.block[b]
  <2>1. /\ a.tail_block \in Blocks
        /\ a.block \in [Blocks -> MemBlocks]
    BY DEF Arenas
  <2> HIDE DEF g, new
  <2> QED  BY <1>1, <2>1
<1> QED  BY <1>5, <1>6, <1>7

(* A new tail block goes behind the chain. *)
LEMMA AllocTailBlockOK ==
  ASSUME NEW a, ArenaOK(a), NEW n \in Fresh(a)
  PROVE  ArenaOK(AllocTailBlock(a, n))
<1> DEFINE g == AllocTailBlock(a, n)
<1>1. /\ a \in Arenas /\ Chained(a) /\ InBounds(a)
      /\ n \in Blocks /\ n \notin a.live /\ a.block_count \in Nat
      /\ a.block_size \in Nat
  BY DEF ArenaOK, Fresh, Arenas
<1>2. a.head_block \in a.live /\ a.tail_block \in a.live /\ a.block_count >= 1
  BY <1>1, ChainEnds
<1>3. n # a.tail_block /\ a.live \subseteq Blocks
  BY <1>1, <1>2 DEF Arenas
<1>4. /\ g \in Arenas
      /\ g.live = a.live \cup {n}
      /\ g.head_block = a.head_block /\ g.tail_block = n
      /\ g.block_count = a.block_count + 1
      /\ g.block_size = a.block_size
      /\ g.block[n] = [left_offset |-> 0, right_offset |-> 0,
                       size |-> a.block_size, prev |-> a.tail_block, next |-> Null]
      /\ g.block[a.tail_block] = [a.block[a.tail_block] EXCEPT !.next = n]
      /\ \A b \in Blocks \ {n, a.tail_block} : g.block[b] = a.block[b]
  BY <1>1, <1>3, AllocTailBlockFields
<1>5. PICK s \in [1 .. a.block_count -> a.live] : IsChain(a, s)
  BY <1>1 DEF Chained, Chains
<1>6. \A b \in a.live : /\ g.block[b].prev = a.block[b].prev
                        /\ g.block[b].left_offset = a.block[b].left_offset
                        /\ g.block[b].right_offset = a.block[b].right_offset
                        /\ g.block[b].size = a.block[b].size
                        /\ g.block[b].next = IF b = a.tail_block THEN n
                                             ELSE a.block[b].next
  <2> TAKE b \in a.live
  <2>1. a.block[b] \in MemBlocks
    BY <1>1, <1>3 DEF Arenas
  <2>2. CASE b = a.tail_block
    BY <1>4, <2>1, <2>2 DEF MemBlocks
  <2>3. CASE b # a.tail_block
    BY <1>1, <1>3, <1>4, <2>3
  <2> QED  BY <2>2, <2>3
<1>7. Chained(g)
  <2> DEFINE t == [i \in 1 .. g.block_count |-> IF i = g.block_count THEN n ELSE s[i]]
  <2>1. t \in [1 .. g.block_count -> g.live]
    BY <1>1, <1>4, <1>5
  <2>2. IsChain(g, t)
    <3> HIDE DEF g
    <3>1. \A b \in g.live : \E i \in 1 .. g.block_count : t[i] = b
      <4> TAKE b \in g.live
      <4>1. CASE b = n
        <5>1. g.block_count \in 1 .. g.block_count /\ t[g.block_count] = b
          BY <1>1, <1>4, <4>1
        <5> QED  BY <5>1
      <4>2. CASE b # n
        <5>1. PICK i \in 1 .. a.block_count : s[i] = b
          BY <1>4, <1>5, <4>2 DEF IsChain
        <5>2. i \in 1 .. g.block_count /\ t[i] = b
          BY <1>1, <1>4, <5>1
        <5> QED  BY <5>2
      <4> QED  BY <4>1, <4>2
    <3>2. \A i, j \in 1 .. g.block_count : t[i] = t[j] => i = j
      BY <1>1, <1>4, <1>5 DEF IsChain
    <3>3. t[1] = g.head_block /\ t[g.block_count] = g.tail_block
      BY <1>1, <1>2, <1>4, <1>5 DEF IsChain
    <3>4. \A i \in 1 .. g.block_count :
            /\ g.block[t[i]].prev = IF i = 1 THEN Null ELSE t[i - 1]
            /\ g.block[t[i]].next = IF i = g.block_count THEN Null ELSE t[i + 1]
      <4> TAKE i \in 1 .. g.block_count
      <4>1. CASE i = g.block_count
        BY <1>1, <1>2, <1>4, <1>5, <4>1 DEF IsChain
      <4>2. CASE i # g.block_count
        <5>1. i \in 1 .. a.block_count /\ t[i] = s[i] /\ s[i] \in a.live
          BY <1>1, <1>4, <1>5, <4>2
        <5>2. s[i] = a.tail_block <=> i = a.block_count
          BY <1>1, <1>2, <1>5, <5>1 DEF IsChain
        <5>3. g.block[t[i]].next = t[i + 1]
          BY <1>1, <1>4, <1>5, <1>6, <4>2, <5>1, <5>2 DEF IsChain
        <5>4. g.block[t[i]].prev = IF i = 1 THEN Null ELSE t[i - 1]
          BY <1>1, <1>4, <1>5, <1>6, <4>2, <5>1 DEF IsChain
        <5> QED  BY <4>2, <5>3, <5>4
      <4> QED  BY <4>1, <4>2
    <3> QED  BY <3>1, <3>2, <3>3, <3>4 DEF IsChain
  <2>3. g.block_count >= 1
    BY <1>1, <1>4
  <2> HIDE DEF g, t
  <2> QED  BY <2>1, <2>2, <2>3, ChainMakesChained
<1>8. InBounds(g)
  <2> HIDE DEF g
  <2>1. ASSUME NEW b \in a.live
        PROVE  /\ g.block[b].left_offset <= g.block[b].right_offset
               /\ g.block[b].right_offset <= g.block[b].size
               /\ g.block[b].size = g.block_size
    BY <1>1, <1>4, <1>6 DEF InBounds
  <2> QED  BY <1>1, <1>4, <2>1 DEF InBounds
<1> QED  BY <1>4, <1>7, <1>8 DEF ArenaOK


(* A new tail block leaves what the others hold where it is. *)
LEMMA AllocTailBlockKeeps ==
  ASSUME NEW a, ArenaOK(a), NEW n \in Fresh(a)
  PROVE  LET g == AllocTailBlock(a, n)
         IN  /\ ArenaOK(g)
             /\ g.block_size = a.block_size /\ g.block_offset = a.block_offset
             /\ g.live = a.live \cup {n} /\ g.tail_block = n
             /\ \A b \in a.live :
                  /\ g.block[b].left_offset = a.block[b].left_offset
                  /\ g.block[b].right_offset = a.block[b].right_offset
<1> DEFINE g == AllocTailBlock(a, n)
<1>1. /\ a \in Arenas /\ Chained(a) /\ a.block_count \in Nat
      /\ a.live \subseteq Blocks /\ a.block \in [Blocks -> MemBlocks]
      /\ n \in Blocks /\ n \notin a.live
  BY DEF ArenaOK, Arenas, Fresh
<1>2. a.tail_block \in a.live /\ n # a.tail_block
  BY <1>1, ChainEnds
<1>3. /\ g.live = a.live \cup {n} /\ g.tail_block = n
      /\ g.block_size = a.block_size /\ g.block_offset = a.block_offset
      /\ g.block[a.tail_block] = [a.block[a.tail_block] EXCEPT !.next = n]
      /\ \A b \in Blocks \ {n, a.tail_block} : g.block[b] = a.block[b]
  BY <1>1, <1>2, AllocTailBlockFields, ZenonT(60)
<1>4. ArenaOK(g)
  BY AllocTailBlockOK
<1> HIDE DEF g
<1>5. ASSUME NEW b \in a.live
      PROVE  /\ g.block[b].left_offset = a.block[b].left_offset
             /\ g.block[b].right_offset = a.block[b].right_offset
  <2>1. CASE b = a.tail_block
    BY <1>1, <1>3, <2>1 DEF MemBlocks
  <2>2. CASE b # a.tail_block
    BY <1>1, <1>3, <2>2
  <2> QED  BY <2>1, <2>2
<1> QED  BY <1>3, <1>4, <1>5 DEF g

-----------------------------------------------------------------------------
(* Taking size bytes of the head block moves one of its offsets only. *)
HeadTaken(g, size) ==
  [g EXCEPT !.block[g.head_block].left_offset = @ - size,
            !.size = (@ + size) % SizeMod]

LEMMA HeadBytesTaken ==
  ASSUME NEW g, ArenaOK(g), NEW size \in Nat,
         size <= g.block[g.head_block].left_offset,
         NEW h, h = HeadTaken(g, size)
  PROVE  /\ ArenaOK(h)
         /\ h.live = g.live
         /\ h.head_block = g.head_block /\ h.tail_block = g.tail_block
         /\ h.block_size = g.block_size /\ h.block_offset = g.block_offset
         /\ h.block_count = g.block_count
         /\ h.block[g.head_block].left_offset = g.block[g.head_block].left_offset - size
         /\ h.block[g.head_block].right_offset = g.block[g.head_block].right_offset
         /\ \A b \in Blocks \ {g.head_block} : h.block[b] = g.block[b]
         /\ \A b \in g.live : h.block[b].next = g.block[b].next
<1>1. g \in Arenas /\ Chained(g) /\ InBounds(g) /\ g.block_count \in Nat
  BY DEF ArenaOK, Arenas
<1>2. g.head_block \in g.live /\ g.live \subseteq Blocks
  BY <1>1, ChainEnds DEF Arenas
<1> DEFINE old == g.block[g.head_block]
           new == [old EXCEPT !.left_offset = @ - size]
<1>3. old \in MemBlocks /\ old.left_offset <= old.right_offset
      /\ old.right_offset <= old.size /\ old.size = g.block_size
  BY <1>1, <1>2 DEF Arenas, InBounds
<1>4. /\ new \in MemBlocks /\ new.prev = old.prev /\ new.next = old.next
      /\ new.size = old.size /\ new.left_offset = old.left_offset - size
      /\ new.right_offset = old.right_offset
      /\ new.left_offset <= new.right_offset /\ new.right_offset <= new.size
  BY <1>3 DEF MemBlocks
<1>5. g.block \in [Blocks -> MemBlocks]
  BY <1>1 DEF Arenas
<1>6. h.block = [g.block EXCEPT ![g.head_block] = new]
  BY <1>1 DEF Arenas, HeadTaken
<1>7. /\ h.block \in [Blocks -> MemBlocks]
      /\ h.block[g.head_block] = new
      /\ \A b \in Blocks \ {g.head_block} : h.block[b] = g.block[b]
  <2> HIDE DEF new, old
  <2> QED  BY <1>2, <1>4, <1>5, <1>6
<1>8. /\ h.live = g.live
      /\ h.head_block = g.head_block /\ h.tail_block = g.tail_block
      /\ h.block_size = g.block_size /\ h.block_offset = g.block_offset
      /\ h.block_count = g.block_count
  BY <1>1 DEF Arenas, HeadTaken
<1>9. h \in Arenas
  <2>1. h = [g EXCEPT !.block = h.block, !.size = (g.size + size) % SizeMod]
    BY <1>1, <1>6 DEF Arenas, HeadTaken
  <2>2. (g.size + size) % SizeMod \in 0 .. SizeMod - 1
    BY <1>1, SizeModAssumption DEF Arenas
  <2> QED  BY <1>1, <1>7, <2>1, <2>2 DEF Arenas
<1> HIDE DEF old, new
<1>10. \A b \in g.live : /\ h.block[b].prev = g.block[b].prev
                         /\ h.block[b].next = g.block[b].next
                         /\ h.block[b].size = g.block[b].size
                         /\ h.block[b].left_offset <= h.block[b].right_offset
                         /\ h.block[b].right_offset <= h.block[b].size
  <2> TAKE b \in g.live
  <2>1. CASE b = g.head_block
    BY <1>4, <1>7, <2>1 DEF old
  <2>2. CASE b # g.head_block
    BY <1>1, <1>2, <1>7, <2>2 DEF InBounds
  <2> QED  BY <2>1, <2>2
<1>11. Chained(h)
  BY <1>1, <1>8, <1>10, SameLinksChained
<1>12. InBounds(h)
  BY <1>1, <1>8, <1>10 DEF InBounds
<1> QED  BY <1>4, <1>7, <1>8, <1>9, <1>10, <1>11, <1>12 DEF ArenaOK, old

(* AllocAtHead: what the head block held is untouched, and the new bytes lie *)
(* below it or in a block of their own.                                     *)
LEMMA AllocAtHeadOK ==
  ASSUME NEW a, ArenaOK(a), NEW size \in 1 .. a.block_size,
         NEW h \in AllocAtHead(a, size)
  PROVE  /\ ArenaOK(h)
         /\ h.block_size = a.block_size /\ h.block_offset = a.block_offset
         /\ a.live \subseteq h.live /\ h.head_block \in h.live
         /\ h.live \subseteq a.live \cup {h.head_block}
         /\ \A b \in a.live :
              /\ h.block[b].right_offset = a.block[b].right_offset
              /\ h.block[b].left_offset =
                   IF b = h.head_block THEN a.block[b].left_offset - size
                                     ELSE a.block[b].left_offset
         /\ h.head_block \notin a.live =>
              h.block[h.head_block].left_offset + size
                = h.block[h.head_block].right_offset
<1>1. /\ a \in Arenas /\ Chained(a) /\ InBounds(a) /\ a.block_count \in Nat
      /\ a.block_size \in Nat /\ a.live \subseteq Blocks
      /\ size \in Nat
  BY DEF ArenaOK, Arenas
<1>2. a.head_block \in a.live
  BY <1>1, ChainEnds
<1>3. a.block[a.head_block] \in MemBlocks
  BY <1>1, <1>2 DEF Arenas
<1>4. CASE ~(HeadRoom(a) < size)
  <2>1. h = HeadTaken(a, size)
    BY <1>4 DEF AllocAtHead, HeadTaken
  <2>2. size <= a.block[a.head_block].left_offset
    BY <1>1, <1>3, <1>4 DEF HeadRoom, MemBlocks
  <2>3. /\ ArenaOK(h) /\ h.live = a.live /\ h.head_block = a.head_block
        /\ h.block_size = a.block_size /\ h.block_offset = a.block_offset
        /\ h.block[a.head_block].left_offset = a.block[a.head_block].left_offset - size
        /\ h.block[a.head_block].right_offset = a.block[a.head_block].right_offset
        /\ \A b \in Blocks \ {a.head_block} : h.block[b] = a.block[b]
    BY <1>1, <2>1, <2>2, HeadBytesTaken
  <2> QED  BY <1>1, <1>2, <2>3
<1>5. CASE HeadRoom(a) < size
  <2>1. PICK n \in Fresh(a) : h = HeadTaken(AllocHeadBlock(a, n), size)
    BY <1>5 DEF AllocAtHead, HeadTaken
  <2> DEFINE g == AllocHeadBlock(a, n)
  <2>2. n \in Blocks /\ n \notin a.live /\ n # a.head_block
    BY <1>2 DEF Fresh
  <2>3. ArenaOK(g)
    BY AllocHeadBlockOK
  <2>4. /\ g.live = a.live \cup {n} /\ g.head_block = n
        /\ g.block_size = a.block_size /\ g.block_offset = a.block_offset
        /\ g.block[n].left_offset = a.block_size
        /\ g.block[n].right_offset = a.block_size
        /\ g.block[n].size = a.block_size
        /\ \A b \in a.live : /\ g.block[b].left_offset = a.block[b].left_offset
                             /\ g.block[b].right_offset = a.block[b].right_offset
    <3>1. /\ g.live = a.live \cup {n} /\ g.head_block = n
          /\ g.block_size = a.block_size /\ g.block_offset = a.block_offset
          /\ \A b \in a.live : /\ g.block[b].left_offset = a.block[b].left_offset
                               /\ g.block[b].right_offset = a.block[b].right_offset
      BY AllocHeadBlockKeeps
    <3>2. g.block[n] =
            [left_offset |-> a.block_size, right_offset |-> a.block_size,
             size |-> a.block_size, prev |-> Null, next |-> a.head_block]
      BY <1>1, <2>2, AllocHeadBlockFields
    <3> HIDE DEF g
    <3> QED  BY <3>1, <3>2
  <2>5. h = HeadTaken(g, size)
    BY <2>1
  <2> HIDE DEF g
  <2>6. size <= g.block[g.head_block].left_offset
    BY <1>1, <2>4
  <2>7. /\ ArenaOK(h) /\ h.live = g.live /\ h.head_block = n
        /\ h.block_size = a.block_size /\ h.block_offset = a.block_offset
        /\ h.block[n].left_offset = g.block[n].left_offset - size
        /\ h.block[n].right_offset = g.block[n].right_offset
        /\ \A b \in Blocks \ {n} : h.block[b] = g.block[b]
    BY <1>1, <2>3, <2>4, <2>5, <2>6, HeadBytesTaken
  <2> QED  BY <1>1, <2>2, <2>4, <2>7
<1> QED  BY <1>4, <1>5

-----------------------------------------------------------------------------
(* Taking size bytes of the tail block moves one of its offsets only. *)
TailTaken(g, size) ==
  [g EXCEPT !.block[g.tail_block].right_offset = @ + size,
            !.size = (@ + size) % SizeMod]

LEMMA TailBytesTaken ==
  ASSUME NEW g, ArenaOK(g), NEW size \in Nat,
         size <= g.block[g.tail_block].size - g.block[g.tail_block].right_offset,
         NEW h, h = TailTaken(g, size)
  PROVE  /\ ArenaOK(h)
         /\ h.live = g.live
         /\ h.head_block = g.head_block /\ h.tail_block = g.tail_block
         /\ h.block_size = g.block_size /\ h.block_offset = g.block_offset
         /\ h.block_count = g.block_count
         /\ h.block[g.tail_block].right_offset = g.block[g.tail_block].right_offset + size
         /\ h.block[g.tail_block].left_offset = g.block[g.tail_block].left_offset
         /\ \A b \in Blocks \ {g.tail_block} : h.block[b] = g.block[b]
         /\ \A b \in g.live : h.block[b].next = g.block[b].next
<1>1. g \in Arenas /\ Chained(g) /\ InBounds(g) /\ g.block_count \in Nat
  BY DEF ArenaOK, Arenas
<1>2. g.tail_block \in g.live /\ g.live \subseteq Blocks
  BY <1>1, ChainEnds DEF Arenas
<1> DEFINE old == g.block[g.tail_block]
           new == [old EXCEPT !.right_offset = @ + size]
<1>3. old \in MemBlocks /\ old.left_offset <= old.right_offset
      /\ old.right_offset <= old.size /\ old.size = g.block_size
  BY <1>1, <1>2 DEF Arenas, InBounds
<1>4. /\ new \in MemBlocks /\ new.prev = old.prev /\ new.next = old.next
      /\ new.size = old.size /\ new.right_offset = old.right_offset + size
      /\ new.left_offset = old.left_offset
      /\ new.left_offset <= new.right_offset /\ new.right_offset <= new.size
  BY <1>3 DEF MemBlocks
<1>5. g.block \in [Blocks -> MemBlocks]
  BY <1>1 DEF Arenas
<1>6. h.block = [g.block EXCEPT ![g.tail_block] = new]
  BY <1>1 DEF Arenas, TailTaken
<1>7. /\ h.block \in [Blocks -> MemBlocks]
      /\ h.block[g.tail_block] = new
      /\ \A b \in Blocks \ {g.tail_block} : h.block[b] = g.block[b]
  <2> HIDE DEF new, old
  <2> QED  BY <1>2, <1>4, <1>5, <1>6
<1>8. /\ h.live = g.live
      /\ h.head_block = g.head_block /\ h.tail_block = g.tail_block
      /\ h.block_size = g.block_size /\ h.block_offset = g.block_offset
      /\ h.block_count = g.block_count
  BY <1>1 DEF Arenas, TailTaken
<1>9. h \in Arenas
  <2>1. h = [g EXCEPT !.block = h.block, !.size = (g.size + size) % SizeMod]
    BY <1>1, <1>6 DEF Arenas, TailTaken
  <2>2. (g.size + size) % SizeMod \in 0 .. SizeMod - 1
    BY <1>1, SizeModAssumption DEF Arenas
  <2> QED  BY <1>1, <1>7, <2>1, <2>2 DEF Arenas
<1> HIDE DEF old, new
<1>10. \A b \in g.live : /\ h.block[b].prev = g.block[b].prev
                         /\ h.block[b].next = g.block[b].next
                         /\ h.block[b].size = g.block[b].size
                         /\ h.block[b].left_offset <= h.block[b].right_offset
                         /\ h.block[b].right_offset <= h.block[b].size
  <2> TAKE b \in g.live
  <2>1. CASE b = g.tail_block
    BY <1>4, <1>7, <2>1 DEF old
  <2>2. CASE b # g.tail_block
    BY <1>1, <1>2, <1>7, <2>2 DEF InBounds
  <2> QED  BY <2>1, <2>2
<1>11. Chained(h)
  BY <1>1, <1>8, <1>10, SameLinksChained
<1>12. InBounds(h)
  BY <1>1, <1>8, <1>10 DEF InBounds
<1> QED  BY <1>4, <1>7, <1>8, <1>9, <1>10, <1>11, <1>12 DEF ArenaOK, old

(* AllocAtTail: what the tail block held is untouched, and the new bytes lie *)
(* above it or in a block of their own.                                     *)
LEMMA AllocAtTailOK ==
  ASSUME NEW a, ArenaOK(a), NEW size \in 1 .. a.block_size,
         NEW h \in AllocAtTail(a, size)
  PROVE  /\ ArenaOK(h)
         /\ h.block_size = a.block_size /\ h.block_offset = a.block_offset
         /\ a.live \subseteq h.live /\ h.tail_block \in h.live
         /\ h.live \subseteq a.live \cup {h.tail_block}
         /\ \A b \in a.live :
              /\ h.block[b].left_offset = a.block[b].left_offset
              /\ h.block[b].right_offset =
                   IF b = h.tail_block THEN a.block[b].right_offset + size
                                     ELSE a.block[b].right_offset
         /\ h.tail_block \notin a.live =>
              h.block[h.tail_block].left_offset + size
                = h.block[h.tail_block].right_offset
<1>1. /\ a \in Arenas /\ Chained(a) /\ InBounds(a) /\ a.block_count \in Nat
      /\ a.block_size \in Nat /\ a.live \subseteq Blocks
      /\ size \in Nat
  BY DEF ArenaOK, Arenas
<1>2. a.tail_block \in a.live
  BY <1>1, ChainEnds
<1>3. a.block[a.tail_block] \in MemBlocks
  BY <1>1, <1>2 DEF Arenas
<1>4. CASE ~(TailRoom(a) < size)
  <2>1. h = TailTaken(a, size)
    BY <1>4 DEF AllocAtTail, TailTaken
  <2>2. size <= a.block[a.tail_block].size - a.block[a.tail_block].right_offset
    BY <1>1, <1>3, <1>4 DEF TailRoom, MemBlocks
  <2>3. /\ ArenaOK(h) /\ h.live = a.live /\ h.tail_block = a.tail_block
        /\ h.block_size = a.block_size /\ h.block_offset = a.block_offset
        /\ h.block[a.tail_block].right_offset = a.block[a.tail_block].right_offset + size
        /\ h.block[a.tail_block].left_offset = a.block[a.tail_block].left_offset
        /\ \A b \in Blocks \ {a.tail_block} : h.block[b] = a.block[b]
    BY <1>1, <2>1, <2>2, TailBytesTaken
  <2> QED  BY <1>1, <1>2, <2>3
<1>5. CASE TailRoom(a) < size
  <2>1. PICK n \in Fresh(a) : h = TailTaken(AllocTailBlock(a, n), size)
    BY <1>5 DEF AllocAtTail, TailTaken
  <2> DEFINE g == AllocTailBlock(a, n)
  <2>2. n \in Blocks /\ n \notin a.live /\ n # a.tail_block
    BY <1>2 DEF Fresh
  <2>3. ArenaOK(g)
    BY AllocTailBlockOK
  <2>4. /\ g.live = a.live \cup {n} /\ g.tail_block = n
        /\ g.block_size = a.block_size /\ g.block_offset = a.block_offset
        /\ g.block[n].left_offset = 0
        /\ g.block[n].right_offset = 0
        /\ g.block[n].size = a.block_size
        /\ \A b \in a.live : /\ g.block[b].left_offset = a.block[b].left_offset
                             /\ g.block[b].right_offset = a.block[b].right_offset
    <3>1. /\ g.live = a.live \cup {n} /\ g.tail_block = n
          /\ g.block_size = a.block_size /\ g.block_offset = a.block_offset
          /\ \A b \in a.live : /\ g.block[b].left_offset = a.block[b].left_offset
                               /\ g.block[b].right_offset = a.block[b].right_offset
      BY AllocTailBlockKeeps
    <3>2. g.block[n] =
            [left_offset |-> 0, right_offset |-> 0,
             size |-> a.block_size, prev |-> a.tail_block, next |-> Null]
      BY <1>1, <2>2, AllocTailBlockFields
    <3> HIDE DEF g
    <3> QED  BY <3>1, <3>2
  <2>5. h = TailTaken(g, size)
    BY <2>1
  <2> HIDE DEF g
  <2>6. size <= g.block[g.tail_block].size - g.block[g.tail_block].right_offset
    BY <1>1, <2>4
  <2>7. /\ ArenaOK(h) /\ h.live = g.live /\ h.tail_block = n
        /\ h.block_size = a.block_size /\ h.block_offset = a.block_offset
        /\ h.block[n].right_offset = g.block[n].right_offset + size
        /\ h.block[n].left_offset = g.block[n].left_offset
        /\ \A b \in Blocks \ {n} : h.block[b] = g.block[b]
    BY <1>1, <2>3, <2>4, <2>5, <2>6, TailBytesTaken
  <2> QED  BY <1>1, <2>2, <2>4, <2>7
<1> QED  BY <1>4, <1>5


-----------------------------------------------------------------------------
(* lf_dealloc_arena_block, field by field. *)
LEMMA DeallocBlockFields ==
  ASSUME NEW a \in Arenas, NEW b \in Blocks, a.block_count > 1
  PROVE  LET g == DeallocBlock(a, b)
         IN  /\ g \in Arenas
             /\ g.live = a.live \ {b}
             /\ g.head_block = a.head_block
             /\ g.tail_block = a.tail_block
             /\ g.cursor_block = a.cursor_block
             /\ g.block_count = a.block_count - 1
             /\ g.block_size = a.block_size
             /\ g.block_offset = a.block_offset
             /\ \A c \in a.live \ {b} : g.block[c] = Unlinked(a, b, c)
<1> DEFINE g == DeallocBlock(a, b)
           blocks == [c \in Blocks |-> IF c = b THEN Freed ELSE Unlinked(a, b, c)]
<1>1. a.block \in [Blocks -> MemBlocks] /\ a.live \subseteq Blocks
      /\ a.block_count \in Nat
  BY DEF Arenas
<1>2. blocks \in [Blocks -> MemBlocks]
  <2>1. ASSUME NEW c \in Blocks
        PROVE  Unlinked(a, b, c) \in MemBlocks
    BY <1>1 DEF Unlinked, MemBlocks
  <2>2. Freed \in MemBlocks
    BY DEF Freed, MemBlocks
  <2> QED  BY <2>1, <2>2
<1>3. SizeLess(a, a.block[b].size) \in 0 .. SizeMod - 1
  <2>1. a.size \in Int /\ a.block[b].size \in Int
    BY <1>1 DEF Arenas, MemBlocks
  <2> QED  BY <2>1, SizeModAssumption DEF SizeLess
<1>4. /\ g.live = a.live \ {b}
      /\ g.head_block = a.head_block
      /\ g.tail_block = a.tail_block
      /\ g.cursor_block = a.cursor_block
      /\ g.block_count = a.block_count - 1
      /\ g.block_size = a.block_size
      /\ g.block_offset = a.block_offset
      /\ g.block = blocks
  BY DEF DeallocBlock, Arenas
<1>5. g = [a EXCEPT !.live = @ \ {b}, !.block = blocks, !.block_count = @ - 1,
                    !.size = SizeLess(a, a.block[b].size)]
  BY DEF DeallocBlock
<1>6. \A c \in a.live \ {b} : blocks[c] = Unlinked(a, b, c)
  BY <1>1
<1>7. a.live \ {b} \in SUBSET Blocks /\ a.block_count - 1 \in Nat
  BY <1>1
<1> HIDE DEF g, blocks
<1>8. g \in Arenas
  BY <1>2, <1>3, <1>5, <1>7 DEF Arenas
<1> QED  BY <1>4, <1>6, <1>8 DEF g

(* Giving the head block back shortens the chain by that block only. *)
LEMMA DeallocHeadBlockOK ==
  ASSUME NEW a, ArenaOK(a)
  PROVE  LET h == DeallocHeadBlock(a)
         IN  /\ ArenaOK(h)
             /\ h.block_size = a.block_size /\ h.block_offset = a.block_offset
             /\ h.live \subseteq a.live
             /\ \A b \in h.live :
                  /\ h.block[b].left_offset = a.block[b].left_offset
                  /\ h.block[b].right_offset = a.block[b].right_offset
<1>1. /\ a \in Arenas /\ Chained(a) /\ InBounds(a) /\ a.block_count \in Nat
      /\ a.live \subseteq Blocks /\ a.block_count >= 1
  BY DEF ArenaOK, Arenas, Chained
<1>2. a.head_block \in a.live
  BY <1>1, ChainEnds
<1> DEFINE h == DeallocHeadBlock(a)
           g == DeallocBlock(a, a.head_block)
<1>3. CASE a.block_count <= 1
  <2>1. h = a
    BY <1>3 DEF DeallocHeadBlock
  <2> QED  BY <2>1
<1>4. CASE a.block_count > 1
  <2>1. PICK s \in [1 .. a.block_count -> a.live] : IsChain(a, s)
    BY <1>1 DEF Chained, Chains
  <2>2. h = [g EXCEPT !.head_block = a.block[a.head_block].next]
    BY <1>1, <1>4 DEF DeallocHeadBlock
  <2>3. /\ g \in Arenas
        /\ g.live = a.live \ {a.head_block}
        /\ g.tail_block = a.tail_block
        /\ g.block_count = a.block_count - 1
        /\ g.block_size = a.block_size
        /\ g.block_offset = a.block_offset
        /\ \A c \in a.live \ {a.head_block} : g.block[c] = Unlinked(a, a.head_block, c)
    BY <1>1, <1>2, <1>4, DeallocBlockFields
  <2>4. /\ s[2] = a.block[a.head_block].next
        /\ s[1] = a.head_block
        /\ a.block[a.head_block].prev = Null
        /\ a.block[a.head_block].next \in a.live \ {a.head_block}
        /\ a.tail_block # a.head_block
    BY <1>1, <1>4, <2>1 DEF IsChain
  <2> DEFINE second == a.block[a.head_block].next
  <2>5. /\ h \in Arenas
        /\ h.live = a.live \ {a.head_block}
        /\ h.head_block = second
        /\ h.tail_block = a.tail_block
        /\ h.block_count = a.block_count - 1
        /\ h.block_size = a.block_size
        /\ h.block_offset = a.block_offset
        /\ h.block = g.block
    <3> HIDE DEF g, h
    <3>1. second \in Blocks
      BY <1>1, <2>4
    <3> HIDE DEF second
    <3> QED  BY <2>2, <2>3, <3>1 DEF Arenas, second
  <2>6. ASSUME NEW c \in h.live
        PROVE  /\ h.block[c].left_offset = a.block[c].left_offset
               /\ h.block[c].right_offset = a.block[c].right_offset
               /\ h.block[c].size = a.block[c].size
               /\ h.block[c].next = a.block[c].next
               /\ h.block[c].prev =
                    IF c = second THEN Null ELSE a.block[c].prev
    <3> HIDE DEF g, h
    <3>1. c \in Blocks /\ c # a.head_block /\ c # Null
      BY <1>1, <2>5, BlocksAssumption
    <3>2. a.block[c] \in MemBlocks
      BY <1>1, <3>1 DEF Arenas
    <3>3. h.block[c] = Unlinked(a, a.head_block, c)
      BY <2>3, <2>5
    <3>4. Unlinked(a, a.head_block, c)
            = [a.block[c] EXCEPT !.prev = IF c = second THEN Null ELSE @]
      BY <2>4, <3>1, <3>2 DEF Unlinked, MemBlocks
    <3> QED  BY <3>2, <3>3, <3>4 DEF MemBlocks
  <2>7. Chained(h)
    <3> DEFINE t == [i \in 1 .. h.block_count |-> s[i + 1]]
    <3> HIDE DEF g, h
    <3>1. /\ h.block_count = a.block_count - 1 /\ h.block_count \in Nat
          /\ h.block_count >= 1
      BY <1>1, <1>4, <2>5
    <3>2. t \in [1 .. h.block_count -> h.live]
      <4>1. ASSUME NEW i \in 1 .. h.block_count
            PROVE  t[i] \in h.live
        <5>1. i + 1 \in 1 .. a.block_count /\ 1 \in 1 .. a.block_count /\ i + 1 # 1
          BY <1>1, <3>1
        <5>2. s[i + 1] \in a.live /\ s[i + 1] # s[1]
          BY <2>1, <5>1 DEF IsChain
        <5>3. t[i] = s[i + 1]
          OBVIOUS
        <5> QED  BY <2>4, <2>5, <5>2, <5>3
      <4> QED  BY <4>1
    <3>3. IsChain(h, t)
      <4>1. ASSUME NEW b \in h.live
            PROVE  \E i \in 1 .. h.block_count : t[i] = b
        <5>1. PICK i \in 1 .. a.block_count : s[i] = b
          BY <2>1, <2>5 DEF IsChain
        <5>2. i - 1 \in 1 .. h.block_count
          BY <1>1, <2>4, <2>5, <3>1, <5>1
        <5>3. t[i - 1] = b
          BY <1>1, <3>1, <5>1, <5>2
        <5> QED  BY <5>2, <5>3
      <4>2. \A i, j \in 1 .. h.block_count : t[i] = t[j] => i = j
        BY <1>1, <2>1, <3>1 DEF IsChain
      <4>3. t[1] = h.head_block /\ t[h.block_count] = h.tail_block
        BY <1>1, <2>1, <2>4, <2>5, <3>1 DEF IsChain
      <4>4. ASSUME NEW i \in 1 .. h.block_count
            PROVE  /\ h.block[t[i]].prev = IF i = 1 THEN Null ELSE t[i - 1]
                   /\ h.block[t[i]].next = IF i = h.block_count THEN Null ELSE t[i + 1]
        <5> DEFINE k == i + 1
        <5>1. /\ k \in 1 .. a.block_count /\ t[i] = s[k] /\ s[k] \in h.live
          BY <1>1, <3>1, <3>2
        <5>2. s[k] = second <=> i = 1
          BY <1>1, <1>4, <2>1, <2>4, <3>1, <5>1 DEF IsChain
        <5>3. /\ a.block[s[k]].prev = IF k = 1 THEN Null ELSE s[k - 1]
              /\ a.block[s[k]].next = IF k = a.block_count THEN Null ELSE s[k + 1]
          BY <2>1, <5>1 DEF IsChain
        <5>4. /\ h.block[s[k]].next = a.block[s[k]].next
              /\ h.block[s[k]].prev =
                   IF s[k] = second THEN Null ELSE a.block[s[k]].prev
          BY <2>6, <5>1
        <5> HIDE DEF second
        <5> QED  BY <1>1, <3>1, <5>1, <5>2, <5>3, <5>4
      <4> HIDE DEF t
      <4> QED  BY <4>1, <4>2, <4>3, <4>4 DEF IsChain
    <3> HIDE DEF t
    <3> QED  BY <3>1, <3>2, <3>3, ChainMakesChained
  <2>8. InBounds(h)
    <3> HIDE DEF g, h
    <3> QED  BY <1>1, <2>5, <2>6 DEF InBounds
  <2> HIDE DEF g, h
  <2> QED  BY <2>5, <2>6, <2>7, <2>8 DEF ArenaOK, h
<1> QED  BY <1>1, <1>3, <1>4

(* Giving the tail block back shortens the chain by that block only. *)
LEMMA DeallocTailBlockOK ==
  ASSUME NEW a, ArenaOK(a)
  PROVE  LET h == DeallocTailBlock(a)
         IN  /\ ArenaOK(h)
             /\ h.block_size = a.block_size /\ h.block_offset = a.block_offset
             /\ h.live \subseteq a.live
             /\ \A b \in h.live :
                  /\ h.block[b].left_offset = a.block[b].left_offset
                  /\ h.block[b].right_offset = a.block[b].right_offset
<1>1. /\ a \in Arenas /\ Chained(a) /\ InBounds(a) /\ a.block_count \in Nat
      /\ a.live \subseteq Blocks /\ a.block_count >= 1
  BY DEF ArenaOK, Arenas, Chained
<1>2. a.tail_block \in a.live
  BY <1>1, ChainEnds
<1> DEFINE h == DeallocTailBlock(a)
           g == DeallocBlock(a, a.tail_block)
<1>3. CASE a.block_count <= 1
  <2>1. h = a
    BY <1>3 DEF DeallocTailBlock
  <2> QED  BY <2>1
<1>4. CASE a.block_count > 1
  <2>1. PICK s \in [1 .. a.block_count -> a.live] : IsChain(a, s)
    BY <1>1 DEF Chained, Chains
  <2>2. h = [g EXCEPT !.tail_block = a.block[a.tail_block].prev]
    BY <1>1, <1>4 DEF DeallocTailBlock
  <2>3. /\ g \in Arenas
        /\ g.live = a.live \ {a.tail_block}
        /\ g.head_block = a.head_block
        /\ g.block_count = a.block_count - 1
        /\ g.block_size = a.block_size
        /\ g.block_offset = a.block_offset
        /\ \A c \in a.live \ {a.tail_block} : g.block[c] = Unlinked(a, a.tail_block, c)
    BY <1>1, <1>2, <1>4, DeallocBlockFields
  <2>4. /\ s[a.block_count - 1] = a.block[a.tail_block].prev
        /\ s[a.block_count] = a.tail_block
        /\ a.block[a.tail_block].next = Null
        /\ a.block[a.tail_block].prev \in a.live \ {a.tail_block}
        /\ a.head_block # a.tail_block
    BY <1>1, <1>4, <2>1 DEF IsChain
  <2> DEFINE second == a.block[a.tail_block].prev
  <2>5. /\ h \in Arenas
        /\ h.live = a.live \ {a.tail_block}
        /\ h.tail_block = second
        /\ h.head_block = a.head_block
        /\ h.block_count = a.block_count - 1
        /\ h.block_size = a.block_size
        /\ h.block_offset = a.block_offset
        /\ h.block = g.block
    <3> HIDE DEF g, h
    <3>1. second \in Blocks
      BY <1>1, <2>4
    <3> HIDE DEF second
    <3> QED  BY <2>2, <2>3, <3>1 DEF Arenas, second
  <2>6. ASSUME NEW c \in h.live
        PROVE  /\ h.block[c].left_offset = a.block[c].left_offset
               /\ h.block[c].right_offset = a.block[c].right_offset
               /\ h.block[c].size = a.block[c].size
               /\ h.block[c].prev = a.block[c].prev
               /\ h.block[c].next =
                    IF c = second THEN Null ELSE a.block[c].next
    <3> HIDE DEF g, h
    <3>1. c \in Blocks /\ c # a.tail_block /\ c # Null
      BY <1>1, <2>5, BlocksAssumption
    <3>2. a.block[c] \in MemBlocks
      BY <1>1, <3>1 DEF Arenas
    <3>3. h.block[c] = Unlinked(a, a.tail_block, c)
      BY <2>3, <2>5
    <3>4. Unlinked(a, a.tail_block, c)
            = [a.block[c] EXCEPT !.next = IF c = second THEN Null ELSE @]
      BY <2>4, <3>1, <3>2 DEF Unlinked, MemBlocks
    <3> QED  BY <3>2, <3>3, <3>4 DEF MemBlocks
  <2>7. Chained(h)
    <3> DEFINE t == [i \in 1 .. h.block_count |-> s[i]]
    <3> HIDE DEF g, h
    <3>1. /\ h.block_count = a.block_count - 1 /\ h.block_count \in Nat
          /\ h.block_count >= 1
      BY <1>1, <1>4, <2>5
    <3>2. t \in [1 .. h.block_count -> h.live]
      <4>1. ASSUME NEW i \in 1 .. h.block_count
            PROVE  t[i] \in h.live
        <5>1. i \in 1 .. a.block_count /\ i # a.block_count /\ t[i] = s[i]
          BY <1>1, <3>1
        <5>2. a.block_count \in 1 .. a.block_count
          BY <1>1
        <5>3. s[i] \in a.live /\ s[i] # s[a.block_count]
          BY <2>1, <5>1, <5>2 DEF IsChain
        <5> QED  BY <2>4, <2>5, <5>1, <5>3
      <4> HIDE DEF second
      <4> QED  BY <4>1
    <3>3. IsChain(h, t)
      <4>1. ASSUME NEW b \in h.live
            PROVE  \E i \in 1 .. h.block_count : t[i] = b
        <5>1. PICK i \in 1 .. a.block_count : s[i] = b
          BY <2>1, <2>5 DEF IsChain
        <5>2. i \in 1 .. h.block_count
          BY <1>1, <2>4, <2>5, <3>1, <5>1
        <5>3. t[i] = b
          BY <1>1, <3>1, <5>1, <5>2
        <5> QED  BY <5>2, <5>3
      <4>2. \A i, j \in 1 .. h.block_count : t[i] = t[j] => i = j
        BY <1>1, <2>1, <3>1 DEF IsChain
      <4>3. t[1] = h.head_block /\ t[h.block_count] = h.tail_block
        BY <1>1, <2>1, <2>4, <2>5, <3>1 DEF IsChain
      <4>4. ASSUME NEW i \in 1 .. h.block_count
            PROVE  /\ h.block[t[i]].prev = IF i = 1 THEN Null ELSE t[i - 1]
                   /\ h.block[t[i]].next = IF i = h.block_count THEN Null ELSE t[i + 1]
        <5> DEFINE k == i
        <5>1. /\ k \in 1 .. a.block_count /\ t[i] = s[k] /\ s[k] \in h.live
          BY <1>1, <3>1, <3>2
        <5>2. s[k] = second <=> i = h.block_count
          BY <1>1, <1>4, <2>1, <2>4, <3>1, <5>1 DEF IsChain
        <5>3. /\ a.block[s[k]].prev = IF k = 1 THEN Null ELSE s[k - 1]
              /\ a.block[s[k]].next = IF k = a.block_count THEN Null ELSE s[k + 1]
          BY <2>1, <5>1 DEF IsChain
        <5>4. /\ h.block[s[k]].prev = a.block[s[k]].prev
              /\ h.block[s[k]].next =
                   IF s[k] = second THEN Null ELSE a.block[s[k]].next
          BY <2>6, <5>1
        <5> HIDE DEF second
        <5> QED  BY <1>1, <3>1, <5>1, <5>2, <5>3, <5>4
      <4> HIDE DEF t
      <4> QED  BY <4>1, <4>2, <4>3, <4>4 DEF IsChain
    <3> HIDE DEF t
    <3> QED  BY <3>1, <3>2, <3>3, ChainMakesChained
  <2>8. InBounds(h)
    <3> HIDE DEF g, h
    <3> QED  BY <1>1, <2>5, <2>6 DEF InBounds
  <2> HIDE DEF g, h
  <2> QED  BY <2>5, <2>6, <2>7, <2>8 DEF ArenaOK, h
<1> QED  BY <1>1, <1>3, <1>4


-----------------------------------------------------------------------------
(* The loops of lf_reset_arena and lf_dealloc_arena reach every live block. *)
LEMMA WalkedIsLive ==
  ASSUME NEW a, ArenaOK(a)
  PROVE  Walked(a) = a.live
<1>1. /\ Chained(a) /\ a.block_count \in Nat /\ a.block_count >= 1
      /\ a.live \subseteq Blocks
  BY DEF ArenaOK, Arenas, Chained
<1>2. PICK s \in [1 .. a.block_count -> a.live] : IsChain(a, s)
  BY <1>1 DEF Chained, Chains
<1> DEFINE closed(S) == /\ a.head_block \in S
                        /\ \A c \in S : a.block[c].next \in S \cup {Null}
<1>3. ASSUME NEW b \in Walked(a)
      PROVE  b \in a.live
  <2>1. a.head_block \in a.live
    BY <1>1, ChainEnds
  <2>2. ASSUME NEW c \in a.live
        PROVE  a.block[c].next \in a.live \cup {Null}
    <3>1. PICK i \in 1 .. a.block_count : s[i] = c
      BY <1>2 DEF IsChain
    <3>2. a.block[c].next = IF i = a.block_count THEN Null ELSE s[i + 1]
      BY <1>2, <3>1 DEF IsChain
    <3>3. i # a.block_count => i + 1 \in 1 .. a.block_count
      BY <1>1
    <3> QED  BY <3>2, <3>3
  <2> QED  BY <1>1, <2>1, <2>2 DEF Walked
<1>4. ASSUME NEW b \in a.live
      PROVE  b \in Walked(a)
  <2>1. ASSUME NEW S \in SUBSET Blocks, closed(S)
        PROVE  b \in S
    <3> DEFINE T == {i \in 1 .. a.block_count : s[i] \notin S}
    <3>1. T = {}
      <4>1. SUFFICES ASSUME T # {} PROVE FALSE
        OBVIOUS
      <4>2. T \in SUBSET Nat
        BY <1>1
      <4>3. PICK m \in T : \A y \in T : m <= y
        <5> HIDE DEF T
        <5> QED  BY <4>1, <4>2, LeastNumber
      <4>4. m \in 1 .. a.block_count /\ s[m] \notin S
        BY <4>3
      <4>5. m # 1
        BY <1>2, <2>1, <4>4 DEF IsChain
      <4>6. m - 1 \in 1 .. a.block_count /\ m - 1 \notin T
        BY <1>1, <4>3, <4>4, <4>5
      <4>7. s[m - 1] \in S
        BY <4>6
      <4>8. a.block[s[m - 1]].next = s[m]
        BY <1>1, <1>2, <4>4, <4>6 DEF IsChain
      <4>9. s[m] \in Blocks /\ s[m] # Null
        BY <1>1, <4>4, BlocksAssumption
      <4> QED  BY <2>1, <4>4, <4>7, <4>8, <4>9
    <3>2. PICK i \in 1 .. a.block_count : s[i] = b
      BY <1>2 DEF IsChain
    <3> QED  BY <3>1, <3>2
  <2> QED  BY <1>1, <2>1 DEF Walked
<1> QED  BY <1>3, <1>4

(* lf_reset_arena empties every block and keeps the chain. *)
LEMMA ResetArenaOK ==
  ASSUME NEW a, ArenaOK(a)
  PROVE  LET h == ResetArena(a)
         IN  /\ ArenaOK(h)
             /\ h.block_size = a.block_size /\ h.block_offset = a.block_offset
             /\ h.live = a.live
             /\ \A b \in h.live : IsBlockEmpty(h.block[b])
<1> DEFINE h == ResetArena(a)
           start == StartOffset(a.block_size, a.block_offset)
           blocks == [b \in Blocks |-> IF b \in Walked(a) THEN Restarted(a, b)
                                                         ELSE a.block[b]]
<1>1. /\ a \in Arenas /\ Chained(a) /\ InBounds(a) /\ a.block_count \in Nat
      /\ a.live \subseteq Blocks /\ a.block \in [Blocks -> MemBlocks]
      /\ a.block_size \in Nat /\ a.block_offset \in Offsets
  BY DEF ArenaOK, Arenas
<1>2. start \in 0 .. a.block_size
  BY <1>1, StartOffsetBounds
<1>3. h = [a EXCEPT !.block = blocks, !.size = 0]
  BY <1>1 DEF ResetArena
<1>4. ASSUME NEW b \in Blocks
      PROVE  /\ Restarted(a, b) \in MemBlocks
             /\ Restarted(a, b).prev = a.block[b].prev
             /\ Restarted(a, b).next = a.block[b].next
             /\ Restarted(a, b).size = a.block[b].size
             /\ Restarted(a, b).left_offset = start
             /\ Restarted(a, b).right_offset = start
  <2>1. start \in Nat
    BY <1>1, <1>2
  <2> HIDE DEF start
  <2>2. Restarted(a, b) = [a.block[b] EXCEPT !.left_offset = start,
                                             !.right_offset = start]
    BY DEF Restarted, start
  <2> QED  BY <1>1, <2>1, <2>2 DEF MemBlocks
<1>5. blocks \in [Blocks -> MemBlocks]
  BY <1>1, <1>4
<1>6. \A b \in a.live : blocks[b] = Restarted(a, b)
  BY <1>1, WalkedIsLive
<1> HIDE DEF h, blocks, start
<1>7. /\ h.live = a.live /\ h.block = blocks
      /\ h.head_block = a.head_block /\ h.tail_block = a.tail_block
      /\ h.block_size = a.block_size /\ h.block_offset = a.block_offset
      /\ h.block_count = a.block_count
  BY <1>1, <1>3 DEF Arenas
<1>8. h \in Arenas
  <2>1. 0 \in 0 .. SizeMod - 1
    BY SizeModAssumption
  <2> QED  BY <1>1, <1>3, <1>5, <2>1 DEF Arenas
<1>9. Chained(h)
  BY <1>1, <1>4, <1>6, <1>7, SameLinksChained
<1>10. InBounds(h)
  BY <1>1, <1>2, <1>4, <1>6, <1>7 DEF InBounds
<1>11. \A b \in h.live : IsBlockEmpty(h.block[b])
  BY <1>1, <1>4, <1>6, <1>7 DEF IsBlockEmpty
<1> QED  BY <1>7, <1>8, <1>9, <1>10, <1>11 DEF ArenaOK, h

-----------------------------------------------------------------------------
(* What a scan over the blocks of an arena and the elements in them meets   *)
(* (ElemsInOrder), before and after the operations of arena.c, and what     *)
(* lf_get_arena_elem_by_content finds: lemmas for the stack and the list.   *)

(* Chain, followed from the head along next, is the chain. *)
ChainAt(a, at, i) == IF i = 1 THEN a.head_block ELSE a.block[at[i - 1]].next

LEMMA ChainFollowed ==
  ASSUME NEW a, a.block_count \in Nat, NEW s \in [1 .. a.block_count -> a.live],
         IsChain(a, s), NEW i \in 1 .. a.block_count
  PROVE  s[i] = ChainAt(a, s, i)
<1>1. CASE i = 1
  BY <1>1 DEF IsChain, ChainAt
<1>2. CASE i # 1
  <2>1. i - 1 \in 1 .. a.block_count /\ i - 1 # a.block_count /\ (i - 1) + 1 = i
    BY <1>2
  <2>2. a.block[s[i - 1]].next =
          IF i - 1 = a.block_count THEN Null ELSE s[(i - 1) + 1]
    BY <2>1 DEF IsChain
  <2> QED  BY <1>2, <2>1, <2>2 DEF ChainAt
<1> QED  BY <1>1, <1>2

LEMMA ChainIs ==
  ASSUME NEW a, a.block_count \in Nat, NEW s \in [1 .. a.block_count -> a.live],
         IsChain(a, s)
  PROVE  Chain(a) = s
<1> DEFINE Is(at) == at = [i \in 1 .. a.block_count |-> ChainAt(a, at, i)]
           n == a.block_count
<1>1. Is(s)
  <2>1. s = [i \in 1 .. n |-> s[i]]
    OBVIOUS
  <2> QED  BY <2>1, ChainFollowed
<1>2. ASSUME NEW at, Is(at)
      PROVE  at = s
  <2> DEFINE T == {i \in 1 .. n : at[i] = s[i]}
  <2>0. \A i \in 1 .. n : at[i] = ChainAt(a, at, i)
    BY <1>2
  <2>1. 1 <= n => 1 \in T
    BY <2>0, ChainFollowed DEF ChainAt
  <2>2. ASSUME NEW i \in 1 .. n - 1, i \in T
        PROVE  i + 1 \in T
    <3>1. i + 1 \in 1 .. n /\ (i + 1) - 1 = i /\ i + 1 # 1
      OBVIOUS
    <3>2. at[i + 1] = ChainAt(a, at, i + 1) /\ s[i + 1] = ChainAt(a, s, i + 1)
      BY <2>0, <3>1, ChainFollowed
    <3> QED  BY <2>2, <3>1, <3>2 DEF ChainAt
  <2>3. \A i \in 1 .. n : i \in T
    <3> HIDE DEF T
    <3> QED  BY <2>1, <2>2, IntervalInduction
  <2>4. at = [i \in 1 .. n |-> at[i]]
    BY <1>2
  <2> QED  BY <2>3, <2>4
<1>3. Chain(a) = CHOOSE at : Is(at)
  BY DEF Chain, ChainAt
<1> HIDE DEF Is
<1> QED  BY <1>1, <1>2, <1>3

(* For a sound arena it lists every block once. *)
LEMMA ChainOfChained ==
  ASSUME NEW a, a.block_count \in Nat, Chained(a)
  PROVE  /\ Chain(a) \in [1 .. a.block_count -> a.live]
         /\ IsChain(a, Chain(a))
<1>1. PICK s \in [1 .. a.block_count -> a.live] : IsChain(a, s)
  BY DEF Chained, Chains
<1> QED  BY <1>1, ChainIs
(* A block more behind it keeps the chain's beginning; a block more before  *)
(* its head moves the chain by one place.                                   *)
LEMMA ChainPrefix ==
  ASSUME NEW a, a.block_count \in Nat, Chained(a),
         NEW h, h.block_count \in Nat, Chained(h),
         h.head_block = a.head_block, a.block_count <= h.block_count,
         \A b \in a.live \ {a.tail_block} : h.block[b].next = a.block[b].next
  PROVE  \A i \in 1 .. a.block_count : Chain(h)[i] = Chain(a)[i]
<1> DEFINE s == Chain(a)
           t == Chain(h)
           n == a.block_count
           T == {i \in 1 .. n : t[i] = s[i]}
<1>1. /\ s \in [1 .. n -> a.live] /\ IsChain(a, s)
      /\ t \in [1 .. h.block_count -> h.live] /\ IsChain(h, t)
  BY ChainOfChained
<1> HIDE DEF s, t
<1>2. 1 <= n => 1 \in T
  BY <1>1 DEF IsChain
<1>3. ASSUME NEW i \in 1 .. n - 1, i \in T
      PROVE  i + 1 \in T
  <2>1. /\ i + 1 \in 1 .. n /\ i + 1 \in 1 .. h.block_count /\ (i + 1) - 1 = i
        /\ i + 1 # 1 /\ i \in 1 .. n /\ n \in 1 .. n /\ i # n
    OBVIOUS
  <2>2. s[i + 1] = a.block[s[i]].next /\ t[i + 1] = h.block[t[i]].next
    <3>1. s[i + 1] = ChainAt(a, s, i + 1) /\ t[i + 1] = ChainAt(h, t, i + 1)
      BY <1>1, <2>1, ChainFollowed
    <3> QED  BY <2>1, <3>1 DEF ChainAt
  <2>3. s[i] \in a.live /\ s[i] # a.tail_block
    BY <1>1, <2>1 DEF IsChain
  <2> QED  BY <1>3, <2>1, <2>2, <2>3
<1>4. \A i \in 1 .. n : i \in T
  <2> HIDE DEF T
  <2> QED  BY <1>2, <1>3, IntervalInduction
<1> QED  BY <1>4 DEF s, t

LEMMA ChainShift ==
  ASSUME NEW a, a.block_count \in Nat, Chained(a),
         NEW h, h.block_count = a.block_count + 1, Chained(h),
         h.block[h.head_block].next = a.head_block,
         \A b \in a.live : h.block[b].next = a.block[b].next
  PROVE  \A i \in 1 .. a.block_count : Chain(h)[i + 1] = Chain(a)[i]
<1> DEFINE s == Chain(a)
           t == Chain(h)
           n == a.block_count
           T == {i \in 1 .. n : t[i + 1] = s[i]}
<1>1. /\ s \in [1 .. n -> a.live] /\ IsChain(a, s)
      /\ t \in [1 .. h.block_count -> h.live] /\ IsChain(h, t)
  BY ChainOfChained
<1> HIDE DEF s, t
<1>2. 1 <= n => 1 \in T
  <2> SUFFICES ASSUME 1 <= n PROVE t[1 + 1] = s[1] /\ 1 \in 1 .. n
    OBVIOUS
  <2>1. 1 + 1 \in 1 .. h.block_count /\ 1 + 1 # 1 /\ (1 + 1) - 1 = 1
    OBVIOUS
  <2>2. t[1 + 1] = ChainAt(h, t, 1 + 1)
    <3>1. h.block_count \in Nat
      OBVIOUS
    <3> QED  BY <1>1, <2>1, <3>1, ChainFollowed
  <2> QED  BY <1>1, <2>1, <2>2 DEF ChainAt, IsChain
<1>3. ASSUME NEW i \in 1 .. n - 1, i \in T
      PROVE  i + 1 \in T
  <2>1. /\ i + 1 \in 1 .. n /\ (i + 1) + 1 \in 1 .. h.block_count
        /\ (i + 1) - 1 = i /\ ((i + 1) + 1) - 1 = i + 1
        /\ i + 1 # 1 /\ (i + 1) + 1 # 1 /\ i \in 1 .. n /\ h.block_count \in Nat
    OBVIOUS
  <2>2. s[i + 1] = a.block[s[i]].next
    <3>1. s[i + 1] = ChainAt(a, s, i + 1)
      BY <1>1, <2>1, ChainFollowed
    <3> QED  BY <2>1, <3>1 DEF ChainAt
  <2>3. t[(i + 1) + 1] = h.block[t[i + 1]].next
    <3>1. t[(i + 1) + 1] = ChainAt(h, t, (i + 1) + 1)
      BY <1>1, <2>1, ChainFollowed
    <3> QED  BY <2>1, <3>1 DEF ChainAt
  <2>4. s[i] \in a.live
    BY <1>1, <2>1
  <2> QED  BY <1>3, <2>1, <2>2, <2>3, <2>4
<1>4. \A i \in 1 .. n : i \in T
  <2> HIDE DEF T
  <2> QED  BY <1>2, <1>3, IntervalInduction
<1> QED  BY <1>4 DEF s, t

-----------------------------------------------------------------------------
ElemPtr == [block: Blocks, off: Nat]

(* The pointers of each block, from the head block on. *)
ElemSeqs(a, step) ==
  [i \in 1 .. a.block_count |-> ElemPtrs(a, Chain(a)[i], step)]

LEMMA ElemPtrsType ==
  ASSUME NEW a, a \in Arenas, InBounds(a), NEW b \in a.live, NEW step \in Nat \ {0}
  PROVE  /\ ElemPtrs(a, b, step) \in Seq(ElemPtr)
         /\ Len(ElemPtrs(a, b, step)) =
              (a.block[b].right_offset - a.block[b].left_offset) \div step
<1> DEFINE left == a.block[b].left_offset
           right == a.block[b].right_offset
           n == (right - left) \div step
<1>1. b \in Blocks /\ left \in Nat /\ right \in Nat /\ left <= right
  BY DEF Arenas, MemBlocks, InBounds
<1> HIDE DEF left, right
<1>2. n \in Nat
  BY <1>1
<1> DEFINE ptrs == [i \in 1 .. n |-> [block |-> b, off |-> left + (i - 1) * step]]
<1>3. ElemPtrs(a, b, step) = ptrs
  BY DEF ElemPtrs, left, right
<1> HIDE DEF n
<1>4. \A i \in 1 .. n : [block |-> b, off |-> left + (i - 1) * step] \in ElemPtr
  <2>1. \A i \in 1 .. n : left + (i - 1) * step \in Nat
    BY <1>1, <1>2
  <2> QED  BY <1>1, <2>1 DEF ElemPtr
<1>5. ptrs \in [1 .. n -> ElemPtr]
  BY <1>4
<1> HIDE DEF ptrs
<1>6. ptrs \in Seq(ElemPtr)
  BY <1>2, <1>5, SeqDef
<1>7. Len(ptrs) = n
  BY <1>2, <1>5, <1>6, LenProperties
<1> QED  BY <1>3, <1>6, <1>7 DEF n, left, right

LEMMA ElemSeqsType ==
  ASSUME NEW a, ArenaOK(a), NEW step \in Nat \ {0}
  PROVE  /\ ElemSeqs(a, step) \in Seq(Seq(ElemPtr))
         /\ Len(ElemSeqs(a, step)) = a.block_count
         /\ a.block_count \in Nat \ {0}
<1>1. /\ a \in Arenas /\ a.block_count \in Nat \ {0} /\ Chained(a) /\ InBounds(a)
  BY DEF ArenaOK, Arenas, Chained
<1>2. Chain(a) \in [1 .. a.block_count -> a.live]
  BY <1>1, ChainOfChained
<1>3. \A i \in 1 .. a.block_count : ElemPtrs(a, Chain(a)[i], step) \in Seq(ElemPtr)
  BY <1>1, <1>2, ElemPtrsType
<1> DEFINE seqs == ElemSeqs(a, step)
<1>4. seqs \in [1 .. a.block_count -> Seq(ElemPtr)]
  BY <1>3 DEF ElemSeqs
<1> HIDE DEF seqs
<1>5. seqs \in Seq(Seq(ElemPtr))
  BY <1>1, <1>4, SeqDef
<1>6. Len(seqs) = a.block_count
  BY <1>1, <1>4, <1>5, LenProperties
<1> QED  BY <1>1, <1>5, <1>6 DEF seqs

LEMMA ElemsInOrderType ==
  ASSUME NEW a, ArenaOK(a), NEW step \in Nat \ {0}
  PROVE  /\ ElemsInOrder(a, step) = FlattenSeq(ElemSeqs(a, step))
         /\ ElemsInOrder(a, step) \in Seq(ElemPtr)
<1>1. ElemsInOrder(a, step) = FlattenSeq(ElemSeqs(a, step))
  BY DEF ElemsInOrder, ElemSeqs
<1> QED  BY <1>1, ElemSeqsType, FlattenIsSeq

(* The elements of a block depend on its offsets only. *)
SameOffsets(a, h, b) ==
  /\ h.block[b].left_offset = a.block[b].left_offset
  /\ h.block[b].right_offset = a.block[b].right_offset

LEMMA SameElemPtrs ==
  ASSUME NEW a, NEW h, NEW b, SameOffsets(a, h, b), NEW step
  PROVE  ElemPtrs(h, b, step) = ElemPtrs(a, b, step)
  BY DEF SameOffsets, ElemPtrs
(* One element taken below the first of a block. *)
LEMMA ElemPtrsBelow ==
  ASSUME NEW step \in Nat \ {0}, NEW b \in Blocks,
         NEW a \in Arenas, InBounds(a), b \in a.live,
         NEW h \in Arenas, InBounds(h), b \in h.live,
         a.block[b].left_offset = h.block[b].left_offset + step,
         h.block[b].right_offset = a.block[b].right_offset
  PROVE  ElemPtrs(h, b, step)
           = <<[block |-> b, off |-> h.block[b].left_offset]>> \o ElemPtrs(a, b, step)
<1> DEFINE left == a.block[b].left_offset
           low == h.block[b].left_offset
           right == a.block[b].right_offset
           first == [block |-> b, off |-> low]
           s == ElemPtrs(a, b, step)
           t == ElemPtrs(h, b, step)
           n == (right - left) \div step
<1>1. /\ left \in Nat /\ low \in Nat /\ right \in Nat /\ left <= right
      /\ left = low + step
  BY DEF Arenas, MemBlocks, InBounds
<1>2. /\ s \in Seq(ElemPtr) /\ Len(s) = n
      /\ t \in Seq(ElemPtr) /\ Len(t) = (right - low) \div step
  BY ElemPtrsType
<1>3. /\ s = [i \in 1 .. n |-> [block |-> b, off |-> left + (i - 1) * step]]
      /\ t = [i \in 1 .. (right - low) \div step |->
                [block |-> b, off |-> low + (i - 1) * step]]
  BY DEF ElemPtrs
<1> HIDE DEF left, low, right, s, t
<1>4. (right - low) \div step = n + 1 /\ n \in Nat
  <2>1. right - low = (right - left) + 1 * step /\ right - left \in Nat
    BY <1>1
  <2>2. /\ ((right - left) + 1 * step) \div step = ((right - left) \div step) + 1
        /\ (right - left) \div step \in Nat
    BY <2>1, DivMore
  <2> QED  BY <2>1, <2>2
<1> HIDE DEF n
<1>5. first \in ElemPtr
  BY <1>1 DEF ElemPtr
<1> HIDE DEF first
<1>6. <<first>> \in Seq(ElemPtr) /\ Len(<<first>>) = 1 /\ <<first>>[1] = first
  BY <1>5
<1>7. /\ <<first>> \o s \in Seq(ElemPtr)
      /\ Len(<<first>> \o s) = n + 1
      /\ \A i \in 1 .. n + 1 :
           (<<first>> \o s)[i] = IF i <= 1 THEN <<first>>[i] ELSE s[i - 1]
  BY <1>2, <1>4, <1>6, ConcatProperties
<1>8. ASSUME NEW i \in 1 .. n + 1
      PROVE  t[i] = (<<first>> \o s)[i]
  <2>1. t[i] = [block |-> b, off |-> low + (i - 1) * step]
    BY <1>3, <1>4
  <2>2. CASE i = 1
    <3>1. low + (1 - 1) * step = low
      BY <1>1
    <3>2. (<<first>> \o s)[1] = first
      BY <1>4, <1>6, <1>7
    <3> QED  BY <2>1, <2>2, <3>1, <3>2 DEF first
  <2>3. CASE i # 1
    <3>1. i - 1 \in 1 .. n /\ ~(i <= 1)
      BY <1>4, <2>3
    <3>2. left + ((i - 1) - 1) * step = low + (i - 1) * step
      BY <1>1, <1>4
    <3>3. s[i - 1] = [block |-> b, off |-> left + ((i - 1) - 1) * step]
      BY <1>3, <3>1
    <3>4. (<<first>> \o s)[i] = s[i - 1]
      BY <1>7, <3>1
    <3> QED  BY <2>1, <3>2, <3>3, <3>4
  <2> QED  BY <2>2, <2>3
<1>9. t = <<first>> \o s
  BY <1>2, <1>4, <1>7, <1>8, SeqEqual
<1> QED  BY <1>9 DEF s, t, first, low

(* Some elements taken behind the last of a block without a gap at its end. *)
PtrsFrom(b, off, step, k) ==
  [i \in 1 .. k |-> [block |-> b, off |-> off + (i - 1) * step]]

LEMMA PtrsFromType ==
  ASSUME NEW step \in Nat \ {0}, NEW b \in Blocks, NEW off \in Nat, NEW k \in Nat
  PROVE  /\ PtrsFrom(b, off, step, k) \in Seq(ElemPtr)
         /\ Len(PtrsFrom(b, off, step, k)) = k
<1> DEFINE p == PtrsFrom(b, off, step, k)
<1>1. \A i \in 1 .. k : off + (i - 1) * step \in Nat
  OBVIOUS
<1>2. p \in [1 .. k -> ElemPtr]
  BY <1>1 DEF PtrsFrom, ElemPtr
<1> HIDE DEF p
<1>3. p \in Seq(ElemPtr)
  BY <1>2, SeqDef
<1>4. Len(p) = k
  BY <1>2, <1>3, LenProperties
<1> QED  BY <1>3, <1>4 DEF p

LEMMA PtrsFromAt ==
  ASSUME NEW step, NEW b, NEW off, NEW k, NEW j \in 1 .. k
  PROVE  PtrsFrom(b, off, step, k)[j] = [block |-> b, off |-> off + (j - 1) * step]
  BY DEF PtrsFrom

BlockRaised(a, h, b, step, k, m) ==
  /\ a \in Arenas /\ InBounds(a) /\ b \in a.live
  /\ h \in Arenas /\ InBounds(h) /\ b \in h.live
  /\ h.block[b].left_offset = a.block[b].left_offset
  /\ h.block[b].right_offset = a.block[b].right_offset + k * step
  /\ a.block[b].right_offset = a.block[b].left_offset + m * step

LEMMA ElemPtrsAbove ==
  ASSUME NEW step \in Nat \ {0}, NEW b \in Blocks, NEW k \in Nat, NEW m \in Nat,
         NEW a, NEW h, BlockRaised(a, h, b, step, k, m)
  PROVE  ElemPtrs(h, b, step)
           = ElemPtrs(a, b, step) \o PtrsFrom(b, a.block[b].right_offset, step, k)
<1> DEFINE left == a.block[b].left_offset
           right == a.block[b].right_offset
           s == ElemPtrs(a, b, step)
           t == ElemPtrs(h, b, step)
           e == PtrsFrom(b, right, step, k)
<1>0. /\ a \in Arenas /\ InBounds(a) /\ b \in a.live
      /\ h \in Arenas /\ InBounds(h) /\ b \in h.live
      /\ h.block[b].left_offset = left
      /\ h.block[b].right_offset = right + k * step
      /\ right = left + m * step
  BY DEF BlockRaised
<1>1. left \in Nat /\ right \in Nat /\ right = left + m * step
  BY <1>0 DEF Arenas, MemBlocks
<1>2. (right - left) \div step = m /\ ((right + k * step) - left) \div step = m + k
  <2>1. /\ right - left = m * step
        /\ (right + k * step) - left = (m + k) * step
        /\ m + k \in Nat
    BY <1>1
  <2> QED  BY <2>1, MultDiv
<1>3. /\ s \in Seq(ElemPtr) /\ Len(s) = m
      /\ t \in Seq(ElemPtr) /\ Len(t) = m + k
  BY <1>0, <1>2, ElemPtrsType, SMTT(60)
<1>4. /\ s = [i \in 1 .. m |-> [block |-> b, off |-> left + (i - 1) * step]]
      /\ t = [i \in 1 .. m + k |-> [block |-> b, off |-> left + (i - 1) * step]]
      /\ e = [i \in 1 .. k |-> [block |-> b, off |-> right + (i - 1) * step]]
  BY <1>0, <1>2 DEF ElemPtrs, PtrsFrom
<1> HIDE DEF left, right
<1>5. e \in Seq(ElemPtr) /\ Len(e) = k
  BY <1>1, PtrsFromType
<1> HIDE DEF s, t, e
<1>6. /\ s \o e \in Seq(ElemPtr) /\ Len(s \o e) = m + k
      /\ \A i \in 1 .. m + k : (s \o e)[i] = IF i <= m THEN s[i] ELSE e[i - m]
  BY <1>3, <1>5, ConcatProperties
<1>7. ASSUME NEW i \in 1 .. m + k
      PROVE  t[i] = (s \o e)[i]
  <2>1. t[i] = [block |-> b, off |-> left + (i - 1) * step]
    BY <1>4
  <2>2. CASE i <= m
    <3>1. (s \o e)[i] = s[i] /\ i \in 1 .. m
      BY <1>6, <2>2
    <3> QED  BY <1>4, <2>1, <3>1
  <2>3. CASE ~(i <= m)
    <3>1. (s \o e)[i] = e[i - m] /\ i - m \in 1 .. k
      BY <1>6, <2>3
    <3>2. right + ((i - m) - 1) * step = left + (i - 1) * step
      BY <1>1
    <3>3. e[i - m] = [block |-> b, off |-> right + ((i - m) - 1) * step]
      BY <1>4, <3>1
    <3> QED  BY <2>1, <3>1, <3>2, <3>3
  <2> QED  BY <2>2, <2>3
<1>8. t = s \o e
  BY <1>3, <1>6, <1>7, SeqEqual
<1> QED  BY <1>8 DEF s, t, e, right

(* A new head block, a new tail block, more elements in either. *)
LEMMA ElemsInFront ==
  ASSUME NEW a, ArenaOK(a), NEW h, ArenaOK(h), h.block_count = a.block_count + 1,
         h.block[h.head_block].next = a.head_block,
         \A b \in a.live : h.block[b].next = a.block[b].next /\ SameOffsets(a, h, b),
         NEW step \in Nat \ {0}
  PROVE  ElemsInOrder(h, step)
           = ElemPtrs(h, h.head_block, step) \o ElemsInOrder(a, step)
<1> DEFINE n == a.block_count
           seqs == ElemSeqs(a, step)
           more == ElemSeqs(h, step)
<1>1. /\ n \in Nat /\ n >= 1 /\ Chained(a) /\ Chained(h) /\ h.block_count = n + 1
      /\ h.block_count \in Nat
  BY DEF ArenaOK, Arenas, Chained
<1>2. \A i \in 1 .. n : Chain(h)[i + 1] = Chain(a)[i] /\ Chain(a)[i] \in a.live
  BY <1>1, ChainShift, ChainOfChained
<1>3. \A i \in 1 .. n : more[i + 1] = seqs[i]
  <2> TAKE i \in 1 .. n
  <2>1. i + 1 \in 1 .. h.block_count
    BY <1>1
  <2>2. /\ more[i + 1] = ElemPtrs(h, Chain(h)[i + 1], step)
        /\ seqs[i] = ElemPtrs(a, Chain(a)[i], step)
    BY <2>1 DEF ElemSeqs
  <2> QED  BY <1>2, <2>2, SameElemPtrs
<1>4. more[1] = ElemPtrs(h, h.head_block, step)
  <2>1. 1 \in 1 .. h.block_count /\ Chain(h)[1] = h.head_block
    BY <1>1, ChainOfChained DEF IsChain
  <2> QED  BY <2>1 DEF ElemSeqs
<1>5. /\ seqs \in Seq(Seq(ElemPtr)) /\ Len(seqs) = n
      /\ more \in Seq(Seq(ElemPtr)) /\ Len(more) = n + 1
  BY <1>1, ElemSeqsType
<1> HIDE DEF seqs, more, n
<1>6. FlattenSeq(more) = more[1] \o FlattenSeq(seqs)
  BY <1>1, <1>3, <1>5, FlattenCons
<1> QED  BY <1>4, <1>6, ElemsInOrderType DEF seqs, more

LEMMA ElemsBehind ==
  ASSUME NEW a, ArenaOK(a), NEW h, ArenaOK(h), h.block_count = a.block_count + 1,
         h.head_block = a.head_block,
         \A b \in a.live \ {a.tail_block} : h.block[b].next = a.block[b].next,
         \A b \in a.live : SameOffsets(a, h, b),
         NEW step \in Nat \ {0}
  PROVE  ElemsInOrder(h, step)
           = ElemsInOrder(a, step) \o ElemPtrs(h, h.tail_block, step)
<1> DEFINE n == a.block_count
           seqs == ElemSeqs(a, step)
           more == ElemSeqs(h, step)
<1>1. /\ n \in Nat /\ n >= 1 /\ Chained(a) /\ Chained(h) /\ h.block_count = n + 1
      /\ h.block_count \in Nat
  BY DEF ArenaOK, Arenas, Chained
<1>2. \A i \in 1 .. n : Chain(h)[i] = Chain(a)[i] /\ Chain(a)[i] \in a.live
  BY <1>1, ChainPrefix, ChainOfChained
<1>3. \A i \in 1 .. n : more[i] = seqs[i]
  <2> TAKE i \in 1 .. n
  <2>1. i \in 1 .. h.block_count
    BY <1>1
  <2>2. /\ more[i] = ElemPtrs(h, Chain(h)[i], step)
        /\ seqs[i] = ElemPtrs(a, Chain(a)[i], step)
    BY <2>1 DEF ElemSeqs
  <2> QED  BY <1>2, <2>2, SameElemPtrs
<1>4. more[n + 1] = ElemPtrs(h, h.tail_block, step)
  <2>1. n + 1 \in 1 .. h.block_count /\ Chain(h)[n + 1] = h.tail_block
    BY <1>1, ChainOfChained DEF IsChain
  <2> QED  BY <2>1 DEF ElemSeqs
<1>5. /\ seqs \in Seq(Seq(ElemPtr)) /\ Len(seqs) = n
      /\ more \in Seq(Seq(ElemPtr)) /\ Len(more) = n + 1
  BY <1>1, ElemSeqsType
<1> HIDE DEF seqs, more, n
<1>6. FlattenSeq(more) = FlattenSeq(seqs) \o more[n + 1]
  BY <1>1, <1>3, <1>5, FlattenSnoc, SMTT(60)
<1> QED  BY <1>4, <1>6, ElemsInOrderType DEF seqs, more

SameLinks(a, h) ==
  /\ h.block_count = a.block_count /\ h.live = a.live
  /\ h.head_block = a.head_block /\ h.tail_block = a.tail_block
  /\ \A b \in a.live : h.block[b].next = a.block[b].next

LEMMA SameLinksSameChain ==
  ASSUME NEW a, ArenaOK(a), NEW h, ArenaOK(h), SameLinks(a, h)
  PROVE  /\ Chain(h) = Chain(a)
         /\ \A i \in 1 .. a.block_count : Chain(a)[i] \in a.live
<1>1. /\ a.block_count \in Nat /\ h.block_count = a.block_count
      /\ Chained(a) /\ Chained(h) /\ h.head_block = a.head_block
      /\ \A b \in a.live : h.block[b].next = a.block[b].next
      /\ a.block_count <= h.block_count
  BY DEF ArenaOK, Arenas, SameLinks
<1>2. \A i \in 1 .. a.block_count : Chain(h)[i] = Chain(a)[i]
  BY <1>1, ChainPrefix
<1>3. /\ Chain(a) \in [1 .. a.block_count -> a.live]
      /\ Chain(h) \in [1 .. a.block_count -> h.live]
  BY <1>1, ChainOfChained
<1>4. Chain(h) = Chain(a)
  <2> DEFINE s == Chain(a)
             t == Chain(h)
  <2>1. /\ s \in [1 .. a.block_count -> a.live] /\ t \in [1 .. a.block_count -> h.live]
        /\ \A i \in 1 .. a.block_count : t[i] = s[i]
    BY <1>2, <1>3
  <2> HIDE DEF s, t
  <2>2. /\ s = [i \in 1 .. a.block_count |-> s[i]]
        /\ t = [i \in 1 .. a.block_count |-> t[i]]
    BY <2>1
  <2>3. t = s
    BY <2>1, <2>2
  <2> QED  BY <2>3 DEF s, t
<1> QED  BY <1>3, <1>4

LEMMA ElemsHeadGrown ==
  ASSUME NEW a, ArenaOK(a), NEW h, ArenaOK(h), SameLinks(a, h),
         NEW step \in Nat \ {0}, NEW e \in Seq(ElemPtr),
         ElemPtrs(h, a.head_block, step) = e \o ElemPtrs(a, a.head_block, step),
         \A b \in a.live \ {a.head_block} : SameOffsets(a, h, b)
  PROVE  ElemsInOrder(h, step) = e \o ElemsInOrder(a, step)
<1> DEFINE n == a.block_count
           s == Chain(a)
           seqs == ElemSeqs(a, step)
           more == ElemSeqs(h, step)
<1>1. /\ n \in Nat \ {0} /\ Chained(a) /\ h.block_count = n
  BY DEF ArenaOK, Arenas, Chained, SameLinks
<1>2. Chain(h) = s /\ \A i \in 1 .. n : s[i] \in a.live
  BY SameLinksSameChain
<1>3. \A i \in 1 .. n : /\ seqs[i] = ElemPtrs(a, s[i], step)
                        /\ more[i] = ElemPtrs(h, s[i], step)
  BY <1>1, <1>2 DEF ElemSeqs
<1>4. s[1] = a.head_block /\ \A i \in 2 .. n : s[i] # a.head_block
  <2>1. IsChain(a, s)
    BY <1>1, ChainOfChained
  <2> HIDE DEF s
  <2>2. s[1] = a.head_block /\ \A i, j \in 1 .. n : s[i] = s[j] => i = j
    BY <2>1 DEF IsChain
  <2>3. 1 \in 1 .. n /\ \A i \in 2 .. n : i \in 1 .. n /\ i # 1
    BY <1>1
  <2> QED  BY <2>2, <2>3
<1>5. more[1] = e \o seqs[1] /\ \A i \in 2 .. n : more[i] = seqs[i]
  <2> HIDE DEF seqs, more, s
  <2>1. 1 \in 1 .. n /\ \A i \in 2 .. n : i \in 1 .. n
    BY <1>1
  <2>2. more[1] = e \o seqs[1]
    BY <1>3, <1>4, <2>1
  <2>3. \A i \in 2 .. n : s[i] \in a.live \ {a.head_block}
    BY <1>2, <1>4, <2>1
  <2> QED  BY <1>3, <2>1, <2>2, <2>3, SameElemPtrs
<1>6. /\ seqs \in Seq(Seq(ElemPtr)) /\ Len(seqs) = n
      /\ more \in Seq(Seq(ElemPtr)) /\ Len(more) = n
  BY <1>1, ElemSeqsType
<1> HIDE DEF seqs, more, n, s
<1>7. FirstGrows(ElemPtr, seqs, more, n, e)
  BY <1>1, <1>5, <1>6 DEF FirstGrows
<1>8. FlattenSeq(more) = e \o FlattenSeq(seqs)
  BY <1>7, FlattenFirstGrown
<1> QED  BY <1>8, ElemsInOrderType DEF seqs, more

LEMMA ElemsTailGrown ==
  ASSUME NEW a, ArenaOK(a), NEW h, ArenaOK(h), SameLinks(a, h),
         NEW step \in Nat \ {0}, NEW e \in Seq(ElemPtr),
         ElemPtrs(h, a.tail_block, step) = ElemPtrs(a, a.tail_block, step) \o e,
         \A b \in a.live \ {a.tail_block} : SameOffsets(a, h, b)
  PROVE  ElemsInOrder(h, step) = ElemsInOrder(a, step) \o e
<1> DEFINE n == a.block_count
           s == Chain(a)
           seqs == ElemSeqs(a, step)
           more == ElemSeqs(h, step)
<1>1. /\ n \in Nat \ {0} /\ Chained(a) /\ h.block_count = n
  BY DEF ArenaOK, Arenas, Chained, SameLinks
<1>2. Chain(h) = s /\ \A i \in 1 .. n : s[i] \in a.live
  BY SameLinksSameChain
<1>3. \A i \in 1 .. n : /\ seqs[i] = ElemPtrs(a, s[i], step)
                        /\ more[i] = ElemPtrs(h, s[i], step)
  BY <1>1, <1>2 DEF ElemSeqs
<1>4. s[n] = a.tail_block /\ \A i \in 1 .. n - 1 : s[i] # a.tail_block
  <2>1. IsChain(a, s)
    BY <1>1, ChainOfChained
  <2> HIDE DEF s
  <2>2. s[n] = a.tail_block /\ \A i, j \in 1 .. n : s[i] = s[j] => i = j
    BY <2>1 DEF IsChain
  <2>3. n \in 1 .. n /\ \A i \in 1 .. n - 1 : i \in 1 .. n /\ i # n
    BY <1>1
  <2> QED  BY <2>2, <2>3
<1>5. more[n] = seqs[n] \o e /\ \A i \in 1 .. n - 1 : more[i] = seqs[i]
  <2> HIDE DEF seqs, more, s
  <2>1. n \in 1 .. n /\ \A i \in 1 .. n - 1 : i \in 1 .. n
    BY <1>1
  <2>2. more[n] = seqs[n] \o e
    BY <1>3, <1>4, <2>1
  <2>3. \A i \in 1 .. n - 1 : s[i] \in a.live \ {a.tail_block}
    BY <1>2, <1>4, <2>1
  <2> QED  BY <1>3, <2>1, <2>2, <2>3, SameElemPtrs
<1>6. /\ seqs \in Seq(Seq(ElemPtr)) /\ Len(seqs) = n
      /\ more \in Seq(Seq(ElemPtr)) /\ Len(more) = n
  BY <1>1, ElemSeqsType
<1> HIDE DEF seqs, more, n, s
<1>7. LastGrows(ElemPtr, seqs, more, n, e)
  BY <1>1, <1>5, <1>6 DEF LastGrows
<1>8. FlattenSeq(more) = FlattenSeq(seqs) \o e
  BY <1>7, FlattenLastGrown
<1> QED  BY <1>8, ElemsInOrderType DEF seqs, more

(* Every element in the live blocks is met, and nothing else. *)
LEMMA ElemsRange ==
  ASSUME NEW a, ArenaOK(a), NEW step \in Nat \ {0}
  PROVE  Range(ElemsInOrder(a, step))
           = UNION {Range(ElemPtrs(a, b, step)) : b \in a.live}
<1> DEFINE n == a.block_count
           s == Chain(a)
           seqs == ElemSeqs(a, step)
<1>1. n \in Nat \ {0} /\ Chained(a)
  BY DEF ArenaOK, Arenas, Chained
<1>2. s \in [1 .. n -> a.live] /\ \A b \in a.live : \E i \in 1 .. n : s[i] = b
  BY <1>1, ChainOfChained DEF IsChain
<1>3. \A i \in 1 .. n : seqs[i] = ElemPtrs(a, s[i], step)
  BY DEF ElemSeqs
<1>4. Range(FlattenSeq(seqs)) = UNION {Range(seqs[j]) : j \in 1 .. n}
  BY ElemSeqsType, FlattenRange
<1> HIDE DEF s, seqs, n
<1>5. {Range(seqs[j]) : j \in 1 .. n} = {Range(ElemPtrs(a, b, step)) : b \in a.live}
  <2> DEFINE R(b) == Range(ElemPtrs(a, b, step))
  <2>1. \A j \in 1 .. n : Range(seqs[j]) = R(s[j])
    BY <1>3
  <2> HIDE DEF R
  <2>2. {Range(seqs[j]) : j \in 1 .. n} = {R(b) : b \in a.live}
    BY <1>2, <2>1
  <2> QED  BY <2>2 DEF R
<1> QED  BY <1>4, <1>5, ElemsInOrderType DEF seqs
(* Elements lie in the used bytes of live blocks. *)
LEMMA ElemPlaces ==
  ASSUME NEW a, ArenaOK(a), NEW step \in Nat \ {0},
         NEW p \in Range(ElemsInOrder(a, step))
  PROVE  /\ p \in ElemPtr /\ p.block \in a.live
         /\ a.block[p.block].left_offset <= p.off
         /\ p.off + step <= a.block[p.block].right_offset
<1>1. PICK b \in a.live : p \in Range(ElemPtrs(a, b, step))
  BY ElemsRange
<1>2. a \in Arenas /\ InBounds(a)
  BY DEF ArenaOK
<1> DEFINE left == a.block[b].left_offset
           right == a.block[b].right_offset
           n == (right - left) \div step
<1>3. b \in Blocks /\ left \in Nat /\ right \in Nat /\ left <= right
  BY <1>2 DEF Arenas, MemBlocks, InBounds
<1>4. ElemPtrs(a, b, step) = PtrsFrom(b, left, step, n)
  BY DEF ElemPtrs, PtrsFrom
<1> HIDE DEF left, right
<1>5. n \in Nat /\ step * n <= right - left
  <2>1. right - left \in Nat
    BY <1>3
  <2> QED  BY <2>1
<1> HIDE DEF n
<1>6. PICK i \in 1 .. n : p = [block |-> b, off |-> left + (i - 1) * step]
  <2>1. DOMAIN PtrsFrom(b, left, step, n) = 1 .. n
    BY DEF PtrsFrom
  <2>2. PICK i \in 1 .. n : p = PtrsFrom(b, left, step, n)[i]
    BY <1>1, <1>4, <2>1 DEF Range
  <2> QED  BY <2>2 DEF PtrsFrom
<1>7. left + (i - 1) * step \in Nat /\ left <= left + (i - 1) * step
  BY <1>3, <1>5
<1>8. (left + (i - 1) * step) + step <= right
  <2>1. (i - 1) * step + step = step * i /\ step * i <= step * n
    BY <1>5
  <2>2. step * i \in Nat /\ step * n \in Nat /\ (i - 1) * step \in Nat
    BY <1>5
  <2> QED  BY <1>3, <1>5, <2>1, <2>2
<1> QED  BY <1>3, <1>6, <1>7, <1>8 DEF ElemPtr, left, right

-----------------------------------------------------------------------------
(* lf_get_arena_elem_by_content.  The search of one block. *)
FoundIn(p, places) == IF places = {} THEN p = Null ELSE p \in places

LEMMA FirstHitFinds ==
  ASSUME NEW ptrs \in Seq(ElemPtr), NEW matches
  PROVE  FoundIn(FirstHit(ptrs, matches), Range(ptrs) \cap matches)
<1> DEFINE hits == {i \in DOMAIN ptrs : ptrs[i] \in matches}
<1>1. hits \in SUBSET Nat /\ \A i \in hits : i \in DOMAIN ptrs
  BY LenProperties
<1>2. \A p : p \in Range(ptrs) \cap matches <=> \E i \in hits : p = ptrs[i]
  BY DEF Range
<1>3. FirstHit(ptrs, matches) = IF hits = {} THEN Null ELSE ptrs[Min(hits)]
  BY DEF FirstHit
<1> HIDE DEF hits
<1>4. CASE hits = {}
  BY <1>2, <1>3, <1>4 DEF FoundIn
<1>5. CASE hits # {}
  <2>1. Min(hits) \in hits
    BY <1>1, <1>5, LeastNumber DEF Min
  <2> QED  BY <1>2, <1>3, <1>5, <2>1 DEF FoundIn
<1> QED  BY <1>4, <1>5
(* Its walk over the other blocks. *)
BlockHit(a, matches, step, b) == FirstHit(ElemPtrs(a, b, step), matches)

SearchAt(a, matches, step, f, cur) ==
  IF cur = Null THEN Null
  ELSE IF BlockHit(a, matches, step, cur) # Null THEN BlockHit(a, matches, step, cur)
  ELSE f[a.block[cur].next]

IsSearch(a, matches, step, f) ==
  f = [b \in Blocks \cup {Null} |-> SearchAt(a, matches, step, f, AfterCursor(a, b))]

LEMMA AfterCursorType ==
  ASSUME NEW a \in Arenas, NEW b \in Blocks \cup {Null}
  PROVE  AfterCursor(a, b) \in Blocks \cup {Null}
  BY DEF AfterCursor, Arenas, MemBlocks

LEMMA SearchExists ==
  ASSUME NEW a \in Arenas, NEW matches, NEW step
  PROVE  \E f : IsSearch(a, matches, step, f)
<1> DEFINE D == Blocks \cup {Null}
           hit(b) == BlockHit(a, matches, step, AfterCursor(a, b))
           stop == {b \in D : AfterCursor(a, b) = Null \/ hit(b) # Null}
           val == [b \in D |-> IF AfterCursor(a, b) = Null THEN Null ELSE hit(b)]
           move == [b \in D |-> a.block[AfterCursor(a, b)].next]
<1>1. ASSUME NEW b \in D \ stop
      PROVE  move[b] \in D
  <2>1. AfterCursor(a, b) \in Blocks
    BY AfterCursorType
  <2>2. a.block[AfterCursor(a, b)].next \in D
    BY <2>1 DEF Arenas, MemBlocks
  <2> QED  BY <2>2
<1>2. PICK f : IsLoop(f, D, stop, val, move)
  <2>1. stop \in SUBSET D
    OBVIOUS
  <2> HIDE DEF D, stop, val, move
  <2> QED  BY <1>1, <2>1, LoopExists
<1>3. ASSUME NEW b \in D
      PROVE  LoopAt(f, stop, val, move, b)
               = SearchAt(a, matches, step, f, AfterCursor(a, b))
  <2>1. /\ val[b] = IF AfterCursor(a, b) = Null THEN Null ELSE hit(b)
        /\ move[b] = a.block[AfterCursor(a, b)].next
        /\ b \in stop <=> AfterCursor(a, b) = Null \/ hit(b) # Null
    OBVIOUS
  <2> HIDE DEF val, move, stop
  <2> QED  BY <2>1 DEF LoopAt, SearchAt
<1> HIDE DEF stop, val, move
<1> QED  BY <1>2, <1>3 DEF IsLoop, IsSearch

LEMMA SearchUnfolds ==
  ASSUME NEW a \in Arenas, NEW matches, NEW step
  PROVE  \E f : /\ IsSearch(a, matches, step, f)
                /\ GetElemByContent(a, matches, step) =
                     IF BlockHit(a, matches, step, a.cursor_block) # Null
                     THEN BlockHit(a, matches, step, a.cursor_block)
                     ELSE f[a.head_block]
<1> DEFINE f == CHOOSE f : IsSearch(a, matches, step, f)
<1>1. IsSearch(a, matches, step, f)
  BY SearchExists
<1>2. GetElemByContent(a, matches, step) =
        IF BlockHit(a, matches, step, a.cursor_block) # Null
        THEN BlockHit(a, matches, step, a.cursor_block)
        ELSE f[a.head_block]
  BY DEF GetElemByContent, IsSearch, SearchAt, BlockHit
<1> HIDE DEF f
<1> QED  BY <1>1, <1>2

(* One turn of the loop, at the i-th block of the chain. *)
NextInChain(s, n, i) == IF i = n THEN Null ELSE s[i + 1]

LEMMA SearchTurn ==
  ASSUME NEW a, ArenaOK(a), a.cursor_block \in a.live, NEW matches, NEW step,
         NEW f, IsSearch(a, matches, step, f), NEW s, s \in Chains(a),
         NEW i, i \in 1 .. a.block_count
  PROVE  f[s[i]] = IF s[i] # a.cursor_block /\ BlockHit(a, matches, step, s[i]) # Null
                   THEN BlockHit(a, matches, step, s[i])
                   ELSE f[NextInChain(s, a.block_count, i)]
<1> DEFINE n == a.block_count
           next == NextInChain(s, n, i)
<1>1. /\ n \in Nat /\ a.live \subseteq Blocks /\ IsChain(a, s) /\ s[i] \in Blocks
      /\ s \in [1 .. n -> a.live]
  BY DEF ArenaOK, Arenas, Chains
<1>2. next \in Blocks \cup {Null} /\ next # s[i]
  <2>1. CASE i = n
    BY <1>1, <2>1, BlocksAssumption DEF NextInChain
  <2>2. CASE i # n
    <3>1. i + 1 \in 1 .. n /\ i + 1 # i
      BY <1>1, <2>2
    <3>2. s[i + 1] # s[i]
      BY <1>1, <3>1 DEF IsChain
    <3> QED  BY <1>1, <2>2, <3>1, <3>2 DEF NextInChain
  <2> QED  BY <2>1, <2>2
<1>3. a.block[s[i]].next = next
  BY <1>1 DEF IsChain, NextInChain
<1>4. \A b \in Blocks \cup {Null} :
         f[b] = SearchAt(a, matches, step, f, AfterCursor(a, b))
  BY DEF IsSearch
<1> HIDE DEF next
<1>5. CASE s[i] = a.cursor_block
  <2>1. AfterCursor(a, s[i]) = next /\ AfterCursor(a, next) = next
    BY <1>2, <1>3, <1>5 DEF AfterCursor
  <2>2. f[s[i]] = f[next]
    BY <1>1, <1>2, <1>4, <2>1
  <2> QED  BY <1>5, <2>2 DEF next
<1>6. CASE s[i] # a.cursor_block
  <2>1. AfterCursor(a, s[i]) = s[i] /\ s[i] # Null
    BY <1>1, <1>6, BlocksAssumption DEF AfterCursor
  <2>2. f[s[i]] = SearchAt(a, matches, step, f, s[i])
    BY <1>1, <1>4, <2>1
  <2> QED  BY <1>3, <1>6, <2>1, <2>2 DEF SearchAt, next
<1> QED  BY <1>5, <1>6
(* The whole search: an element with the wanted content, if there is one.   *)
LEMMA GetElemFinds ==
  ASSUME NEW a, ArenaOK(a), a.cursor_block \in a.live, NEW matches,
         NEW step \in Nat \ {0}
  PROVE  FoundIn(GetElemByContent(a, matches, step),
                 Range(ElemsInOrder(a, step)) \cap matches)
<1> DEFINE n == a.block_count
           s == Chain(a)
           at(b) == Range(ElemPtrs(a, b, step)) \cap matches
           hit(b) == BlockHit(a, matches, step, b)
           all == UNION {at(b) : b \in a.live}
<1>1. /\ n \in Nat /\ n >= 1 /\ Chained(a) /\ InBounds(a) /\ a \in Arenas
      /\ a.live \subseteq Blocks
  BY DEF ArenaOK, Arenas, Chained
<1>2. s \in [1 .. n -> a.live] /\ IsChain(a, s)
  BY <1>1, ChainOfChained
<1>3. Range(ElemsInOrder(a, step)) \cap matches = all
  BY ElemsRange
<1>4. ASSUME NEW b \in a.live
      PROVE  /\ hit(b) = Null => at(b) = {}
             /\ hit(b) # Null => hit(b) \in all
  <2>1. ElemPtrs(a, b, step) \in Seq(ElemPtr)
    BY <1>1, ElemPtrsType
  <2>2. FoundIn(hit(b), at(b))
    BY <2>1, FirstHitFinds DEF BlockHit
  <2>3. at(b) \subseteq ElemPtr
    BY <2>1, RangeOfSeq
  <2>4. at(b) \subseteq all
    OBVIOUS
  <2>5. Null \notin ElemPtr
    BY NullAssumption DEF ElemPtr
  <2> HIDE DEF at, hit, all
  <2> QED  BY <2>2, <2>3, <2>4, <2>5 DEF FoundIn
<1>5. PICK f : /\ IsSearch(a, matches, step, f)
               /\ GetElemByContent(a, matches, step) =
                    IF hit(a.cursor_block) # Null THEN hit(a.cursor_block)
                    ELSE f[a.head_block]
  BY <1>1, SearchUnfolds
<1> HIDE DEF s, hit
<1>6. \A i \in 1 .. n : f[s[i]] = IF s[i] # a.cursor_block /\ hit(s[i]) # Null
                                  THEN hit(s[i]) ELSE f[NextInChain(s, n, i)]
  <2>1. IsSearch(a, matches, step, f)
    BY <1>5
  <2>2. s \in Chains(a)
    BY <1>2 DEF Chains
  <2> TAKE i \in 1 .. n
  <2>3. f[s[i]] = IF s[i] # a.cursor_block /\ BlockHit(a, matches, step, s[i]) # Null
                  THEN BlockHit(a, matches, step, s[i])
                  ELSE f[NextInChain(s, a.block_count, i)]
    BY <2>1, <2>2, SearchTurn
  <2> QED  BY <2>3 DEF hit
<1>7. f[Null] = Null
  <2>1. a.cursor_block # Null
    BY <1>1, BlocksAssumption
  <2>2. f[Null] = SearchAt(a, matches, step, f, AfterCursor(a, Null))
    BY <1>5 DEF IsSearch
  <2> QED  BY <2>1, <2>2 DEF AfterCursor, SearchAt
<1> HIDE DEF at, all
<1> DEFINE left(i) == \A j \in i .. n : s[j] # a.cursor_block => at(s[j]) = {}
           T == {i \in 1 .. n : /\ f[s[i]] # Null => f[s[i]] \in all
                                /\ f[s[i]] = Null => left(i)}
<1>8. n \in T
  <2>1. f[s[n]] = IF s[n] # a.cursor_block /\ hit(s[n]) # Null THEN hit(s[n]) ELSE Null
    BY <1>1, <1>6, <1>7 DEF NextInChain
  <2>2. n \in 1 .. n /\ \A j \in n .. n : j = n
    BY <1>1
  <2>3. s[n] \in a.live
    BY <1>2, <2>2
  <2> QED  BY <1>4, <2>1, <2>2, <2>3
<1>9. ASSUME NEW i \in 1 .. n - 1, i + 1 \in T
      PROVE  i \in T
  <2>1. i \in 1 .. n /\ i # n /\ \A j \in i .. n : j = i \/ j \in i + 1 .. n
    BY <1>1
  <2>2. f[s[i]] = IF s[i] # a.cursor_block /\ hit(s[i]) # Null THEN hit(s[i])
                  ELSE f[s[i + 1]]
    BY <1>6, <2>1 DEF NextInChain
  <2>3. s[i] \in a.live
    BY <1>2, <2>1
  <2>4. /\ f[s[i + 1]] # Null => f[s[i + 1]] \in all
        /\ f[s[i + 1]] = Null => left(i + 1)
    BY <1>9
  <2> QED  BY <1>4, <2>1, <2>2, <2>3, <2>4
<1>10. \A i \in 1 .. n : i \in T
  <2> HIDE DEF T
  <2> QED  BY <1>1, <1>8, <1>9, DownwardInduction
<1>11. /\ f[a.head_block] # Null => f[a.head_block] \in all
       /\ f[a.head_block] = Null =>
            \A b \in a.live : b # a.cursor_block => at(b) = {}
  <2>1. 1 \in T
    <3> HIDE DEF T
    <3> QED  BY <1>1, <1>10
  <2>3. s[1] = a.head_block
    BY <1>2 DEF IsChain
  <2>2. \A b \in a.live : \E j \in 1 .. n : s[j] = b
    BY <1>2 DEF IsChain
  <2> QED  BY <2>1, <2>2, <2>3
<1> DEFINE p == GetElemByContent(a, matches, step)
<1>12. p # Null => p \in all
  BY <1>4, <1>5, <1>11
<1>13. p = Null => all = {}
  <2> SUFFICES ASSUME p = Null PROVE \A b \in a.live : at(b) = {}
    BY DEF all
  <2>1. hit(a.cursor_block) = Null /\ f[a.head_block] = Null
    BY <1>5
  <2> QED  BY <1>4, <1>11, <2>1
<1>14. Null \notin all
  <2>1. \A b \in a.live : at(b) \subseteq ElemPtr
    BY <1>1, ElemPtrsType, RangeOfSeq DEF at
  <2>2. Null \notin ElemPtr
    BY NullAssumption DEF ElemPtr
  <2> QED  BY <2>1, <2>2 DEF all
<1> QED  BY <1>3, <1>12, <1>13, <1>14 DEF FoundIn
=============================================================================
