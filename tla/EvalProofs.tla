---------------------------- MODULE EvalProofs ----------------------------
(***************************************************************************)
(* Theorems about a program's schedule and its evaluation.  About          *)
(* ValSchedule, for programs of any size and arity: lemmas about the       *)
(* programs first, then about their postorder.  About Eval, for programs   *)
(* of any size nested in their first arguments, up to the last value of    *)
(* the schedule, and beyond it when the schedule is one block: its frame   *)
(* is a stack, and what StackProofs shows of one is used for it.           *)
(***************************************************************************)
EXTENDS ValSchedule, Eval, ArenaOpsProofs

(* The recursive function ProgramsUpTo. *)
OneNodeMore(P, n) == {Append(p, node) : p \in P, node \in NodesAbove(n)}

ProgramsAt(f, n) == IF n = 0 THEN {<<>>} ELSE OneNodeMore(f[n - 1], n - 1)

ArePrograms(f, k) == f = [n \in 0 .. k |-> ProgramsAt(f, n)]

LEMMA ProgramsExist == \E f : ArePrograms(f, NodeCount)
<1> DEFINE T == {k \in 0 .. NodeCount : \E f : ArePrograms(f, k)}
<1>0. NodeCount \in Nat
  BY NodeCountAssumption
<1>1. 0 \in T
  <2> DEFINE f == [n \in 0 .. 0 |-> {<<>>}]
  <2>1. f = [n \in 0 .. 0 |-> ProgramsAt(f, n)]
    BY DEF ProgramsAt
  <2> HIDE DEF f
  <2>2. ArePrograms(f, 0)
    BY <2>1 DEF ArePrograms
  <2> QED  BY <1>0, <2>2
<1>2. ASSUME NEW k \in 0 .. NodeCount - 1, k \in T
      PROVE  k + 1 \in T
  <2>1. PICK f : ArePrograms(f, k)
    BY <1>2
  <2> DEFINE g == [n \in 0 .. k + 1 |-> ProgramsAt(f, n)]
  <2>2. ASSUME NEW n \in 0 .. k + 1
        PROVE  g[n] = ProgramsAt(g, n)
    <3>1. g[n] = ProgramsAt(f, n)
      OBVIOUS
    <3>2. CASE n = 0
      BY <3>1, <3>2 DEF ProgramsAt
    <3>3. CASE n # 0
      <4>1. n - 1 \in 0 .. k /\ n - 1 \in 0 .. k + 1
        BY <3>3
      <4>2. f[n - 1] = ProgramsAt(f, n - 1)
        BY <2>1, <4>1 DEF ArePrograms
      <4>3. g[n - 1] = ProgramsAt(f, n - 1)
        BY <4>1
      <4> HIDE DEF g
      <4> QED  BY <3>1, <4>2, <4>3 DEF ProgramsAt
    <3> QED  BY <3>2, <3>3
  <2>3. g = [n \in 0 .. k + 1 |-> ProgramsAt(g, n)]
    <3>1. g = [n \in 0 .. k + 1 |-> g[n]]
      OBVIOUS
    <3> HIDE DEF g
    <3> QED  BY <2>2, <3>1
  <2> HIDE DEF g
  <2>4. ArePrograms(g, k + 1)
    BY <2>3 DEF ArePrograms
  <2>5. k + 1 \in 0 .. NodeCount
    BY <1>0
  <2> QED  BY <2>4, <2>5
<1>3. \A k \in 0 .. NodeCount : k \in T
  <2> HIDE DEF T
  <2> QED  BY <1>0, <1>1, <1>2, IntervalInduction
<1>4. NodeCount \in T
  <2> HIDE DEF T
  <2> QED  BY <1>0, <1>3
<1> QED  BY <1>4

(* A program: the arguments of a node have smaller numbers, and only calls  *)
(* have arguments.                                                          *)
NodeRecords == [kind: Kinds, args: Seq(Nat)]

NodeOver(node, m) ==
  node \in NodeRecords /\ node.args \in Seq(1 .. m) /\ (IsLeaf(node) => node.args = <<>>)

WellFormed(p, k) ==
  p \in Seq(NodeRecords) /\ Len(p) = k /\ \A n \in 1 .. k : NodeOver(p[n], n - 1)

LEMMA NodesAboveAre ==
  ASSUME NEW m \in Nat, NEW node \in NodesAbove(m)
  PROVE  NodeOver(node, m)
<1>1. CASE node \in [kind: Kinds \ Calls, args: {<<>>}]
  <2>1. node \in [kind: Kinds, args: Seq(Nat)] /\ node.args = <<>>
    <3>1. <<>> \in Seq(Nat)
      BY EmptySeq
    <3>2. /\ node = [kind |-> node.kind, args |-> node.args]
          /\ node.kind \in Kinds /\ node.args = <<>>
      BY <1>1
    <3> QED  BY <3>1, <3>2
  <2>2. <<>> \in Seq(1 .. m)
    BY EmptySeq
  <2> QED  BY <2>1, <2>2 DEF NodeOver, NodeRecords
<1>2. CASE node \in [kind: Kinds \cap Calls, args: UNION {[1 .. k -> 1 .. m] : k \in 0 .. MaxArity}]
  <2>1. PICK k \in 0 .. MaxArity : node.args \in [1 .. k -> 1 .. m]
    BY <1>2
  <2>2. k \in Nat
    BY NodeCountAssumption
  <2>3. node.args \in Seq(1 .. m)
    BY <2>1, <2>2, SeqDef
  <2>4. node.args \in Seq(Nat)
    <3>1. node.args \in [1 .. k -> Nat]
      BY <2>1
    <3> QED  BY <2>2, <3>1, SeqDef
  <2>5. node = [kind |-> node.kind, args |-> node.args] /\ node.kind \in Kinds
        /\ node.kind \in Calls
    BY <1>2
  <2> QED  BY <2>3, <2>4, <2>5 DEF NodeOver, NodeRecords, IsLeaf
<1> QED  BY <1>1, <1>2 DEF NodesAbove

LEMMA WellFormedMore ==
  ASSUME NEW k \in Nat, NEW p, WellFormed(p, k), NEW node \in NodesAbove(k)
  PROVE  WellFormed(Append(p, node), k + 1)
<1> DEFINE q == Append(p, node)
<1>1. NodeOver(node, k) /\ node \in NodeRecords
  BY NodesAboveAre DEF NodeOver
<1>2. /\ p \in Seq(NodeRecords) /\ Len(p) = k /\ \A n \in 1 .. k : NodeOver(p[n], n - 1)
  BY DEF WellFormed
<1>3. /\ q \in Seq(NodeRecords) /\ Len(q) = k + 1 /\ q[k + 1] = node
      /\ \A n \in 1 .. k : q[n] = p[n]
  BY <1>1, <1>2, AppendProperties
<1> HIDE DEF q
<1>4. ASSUME NEW n \in 1 .. k + 1
      PROVE  NodeOver(q[n], n - 1)
  <2>1. CASE n = k + 1
    <3>1. (k + 1) - 1 = k
      OBVIOUS
    <3> QED  BY <1>1, <1>3, <2>1, <3>1
  <2>2. CASE n # k + 1
    <3>1. n \in 1 .. k
      BY <2>2
    <3> QED  BY <1>2, <1>3, <3>1
  <2> QED  BY <2>1, <2>2
<1> QED  BY <1>3, <1>4 DEF WellFormed, q

LEMMA ProgramsWellFormed ==
  ASSUME NEW p \in AllPrograms
  PROVE  WellFormed(p, NodeCount)
<1> DEFINE f == ProgramsUpTo
           T == {k \in 0 .. NodeCount : \A q \in f[k] : WellFormed(q, k)}
<1>0. NodeCount \in Nat
  BY NodeCountAssumption
<1>1. ArePrograms(f, NodeCount)
  <2>1. f = CHOOSE g : ArePrograms(g, NodeCount)
    BY DEF ProgramsUpTo, ArePrograms, ProgramsAt, OneNodeMore
  <2> HIDE DEF f
  <2> QED  BY <2>1, ProgramsExist
<1> HIDE DEF f
<1>2. \A n \in 0 .. NodeCount : f[n] = ProgramsAt(f, n)
  BY <1>1 DEF ArePrograms
<1>3. 0 \in T
  <2>1. f[0] = {<<>>}
    <3>1. 0 \in 0 .. NodeCount
      BY <1>0
    <3>2. f[0] = ProgramsAt(f, 0)
      BY <1>2, <3>1
    <3> QED  BY <3>2 DEF ProgramsAt
  <2>2. WellFormed(<<>>, 0)
    BY EmptySeq DEF WellFormed
  <2> QED  BY <1>0, <2>1, <2>2
<1>4. ASSUME NEW k \in 0 .. NodeCount - 1, k \in T
      PROVE  k + 1 \in T
  <2>1. k + 1 \in 0 .. NodeCount /\ k \in Nat /\ (k + 1) - 1 = k /\ k + 1 # 0
    BY <1>0
  <2>2. f[k + 1] = OneNodeMore(f[k], k)
    <3>1. f[k + 1] = ProgramsAt(f, k + 1)
      BY <1>2, <2>1
    <3> QED  BY <2>1, <3>1 DEF ProgramsAt
  <2>3. ASSUME NEW q \in f[k], NEW node \in NodesAbove(k)
        PROVE  WellFormed(Append(q, node), k + 1)
    <3>1. WellFormed(q, k)
      BY <1>4
    <3> QED  BY <2>1, <3>1, WellFormedMore
  <2>4. \A r \in f[k + 1] : WellFormed(r, k + 1)
    <3>1. ASSUME NEW r \in f[k + 1]
          PROVE  WellFormed(r, k + 1)
      <4>1. r \in OneNodeMore(f[k], k)
        BY <2>2
      <4>2. PICK q \in f[k], node \in NodesAbove(k) : r = Append(q, node)
        BY <4>1 DEF OneNodeMore
      <4> QED  BY <2>3, <4>2
    <3> QED  BY <3>1
  <2> QED  BY <2>1, <2>4
<1>5. \A k \in 0 .. NodeCount : k \in T
  <2> HIDE DEF T
  <2> QED  BY <1>0, <1>3, <1>4, IntervalInduction
<1>6. NodeCount \in T
  <2> HIDE DEF T
  <2> QED  BY <1>0, <1>5
<1> QED  BY <1>6 DEF AllPrograms, f

LEMMA NodeOfProgram ==
  ASSUME NEW p \in AllPrograms, NEW n \in Nodes
  PROVE  /\ p[n].args \in Seq(Nodes) /\ (IsLeaf(p[n]) => p[n].args = <<>>)
         /\ \A i \in 1 .. Len(p[n].args) : p[n].args[i] \in 1 .. n - 1
<1>1. n \in Nat \ {0} /\ NodeCount \in Nat /\ \A m \in 1 .. n - 1 : m \in Nodes
  BY NodeCountAssumption DEF Nodes
<1>2. NodeOver(p[n], n - 1)
  BY ProgramsWellFormed DEF WellFormed, Nodes
<1>3. /\ p[n].args \in Seq(1 .. n - 1) /\ (IsLeaf(p[n]) => p[n].args = <<>>)
  BY <1>2 DEF NodeOver
<1> DEFINE args == p[n].args
<1>4. args \in Seq(1 .. n - 1)
  BY <1>3
<1> HIDE DEF args
<1>5. Len(args) \in Nat /\ \A i \in 1 .. Len(args) : args[i] \in 1 .. n - 1
  BY <1>4, LenProperties
<1>6. args \in [1 .. Len(args) -> Nodes]
  <2>1. args = [i \in 1 .. Len(args) |-> args[i]]
    BY <1>4, LenProperties
  <2> QED  BY <1>1, <1>5, <2>1
<1>7. args \in Seq(Nodes)
  BY <1>5, <1>6, SeqDef
<1> QED  BY <1>3, <1>5, <1>7 DEF args

(* The postorders of the nodes a sequence designates, one after another.    *)
Written(f, s) == FlattenSeq(Mapped(f, s))

LEMMA WrittenIs ==
  ASSUME NEW S, NEW T, NEW f, ReadsAll(f, S, Seq(T)), NEW s \in Seq(S)
  PROVE  /\ Mapped(f, s) \in Seq(Seq(T)) /\ Len(Mapped(f, s)) = Len(s)
         /\ Written(f, s) \in Seq(T)
<1>1. ReadsInto(f, s, Seq(T))
  BY RangeOfSeq DEF ReadsInto, ReadsAll
<1>2. Mapped(f, s) \in Seq(Seq(T)) /\ Len(Mapped(f, s)) = Len(s)
  BY <1>1, MappedType
<1> QED  BY <1>2, FlattenIsSeq DEF Written

LEMMA WrittenCat ==
  ASSUME NEW S, NEW T, NEW f, ReadsAll(f, S, Seq(T)),
         NEW s \in Seq(S), NEW t \in Seq(S)
  PROVE  Written(f, Cat(s, t)) = Cat(Written(f, s), Written(f, t))
<1>1. Mapped(f, s) \in Seq(Seq(T)) /\ Mapped(f, t) \in Seq(Seq(T))
  BY WrittenIs
<1>2. Mapped(f, Cat(s, t)) = Cat(Mapped(f, s), Mapped(f, t))
  BY MappedCat
<1> QED  BY <1>1, <1>2, FlattenCat DEF Written

LEMMA WrittenOne ==
  ASSUME NEW S, NEW T, NEW f, ReadsAll(f, S, Seq(T)), NEW c \in S
  PROVE  Written(f, <<c>>) = f[c]
<1>1. <<c>> \in Seq(S) /\ Len(<<c>>) = 1 /\ <<c>>[1] = c /\ DOMAIN <<c>> = 1 .. 1
  OBVIOUS
<1> DEFINE one == <<c>>
<1>2. one \in Seq(S) /\ Len(one) = 1 /\ one[1] = c /\ DOMAIN one = 1 .. 1
  BY <1>1
<1> HIDE DEF one
<1>3. Mapped(f, one) \in Seq(Seq(T)) /\ Len(Mapped(f, one)) = Len(one)
  BY <1>2, WrittenIs
<1>4. Mapped(f, one)[1] = f[c]
  BY <1>2 DEF Mapped
<1> QED  BY <1>2, <1>3, <1>4, FlattenOne DEF Written, one

(* The recursive function of PostorderOf, up to node k. *)
PostAt(f, p, n) ==
  FlattenSeq([i \in 1 .. Len(p[n].args) |-> f[p[n].args[i]]]) \o <<n>>

IsPost(f, p, k) == f = [n \in 1 .. k |-> PostAt(f, p, n)]

LEMMA PostAgrees ==
  ASSUME NEW p \in AllPrograms, NEW n \in Nodes, NEW f, NEW g,
         \A m \in 1 .. n - 1 : f[m] = g[m]
  PROVE  PostAt(f, p, n) = PostAt(g, p, n)
<1> DEFINE args == p[n].args
<1>1. \A i \in 1 .. Len(args) : args[i] \in 1 .. n - 1
  BY NodeOfProgram
<1> HIDE DEF args
<1>2. [i \in 1 .. Len(args) |-> f[args[i]]] = [i \in 1 .. Len(args) |-> g[args[i]]]
  BY <1>1
<1> QED  BY <1>2 DEF PostAt, args

LEMMA PostExists ==
  ASSUME NEW p \in AllPrograms
  PROVE  \E f : IsPost(f, p, NodeCount)
<1> DEFINE T == {k \in 0 .. NodeCount : \E f : IsPost(f, p, k)}
<1>0. NodeCount \in Nat
  BY NodeCountAssumption
<1>1. 0 \in T
  <2> DEFINE f == [n \in 1 .. 0 |-> {}]
  <2>1. f = [n \in 1 .. 0 |-> PostAt(f, p, n)]
    OBVIOUS
  <2> HIDE DEF f
  <2>2. IsPost(f, p, 0)
    BY <2>1 DEF IsPost
  <2> QED  BY <1>0, <2>2
<1>2. ASSUME NEW k \in 0 .. NodeCount - 1, k \in T
      PROVE  k + 1 \in T
  <2>1. PICK f : IsPost(f, p, k)
    BY <1>2
  <2> DEFINE g == [n \in 1 .. k + 1 |-> PostAt(f, p, n)]
  <2>2. ASSUME NEW n \in 1 .. k
        PROVE  g[n] = f[n]
    <3>1. f[n] = PostAt(f, p, n)
      BY <2>1 DEF IsPost
    <3>2. n \in 1 .. k + 1
      BY <1>0
    <3>3. g[n] = PostAt(f, p, n)
      BY <3>2
    <3> QED  BY <3>1, <3>3
  <2>3. \A n \in 1 .. k + 1 : g[n] = PostAt(f, p, n)
    OBVIOUS
  <2>4. g = [n \in 1 .. k + 1 |-> g[n]]
    OBVIOUS
  <2> HIDE DEF g
  <2>5. ASSUME NEW n \in 1 .. k + 1
        PROVE  g[n] = PostAt(g, p, n)
    <3>1. n \in Nodes /\ \A m \in 1 .. n - 1 : m \in 1 .. k
      BY <1>0 DEF Nodes
    <3>2. \A m \in 1 .. n - 1 : f[m] = g[m]
      BY <2>2, <3>1
    <3>3. PostAt(f, p, n) = PostAt(g, p, n)
      BY <3>1, <3>2, PostAgrees
    <3> QED  BY <2>3, <3>3
  <2>6. IsPost(g, p, k + 1)
    BY <2>4, <2>5 DEF IsPost
  <2>7. k + 1 \in 0 .. NodeCount
    BY <1>0
  <2> QED  BY <2>6, <2>7
<1>3. \A k \in 0 .. NodeCount : k \in T
  <2> HIDE DEF T
  <2> QED  BY <1>0, <1>1, <1>2, IntervalInduction
<1>4. NodeCount \in T
  <2> HIDE DEF T
  <2> QED  BY <1>0, <1>3
<1> QED  BY <1>4

(* The postorder of a node: those of its arguments, then the node.          *)
LEMMA PostorderIs ==
  ASSUME NEW p \in AllPrograms
  PROVE  LET post == PostorderOf(p)
         IN  /\ \A n \in Nodes : post[n] \in Seq(Nodes)
             /\ \A n \in Nodes : post[n] = Cat(Written(post, p[n].args), <<n>>)
<1> DEFINE post == PostorderOf(p)
<1>0. NodeCount \in Nat
  BY NodeCountAssumption
<1>1. IsPost(post, p, NodeCount)
  <2>1. post = CHOOSE f : IsPost(f, p, NodeCount)
    BY DEF PostorderOf, IsPost, PostAt, Nodes
  <2> HIDE DEF post
  <2> QED  BY <2>1, PostExists
<1> HIDE DEF post
<1>2. ASSUME NEW n \in Nodes
      PROVE  post[n] = Cat(Written(post, p[n].args), <<n>>)
  <2>1. post[n] = PostAt(post, p, n)
    BY <1>1 DEF IsPost, Nodes
  <2>2. DOMAIN p[n].args = 1 .. Len(p[n].args)
    BY NodeOfProgram, LenProperties
  <2>3. Mapped(post, p[n].args)
          = [i \in 1 .. Len(p[n].args) |-> post[p[n].args[i]]]
    BY <2>2 DEF Mapped
  <2> QED  BY <2>1, <2>3 DEF PostAt, Written, Cat
<1> DEFINE T == {k \in 0 .. NodeCount : \A n \in 1 .. k : post[n] \in Seq(Nodes)}
<1>3. 0 \in T
  BY <1>0
<1>4. ASSUME NEW k \in 0 .. NodeCount - 1, k \in T
      PROVE  k + 1 \in T
  <2>1. k + 1 \in Nodes /\ k + 1 \in 0 .. NodeCount /\ (k + 1) - 1 = k
    BY <1>0 DEF Nodes
  <2> DEFINE args == p[k + 1].args
  <2>2. args \in Seq(Nodes) /\ \A i \in 1 .. Len(args) : args[i] \in 1 .. k
    BY <2>1, NodeOfProgram
  <2> HIDE DEF args
  <2>3. Range(args) \subseteq 1 .. k
    BY <2>2, LenProperties DEF Range
  <2>4. ReadsInto(post, args, Seq(Nodes))
    BY <1>4, <2>3 DEF ReadsInto
  <2>5. Mapped(post, args) \in Seq(Seq(Nodes))
    BY <2>2, <2>4, MappedType
  <2>6. Written(post, args) \in Seq(Nodes)
    BY <2>5, FlattenIsSeq DEF Written
  <2>7. post[k + 1] \in Seq(Nodes)
    <3>1. <<k + 1>> \in Seq(Nodes)
      BY <2>1
    <3>2. post[k + 1] = Cat(Written(post, args), <<k + 1>>)
      BY <1>2, <2>1 DEF args
    <3> QED  BY <2>6, <3>1, <3>2, ConcatProperties DEF Cat
  <2>8. \A n \in 1 .. k + 1 : post[n] \in Seq(Nodes)
    <3>1. \A n \in 1 .. k + 1 : n \in 1 .. k \/ n = k + 1
      BY <1>0
    <3> QED  BY <1>4, <2>7, <3>1
  <2> QED  BY <2>1, <2>8
<1>5. \A k \in 0 .. NodeCount : k \in T
  <2> HIDE DEF T
  <2> QED  BY <1>0, <1>3, <1>4, IntervalInduction
<1>6. NodeCount \in T
  <2> HIDE DEF T
  <2> QED  BY <1>0, <1>5
<1>7. \A n \in Nodes : post[n] \in Seq(Nodes)
  BY <1>6 DEF Nodes
<1> QED  BY <1>2, <1>7 DEF post
-----------------------------------------------------------------------------
(* The loop: the postorders of what is still to visit, the bottom of the    *)
(* worklist first, then the schedule.                                       *)
Scheduled(p, to_visit, schedule) ==
  Cat(Written(PostorderOf(p), Reverse(to_visit)), schedule)

LEMMA ScheduleSoFarIs ==
  ASSUME ScheduleTypeOK
  PROVE  ScheduleSoFar <=>
           Scheduled(program, vals_to_visit, val_schedule) = PostorderOf(program)[Root]
<1> DEFINE rest == Reverse(vals_to_visit)
<1>1. rest \in Seq(Nodes)
  BY ReverseType DEF ScheduleTypeOK
<1>2. DOMAIN rest = 1 .. Len(rest)
  BY <1>1, LenProperties
<1> HIDE DEF rest
<1>3. Mapped(PostorderOf(program), rest)
        = [i \in 1 .. Len(rest) |-> PostorderOf(program)[rest[i]]]
  BY <1>2 DEF Mapped
<1> QED  BY <1>3 DEF ScheduleSoFar, Scheduled, Written, Cat, rest

ScheduleIInv == ScheduleTypeOK /\ ScheduleSoFar

(* What one turn of the loop does to the worklist and the schedule. *)
Visited(p, v, w, s, t) ==
  \E c \in Nodes, tl \in Seq(Nodes) :
     v = Cat(<<c>>, tl) /\ w = Cat(Reverse(p[c].args), tl) /\ t = Cat(<<c>>, s)

LEMMA VisitIs ==
  ASSUME ScheduleTypeOK, Visit
  PROVE  /\ Visited(program, vals_to_visit, vals_to_visit', val_schedule, val_schedule')
         /\ program' = program
<1> DEFINE c == Head(vals_to_visit)
           tl == Tail(vals_to_visit)
<1>1. /\ vals_to_visit \in Seq(Nodes) /\ vals_to_visit # <<>> /\ program \in AllPrograms
      /\ val_schedule' = Cat(<<c>>, val_schedule) /\ program' = program
      /\ vals_to_visit' = IF IsLeaf(program[c]) THEN tl
                          ELSE Cat(Reverse(program[c].args), tl)
  BY DEF ScheduleTypeOK, Visit, MoreToVisit, PushAll, ArgsToVisit, Cat
<1>2. c \in Nodes /\ tl \in Seq(Nodes) /\ vals_to_visit = Cat(<<c>>, tl)
  BY <1>1, HeadTailProperties, HeadTailOfCons DEF Cat
<1> HIDE DEF c, tl
<1>3. vals_to_visit' = Cat(Reverse(program[c].args), tl)
  <2>1. CASE IsLeaf(program[c])
    <3>1. program[c].args = <<>>
      BY <1>1, <1>2, <2>1, NodeOfProgram
    <3>2. Reverse(<<>>) = <<>>
      BY DEF Reverse
    <3>3. Cat(<<>>, tl) = tl
      BY <1>2 DEF Cat
    <3> QED  BY <1>1, <2>1, <3>1, <3>2, <3>3
  <2>2. CASE ~IsLeaf(program[c])
    BY <1>1, <2>2
  <2> QED  BY <2>1, <2>2
<1> QED  BY <1>1, <1>2, <1>3 DEF Visited

KeepsSchedule(p, v, w, s, t) ==
  /\ w \in Seq(Nodes) /\ t \in Seq(Nodes)
  /\ Scheduled(p, w, t) = Scheduled(p, v, s)

LEMMA VisitKeeps ==
  ASSUME NEW p \in AllPrograms, NEW v, NEW w, NEW s \in Seq(Nodes), NEW t,
         Visited(p, v, w, s, t)
  PROVE  KeepsSchedule(p, v, w, s, t)
<1> DEFINE post == PostorderOf(p)
<1>1. PICK c \in Nodes, tl \in Seq(Nodes) :
        v = Cat(<<c>>, tl) /\ w = Cat(Reverse(p[c].args), tl) /\ t = Cat(<<c>>, s)
  BY DEF Visited
<1> DEFINE args == p[c].args
           one == <<c>>
           rest == Reverse(tl)
<1>2. args \in Seq(Nodes) /\ one \in Seq(Nodes)
  BY NodeOfProgram
<1>3. rest \in Seq(Nodes) /\ Reverse(args) \in Seq(Nodes)
  BY <1>2, ReverseType
<1>4. ReadsAll(post, Nodes, Seq(Nodes))
  BY PostorderIs DEF ReadsAll
<1>5. post[c] = Cat(Written(post, args), one)
  BY PostorderIs
<1>6. Reverse(one) = one
  BY DEF Reverse
<1> HIDE DEF args, one, rest, post
<1>7. w \in Seq(Nodes) /\ t \in Seq(Nodes)
  BY <1>1, <1>2, <1>3, ConcatProperties DEF Cat, args, one
<1>8. Reverse(w) = Cat(rest, args)
  <2>1. Reverse(Cat(Reverse(args), tl)) = Cat(Reverse(tl), args)
    BY <1>2, ReversePushed
  <2> QED  BY <1>1, <2>1 DEF args, rest
<1>9. Reverse(v) = Cat(rest, one)
  <2>1. Reverse(Cat(Reverse(one), tl)) = Cat(Reverse(tl), one)
    BY <1>2, ReversePushed
  <2>2. v = Cat(one, tl)
    BY <1>1 DEF one
  <2> QED  BY <1>6, <2>1, <2>2 DEF rest
<1> DEFINE wr == Written(post, rest)
           wa == Written(post, args)
<1>10. wr \in Seq(Nodes) /\ wa \in Seq(Nodes)
  BY <1>2, <1>3, <1>4, WrittenIs
<1>11. Written(post, Reverse(w)) = Cat(wr, wa)
  BY <1>2, <1>3, <1>4, <1>8, WrittenCat
<1>12. Written(post, Reverse(v)) = Cat(wr, Cat(wa, one))
  <2>1. Written(post, Cat(rest, one)) = Cat(wr, Written(post, one))
    BY <1>2, <1>3, <1>4, WrittenCat
  <2>2. Written(post, one) = post[c]
    BY <1>4, WrittenOne DEF one
  <2> QED  BY <1>5, <1>9, <2>1, <2>2
<1> HIDE DEF wr, wa
<1>13. Cat(Cat(wr, wa), Cat(one, s)) = Cat(Cat(wr, Cat(wa, one)), s)
  <2>1. Cat(wr, wa) \in Seq(Nodes)
    BY <1>10, ConcatProperties DEF Cat
  <2>2. Cat(Cat(wr, wa), Cat(one, s)) = Cat(Cat(Cat(wr, wa), one), s)
    BY <1>2, <2>1, CatAssociative
  <2>3. Cat(Cat(wr, wa), one) = Cat(wr, Cat(wa, one))
    BY <1>2, <1>10, CatAssociative
  <2> QED  BY <2>2, <2>3
<1>14. Scheduled(p, w, t) = Cat(Cat(wr, wa), Cat(one, s))
  BY <1>1, <1>11 DEF Scheduled, post, one
<1>15. Scheduled(p, v, s) = Cat(Cat(wr, Cat(wa, one)), s)
  BY <1>12 DEF Scheduled, post
<1> QED  BY <1>7, <1>13, <1>14, <1>15 DEF KeepsSchedule

(* The same loop as a recursive function of the worklist: what it pushes,   *)
(* in the order of the pushes.                                              *)
PushedFrom(p, f, visit) ==
  IF visit = <<>> THEN <<>>
  ELSE <<Head(visit)>> \o f[Reverse(IF IsLeaf(p[Head(visit)]) THEN <<>> ELSE p[Head(visit)].args)
                              \o Tail(visit)]

IsPushOrder(f, p) == f = [visit \in Seq(Nodes) |-> PushedFrom(p, f, visit)]

BottomUp(p, v) == Written(PostorderOf(p), Reverse(v))

LEMMA ReverseSnoc ==
  ASSUME NEW S, NEW s \in Seq(S), NEW c \in S
  PROVE  Reverse(Cat(s, <<c>>)) = Cat(<<c>>, Reverse(s))
<1> DEFINE t == Cat(s, <<c>>)
           u == Cat(<<c>>, Reverse(s))
           n == Len(s)
<1>1. <<c>> \in Seq(S) /\ Len(<<c>>) = 1 /\ n \in Nat
      /\ Reverse(s) \in Seq(S) /\ Len(Reverse(s)) = n
      /\ \A i \in 1 .. n : Reverse(s)[i] = s[(n - i) + 1]
  BY ReverseType
<1>2. Appended(t, s, <<c>>, n, 1, S) /\ Appended(u, <<c>>, Reverse(s), 1, n, S)
  <2>1. IsCat(t, s, <<c>>, n, 1, S) /\ IsCat(u, <<c>>, Reverse(s), 1, n, S)
    BY <1>1 DEF IsCat
  <2> QED  BY <2>1, CatIs
<1> HIDE DEF t, u
<1>3. /\ t \in Seq(S) /\ Len(t) = n + 1 /\ t[n + 1] = c /\ \A i \in 1 .. n : t[i] = s[i]
      /\ u \in Seq(S) /\ Len(u) = n + 1 /\ u[1] = c
      /\ \A i \in 1 .. n : u[1 + i] = s[(n - i) + 1]
  BY <1>1, <1>2 DEF Appended
<1>4. /\ Reverse(t) \in Seq(S) /\ Len(Reverse(t)) = n + 1
      /\ \A i \in 1 .. n + 1 : Reverse(t)[i] = t[((n + 1) - i) + 1]
  BY <1>3, ReverseType
<1>5. ASSUME NEW i \in 1 .. n + 1
      PROVE  Reverse(t)[i] = u[i]
  <2> DEFINE j == i - 1
  <2>1. i = 1 + j /\ ((n + 1) - i) + 1 = (n - j) + 1
    BY <1>1
  <2>2. CASE j = 0
    BY <1>1, <1>3, <1>4, <2>1, <2>2
  <2>3. CASE j # 0
    <3>1. j \in 1 .. n /\ (n - j) + 1 \in 1 .. n
      BY <1>1, <2>3
    <3> HIDE DEF j
    <3> QED  BY <1>3, <1>4, <2>1, <3>1
  <2> QED  BY <2>2, <2>3
<1>6. Reverse(t) = u
  BY <1>1, <1>3, <1>4, <1>5, SeqEqual
<1> QED  BY <1>6 DEF t, u

LEMMA BottomUpIs ==
  ASSUME NEW p \in AllPrograms, NEW v \in Seq(Nodes)
  PROVE  BottomUp(p, v) \in Seq(Nodes) /\ (v = <<>> => BottomUp(p, v) = <<>>)
<1>1. ReadsAll(PostorderOf(p), Nodes, Seq(Nodes))
  BY PostorderIs DEF ReadsAll
<1>2. Reverse(v) \in Seq(Nodes) /\ Len(Reverse(v)) = Len(v)
  BY ReverseType
<1>3. /\ Mapped(PostorderOf(p), Reverse(v)) \in Seq(Seq(Nodes))
      /\ Len(Mapped(PostorderOf(p), Reverse(v))) = Len(Reverse(v))
      /\ BottomUp(p, v) \in Seq(Nodes)
  BY <1>1, <1>2, WrittenIs DEF BottomUp
<1>4. v = <<>> => Len(Mapped(PostorderOf(p), Reverse(v))) = 0
  BY <1>2, <1>3
<1> QED  BY <1>3, <1>4, FlattenEmpty DEF BottomUp, Written

(* The next worklist. *)
NextVisit(p, v) == Cat(Reverse(p[Head(v)].args), Tail(v))

LEMMA NextVisitIs ==
  ASSUME NEW p \in AllPrograms, NEW v \in Seq(Nodes), v # <<>>
  PROVE  /\ Head(v) \in Nodes /\ NextVisit(p, v) \in Seq(Nodes)
         /\ BottomUp(p, v) = Cat(BottomUp(p, NextVisit(p, v)), <<Head(v)>>)
         /\ \A f : PushedFrom(p, f, v) = <<Head(v)>> \o f[NextVisit(p, v)]
<1> DEFINE c == Head(v)
           tl == Tail(v)
           w == NextVisit(p, v)
<1>1. c \in Nodes /\ tl \in Seq(Nodes) /\ v = Cat(<<c>>, tl)
  BY DEF Cat
<1>2. p[c].args \in Seq(Nodes) /\ (IsLeaf(p[c]) => p[c].args = <<>>)
  BY <1>1, NodeOfProgram
<1>3. w = Cat(Reverse(p[c].args), tl)
  BY DEF NextVisit
<1> DEFINE none == <<>>
           one == <<c>>
<1>4. none \in Seq(Nodes) /\ one = Cat(<<c>>, none)
  BY <1>1 DEF Cat
<1>7. Cat(BottomUp(p, v), none) = BottomUp(p, v)
  <2>1. BottomUp(p, v) \in Seq(Nodes)
    BY BottomUpIs
  <2> QED  BY <2>1 DEF Cat
<1> HIDE DEF c, tl, w, none, one
<1>5. Visited(p, v, w, none, one)
  BY <1>1, <1>3, <1>4 DEF Visited, c, tl
<1>6. w \in Seq(Nodes) /\ Scheduled(p, w, one) = Scheduled(p, v, none)
  <2>1. none \in Seq(Nodes)
    BY <1>4
  <2>2. KeepsSchedule(p, v, w, none, one)
    BY <1>5, <2>1, VisitKeeps
  <2> QED  BY <2>2 DEF KeepsSchedule
<1>8. BottomUp(p, v) = Cat(BottomUp(p, w), <<c>>)
  BY <1>6, <1>7 DEF Scheduled, BottomUp, one
<1>9. ASSUME NEW f
      PROVE  PushedFrom(p, f, v) = <<c>> \o f[w]
  <2>1. (IF IsLeaf(p[c]) THEN <<>> ELSE p[c].args) = p[c].args
    BY <1>2
  <2>2. PushedFrom(p, f, v) = <<c>> \o f[Reverse(p[c].args) \o tl]
    BY <2>1, Zenon DEF PushedFrom, c, tl
  <2> QED  BY <1>3, <2>2 DEF Cat
<1> QED  BY <1>1, <1>6, <1>8, <1>9 DEF c, w

(* There is such a function, and it reverses the bottom-up order. *)
LEMMA PushOrderIs ==
  ASSUME NEW p \in AllPrograms
  PROVE  /\ \E f : IsPushOrder(f, p)
         /\ \A f : IsPushOrder(f, p) =>
              \A v \in Seq(Nodes) : f[v] = Reverse(BottomUp(p, v))
<1> DEFINE g == [v \in Seq(Nodes) |-> Reverse(BottomUp(p, v))]
<1>1. ASSUME NEW v \in Seq(Nodes), v # <<>>
      PROVE  Reverse(BottomUp(p, v)) = <<Head(v)>> \o Reverse(BottomUp(p, NextVisit(p, v)))
  <2>1. /\ Head(v) \in Nodes /\ NextVisit(p, v) \in Seq(Nodes)
        /\ BottomUp(p, v) = Cat(BottomUp(p, NextVisit(p, v)), <<Head(v)>>)
    BY <1>1, NextVisitIs
  <2>2. BottomUp(p, NextVisit(p, v)) \in Seq(Nodes)
    BY <2>1, BottomUpIs
  <2> QED  BY <2>1, <2>2, ReverseSnoc DEF Cat
<1>2. ASSUME NEW v \in Seq(Nodes), v = <<>>
      PROVE  Reverse(BottomUp(p, v)) = <<>>
  <2>1. BottomUp(p, v) = <<>>
    BY <1>2, BottomUpIs
  <2> QED  BY <2>1 DEF Reverse
<1>3. ASSUME NEW v \in Seq(Nodes)
      PROVE  g[v] = PushedFrom(p, g, v)
  <2>1. CASE v = <<>>
    BY <1>2, <2>1 DEF PushedFrom
  <2>2. CASE v # <<>>
    <3>1. NextVisit(p, v) \in Seq(Nodes) /\ PushedFrom(p, g, v) = <<Head(v)>> \o g[NextVisit(p, v)]
      BY <2>2, NextVisitIs
    <3> QED  BY <1>1, <2>2, <3>1
  <2> QED  BY <2>1, <2>2
<1>4. IsPushOrder(g, p)
  <2>1. g = [v \in Seq(Nodes) |-> g[v]]
    OBVIOUS
  <2> HIDE DEF g
  <2> QED  BY <1>3, <2>1 DEF IsPushOrder
<1>5. ASSUME NEW f, IsPushOrder(f, p), NEW u \in Seq(Nodes)
      PROVE  f[u] = Reverse(BottomUp(p, u))
  <2> DEFINE T == {n \in Nat : \A v \in Seq(Nodes) :
                     Len(BottomUp(p, v)) <= n => f[v] = Reverse(BottomUp(p, v))}
             m == Len(BottomUp(p, u))
  <2>1. \A v \in Seq(Nodes) : f[v] = PushedFrom(p, f, v)
    BY <1>5 DEF IsPushOrder
  <2>2. ASSUME NEW v \in Seq(Nodes), v = <<>>
        PROVE  f[v] = Reverse(BottomUp(p, v))
    BY <1>2, <2>1, <2>2 DEF PushedFrom
  <2>3. ASSUME NEW v \in Seq(Nodes), v # <<>>
        PROVE  /\ NextVisit(p, v) \in Seq(Nodes)
               /\ Len(BottomUp(p, v)) = Len(BottomUp(p, NextVisit(p, v))) + 1
               /\ Len(BottomUp(p, NextVisit(p, v))) \in Nat
               /\ f[v] = <<Head(v)>> \o f[NextVisit(p, v)]
    <3>1. /\ NextVisit(p, v) \in Seq(Nodes) /\ Head(v) \in Nodes
          /\ BottomUp(p, v) = Cat(BottomUp(p, NextVisit(p, v)), <<Head(v)>>)
          /\ PushedFrom(p, f, v) = <<Head(v)>> \o f[NextVisit(p, v)]
      BY <2>3, NextVisitIs
    <3>2. BottomUp(p, NextVisit(p, v)) \in Seq(Nodes)
      BY <3>1, BottomUpIs
    <3>3. Len(Cat(BottomUp(p, NextVisit(p, v)), <<Head(v)>>))
            = Len(BottomUp(p, NextVisit(p, v))) + 1
      BY <3>1, <3>2 DEF Cat
    <3>4. f[v] = PushedFrom(p, f, v)
      BY <2>1
    <3> QED  BY <3>1, <3>2, <3>3, <3>4
  <2>4. 0 \in T
    <3>1. ASSUME NEW v \in Seq(Nodes), Len(BottomUp(p, v)) <= 0
          PROVE  v = <<>>
      <4>1. CASE v # <<>>
        <5>1. /\ Len(BottomUp(p, v)) = Len(BottomUp(p, NextVisit(p, v))) + 1
              /\ Len(BottomUp(p, NextVisit(p, v))) \in Nat
          BY <2>3, <4>1
        <5> QED  BY <3>1, <5>1
      <4> QED  BY <4>1
    <3> QED  BY <2>2, <3>1
  <2>5. m \in Nat
    <3>1. BottomUp(p, u) \in Seq(Nodes)
      BY BottomUpIs
    <3> QED  BY <3>1
  <2>6. ASSUME NEW n \in 0 .. m - 1, n \in T
        PROVE  n + 1 \in T
    <3>1. ASSUME NEW v \in Seq(Nodes), Len(BottomUp(p, v)) <= n + 1
          PROVE  f[v] = Reverse(BottomUp(p, v))
      <4>1. CASE v = <<>>
        BY <2>2, <4>1
      <4>2. CASE v # <<>>
        <5>1. /\ NextVisit(p, v) \in Seq(Nodes)
              /\ Len(BottomUp(p, NextVisit(p, v))) <= n
              /\ f[v] = <<Head(v)>> \o f[NextVisit(p, v)]
          BY <2>3, <2>5, <3>1, <4>2
        <5>2. f[NextVisit(p, v)] = Reverse(BottomUp(p, NextVisit(p, v)))
          BY <2>6, <5>1
        <5> QED  BY <1>1, <4>2, <5>1, <5>2
      <4> QED  BY <4>1, <4>2
    <3> QED  BY <2>5, <3>1
  <2>7. m \in T
    <3> HIDE DEF T, m
    <3>1. \A n \in 0 .. m : n \in T
      BY <2>4, <2>5, <2>6, IntervalInduction
    <3> QED  BY <2>5, <3>1
  <2> QED  BY <2>5, <2>7
<1> QED  BY <1>4, <1>5

(* From the program's root it pushes the postorder, backwards. *)
LEMMA PushedFromRoot ==
  ASSUME NEW p \in AllPrograms
  PROVE  /\ PostorderOf(p)[Root] \in Seq(Nodes) /\ PostorderOf(p)[Root] # <<>>
         /\ \A f : IsPushOrder(f, p) => f[<<Root>>] = Reverse(PostorderOf(p)[Root])
<1>1. Root \in Nodes /\ <<Root>> \in Seq(Nodes)
  BY NodeCountAssumption DEF Root, Nodes
<1>2. ReadsAll(PostorderOf(p), Nodes, Seq(Nodes))
  BY PostorderIs DEF ReadsAll
<1>3. Reverse(<<Root>>) = <<Root>>
  BY DEF Reverse
<1>4. BottomUp(p, <<Root>>) = PostorderOf(p)[Root]
  BY <1>1, <1>2, <1>3, WrittenOne DEF BottomUp
<1>5. PostorderOf(p)[Root] # <<>>
  <2>1. PostorderOf(p)[Root] = Cat(Written(PostorderOf(p), p[Root].args), <<Root>>)
    BY <1>1, PostorderIs
  <2>2. Written(PostorderOf(p), p[Root].args) \in Seq(Nodes)
    BY <1>1, <1>2, NodeOfProgram, WrittenIs
  <2> QED  BY <1>1, <2>1, <2>2 DEF Cat
<1> QED  BY <1>1, <1>2, <1>4, <1>5, PushOrderIs DEF ReadsAll

LEMMA ScheduleStarts == ScheduleInit => ScheduleIInv
<1> SUFFICES ASSUME ScheduleInit PROVE ScheduleIInv
  OBVIOUS
<1> DEFINE post == PostorderOf(program)
<1>1. /\ program \in AllPrograms /\ vals_to_visit = <<Root>> /\ val_schedule = <<>>
      /\ Root \in Nodes
  BY NodeCountAssumption DEF ScheduleInit, Root, Nodes
<1>2. ScheduleTypeOK
  BY <1>1, EmptySeq DEF ScheduleTypeOK
<1>3. ReadsAll(post, Nodes, Seq(Nodes)) /\ post[Root] \in Seq(Nodes)
  BY <1>1, PostorderIs DEF ReadsAll
<1>4. Reverse(vals_to_visit) = <<Root>>
  BY <1>1 DEF Reverse
<1> HIDE DEF post
<1>5. Written(post, <<Root>>) = post[Root]
  BY <1>1, <1>3, WrittenOne
<1>6. Cat(post[Root], <<>>) = post[Root]
  BY <1>1, <1>3 DEF Cat
<1>7. Scheduled(program, vals_to_visit, val_schedule) = post[Root]
  BY <1>1, <1>4, <1>5, <1>6 DEF Scheduled, post
<1> QED  BY <1>2, <1>7, ScheduleSoFarIs DEF ScheduleIInv, post

LEMMA ScheduleGoesOn == ScheduleIInv /\ [Visit]_schedule_vars => ScheduleIInv'
<1> SUFFICES ASSUME ScheduleIInv, [Visit]_schedule_vars PROVE ScheduleIInv'
  OBVIOUS
<1>1. CASE Visit
  <2>1. ScheduleTypeOK /\ program \in AllPrograms /\ val_schedule \in Seq(Nodes)
    BY DEF ScheduleIInv, ScheduleTypeOK
  <2>2. /\ Visited(program, vals_to_visit, vals_to_visit', val_schedule, val_schedule')
        /\ program' = program
    BY <1>1, <2>1, VisitIs
  <2>3. /\ vals_to_visit' \in Seq(Nodes) /\ val_schedule' \in Seq(Nodes)
        /\ Scheduled(program, vals_to_visit', val_schedule')
             = Scheduled(program, vals_to_visit, val_schedule)
    <3>1. KeepsSchedule(program, vals_to_visit, vals_to_visit', val_schedule, val_schedule')
      BY <2>1, <2>2, VisitKeeps
    <3> QED  BY <3>1 DEF KeepsSchedule
  <2>4. ScheduleTypeOK'
    BY <2>1, <2>2, <2>3 DEF ScheduleTypeOK
  <2>5. Scheduled(program, vals_to_visit, val_schedule) = PostorderOf(program)[Root]
    BY <2>1, ScheduleSoFarIs DEF ScheduleIInv
  <2>6. Scheduled(program', vals_to_visit', val_schedule') = PostorderOf(program')[Root]
    BY <2>2, <2>3, <2>5
  <2>7. ScheduleSoFar'
    <3> DEFINE rest == Reverse(vals_to_visit')
    <3>1. rest \in Seq(Nodes)
      BY <2>3, ReverseType
    <3>2. DOMAIN rest = 1 .. Len(rest)
      BY <3>1, LenProperties
    <3> HIDE DEF rest
    <3>3. Mapped(PostorderOf(program'), rest)
            = [i \in 1 .. Len(rest) |-> PostorderOf(program')[rest[i]]]
      BY <3>2 DEF Mapped
    <3> QED  BY <2>6, <3>3 DEF ScheduleSoFar, Scheduled, Written, Cat, rest
  <2> QED  BY <2>4, <2>7 DEF ScheduleIInv
<1>2. CASE UNCHANGED schedule_vars
  BY <1>2 DEF ScheduleIInv, ScheduleTypeOK, ScheduleSoFar, schedule_vars
<1> QED  BY <1>1, <1>2

(* val_schedule.c:14-44 only ever handles nodes of the program, whatever    *)
(* its size, sharing and arity: ScheduleTypeOK is invariant.                        *)
THEOREM ScheduleTypeCorrect == ScheduleSpec => []ScheduleTypeOK
<1>1. ScheduleIInv => ScheduleTypeOK
  BY DEF ScheduleIInv
<1> QED  BY <1>1, ScheduleStarts, ScheduleGoesOn, PTL DEF ScheduleSpec

(* The schedule val_schedule.c builds is, with what the worklist still      *)
(* holds, the postorder of the program at every turn of the loop; when the  *)
(* worklist is empty it is that postorder.                                  *)
THEOREM ScheduleIsPostorder == ScheduleSpec => []ScheduleSoFar
<1>1. ScheduleIInv => ScheduleSoFar
  BY DEF ScheduleIInv
<1> QED  BY <1>1, ScheduleStarts, ScheduleGoesOn, PTL DEF ScheduleSpec
-----------------------------------------------------------------------------
(* The frame: a stack of pointers.  Its lemmas about pointers do not look   *)
(* at values, so none are given.                                            *)
Frame == INSTANCE StackProofs
  WITH stack <- frame_vals, mem <- frameData, out <- 0,
       ElemSize <- 1, ElemAlignment <- 1, ElemQtt <- FrameQtt,
       Values <- {}, NoElem <- 0, Junk <- 1, ResetsAnywhere <- FALSE

Elems(frame) == Frame!ElemsInOrder(frame.arena, 1)

FrameShape(frame) ==
  /\ frame \in Stacks /\ frame.elem_size = 1 /\ frame.elem_padded_size = 1
  /\ Frame!Shape(frame.arena, frame.elem_count)

LEMMA SameStacks == Stacks = Frame!Stacks
BY DEF Stacks, Frame!Stacks, Arenas, Frame!Arenas, MemBlocks, Frame!MemBlocks, Offsets, Frame!Offsets

LEMMA SameAlloc ==
  ASSUME NEW a
  PROVE  AllocAtHead(a, 1) = Frame!AllocAtHead(a, 1)
BY DEF AllocAtHead, Frame!AllocAtHead, HeadRoom, Frame!HeadRoom,
       AllocHeadBlock, Frame!AllocHeadBlock, Fresh, Frame!Fresh,
       StartOffset, Frame!StartOffset

LEMMA SameFreed == Freed = Frame!Freed
BY DEF Freed, Frame!Freed

LEMMA SameDealloc ==
  ASSUME NEW a, NEW b
  PROVE  DeallocBlock(a, b) = Frame!DeallocBlock(a, b)
<1>1. \A x : SizeLess(a, x) = Frame!SizeLess(a, x)
  BY DEF SizeLess, Frame!SizeLess
<1>2. \A c : Unlinked(a, b, c) = Frame!Unlinked(a, b, c)
  BY DEF Unlinked, Frame!Unlinked
<1> QED  BY <1>1, <1>2, SameFreed DEF DeallocBlock, Frame!DeallocBlock

LEMMA SamePop ==
  ASSUME NEW s
  PROVE  /\ IsStackEmpty(s) = Frame!IsStackEmpty(s)
         /\ PoppedPtr(s) = Frame!PoppedPtr(s)
         /\ PopFromStack(s) = Frame!PopFromStack(s)
<1>1. PopArena(s) = Frame!PopArena(s)
  BY SameDealloc DEF PopArena, Frame!PopArena, IsBlockEmpty, Frame!IsBlockEmpty,
     DeallocHeadBlock, Frame!DeallocHeadBlock
<1>2. IsStackEmpty(s) = Frame!IsStackEmpty(s)
  BY DEF IsStackEmpty, Frame!IsStackEmpty
<1>3. PoppedPtr(s) = Frame!PoppedPtr(s)
  BY <1>1, <1>2 DEF PoppedPtr, Frame!PoppedPtr, HeadPtr, Frame!HeadPtr
<1>4. PopFromStack(s) = Frame!PopFromStack(s)
  BY <1>1, <1>2 DEF PopFromStack, Frame!PopFromStack, CountAfterPop, Frame!CountAfterPop
<1> QED  BY <1>2, <1>3, <1>4

LEMMA SameReset ==
  ASSUME NEW a
  PROVE  ResetArena(a) = Frame!ResetArena(a)
BY DEF ResetArena, Frame!ResetArena, Walked, Frame!Walked, Restarted, Frame!Restarted,
       StartOffset, Frame!StartOffset

LEMMA SameInit ==
  ASSUME NEW n
  PROVE  InitArena(n, FrameQtt, "right") = Frame!InitArena(n, FrameQtt, "right")
BY DEF InitArena, Frame!InitArena, StartOffset, Frame!StartOffset, Freed, Frame!Freed

LEMMA FrameAssumptions ==
  /\ FrameQtt \in Nat \ {0}
  /\ Frame!BlocksAssumption /\ Frame!NullAssumption /\ Frame!SizeModAssumption
  /\ Frame!ElemAssumption /\ Frame!CellAssumption /\ Frame!ResetsAnywhereAssumption
<1>1. FrameQtt \in Nat \ {0}
  BY EvalAssumption
<1> QED  BY <1>1, BlocksAssumption, NullAssumption, SizeModAssumption
  DEF Frame!BlocksAssumption, Frame!NullAssumption, Frame!SizeModAssumption,
      Frame!ElemAssumption, Frame!CellAssumption, Frame!ResetsAnywhereAssumption

LEMMA FrameBlock == Frame!BlockSize = FrameQtt
<1>1. FrameQtt \in Nat \ {0}
  BY EvalAssumption
<1>2. Frame!PaddedSize(1, 1) = 1 /\ Frame!BlockSize = FrameQtt * 1
  BY FrameAssumptions, Frame!Sizes
<1> QED  BY <1>1, <1>2

(* The stack's operations on a frame. *)
LEMMA FrameInit ==
  ASSUME NEW n \in Blocks
  PROVE  LET f == InitStack(n, 1, 1, FrameQtt)
         IN  FrameShape(f) /\ f.elem_count = 0
<1> DEFINE a == InitArena(n, FrameQtt, "right")
<1>1. Frame!Shape(a, 0)
  BY FrameAssumptions, Frame!InitShape, FrameBlock, SameInit
<1>2. InitStack(n, 1, 1, FrameQtt) = [arena |-> a, elem_count |-> 0, elem_size |-> 1,
                                      elem_padded_size |-> 1]
  <2>1. PaddedSize(1, 1) = 1 /\ FrameQtt * 1 = FrameQtt
    BY EvalAssumption DEF PaddedSize
  <2> QED  BY <2>1 DEF InitStack
<1>3. a \in Arenas
  BY <1>1 DEF Frame!Shape, Frame!ArenaOK, Arenas, Frame!Arenas, MemBlocks, Frame!MemBlocks,
     Offsets, Frame!Offsets
<1> HIDE DEF a
<1> QED  BY <1>1, <1>2, <1>3 DEF FrameShape, Stacks

LEMMA FrameElems ==
  ASSUME NEW f, FrameShape(f)
  PROVE  Elems(f) \in Seq(Frame!ElemPtr)
<1>1. Frame!ArenaOK(f.arena)
  BY DEF FrameShape, Frame!Shape
<1> QED  BY <1>1, FrameAssumptions, Frame!ElemsInOrderType DEF Elems

LEMMA FramePush ==
  ASSUME NEW f, FrameShape(f), NEW g \in AllocStackElem(f)
  PROVE  /\ FrameShape(g) /\ g.elem_count = f.elem_count + 1
         /\ Elems(g) = <<HeadPtr(g.arena)>> \o Elems(f)
         /\ HeadPtr(g.arena) \notin Range(Elems(f))
         /\ HeadPtr(g.arena).block \in Blocks
         /\ HeadPtr(g.arena).off \in 0 .. FrameQtt - 1
<1>1. /\ f \in Stacks /\ f.elem_size = 1 /\ f.elem_padded_size = 1
      /\ Frame!Shape(f.arena, f.elem_count) /\ f.elem_count \in Nat
  BY DEF FrameShape, Stacks
<1>2. PICK a \in Frame!AllocAtHead(f.arena, 1) :
        g = [f EXCEPT !.arena = a, !.elem_count = @ + 1]
  <2>1. PICK a \in AllocAtHead(f.arena, f.elem_size) :
          g = [f EXCEPT !.arena = a, !.elem_count = @ + 1]
    BY DEF AllocStackElem
  <2>2. AllocAtHead(f.arena, f.elem_size) = Frame!AllocAtHead(f.arena, 1)
    BY <1>1, SameAlloc
  <2> QED  BY <2>1, <2>2
<1>3. /\ g.arena = a /\ g.elem_count = f.elem_count + 1 /\ g.elem_size = 1
      /\ g.elem_padded_size = 1
  BY <1>1, <1>2 DEF Stacks
<1>4. Frame!Shape(a, f.elem_count + 1)
  BY <1>1, FrameAssumptions, Frame!PushShape
<1>5. a \in Arenas
  BY <1>4 DEF Frame!Shape, Frame!ArenaOK, Arenas, Frame!Arenas, MemBlocks, Frame!MemBlocks,
     Offsets, Frame!Offsets
<1>6. g \in Stacks
  <2>1. f.elem_count + 1 \in Nat
    BY <1>1
  <2>2. \A n \in Nat : [f EXCEPT !.arena = a, !.elem_count = n] \in Stacks
    BY <1>1, <1>5 DEF Stacks
  <2> QED  BY <1>2, <2>1, <2>2
<1>7. /\ Frame!ElemsInOrder(a, 1) = <<Frame!HeadPtr(a)>> \o Frame!ElemsInOrder(f.arena, 1)
      /\ Frame!HeadPtr(a) \in Frame!ElemPtr
      /\ Frame!HeadPtr(a).off \in 0 .. Frame!BlockSize - 1
      /\ Frame!HeadPtr(a) \notin Range(Frame!ElemsInOrder(f.arena, 1))
  <2>1. \A x : Frame!Range(x) = Range(x)
    BY DEF Range, Frame!Range
  <2>2. Frame!HeadPtr(a) \notin Frame!Range(Frame!ElemsInOrder(f.arena, 1))
    BY <1>1, FrameAssumptions, Frame!PushElems
  <2>3. /\ Frame!ElemsInOrder(a, 1) = <<Frame!HeadPtr(a)>> \o Frame!ElemsInOrder(f.arena, 1)
        /\ Frame!HeadPtr(a) \in Frame!ElemPtr
        /\ Frame!HeadPtr(a).off \in 0 .. Frame!BlockSize - 1
    BY <1>1, FrameAssumptions, Frame!PushElems
  <2> QED  BY <2>1, <2>2, <2>3
<1>8. Frame!HeadPtr(a) = HeadPtr(a)
  BY DEF HeadPtr, Frame!HeadPtr
<1>9. HeadPtr(a).block \in Blocks
  BY <1>7, <1>8 DEF Frame!ElemPtr
<1> QED  BY <1>3, <1>4, <1>6, <1>7, <1>8, <1>9, FrameBlock DEF FrameShape, Elems

LEMMA FramePop ==
  ASSUME NEW f, FrameShape(f), f.elem_count # 0
  PROVE  LET g == PopFromStack(f)
         IN  /\ FrameShape(g) /\ g.elem_count = f.elem_count - 1
             /\ Elems(f) = <<PoppedPtr(f)>> \o Elems(g)
<1> DEFINE g == PopFromStack(f)
<1>1. /\ f \in Frame!Stacks /\ f.elem_size = 1 /\ f.elem_padded_size = 1
      /\ Frame!Shape(f.arena, f.elem_count) /\ f.elem_count \in Nat
  BY SameStacks DEF FrameShape, Stacks
<1>2. ~Frame!IsStackEmpty(f) /\ ~IsStackEmpty(f)
  BY DEF Frame!IsStackEmpty, IsStackEmpty
<1>3. g = Frame!PopFromStack(f) /\ PoppedPtr(f) = Frame!PoppedPtr(f)
  BY SamePop
<1>4. g.elem_count = f.elem_count - 1
  <2>1. \A x : [f EXCEPT !.arena = x, !.elem_count = CountAfterPop(f)].elem_count = CountAfterPop(f)
    BY <1>1 DEF Frame!Stacks
  <2> QED  BY <1>2, <2>1 DEF PopFromStack, CountAfterPop
<1> HIDE DEF g
<1>5. /\ g \in Frame!Stacks /\ g.elem_size = 1 /\ g.elem_padded_size = 1
      /\ Frame!Shape(g.arena, g.elem_count)
  BY <1>1, <1>2, <1>3, FrameAssumptions, Frame!PopShape
<1>6. Frame!ElemsInOrder(f.arena, 1) = <<PoppedPtr(f)>> \o Frame!ElemsInOrder(g.arena, 1)
  BY <1>1, <1>2, <1>3, FrameAssumptions, Frame!PopElems
<1> QED  BY <1>4, <1>5, <1>6, SameStacks DEF FrameShape, Elems, g

LEMMA FrameReset ==
  ASSUME NEW f, FrameShape(f), f.elem_count = 0
  PROVE  FrameShape(ResetStack(f)) /\ ResetStack(f).elem_count = 0
<1> DEFINE a == ResetArena(f.arena)
<1>1. f \in Stacks /\ f.elem_size = 1 /\ f.elem_padded_size = 1 /\ Frame!Shape(f.arena, 0)
  BY DEF FrameShape
<1>2. Frame!Shape(a, 0)
  BY <1>1, FrameAssumptions, Frame!ResetShape, SameReset
<1>3. a \in Arenas
  BY <1>2 DEF Frame!Shape, Frame!ArenaOK, Arenas, Frame!Arenas, MemBlocks, Frame!MemBlocks,
     Offsets, Frame!Offsets
<1>4. ResetStack(f) = [f EXCEPT !.arena = a]
  BY DEF ResetStack
<1> HIDE DEF a
<1> QED  BY <1>1, <1>2, <1>3, <1>4 DEF FrameShape, Stacks

LEMMA FrameEmpty ==
  ASSUME NEW f, FrameShape(f), f.elem_count = 0
  PROVE  Elems(f) = <<>>
<1>1. Frame!Shape(f.arena, 0)
  BY DEF FrameShape
<1> QED  BY <1>1, FrameAssumptions, Frame!EmptyNoElems DEF Elems
-----------------------------------------------------------------------------
(* What the frame holds: the terms of a sequence, the last one on top.      *)
IsMemory(data) ==
  DOMAIN data = Blocks /\ \A b \in Blocks : DOMAIN data[b] = 0 .. FrameQtt - 1

ReadAt(data, p) == IF p.off \in 0 .. FrameQtt - 1 THEN data[p.block][p.off] ELSE Junk

Holds(frame, data, k, terms) ==
  /\ FrameShape(frame) /\ IsMemory(data)
  /\ frame.elem_count = k /\ Len(Elems(frame)) = k
  /\ \A j \in 1 .. k : ReadAt(data, Elems(frame)[(k - j) + 1]) = terms[j]

LEMMA ConsPlaces ==
  ASSUME NEW S, NEW e \in S, NEW s \in Seq(S)
  PROVE  /\ <<e>> \o s \in Seq(S) /\ Len(<<e>> \o s) = Len(s) + 1
         /\ (<<e>> \o s)[1] = e
         /\ \A i \in 1 .. Len(s) : (<<e>> \o s)[i + 1] = s[i]
<1> DEFINE one == <<e>>
<1>1. one \in Seq(S) /\ Len(one) = 1 /\ one[1] = e
  OBVIOUS
<1>2. Len(s) \in Nat
  BY LenProperties
<1> HIDE DEF one
<1>3. /\ one \o s \in Seq(S) /\ Len(one \o s) = 1 + Len(s)
      /\ \A i \in 1 .. 1 + Len(s) : (one \o s)[i] = IF i <= 1 THEN one[i] ELSE s[i - 1]
  <2>1. one \in Seq(S) /\ s \in Seq(S)
    BY <1>1
  <2>2. /\ one \o s \in Seq(S) /\ Len(one \o s) = Len(one) + Len(s)
        /\ \A i \in 1 .. Len(one) + Len(s) :
              (one \o s)[i] = IF i <= Len(one) THEN one[i] ELSE s[i - Len(one)]
    BY <2>1, ConcatProperties
  <2>3. Len(one) = 1
    BY <1>1
  <2> QED  BY <2>2, <2>3
<1>4. ASSUME NEW i \in 1 .. Len(s)
      PROVE  (one \o s)[i + 1] = s[i]
  <2>1. i + 1 \in 1 .. 1 + Len(s) /\ ~(i + 1 <= 1) /\ (i + 1) - 1 = i
    BY <1>2
  <2> QED  BY <1>3, <2>1
<1>5. 1 \in 1 .. 1 + Len(s)
  BY <1>2
<1> QED  BY <1>1, <1>2, <1>3, <1>4, <1>5 DEF one

(* A new frame holds nothing. *)
LEMMA HoldsNothing ==
  ASSUME NEW f, FrameShape(f), f.elem_count = 0, NEW data, IsMemory(data), NEW terms
  PROVE  Holds(f, data, 0, terms)
<1>1. Elems(f) = <<>>
  BY FrameEmpty
<1>2. Len(<<>>) = 0
  OBVIOUS
<1> QED  BY <1>1, <1>2 DEF Holds

(* The memory with one more value written at a pointer. *)
PutAt(data, p, term) == [data EXCEPT ![p.block][p.off] = term]

LEMMA PutAtIs ==
  ASSUME NEW data, IsMemory(data), NEW p, p.block \in Blocks, p.off \in 0 .. FrameQtt - 1,
         NEW term, NEW data2, data2 = PutAt(data, p, term)
  PROVE  /\ DOMAIN data2 = Blocks /\ \A b \in Blocks : DOMAIN data2[b] = 0 .. FrameQtt - 1
         /\ data2[p.block][p.off] = term
         /\ \A b \in Blocks : \A o \in 0 .. FrameQtt - 1 :
               ~(b = p.block /\ o = p.off) => data2[b][o] = data[b][o]
<1>1. data2 = [data EXCEPT ![p.block] = [data[p.block] EXCEPT ![p.off] = term]]
  BY DEF PutAt
<1>2. DOMAIN data = Blocks /\ \A b \in Blocks : DOMAIN data[b] = 0 .. FrameQtt - 1
  BY DEF IsMemory
<1> DEFINE row == [data[p.block] EXCEPT ![p.off] = term]
<1>3. /\ DOMAIN row = 0 .. FrameQtt - 1 /\ row[p.off] = term
      /\ \A o \in 0 .. FrameQtt - 1 : o # p.off => row[o] = data[p.block][o]
  BY <1>2
<1> HIDE DEF row
<1>4. /\ DOMAIN data2 = Blocks /\ data2[p.block] = row
      /\ \A b \in Blocks : b # p.block => data2[b] = data[b]
  BY <1>1, <1>2 DEF row
<1> QED  BY <1>2, <1>3, <1>4, ZenonT(60)

LEMMA HoldsOneMore ==
  ASSUME NEW f, NEW data, NEW k \in Nat, NEW terms, Holds(f, data, k, terms),
         NEW g \in AllocStackElem(f), NEW term, NEW more,
         \A j \in 1 .. k : more[j] = terms[j], more[k + 1] = term,
         NEW data2, data2 = PutAt(data, HeadPtr(g.arena), term)
  PROVE  Holds(g, data2, k + 1, more)
<1> DEFINE old == Elems(f)
           new == Elems(g)
           p == HeadPtr(g.arena)
<1>1. /\ FrameShape(f) /\ IsMemory(data) /\ f.elem_count = k /\ Len(old) = k
      /\ \A j \in 1 .. k : ReadAt(data, old[(k - j) + 1]) = terms[j]
  BY DEF Holds
<1>2. /\ FrameShape(g) /\ g.elem_count = k + 1
      /\ new = <<p>> \o old /\ p \notin Range(old)
      /\ p.block \in Blocks /\ p.off \in 0 .. FrameQtt - 1
  BY <1>1, FramePush
<1>3. old \in Seq(Frame!ElemPtr) /\ p \in Frame!ElemPtr
  <2>1. p = [block |-> p.block, off |-> p.off]
    BY DEF HeadPtr
  <2>2. p.off \in Nat
    BY <1>2, EvalAssumption
  <2> QED  BY <1>1, <1>2, <2>1, <2>2, FrameElems DEF Frame!ElemPtr
<1> HIDE DEF old, new, p
<1>4. /\ Len(new) = k + 1 /\ new[1] = p
      /\ \A i \in 1 .. k : new[i + 1] = old[i]
  BY <1>1, <1>2, <1>3, ConsPlaces
<1>5. data2 = PutAt(data, p, term)
  BY DEF p
<1>6. /\ DOMAIN data2 = Blocks /\ \A b \in Blocks : DOMAIN data2[b] = 0 .. FrameQtt - 1
      /\ data2[p.block][p.off] = term
      /\ \A b \in Blocks : \A o \in 0 .. FrameQtt - 1 :
            ~(b = p.block /\ o = p.off) => data2[b][o] = data[b][o]
  BY <1>1, <1>2, <1>5, PutAtIs
<1>7. \A i \in 1 .. k : old[i] \in Range(old) /\ old[i] \in Frame!ElemPtr
  BY <1>1, <1>3, LenProperties DEF Range
<1>8. ASSUME NEW q \in Range(old), q \in Frame!ElemPtr
      PROVE  ReadAt(data2, q) = ReadAt(data, q)
  <2>1. /\ q = [block |-> q.block, off |-> q.off] /\ q.block \in Blocks
        /\ p = [block |-> p.block, off |-> p.off]
    BY <1>3, <1>8 DEF Frame!ElemPtr
  <2>2. ~(q.block = p.block /\ q.off = p.off)
    BY <1>2, <1>8, <2>1
  <2> QED  BY <1>6, <2>1, <2>2 DEF ReadAt
<1>9. ASSUME NEW j \in 1 .. k + 1
      PROVE  ReadAt(data2, new[((k + 1) - j) + 1]) = more[j]
  <2>1. CASE j = k + 1
    <3>1. ((k + 1) - j) + 1 = 1
      BY <2>1
    <3> QED  BY <1>2, <1>4, <1>6, <2>1, <3>1 DEF ReadAt
  <2>2. CASE j # k + 1
    <3>1. j \in 1 .. k /\ (k - j) + 1 \in 1 .. k /\ ((k + 1) - j) + 1 = ((k - j) + 1) + 1
      BY <2>2
    <3>2. new[((k + 1) - j) + 1] = old[(k - j) + 1]
      BY <1>4, <3>1
    <3>3. ReadAt(data2, old[(k - j) + 1]) = ReadAt(data, old[(k - j) + 1])
      BY <1>7, <1>8, <3>1
    <3> QED  BY <1>1, <3>1, <3>2, <3>3
  <2> QED  BY <2>1, <2>2
<1> QED  BY <1>2, <1>4, <1>6, <1>9 DEF Holds, IsMemory, new

(* The recursive function of Popped. *)
AfterAt(after, frame, i) ==
  IF i = 0 THEN [frame |-> frame, args |-> <<>>]
  ELSE [frame |-> PopFromStack(after[i - 1].frame),
        args |-> ArgsBefore(Read(PoppedPtr(after[i - 1].frame)), after[i - 1].args)]

IsAfter(after, frame, k) == after = [i \in 0 .. k |-> AfterAt(after, frame, i)]

LEMMA AfterExists ==
  ASSUME NEW frame, NEW qtt \in Nat
  PROVE  \E after : IsAfter(after, frame, qtt)
<1> DEFINE T == {k \in 0 .. qtt : \E after : IsAfter(after, frame, k)}
<1>1. 0 \in T
  <2> DEFINE f == [i \in 0 .. 0 |-> [frame |-> frame, args |-> <<>>]]
  <2>1. f = [i \in 0 .. 0 |-> AfterAt(f, frame, i)]
    BY DEF AfterAt
  <2> HIDE DEF f
  <2>2. IsAfter(f, frame, 0)
    BY <2>1 DEF IsAfter
  <2> QED  BY <2>2
<1>2. ASSUME NEW k \in 0 .. qtt - 1, k \in T
      PROVE  k + 1 \in T
  <2>1. PICK f : IsAfter(f, frame, k)
    BY <1>2
  <2> DEFINE g == [i \in 0 .. k + 1 |-> AfterAt(f, frame, i)]
  <2>2. ASSUME NEW i \in 0 .. k + 1
        PROVE  g[i] = AfterAt(g, frame, i)
    <3>1. g[i] = AfterAt(f, frame, i)
      OBVIOUS
    <3>2. CASE i = 0
      BY <3>1, <3>2 DEF AfterAt
    <3>3. CASE i # 0
      <4>1. i - 1 \in 0 .. k /\ i - 1 \in 0 .. k + 1
        BY <3>3
      <4>2. f[i - 1] = AfterAt(f, frame, i - 1)
        BY <2>1, <4>1 DEF IsAfter
      <4>3. g[i - 1] = AfterAt(f, frame, i - 1)
        BY <4>1
      <4> HIDE DEF g
      <4> QED  BY <3>1, <4>2, <4>3 DEF AfterAt
    <3> QED  BY <3>2, <3>3
  <2>3. g = [i \in 0 .. k + 1 |-> AfterAt(g, frame, i)]
    <3>1. g = [i \in 0 .. k + 1 |-> g[i]]
      OBVIOUS
    <3> HIDE DEF g
    <3> QED  BY <2>2, <3>1
  <2> HIDE DEF g
  <2>4. IsAfter(g, frame, k + 1)
    BY <2>3 DEF IsAfter
  <2>5. k + 1 \in 0 .. qtt
    OBVIOUS
  <2> QED  BY <2>4, <2>5
<1>3. \A k \in 0 .. qtt : k \in T
  <2> HIDE DEF T
  <2> QED  BY <1>1, <1>2, IntervalInduction
<1>4. qtt \in T
  <2> HIDE DEF T
  <2> QED  BY <1>3
<1> QED  BY <1>4

(* A call that pops everything the frame holds is given it in order, and    *)
(* leaves the frame drained.                                                *)
PoppedFrame(f, i, k, elems) ==
  /\ FrameShape(f) /\ f.elem_count = k - i /\ Len(Elems(f)) = k - i
  /\ \A j \in 1 .. k - i : Elems(f)[j] = elems[j + i]

PoppedArgs(args, i, k, terms) ==
  /\ args \in Seq({terms[j] : j \in 1 .. k}) /\ Len(args) = i
  /\ \A j \in 1 .. i : args[j] = terms[(k - i) + j]

LEMMA PopsOneMore ==
  ASSUME NEW k \in Nat, NEW i \in 0 .. k - 1, NEW elems, NEW terms,
         \A j \in 1 .. k : Read(elems[(k - j) + 1]) = terms[j],
         NEW f, PoppedFrame(f, i, k, elems), NEW args, PoppedArgs(args, i, k, terms)
  PROVE  /\ PoppedFrame(PopFromStack(f), i + 1, k, elems)
         /\ PoppedArgs(ArgsBefore(Read(PoppedPtr(f)), args), i + 1, k, terms)
<1> DEFINE g == PopFromStack(f)
           old == Elems(f)
           new == Elems(g)
           p == PoppedPtr(f)
           T == {terms[j] : j \in 1 .. k}
<1>1. /\ FrameShape(f) /\ f.elem_count = k - i /\ Len(old) = k - i
      /\ \A j \in 1 .. k - i : old[j] = elems[j + i]
  BY DEF PoppedFrame
<1>2. f.elem_count # 0 /\ k - i \in Nat \ {0} /\ k - (i + 1) = (k - i) - 1
  BY <1>1
<1>3. FrameShape(g) /\ g.elem_count = (k - i) - 1 /\ old = <<p>> \o new
  BY <1>1, <1>2, FramePop
<1>4. old \in Seq(Frame!ElemPtr) /\ new \in Seq(Frame!ElemPtr)
  BY <1>1, <1>3, FrameElems
<1> HIDE DEF g, old, new, p
<1> DEFINE S == Frame!ElemPtr \cup {p}
<1>5. p \in S /\ new \in Seq(S) /\ Len(new) \in Nat
  <2>1. Frame!ElemPtr \subseteq S
    OBVIOUS
  <2> QED  BY <1>4, <2>1, LenProperties, SeqDef
<1> HIDE DEF S
<1>6. /\ Len(old) = Len(new) + 1 /\ old[1] = p
      /\ \A j \in 1 .. Len(new) : old[j + 1] = new[j]
  BY <1>3, <1>5, ConsPlaces
<1>7. Len(new) = (k - i) - 1
  <2>1. Len(old) = k - i /\ Len(old) = Len(new) + 1 /\ Len(new) \in Nat
    BY <1>1, <1>5, <1>6
  <2> QED  BY <2>1
<1>8. ASSUME NEW j \in 1 .. k - (i + 1)
      PROVE  new[j] = elems[j + (i + 1)]
  <2>1. j \in 1 .. Len(new) /\ j + 1 \in 1 .. k - i /\ (j + 1) + i = j + (i + 1)
    BY <1>2, <1>7
  <2> QED  BY <1>1, <1>6, <2>1
<1>9. PoppedFrame(g, i + 1, k, elems)
  BY <1>2, <1>3, <1>7, <1>8 DEF PoppedFrame, new
<1>10. Read(p) = terms[k - i] /\ k - i \in 1 .. k
  <2>1. k - i \in 1 .. k /\ (k - (k - i)) + 1 = 1 + i /\ 1 \in 1 .. k - i
    BY <1>2
  <2>2. p = elems[1 + i]
    BY <1>1, <1>6, <2>1
  <2> QED  BY <2>1, <2>2
<1>11. args \in Seq(T) /\ Len(args) = i /\ \A j \in 1 .. i : args[j] = terms[(k - i) + j]
  BY DEF PoppedArgs
<1>12. Read(p) \in T
  BY <1>10
<1> DEFINE more == <<Read(p)>> \o args
<1>13. /\ more \in Seq(T) /\ Len(more) = i + 1 /\ more[1] = Read(p)
       /\ \A j \in 1 .. i : more[j + 1] = args[j]
  <2> HIDE DEF T
  <2> QED  BY <1>11, <1>12, ConsPlaces
<1> HIDE DEF more
<1>14. ASSUME NEW j \in 1 .. i + 1
       PROVE  more[j] = terms[(k - (i + 1)) + j]
  <2>1. CASE j = 1
    <3>1. (k - (i + 1)) + j = k - i
      BY <2>1
    <3> QED  BY <1>10, <1>13, <2>1, <3>1
  <2>2. CASE j # 1
    <3>1. j - 1 \in 1 .. i /\ (j - 1) + 1 = j /\ (k - i) + (j - 1) = (k - (i + 1)) + j
      BY <2>2
    <3>2. more[(j - 1) + 1] = args[j - 1] /\ args[j - 1] = terms[(k - i) + (j - 1)]
      BY <1>11, <1>13, <3>1
    <3> QED  BY <3>1, <3>2
  <2> QED  BY <2>1, <2>2
<1>15. PoppedArgs(more, i + 1, k, terms)
  BY <1>13, <1>14 DEF PoppedArgs
<1> QED  BY <1>9, <1>15 DEF ArgsBefore, more, g, p

FirstTerms(terms, k) == [j \in 1 .. k |-> terms[j]]

LEMMA PoppedIs ==
  ASSUME NEW f, NEW k \in Nat, NEW terms, Holds(f, frameData, k, terms)
  PROVE  LET called == Popped(f, k)
         IN  /\ FrameShape(called.frame) /\ called.frame.elem_count = 0
             /\ called.args = FirstTerms(terms, k)
<1> DEFINE elems == Elems(f)
           after == CHOOSE g : IsAfter(g, f, k)
           T == {i \in 0 .. k : /\ PoppedFrame(after[i].frame, i, k, elems)
                                /\ PoppedArgs(after[i].args, i, k, terms)}
<1>1. Popped(f, k) = after[k]
  BY DEF Popped, IsAfter, AfterAt
<1>2. IsAfter(after, f, k)
  BY AfterExists
<1>3. /\ FrameShape(f) /\ f.elem_count = k /\ Len(elems) = k
      /\ \A j \in 1 .. k : Read(elems[(k - j) + 1]) = terms[j]
  BY DEF Holds, Read, ReadAt
<1> HIDE DEF after
<1>4. \A i \in 0 .. k : after[i] = AfterAt(after, f, i)
  BY <1>2 DEF IsAfter
<1>5. 0 \in T
  <2>1. after[0] = [frame |-> f, args |-> <<>>]
    <3>1. 0 \in 0 .. k
      OBVIOUS
    <3>2. after[0] = AfterAt(after, f, 0)
      BY <1>4, <3>1
    <3> QED  BY <3>2 DEF AfterAt
  <2>2. PoppedFrame(f, 0, k, elems)
    <3>1. \A j \in 1 .. k : j + 0 = j
      OBVIOUS
    <3> QED  BY <1>3, <3>1 DEF PoppedFrame
  <2>3. PoppedArgs(<<>>, 0, k, terms)
    BY EmptySeq DEF PoppedArgs
  <2> QED  BY <2>1, <2>2, <2>3
<1>6. ASSUME NEW i \in 0 .. k - 1, i \in T
      PROVE  i + 1 \in T
  <2>1. /\ i + 1 \in 0 .. k /\ (i + 1) - 1 = i /\ i + 1 # 0
    OBVIOUS
  <2>2. /\ after[i + 1].frame = PopFromStack(after[i].frame)
        /\ after[i + 1].args = ArgsBefore(Read(PoppedPtr(after[i].frame)), after[i].args)
    <3>1. after[i + 1] = AfterAt(after, f, i + 1)
      BY <1>4, <2>1
    <3> QED  BY <2>1, <3>1 DEF AfterAt
  <2>3. PoppedFrame(after[i].frame, i, k, elems) /\ PoppedArgs(after[i].args, i, k, terms)
    BY <1>6
  <2> HIDE DEF elems
  <2>4. /\ PoppedFrame(after[i + 1].frame, i + 1, k, elems)
        /\ PoppedArgs(after[i + 1].args, i + 1, k, terms)
    BY <1>3, <2>2, <2>3, PopsOneMore
  <2> QED  BY <2>1, <2>4
<1>7. k \in T
  <2> HIDE DEF T
  <2> QED  BY <1>5, <1>6, IntervalInduction
<1>8. PoppedFrame(after[k].frame, k, k, elems) /\ PoppedArgs(after[k].args, k, k, terms)
  BY <1>7
<1>9. FrameShape(after[k].frame) /\ after[k].frame.elem_count = 0
  BY <1>8 DEF PoppedFrame
<1> DEFINE args == after[k].args
<1>10. args \in Seq({terms[j] : j \in 1 .. k}) /\ Len(args) = k
       /\ \A j \in 1 .. k : args[j] = terms[j]
  <2>1. \A j \in 1 .. k : (k - k) + j = j
    OBVIOUS
  <2> QED  BY <1>8, <2>1 DEF PoppedArgs
<1> HIDE DEF args
<1>11. args = [j \in 1 .. k |-> args[j]]
  BY <1>10, LenProperties
<1>12. args = [j \in 1 .. k |-> terms[j]]
  BY <1>10, <1>11
<1> QED  BY <1>1, <1>9, <1>12 DEF args, FirstTerms
-----------------------------------------------------------------------------
LEMMA PostorderAt ==
  ASSUME NEW p \in AllPrograms, NEW n \in Nodes
  PROVE  LET post == PostorderOf(p)
         IN  post[n] \in Seq(Nodes) /\ post[n] = Cat(Written(post, p[n].args), <<n>>)
BY PostorderIs

LEMMA NoPostorders ==
  ASSUME NEW f
  PROVE  Written(f, <<>>) = <<>>
<1> DEFINE none == Mapped(f, <<>>)
<1>1. none = [i \in {} |-> f[<<>>[i]]]
  BY DEF Mapped
<1>2. none = <<>>
  BY <1>1
<1> HIDE DEF none
<1>3. none \in Seq(Seq(Nodes)) /\ Len(none) = 0
  BY <1>2
<1> QED  BY <1>3, FlattenEmpty DEF Written, none

LEMMA PostorderOfLeaf ==
  ASSUME NEW p \in AllPrograms, NEW n \in Nodes, p[n].args = <<>>
  PROVE  PostorderOf(p)[n] = <<n>>
<1>1. PostorderOf(p)[n] = Cat(Written(PostorderOf(p), <<>>), <<n>>)
  BY PostorderAt
<1>2. Cat(<<>>, <<n>>) = <<n>>
  BY DEF Cat
<1> QED  BY <1>1, <1>2, NoPostorders

LEMMA PostordersOfLeaves ==
  ASSUME NEW post, ReadsAll(post, Nodes, Seq(Nodes)), NEW u \in Seq(Nodes),
         \A i \in 1 .. Len(u) : post[u[i]] = <<u[i]>>
  PROVE  Written(post, u) = u
<1> DEFINE seqs == Mapped(post, u)
           T == {m \in 0 .. Len(u) : FlattenSeq(Prefix(seqs, m)) = Prefix(u, m)}
<1>1. ReadsInto(post, u, Seq(Nodes)) /\ Len(u) \in Nat
  BY RangeOfSeq, LenProperties DEF ReadsInto, ReadsAll
<1>2. seqs \in Seq(Seq(Nodes)) /\ Len(seqs) = Len(u)
  BY <1>1, MappedType
<1>3. \A i \in 1 .. Len(u) : seqs[i] = <<u[i]>> /\ u[i] \in Nodes
  BY LenProperties DEF Mapped
<1> HIDE DEF seqs
<1>4. 0 \in T
  <2>1. 0 \in 0 .. Len(seqs) /\ 0 \in 0 .. Len(u)
    BY <1>1, <1>2
  <2>2. /\ Prefix(seqs, 0) \in Seq(Seq(Nodes)) /\ Len(Prefix(seqs, 0)) = 0
        /\ Prefix(u, 0) \in Seq(Nodes) /\ Len(Prefix(u, 0)) = 0
    BY <1>2, <2>1, PrefixType
  <2>3. FlattenSeq(Prefix(seqs, 0)) = <<>>
    BY <2>2, FlattenEmpty
  <2>4. Prefix(u, 0) = <<>>
    BY <2>2, EmptySeq
  <2> QED  BY <2>1, <2>3, <2>4
<1>5. ASSUME NEW m \in 0 .. Len(u) - 1, m \in T
      PROVE  m + 1 \in T
  <2>1. /\ m \in 0 .. Len(seqs) - 1 /\ m + 1 \in 0 .. Len(u) /\ m + 1 \in 1 .. Len(u)
        /\ m \in 0 .. Len(u)
    BY <1>1, <1>2
  <2>2. FlattenSeq(Prefix(seqs, m + 1)) = Cat(FlattenSeq(Prefix(seqs, m)), seqs[m + 1])
    BY <1>2, <2>1, FlattenPrefix
  <2>3. Cat(Prefix(u, m), <<u[m + 1]>>) = Prefix(u, m + 1)
    <3>1. Prefix(u, m) \in Seq(Nodes) /\ Len(Prefix(u, m)) = m /\ u[m + 1] \in Nodes
      BY <1>3, <2>1, PrefixType
    <3>2. Append(Prefix(u, m), u[m + 1]) = Prefix(u, m + 1)
      BY <1>1, <2>1, <3>1 DEF Prefix
    <3>3. Prefix(u, m) \o <<u[m + 1]>> = Append(Prefix(u, m), u[m + 1])
      BY <3>1, AppendIsConcat
    <3> QED  BY <3>2, <3>3 DEF Cat
  <2> QED  BY <1>3, <1>5, <2>1, <2>2, <2>3
<1>6. Len(u) \in T
  <2> DEFINE n == Len(u)
  <2>1. n \in Nat /\ 0 \in T /\ \A m \in 0 .. n - 1 : m \in T => m + 1 \in T
    BY <1>1, <1>4, <1>5
  <2> HIDE DEF T, n
  <2>2. \A m \in 0 .. n : m \in T
    BY <2>1, IntervalInduction
  <2> QED  BY <2>1, <2>2 DEF n
<1>7. Prefix(seqs, Len(u)) = seqs /\ Prefix(u, Len(u)) = u
  BY <1>2, PrefixWhole
<1> QED  BY <1>6, <1>7 DEF Written, seqs

(* In a program nested in first arguments, a call's postorder is that of    *)
(* its first argument, its other arguments, and the call.                   *)
FirstThenLeaves(whole, first, args, n) ==
  LET L == Len(first)
      r == Len(args)
  IN  /\ L \in Nat /\ r \in Nat \ {0} /\ Len(whole) = L + r
      /\ \A i \in 1 .. L : whole[i] = first[i]
      /\ \A k \in 1 .. r - 1 : whole[L + k] = args[k + 1]
      /\ whole[L + r] = n

LEMMA CallPostorder ==
  ASSUME NEW p \in AllPrograms, LeftNested(p), NEW n \in Nodes, p[n].args # <<>>
  PROVE  LET post == PostorderOf(p)
             args == p[n].args
         IN  FirstThenLeaves(post[n], post[args[1]], args, n)
<1> DEFINE post == PostorderOf(p)
           args == p[n].args
           rest == Tail(args)
           first == <<args[1]>>
<1>1. args \in Seq(Nodes) /\ args # <<>>
  BY NodeOfProgram
<1>2. ReadsAll(post, Nodes, Seq(Nodes)) /\ post[n] = Cat(Written(post, args), <<n>>)
  BY PostorderAt DEF ReadsAll
<1>3. /\ Len(args) \in Nat \ {0} /\ args[1] \in Nodes /\ rest \in Seq(Nodes)
      /\ Len(rest) = Len(args) - 1
      /\ \A i \in 1 .. Len(rest) : rest[i] = args[i + 1]
  BY <1>1
<1>4. args = Cat(first, rest)
  BY <1>1 DEF Cat
<1>5. \A i \in 1 .. Len(rest) : post[rest[i]] = <<rest[i]>>
  <2> TAKE i \in 1 .. Len(rest)
  <2>1. i + 1 \in 2 .. Len(args) /\ rest[i] = args[i + 1] /\ rest[i] \in Nodes
    BY <1>3
  <2>2. IsLeaf(p[rest[i]])
    BY <2>1 DEF LeftNested
  <2> QED  BY <2>1, <2>2, NodeOfProgram, PostorderOfLeaf
<1>6. first \in Seq(Nodes) /\ post[args[1]] \in Seq(Nodes)
  BY <1>2, <1>3 DEF ReadsAll
<1>7. first[1] = args[1] /\ Len(first) = 1 /\ DOMAIN first = 1 .. 1
  OBVIOUS
<1> HIDE DEF args, post, rest, first
<1>8. Written(post, rest) = rest
  BY <1>2, <1>3, <1>5, PostordersOfLeaves
<1>9. Written(post, first) = post[args[1]]
  <2> DEFINE one == Mapped(post, first)
  <2>1. ReadsInto(post, first, Seq(Nodes))
    BY <1>2, <1>6, RangeOfSeq DEF ReadsInto, ReadsAll
  <2>2. one \in Seq(Seq(Nodes)) /\ Len(one) = 1
    BY <1>6, <1>7, <2>1, MappedType
  <2>3. one[1] = post[args[1]]
    BY <1>7 DEF Mapped
  <2> HIDE DEF one
  <2> QED  BY <2>2, <2>3, FlattenOne DEF Written, one
<1>10. Written(post, args) = Cat(post[args[1]], rest)
  <2>1. Mapped(post, args) = Cat(Mapped(post, first), Mapped(post, rest))
    BY <1>2, <1>3, <1>4, <1>6, MappedCat
  <2>2. Mapped(post, first) \in Seq(Seq(Nodes)) /\ Mapped(post, rest) \in Seq(Seq(Nodes))
    <3>1. ReadsInto(post, first, Seq(Nodes)) /\ ReadsInto(post, rest, Seq(Nodes))
      BY <1>2, <1>3, <1>6, RangeOfSeq DEF ReadsInto, ReadsAll
    <3> QED  BY <1>3, <1>6, <3>1, MappedType
  <2>3. FlattenSeq(Cat(Mapped(post, first), Mapped(post, rest)))
          = Cat(FlattenSeq(Mapped(post, first)), FlattenSeq(Mapped(post, rest)))
    BY <2>2, FlattenCat
  <2> QED  BY <1>8, <1>9, <2>1, <2>3 DEF Written
<1> DEFINE a == post[args[1]]
           last == <<n>>
           front == Cat(a, rest)
<1>11. last \in Seq(Nodes) /\ Len(last) = 1 /\ last[1] = n
  OBVIOUS
<1>12. a \in Seq(Nodes) /\ Len(a) \in Nat
  BY <1>6, LenProperties
<1> HIDE DEF a, last
<1>13. /\ front \in Seq(Nodes) /\ Len(front) = Len(a) + Len(rest)
       /\ \A i \in 1 .. Len(a) + Len(rest) :
             front[i] = IF i <= Len(a) THEN a[i] ELSE rest[i - Len(a)]
  BY <1>3, <1>12, ConcatProperties DEF Cat
<1> HIDE DEF front
<1> DEFINE whole == Cat(front, last)
<1>14. /\ Len(whole) = Len(front) + Len(last)
       /\ \A i \in 1 .. Len(front) + Len(last) :
             whole[i] = IF i <= Len(front) THEN front[i] ELSE last[i - Len(front)]
  <2>1. front \in Seq(Nodes) /\ last \in Seq(Nodes)
    BY <1>11, <1>13
  <2> QED  BY <2>1, ConcatProperties DEF Cat
<1>15. post[n] = whole
  BY <1>2, <1>10 DEF a, last, front
<1> HIDE DEF whole
<1> DEFINE L == Len(a)
           r == Len(args)
<1>16. L \in Nat /\ r \in Nat \ {0} /\ Len(rest) = r - 1
  BY <1>3, <1>12
<1>17. Len(front) = L + (r - 1) /\ Len(whole) = L + r
  BY <1>11, <1>13, <1>14, <1>16
<1>18. \A i \in 1 .. L : whole[i] = a[i]
  <2> TAKE i \in 1 .. L
  <2>1. i \in 1 .. Len(a) + Len(rest) /\ i \in 1 .. Len(front) + Len(last)
        /\ i <= Len(front) /\ i <= Len(a)
    BY <1>11, <1>16, <1>17
  <2> QED  BY <1>13, <1>14, <2>1
<1>19. \A k \in 1 .. r - 1 : whole[L + k] = args[k + 1]
  <2> TAKE k \in 1 .. r - 1
  <2>1. L + k \in 1 .. Len(a) + Len(rest) /\ L + k \in 1 .. Len(front) + Len(last)
        /\ L + k <= Len(front) /\ ~(L + k <= Len(a)) /\ (L + k) - Len(a) = k
        /\ k \in 1 .. Len(rest)
    BY <1>11, <1>16, <1>17
  <2> QED  BY <1>3, <1>13, <1>14, <2>1
<1>20. whole[L + r] = n
  <2>1. L + r \in 1 .. Len(front) + Len(last) /\ ~(L + r <= Len(front))
        /\ (L + r) - Len(front) = 1
    BY <1>11, <1>16, <1>17
  <2> QED  BY <1>11, <1>14, <2>1
<1> QED  BY <1>15, <1>16, <1>17, <1>18, <1>19, <1>20 DEF FirstThenLeaves, a, args, post
-----------------------------------------------------------------------------
(* The nodes met from the entrypoint down along first arguments. *)
FirstArg(p, q, n) == p[q].args # <<>> /\ p[q].args[1] = n

SpineClosed(p, T) ==
  Root \in T /\ \A q \in T, n \in Nodes : FirstArg(p, q, n) => n \in T

Spine(p) == {n \in Nodes : \A T \in SUBSET Nodes : SpineClosed(p, T) => n \in T}

LEMMA SpineIs ==
  ASSUME NEW p
  PROVE  /\ Spine(p) \subseteq Nodes /\ SpineClosed(p, Spine(p))
         /\ \A T \in SUBSET Nodes : SpineClosed(p, T) => Spine(p) \subseteq T
<1>1. Root \in Nodes
  BY NodeCountAssumption DEF Root, Nodes
<1>2. Root \in Spine(p)
  BY <1>1 DEF Spine, SpineClosed
<1>3. ASSUME NEW q \in Spine(p), NEW n \in Nodes, FirstArg(p, q, n)
      PROVE  n \in Spine(p)
  BY <1>3 DEF Spine, SpineClosed
<1> QED  BY <1>2, <1>3 DEF Spine, SpineClosed

LEMMA SpineParent ==
  ASSUME NEW p, NEW n \in Spine(p)
  PROVE  n = Root \/ \E q \in Spine(p) : FirstArg(p, q, n)
<1> DEFINE T == {m \in Spine(p) : m = Root \/ \E q \in Spine(p) : FirstArg(p, q, m)}
<1>1. T \in SUBSET Nodes /\ T \subseteq Spine(p)
  BY SpineIs
<1>2. SpineClosed(p, Spine(p))
  BY SpineIs
<1>3. Root \in T
  BY <1>2 DEF SpineClosed
<1>4. \A q \in T, m \in Nodes : FirstArg(p, q, m) => m \in T
  BY <1>2 DEF SpineClosed
<1>5. SpineClosed(p, T)
  BY <1>3, <1>4 DEF SpineClosed
<1>6. n \in T
  <2> HIDE DEF T
  <2> QED  BY <1>1, <1>5, SpineIs
<1> QED  BY <1>6

(* It ends at a node without arguments. *)
LEMMA SpineBottom ==
  ASSUME NEW p \in AllPrograms
  PROVE  \E n \in Spine(p) : p[n].args = <<>>
<1>1. /\ Spine(p) \subseteq Nodes /\ SpineClosed(p, Spine(p)) /\ Spine(p) # {}
  BY SpineIs DEF SpineClosed
<1>2. Nodes \subseteq Nat
  BY NodeCountAssumption DEF Nodes
<1>3. PICK n \in Spine(p) : \A m \in Spine(p) : n <= m
  BY <1>1, <1>2, LeastNumber
<1>4. n \in Nodes /\ n \in Nat
  BY <1>1, <1>2
<1>5. CASE p[n].args # <<>>
  <2> DEFINE args == p[n].args
  <2>1. args \in Seq(Nodes) /\ \A i \in 1 .. Len(args) : args[i] \in 1 .. n - 1
    BY <1>4, NodeOfProgram
  <2>2. args # <<>>
    BY <1>5
  <2>3. 1 \in 1 .. Len(args) /\ args[1] \in Nodes
    <3> HIDE DEF args
    <3> QED  BY <2>1, <2>2
  <2>4. args[1] \in Spine(p)
    BY <1>1, <1>5, <2>3 DEF SpineClosed, FirstArg
  <2>5. args[1] \in 1 .. n - 1
    BY <2>1, <2>3
  <2> QED  BY <1>3, <1>4, <2>4, <2>5
<1> QED  BY <1>5

(* The schedule starts with the postorder of every such node. *)
Starts(s, t) == Len(s) <= Len(t) /\ \A i \in 1 .. Len(s) : s[i] = t[i]

LEMMA FirstStarts ==
  ASSUME NEW whole, NEW first, NEW args, NEW n, FirstThenLeaves(whole, first, args, n)
  PROVE  Starts(first, whole)
<1>1. /\ Len(first) \in Nat /\ Len(args) \in Nat /\ Len(whole) = Len(first) + Len(args)
      /\ \A i \in 1 .. Len(first) : whole[i] = first[i]
  BY DEF FirstThenLeaves
<1>2. Len(first) <= Len(whole)
  BY <1>1
<1> QED  BY <1>1, <1>2 DEF Starts

LEMMA FirstArgIs ==
  ASSUME NEW p \in AllPrograms, NEW q \in Nodes, NEW n, FirstArg(p, q, n)
  PROVE  n \in Nodes /\ Len(p[q].args) \in Nat \ {0}
<1>1. p[q].args \in Seq(Nodes) /\ p[q].args # <<>> /\ n = p[q].args[1]
  BY NodeOfProgram DEF FirstArg
<1> QED  BY <1>1

LEMMA SpineStarts ==
  ASSUME NEW p \in AllPrograms, LeftNested(p), NEW n \in Spine(p)
  PROVE  Starts(PostorderOf(p)[n], PostorderOf(p)[Root])
<1> DEFINE post == PostorderOf(p)
           T == {m \in Nodes : Starts(post[m], post[Root])}
<1>1. \A m \in Nodes : post[m] \in Seq(Nodes) /\ Len(post[m]) \in Nat
  BY PostorderAt, LenProperties
<1>2. Root \in Nodes
  BY NodeCountAssumption DEF Root, Nodes
<1>3. Root \in T
  BY <1>1, <1>2 DEF Starts
<1>4. ASSUME NEW q \in T, NEW m \in Nodes, FirstArg(p, q, m)
      PROVE  m \in T
  <2>1. FirstThenLeaves(post[q], post[m], p[q].args, q)
    BY <1>4, CallPostorder DEF FirstArg
  <2>2. /\ Len(post[m]) <= Len(post[q])
        /\ \A i \in 1 .. Len(post[m]) : post[q][i] = post[m][i]
    BY <2>1, FirstStarts DEF Starts
  <2>3. Starts(post[q], post[Root])
    BY <1>4
  <2> HIDE DEF post
  <2>4. Starts(post[m], post[Root])
    BY <1>1, <1>2, <1>4, <2>2, <2>3 DEF Starts
  <2> QED  BY <2>4
<1>5. SpineClosed(p, T)
  <2> HIDE DEF T
  <2> QED  BY <1>3, <1>4 DEF SpineClosed
<1>6. n \in T
  <2>1. T \in SUBSET Nodes
    OBVIOUS
  <2> HIDE DEF T
  <2> QED  BY <1>5, <2>1, SpineIs
<1> QED  BY <1>6
-----------------------------------------------------------------------------
(* Where the evaluation stands: the first k arguments of node n are on the  *)
(* frame, and all that comes before them in the schedule has been consumed. *)
Before(p, n, k) ==
  IF k = 0 THEN 0 ELSE Len(PostorderOf(p)[p[n].args[1]]) + (k - 1)

Reached(p, n, k) ==
  /\ n \in Spine(p) /\ k \in 0 .. Len(p[n].args)
  /\ k = 0 => p[n].args = <<>>

(* What the schedule holds there. *)
LEMMA NextInSchedule ==
  ASSUME NEW p \in AllPrograms, LeftNested(p), NEW n, NEW k, Reached(p, n, k)
  PROVE  LET schedule == PostorderOf(p)[Root]
             at == Before(p, n, k) + 1
         IN  /\ n \in Nodes /\ at \in 1 .. Len(schedule)
             /\ k < Len(p[n].args) =>
                  /\ k + 1 \in 2 .. Len(p[n].args)
                  /\ schedule[at] = p[n].args[k + 1]
             /\ k = Len(p[n].args) => schedule[at] = n /\ at = Len(PostorderOf(p)[n])
<1> DEFINE post == PostorderOf(p)
           args == p[n].args
           r == Len(args)
           at == Before(p, n, k) + 1
<1>1. n \in Nodes /\ args \in Seq(Nodes) /\ k \in 0 .. r
  BY SpineIs, NodeOfProgram DEF Reached
<1>2. r \in Nat /\ k \in Nat
  BY <1>1, LenProperties
<1>3. Starts(post[n], post[Root])
  BY SpineStarts DEF Reached
<1>4. Len(post[Root]) \in Nat /\ Len(post[n]) \in Nat
  <2>1. Root \in Nodes
    BY NodeCountAssumption DEF Root, Nodes
  <2> QED  BY <1>1, <2>1, PostorderAt, LenProperties
<1>5. CASE args = <<>>
  <2>1. r = 0 /\ k = 0
    BY <1>1, <1>5
  <2>2. post[n] = <<n>>
    BY <1>1, <1>5, PostorderOfLeaf
  <2>3. Len(post[n]) = 1 /\ post[n][1] = n
    BY <2>2
  <2>4. at = 1
    BY <2>1 DEF Before
  <2> HIDE DEF post, at, r
  <2> QED  BY <1>1, <1>3, <1>4, <2>1, <2>3, <2>4 DEF Starts, post, at, r
<1>6. CASE args # <<>>
  <2> DEFINE L == Len(post[args[1]])
  <2>1. FirstThenLeaves(post[n], post[args[1]], args, n)
    BY <1>1, <1>6, CallPostorder
  <2>2. /\ L \in Nat /\ r \in Nat \ {0} /\ Len(post[n]) = L + r
        /\ \A j \in 1 .. r - 1 : post[n][L + j] = args[j + 1]
        /\ post[n][L + r] = n
    BY <2>1 DEF FirstThenLeaves
  <2>3. k # 0
    BY <1>6 DEF Reached
  <2>4. at = L + k
    <3>1. at = (L + (k - 1)) + 1
      BY <2>3 DEF Before
    <3> HIDE DEF at, L
    <3> QED  BY <1>2, <2>2, <3>1
  <2> HIDE DEF post, at, args, L
  <2>5. at \in 1 .. Len(post[n]) /\ k \in 1 .. r
    BY <1>1, <1>2, <2>2, <2>3, <2>4
  <2>6. at \in 1 .. Len(post[Root]) /\ post[Root][at] = post[n][at]
    BY <1>3, <1>4, <2>5 DEF Starts
  <2>7. ASSUME k < r
        PROVE  k + 1 \in 2 .. r /\ post[Root][at] = args[k + 1]
    <3>1. k \in 1 .. r - 1 /\ k + 1 \in 2 .. r
      BY <1>2, <2>5, <2>7
    <3> QED  BY <2>2, <2>4, <2>6, <3>1
  <2>8. ASSUME k = r
        PROVE  post[Root][at] = n /\ at = Len(post[n])
    BY <2>2, <2>4, <2>6, <2>8
  <2> QED  BY <1>1, <2>6, <2>7, <2>8 DEF post, args, at
<1> QED  BY <1>5, <1>6

(* After an argument, and after the call. *)
LEMMA ArgReached ==
  ASSUME NEW p \in AllPrograms, NEW n, NEW k, Reached(p, n, k), k < Len(p[n].args)
  PROVE  Reached(p, n, k + 1) /\ Before(p, n, k + 1) = Before(p, n, k) + 1
<1> DEFINE args == p[n].args
           L == Len(PostorderOf(p)[args[1]])
<1>1. n \in Nodes /\ args \in Seq(Nodes) /\ k \in 0 .. Len(args) /\ n \in Spine(p)
  BY SpineIs, NodeOfProgram DEF Reached
<1>2. Len(args) \in Nat /\ k < Len(args)
  BY <1>1, LenProperties
<1>3. k # 0
  <2>1. k = 0 => Len(args) = 0
    BY DEF Reached
  <2> QED  BY <1>2, <2>1
<1>4. args[1] \in Nodes
  <2> HIDE DEF args
  <2> QED  BY <1>1, <1>2
<1>5. L \in Nat
  BY <1>4, PostorderAt, LenProperties
<1>6. k \in Nat /\ k + 1 # 0 /\ k + 1 \in 0 .. Len(args)
  BY <1>1, <1>2
<1>7. Before(p, n, k) = L + (k - 1) /\ Before(p, n, k + 1) = L + ((k + 1) - 1)
  BY <1>3, <1>6 DEF Before
<1>8. L + ((k + 1) - 1) = (L + (k - 1)) + 1
  <2> HIDE DEF L
  <2> QED  BY <1>5, <1>6
<1> QED  BY <1>1, <1>6, <1>7, <1>8 DEF Reached

LEMMA CallReached ==
  ASSUME NEW p \in AllPrograms, LeftNested(p), NEW n,
         Reached(p, n, Len(p[n].args)), n # Root
  PROVE  \E q \in Nodes : /\ FirstArg(p, q, n) /\ Reached(p, q, 1)
                          /\ Before(p, q, 1) = Before(p, n, Len(p[n].args)) + 1
                          /\ Before(p, q, 1) < Len(PostorderOf(p)[Root])
<1> DEFINE before == Before(p, n, Len(p[n].args))
<1>1. n \in Spine(p)
  BY DEF Reached
<1>2. PICK q \in Spine(p) : FirstArg(p, q, n)
  BY <1>1, SpineParent
<1>3. q \in Nodes /\ n \in Nodes /\ Len(p[q].args) \in Nat \ {0}
  <2>1. q \in Nodes
    BY SpineIs
  <2> QED  BY <1>2, <2>1, FirstArgIs
<1>4. Reached(p, q, 1)
  BY <1>2, <1>3 DEF Reached
<1>5. before + 1 = Len(PostorderOf(p)[n])
  BY NextInSchedule
<1>6. Len(PostorderOf(p)[n]) \in Nat
  BY <1>3, PostorderAt, LenProperties
<1>7. Before(p, q, 1) = Len(PostorderOf(p)[n])
  <2>1. Before(p, q, 1) = Len(PostorderOf(p)[n]) + (1 - 1)
    BY <1>2 DEF Before, FirstArg
  <2> QED  BY <1>6, <2>1
<1>8. Before(p, q, 1) < Len(PostorderOf(p)[Root])
  <2>1. Before(p, q, 1) + 1 \in 1 .. Len(PostorderOf(p)[Root])
    BY <1>4, NextInSchedule
  <2>2. Len(PostorderOf(p)[Root]) \in Nat
    <3>1. Root \in Nodes
      BY NodeCountAssumption DEF Root, Nodes
    <3> QED  BY <3>1, PostorderAt, LenProperties
  <2> QED  BY <1>6, <1>7, <2>1, <2>2
<1> QED  BY <1>2, <1>3, <1>4, <1>5, <1>7, <1>8
-----------------------------------------------------------------------------
(* The recursive function of Term, up to node k. *)
TermAt(f, p, n) ==
  [of |-> n, args |-> [i \in 1 .. Len(p[n].args) |-> f[p[n].args[i]]]]

AreTerms(f, p, k) == f = [n \in 1 .. k |-> TermAt(f, p, n)]

TermsOf(p) == CHOOSE f : AreTerms(f, p, NodeCount)

LEMMA TermsAgree ==
  ASSUME NEW p \in AllPrograms, NEW n \in Nodes, NEW f, NEW g,
         \A m \in 1 .. n - 1 : f[m] = g[m]
  PROVE  TermAt(f, p, n) = TermAt(g, p, n)
<1> DEFINE args == p[n].args
<1>1. \A i \in 1 .. Len(args) : args[i] \in 1 .. n - 1
  BY NodeOfProgram
<1> HIDE DEF args
<1>2. [i \in 1 .. Len(args) |-> f[args[i]]] = [i \in 1 .. Len(args) |-> g[args[i]]]
  BY <1>1
<1> QED  BY <1>2 DEF TermAt, args

LEMMA TermsExist ==
  ASSUME NEW p \in AllPrograms
  PROVE  \E f : AreTerms(f, p, NodeCount)
<1> DEFINE T == {k \in 0 .. NodeCount : \E f : AreTerms(f, p, k)}
<1>0. NodeCount \in Nat
  BY NodeCountAssumption
<1>1. 0 \in T
  <2> DEFINE f == [n \in 1 .. 0 |-> {}]
  <2>1. f = [n \in 1 .. 0 |-> TermAt(f, p, n)]
    OBVIOUS
  <2> HIDE DEF f
  <2>2. AreTerms(f, p, 0)
    BY <2>1 DEF AreTerms
  <2> QED  BY <1>0, <2>2
<1>2. ASSUME NEW k \in 0 .. NodeCount - 1, k \in T
      PROVE  k + 1 \in T
  <2>1. PICK f : AreTerms(f, p, k)
    BY <1>2
  <2> DEFINE g == [n \in 1 .. k + 1 |-> TermAt(f, p, n)]
  <2>2. ASSUME NEW n \in 1 .. k
        PROVE  g[n] = f[n]
    <3>1. f[n] = TermAt(f, p, n)
      BY <2>1 DEF AreTerms
    <3>2. n \in 1 .. k + 1
      BY <1>0
    <3>3. g[n] = TermAt(f, p, n)
      BY <3>2
    <3> QED  BY <3>1, <3>3
  <2>3. \A n \in 1 .. k + 1 : g[n] = TermAt(f, p, n)
    OBVIOUS
  <2>4. g = [n \in 1 .. k + 1 |-> g[n]]
    OBVIOUS
  <2> HIDE DEF g
  <2>5. ASSUME NEW n \in 1 .. k + 1
        PROVE  g[n] = TermAt(g, p, n)
    <3>1. n \in Nodes /\ \A m \in 1 .. n - 1 : m \in 1 .. k
      BY <1>0 DEF Nodes
    <3>2. \A m \in 1 .. n - 1 : f[m] = g[m]
      BY <2>2, <3>1
    <3>3. TermAt(f, p, n) = TermAt(g, p, n)
      BY <3>1, <3>2, TermsAgree
    <3> QED  BY <2>3, <3>3
  <2>6. AreTerms(g, p, k + 1)
    BY <2>4, <2>5 DEF AreTerms
  <2>7. k + 1 \in 0 .. NodeCount
    BY <1>0
  <2> QED  BY <2>6, <2>7
<1>3. \A k \in 0 .. NodeCount : k \in T
  <2> HIDE DEF T
  <2> QED  BY <1>0, <1>1, <1>2, IntervalInduction
<1>4. NodeCount \in T
  <2> HIDE DEF T
  <2> QED  BY <1>0, <1>3
<1> QED  BY <1>4

LEMMA TermIs ==
  ASSUME NEW p \in AllPrograms, NEW n \in Nodes
  PROVE  TermsOf(p)[n] = TermAt(TermsOf(p), p, n)
<1> DEFINE f == TermsOf(p)
<1>1. AreTerms(f, p, NodeCount)
  BY TermsExist DEF TermsOf
<1> HIDE DEF f
<1>2. f[n] = TermAt(f, p, n)
  BY <1>1 DEF AreTerms, Nodes
<1> QED  BY <1>2 DEF f

LEMMA TermOfLeaf ==
  ASSUME NEW p \in AllPrograms, NEW n \in Nodes, p[n].args = <<>>
  PROVE  TermsOf(p)[n] = [of |-> n, args |-> <<>>]
<1>1. TermsOf(p)[n] = TermAt(TermsOf(p), p, n)
  BY TermIs
<1> DEFINE f == TermsOf(p)
           args == [i \in 1 .. 0 |-> f[<<>>[i]]]
<1>2. args = <<>>
  BY DEF args
<1>3. Len(<<>>) = 0
  OBVIOUS
<1>4. TermAt(f, p, n) = [of |-> n, args |-> args]
  BY <1>3 DEF TermAt
<1> QED  BY <1>1, <1>2, <1>4

-----------------------------------------------------------------------------
(* The inductive invariant. *)
ArgTerms(p, n, k) == [i \in 1 .. k |-> TermsOf(p)[p[n].args[i]]]

Running(p, at, frame, data) ==
  \E n \in Nodes, k \in Nat :
    /\ Reached(p, n, k) /\ at = Before(p, n, k) + 1
    /\ Holds(frame, data, k, ArgTerms(p, n, k))

Finished(p, frame, data) == Holds(frame, data, 1, <<TermsOf(p)[Root]>>)

OneBlock(p) == Len(PostorderOf(p)[Root]) <= ValScheduleQtt

Evaluates(p, at, how, frame, data) ==
  \/ how = "running" /\ Running(p, at, frame, data)
  \/ how = "done" /\ Finished(p, frame, data)
  \/ how = "astray" /\ ~OneBlock(p) /\ Finished(p, frame, data)
  \/ how \in {"aborted", "crashed"} /\ at \in 1 .. Len(PostorderOf(p)[Root])

EvalIInv ==
  /\ program \in AllPrograms /\ LeftNested(program)
  /\ val_schedule = PostorderOf(program)[Root]
  /\ frame_vals \in Stacks
  /\ Evaluates(program, pos, status, frame_vals, frameData)

(* What the walk may make of its status at the place at.                    *)
GoesOn(p, at) ==
  IF at # Len(PostorderOf(p)[Root]) THEN {"running"}
  ELSE IF OneBlock(p) THEN {"done"} ELSE {"done", "astray"}

LEMMA AdvanceGoesOn ==
  ASSUME val_schedule = PostorderOf(program)[Root], Advance
  PROVE  /\ pos' = pos + 1 /\ program' = program /\ val_schedule' = val_schedule
         /\ status' \in GoesOn(program, pos)
BY DEF Advance, AfterLast, FitsBlock, GoesOn, OneBlock

(* The node n has been evaluated: the schedule has ended, or the next place *)
(* is one further along the arguments of n's caller.                        *)
LEMMA Completed ==
  ASSUME NEW p \in AllPrograms, LeftNested(p), NEW n, NEW r, r = Len(p[n].args),
         Reached(p, n, r), NEW at, at = Before(p, n, r) + 1,
         NEW frame, NEW data, Holds(frame, data, 1, <<TermsOf(p)[n]>>),
         NEW how \in GoesOn(p, at)
  PROVE  Evaluates(p, at + 1, how, frame, data)
<1> DEFINE size == Len(PostorderOf(p)[Root])
<1>1. size \in Nat
  <2>1. Root \in Nodes
    BY NodeCountAssumption DEF Root, Nodes
  <2> QED  BY <2>1, PostorderAt, LenProperties
<1>2. at \in 1 .. size /\ at = Len(PostorderOf(p)[n])
  BY NextInSchedule
<1>3. CASE n = Root
  BY <1>2, <1>3 DEF Evaluates, Finished, GoesOn
<1>4. CASE n # Root
  <2>1. PICK q \in Nodes : /\ FirstArg(p, q, n) /\ Reached(p, q, 1)
                           /\ Before(p, q, 1) = at /\ Before(p, q, 1) < size
    BY <1>4, CallReached
  <2>2. at # size /\ at + 1 = Before(p, q, 1) + 1
    BY <1>1, <1>2, <2>1
  <2>3. Holds(frame, data, 1, ArgTerms(p, q, 1))
    <3>1. p[q].args[1] = n
      BY <2>1 DEF FirstArg
    <3>2. ArgTerms(p, q, 1)[1] = TermsOf(p)[n]
      BY <3>1 DEF ArgTerms
    <3> QED  BY <3>2 DEF Holds
  <2>4. Running(p, at + 1, frame, data)
    BY <2>1, <2>2, <2>3 DEF Running
  <2> QED  BY <2>2, <2>4 DEF Evaluates, GoesOn
<1> QED  BY <1>3, <1>4

(* One more argument of n has been evaluated. *)
LEMMA OneMoreArg ==
  ASSUME NEW p \in AllPrograms, LeftNested(p), NEW n, NEW k, k < Len(p[n].args),
         Reached(p, n, k), NEW at, at = Before(p, n, k) + 1,
         NEW frame, NEW data, Holds(frame, data, k + 1, ArgTerms(p, n, k + 1)),
         NEW how \in GoesOn(p, at)
  PROVE  Evaluates(p, at + 1, how, frame, data)
<1> DEFINE size == Len(PostorderOf(p)[Root])
<1>1. Reached(p, n, k + 1) /\ Before(p, n, k + 1) = at
  BY ArgReached
<1>2. n \in Nodes /\ at \in 1 .. size
  BY NextInSchedule
<1>3. at + 1 \in 1 .. size
  BY <1>1, NextInSchedule
<1>4. size \in Nat
  <2>1. Root \in Nodes
    BY NodeCountAssumption DEF Root, Nodes
  <2> QED  BY <2>1, PostorderAt, LenProperties
<1>5. at # size
  BY <1>2, <1>3, <1>4
<1>6. k \in Nat
  <2>1. p[n].args \in Seq(Nodes)
    BY <1>2, NodeOfProgram
  <2>2. Len(p[n].args) \in Nat
    BY <2>1, LenProperties
  <2> QED  BY <2>2 DEF Reached
<1>7. k + 1 \in Nat
  BY <1>6
<1>8. Running(p, at + 1, frame, data)
  BY <1>1, <1>2, <1>7 DEF Running
<1> QED  BY <1>5, <1>8 DEF Evaluates, GoesOn

LEMMA EvalInit == ~AnyShape /\ Init => EvalIInv
<1> SUFFICES ASSUME ~AnyShape, Init PROVE EvalIInv
  OBVIOUS
<1>1. /\ program \in AllPrograms /\ LeftNested(program) /\ pos = 1 /\ status = "running"
      /\ val_schedule = PostorderOf(program)[Root]
  BY DEF Init
<1>2. PICK b \in Blocks : frame_vals = InitStack(b, 1, 1, FrameQtt)
  BY DEF Init
<1>3. FrameShape(frame_vals) /\ frame_vals.elem_count = 0
  BY <1>2, FrameInit
<1>4. IsMemory(frameData)
  BY DEF Init, IsMemory
<1>5. PICK n \in Spine(program) : program[n].args = <<>>
  BY <1>1, SpineBottom
<1>6. n \in Nodes /\ Len(program[n].args) = 0
  BY <1>5, SpineIs
<1>7. Reached(program, n, 0) /\ Before(program, n, 0) + 1 = pos
  BY <1>1, <1>5, <1>6 DEF Reached, Before
<1>8. Holds(frame_vals, frameData, 0, ArgTerms(program, n, 0))
  BY <1>3, <1>4, HoldsNothing
<1>9. Running(program, pos, frame_vals, frameData)
  BY <1>6, <1>7, <1>8 DEF Running
<1> QED  BY <1>1, <1>3, <1>9 DEF EvalIInv, Evaluates, FrameShape

(* Where a running evaluation stands, and what it meets there. *)
Meets(n, k) ==
  /\ n \in Nodes /\ k \in Nat /\ Reached(program, n, k) /\ pos = Before(program, n, k) + 1
  /\ Holds(frame_vals, frameData, k, ArgTerms(program, n, k))
  /\ pos \in 1 .. Len(val_schedule)
  /\ \/ k < Len(program[n].args) /\ CurVal = program[n].args[k + 1] /\ CurVal \in Nodes
        /\ IsLeaf(CurNode)
     \/ k = Len(program[n].args) /\ CurVal = n

LEMMA Standing ==
  ASSUME EvalIInv, status = "running"
  PROVE  \E n, k : Meets(n, k)
<1>1. /\ program \in AllPrograms /\ LeftNested(program)
      /\ val_schedule = PostorderOf(program)[Root]
      /\ Running(program, pos, frame_vals, frameData)
  BY DEF EvalIInv, Evaluates
<1>2. PICK n \in Nodes, k \in Nat :
        /\ Reached(program, n, k) /\ pos = Before(program, n, k) + 1
        /\ Holds(frame_vals, frameData, k, ArgTerms(program, n, k))
  BY <1>1 DEF Running
<1> DEFINE args == program[n].args
<1>3. /\ pos \in 1 .. Len(val_schedule)
      /\ k < Len(args) => k + 1 \in 2 .. Len(args) /\ val_schedule[pos] = args[k + 1]
      /\ k = Len(args) => val_schedule[pos] = n
  BY <1>1, <1>2, NextInSchedule
<1>4. args \in Seq(Nodes) /\ k \in 0 .. Len(args) /\ Len(args) \in Nat
  BY <1>1, NodeOfProgram, LenProperties, <1>2 DEF Reached
<1>5. \A i \in 2 .. Len(args) : args[i] \in Nodes /\ IsLeaf(program[args[i]])
  <2>1. \A i \in 2 .. Len(args) : IsLeaf(program[args[i]])
    BY <1>1 DEF LeftNested
  <2> HIDE DEF args
  <2> QED  BY <1>4, <2>1
<1> HIDE DEF args
<1>6. k < Len(args) \/ k = Len(args)
  BY <1>4
<1> QED  BY <1>2, <1>3, <1>5, <1>6 DEF Meets, CurVal, CurNode, args

(* A value is pushed. *)
LEMMA EvalValueKeeps ==
  ASSUME EvalIInv, EvalValue
  PROVE  EvalIInv'
<1> DEFINE term == [of |-> CurVal, args |-> <<>>]
<1>1. /\ program \in AllPrograms /\ LeftNested(program)
      /\ val_schedule = PostorderOf(program)[Root]
  BY DEF EvalIInv
<1>2. /\ status = "running" /\ CurNode.kind = "value" /\ PushOnto(frame_vals, term)
      /\ pos' = pos + 1 /\ program' = program /\ val_schedule' = val_schedule
      /\ status' \in GoesOn(program, pos)
  BY <1>1, AdvanceGoesOn DEF EvalValue
<1>3. PICK n, k : Meets(n, k)
  BY <1>2, Standing
<1>4. /\ n \in Nodes /\ k \in Nat /\ Reached(program, n, k)
      /\ pos = Before(program, n, k) + 1
      /\ Holds(frame_vals, frameData, k, ArgTerms(program, n, k))
      /\ \/ k < Len(program[n].args) /\ CurVal = program[n].args[k + 1] /\ CurVal \in Nodes
         \/ k = Len(program[n].args) /\ CurVal = n
  BY <1>3 DEF Meets
<1>5. CurVal \in Nodes
  BY <1>4
<1>6. program[CurVal].args = <<>>
  <2>1. IsLeaf(program[CurVal])
    BY <1>2 DEF CurNode, IsLeaf, Calls
  <2> QED  BY <1>1, <1>5, <2>1, NodeOfProgram
<1>7. TermsOf(program)[CurVal] = term
  BY <1>1, <1>5, <1>6, TermOfLeaf
<1> HIDE DEF term
<1>8. /\ frame_vals' \in AllocStackElem(frame_vals)
      /\ frameData' = PutAt(frameData, HeadPtr(frame_vals'.arena), term)
  BY <1>2 DEF PushOnto, PutAt
<1>9. ASSUME NEW terms, \A j \in 1 .. k : terms[j] = ArgTerms(program, n, k)[j],
             terms[k + 1] = term
      PROVE  Holds(frame_vals', frameData', k + 1, terms)
  BY <1>4, <1>8, <1>9, HoldsOneMore
<1>10. CASE k < Len(program[n].args)
  <2>1. CurVal = program[n].args[k + 1]
    BY <1>4, <1>10
  <2> DEFINE terms == ArgTerms(program, n, k + 1)
  <2>2. /\ \A j \in 1 .. k : terms[j] = ArgTerms(program, n, k)[j]
        /\ terms[k + 1] = term
    BY <1>4, <1>7, <2>1 DEF ArgTerms
  <2> HIDE DEF terms
  <2>3. Holds(frame_vals', frameData', k + 1, terms)
    BY <1>9, <2>2
  <2>4. Evaluates(program, pos + 1, status', frame_vals', frameData')
    BY <1>1, <1>2, <1>4, <1>10, <2>3, OneMoreArg DEF terms
  <2>5. FrameShape(frame_vals')
    BY <2>3 DEF Holds
  <2> QED  BY <1>1, <1>2, <2>4, <2>5 DEF EvalIInv, FrameShape
<1>11. CASE ~(k < Len(program[n].args))
  <2>1. k = Len(program[n].args) /\ CurVal = n
    BY <1>4, <1>11
  <2>2. k = 0
    BY <1>6, <2>1
  <2> DEFINE terms == <<TermsOf(program)[n]>>
  <2>3. terms[k + 1] = term /\ \A j \in 1 .. k : terms[j] = ArgTerms(program, n, k)[j]
    BY <1>7, <2>1, <2>2
  <2> HIDE DEF terms
  <2>4. Holds(frame_vals', frameData', 1, terms)
    BY <1>9, <2>2, <2>3
  <2>5. Evaluates(program, pos + 1, status', frame_vals', frameData')
    BY <1>1, <1>2, <1>4, <2>1, <2>4, Completed DEF terms
  <2>6. FrameShape(frame_vals')
    BY <2>4 DEF Holds
  <2> QED  BY <1>1, <1>2, <2>5, <2>6 DEF EvalIInv, FrameShape
<1> QED  BY <1>10, <1>11

(* A call always finds exactly its arguments on the frame. *)
LEMMA CallMeetsArgs ==
  ASSUME EvalIInv, EvalCall
  PROVE  \E n : Meets(n, Len(program[n].args)) /\ CurVal = n /\ CurNode = program[n]
<1>1. status = "running" /\ CurNode.kind \in Calls
  BY DEF EvalCall
<1>2. PICK n, k : Meets(n, k)
  BY <1>1, Standing
<1>3. ~IsLeaf(CurNode)
  BY <1>1 DEF IsLeaf
<1>4. k = Len(program[n].args) /\ CurVal = n
  BY <1>2, <1>3 DEF Meets
<1> QED  BY <1>2, <1>4 DEF CurNode

LEMMA CallDrainsFrame ==
  ASSUME EvalIInv, EvalCall
  PROVE  /\ frame_vals.elem_count = Len(CurNode.args)
         /\ HasArgs(frame_vals, Len(CurNode.args))
<1>1. PICK n : Meets(n, Len(program[n].args)) /\ CurVal = n /\ CurNode = program[n]
  BY CallMeetsArgs
<1>2. frame_vals.elem_count = Len(CurNode.args) /\ Len(CurNode.args) \in Nat
  BY <1>1 DEF Meets, Holds
<1> QED  BY <1>2 DEF HasArgs

LEMMA EvalCallKeeps ==
  ASSUME EvalIInv, EvalCall
  PROVE  EvalIInv'
<1>1. /\ program \in AllPrograms /\ LeftNested(program)
      /\ val_schedule = PostorderOf(program)[Root] /\ frame_vals \in Stacks
  BY DEF EvalIInv
<1>2. PICK n : Meets(n, Len(program[n].args)) /\ CurVal = n /\ CurNode = program[n]
  BY CallMeetsArgs
<1> DEFINE k == Len(program[n].args)
<1>3. /\ n \in Nodes /\ k \in Nat /\ Reached(program, n, k)
      /\ pos = Before(program, n, k) + 1
      /\ Holds(frame_vals, frameData, k, ArgTerms(program, n, k))
      /\ pos \in 1 .. Len(val_schedule)
  BY <1>2 DEF Meets
<1>4. Stop("crashed") \/ CallNative
  BY CallDrainsFrame DEF EvalCall
<1>5. CASE Stop("crashed")
  <2>1. /\ status' = "crashed" /\ program' = program /\ val_schedule' = val_schedule
        /\ pos' = pos /\ frame_vals' = frame_vals /\ frameData' = frameData
    BY <1>5 DEF Stop
  <2> QED  BY <1>1, <1>3, <2>1 DEF EvalIInv, Evaluates
<1>6. CASE CallNative
  <2> DEFINE called == Popped(frame_vals, k)
             frame == ResetStack(called.frame)
             term == [of |-> n, args |-> called.args]
  <2>1. /\ PushOnto(frame, term)
        /\ pos' = pos + 1 /\ program' = program /\ val_schedule' = val_schedule
        /\ status' \in GoesOn(program, pos)
    BY <1>1, <1>2, <1>6, AdvanceGoesOn DEF CallNative
  <2>2. /\ FrameShape(called.frame) /\ called.frame.elem_count = 0
        /\ called.args = FirstTerms(ArgTerms(program, n, k), k)
    BY <1>3, PoppedIs
  <2>3. TermsOf(program)[n] = term
    <3>1. called.args = [j \in 1 .. k |-> TermsOf(program)[program[n].args[j]]]
      BY <2>2 DEF ArgTerms, FirstTerms
    <3>2. TermsOf(program)[n] = TermAt(TermsOf(program), program, n)
      BY <1>1, <1>3, TermIs
    <3> HIDE DEF called
    <3> QED  BY <3>1, <3>2 DEF TermAt
  <2>4. /\ frame_vals' \in AllocStackElem(frame)
        /\ frameData' = PutAt(frameData, HeadPtr(frame_vals'.arena), term)
    BY <2>1 DEF PushOnto, PutAt
  <2> HIDE DEF called, term
  <2>5. FrameShape(frame) /\ frame.elem_count = 0
    BY <2>2, FrameReset
  <2> HIDE DEF frame
  <2> DEFINE terms == <<TermsOf(program)[n]>>
  <2>6. Holds(frame, frameData, 0, terms)
    BY <1>3, <2>5, HoldsNothing DEF Holds
  <2>7. terms[0 + 1] = term /\ \A j \in 1 .. 0 : terms[j] = terms[j]
    BY <2>3
  <2> HIDE DEF terms
  <2>8. Holds(frame_vals', frameData', 0 + 1, terms)
    BY <2>4, <2>6, <2>7, HoldsOneMore
  <2>9. Evaluates(program, pos + 1, status', frame_vals', frameData')
    <3>1. Holds(frame_vals', frameData', 1, terms)
      BY <2>8
    <3> QED  BY <1>1, <1>3, <2>1, <3>1, Completed DEF terms
  <2>10. FrameShape(frame_vals')
    BY <2>8 DEF Holds
  <2> QED  BY <1>1, <2>1, <2>9, <2>10 DEF EvalIInv, FrameShape
<1> QED  BY <1>4, <1>5, <1>6

LEMMA EvalStep == EvalIInv /\ [Next]_vars => EvalIInv'
<1> SUFFICES ASSUME EvalIInv, [Next]_vars PROVE EvalIInv'
  OBVIOUS
<1>1. CASE EvalValue
  BY <1>1, EvalValueKeeps
<1>2. CASE EvalCall
  BY <1>2, EvalCallKeeps
<1>3. CASE EvalOther
  <2>1. /\ status = "running" /\ status' = "aborted"
        /\ program' = program /\ val_schedule' = val_schedule
        /\ pos' = pos /\ frame_vals' = frame_vals /\ frameData' = frameData
    BY <1>3 DEF EvalOther, Stop
  <2>2. PICK n, k : Meets(n, k)
    BY <2>1, Standing
  <2>3. pos \in 1 .. Len(val_schedule)
    BY <2>2 DEF Meets
  <2> QED  BY <2>1, <2>3 DEF EvalIInv, Evaluates
<1>4. CASE UNCHANGED vars
  BY <1>4 DEF EvalIInv, vars
<1> QED  BY <1>1, <1>2, <1>3, <1>4 DEF Next

LEMMA EvalInvariant ==
  ASSUME ~AnyShape
  PROVE  Spec => []EvalIInv
BY EvalInit, EvalStep, PTL DEF Spec

(* flow.c:14-66 in types: the place in the schedule stays within it until   *)
(* its last value has been evaluated, the frame stays a stack, and a        *)
(* schedule of one block is never left through a next nobody set.           *)
THEOREM EvalTypeCorrect ==
  ASSUME ~AnyShape
  PROVE  Spec => []TypeOK
<1>1. ASSUME EvalIInv
      PROVE  TypeOK
  <2>1. /\ program \in AllPrograms /\ val_schedule = PostorderOf(program)[Root]
        /\ frame_vals \in Stacks
        /\ Evaluates(program, pos, status, frame_vals, frameData)
    BY <1>1 DEF EvalIInv
  <2>2. Root \in Nodes
    BY NodeCountAssumption DEF Root, Nodes
  <2>3. val_schedule \in Seq(Nodes)
    BY <2>1, <2>2, PostorderAt
  <2>4. CASE status = "running"
    <3>1. PICK n, k : Meets(n, k)
      BY <1>1, <2>4, Standing
    <3> QED  BY <2>1, <2>3, <2>4, <3>1 DEF TypeOK, Meets
  <2>5. CASE status # "running"
    BY <2>1, <2>3, <2>5 DEF TypeOK, Evaluates, OneBlock, FitsBlock
  <2> QED  BY <2>4, <2>5
<1> QED  BY <1>1, EvalInvariant, PTL

(* Bottom-up evaluation (readme.md:3 and 11): of a program nested in first  *)
(* arguments, of any size, sharing and arity, over frame blocks of any      *)
(* size, what is left on top of the frame behind the last value of the      *)
(* schedule is the value of the entrypoint.  The loop ends there when the   *)
(* schedule is one block; else it ends if adapters.c:18 happens to find     *)
(* NULL, and the theorem is about the state before it goes elsewhere.       *)
THEOREM EvalIsBottomUp ==
  ASSUME ~AnyShape
  PROVE  Spec => []EvaluatesBottomUp
<1>1. ASSUME EvalIInv
      PROVE  EvaluatesBottomUp
  <2>1. SUFFICES ASSUME status \in {"done", "astray"}
                 PROVE  Read(PoppedPtr(frame_vals)) = Term[Root]
    BY DEF EvaluatesBottomUp
  <2> DEFINE elems == Elems(frame_vals)
             rest == Elems(PopFromStack(frame_vals))
             p == PoppedPtr(frame_vals)
  <2>2. Holds(frame_vals, frameData, 1, <<TermsOf(program)[Root]>>)
    BY <1>1, <2>1 DEF EvalIInv, Evaluates, Finished
  <2>3. /\ FrameShape(frame_vals) /\ frame_vals.elem_count = 1
        /\ ReadAt(frameData, elems[(1 - 1) + 1]) = TermsOf(program)[Root]
    BY <2>2 DEF Holds
  <2>4. elems = <<p>> \o rest /\ FrameShape(PopFromStack(frame_vals))
    BY <2>3, FramePop
  <2>5. rest \in Seq(Frame!ElemPtr)
    BY <2>4, FrameElems
  <2> HIDE DEF elems, rest, p
  <2> DEFINE S == Frame!ElemPtr \cup {p}
  <2>6. p \in S /\ rest \in Seq(S)
    <3>1. Frame!ElemPtr \subseteq S
      OBVIOUS
    <3> QED  BY <2>5, <3>1, SeqDef
  <2> HIDE DEF S
  <2>7. elems[1] = p
    BY <2>4, <2>6, ConsPlaces
  <2>8. Read(p) = TermsOf(program)[Root]
    BY <2>3, <2>7 DEF Read, ReadAt
  <2>9. Term = TermsOf(program)
    BY DEF Term, TermsOf, AreTerms, TermAt, Nodes
  <2> QED  BY <2>8, <2>9 DEF p
<1> QED  BY <1>1, EvalInvariant, PTL

(* The test of flow.c:36 never refuses a call of such a program.            *)
THEOREM EvalNeverShort ==
  ASSUME ~AnyShape
  PROVE  Spec => []NeverShort
<1>1. EvalIInv => NeverShort
  BY DEF EvalIInv, Evaluates, NeverShort
<1> QED  BY <1>1, EvalInvariant, PTL

(* flow.c:51: whenever the frame is reset in such a program, it held just   *)
(* the arguments of the call.                                               *)
THEOREM EvalResetsDrainedFrame ==
  ASSUME ~AnyShape
  PROVE  Spec => ResetsDrainedFrame
<1>1. EvalIInv /\ [Next]_vars
        => [EvalCall => frame_vals.elem_count = Len(CurNode.args)]_vars
  BY CallDrainsFrame
<1>2. Spec => [][Next]_vars
  BY PTL DEF Spec
<1> QED  BY <1>1, <1>2, EvalInvariant, PTL DEF ResetsDrainedFrame
=============================================================================
