--------------------------- MODULE ZendHashProofs ---------------------------
(***************************************************************************)
(* The hash table stays sound through every call of ZendHash, whatever     *)
(* calls its destructors and comparisons make, until a comparison changes  *)
(* the elements that zend_hash_sort is sorting.  The properties of         *)
(* ZendHash are not inductive: what a call does after its destructor has   *)
(* returned is right only because the calls made from the destructor left  *)
(* its buckets alone.                                                      *)
(* Whole says so: every bucket is either an element of the table or owned  *)
(* by exactly one waiting call, and a call that walks along the list goes  *)
(* on with a bucket that no call further out will free.                    *)
(***************************************************************************)
EXTENDS ZendHashLists

-----------------------------------------------------------------------------
(***************************************************************************)
(* The stack of calls.                                                     *)
(***************************************************************************)
\* The calls that may wait for a destructor or a comparison.
Op == {"update", "del", "clean", "apply", "reverse_apply", "destroy", "sort", "asort", "overrun"}
\* The values of a frame.
FrameType == [op : Op, p : MaybeBucket, dead : MaybeBucket, k : Key \cup {NULL},
              arTmp : Seq(Bucket)]

\* The calls that walk along the list.
Apply(f) == f.op \in {"apply", "reverse_apply"}

\* The calls that sort it.
Sorting(f) == f.op \in {"sort", "asort"}

\* The buckets that a call still has to free.
Own(t, f) == ({f.dead} \ {NULL}) \cup
             IF f.op = "clean" THEN ToSet(Path(t.pListNext, f.p)) ELSE {}

\* The bucket that zend_hash_apply goes on with.
Goes(t, f) == IF f.op = "apply" /\ f.dead # NULL THEN t.pListNext[f.dead] ELSE f.p

\* What a waiting call relies on: its buckets are not freed and not in the table.
FrameOK(t, f) ==
    /\ f \in FrameType
    /\ f.op = "update" => f.dead = NULL /\ f.k \in Key
    /\ f.op = "del" => f.dead # NULL
    /\ f.op = "clean" => \E s : Linked(t.pListNext, f.p, s) /\ f.dead \notin ToSet(s)
    /\ Own(t, f) \subseteq t.live \ In(t)
    /\ Apply(f) => Goes(t, f) \notin Own(t, f)
    /\ Sorting(f) => f.dead = NULL /\ f.arTmp # <<>>

\* ... and the calls further out leave alone: g waits for f to return.
Pair(t, f, g) ==
    /\ Own(t, f) \cap Own(t, g) = {} /\ f.op # "destroy"
    /\ Apply(f) => Goes(t, f) \notin Own(t, g)
    /\ Sorting(f) => ToSet(f.arTmp) \cap Own(t, g) = {}

\* f was called while all of st waited.
Outer(t, f, st) == \A i \in 1 .. Len(st) : Pair(t, f, st[i])

\* The buckets that some waiting call has to free.
Owned(t, st) == UNION {Own(t, st[i]) : i \in 1 .. Len(st)}

\* All of this for a stack.
StackOK(t, st) ==
    /\ st \in Seq(FrameType)
    /\ \A i \in 1 .. Len(st) : FrameOK(t, st[i])
    /\ \A i, j \in 1 .. Len(st) : i < j => Pair(t, st[i], st[j])

\* The calls that have still to count their element off.
Del(st) == {i \in 1 .. Len(st) : st[i].op = "del"}

\* A stack with one call more.
LEMMA Pushed ==
  ASSUME NEW f \in FrameType, NEW st \in Seq(FrameType)
  PROVE  LET u == <<f>> \o st
         IN  /\ u \in Seq(FrameType) /\ Len(st) \in Nat /\ Len(u) = Len(st) + 1
             /\ u[1] = f /\ \A i \in 1 .. Len(st) : u[i + 1] = st[i]
             /\ u # <<>> /\ Head(u) = f /\ Tail(u) = st
  <1> DEFINE u == <<f>> \o st
  <1>1. /\ u \in Seq(FrameType) /\ Len(st) \in Nat /\ Len(u) = Len(st) + 1
        /\ u[1] = f /\ \A i \in 1 .. Len(st) : u[i + 1] = st[i]
    OBVIOUS
  <1> HIDE DEF u
  <1>2. u # <<>> /\ Head(u) = f BY <1>1
  <1>3. Tail(u) \in Seq(FrameType) /\ Len(Tail(u)) = Len(st) /\ \A i \in 1 .. Len(st) : Tail(u)[i] = st[i]
    BY <1>1, <1>2
  <1>4. Tail(u) = st BY <1>3
  <1> QED BY <1>1, <1>2, <1>4 DEF u

\* A stack that is not empty is its first call on the others.
LEMMA Popped ==
  ASSUME NEW st \in Seq(FrameType), st # <<>>
  PROVE  /\ Head(st) \in FrameType /\ Tail(st) \in Seq(FrameType)
         /\ st = <<Head(st)>> \o Tail(st)
  <1>1. Len(st) \in Nat /\ Len(st) # 0 /\ Head(st) = st[1] /\ Head(st) \in FrameType /\ Tail(st) \in Seq(FrameType)
        /\ Len(Tail(st)) = Len(st) - 1 /\ \A i \in 1 .. Len(st) - 1 : Tail(st)[i] = st[i + 1]
    OBVIOUS
  <1> DEFINE u == <<Head(st)>> \o Tail(st)
  <1>2. /\ u \in Seq(FrameType) /\ Len(u) = Len(Tail(st)) + 1
        /\ u[1] = Head(st) /\ \A i \in 1 .. Len(Tail(st)) : u[i + 1] = Tail(st)[i]
    BY <1>1, Pushed
  <1> HIDE DEF u
  <1>3. Len(u) = Len(st) BY <1>1, <1>2
  <1>4. ASSUME NEW i \in 1 .. Len(st) PROVE u[i] = st[i]
    <2>1. CASE i = 1 BY <2>1, <1>1, <1>2
    <2>2. CASE i # 1
      <3>1. i - 1 \in 1 .. Len(st) - 1 /\ (i - 1) + 1 = i BY <2>2, <1>1
      <3>2. u[(i - 1) + 1] = Tail(st)[i - 1] BY <3>1, <1>1, <1>2
      <3>3. Tail(st)[i - 1] = st[(i - 1) + 1] BY <3>1, <1>1
      <3> QED BY <3>1, <3>2, <3>3
    <2> QED BY <2>1, <2>2
  <1>5. u = st BY <1>2, <1>3, <1>4
  <1> QED BY <1>1, <1>5 DEF u

\* A call enters: its own promises and those to the calls it was made from.
LEMMA StackPush ==
  ASSUME NEW t, NEW f, NEW st, StackOK(t, st), FrameOK(t, f), Outer(t, f, st)
  PROVE  StackOK(t, <<f>> \o st) /\ Owned(t, <<f>> \o st) = Own(t, f) \cup Owned(t, st)
  <1> DEFINE u == <<f>> \o st
  <1>1. f \in FrameType /\ st \in Seq(FrameType) BY DEF StackOK, FrameOK
  <1>2. /\ u \in Seq(FrameType) /\ Len(st) \in Nat /\ Len(u) = Len(st) + 1
        /\ u[1] = f /\ \A i \in 1 .. Len(st) : u[i + 1] = st[i]
    BY <1>1, Pushed
  <1> HIDE DEF u
  <1>3. \A i \in 1 .. Len(u) : i = 1 \/ (i - 1 \in 1 .. Len(st) /\ u[i] = st[i - 1])
    <2> TAKE i \in 1 .. Len(u)
    <2>1. i # 1 => i - 1 \in 1 .. Len(st) /\ (i - 1) + 1 = i BY <1>2
    <2> QED BY <2>1, <1>2
  <1>4. ASSUME NEW i \in 1 .. Len(u) PROVE FrameOK(t, u[i])
    BY <1>2, <1>3 DEF StackOK
  <1>5. ASSUME NEW i \in 1 .. Len(u), NEW j \in 1 .. Len(u), i < j PROVE Pair(t, u[i], u[j])
    <2>1. j # 1 BY <1>2, <1>5
    <2>2. j - 1 \in 1 .. Len(st) /\ u[j] = st[j - 1] BY <2>1, <1>3
    <2>3. CASE i = 1 BY <2>2, <2>3, <1>2 DEF Outer
    <2>4. CASE i # 1
      <3>1. i - 1 \in 1 .. Len(st) /\ u[i] = st[i - 1] /\ i - 1 < j - 1 BY <2>4, <1>3, <1>5, <1>2
      <3> QED BY <2>2, <3>1 DEF StackOK
    <2> QED BY <2>3, <2>4
  <1>6. Owned(t, u) = Own(t, f) \cup Owned(t, st)
    <2>1. 1 \in 1 .. Len(u) BY <1>2
    <2>2. \A i \in 1 .. Len(st) : i + 1 \in 1 .. Len(u) BY <1>2
    <2> QED BY <2>1, <2>2, <1>2, <1>3 DEF Owned
  <1> QED BY <1>2, <1>4, <1>5, <1>6 DEF StackOK, u

\* A call returns: what it leaves behind is as sound.
LEMMA StackPop ==
  ASSUME NEW t, NEW f, NEW st, f \in FrameType, st \in Seq(FrameType), StackOK(t, <<f>> \o st)
  PROVE  /\ StackOK(t, st) /\ FrameOK(t, f) /\ Outer(t, f, st)
         /\ Owned(t, <<f>> \o st) = Own(t, f) \cup Owned(t, st)
  <1> DEFINE u == <<f>> \o st
  <1>2. /\ u \in Seq(FrameType) /\ Len(st) \in Nat /\ Len(u) = Len(st) + 1
        /\ u[1] = f /\ \A i \in 1 .. Len(st) : u[i + 1] = st[i]
    BY Pushed
  <1>3. StackOK(t, u) OBVIOUS
  <1> HIDE DEF u
  <1>4. 1 \in 1 .. Len(u) BY <1>2
  <1>5. FrameOK(t, f) BY <1>2, <1>3, <1>4 DEF StackOK
  <1>6. \A i \in 1 .. Len(st) : i + 1 \in 1 .. Len(u) /\ 1 < i + 1 BY <1>2
  <1>7. Outer(t, f, st) BY <1>2, <1>3, <1>4, <1>6 DEF StackOK, Outer
  <1>8. \A i \in 1 .. Len(st) : FrameOK(t, st[i]) BY <1>2, <1>3, <1>6 DEF StackOK
  <1>9. ASSUME NEW i \in 1 .. Len(st), NEW j \in 1 .. Len(st), i < j PROVE Pair(t, st[i], st[j])
    <2>1. i + 1 < j + 1 BY <1>2, <1>9
    <2> QED BY <2>1, <1>2, <1>3, <1>6 DEF StackOK
  <1>10. StackOK(t, st) BY <1>8, <1>9 DEF StackOK
  <1> QED BY <1>5, <1>7, <1>10, StackPush DEF u

\* The calls to zend_hash_del, with one call more.
LEMMA DelPush ==
  ASSUME NEW f \in FrameType, NEW st \in Seq(FrameType)
  PROVE  /\ IsFiniteSet(Del(st)) /\ Cardinality(Del(st)) \in Nat
         /\ IsFiniteSet(Del(<<f>> \o st))
         /\ Cardinality(Del(<<f>> \o st))
              = Cardinality(Del(st)) + IF f.op = "del" THEN 1 ELSE 0
  <1> DEFINE u == <<f>> \o st
             D == Del(st)
             E == {i + 1 : i \in D}
             g == [i \in D |-> i + 1]
  <1>1. /\ u \in Seq(FrameType) /\ Len(st) \in Nat /\ Len(u) = Len(st) + 1
        /\ u[1] = f /\ \A i \in 1 .. Len(st) : u[i + 1] = st[i]
    BY Pushed
  <1> HIDE DEF u
  <1>2. D \in SUBSET (1 .. Len(st)) BY DEF Del
  <1>3. IsFiniteSet(1 .. Len(st)) BY <1>1, FS_Interval
  <1>4. IsFiniteSet(D) BY <1>2, <1>3, FS_Subset
  <1>5. Cardinality(D) \in Nat BY <1>4, FS_CardinalityType
  <1>6. g \in Bijection(D, E)
    <2>1. g \in [D -> E] OBVIOUS
    <2>2. \A i, j \in D : g[i] = g[j] => i = j
      <3> HIDE DEF D
      <3>1. \A i \in D : i \in Int BY <1>2
      <3> QED BY <3>1
    <2>3. \A e \in E : \E i \in D : g[i] = e OBVIOUS
    <2> QED BY <2>1, <2>2, <2>3 DEF Bijection, Injection, Surjection, IsInjective
  <1>7. IsFiniteSet(E) /\ Cardinality(E) = Cardinality(D)
    BY <1>4, <1>6, FS_Bijection DEF ExistsBijection
  <1>8. Del(u) = IF f.op = "del" THEN E \cup {1} ELSE E
    <2>1. \A i \in Del(u) : i = 1 \/ i \in E
      <3> TAKE i \in Del(u)
      <3>1. i \in 1 .. Len(u) /\ u[i].op = "del" BY DEF Del
      <3>2. CASE i # 1
        <4>1. i - 1 \in 1 .. Len(st) /\ (i - 1) + 1 = i BY <3>1, <3>2, <1>1
        <4>2. st[i - 1].op = "del" BY <3>1, <4>1, <1>1
        <4>3. i - 1 \in D BY <4>1, <4>2 DEF Del
        <4> QED BY <4>1, <4>3
      <3> QED BY <3>2
    <2>2. \A e \in E : e \in Del(u) /\ e # 1
      <3> TAKE e \in E
      <3>1. PICK i \in D : e = i + 1 OBVIOUS
      <3>2. i \in 1 .. Len(st) /\ st[i].op = "del" BY DEF Del
      <3>3. i + 1 \in 1 .. Len(u) /\ i + 1 # 1 BY <3>2, <1>1
      <3> QED BY <3>1, <3>2, <3>3, <1>1 DEF Del
    <2>3. 1 \in Del(u) <=> f.op = "del" BY <1>1 DEF Del
    <2> HIDE DEF E
    <2> QED BY <2>1, <2>2, <2>3
  <1>9. 1 \notin E
    <2>1. \A i \in D : i \in 1 .. Len(st) BY DEF Del
    <2> QED BY <2>1
  <1>10. IsFiniteSet(E \cup {1}) /\ Cardinality(E \cup {1}) = Cardinality(E) + 1
    <2> HIDE DEF E
    <2> QED BY <1>7, <1>9, FS_AddElement
  <1> QED
    <2> HIDE DEF E, D
    <2>1. CASE f.op = "del" BY <1>4, <1>5, <1>7, <1>8, <1>10, <2>1 DEF D, u
    <2>2. CASE f.op # "del" BY <1>4, <1>5, <1>7, <1>8, <2>2 DEF D, u
    <2> QED BY <2>1, <2>2

\* No call waits.
LEMMA DelEmpty == Del(<<>>) = {} /\ Cardinality(Del(<<>>)) = 0
  <1>1. Del(<<>>) = {} BY DEF Del
  <1> QED BY <1>1, FS_EmptySet

\* There are no more elements, together with those waiting to be counted off,
\* than buckets.
LEMMA CountBound ==
  ASSUME NEW t, NEW st, StackOK(t, st)
  PROVE  /\ IsFiniteSet(In(t)) /\ Cardinality(In(t)) \in Nat
         /\ IsFiniteSet(Del(st)) /\ Cardinality(Del(st)) \in Nat
         /\ Cardinality(In(t)) + Cardinality(Del(st)) <= NB
         /\ NB \in Nat /\ Cardinality(In(t)) + Cardinality(Del(st)) < SizeLimit
  <1> DEFINE D == Del(st)
             R == Bucket \ In(t)
             g == [i \in D |-> st[i].dead]
  <1>0. st \in Seq(FrameType) /\ Len(st) \in Nat BY DEF StackOK
  <1>1. IsFiniteSet(Bucket) /\ In(t) \in SUBSET Bucket /\ R \in SUBSET Bucket
    BY HashAssumption DEF In
  <1>2. IsFiniteSet(In(t)) /\ IsFiniteSet(R) BY <1>1, FS_Subset
  <1>3. \A i \in D : i \in 1 .. Len(st) /\ st[i].dead \in R /\ st[i].dead # NULL
    <2> TAKE i \in D
    <2>1. i \in 1 .. Len(st) /\ st[i].op = "del" BY DEF Del
    <2>2. FrameOK(t, st[i]) BY <2>1 DEF StackOK
    <2>3. st[i].dead # NULL /\ st[i].dead \in MaybeBucket BY <2>1, <2>2 DEF FrameOK, FrameType
    <2>4. st[i].dead \notin In(t) BY <2>2, <2>3 DEF FrameOK, Own
    <2> QED BY <2>1, <2>3, <2>4 DEF MaybeBucket
  <1>4. ASSUME NEW i \in D, NEW j \in D, st[i].dead = st[j].dead PROVE i = j
    <2>1. i \in Int /\ j \in Int BY <1>3
    <2>2. ASSUME NEW a \in D, NEW b \in D, st[a].dead = st[b].dead, a < b PROVE FALSE
      <3>1. Pair(t, st[a], st[b]) BY <2>2, <1>3 DEF StackOK
      <3> QED BY <3>1, <2>2, <1>3 DEF Pair, Own
    <2>3. ~(i < j) /\ ~(j < i) BY <2>2, <1>4
    <2> QED BY <2>1, <2>3
  <1>5. g \in Injection(D, R)
    <2>1. g \in [D -> R] BY <1>3
    <2>2. \A i, j \in D : g[i] = g[j] => i = j BY <1>4
    <2> HIDE DEF g
    <2> QED BY <2>1, <2>2 DEF Injection, IsInjective
  <1>6. IsFiniteSet(D) /\ Cardinality(D) <= Cardinality(R) BY <1>2, <1>5, FS_Injection
  <1>7. Bucket = In(t) \cup R /\ In(t) \cap R = {} BY <1>1
  <1>8. NB = Cardinality(In(t)) + Cardinality(R) - 0
    <2> HIDE DEF R
    <2>1. Cardinality({}) = 0 BY FS_EmptySet
    <2> QED BY <1>2, <1>7, <2>1, FS_Union DEF NB
  <1>9. Cardinality(In(t)) \in Nat /\ Cardinality(R) \in Nat /\ Cardinality(D) \in Nat /\ NB \in Nat
    BY <1>1, <1>2, <1>6, FS_CardinalityType DEF NB
  <1>10. SizeLimit \in Nat /\ NB < SizeLimit BY HashAssumption, <1>9 DEF NB
  <1>11. Cardinality(In(t)) + Cardinality(D) <= NB
    <2> HIDE DEF D, R
    <2> QED BY <1>6, <1>8, <1>9
  <1> QED BY <1>2, <1>6, <1>9, <1>10, <1>11

\* What Linked says of the path.
LEMMA LinkedFrame ==
  ASSUME NEW f, NEW g, NEW p, NEW s, Linked(f, p, s), \A q \in ToSet(s) : g[q] = f[q]
  PROVE  Linked(g, p, s)
  <1>1. \A i \in 1 .. Len(s) : s[i] \in ToSet(s) BY DEF Linked, ToSet
  <1> QED BY <1>1 DEF Linked

\* A call is not disturbed by what happens to other buckets.
LEMMA OwnFrame ==
  ASSUME NEW t, NEW u, IsTable(t), IsTable(u), NEW f, FrameOK(t, f),
         \A q \in Own(t, f) : u.pListNext[q] = t.pListNext[q] /\ q \in u.live \ In(u)
  PROVE  FrameOK(u, f) /\ Own(u, f) = Own(t, f) /\ Goes(u, f) = Goes(t, f)
  <1>1. t.pListNext \in Ptr /\ u.pListNext \in Ptr BY DEF IsTable, Table
  <1>2. f.op = "clean" => \E s : /\ Linked(u.pListNext, f.p, s) /\ f.dead \notin ToSet(s)
                                 /\ Path(u.pListNext, f.p) = s /\ Path(t.pListNext, f.p) = s
    <2> SUFFICES ASSUME f.op = "clean"
                 PROVE  \E s : /\ Linked(u.pListNext, f.p, s) /\ f.dead \notin ToSet(s)
                               /\ Path(u.pListNext, f.p) = s /\ Path(t.pListNext, f.p) = s
      OBVIOUS
    <2>1. PICK s : Linked(t.pListNext, f.p, s) /\ f.dead \notin ToSet(s) BY DEF FrameOK
    <2>2. Path(t.pListNext, f.p) = s BY <1>1, <2>1, PathLinked
    <2>3. ToSet(s) \subseteq Own(t, f) BY <2>2 DEF Own
    <2>4. Linked(u.pListNext, f.p, s) BY <2>1, <2>3, LinkedFrame
    <2>5. Path(u.pListNext, f.p) = s BY <1>1, <2>4, PathLinked
    <2> QED BY <2>1, <2>2, <2>4, <2>5
  <1>3. Own(u, f) = Own(t, f) BY <1>2 DEF Own
  <1>4. Goes(u, f) = Goes(t, f)
    <2>1. f.dead # NULL => f.dead \in Own(t, f) BY DEF Own
    <2> QED BY <2>1 DEF Goes
  <1>5. f.op = "clean" => \E s : Linked(u.pListNext, f.p, s) /\ f.dead \notin ToSet(s)
    BY <1>2
  <1>6. Own(u, f) \subseteq u.live \ In(u) BY <1>3
  <1>7. Apply(f) => Goes(u, f) \notin Own(u, f) BY <1>3, <1>4 DEF FrameOK
  <1> QED BY <1>3, <1>4, <1>5, <1>6, <1>7 DEF FrameOK

\* The buckets S stay outside the table, with their pointers to the next.
Undisturbed(t, u, S) == \A q \in S : u.pListNext[q] = t.pListNext[q] /\ q \in u.live \ In(u)

\* The same for all calls that wait.
LEMMA StackFrame ==
  ASSUME NEW t, NEW u, IsTable(t), IsTable(u), NEW st, StackOK(t, st),
         Undisturbed(t, u, Owned(t, st))
  PROVE  /\ StackOK(u, st) /\ Owned(u, st) = Owned(t, st)
         /\ \A i \in 1 .. Len(st) : Own(u, st[i]) = Own(t, st[i])
  <1>1. ASSUME NEW i \in 1 .. Len(st)
        PROVE  FrameOK(u, st[i]) /\ Own(u, st[i]) = Own(t, st[i]) /\ Goes(u, st[i]) = Goes(t, st[i])
    <2>1. FrameOK(t, st[i]) BY DEF StackOK
    <2>2. \A q \in Own(t, st[i]) : q \in Owned(t, st) BY DEF Owned
    <2> QED BY <2>1, <2>2, OwnFrame DEF Undisturbed
  <1>2. ASSUME NEW i \in 1 .. Len(st), NEW j \in 1 .. Len(st), i < j PROVE Pair(u, st[i], st[j])
    <2>1. Pair(t, st[i], st[j]) BY <1>2 DEF StackOK
    <2> QED BY <2>1, <1>1 DEF Pair
  <1>3. Owned(u, st) = Owned(t, st) BY <1>1 DEF Owned
  <1> QED BY <1>1, <1>2, <1>3 DEF StackOK

\* A call that goes on with a bucket of the table is not in the way of others.
LEMMA OuterOwn ==
  ASSUME NEW t, NEW st, StackOK(t, st), NEW f,
         Own(t, f) \cap Owned(t, st) = {}, f.op # "destroy",
         Apply(f) => Goes(t, f) \notin Owned(t, st),
         Sorting(f) => ToSet(f.arTmp) \cap Owned(t, st) = {}
  PROVE  Outer(t, f, st)
  <1>1. \A i \in 1 .. Len(st) : Own(t, st[i]) \subseteq Owned(t, st) BY DEF Owned
  <1> QED BY <1>1 DEF Outer, Pair

\* ... and the converse.
LEMMA OuterOwned ==
  ASSUME NEW t, NEW st, NEW f, Outer(t, f, st)
  PROVE  /\ Own(t, f) \cap Owned(t, st) = {}
         /\ Apply(f) => Goes(t, f) \notin Owned(t, st)
         /\ Sorting(f) => ToSet(f.arTmp) \cap Owned(t, st) = {}
  BY DEF Outer, Owned, Pair

\* What a waiting call has to free is not in the table.
LEMMA OwnedOut ==
  ASSUME NEW t, NEW st, StackOK(t, st)
  PROVE  Owned(t, st) \subseteq t.live \ In(t)
  BY DEF StackOK, Owned, FrameOK

-----------------------------------------------------------------------------
(***************************************************************************)
(* What the calls do to the table.                                         *)
(***************************************************************************)

\* Find: the element of the key, if there is one.
LEMMA Found ==
  ASSUME NEW t, NEW s, Holds(t, In(t), s), NEW k \in Key
  PROVE  \/ Find(t, k) = NULL /\ \A q \in In(t) : t.key[q] # k
         \/ /\ Find(t, k) \in In(t) /\ Find(t, k) # NULL /\ t.key[Find(t, k)] = k
            /\ \A q \in In(t) : t.key[q] = k => q = Find(t, k)
  <1> DEFINE x == nIndex(t, k)
             found(c) == {i \in DOMAIN c : t.key[c[i]] = k}
  <1>1. IsTable(t) /\ Chains(t, In(t)) BY DEF Holds
  <1>2. x \in 0 .. t.nTableSize - 1 BY <1>1, IndexType
  <1>3. PICK c : ChainHas(t, x, In(t), c) BY <1>1, <1>2 DEF Chains
  <1>4. /\ Linked(t.pNext, t.arBuckets[x], c) /\ DOMAIN c = 1 .. Len(c) /\ Len(c) \in Nat
        /\ ToSet(c) = {c[i] : i \in 1 .. Len(c)}
        /\ ToSet(c) = {p \in In(t) : nIndex(t, t.key[p]) = x}
    <2>1. Dll(t.pNext, t.pLast, t.arBuckets[x], c) BY <1>3 DEF ChainHas
    <2> QED BY <2>1, <1>3, DllType DEF ChainHas, Dll
  <1>5. Chain(t, x) = c
    <2>1. t.pNext \in Ptr BY <1>1 DEF IsTable, Table
    <2> QED BY <2>1, <1>4, PathLinked DEF Chain
  <1>6. Find(t, k) = IF found(c) = {} THEN NULL
                     ELSE c[CHOOSE i \in found(c) : \A j \in found(c) : i <= j]
    BY <1>5 DEF Find
  <1>7. ASSUME NEW q \in In(t), t.key[q] = k PROVE \E i \in found(c) : c[i] = q
    <2>1. q \in ToSet(c) BY <1>4, <1>7
    <2> QED BY <2>1, <1>4, <1>7
  <1>8. \A p, q \in In(t) : t.key[p] = t.key[q] => p = q BY DEF Holds
  <1>9. CASE found(c) = {} BY <1>6, <1>7, <1>9
  <1>10. CASE found(c) # {}
    <2>1. found(c) \in SUBSET Nat BY <1>4
    <2>2. \E i \in found(c) : \A j \in found(c) : i <= j
      <3> HIDE DEF found
      <3> QED BY <1>10, <2>1, Least
    <2>3. Find(t, k) \in {c[i] : i \in found(c)}
      <3> HIDE DEF found
      <3> QED BY <1>6, <1>10, <2>2
    <2>4. PICK i \in found(c) : Find(t, k) = c[i]
      <3> HIDE DEF found
      <3> QED BY <2>3
    <2>5. c[i] \in In(t) /\ t.key[c[i]] = k BY <1>4
    <2>6. c[i] # NULL BY <2>5, HashAssumption DEF In
    <2> QED BY <2>4, <2>5, <2>6, <1>8
  <1> QED BY <1>9, <1>10

\* nNextFreeElement stops at LONG_MAX.
LEMMA NextFreeType ==
  ASSUME NEW n \in Index, NEW k
  PROVE  NextFree(n, k) \in Index
  BY HashAssumption DEF NextFree, Index

\* An element is the one at some place of the list.
LEMMA Place ==
  ASSUME NEW t, NEW S, NEW s, Holds(t, S, s), NEW p \in S
  PROVE  \E i \in 1 .. Len(s) : p = s[i]
  <1>1. ToSet(s) = S /\ Dll(t.pListNext, t.pListLast, t.pListHead, s) BY DEF Holds, ListIs
  <1>2. ToSet(s) = {s[i] : i \in 1 .. Len(s)} BY <1>1, DllType
  <1> QED BY <1>1, <1>2

\* The bucket of an element that was taken out is forgotten.
LEMMA Forgotten ==
  ASSUME NEW t, NEW S, NEW s, Holds(t, S, s), NEW p \in Bucket \ S, In(t) = S \cup {p}
  PROVE  LET u == Forget(t, {p})
         IN  /\ IsTable(u) /\ Holds(u, S, s) /\ In(u) = S
             /\ u.nNumOfElements = t.nNumOfElements /\ u.live = t.live
             /\ u.nNextFreeElement = t.nNextFreeElement
             /\ u.pInternalPointer = t.pInternalPointer
             /\ u.pListNext = t.pListNext /\ \A q \in S : u.key[q] = t.key[q]
  <1> DEFINE u == Forget(t, {p})
  <1>0. IsTable(t) /\ S \subseteq Bucket /\ {p} \in SUBSET Bucket /\ t.pInternalPointer \in S \cup {NULL}
    BY DEF Holds, In
  <1>1. /\ IsTable(u)
        /\ u.nTableSize = t.nTableSize /\ u.nNumOfElements = t.nNumOfElements
        /\ u.nNextFreeElement = t.nNextFreeElement
        /\ u.pInternalPointer = t.pInternalPointer
        /\ u.pListHead = t.pListHead /\ u.pListTail = t.pListTail
        /\ u.arBuckets = t.arBuckets /\ u.live = t.live /\ u.pListNext = t.pListNext
        /\ \A q \in Bucket \ {p} : /\ u.key[q] = t.key[q] /\ u.pNext[q] = t.pNext[q]
                                   /\ u.pLast[q] = t.pLast[q]
                                   /\ u.pListLast[q] = t.pListLast[q]
        /\ u.key[p] = NULL
    BY <1>0, ForgetFields
  <1> HIDE DEF u
  <1>2. \A q \in S : /\ u.key[q] = t.key[q] /\ u.pNext[q] = t.pNext[q]
                     /\ u.pLast[q] = t.pLast[q] /\ u.pListNext[q] = t.pListNext[q]
                     /\ u.pListLast[q] = t.pListLast[q]
    BY <1>0, <1>1
  <1>3. Holds(u, S, s) BY <1>0, <1>1, <1>2, HoldsFrame
  <1>4. In(u) = S
    <2>1. \A q \in Bucket : q \in In(u) <=> q \in In(t) /\ q # p BY <1>1 DEF In
    <2> QED BY <2>1, <1>0 DEF In
  <1> QED BY <1>1, <1>2, <1>3, <1>4 DEF u

\* An element is out of the table, and only its bucket points where it did.
TakenOut(t, u, s, i) ==
    /\ IsTable(u) /\ In(u) = In(t) \ {s[i]} /\ Holds(u, In(u), Cut(s, i)) /\ s[i] \in In(t)
    /\ u.nNextFreeElement = t.nNextFreeElement /\ u.live = t.live
    /\ u.pInternalPointer = IF t.pInternalPointer = s[i] THEN t.pListNext[s[i]]
                            ELSE t.pInternalPointer
    /\ t.pListNext[s[i]] \in In(u) \cup {NULL} /\ t.pListLast[s[i]] \in In(u) \cup {NULL}
    /\ \A q \in Bucket \ In(u) : u.pListNext[q] = t.pListNext[q]
    /\ \A q \in In(u) : u.key[q] = t.key[q]

\* Unlink takes the element out.
LEMMA Unlinked ==
  ASSUME NEW t, NEW s, Holds(t, In(t), s), NEW i \in 1 .. Len(s)
  PROVE  TakenOut(t, Unlink(t, s[i]), s, i) /\ Unlink(t, s[i]).nNumOfElements = t.nNumOfElements
  <1> DEFINE S == In(t)
             p == s[i]
             first == p = t.arBuckets[nIndex(t, t.key[p])]
             x == Unlist(Unchain(t, p, first), p)
             u == Forget(x, {p})
  <1>1. IsTable(t) /\ Chains(t, S) /\ ToSet(s) = S /\ S \in SUBSET Bucket BY DEF Holds, In
  <1>2. p \in S
    <2>1. Dll(t.pListNext, t.pListLast, t.pListHead, s) BY DEF Holds, ListIs
    <2>2. ToSet(s) = {s[j] : j \in 1 .. Len(s)} BY <2>1, DllType
    <2> QED BY <1>1, <2>2
  <1>3. t.key[p] \in Key BY <1>1, <1>2, KeyOf
  <1>4. first \in BOOLEAN /\ (first <=> t.pLast[p] = NULL) BY <1>1, <1>2, <1>3, FirstOfChain
  <1>5. /\ Holds(x, S \ {p}, Cut(s, i))
        /\ x.nNumOfElements = t.nNumOfElements
        /\ x.nNextFreeElement = t.nNextFreeElement /\ x.live = t.live /\ x.key = t.key
        /\ x.pInternalPointer = IF t.pInternalPointer = p THEN t.pListNext[p]
                                ELSE t.pInternalPointer
        /\ t.pListNext[p] \in (S \ {p}) \cup {NULL}
        /\ t.pListLast[p] \in (S \ {p}) \cup {NULL}
        /\ \A q \in (Bucket \ S) \cup {p} : x.pListNext[q] = t.pListNext[q]
    <2>1. p = s[i] /\ Holds(t, S, s) OBVIOUS
    <2>2. OneLess(t, x, S, s, i, p)
      <3> HIDE DEF first, p, S
      <3> QED BY <1>4, <2>1, HoldsWithout
    <2> HIDE DEF x, p, S
    <2> QED BY <2>2 DEF OneLess
  <1>6. Unlink(t, p) = u BY DEF Unlink
  <1> HIDE DEF x, first, p
  <1>7. p \in Bucket \ (S \ {p}) /\ In(x) = (S \ {p}) \cup {p}
    <2>1. In(x) = In(t) BY <1>5 DEF In
    <2> QED BY <1>1, <1>2, <2>1
  <1>8. /\ IsTable(u) /\ Holds(u, S \ {p}, Cut(s, i)) /\ In(u) = S \ {p}
        /\ u.nNumOfElements = x.nNumOfElements /\ u.live = x.live
        /\ u.nNextFreeElement = x.nNextFreeElement
        /\ u.pInternalPointer = x.pInternalPointer
        /\ u.pListNext = x.pListNext /\ \A q \in S \ {p} : u.key[q] = x.key[q]
    BY <1>5, <1>7, Forgotten
  <1> HIDE DEF u
  <1>9. TakenOut(t, u, s, i) BY <1>2, <1>5, <1>8 DEF TakenOut, p
  <1> QED BY <1>5, <1>6, <1>8, <1>9 DEF p

\* Delete takes the element out and counts it off.
LEMMA DeletedOne ==
  ASSUME NEW t, NEW s, Holds(t, In(t), s), NEW i \in 1 .. Len(s)
  PROVE  LET p == s[i]
             u == Forget(Count(Unlist(Unchain(t, p, t.pLast[p] = NULL), p), -1), {p})
         IN  TakenOut(t, u, s, i) /\ u.nNumOfElements = (t.nNumOfElements - 1) % SizeLimit
  <1> DEFINE S == In(t)
             p == s[i]
             first == t.pLast[p] = NULL
             x == Unlist(Unchain(t, p, first), p)
             y == Count(x, -1)
             u == Forget(y, {p})
  <1>1. IsTable(t) /\ Chains(t, S) /\ ToSet(s) = S /\ S \in SUBSET Bucket BY DEF Holds, In
  <1>2. p \in S
    <2>1. Dll(t.pListNext, t.pListLast, t.pListHead, s) BY DEF Holds, ListIs
    <2>2. ToSet(s) = {s[j] : j \in 1 .. Len(s)} BY <2>1, DllType
    <2> QED BY <1>1, <2>2
  <1>4. first \in BOOLEAN /\ (first <=> t.pLast[p] = NULL) OBVIOUS
  <1>5. /\ Holds(x, S \ {p}, Cut(s, i))
        /\ x.nNumOfElements = t.nNumOfElements
        /\ x.nNextFreeElement = t.nNextFreeElement /\ x.live = t.live /\ x.key = t.key
        /\ x.pInternalPointer = IF t.pInternalPointer = p THEN t.pListNext[p]
                                ELSE t.pInternalPointer
        /\ t.pListNext[p] \in (S \ {p}) \cup {NULL}
        /\ t.pListLast[p] \in (S \ {p}) \cup {NULL}
        /\ \A q \in (Bucket \ S) \cup {p} : x.pListNext[q] = t.pListNext[q]
    <2>1. p = s[i] /\ Holds(t, S, s) OBVIOUS
    <2>2. OneLess(t, x, S, s, i, p)
      <3> HIDE DEF first, p, S
      <3> QED BY <1>4, <2>1, HoldsWithout
    <2> HIDE DEF x, p, S
    <2> QED BY <2>2 DEF OneLess
  <1> HIDE DEF x, first, p
  <1>6. IsTable(x) /\ -1 \in Int /\ x.pInternalPointer \in (S \ {p}) \cup {NULL} BY <1>5 DEF Holds
  <1>7. /\ IsTable(y)
        /\ y.nTableSize = x.nTableSize /\ y.arBuckets = x.arBuckets
        /\ y.nNextFreeElement = x.nNextFreeElement /\ y.live = x.live
        /\ y.pListHead = x.pListHead /\ y.pListTail = x.pListTail
        /\ y.pInternalPointer = x.pInternalPointer
        /\ y.key = x.key /\ y.pNext = x.pNext /\ y.pLast = x.pLast
        /\ y.pListNext = x.pListNext /\ y.pListLast = x.pListLast
        /\ y.nNumOfElements = (x.nNumOfElements + -1) % SizeLimit
    BY <1>6, CountFields
  <1> HIDE DEF y
  <1>8. Holds(y, S \ {p}, Cut(s, i)) BY <1>5, <1>6, <1>7, HoldsFrame
  <1>9. p \in Bucket \ (S \ {p}) /\ In(y) = (S \ {p}) \cup {p}
    <2>1. In(y) = In(t) BY <1>5, <1>7 DEF In
    <2> QED BY <1>1, <1>2, <2>1
  <1>10. /\ IsTable(u) /\ Holds(u, S \ {p}, Cut(s, i)) /\ In(u) = S \ {p}
        /\ u.nNumOfElements = y.nNumOfElements /\ u.live = y.live
        /\ u.nNextFreeElement = y.nNextFreeElement
        /\ u.pInternalPointer = y.pInternalPointer
        /\ u.pListNext = y.pListNext /\ \A q \in S \ {p} : u.key[q] = y.key[q]
    BY <1>8, <1>9, Forgotten
  <1> HIDE DEF u
  <1>11. TakenOut(t, u, s, i) BY <1>2, <1>5, <1>7, <1>10 DEF TakenOut, p
  <1>12. t.nNumOfElements \in Int BY <1>1, HashAssumption DEF IsTable, Table
  <1>13. t.nNumOfElements + -1 = t.nNumOfElements - 1 BY <1>12
  <1> QED BY <1>5, <1>7, <1>10, <1>11, <1>13 DEF p, u, y, x, first

\* The memory of a bucket that is not in the table goes, and the table stays.
LEMMA Freed ==
  ASSUME NEW t, NEW s, Holds(t, In(t), s), NEW p \in Bucket \ In(t)
  PROVE  LET u == pefree(t, p)
         IN  /\ IsTable(u) /\ In(u) = In(t) /\ Holds(u, In(u), s)
             /\ u.nNumOfElements = t.nNumOfElements /\ u.live = t.live \ {p}
             /\ u.nNextFreeElement = t.nNextFreeElement
             /\ u.pInternalPointer = t.pInternalPointer
             /\ \A q \in Bucket \ {p} : u.pListNext[q] = t.pListNext[q]
             /\ \A q \in In(t) : u.key[q] = t.key[q]
  <1> DEFINE u == pefree(t, p)
  <1>0. IsTable(t) /\ In(t) \subseteq Bucket \ {p} /\ t.pInternalPointer \in In(t) \cup {NULL}
    BY DEF Holds, In
  <1>1. /\ IsTable(u)
        /\ u.nTableSize = t.nTableSize /\ u.arBuckets = t.arBuckets
        /\ u.nNextFreeElement = t.nNextFreeElement
        /\ u.nNumOfElements = t.nNumOfElements
        /\ u.pListHead = t.pListHead /\ u.pListTail = t.pListTail
        /\ u.pInternalPointer = t.pInternalPointer
        /\ u.live = t.live \ {p} /\ u.key[p] = NULL /\ u.pListNext[p] = NULL
        /\ \A q \in Bucket \ {p} :
              /\ u.key[q] = t.key[q] /\ u.pNext[q] = t.pNext[q]
              /\ u.pLast[q] = t.pLast[q] /\ u.pListLast[q] = t.pListLast[q]
              /\ u.pListNext[q] = t.pListNext[q]
    <2>1. BucketFreed(t, u, p) BY <1>0, FreeFields
    <2> HIDE DEF u
    <2> QED BY <2>1 DEF BucketFreed
  <1> HIDE DEF u
  <1>2. Holds(u, In(t), s) BY <1>0, <1>1, HoldsFrame
  <1>3. In(u) = In(t)
    <2>1. \A q \in Bucket : q \in In(u) <=> q \in In(t) BY <1>0, <1>1 DEF In
    <2> QED BY <2>1 DEF In
  <1>4. Holds(u, In(u), s) BY <1>2, <1>3
  <1> QED BY <1>0, <1>1, <1>3, <1>4 DEF u

\* All of the table but its chains and their number is the same.
SameButSize(t, u) ==
    /\ u.nNumOfElements = t.nNumOfElements
    /\ u.nNextFreeElement = t.nNextFreeElement /\ u.pInternalPointer = t.pInternalPointer
    /\ u.pListHead = t.pListHead /\ u.pListTail = t.pListTail
    /\ u.live = t.live /\ u.key = t.key
    /\ u.pListNext = t.pListNext /\ u.pListLast = t.pListLast

\* A table with its list, whose chains are made anew, is sound.
LEMMA HoldsRehashed ==
  ASSUME NEW t, t \in Table, NEW s, ListIs(t, s), ToSet(s) = In(t),
         \A p, q \in In(t) : t.key[p] = t.key[q] => p = q,
         t.pInternalPointer \in In(t) \cup {NULL}
  PROVE  LET u == zend_hash_rehash(t)
         IN  IsTable(u) /\ Holds(u, In(t), s) /\ In(u) = In(t) /\ SameButSize(t, u)
  <1> DEFINE u == zend_hash_rehash(t)
  <1>1. SameButChains(t, u) /\ IsTable(u) /\ Chains(u, ToSet(s)) BY Rehashed
  <1> HIDE DEF u
  <1>2. In(u) = In(t) /\ SameButSize(t, u) BY <1>1 DEF SameButChains, SameButSize, In
  <1>3. ListIs(u, s) BY <1>1 DEF SameButChains, ListIs
  <1>4. u.key = t.key /\ u.pInternalPointer = t.pInternalPointer BY <1>1 DEF SameButChains
  <1>5. Holds(u, In(t), s) BY <1>1, <1>2, <1>3, <1>4 DEF Holds
  <1> QED BY <1>1, <1>2, <1>5 DEF u

\* ZEND_HASH_IF_FULL_DO_RESIZE, whether it gets the memory or not.
LEMMA Resized ==
  ASSUME NEW t, NEW s, Holds(t, In(t), s), NEW u \in ZEND_HASH_IF_FULL_DO_RESIZE(t)
  PROVE  IsTable(u) /\ Holds(u, In(t), s) /\ In(u) = In(t) /\ SameButSize(t, u)
  <1> DEFINE size == (2 * t.nTableSize) % SizeLimit
             v == [t EXCEPT !.nTableSize = size]
  <1>1. IsTable(t) /\ t \in Table /\ t.nTableSize \in Nat BY DEF Holds, IsTable, Table
  <1>2. \/ u = t
        \/ size > 0 /\ u = zend_hash_rehash(v)
    BY DEF ZEND_HASH_IF_FULL_DO_RESIZE
  <1>3. CASE u = t BY <1>1, <1>3 DEF SameButSize
  <1>4. CASE size > 0 /\ u = zend_hash_rehash(v)
    <2>1. SizeLimit \in Nat \ {0}
      <3>1. Cardinality(Bucket) \in Nat BY HashAssumption, FS_CardinalityType
      <3> QED BY <3>1, HashAssumption
    <2>2. size \in Nat \ {0}
      <3>1. 2 * t.nTableSize \in Int BY <1>1
      <3>2. size \in 0 .. SizeLimit - 1
        <4> HIDE DEF size
        <4>1. \A a \in Int, b \in Nat \ {0} : a % b \in 0 .. b - 1 OBVIOUS
        <4> QED BY <2>1, <3>1, <4>1 DEF size
      <3> QED BY <1>4, <3>2
    <2> HIDE DEF size
    <2>3. v \in Table /\ SameButSize(t, v) BY <1>1, <2>2 DEF Table, SameButSize
    <2>4. In(v) = In(t) /\ ListIs(v, s)
      <3>1. ListIs(t, s) BY DEF Holds
      <3> QED BY <2>3, <3>1 DEF SameButSize, In, ListIs
    <2>5. /\ \A p, q \in In(v) : v.key[p] = v.key[q] => p = q
          /\ v.pInternalPointer \in In(v) \cup {NULL}
      BY <2>3, <2>4 DEF SameButSize, Holds
    <2>6. ToSet(s) = In(v) BY <2>4 DEF Holds
    <2> HIDE DEF v
    <2>7. IsTable(u) /\ Holds(u, In(v), s) /\ In(u) = In(v) /\ SameButSize(v, u)
      BY <1>4, <2>3, <2>4, <2>5, <2>6, HoldsRehashed
    <2>8. SameButSize(t, u) BY <2>3, <2>7 DEF SameButSize
    <2> QED BY <2>4, <2>7, <2>8
  <1> QED BY <1>2, <1>3, <1>4

\* The table u is t with the bucket p, of key k, at the end.
Added(t, u, s, p, k) ==
    /\ IsTable(u) /\ In(u) = In(t) \cup {p} /\ Holds(u, In(u), Append(s, p))
    /\ u.nNumOfElements = (t.nNumOfElements + 1) % SizeLimit /\ u.live = t.live \cup {p}
    /\ u.nNextFreeElement \in Index
    /\ u.pInternalPointer = IF t.pInternalPointer = NULL THEN p ELSE t.pInternalPointer
    /\ \A q \in Bucket \ In(u) : u.pListNext[q] = t.pListNext[q]
    /\ u.key[p] = k /\ \A q \in In(t) : u.key[q] = t.key[q]

\* An insertion puts the element at the end, whether or not the table grows.
LEMMA Inserted ==
  ASSUME NEW t, NEW s, Holds(t, In(t), s), NEW p \in Bucket \ In(t), NEW k \in Key,
         \A q \in In(t) : t.key[q] # k,
         NEW u, LET v == [t EXCEPT !.live = @ \cup {p}, !.key[p] = k,
                                   !.nNextFreeElement = NextFree(@, k)]
                IN  u \in ZEND_HASH_IF_FULL_DO_RESIZE(
                          Count(CONNECT_TO_GLOBAL_DLLIST(CONNECT_TO_BUCKET_DLLIST(v, p), p), 1))
  PROVE  Added(t, u, s, p, k)
  <1> DEFINE n == NextFree(t.nNextFreeElement, k)
             ky == [t.key EXCEPT ![p] = k]
             lv == t.live \cup {p}
             v == [t EXCEPT !.live = lv, !.key = ky, !.nNextFreeElement = n]
             w == CONNECT_TO_GLOBAL_DLLIST(CONNECT_TO_BUCKET_DLLIST(v, p), p)
             x == Count(w, 1)
             S == In(t)
  <1>1. /\ IsTable(t) /\ t \in Table /\ In(t) \subseteq Bucket
        /\ t.pInternalPointer \in S \cup {NULL}
        /\ t.arBuckets \in [0 .. t.nTableSize - 1 -> MaybeBucket]
    BY DEF Holds, IsTable, In
  <1>2. u \in ZEND_HASH_IF_FULL_DO_RESIZE(x)
    <2>1. v = [t EXCEPT !.live = @ \cup {p}, !.key[p] = k,
                        !.nNextFreeElement = NextFree(@, k)]
      BY <1>1 DEF Table
    <2> HIDE DEF v
    <2> QED BY <2>1
  <1>3. n \in Index BY <1>1, NextFreeType DEF Table
  <1>4. ky \in [Bucket -> Key \cup {NULL}] /\ lv \in SUBSET Bucket BY <1>1 DEF Table
  <1>5. ky[p] = k /\ \A q \in Bucket \ {p} : ky[q] = t.key[q] BY <1>1 DEF Table
  <1> HIDE DEF n, ky, lv
  <1>6. /\ v \in Table /\ v.live = lv /\ v.key = ky /\ v.nNextFreeElement = n
        /\ v.nTableSize = t.nTableSize /\ v.arBuckets = t.arBuckets
        /\ v.nNumOfElements = t.nNumOfElements
        /\ v.pListHead = t.pListHead /\ v.pListTail = t.pListTail
        /\ v.pInternalPointer = t.pInternalPointer
        /\ v.pNext = t.pNext /\ v.pLast = t.pLast
        /\ v.pListNext = t.pListNext /\ v.pListLast = t.pListLast
    BY <1>1, <1>3, <1>4 DEF Table
  <1> HIDE DEF v
  <1>7. IsTable(v) BY <1>1, <1>6 DEF IsTable
  <1>8. \A q \in S : v.key[q] = t.key[q] BY <1>1, <1>5, <1>6
  <1>9. Holds(v, S, s) BY <1>1, <1>6, <1>7, <1>8, HoldsFrame
  <1>10. k # NULL BY HashAssumption DEF Key, Index
  <1>11. In(v) = S \cup {p}
    <2>1. \A q \in Bucket : q \in In(v) <=> q \in S \/ q = p BY <1>5, <1>6, <1>10 DEF In
    <2> QED BY <2>1, <1>1 DEF In
  <1>12. p \in In(v) \ S /\ \A q \in S : v.key[q] # v.key[p] BY <1>5, <1>6, <1>8, <1>11
  <1>13. /\ Holds(w, S \cup {p}, Append(s, p))
         /\ w.nNumOfElements = v.nNumOfElements
         /\ w.nNextFreeElement = v.nNextFreeElement /\ w.live = v.live /\ w.key = v.key
         /\ w.pInternalPointer = IF v.pInternalPointer = NULL THEN p
                                 ELSE v.pInternalPointer
         /\ \A q \in Bucket \ (S \cup {p}) : w.pListNext[q] = v.pListNext[q]
    <2> HIDE DEF S
    <2> QED BY <1>9, <1>12, HoldsWith
  <1> HIDE DEF w
  <1>14. IsTable(w) /\ 1 \in Int /\ w.pInternalPointer \in (S \cup {p}) \cup {NULL} BY <1>13 DEF Holds
  <1>15. /\ IsTable(x)
         /\ x.nTableSize = w.nTableSize /\ x.arBuckets = w.arBuckets
         /\ x.nNextFreeElement = w.nNextFreeElement /\ x.live = w.live
         /\ x.pListHead = w.pListHead /\ x.pListTail = w.pListTail
         /\ x.pInternalPointer = w.pInternalPointer
         /\ x.key = w.key /\ x.pNext = w.pNext /\ x.pLast = w.pLast
         /\ x.pListNext = w.pListNext /\ x.pListLast = w.pListLast
         /\ x.nNumOfElements = (w.nNumOfElements + 1) % SizeLimit
    BY <1>14, CountFields
  <1> HIDE DEF x
  <1>16. Holds(x, S \cup {p}, Append(s, p)) BY <1>13, <1>14, <1>15, HoldsFrame
  <1>17. In(x) = S \cup {p} BY <1>11, <1>13, <1>15 DEF In
  <1>18. /\ IsTable(u) /\ Holds(u, S \cup {p}, Append(s, p)) /\ In(u) = S \cup {p}
         /\ SameButSize(x, u)
    BY <1>2, <1>16, <1>17, Resized
  <1>19. u.nNumOfElements = (t.nNumOfElements + 1) % SizeLimit /\ u.live = t.live \cup {p}
    BY <1>6, <1>13, <1>15, <1>18 DEF SameButSize, lv
  <1>20. u.nNextFreeElement \in Index BY <1>3, <1>6, <1>13, <1>15, <1>18 DEF SameButSize
  <1>21. u.pInternalPointer = IF t.pInternalPointer = NULL THEN p ELSE t.pInternalPointer
    BY <1>6, <1>13, <1>15, <1>18 DEF SameButSize
  <1>22. \A q \in Bucket \ In(u) : u.pListNext[q] = t.pListNext[q]
    BY <1>6, <1>13, <1>15, <1>18 DEF SameButSize
  <1>23. u.key[p] = k /\ \A q \in In(t) : u.key[q] = t.key[q]
    BY <1>5, <1>6, <1>8, <1>13, <1>15, <1>18 DEF SameButSize
  <1> QED BY <1>18, <1>19, <1>20, <1>21, <1>22, <1>23 DEF Added

\* A table with no pointers to elements is empty.
LEMMA HoldsNothing ==
  ASSUME NEW t, IsTable(t), \A x \in 0 .. t.nTableSize - 1 : t.arBuckets[x] = NULL,
         t.pListHead = NULL, t.pListTail = NULL, t.pInternalPointer = NULL
  PROVE  Holds(t, {}, <<>>)
  <1>1. ASSUME NEW x \in 0 .. t.nTableSize - 1 PROVE ChainHas(t, x, {}, <<>>)
    BY DllEmpty DEF ChainHas
  <1>2. Chains(t, {}) BY <1>1 DEF Chains
  <1>3. ListIs(t, <<>>) /\ ToSet(<<>>) = {} BY DllEmpty DEF ListIs
  <1> QED BY <1>2, <1>3 DEF Holds

\* zend_hash_clean: nothing is left in the table, and the buckets are still linked.
LEMMA CleanedAll ==
  ASSUME NEW t, NEW s, Holds(t, In(t), s)
  PROVE  LET u == Forget([t EXCEPT
                   !.arBuckets = [x \in DOMAIN @ |-> NULL],
                   !.pListHead = NULL, !.pListTail = NULL, !.pInternalPointer = NULL,
                   !.nNumOfElements = 0, !.nNextFreeElement = 0], ToSet(List(t)))
         IN  /\ IsTable(u) /\ In(u) = {} /\ Holds(u, In(u), <<>>)
             /\ u.nNumOfElements = 0 /\ u.live = t.live /\ u.pListNext = t.pListNext
             /\ u.pInternalPointer = NULL
  <1> DEFINE z == [x \in DOMAIN t.arBuckets |-> NULL]
             v == [t EXCEPT !.arBuckets = z,
                   !.pListHead = NULL, !.pListTail = NULL, !.pInternalPointer = NULL,
                   !.nNumOfElements = 0, !.nNextFreeElement = 0]
             u == Forget(v, In(t))
  <1>1. /\ IsTable(t) /\ t \in Table /\ t.nTableSize \in Nat \ {0}
        /\ t.arBuckets \in [0 .. t.nTableSize - 1 -> MaybeBucket]
    BY DEF Holds, IsTable, Table
  <1>2. ToSet(List(t)) = In(t)
    <2>1. List(t) = s BY <1>1, ListFound DEF Holds
    <2> QED BY <2>1 DEF Holds
  <1>3. z \in [0 .. t.nTableSize - 1 -> MaybeBucket] /\ \A x \in 0 .. t.nTableSize - 1 : z[x] = NULL
    BY <1>1 DEF MaybeBucket
  <1>4. 0 \in Index /\ 0 \in 0 .. SizeLimit - 1 /\ NULL \in MaybeBucket
    <2>1. Cardinality(Bucket) \in Nat BY HashAssumption, FS_CardinalityType
    <2> QED BY <2>1, HashAssumption DEF Index, MaybeBucket
  <1>5. Forget([t EXCEPT
                   !.arBuckets = [x \in DOMAIN @ |-> NULL],
                   !.pListHead = NULL, !.pListTail = NULL, !.pInternalPointer = NULL,
                   !.nNumOfElements = 0, !.nNextFreeElement = 0], ToSet(List(t))) = u
    BY <1>2
  <1> HIDE DEF z
  <1>6. /\ v \in Table /\ v.arBuckets = z /\ v.pListHead = NULL /\ v.pListTail = NULL
        /\ v.pInternalPointer = NULL /\ v.nNumOfElements = 0 /\ v.live = t.live
        /\ v.pListNext = t.pListNext /\ v.nTableSize = t.nTableSize /\ v.key = t.key
    <2>1. z \in UNION {[0 .. n - 1 -> MaybeBucket] : n \in Nat \ {0}} BY <1>1, <1>3
    <2>2. v \in Table BY <1>1, <1>4, <2>1 DEF Table
    <2> QED BY <1>1, <2>2 DEF Table
  <1> HIDE DEF v
  <1>7. IsTable(v) /\ In(t) \in SUBSET Bucket BY <1>3, <1>6 DEF IsTable, In
  <1>8. /\ IsTable(u)
        /\ u.nTableSize = v.nTableSize /\ u.nNumOfElements = v.nNumOfElements
        /\ u.pInternalPointer = v.pInternalPointer
        /\ u.pListHead = v.pListHead /\ u.pListTail = v.pListTail
        /\ u.arBuckets = v.arBuckets /\ u.live = v.live /\ u.pListNext = v.pListNext
        /\ \A q \in Bucket \ In(t) : u.key[q] = v.key[q]
        /\ \A q \in In(t) : u.key[q] = NULL
    BY <1>7, ForgetFields
  <1> HIDE DEF u
  <1>9. In(u) = {} BY <1>6, <1>8 DEF In
  <1>10. Holds(u, {}, <<>>)
    <2>1. \A x \in 0 .. u.nTableSize - 1 : u.arBuckets[x] = NULL BY <1>3, <1>6, <1>8
    <2> QED BY <2>1, <1>6, <1>8, HoldsNothing
  <1>11. Holds(u, In(u), <<>>) BY <1>9, <1>10
  <1> QED BY <1>5, <1>6, <1>8, <1>9, <1>11

\* _zend_hash_init.
LEMMA NewTable ==
  LET u == _zend_hash_init
  IN  /\ IsTable(u) /\ In(u) = {} /\ Holds(u, In(u), <<>>)
      /\ u.nNumOfElements = 0 /\ u.live = {} /\ u.pInternalPointer = NULL
  <1> DEFINE none == [p \in Bucket |-> NULL]
             z == [s \in 0 .. InitSize - 1 |-> NULL]
             u == [nTableSize |-> InitSize, nNumOfElements |-> 0, nNextFreeElement |-> 0,
                   pInternalPointer |-> NULL, pListHead |-> NULL, pListTail |-> NULL,
                   arBuckets |-> z, live |-> {}, key |-> none,
                   pListNext |-> none, pListLast |-> none, pNext |-> none, pLast |-> none]
  <1>1. u = _zend_hash_init BY DEF _zend_hash_init
  <1>2. none \in Ptr /\ none \in [Bucket -> Key \cup {NULL}] /\ \A p \in Bucket : none[p] = NULL
    BY DEF Ptr
  <1>3. z \in [0 .. InitSize - 1 -> MaybeBucket] /\ \A x \in 0 .. InitSize - 1 : z[x] = NULL
    BY DEF MaybeBucket
  <1>4. /\ 0 \in Index /\ 0 \in 0 .. SizeLimit - 1 /\ NULL \in MaybeBucket
        /\ InitSize \in Nat \ {0} /\ {} \in SUBSET Bucket
    <2>1. Cardinality(Bucket) \in Nat BY HashAssumption, FS_CardinalityType
    <2> QED BY <2>1, HashAssumption DEF Index, MaybeBucket
  <1> HIDE DEF none, z
  <1>5. u \in Table
    <2>1. z \in UNION {[0 .. n - 1 -> MaybeBucket] : n \in Nat \ {0}} BY <1>3, <1>4
    <2> QED BY <1>2, <1>4, <2>1 DEF Table
  <1>6. IsTable(u) BY <1>3, <1>5 DEF IsTable
  <1>7. In(u) = {} BY <1>2 DEF In
  <1>8. Holds(u, {}, <<>>)
    <2>1. \A x \in 0 .. u.nTableSize - 1 : u.arBuckets[x] = NULL BY <1>3
    <2>2. u.pListHead = NULL /\ u.pListTail = NULL /\ u.pInternalPointer = NULL OBVIOUS
    <2> HIDE DEF u
    <2> QED BY <2>1, <2>2, <1>6, HoldsNothing
  <1>9. Holds(u, In(u), <<>>) BY <1>7, <1>8
  <1>10. u.nNumOfElements = 0 /\ u.live = {} /\ u.pInternalPointer = NULL OBVIOUS
  <1> QED BY <1>1, <1>6, <1>7, <1>9, <1>10

\* An order of the elements of S.
Order(r, S) ==
    /\ r \in Seq(Bucket) /\ Len(r) \in Nat /\ DOMAIN r = 1 .. Len(r) /\ ToSet(r) = S
    /\ \A i, j \in 1 .. Len(r) : r[i] = r[j] => i = j
    /\ \A i \in 1 .. Len(r) : r[i] \in S

\* Every order that zend_hash_sort may give the elements lists each once.
LEMMA OrderOf ==
  ASSUME NEW S \in SUBSET Bucket, NEW r \in SetToSeqs(S)
  PROVE  Order(r, S)
  <1>1. IsFiniteSet(Bucket) BY HashAssumption
  <1>2. IsFiniteSet(S) /\ Cardinality(S) \in Nat BY <1>1, FS_Subset, FS_CardinalityType
  <1> DEFINE n == Cardinality(S)
             D == 1 .. n
  <1>3. r \in [D -> S] /\ \A i, j \in D : r[i] = r[j] => i = j
    BY DEF SetToSeqs, IsInjective
  <1>4. r \in Injection(D, S)
    <2> HIDE DEF D
    <2> QED BY <1>3 DEF Injection, IsInjective
  <1>5. Cardinality(D) = n BY <1>2, FS_Interval
  <1>6. r \in Surjection(D, S)
    <2> HIDE DEF D, n
    <2> QED BY <1>2, <1>4, <1>5, FS_Injection DEF n
  <1>7. r \in Seq(Bucket) /\ Len(r) = n /\ DOMAIN r = D
    <2>1. r \in [D -> Bucket] BY <1>3
    <2> QED BY <1>2, <2>1
  <1>8. ToSet(r) = S
    <2>1. \A p \in S : \E i \in D : r[i] = p BY <1>6 DEF Surjection
    <2> QED BY <2>1, <1>3, <1>7 DEF ToSet
  <1> QED BY <1>2, <1>3, <1>7, <1>8 DEF Order

\* The place of a bucket in an order.
LEMMA PlaceOf ==
  ASSUME NEW S, NEW r, Order(r, S), NEW i \in 1 .. Len(r)
  PROVE  (CHOOSE j \in 1 .. Len(r) : r[j] = r[i]) = i
  BY DEF Order

\* Relink: the list is the order r.
LEMMA Relinked ==
  ASSUME NEW t, IsTable(t), NEW S, NEW r, Order(r, S), Len(r) # 0, r[1] \in MaybeBucket
  PROVE  LET u == [Relink(t, r) EXCEPT !.pInternalPointer = r[1]]
         IN  /\ IsTable(u) /\ SameButList(t, u) /\ ListIs(u, r) /\ u.pInternalPointer = r[1]
             /\ \A q \in Bucket \ S : u.pListNext[q] = t.pListNext[q]
  <1> DEFINE n == Len(r)
             at(p) == CHOOSE i \in 1 .. n : r[i] = p
             nx(p) == IF at(p) = n THEN NULL ELSE r[at(p) + 1]
             ls(p) == IF at(p) = 1 THEN NULL ELSE r[at(p) - 1]
             f == [p \in Bucket |-> IF p \notin ToSet(r) THEN t.pListNext[p] ELSE nx(p)]
             g == [p \in Bucket |-> IF p \notin ToSet(r) THEN t.pListLast[p] ELSE ls(p)]
             v == [t EXCEPT !.pListHead = r[1], !.pListTail = r[n],
                            !.pListNext = f, !.pListLast = g]
             u == [v EXCEPT !.pInternalPointer = r[1]]
  <1>1. /\ r \in Seq(Bucket) /\ n \in Nat /\ DOMAIN r = 1 .. n /\ ToSet(r) = S
        /\ \A i, j \in 1 .. n : r[i] = r[j] => i = j
        /\ \A i \in 1 .. n : r[i] \in S
        /\ 1 \in 1 .. n /\ n \in 1 .. n
    BY DEF Order
  <1>2. u = [Relink(t, r) EXCEPT !.pInternalPointer = r[1]] BY DEF Relink
  <1>3. \A i \in 1 .. n : at(r[i]) = i BY PlaceOf
  <1>4. S = {r[i] : i \in 1 .. n} /\ S \subseteq Bucket
    <2>1. ToSet(r) = {r[i] : i \in 1 .. n} BY <1>1 DEF ToSet
    <2>2. \A i \in 1 .. n : r[i] \in Bucket BY <1>1
    <2> QED BY <1>1, <2>1, <2>2
  <1> HIDE DEF at
  <1>5. ASSUME NEW i \in 1 .. n
        PROVE  /\ nx(r[i]) = IF i = n THEN NULL ELSE r[i + 1]
               /\ ls(r[i]) = IF i = 1 THEN NULL ELSE r[i - 1]
               /\ nx(r[i]) \in MaybeBucket /\ ls(r[i]) \in MaybeBucket
    <2>0. n \in Nat BY <1>1
    <2>1. i # n => i + 1 \in 1 .. n BY <2>0
    <2>2. i # 1 => i - 1 \in 1 .. n BY <2>0
    <2>3. \A j \in 1 .. n : r[j] \in Bucket BY <1>1
    <2> QED BY <2>1, <2>2, <2>3, <1>3 DEF MaybeBucket
  <1> HIDE DEF nx, ls
  <1>6. f \in Ptr /\ g \in Ptr
    <2>1. t.pListNext \in Ptr /\ t.pListLast \in Ptr BY DEF IsTable, Table
    <2>2. \A p \in S : nx(p) \in MaybeBucket /\ ls(p) \in MaybeBucket BY <1>4, <1>5
    <2> QED BY <1>1, <2>1, <2>2 DEF Ptr, MaybeBucket
  <1>7. \A i \in 1 .. n : /\ f[r[i]] = IF i = n THEN NULL ELSE r[i + 1]
                          /\ g[r[i]] = IF i = 1 THEN NULL ELSE r[i - 1]
    BY <1>1, <1>4, <1>5
  <1>8. \A q \in Bucket \ S : f[q] = t.pListNext[q] BY <1>1
  <1> HIDE DEF f, g
  <1>9. t \in Table /\ r[1] \in MaybeBucket /\ r[n] \in MaybeBucket
    BY <1>1, <1>4 DEF IsTable, MaybeBucket
  <1>10. u \in Table BY <1>6, <1>9 DEF Table
  <1>11. /\ u.pListHead = r[1] /\ u.pListTail = r[n] /\ u.pListNext = f /\ u.pListLast = g
         /\ u.pInternalPointer = r[1] /\ SameButList(t, u)
    BY <1>9 DEF Table, SameButList
  <1> HIDE DEF u
  <1>12. IsTable(u) BY <1>10, <1>11 DEF IsTable, SameButList
  <1>13. Dll(f, g, r[1], r) BY <1>1, <1>7 DEF Dll, Linked
  <1>14. ListIs(u, r) BY <1>1, <1>11, <1>13 DEF ListIs, End
  <1> QED BY <1>2, <1>8, <1>11, <1>12, <1>14

\* The table u is t in the order r.
InOrder(t, u, r) ==
    /\ IsTable(u) /\ In(u) = In(t) /\ Holds(u, In(u), r)
    /\ u.nNumOfElements = t.nNumOfElements /\ u.live = t.live
    /\ u.pInternalPointer = r[1]
    /\ \A q \in Bucket \ In(u) : u.pListNext[q] = t.pListNext[q]

\* zend_hash_sort without renumbering.
LEMMA SortedOne ==
  ASSUME NEW t, NEW s, Holds(t, In(t), s), NEW r, Order(r, In(t)), Len(r) # 0
  PROVE  InOrder(t, Sorted(t, r), r) /\ Sorted(t, r).key = t.key
  <1> DEFINE u == [Relink(t, r) EXCEPT !.pInternalPointer = r[1]]
  <1>1. IsTable(t) /\ In(t) \in SUBSET Bucket /\ Chains(t, In(t)) BY DEF Holds, In
  <1>2. r[1] \in In(t) /\ r[1] \in MaybeBucket BY <1>1 DEF Order, MaybeBucket
  <1>3. /\ IsTable(u) /\ SameButList(t, u) /\ ListIs(u, r) /\ u.pInternalPointer = r[1]
        /\ \A q \in Bucket \ In(t) : u.pListNext[q] = t.pListNext[q]
    BY <1>1, <1>2, Relinked
  <1>4. u = Sorted(t, r) BY DEF Sorted
  <1> HIDE DEF u
  <1>5. In(u) = In(t) /\ u.key = t.key BY <1>3 DEF SameButList, In
  <1>6. Chains(u, In(t))
    <2>1. /\ u.nTableSize = t.nTableSize /\ u.arBuckets = t.arBuckets
          /\ \A q \in In(t) : u.pNext[q] = t.pNext[q] /\ u.pLast[q] = t.pLast[q]
                              /\ u.key[q] = t.key[q]
      BY <1>3 DEF SameButList
    <2> QED BY <2>1, <1>1, ChainsFrame
  <1>7. Holds(u, In(u), r)
    <2>1. \A p, q \in In(u) : u.key[p] = u.key[q] => p = q BY <1>5 DEF Holds
    <2>2. ToSet(r) = In(u) BY <1>5 DEF Order
    <2> QED BY <2>1, <2>2, <1>2, <1>3, <1>5, <1>6 DEF Holds
  <1>8. u.nNumOfElements = t.nNumOfElements /\ u.live = t.live BY <1>3 DEF SameButList
  <1> QED BY <1>3, <1>4, <1>5, <1>7, <1>8 DEF InOrder

\* The keys of the list become the places: v is t then, its chains not yet made anew.
NumberedBy(t, r, v) ==
    /\ v.pListHead = t.pListHead /\ v.pListTail = t.pListTail
    /\ v.pListNext = t.pListNext /\ v.pListLast = t.pListLast
    /\ v.nNumOfElements = t.nNumOfElements /\ v.live = t.live
    /\ v.pInternalPointer = t.pInternalPointer
    /\ In(v) = In(t) \cup ToSet(r) /\ ListIs(v, r)
    /\ \A i \in 1 .. Len(r) : v.key[r[i]] = i - 1

LEMMA Numbered ==
  ASSUME NEW t, IsTable(t), NEW r, ListIs(t, r)
  PROVE  \E v \in Table : Renumber(t, r) = zend_hash_rehash(v) /\ NumberedBy(t, r, v)
  <1> DEFINE n == Len(r)
             at(p) == CHOOSE i \in 1 .. n : r[i] = p
             ky == [p \in Bucket |-> IF p \in ToSet(r) THEN at(p) - 1 ELSE t.key[p]]
             v == [t EXCEPT !.nNextFreeElement = n, !.key = ky]
  <1>1. t \in Table BY DEF IsTable
  <1>2. Dll(t.pListNext, t.pListLast, t.pListHead, r) /\ Linked(t.pListNext, t.pListHead, r)
    BY DEF ListIs, Dll
  <1>3. /\ r \in Seq(Bucket) /\ n \in Nat /\ DOMAIN r = 1 .. n
        /\ ToSet(r) = {r[i] : i \in 1 .. n} /\ ToSet(r) \subseteq Bucket
    BY <1>2, DllType
  <1>4. \A i, j \in 1 .. n : r[i] = r[j] => i = j BY <1>2 DEF Linked
  <1>5. n <= NB /\ NB \in Nat /\ NB <= LongMax /\ LongMax \in Nat
    <2>1. n <= NB BY <1>2, LinkedLen
    <2>2. NB \in Nat BY HashAssumption, FS_CardinalityType DEF NB
    <2> QED BY <2>1, <2>2, HashAssumption DEF NB
  <1>6. \A i \in 1 .. n : at(r[i]) = i BY <1>4
  <1>7. Renumber(t, r) = zend_hash_rehash(v) BY <1>3 DEF Renumber
  <1> HIDE DEF at
  <1>8. n \in Index /\ \A i \in 1 .. n : i - 1 \in Index
    <2>1. n \in Nat BY <1>3
    <2> HIDE DEF n
    <2> QED BY <2>1, <1>5 DEF Index
  <1>9. ky \in [Bucket -> Key \cup {NULL}]
    <2>1. \A p \in ToSet(r) : at(p) - 1 \in Index BY <1>3, <1>6, <1>8
    <2>2. t.key \in [Bucket -> Key \cup {NULL}] BY <1>1 DEF Table
    <2> QED BY <2>1, <2>2 DEF Key
  <1>10. /\ \A i \in 1 .. n : ky[r[i]] = i - 1
         /\ \A p \in Bucket \ ToSet(r) : ky[p] = t.key[p]
    BY <1>3, <1>6
  <1> HIDE DEF ky, n
  <1>11. v \in Table BY <1>1, <1>8, <1>9 DEF Table
  <1>12. /\ v.key = ky /\ v.pListHead = t.pListHead /\ v.pListTail = t.pListTail
         /\ v.pListNext = t.pListNext /\ v.pListLast = t.pListLast
         /\ v.nNumOfElements = t.nNumOfElements /\ v.live = t.live
         /\ v.pInternalPointer = t.pInternalPointer
    BY <1>1 DEF Table
  <1> HIDE DEF v
  <1>13. ListIs(v, r) BY <1>12 DEF ListIs
  <1>14. In(v) = In(t) \cup ToSet(r)
    <2>1. \A i \in 1 .. n : i - 1 # NULL BY <1>8, HashAssumption DEF Index
    <2>2. \A p \in ToSet(r) : \E i \in 1 .. n : p = r[i] BY <1>3 DEF n
    <2>3. \A p \in ToSet(r) : ky[p] # NULL BY <2>1, <2>2, <1>10
    <2> QED BY <2>3, <1>3, <1>10, <1>12 DEF In
  <1>15. \A i \in 1 .. n : v.key[r[i]] = i - 1 BY <1>10, <1>12
  <1> QED BY <1>7, <1>11, <1>12, <1>13, <1>14, <1>15 DEF n, NumberedBy

\* ... and after it.
LEMMA Renumbered ==
  ASSUME NEW t, NEW r, Holds(t, In(t), r), Len(r) # 0, t.pInternalPointer = r[1]
  PROVE  /\ InOrder(t, Renumber(t, r), r)
         /\ \A i \in 1 .. Len(r) : Renumber(t, r).key[r[i]] = i - 1
  <1> DEFINE u == Renumber(t, r)
             S == In(t)
  <1>1. /\ IsTable(t) /\ ListIs(t, r) /\ ToSet(r) = S /\ t.pInternalPointer \in S \cup {NULL}
        /\ ToSet(r) = {r[i] : i \in 1 .. Len(r)}
    BY DllType DEF Holds, ListIs
  <1>2. PICK v \in Table : Renumber(t, r) = zend_hash_rehash(v) /\ NumberedBy(t, r, v)
    BY <1>1, Numbered
  <1> HIDE DEF u
  <1>3. /\ In(v) = S /\ ListIs(v, r)
        /\ \A i \in 1 .. Len(r) : v.key[r[i]] = i - 1
    BY <1>1, <1>2 DEF NumberedBy
  <1>4. \A p, q \in In(v) : v.key[p] = v.key[q] => p = q
    <2> SUFFICES ASSUME NEW p \in S, NEW q \in S, v.key[p] = v.key[q] PROVE p = q
      BY <1>3
    <2>1. PICK i \in 1 .. Len(r) : p = r[i] BY <1>1
    <2>2. PICK j \in 1 .. Len(r) : q = r[j] BY <1>1
    <2>3. i - 1 = j - 1 BY <2>1, <2>2, <1>3
    <2>4. i = j BY <2>3
    <2> QED BY <2>1, <2>2, <2>4
  <1>5. IsTable(u) /\ Holds(u, In(v), r) /\ In(u) = In(v) /\ SameButSize(v, u)
    <2>1. ToSet(r) = In(v) /\ v.pInternalPointer \in In(v) \cup {NULL}
      BY <1>1, <1>2, <1>3 DEF NumberedBy
    <2>2. u = zend_hash_rehash(v) BY <1>2 DEF u
    <2> QED BY <2>1, <2>2, <1>3, <1>4, HoldsRehashed
  <1>6. InOrder(t, u, r) BY <1>2, <1>3, <1>5 DEF InOrder, SameButSize, NumberedBy
  <1>7. \A i \in 1 .. Len(r) : u.key[r[i]] = i - 1 BY <1>3, <1>5 DEF SameButSize, NumberedBy
  <1> QED BY <1>6, <1>7 DEF u

\* What TypeOK says of a table.
Tabular(t) ==
    /\ t.live \subseteq Bucket /\ t.nNextFreeElement \in Index
    /\ t.nNumOfElements \in 0 .. SizeLimit - 1
    /\ {t.pListHead, t.pListTail, t.pInternalPointer} \subseteq t.live \cup {NULL}
    /\ t.arBuckets \in [0 .. t.nTableSize - 1 -> t.live \cup {NULL}]
    /\ t.key \in [Bucket -> Key \cup {NULL}]

\* A table with chains of live buckets.
LEMMA ChainsTabular ==
  ASSUME NEW t, IsTable(t), NEW S, Chains(t, S), S \subseteq t.live,
         {t.pListHead, t.pListTail, t.pInternalPointer} \subseteq t.live \cup {NULL}
  PROVE  Tabular(t)
  <1>1. ASSUME NEW x \in 0 .. t.nTableSize - 1
        PROVE  t.arBuckets[x] \in t.live \cup {NULL}
    <2>1. PICK c : ChainHas(t, x, S, c) BY DEF Chains
    <2>2. Dll(t.pNext, t.pLast, t.arBuckets[x], c) /\ ToSet(c) \subseteq S BY <2>1 DEF ChainHas
    <2>3. t.arBuckets[x] \in ToSet(c) \cup {NULL} BY <2>2, DllType
    <2> QED BY <2>2, <2>3
  <1>2. t.arBuckets \in [0 .. t.nTableSize - 1 -> MaybeBucket] BY DEF IsTable
  <1>3. t.arBuckets \in [0 .. t.nTableSize - 1 -> t.live \cup {NULL}] BY <1>1, <1>2
  <1> QED BY <1>3 DEF Tabular, IsTable, Table

\* zend_hash_sort of a part of the elements: the list is torn, and holds together.
LEMMA TornTable ==
  ASSUME NEW t, NEW c, Holds(t, In(t), c), In(t) \subseteq t.live, NEW S \in SUBSET In(t),
         NEW s, Order(s, S), Len(s) # 0,
         NEW u \in {Sorted(t, s), Renumber(Sorted(t, s), s)}
  PROVE  Tabular(u) /\ u.live = t.live
  <1> DEFINE w == Sorted(t, s)
  <1>1. IsTable(t) /\ Chains(t, In(t)) /\ In(t) \subseteq Bucket BY DEF Holds, In
  <1>2. s[1] \in S /\ s[1] \in MaybeBucket BY <1>1 DEF Order, MaybeBucket
  <1>3. /\ IsTable(w) /\ SameButList(t, w) /\ ListIs(w, s) /\ w.pInternalPointer = s[1]
    BY <1>1, <1>2, Relinked DEF Sorted
  <1> HIDE DEF w
  <1>4. ToSet(s) = S BY DEF Order
  <1>5. w.live = t.live /\ {w.pListHead, w.pListTail, w.pInternalPointer} \subseteq w.live \cup {NULL}
    <2>1. w.live = t.live BY <1>3 DEF SameButList
    <2>2. w.pListHead \in S \cup {NULL} /\ w.pListTail \in S \cup {NULL}
      BY <1>3, <1>4, DllType DEF ListIs
    <2> QED BY <2>1, <2>2, <1>2, <1>3
  <1>6. CASE u = w
    <2>1. Chains(w, In(t))
      <3>1. /\ w.nTableSize = t.nTableSize /\ w.arBuckets = t.arBuckets
            /\ \A q \in In(t) : w.pNext[q] = t.pNext[q] /\ w.pLast[q] = t.pLast[q]
                                /\ w.key[q] = t.key[q]
        BY <1>3 DEF SameButList
      <3> QED BY <3>1, <1>1, ChainsFrame
    <2> QED BY <2>1, <1>3, <1>5, <1>6, ChainsTabular
  <1>7. CASE u = Renumber(w, s)
    <2>1. PICK v \in Table : u = zend_hash_rehash(v) /\ NumberedBy(w, s, v)
      BY <1>3, <1>7, Numbered
    <2>2. SameButChains(v, u) /\ IsTable(u) /\ Chains(u, S) BY <2>1, <1>4, Rehashed DEF NumberedBy
    <2>3. u.live = t.live /\ {u.pListHead, u.pListTail, u.pInternalPointer} \subseteq u.live \cup {NULL}
      BY <2>1, <2>2, <1>5 DEF SameButChains, NumberedBy
    <2> QED BY <2>2, <2>3, ChainsTabular
  <1> QED BY <1>6, <1>7 DEF w

\* The element that is not yet in a chain is put into the one of its key.
LEMMA ConnectLast ==
  ASSUME NEW w, IsTable(w), NEW r, ListIs(w, r), ToSet(r) = In(w), NEW b \in In(w),
         Chains(w, In(w) \ {b}), \A p, q \in In(w) : w.key[p] = w.key[q] => p = q,
         w.pInternalPointer \in In(w) \cup {NULL}
  PROVE  LET u == CONNECT_TO_BUCKET_DLLIST(w, b)
         IN  IsTable(u) /\ In(u) = In(w) /\ Holds(u, In(u), r) /\ SameButChains(w, u)
  <1> DEFINE u == CONNECT_TO_BUCKET_DLLIST(w, b)
             S == In(w) \ {b}
  <1>1. b \in Bucket /\ w.key[b] \in Key /\ S \in SUBSET Bucket /\ b \in Bucket \ S /\ S \cup {b} = In(w)
    BY KeyOf DEF In
  <1>2. SameButChains(w, u) /\ IsTable(u) BY <1>1, ConnectFields
  <1>3. Chains(u, S \cup {b})
    <2> HIDE DEF S
    <2>1. Chains(w, S) BY DEF S
    <2> QED BY <2>1, <1>1, ConnectChains
  <1> HIDE DEF u
  <1>4. In(u) = In(w) /\ ListIs(u, r) /\ u.key = w.key /\ u.pInternalPointer = w.pInternalPointer
    BY <1>2 DEF SameButChains, In, ListIs
  <1>5. Holds(u, In(u), r) BY <1>1, <1>2, <1>3, <1>4 DEF Holds
  <1> QED BY <1>2, <1>4, <1>5 DEF u

\* In u the bucket b is where p was in t, and r is the list s with b for p.
BucketReplaced(t, u, s, p, b, r) ==
    /\ IsTable(u) /\ ListIs(u, r) /\ ToSet(r) = (ToSet(s) \ {p}) \cup {b}
    /\ u.nTableSize = t.nTableSize /\ u.arBuckets = t.arBuckets
    /\ u.nNumOfElements = t.nNumOfElements
    /\ u.live = (t.live \cup {b}) \ {p} /\ u.key[p] = NULL
    /\ u.pInternalPointer = IF t.pInternalPointer = p THEN b ELSE t.pInternalPointer
    /\ \A q \in Bucket \ {p} : /\ u.key[q] = t.key[q] /\ u.pNext[q] = t.pNext[q]
                               /\ u.pLast[q] = t.pLast[q]

\* The bucket of an element, out of its chain, is replaced by another one.
LEMMA Replaced ==
  ASSUME NEW t, IsTable(t), NEW s, ListIs(t, s), NEW i \in 1 .. Len(s),
         NEW b \in Bucket \ ToSet(s)
  PROVE  BucketReplaced(t, Replace(t, s[i], b), s, s[i], b, [s EXCEPT ![i] = b])
  <1> DEFINE p == s[i]
             n == t.pListNext[p]
             l == t.pListLast[p]
             f == Set([t.pListNext EXCEPT ![b] = n], l, b)
             g == Set([t.pListLast EXCEPT ![b] = l], n, b)
             tl == IF n = NULL THEN b ELSE t.pListTail
             hd == IF l = NULL THEN b ELSE t.pListHead
             c == IF t.pInternalPointer = p THEN b ELSE t.pInternalPointer
             lv == t.live \cup {b}
             a == [t EXCEPT !.live = lv, !.pListNext = f, !.pListLast = g,
                            !.pListTail = tl, !.pListHead = hd, !.pInternalPointer = c]
             u == pefree(a, p)
             r == [s EXCEPT ![i] = b]
  <1>1. Dll(t.pListNext, t.pListLast, t.pListHead, s) /\ t.pListTail = End(s) BY DEF ListIs
  <1>2. /\ t \in Table /\ t.arBuckets \in [0 .. t.nTableSize - 1 -> MaybeBucket]
        /\ t.pListNext \in Ptr /\ t.pListLast \in Ptr /\ t.live \subseteq Bucket
        /\ t.pInternalPointer \in MaybeBucket /\ t.pListHead \in MaybeBucket /\ t.pListTail \in MaybeBucket
    BY DEF IsTable, Table
  <1>3. /\ s \in Seq(Bucket) /\ Len(s) \in Nat /\ ToSet(s) = {s[j] : j \in 1 .. Len(s)}
        /\ ToSet(s) \subseteq Bucket /\ p \in ToSet(s) /\ p \in Bucket /\ p # b /\ b # NULL
        /\ n \in ToSet(s) \cup {NULL} /\ l \in ToSet(s) \cup {NULL}
        /\ (n = NULL <=> p = End(s)) /\ (l = NULL <=> p = t.pListHead)
    <2>1. /\ s \in Seq(Bucket) /\ Len(s) \in Nat /\ ToSet(s) = {s[j] : j \in 1 .. Len(s)}
          /\ ToSet(s) \subseteq Bucket
      BY <1>1, DllType
    <2>2. p \in ToSet(s) /\ p \in Bucket BY <2>1
    <2>3. /\ n \in ToSet(s) \cup {NULL} /\ l \in ToSet(s) \cup {NULL}
          /\ (n = NULL <=> p = End(s)) /\ (l = NULL <=> p = t.pListHead)
      BY <1>1, <2>2, DllType
    <2> QED BY <2>1, <2>2, <2>3, HashAssumption
  <1>4. Replace(t, p, b) = u BY DEF Replace
  <1>p. p = s[i] OBVIOUS
  <1> HIDE DEF n, l, p
  <1>5. f \in Ptr /\ g \in Ptr
    <2>1. n \in MaybeBucket /\ l \in MaybeBucket BY <1>3 DEF MaybeBucket
    <2> QED BY <1>2, <1>3, <2>1 DEF Ptr, Set, MaybeBucket
  <1>6. /\ f[b] = n /\ g[b] = l
        /\ \A q \in ToSet(s) \ {p} : /\ f[q] = IF q = l THEN b ELSE t.pListNext[q]
                                     /\ g[q] = IF q = n THEN b ELSE t.pListLast[q]
    <2>1. NULL \notin Bucket BY HashAssumption
    <2>2. l # b /\ n # b /\ l \in Bucket \cup {NULL} /\ n \in Bucket \cup {NULL} BY <1>3
    <2>3. \A q \in Bucket \ {b} : f[q] = IF q = l THEN b ELSE t.pListNext[q]
      BY <1>2, <2>1, <2>2 DEF Ptr, Set
    <2>4. \A q \in Bucket \ {b} : g[q] = IF q = n THEN b ELSE t.pListLast[q]
      BY <1>2, <2>1, <2>2 DEF Ptr, Set
    <2>5. f[b] = n /\ g[b] = l BY <1>2, <2>1, <2>2 DEF Ptr, Set
    <2> HIDE DEF f, g
    <2> QED BY <1>3, <2>3, <2>4, <2>5
  <1>7. tl \in MaybeBucket /\ hd \in MaybeBucket /\ c \in MaybeBucket /\ lv \in SUBSET Bucket
    BY <1>2, <1>3 DEF MaybeBucket
  <1>8. hd = IF t.pListHead = p THEN b ELSE t.pListHead BY <1>3
  <1>9. tl = IF End(s) = p THEN b ELSE End(s) BY <1>1, <1>3
  <1> HIDE DEF f, g, tl, hd, c, lv
  <1>10. Dll(f, g, hd, r) /\ ToSet(r) = (ToSet(s) \ {p}) \cup {b}
         /\ End(r) = IF End(s) = p THEN b ELSE End(s)
    <2>1. b \in Bucket \ ToSet(s) OBVIOUS
    <2>2. SwapIn(t.pListNext, t.pListLast, t.pListHead, s, p, b, f, g, hd)
      BY <1>6, <1>8 DEF n, l, SwapIn
    <2>4. Dll(t.pListNext, t.pListLast, t.pListHead, s) BY <1>1
    <2>5. Swapped(f, g, hd, s, p, b, r) BY <1>p, <2>1, <2>2, <2>4, DllSwap
    <2> HIDE DEF r
    <2> QED BY <2>5 DEF Swapped
  <1> HIDE DEF r
  <1>11. a \in Table BY <1>2, <1>5, <1>7 DEF Table
  <1>12. /\ a.pListNext = f /\ a.pListLast = g /\ a.pListHead = hd /\ a.pListTail = tl
         /\ a.pInternalPointer = c /\ a.live = lv /\ a.key = t.key /\ a.pNext = t.pNext
         /\ a.pLast = t.pLast /\ a.nTableSize = t.nTableSize /\ a.arBuckets = t.arBuckets
         /\ a.nNumOfElements = t.nNumOfElements
    BY <1>2 DEF Table
  <1> HIDE DEF a
  <1>13. IsTable(a) /\ ListIs(a, r) BY <1>2, <1>9, <1>10, <1>11, <1>12 DEF IsTable, ListIs
  <1>14. /\ IsTable(u)
         /\ u.nTableSize = a.nTableSize /\ u.arBuckets = a.arBuckets
         /\ u.nNumOfElements = a.nNumOfElements
         /\ u.pListHead = a.pListHead /\ u.pListTail = a.pListTail
         /\ u.pInternalPointer = a.pInternalPointer
         /\ u.live = a.live \ {p} /\ u.key[p] = NULL
         /\ \A q \in Bucket \ {p} :
               /\ u.key[q] = a.key[q] /\ u.pNext[q] = a.pNext[q]
               /\ u.pLast[q] = a.pLast[q] /\ u.pListLast[q] = a.pListLast[q]
               /\ u.pListNext[q] = a.pListNext[q]
    <2>1. p \in Bucket BY <1>3
    <2>2. IsTable(a) BY <1>13
    <2>3. BucketFreed(a, u, p) BY <2>1, <2>2, FreeFields
    <2> HIDE DEF u
    <2> QED BY <2>3 DEF BucketFreed
  <1> HIDE DEF u
  <1>15. ToSet(r) \subseteq Bucket \ {p} BY <1>3, <1>10
  <1>16. ListIs(u, r) BY <1>13, <1>14, <1>15, ListFrame
  <1>17. u.live = (t.live \cup {b}) \ {p} BY <1>12, <1>14 DEF lv
  <1>18. u.pInternalPointer = IF t.pInternalPointer = p THEN b ELSE t.pInternalPointer
    BY <1>12, <1>14 DEF c
  <1>19. BucketReplaced(t, u, s, p, b, r)
    BY <1>10, <1>12, <1>14, <1>16, <1>17, <1>18 DEF BucketReplaced
  <1> QED BY <1>4, <1>19 DEF p, r

\* In u the element of p has the key k, in the bucket b.
Rekeyed(t, u, s, p, b, k, r) ==
    /\ IsTable(u) /\ In(u) = (In(t) \ {p}) \cup {b} /\ Holds(u, In(u), r)
    /\ u.nNumOfElements = t.nNumOfElements /\ u.live = (t.live \ {p}) \cup {b}
    /\ u.pInternalPointer = IF t.pInternalPointer = p THEN b ELSE t.pInternalPointer
    /\ u.key[b] = k /\ \A q \in In(t) \ {p} : u.key[q] = t.key[q]

\* Rekey before the element is in its new chain.
Rebucketed(t, p, b, v) ==
    v = LET w == Unchain(t, p, t.pLast[p] = NULL)
        IN  IF b = p THEN w ELSE Replace(w, p, b)

\* Rekey gives the element its new key at its old place in the list.
LEMMA RekeyedOne ==
  ASSUME NEW t, NEW s, Holds(t, In(t), s), In(t) \subseteq t.live, NEW i \in 1 .. Len(s),
         NEW k \in Key, \A q \in In(t) : t.key[q] # k,
         NEW b \in {s[i]} \cup (Bucket \ t.live),
         NEW v, Rebucketed(t, s[i], b, v)
  PROVE  Rekeyed(t, CONNECT_TO_BUCKET_DLLIST([v EXCEPT !.key[b] = k], b), s, s[i], b, k,
                 [s EXCEPT ![i] = b])
  <1> DEFINE p == s[i]
             first == t.pLast[p] = NULL
             a == Unchain(t, p, first)
             r == [s EXCEPT ![i] = b]
             ky == [v.key EXCEPT ![b] = k]
             w == [v EXCEPT !.key = ky]
             u == CONNECT_TO_BUCKET_DLLIST(w, b)
             S == In(t)
             c == IF t.pInternalPointer = p THEN b ELSE t.pInternalPointer
  <1>1. /\ IsTable(t) /\ S \in SUBSET Bucket /\ Chains(t, S) /\ ListIs(t, s) /\ ToSet(s) = S
        /\ t.pInternalPointer \in S \cup {NULL} /\ t.live \subseteq Bucket
        /\ \A x, y \in S : t.key[x] = t.key[y] => x = y
    BY DEF Holds, In, IsTable, Table
  <1>2. /\ s \in Seq(Bucket) /\ Len(s) \in Nat /\ DOMAIN s = 1 .. Len(s)
        /\ ToSet(s) = {s[j] : j \in 1 .. Len(s)}
    BY <1>1, DllType DEF ListIs
  <1>3. p \in S BY <1>1, <1>2
  <1>4. p \in Bucket /\ t.key[p] \in Key /\ p # NULL BY <1>1, <1>3, KeyOf
  <1>5. first \in BOOLEAN /\ (first <=> t.pLast[p] = NULL) OBVIOUS
  <1>6. v = IF b = p THEN a ELSE Replace(a, p, b) BY DEF Rebucketed
  <1>p. p = s[i] OBVIOUS
  <1> HIDE DEF first, p
  <1>7. SameButChains(t, a) /\ IsTable(a) BY <1>1, <1>4, <1>5, UnchainFields
  <1>8. Chains(a, S \ {p}) BY <1>1, <1>3, <1>4, <1>5, UnchainChains
  <1> HIDE DEF a
  <1>9. ListIs(a, s) BY <1>1, <1>7 DEF SameButChains, ListIs
  <1>10. b \in Bucket /\ (b = p \/ b \notin S) BY <1>4, <1>p
  \* What both cases have in common.
  <1>11. /\ IsTable(v) /\ ListIs(v, r) /\ ToSet(r) = (S \ {p}) \cup {b}
         /\ v.nTableSize = a.nTableSize /\ v.arBuckets = a.arBuckets
         /\ v.nNumOfElements = t.nNumOfElements
         /\ v.live = (t.live \ {p}) \cup {b}
         /\ v.pInternalPointer = c
         /\ \A q \in S \ {p} : /\ v.key[q] = t.key[q] /\ v.pNext[q] = a.pNext[q]
                               /\ v.pLast[q] = a.pLast[q]
         /\ \A q \in Bucket \ (S \cup {b}) : v.key[q] = NULL
         /\ b # p => v.key[p] = NULL
    <2>1. CASE b = p
      <3>1. r = s BY <2>1, <1>2, <1>p
      <3>2. v = a BY <2>1, <1>6
      <3>3. ToSet(r) = (S \ {p}) \cup {b} BY <1>1, <1>3, <2>1, <3>1
      <3>4. v.live = (t.live \ {p}) \cup {b} BY <1>3, <1>7, <2>1, <3>2 DEF SameButChains
      <3>5. v.pInternalPointer = c BY <1>7, <2>1, <3>2 DEF SameButChains
      <3>6. \A q \in Bucket \ (S \cup {b}) : v.key[q] = NULL BY <1>7, <3>2 DEF SameButChains, In
      <3> HIDE DEF r, c
      <3> QED BY <1>7, <1>9, <2>1, <3>1, <3>2, <3>3, <3>4, <3>5, <3>6 DEF SameButChains
    <2>2. CASE b # p
      <3>1. v = Replace(a, p, b) BY <2>2, <1>6
      <3>2. b \in Bucket \ ToSet(s) BY <1>1, <1>10, <2>2
      <3>3. BucketReplaced(a, v, s, p, b, r) BY <1>7, <1>9, <1>p, <3>1, <3>2, Replaced
      <3> HIDE DEF r
      <3>4. /\ IsTable(v) /\ ListIs(v, r) /\ ToSet(r) = (S \ {p}) \cup {b}
            /\ v.nTableSize = a.nTableSize /\ v.arBuckets = a.arBuckets
            /\ v.nNumOfElements = a.nNumOfElements
            /\ v.live = (a.live \cup {b}) \ {p} /\ v.key[p] = NULL
            /\ v.pInternalPointer = IF a.pInternalPointer = p THEN b ELSE a.pInternalPointer
            /\ \A q \in Bucket \ {p} : /\ v.key[q] = a.key[q] /\ v.pNext[q] = a.pNext[q]
                                       /\ v.pLast[q] = a.pLast[q]
        BY <3>3, <1>1 DEF BucketReplaced
      <3>5. a.live = t.live /\ a.key = t.key /\ a.pInternalPointer = t.pInternalPointer
            /\ a.nNumOfElements = t.nNumOfElements
        BY <1>7 DEF SameButChains
      <3>6. v.live = (t.live \ {p}) \cup {b} BY <3>4, <3>5, <2>2
      <3>7. \A q \in Bucket \ (S \cup {b}) : v.key[q] = NULL
        BY <1>3, <3>4, <3>5 DEF In
      <3>8. v.pInternalPointer = c BY <3>4, <3>5
      <3>9. \A q \in S \ {p} : v.key[q] = t.key[q] /\ v.pNext[q] = a.pNext[q] /\ v.pLast[q] = a.pLast[q]
        BY <1>1, <3>4, <3>5
      <3> HIDE DEF c
      <3> QED BY <3>4, <3>5, <3>6, <3>7, <3>8, <3>9
    <2> QED BY <2>1, <2>2
  <1> HIDE DEF r, c
  <1>a. IsTable(v) /\ ListIs(v, r) /\ ToSet(r) = (S \ {p}) \cup {b} BY <1>11
  <1>b. /\ v.nTableSize = a.nTableSize /\ v.arBuckets = a.arBuckets
        /\ v.nNumOfElements = t.nNumOfElements
        /\ v.live = (t.live \ {p}) \cup {b} /\ v.pInternalPointer = c
    BY <1>11
  <1>c. \A q \in S \ {p} : v.key[q] = t.key[q] BY <1>11
  <1>d. \A q \in S \ {p} : v.pNext[q] = a.pNext[q] /\ v.pLast[q] = a.pLast[q] BY <1>11
  <1>e. (\A q \in Bucket \ (S \cup {b}) : v.key[q] = NULL) /\ (b # p => v.key[p] = NULL) BY <1>11
  <1>12. c \in ((S \ {p}) \cup {b}) \cup {NULL} BY <1>1 DEF c
  <1>13. v \in Table /\ v.arBuckets \in [0 .. v.nTableSize - 1 -> MaybeBucket]
         /\ v.key \in [Bucket -> Key \cup {NULL}]
    BY <1>a DEF IsTable, Table
  <1>14. ky \in [Bucket -> Key \cup {NULL}] /\ ky[b] = k /\ \A q \in Bucket \ {b} : ky[q] = v.key[q]
    BY <1>10, <1>13
  <1>15. [v EXCEPT !.key[b] = k] = w BY <1>13 DEF Table
  <1> HIDE DEF ky
  <1>16. w \in Table BY <1>13, <1>14 DEF Table
  <1>17. /\ w.key = ky /\ w.nTableSize = v.nTableSize /\ w.arBuckets = v.arBuckets
         /\ w.nNumOfElements = v.nNumOfElements /\ w.live = v.live
         /\ w.pInternalPointer = v.pInternalPointer /\ w.pListHead = v.pListHead
         /\ w.pListTail = v.pListTail /\ w.pListNext = v.pListNext /\ w.pListLast = v.pListLast
         /\ w.pNext = v.pNext /\ w.pLast = v.pLast
    BY <1>13 DEF Table
  <1> HIDE DEF w
  <1>18. IsTable(w) /\ ListIs(w, r)
    <2>1. ListIs(v, r) BY <1>a
    <2> QED BY <2>1, <1>13, <1>16, <1>17 DEF IsTable, ListIs
  <1>19. k # NULL BY HashAssumption DEF Key, Index
  <1>20. \A q \in S \ {p} : q # b /\ w.key[q] = t.key[q]
    <2> TAKE q \in S \ {p}
    <2>1. q \in Bucket /\ q # b BY <1>1, <1>10
    <2> QED BY <2>1, <1>c, <1>14, <1>17
  <1>21. In(w) = (S \ {p}) \cup {b}
    <2>1. \A q \in S \ {p} : w.key[q] # NULL BY <1>20 DEF In
    <2>2. w.key[b] # NULL BY <1>14, <1>17, <1>19
    <2>3. \A q \in Bucket \ ((S \ {p}) \cup {b}) : w.key[q] = NULL BY <1>e, <1>14, <1>17
    <2> QED BY <2>1, <2>2, <2>3, <1>1, <1>10 DEF In
  <1>22. \A x, y \in In(w) : w.key[x] = w.key[y] => x = y
    BY <1>1, <1>14, <1>17, <1>20, <1>21
  <1>23. In(w) \ {b} = S \ {p} BY <1>20, <1>21
  <1>24. Chains(w, In(w) \ {b})
    <2>1. S \ {p} \in SUBSET Bucket BY <1>1
    <2>2. \A q \in S \ {p} : w.pNext[q] = a.pNext[q] /\ w.pLast[q] = a.pLast[q] /\ w.key[q] = a.key[q]
      BY <1>7, <1>d, <1>17, <1>20 DEF SameButChains
    <2>3. Chains(w, S \ {p}) BY <1>8, <1>b, <1>17, <2>1, <2>2, ChainsFrame
    <2> QED BY <2>3, <1>23
  <1>25. b \in In(w) /\ ToSet(r) = In(w) /\ w.pInternalPointer \in In(w) \cup {NULL}
    BY <1>a, <1>b, <1>12, <1>17, <1>21
  <1>26. IsTable(u) /\ In(u) = In(w) /\ Holds(u, In(u), r) /\ SameButChains(w, u)
    BY <1>18, <1>22, <1>24, <1>25, ConnectLast
  <1> HIDE DEF u
  <1>27. u.key = w.key /\ u.live = w.live /\ u.pInternalPointer = w.pInternalPointer
         /\ u.nNumOfElements = w.nNumOfElements
    BY <1>26 DEF SameButChains
  <1>28. Rekeyed(t, u, s, p, b, k, r)
    <2>1. u.key[b] = k /\ \A q \in S \ {p} : u.key[q] = t.key[q] BY <1>14, <1>17, <1>20, <1>27
    <2>2. u.pInternalPointer = IF t.pInternalPointer = p THEN b ELSE t.pInternalPointer
      BY <1>b, <1>17, <1>27 DEF c
    <2>3. u.nNumOfElements = t.nNumOfElements /\ u.live = (t.live \ {p}) \cup {b}
      BY <1>b, <1>17, <1>27
    <2>4. IsTable(u) /\ In(u) = (S \ {p}) \cup {b} /\ Holds(u, In(u), r) BY <1>21, <1>26
    <2> QED BY <2>1, <2>2, <2>3, <2>4 DEF Rekeyed
  <1> QED BY <1>15, <1>28 DEF u, r, p

-----------------------------------------------------------------------------
(***************************************************************************)
(* The invariant.                                                          *)
(***************************************************************************)
Off(f) == IF f.op = "del" THEN 1 ELSE 0

\* nNumOfElements is n but for the o deletions that are counted off all the same.
Wrap(n) == IF n >= 0 THEN n ELSE n + SizeLimit
Counted(t, n, o) == o \in 0 .. NB /\ t.nNumOfElements = Wrap(n - o)

\* The table is sound, every bucket is in the table or waits to be freed by one
\* call, and the count is right.
Whole(t, st, o) ==
    /\ IsTable(t) /\ (\E s : Holds(t, In(t), s)) /\ StackOK(t, st)
    /\ t.live = In(t) \cup Owned(t, st)
    /\ Counted(t, Cardinality(In(t)) + Cardinality(Del(st)), o)

\* The same, with the innermost call on its own.
WholeTop(t, f, r, o) ==
    /\ IsTable(t) /\ (\E s : Holds(t, In(t), s)) /\ StackOK(t, r)
    /\ FrameOK(t, f) /\ (f.op = "destroy" => r = <<>>)
    /\ Own(t, f) \cap Owned(t, r) = {} /\ (Apply(f) => Goes(t, f) \notin Owned(t, r))
    /\ (Sorting(f) => ToSet(f.arTmp) \cap Owned(t, r) = {})
    /\ t.live = In(t) \cup Own(t, f) \cup Owned(t, r)
    /\ Counted(t, Cardinality(In(t)) + Cardinality(Del(r)) + Off(f), o)

\* A sound state, seen from the innermost call ...
LEMMA WholePop ==
  ASSUME NEW o, NEW t, NEW st, Whole(t, st, o), st # <<>>
  PROVE  /\ WholeTop(t, Head(st), Tail(st), o) /\ st = <<Head(st)>> \o Tail(st)
         /\ Head(st) \in FrameType /\ Tail(st) \in Seq(FrameType)
  <1> DEFINE f == Head(st)
             r == Tail(st)
  <1>1. st \in Seq(FrameType) BY DEF Whole, StackOK
  <1>2. f \in FrameType /\ r \in Seq(FrameType) /\ st = <<f>> \o r BY <1>1, Popped
  <1> HIDE DEF f, r
  <1>3. StackOK(t, <<f>> \o r) BY <1>2 DEF Whole
  <1>4. /\ StackOK(t, r) /\ FrameOK(t, f) /\ Outer(t, f, r)
        /\ Owned(t, <<f>> \o r) = Own(t, f) \cup Owned(t, r)
    BY <1>2, <1>3, StackPop
  <1>5. /\ Own(t, f) \cap Owned(t, r) = {}
        /\ Apply(f) => Goes(t, f) \notin Owned(t, r)
        /\ Sorting(f) => ToSet(f.arTmp) \cap Owned(t, r) = {}
    BY <1>4, OuterOwned
  <1>6. f.op = "destroy" => r = <<>>
    <2>1. CASE Len(r) = 0 BY <1>2, <2>1
    <2>2. CASE Len(r) # 0
      <3>1. Len(r) \in Nat BY <1>2
      <3>2. 1 \in 1 .. Len(r) BY <3>1, <2>2
      <3> QED BY <3>2, <1>4 DEF Outer, Pair
    <2> QED BY <2>1, <2>2
  <1>7. Cardinality(Del(st)) = Cardinality(Del(r)) + Off(f) /\ Cardinality(Del(r)) \in Nat
    BY <1>2, DelPush DEF Off
  <1>8. IsFiniteSet(In(t)) /\ Cardinality(In(t)) \in Nat BY <1>4, CountBound
  <1>9. Counted(t, Cardinality(In(t)) + Cardinality(Del(r)) + Off(f), o)
    BY <1>7, <1>8 DEF Whole, Off, Counted
  <1>10. t.live = In(t) \cup Own(t, f) \cup Owned(t, r) BY <1>2, <1>4 DEF Whole
  <1>11. IsTable(t) /\ \E s : Holds(t, In(t), s) BY DEF Whole
  <1>12. WholeTop(t, f, r, o) BY <1>4, <1>5, <1>6, <1>9, <1>10, <1>11 DEF WholeTop
  <1> QED BY <1>2, <1>12 DEF f, r

\* ... and back.
LEMMA WholePush ==
  ASSUME NEW o, NEW t, NEW f, NEW r, WholeTop(t, f, r, o)
  PROVE  Whole(t, <<f>> \o r, o)
  <1>1. f \in FrameType /\ r \in Seq(FrameType) BY DEF WholeTop, FrameOK, StackOK
  <1>2. Outer(t, f, r)
    <2>1. CASE f.op = "destroy"
      <3>1. r = <<>> BY <2>1 DEF WholeTop
      <3> QED BY <3>1 DEF Outer
    <2>2. CASE f.op # "destroy" BY <2>2, OuterOwn DEF WholeTop
    <2> QED BY <2>1, <2>2
  <1>3. /\ StackOK(t, <<f>> \o r) /\ Owned(t, <<f>> \o r) = Own(t, f) \cup Owned(t, r)
    BY <1>2, StackPush DEF WholeTop
  <1>4. Cardinality(Del(<<f>> \o r)) = Cardinality(Del(r)) + Off(f) /\ Cardinality(Del(r)) \in Nat
    BY <1>1, DelPush DEF Off
  <1>5. Cardinality(In(t)) \in Nat BY <1>3, CountBound
  <1>6. Counted(t, Cardinality(In(t)) + Cardinality(Del(<<f>> \o r)), o)
    BY <1>4, <1>5 DEF WholeTop, Off, Counted
  <1>7. t.live = In(t) \cup Owned(t, <<f>> \o r) BY <1>3 DEF WholeTop
  <1> QED BY <1>3, <1>6, <1>7 DEF Whole, WholeTop

\* The calls that wait are left alone by a step from t to u.
Leaves(t, u, r) ==
    /\ IsTable(t) /\ StackOK(t, r)
    /\ IsTable(u) /\ (\E s : Holds(u, In(u), s)) /\ Undisturbed(t, u, Owned(t, r))

\* After a step that returns from the innermost call.
LEMMA WholeNoTop ==
  ASSUME NEW o, NEW t, NEW u, NEW r, Leaves(t, u, r), u.live = In(u) \cup Owned(t, r),
         Counted(u, Cardinality(In(u)) + Cardinality(Del(r)), o)
  PROVE  Whole(u, r, o)
  <1>1. StackOK(u, r) /\ Owned(u, r) = Owned(t, r) BY StackFrame DEF Leaves
  <1> QED BY <1>1 DEF Whole, Leaves

\* How the innermost call fits in.
Fits(t, u, f, r, o) ==
    /\ FrameOK(u, f) /\ (f.op = "destroy" => r = <<>>)
    /\ Own(u, f) \cap Owned(t, r) = {} /\ (Apply(f) => Goes(u, f) \notin Owned(t, r))
    /\ (Sorting(f) => ToSet(f.arTmp) \cap Owned(t, r) = {})
    /\ u.live = In(u) \cup Own(u, f) \cup Owned(t, r)
    /\ Counted(u, Cardinality(In(u)) + Cardinality(Del(r)) + Off(f), o)

\* After a step that leaves the frame f as the innermost.
LEMMA WholeNewTop ==
  ASSUME NEW o, NEW t, NEW u, NEW f, NEW r, Leaves(t, u, r), Fits(t, u, f, r, o)
  PROVE  Whole(u, <<f>> \o r, o)
  <1>1. StackOK(u, r) /\ Owned(u, r) = Owned(t, r) BY StackFrame DEF Leaves
  <1>2. WholeTop(u, f, r, o) BY <1>1 DEF WholeTop, Leaves, Fits
  <1> QED BY <1>2, WholePush

\* A count of buckets does not wrap.
LEMMA ModSmall ==
  ASSUME NEW n \in 0 .. SizeLimit - 1
  PROVE  n % SizeLimit = n
  <1>1. SizeLimit \in Nat \ {0}
    <2>1. Cardinality(Bucket) \in Nat BY HashAssumption, FS_CardinalityType
    <2> QED BY <2>1, HashAssumption
  <1> QED BY <1>1

\* The counts that occur fit into a word, and those that fall short wrap once.
LEMMA WrapMod ==
  ASSUME NEW n \in Int, -NB <= n, n <= NB
  PROVE  n % SizeLimit = Wrap(n) /\ Wrap(n) \in 0 .. SizeLimit - 1
  <1>1. SizeLimit \in Nat /\ NB \in Nat /\ NB < SizeLimit
    BY HashAssumption, FS_CardinalityType DEF NB
  <1>2. CASE n >= 0 BY <1>1, <1>2, ModSmall DEF Wrap
  <1>3. CASE n < 0
    <2>1. n + SizeLimit \in 0 .. SizeLimit - 1 BY <1>1, <1>3
    <2>2. (n + SizeLimit) % SizeLimit = n + SizeLimit BY <2>1, ModSmall
    <2>3. (n + SizeLimit) % SizeLimit = n % SizeLimit BY <1>1
    <2> QED BY <1>3, <2>1, <2>2, <2>3 DEF Wrap
  <1> QED BY <1>2, <1>3

\* A count modulo the word is the count that it is taken from.
LEMMA WrapStep ==
  ASSUME NEW n \in Int, -NB <= n, n <= NB, NEW d \in {-1, 1}, -NB <= n + d, n + d <= NB
  PROVE  (Wrap(n) + d) % SizeLimit = Wrap(n + d)
  <1>1. SizeLimit \in Nat /\ NB \in Nat /\ NB < SizeLimit
    BY HashAssumption, FS_CardinalityType DEF NB
  <1>2. (n + d) % SizeLimit = Wrap(n + d) BY WrapMod
  <1>3. CASE n >= 0 BY <1>2, <1>3 DEF Wrap
  <1>4. CASE n < 0
    <2>1. Wrap(n) + d = (n + d) + SizeLimit BY <1>1, <1>4 DEF Wrap
    <2>2. ((n + d) + SizeLimit) % SizeLimit = (n + d) % SizeLimit BY <1>1
    <2> QED BY <2>1, <2>2, <1>2
  <1> QED BY <1>3, <1>4

\* An element is counted, or counted off.
LEMMA CountedMore ==
  ASSUME NEW t, NEW u, NEW o, NEW n \in 0 .. NB, Counted(t, n, o), NEW d \in {-1, 1},
         n + d \in 0 .. NB, u.nNumOfElements = (t.nNumOfElements + d) % SizeLimit
  PROVE  Counted(u, n + d, o)
  <1>1. NB \in Nat BY HashAssumption, FS_CardinalityType DEF NB
  <1>2. o \in 0 .. NB /\ t.nNumOfElements = Wrap(n - o) BY DEF Counted
  <1>3. n - o \in Int /\ -NB <= n - o /\ n - o <= NB BY <1>1, <1>2
  <1>4. (n - o) + d = (n + d) - o /\ -NB <= (n - o) + d /\ (n - o) + d <= NB BY <1>1, <1>2
  <1>5. (Wrap(n - o) + d) % SizeLimit = Wrap((n - o) + d) BY <1>3, <1>4, WrapStep
  <1> QED BY <1>2, <1>4, <1>5 DEF Counted

\* The inductive invariant.  After a comparison has torn the list, nothing goes on.
IInv ==
    /\ fe \in [pos : MaybeBucket, h : 0 .. 2 * LongMax + 1] /\ torn \in BOOLEAN
    /\ IF torn THEN TypeOK ELSE Whole(ht, stack, owed)

\* What a sound state says of the buckets.
LEMMA Facts ==
  ASSUME NEW o, NEW t, NEW st, Whole(t, st, o)
  PROVE  /\ IsTable(t) /\ StackOK(t, st) /\ t.live \subseteq Bucket /\ In(t) \subseteq t.live
         /\ Owned(t, st) \subseteq t.live \ In(t) /\ st \in Seq(FrameType)
         /\ In(t) \subseteq Bucket /\ t.live = In(t) \cup Owned(t, st)
         /\ NULL \notin Bucket /\ NULL \notin Owned(t, st)
  <1>1. IsTable(t) /\ StackOK(t, st) /\ t.live = In(t) \cup Owned(t, st) BY DEF Whole
  <1>2. t.live \subseteq Bucket BY <1>1 DEF IsTable, Table
  <1>3. Owned(t, st) \subseteq t.live \ In(t) BY <1>1, OwnedOut
  <1>4. st \in Seq(FrameType) BY <1>1 DEF StackOK
  <1> QED BY <1>1, <1>2, <1>3, <1>4, HashAssumption DEF In

\* The same, seen from the innermost call.
LEMMA TopFacts ==
  ASSUME NEW o, NEW t, NEW f, NEW r, WholeTop(t, f, r, o)
  PROVE  /\ IsTable(t) /\ StackOK(t, r) /\ t.live \subseteq Bucket /\ In(t) \subseteq t.live
         /\ FrameOK(t, f) /\ Own(t, f) \subseteq t.live \ In(t)
         /\ Own(t, f) \cap Owned(t, r) = {}
         /\ Owned(t, r) \subseteq t.live \ In(t) /\ r \in Seq(FrameType) /\ f \in FrameType
         /\ In(t) \subseteq Bucket /\ t.live = In(t) \cup Own(t, f) \cup Owned(t, r)
         /\ NULL \notin Bucket /\ f.dead \in MaybeBucket /\ f.p \in MaybeBucket
         /\ f.dead # NULL => f.dead \in Own(t, f) /\ f.dead \in Bucket
  <1>1. /\ IsTable(t) /\ StackOK(t, r) /\ t.live = In(t) \cup Own(t, f) \cup Owned(t, r)
        /\ FrameOK(t, f) /\ Own(t, f) \cap Owned(t, r) = {}
    BY DEF WholeTop
  <1>2. t.live \subseteq Bucket BY <1>1 DEF IsTable, Table
  <1>3. Owned(t, r) \subseteq t.live \ In(t) BY <1>1, OwnedOut
  <1>4. r \in Seq(FrameType) BY <1>1 DEF StackOK
  <1>5. f \in FrameType /\ Own(t, f) \subseteq t.live \ In(t) BY <1>1 DEF FrameOK
  <1>6. f.dead \in MaybeBucket /\ f.p \in MaybeBucket BY <1>5 DEF FrameType
  <1>7. f.dead # NULL => f.dead \in Own(t, f) /\ f.dead \in Bucket BY <1>6 DEF Own, MaybeBucket
  <1> QED BY <1>1, <1>2, <1>3, <1>4, <1>5, <1>6, <1>7, HashAssumption DEF In

\* Nothing is in the way of the calls that wait if their buckets keep their
\* pointers and are neither freed nor put into the table.
LEMMA LeavesAll ==
  ASSUME NEW t, NEW u, NEW r, NEW s, IsTable(t), StackOK(t, r), IsTable(u), Holds(u, In(u), s),
         \A q \in Owned(t, r) : q \in Bucket \ In(u) /\ q \in u.live,
         \A q \in Owned(t, r) : u.pListNext[q] = t.pListNext[q]
  PROVE  Leaves(t, u, r)
  BY DEF Leaves, Undisturbed

\* zend_hash_add.
LEMMA AddStep ==
  ASSUME Whole(ht, stack, owed), NEW k \in Key, zend_hash_add(k)
  PROVE  Whole(ht', stack', owed)
  <1>1. PICK s : Holds(ht, In(ht), s) BY DEF Whole
  <1>2. Find(ht, k) = NULL /\ Insert(k) /\ stack' = stack BY DEF zend_hash_add
  <1>3. PICK p \in Bucket \ ht.live :
          LET v == [ht EXCEPT !.live = @ \cup {p}, !.key[p] = k,
                              !.nNextFreeElement = NextFree(@, k)]
          IN  ht' \in ZEND_HASH_IF_FULL_DO_RESIZE(
                    Count(CONNECT_TO_GLOBAL_DLLIST(CONNECT_TO_BUCKET_DLLIST(v, p), p), 1))
    BY <1>2 DEF Insert
  <1>4. /\ IsTable(ht) /\ StackOK(ht, stack) /\ ht.live \subseteq Bucket /\ In(ht) \subseteq ht.live
        /\ Owned(ht, stack) \subseteq ht.live \ In(ht)
        /\ In(ht) \subseteq Bucket /\ ht.live = In(ht) \cup Owned(ht, stack)
    BY Facts
  <1>5. \A q \in In(ht) : ht.key[q] # k BY <1>1, <1>2, Found, HashAssumption DEF In
  <1>6. p \in Bucket \ In(ht) BY <1>4
  <1>7. Added(ht, ht', s, p, k) BY <1>1, <1>3, <1>5, <1>6, Inserted
  <1>8. /\ IsTable(ht') /\ In(ht') = In(ht) \cup {p} /\ Holds(ht', In(ht'), Append(s, p))
        /\ ht'.nNumOfElements = (ht.nNumOfElements + 1) % SizeLimit
        /\ ht'.live = ht.live \cup {p}
        /\ \A q \in Bucket \ In(ht') : ht'.pListNext[q] = ht.pListNext[q]
    BY <1>7 DEF Added
  <1>9. Leaves(ht, ht', stack)
    <2>1. \A q \in Owned(ht, stack) : q \in Bucket \ In(ht') /\ q \in ht'.live BY <1>4, <1>8
    <2>2. \A q \in Owned(ht, stack) : ht'.pListNext[q] = ht.pListNext[q] BY <1>8, <2>1
    <2> QED BY <1>4, <1>8, <2>1, <2>2, LeavesAll
  <1>10. ht'.live = In(ht') \cup Owned(ht, stack) BY <1>4, <1>8
  <1>11. Counted(ht', Cardinality(In(ht')) + Cardinality(Del(stack)), owed)
    <2>1. StackOK(ht', stack) BY <1>9, StackFrame DEF Leaves
    <2>2. /\ Cardinality(In(ht')) + Cardinality(Del(stack)) <= NB /\ NB \in Nat
          /\ Cardinality(In(ht')) \in Nat /\ Cardinality(Del(stack)) \in Nat
      BY <2>1, CountBound
    <2>3. IsFiniteSet(In(ht)) /\ Cardinality(In(ht)) \in Nat BY <1>4, CountBound
    <2>4. Cardinality(In(ht')) = Cardinality(In(ht)) + 1 BY <1>6, <1>8, <2>3, FS_AddElement
    <2>5. Counted(ht, Cardinality(In(ht)) + Cardinality(Del(stack)), owed) BY DEF Whole
    <2>6. LET n == Cardinality(In(ht)) + Cardinality(Del(stack))
          IN  n \in 0 .. NB /\ n + 1 \in 0 .. NB /\ n + 1 = Cardinality(In(ht')) + Cardinality(Del(stack))
      BY <2>2, <2>3, <2>4
    <2> QED BY <1>8, <2>5, <2>6, CountedMore
  <1> QED BY <1>2, <1>9, <1>10, <1>11, WholeNoTop

\* A step that leaves the table alone.
LEMMA LeavesItself ==
  ASSUME NEW t, NEW r, NEW s, Holds(t, In(t), s), StackOK(t, r)
  PROVE  Leaves(t, t, r)
  <1>1. IsTable(t) BY DEF Holds
  <1>2. Owned(t, r) \subseteq t.live \ In(t) BY OwnedOut
  <1> QED BY <1>1, <1>2 DEF Leaves, Undisturbed

\* A call starts that has nothing to free.
LEMMA EnterStep ==
  ASSUME Whole(ht, stack, owed), NEW f \in FrameType, f.op # "clean", f.op # "del", f.dead = NULL,
         f.op = "destroy" => stack = <<>>, f.op = "update" => f.k \in Key,
         Apply(f) => f.p \in In(ht), ht' = ht, stack' = <<f>> \o stack,
         Sorting(f) => f.arTmp # <<>> /\ ToSet(f.arTmp) \subseteq In(ht)
  PROVE  Whole(ht', stack', owed)
  <1>1. PICK s : Holds(ht, In(ht), s) BY DEF Whole
  <1>2. /\ StackOK(ht, stack) /\ Owned(ht, stack) \subseteq ht.live \ In(ht)
        /\ ht.live = In(ht) \cup Owned(ht, stack)
    BY Facts
  <1>3. Own(ht, f) = {} /\ Goes(ht, f) = f.p BY DEF Own, Goes
  <1>4. FrameOK(ht, f) BY <1>3 DEF FrameOK
  <1>5. Apply(f) => Goes(ht, f) \notin Owned(ht, stack) BY <1>2, <1>3
  <1>6. Counted(ht, Cardinality(In(ht)) + Cardinality(Del(stack)) + Off(f), owed)
    <2>1. Cardinality(In(ht)) \in Nat /\ Cardinality(Del(stack)) \in Nat BY <1>2, CountBound
    <2> QED BY <2>1 DEF Whole, Off, Counted
  <1>7. Sorting(f) => ToSet(f.arTmp) \cap Owned(ht, stack) = {} BY <1>2
  <1>8. Fits(ht, ht, f, stack, owed) BY <1>2, <1>3, <1>4, <1>5, <1>6, <1>7 DEF Fits
  <1>9. Leaves(ht, ht, stack) BY <1>1, <1>2, LeavesItself
  <1>10. Whole(ht, <<f>> \o stack, owed) BY <1>8, <1>9, WholeNewTop
  <1> QED BY <1>10

\* zend_hash_update, up to the destructor.
LEMMA UpdateStep ==
  ASSUME Whole(ht, stack, owed), NEW k \in Key, zend_hash_update(k)
  PROVE  Whole(ht', stack', owed)
  <1> DEFINE f == Frame("update", Find(ht, k), NULL, k)
  <1>1. PICK s : Holds(ht, In(ht), s) BY DEF Whole
  <1>2. Find(ht, k) \in In(ht) BY <1>1, Found DEF zend_hash_update
  <1>3. /\ f \in FrameType /\ f.op = "update" /\ f.dead = NULL /\ f.k = k
    BY <1>2 DEF Frame, FrameType, MaybeBucket, Op, In
  <1>4. ht' = ht /\ stack' = <<f>> \o stack BY DEF zend_hash_update, Enter
  <1> HIDE DEF f
  <1> QED BY <1>3, <1>4, EnterStep DEF Apply, Sorting

\* zend_hash_update, after it.
LEMMA UpdateDataStep ==
  ASSUME Whole(ht, stack, owed), stack # <<>>, UpdateData
  PROVE  Whole(ht', stack', owed)
  <1> DEFINE f == Head(stack)
             r == Tail(stack)
             n == NextFree(ht.nNextFreeElement, f.k)
             u == [ht EXCEPT !.nNextFreeElement = n]
  <1>1. PICK s : Holds(ht, In(ht), s) BY DEF Whole
  <1>2. f.op = "update" /\ ht' = u /\ stack' = r BY DEF UpdateData, Top, Return
  <1>3. WholeTop(ht, f, r, owed) BY WholePop
  <1> HIDE DEF f, r
  <1>4. /\ IsTable(ht) /\ StackOK(ht, r) /\ ht.live \subseteq Bucket
        /\ FrameOK(ht, f)
        /\ Owned(ht, r) \subseteq ht.live \ In(ht)
        /\ ht.live = In(ht) \cup Own(ht, f) \cup Owned(ht, r)
    BY <1>3, TopFacts
  <1>5. f.dead = NULL BY <1>2, <1>4 DEF FrameOK
  <1>6. Own(ht, f) = {} BY <1>2, <1>5 DEF Own
  <1>7. n \in Index BY <1>4, NextFreeType DEF IsTable, Table
  <1> HIDE DEF n
  <1>8. u \in Table BY <1>4, <1>7 DEF IsTable, Table
  <1>9. /\ u.nTableSize = ht.nTableSize /\ u.arBuckets = ht.arBuckets
        /\ u.nNumOfElements = ht.nNumOfElements /\ u.live = ht.live /\ u.key = ht.key
        /\ u.pListHead = ht.pListHead /\ u.pListTail = ht.pListTail
        /\ u.pInternalPointer = ht.pInternalPointer
        /\ u.pNext = ht.pNext /\ u.pLast = ht.pLast
        /\ u.pListNext = ht.pListNext /\ u.pListLast = ht.pListLast
    BY <1>4 DEF IsTable, Table
  <1> HIDE DEF u
  <1>10. IsTable(u) BY <1>4, <1>8, <1>9 DEF IsTable
  <1>11. In(u) = In(ht) BY <1>9 DEF In
  <1>12. Holds(u, In(u), s)
    <2>1. u.pInternalPointer \in In(ht) \cup {NULL} BY <1>1, <1>9 DEF Holds
    <2>2. Holds(u, In(ht), s) BY <1>1, <1>9, <1>10, <2>1, HoldsFrame
    <2> QED BY <2>2, <1>11
  <1>13. Leaves(ht, u, r)
    <2>1. \A q \in Owned(ht, r) : q \in Bucket \ In(u) /\ q \in u.live BY <1>4, <1>9, <1>11
    <2>2. \A q \in Owned(ht, r) : u.pListNext[q] = ht.pListNext[q] BY <1>9
    <2> QED BY <1>4, <1>10, <1>12, <2>1, <2>2, LeavesAll
  <1>14. Counted(u, Cardinality(In(u)) + Cardinality(Del(r)), owed)
    <2>1. Cardinality(In(ht)) \in Nat /\ Cardinality(Del(r)) \in Nat BY <1>4, CountBound
    <2> QED BY <2>1, <1>2, <1>3, <1>9, <1>11 DEF WholeTop, Off, Counted
  <1>15. u.live = In(u) \cup Owned(ht, r) BY <1>4, <1>6, <1>9, <1>11
  <1>16. Whole(u, r, owed) BY <1>13, <1>14, <1>15, WholeNoTop
  <1> QED BY <1>2, <1>16

\* An element taken out of the table leaves the waiting calls alone.
LEMMA LeavesTaken ==
  ASSUME NEW t, NEW u, NEW r, NEW s, NEW i, Holds(t, In(t), s), StackOK(t, r),
         TakenOut(t, u, s, i)
  PROVE  /\ Leaves(t, u, r) /\ s[i] \notin Owned(t, r) /\ s[i] \in Bucket \ In(u)
         /\ Cardinality(In(t)) = Cardinality(In(u)) + 1
         /\ Cardinality(In(t)) \in Nat /\ Cardinality(In(u)) \in Nat
  <1> DEFINE p == s[i]
  <1>1. /\ IsTable(u) /\ In(u) = In(t) \ {p} /\ Holds(u, In(u), Cut(s, i)) /\ p \in In(t)
        /\ u.live = t.live
        /\ \A q \in Bucket \ In(u) : u.pListNext[q] = t.pListNext[q]
    BY DEF TakenOut
  <1> HIDE DEF p
  <1>2. IsTable(t) BY DEF Holds
  <1>3. Owned(t, r) \subseteq t.live \ In(t) /\ t.live \subseteq Bucket /\ In(t) \subseteq Bucket
    BY <1>2, OwnedOut DEF IsTable, Table, In
  <1>4. Leaves(t, u, r)
    <2>1. \A q \in Owned(t, r) : q \in Bucket \ In(u) /\ q \in u.live BY <1>1, <1>3
    <2>2. \A q \in Owned(t, r) : u.pListNext[q] = t.pListNext[q] BY <1>1, <2>1
    <2> QED BY <1>1, <1>2, <2>1, <2>2, LeavesAll
  <1>5. p \notin Owned(t, r) /\ p \in Bucket \ In(u) BY <1>1, <1>3
  <1>6. IsFiniteSet(In(t)) /\ Cardinality(In(t)) \in Nat BY CountBound
  <1>7. IsFiniteSet(In(u)) /\ Cardinality(In(u)) = Cardinality(In(t)) - 1
    BY <1>1, <1>6, FS_RemoveElement
  <1>8. Cardinality(In(u)) \in Nat BY <1>7, FS_CardinalityType
  <1> QED BY <1>4, <1>5, <1>6, <1>7, <1>8 DEF p

\* u is x, where the bucket p is out of the list and now points to nothing.
Detached(x, u, p) ==
    /\ IsTable(u) /\ In(u) = In(x) /\ u.nNumOfElements = x.nNumOfElements
    /\ u.live = x.live /\ u.key = x.key /\ u.pInternalPointer = x.pInternalPointer
    /\ \A q \in Bucket \ {p} : u.pListNext[q] = x.pListNext[q]

\* zend_hash_del_key_or_index leaves no pointer in the bucket it takes out.
LEMMA DetachedOne ==
  ASSUME NEW x, NEW c, Holds(x, In(x), c), NEW p \in Bucket \ In(x),
         NEW u, u = [x EXCEPT !.pListNext[p] = NULL]
  PROVE  Detached(x, u, p) /\ Holds(u, In(u), c)
  <1> DEFINE nx == [x.pListNext EXCEPT ![p] = NULL]
  <1>1. /\ x \in Table /\ x.pListNext \in Ptr /\ x.pInternalPointer \in In(x) \cup {NULL}
        /\ x.arBuckets \in [0 .. x.nTableSize - 1 -> MaybeBucket]
    BY DEF IsTable, Table, Holds
  <1>2. nx \in Ptr /\ \A q \in Bucket \ {p} : nx[q] = x.pListNext[q] BY <1>1 DEF Ptr
  <1>3. u = [x EXCEPT !.pListNext = nx] OBVIOUS
  <1> HIDE DEF nx
  <1>4. u \in Table BY <1>1, <1>2, <1>3 DEF Table
  <1>5. /\ u.nTableSize = x.nTableSize /\ u.arBuckets = x.arBuckets
        /\ u.nNumOfElements = x.nNumOfElements /\ u.live = x.live /\ u.key = x.key
        /\ u.pListHead = x.pListHead /\ u.pListTail = x.pListTail
        /\ u.pInternalPointer = x.pInternalPointer
        /\ u.pNext = x.pNext /\ u.pLast = x.pLast
        /\ u.pListNext = nx /\ u.pListLast = x.pListLast
    BY <1>1, <1>3 DEF Table
  <1>6. IsTable(u) /\ In(u) = In(x) BY <1>1, <1>4, <1>5 DEF IsTable, In
  <1>7. Holds(u, In(x), c)
    <2>1. u.pInternalPointer \in In(x) \cup {NULL} BY <1>1, <1>5
    <2>2. \A q \in In(x) : /\ u.key[q] = x.key[q] /\ u.pNext[q] = x.pNext[q]
                           /\ u.pLast[q] = x.pLast[q] /\ u.pListNext[q] = x.pListNext[q]
                           /\ u.pListLast[q] = x.pListLast[q]
      BY <1>2, <1>5 DEF In
    <2> QED BY <1>5, <1>6, <2>1, <2>2, HoldsFrame
  <1> QED BY <1>2, <1>5, <1>6, <1>7 DEF Detached

\* zend_hash_del_key_or_index, up to the destructor.
LEMMA DelStep ==
  ASSUME Whole(ht, stack, owed), NEW k \in Key, zend_hash_del_key_or_index(k)
  PROVE  Whole(ht', stack', owed)
  <1> DEFINE p == Find(ht, k)
             x == Unlink(ht, p)
             u == [x EXCEPT !.pListNext[p] = NULL]
             f == Frame("del", NULL, p, NULL)
  <1>1. PICK s : Holds(ht, In(ht), s) BY DEF Whole
  <1>2. p \in In(ht) BY <1>1, Found DEF zend_hash_del_key_or_index
  <1>3. ht' = u /\ stack' = <<f>> \o stack BY DEF zend_hash_del_key_or_index, Enter
  <1> HIDE DEF p
  <1>4. PICK i \in 1 .. Len(s) : p = s[i] BY <1>1, <1>2, Place
  <1>5. TakenOut(ht, x, s, i) /\ x.nNumOfElements = ht.nNumOfElements BY <1>1, <1>4, Unlinked
  <1>6. /\ StackOK(ht, stack) /\ ht.live \subseteq Bucket
        /\ ht.live = In(ht) \cup Owned(ht, stack) /\ NULL \notin Bucket /\ In(ht) \subseteq ht.live
    BY Facts
  <1> HIDE DEF x
  <1>7. /\ Leaves(ht, x, stack) /\ p \notin Owned(ht, stack) /\ p \in Bucket \ In(x)
        /\ Cardinality(In(ht)) = Cardinality(In(x)) + 1
        /\ Cardinality(In(ht)) \in Nat /\ Cardinality(In(x)) \in Nat
    BY <1>1, <1>4, <1>5, <1>6, LeavesTaken
  <1>8. /\ IsTable(x) /\ In(x) = In(ht) \ {p} /\ Holds(x, In(x), Cut(s, i)) /\ x.live = ht.live
        /\ \A q \in Bucket \ In(x) : x.pListNext[q] = ht.pListNext[q]
    BY <1>4, <1>5 DEF TakenOut
  <1>9. Detached(x, u, p) /\ Holds(u, In(u), Cut(s, i)) BY <1>7, <1>8, DetachedOne
  <1> HIDE DEF u
  <1>12. /\ u.nNumOfElements = x.nNumOfElements /\ u.live = x.live
         /\ \A q \in Bucket \ {p} : u.pListNext[q] = x.pListNext[q]
    BY <1>9 DEF Detached
  <1>13. IsTable(u) /\ In(u) = In(x) BY <1>9 DEF Detached
  <1>14. Holds(u, In(u), Cut(s, i)) BY <1>9
  <1>15. Leaves(ht, u, stack)
    <2>1. \A q \in Owned(ht, stack) : q \in Bucket \ In(u) /\ q \in u.live /\ q # p
      BY <1>7, <1>8, <1>12, <1>13 DEF Leaves, Undisturbed, IsTable, Table
    <2>2. \A q \in Owned(ht, stack) : u.pListNext[q] = ht.pListNext[q]
      BY <2>1, <1>8, <1>12, <1>13
    <2>3. IsTable(ht) BY <1>1 DEF Holds
    <2> QED BY <1>6, <1>13, <1>14, <2>1, <2>2, <2>3, LeavesAll
  <1>16. Fits(ht, u, f, stack, owed)
    <2>1. f.op = "del" /\ f.dead = p /\ p # NULL /\ f \in FrameType
      BY <1>6, <1>7 DEF Frame, FrameType, Op, MaybeBucket
    <2> HIDE DEF f
    <2>2. Own(u, f) = {p} BY <2>1 DEF Own
    <2>3. FrameOK(u, f) BY <2>1, <2>2, <1>2, <1>6, <1>7, <1>8, <1>12, <1>13 DEF FrameOK, Apply, Sorting
    <2>4. u.live = In(u) \cup Own(u, f) \cup Owned(ht, stack)
      BY <1>2, <1>6, <1>8, <1>12, <1>13, <2>2
    <2>5. Counted(u, Cardinality(In(u)) + Cardinality(Del(stack)) + Off(f), owed)
      <3>1. Cardinality(Del(stack)) \in Nat BY <1>6, CountBound
      <3>2. Counted(u, Cardinality(In(ht)) + Cardinality(Del(stack)), owed) BY <1>5, <1>12 DEF Whole, Counted
      <3> QED BY <3>1, <3>2, <2>1, <1>7, <1>13 DEF Off, Counted
    <2> QED BY <2>1, <2>2, <2>3, <2>4, <2>5, <1>7 DEF Fits, Apply, Sorting
  <1>17. Whole(u, <<f>> \o stack, owed) BY <1>15, <1>16, WholeNewTop
  <1> QED BY <1>3, <1>17

\* The bucket whose destructor ran is freed.
FreedTop(t, u, d, r, s) ==
    /\ IsTable(u) /\ In(u) = In(t) /\ Holds(u, In(u), s) /\ Leaves(t, u, r)
    /\ u.nNumOfElements = t.nNumOfElements /\ u.live = t.live \ {d}
    /\ \A q \in Bucket \ {d} : u.pListNext[q] = t.pListNext[q]

\* The innermost call frees the bucket whose destructor has run.
LEMMA FreeTop ==
  ASSUME NEW o, NEW t, NEW f, NEW r, WholeTop(t, f, r, o), f.dead # NULL, NEW s, Holds(t, In(t), s)
  PROVE  FreedTop(t, pefree(t, f.dead), f.dead, r, s)
  <1> DEFINE d == f.dead
             u == pefree(t, d)
  <1>1. /\ IsTable(t) /\ StackOK(t, r) /\ t.live \subseteq Bucket /\ In(t) \subseteq t.live
        /\ Own(t, f) \subseteq t.live \ In(t)
        /\ Own(t, f) \cap Owned(t, r) = {} /\ Owned(t, r) \subseteq t.live \ In(t)
        /\ d \in Own(t, f) /\ d \in Bucket
    BY TopFacts
  <1> HIDE DEF d
  <1>2. d \in Bucket \ In(t) BY <1>1
  <1>3. /\ IsTable(u) /\ In(u) = In(t) /\ Holds(u, In(u), s)
        /\ u.nNumOfElements = t.nNumOfElements /\ u.live = t.live \ {d}
        /\ \A q \in Bucket \ {d} : u.pListNext[q] = t.pListNext[q]
    BY <1>2, Freed
  <1> HIDE DEF u
  <1>4. \A q \in Owned(t, r) : q \in Bucket \ In(u) /\ q \in u.live /\ q # d BY <1>1, <1>3
  <1>5. \A q \in Owned(t, r) : u.pListNext[q] = t.pListNext[q] BY <1>3, <1>4
  <1>6. Leaves(t, u, r) BY <1>1, <1>3, <1>4, <1>5, LeavesAll
  <1>7. FreedTop(t, u, d, r, s) BY <1>3, <1>6 DEF FreedTop
  <1> QED BY <1>7 DEF u, d

\* zend_hash_del_key_or_index, after the destructor.
LEMMA DeletedStep ==
  ASSUME Whole(ht, stack, owed), stack # <<>>, Deleted
  PROVE  Whole(ht', stack', owed)
  <1> DEFINE f == Head(stack)
             r == Tail(stack)
             x == pefree(ht, f.dead)
             u == Count(x, -1)
  <1>1. PICK s : Holds(ht, In(ht), s) BY DEF Whole
  <1>2. f.op = "del" /\ ht' = u /\ stack' = r BY DEF Deleted, Top, Return
  <1>3. WholeTop(ht, f, r, owed) BY WholePop
  <1> HIDE DEF f, r
  <1>4. f.dead # NULL BY <1>2, <1>3 DEF WholeTop, FrameOK
  <1>5. FreedTop(ht, x, f.dead, r, s) BY <1>1, <1>3, <1>4, FreeTop
  <1> HIDE DEF x
  <1>6. /\ IsTable(x) /\ In(x) = In(ht) /\ Holds(x, In(x), s) /\ Leaves(ht, x, r)
        /\ x.nNumOfElements = ht.nNumOfElements /\ x.live = ht.live \ {f.dead}
    BY <1>5 DEF FreedTop
  <1>7. -1 \in Int /\ x.pInternalPointer \in In(x) \cup {NULL} BY <1>6 DEF Holds
  <1>8. /\ IsTable(u)
        /\ u.nTableSize = x.nTableSize /\ u.arBuckets = x.arBuckets
        /\ u.nNextFreeElement = x.nNextFreeElement /\ u.live = x.live
        /\ u.pListHead = x.pListHead /\ u.pListTail = x.pListTail
        /\ u.pInternalPointer = x.pInternalPointer
        /\ u.key = x.key /\ u.pNext = x.pNext /\ u.pLast = x.pLast
        /\ u.pListNext = x.pListNext /\ u.pListLast = x.pListLast
        /\ u.nNumOfElements = (x.nNumOfElements + -1) % SizeLimit
    BY <1>6, <1>7, CountFields
  <1> HIDE DEF u
  <1>9. In(u) = In(x) BY <1>8 DEF In
  <1>10. Holds(u, In(u), s)
    <2>1. Holds(u, In(x), s) BY <1>6, <1>7, <1>8, HoldsFrame
    <2> QED BY <2>1, <1>9
  <1>11. Leaves(ht, u, r) BY <1>6, <1>8, <1>9, <1>10 DEF Leaves, Undisturbed
  <1>12. Counted(u, Cardinality(In(u)) + Cardinality(Del(r)), owed)
    <2>1. StackOK(ht, r) BY <1>3 DEF WholeTop
    <2>2. /\ Cardinality(In(ht)) + Cardinality(Del(r)) + 1 <= NB /\ NB \in Nat
          /\ Cardinality(In(ht)) \in Nat /\ Cardinality(Del(r)) \in Nat
      <3>1. StackOK(ht, stack) /\ stack \in Seq(FrameType) BY Facts
      <3>2. f \in FrameType /\ r \in Seq(FrameType) /\ stack = <<f>> \o r BY WholePop DEF f, r
      <3>3. Cardinality(Del(stack)) = Cardinality(Del(r)) + 1 BY <3>2, <1>2, DelPush
      <3> QED BY <2>1, <3>1, <3>3, CountBound
    <2>3. Counted(ht, Cardinality(In(ht)) + Cardinality(Del(r)) + 1, owed)
      BY <1>2, <1>3 DEF WholeTop, Off
    <2>4. LET n == Cardinality(In(ht)) + Cardinality(Del(r)) + 1
          IN  n \in 0 .. NB /\ n + -1 \in 0 .. NB /\ n + -1 = Cardinality(In(u)) + Cardinality(Del(r))
      BY <2>2, <1>6, <1>9
    <2>5. u.nNumOfElements = (ht.nNumOfElements + -1) % SizeLimit BY <1>6, <1>8
    <2> QED BY <2>3, <2>4, <2>5, CountedMore
  <1>13. u.live = In(u) \cup Owned(ht, r)
    <2>1. Own(ht, f) = {f.dead} BY <1>2, <1>4 DEF Own
    <2>2. /\ Own(ht, f) \subseteq ht.live \ In(ht) /\ Own(ht, f) \cap Owned(ht, r) = {}
          /\ ht.live = In(ht) \cup Own(ht, f) \cup Owned(ht, r)
      BY <1>3, TopFacts
    <2> QED BY <2>1, <2>2, <1>6, <1>8, <1>9
  <1>14. Whole(u, r, owed) BY <1>11, <1>12, <1>13, WholeNoTop
  <1> QED BY <1>2, <1>14

\* zend_hash_clean.
LEMMA CleanAllStep ==
  ASSUME Whole(ht, stack, owed), zend_hash_clean
  PROVE  Whole(ht', stack', owed')
  <1> DEFINE f == Frame("clean", ht.pListHead, NULL, NULL)
  <1>1. PICK s : Holds(ht, In(ht), s) BY DEF Whole
  <1>2. stack' = <<f>> \o stack /\ owed' = Cardinality(Deleting) BY DEF zend_hash_clean, Enter
  <1>3. /\ IsTable(ht') /\ In(ht') = {} /\ Holds(ht', In(ht'), <<>>)
        /\ ht'.nNumOfElements = 0 /\ ht'.live = ht.live /\ ht'.pListNext = ht.pListNext
    BY <1>1, CleanedAll DEF zend_hash_clean
  <1>4. /\ IsTable(ht) /\ StackOK(ht, stack) /\ ht.live \subseteq Bucket
        /\ Owned(ht, stack) \subseteq ht.live \ In(ht)
        /\ ht.live = In(ht) \cup Owned(ht, stack) /\ NULL \notin Bucket /\ In(ht) \subseteq Bucket
    BY Facts
  <1>5. Leaves(ht, ht', stack)
    <2>1. \A q \in Owned(ht, stack) : q \in Bucket \ In(ht') /\ q \in ht'.live BY <1>3, <1>4
    <2>2. \A q \in Owned(ht, stack) : ht'.pListNext[q] = ht.pListNext[q] BY <1>3
    <2> QED BY <1>3, <1>4, <2>1, <2>2, LeavesAll
  <1>6. Linked(ht'.pListNext, ht.pListHead, s) /\ ToSet(s) = In(ht)
    BY <1>1, <1>3 DEF Holds, ListIs, Dll
  <1>7. /\ f.op = "clean" /\ f.dead = NULL /\ f.p = ht.pListHead /\ f \in FrameType
    BY <1>4 DEF Frame, FrameType, Op, MaybeBucket, IsTable, Table
  <1> HIDE DEF f
  <1>8. Own(ht', f) = In(ht)
    <2>1. ht'.pListNext \in Ptr BY <1>3 DEF IsTable, Table
    <2>2. Path(ht'.pListNext, f.p) = s BY <2>1, <1>6, <1>7, PathLinked
    <2> QED BY <2>2, <1>6, <1>7 DEF Own
  <1>9. FrameOK(ht', f)
    <2>1. NULL \notin ToSet(s) BY <1>4, <1>6
    <2>2. \E z : Linked(ht'.pListNext, f.p, z) /\ f.dead \notin ToSet(z) BY <1>6, <1>7, <2>1
    <2>3. Own(ht', f) \subseteq ht'.live \ In(ht') BY <1>3, <1>4, <1>8
    <2> QED BY <1>7, <2>2, <2>3 DEF FrameOK, Apply, Sorting
  <1>10. Counted(ht', Cardinality(In(ht')) + Cardinality(Del(stack)) + Off(f), owed')
    <2>1. stack \in Seq(FrameType) BY <1>4 DEF StackOK
    <2>2. Deleting = Del(stack) BY <2>1 DEF Del, Deleting
    <2>3. Cardinality(Del(stack)) \in 0 .. NB BY <1>4, CountBound
    <2>4. Cardinality(In(ht')) = 0 /\ Off(f) = 0 BY <1>3, <1>7, FS_EmptySet DEF Off
    <2> QED BY <2>2, <2>3, <2>4, <1>2, <1>3 DEF Counted, Wrap
  <1>11. Fits(ht, ht', f, stack, owed')
    <2>1. Own(ht', f) \cap Owned(ht, stack) = {} BY <1>4, <1>8
    <2>2. ht'.live = In(ht') \cup Own(ht', f) \cup Owned(ht, stack) BY <1>3, <1>4, <1>8
    <2> QED BY <1>7, <1>9, <1>10, <2>1, <2>2 DEF Fits, Apply, Sorting
  <1>12. Whole(ht', <<f>> \o stack, owed') BY <1>5, <1>11, WholeNewTop
  <1> QED BY <1>2, <1>12

\* A list, without its first bucket.
LEMMA LinkedTail ==
  ASSUME NEW g, NEW p, NEW s, Linked(g, p, s), p # NULL
  PROVE  /\ Linked(g, g[p], Tail(s)) /\ p \notin ToSet(Tail(s))
         /\ ToSet(s) = {p} \cup ToSet(Tail(s)) /\ g[p] \in MaybeBucket /\ p \in Bucket
  <1> DEFINE v == Tail(s)
             n == Len(s)
  <1>1. /\ s \in Seq(Bucket) /\ n \in Nat /\ n # 0 /\ p = s[1]
        /\ DOMAIN s = 1 .. n
    BY DEF Linked
  <1>2. \A i, j \in 1 .. n : s[i] = s[j] => i = j BY DEF Linked
  <1>3. \A i \in 1 .. n : g[s[i]] = IF i = n THEN NULL ELSE s[i + 1] BY DEF Linked
  <1>4. s # <<>> BY <1>1
  <1>5. /\ v \in Seq(Bucket) /\ Len(v) = n - 1 /\ DOMAIN v = 1 .. n - 1
        /\ \A i \in 1 .. n - 1 : v[i] = s[i + 1]
    BY <1>1, <1>4
  <1> HIDE DEF v, n
  <1>6. n \in Nat /\ n # 0 /\ 1 \in 1 .. n BY <1>1
  <1>7. \A i \in 1 .. n - 1 : i + 1 \in 1 .. n /\ i + 1 # 1 BY <1>6
  <1>8. \A i, j \in 1 .. Len(v) : v[i] = v[j] => i = j
    <2> TAKE i, j \in 1 .. Len(v)
    <2> HAVE v[i] = v[j]
    <2>1. i \in 1 .. n - 1 /\ j \in 1 .. n - 1 BY <1>5
    <2>2. s[i + 1] = s[j + 1] BY <2>1, <1>5
    <2>3. i + 1 = j + 1 BY <2>1, <2>2, <1>2, <1>7
    <2> QED BY <2>1, <2>3
  <1>9. g[p] = IF Len(v) = 0 THEN NULL ELSE v[1]
    <2>1. g[p] = IF 1 = n THEN NULL ELSE s[1 + 1] BY <1>1, <1>3, <1>6
    <2>2. n = 1 <=> Len(v) = 0 BY <1>5, <1>6
    <2>3. n # 1 => 1 \in 1 .. n - 1 BY <1>6
    <2> QED BY <2>1, <2>2, <2>3, <1>5
  <1>10. ASSUME NEW i \in 1 .. Len(v) PROVE g[v[i]] = IF i = Len(v) THEN NULL ELSE v[i + 1]
    <2>1. i \in 1 .. n - 1 /\ i \in Int /\ Len(v) = n - 1 BY <1>5
    <2>2. v[i] = s[i + 1] /\ i + 1 \in 1 .. n BY <2>1, <1>5, <1>7
    <2>3. g[v[i]] = IF i + 1 = n THEN NULL ELSE s[(i + 1) + 1] BY <2>2, <1>3
    <2>4. i + 1 = n <=> i = Len(v) BY <2>1, <1>6
    <2>5. i # Len(v) => i + 1 \in 1 .. n - 1 BY <2>1, <1>6
    <2>6. i # Len(v) => v[i + 1] = s[(i + 1) + 1] BY <2>5, <1>5
    <2> QED BY <2>3, <2>4, <2>6
  <1>11. Linked(g, g[p], v) BY <1>5, <1>8, <1>9, <1>10 DEF Linked
  <1>12. ToSet(s) = {s[i] : i \in 1 .. n} /\ ToSet(v) = {v[i] : i \in 1 .. n - 1}
    BY <1>1, <1>5 DEF ToSet, n
  <1>13. p \notin ToSet(v)
    <2> SUFFICES ASSUME NEW i \in 1 .. n - 1, p = v[i] PROVE FALSE BY <1>12
    <2>1. s[i + 1] = s[1] BY <1>1, <1>5
    <2> QED BY <2>1, <1>2, <1>6, <1>7
  <1>14. ToSet(s) = {p} \cup ToSet(v)
    <2>1. \A i \in 1 .. n : i = 1 \/ i - 1 \in 1 .. n - 1 BY <1>6
    <2>2. \A i \in 1 .. n : i # 1 => s[i] = v[i - 1]
      <3> TAKE i \in 1 .. n
      <3> HAVE i # 1
      <3>1. i - 1 \in 1 .. n - 1 /\ (i - 1) + 1 = i BY <1>6
      <3> QED BY <3>1, <1>5
    <2>3. ToSet(s) \subseteq {p} \cup ToSet(v) BY <2>1, <2>2, <1>1, <1>12
    <2>4. {p} \cup ToSet(v) \subseteq ToSet(s) BY <1>1, <1>5, <1>6, <1>7, <1>12
    <2> QED BY <2>3, <2>4
  <1>15. p \in Bucket /\ g[p] \in MaybeBucket
    <2>1. p \in Bucket BY <1>1, <1>6 DEF n
    <2>2. Len(v) # 0 => v[1] \in Bucket BY <1>5, <1>6
    <2> QED BY <2>1, <2>2, <1>9 DEF MaybeBucket
  <1> QED BY <1>11, <1>13, <1>14, <1>15 DEF v

\* The innermost call goes on, and the table is as it was.
LEMMA RetopStep ==
  ASSUME NEW o, NEW t, NEW f, NEW r, WholeTop(t, f, r, o), NEW g, FrameOK(t, g),
         Own(t, g) = Own(t, f), g.op = f.op, ~Sorting(g),
         Apply(g) => Goes(t, g) \notin Owned(t, r)
  PROVE  Whole(t, <<g>> \o r, o)
  <1>1. WholeTop(t, g, r, o) BY DEF WholeTop, Off
  <1> QED BY <1>1, WholePush

\* The innermost call returns, and the table is as it was.
LEMMA ReturnStep ==
  ASSUME NEW o, NEW t, NEW f, NEW r, WholeTop(t, f, r, o), Own(t, f) = {}, f.op # "del"
  PROVE  Whole(t, r, o)
  <1>1. StackOK(t, r) BY DEF WholeTop
  <1>2. Cardinality(In(t)) \in Nat /\ Cardinality(Del(r)) \in Nat BY <1>1, CountBound
  <1> QED BY <1>1, <1>2 DEF WholeTop, Whole, Off, Counted

\* zend_hash_clean remembers the next bucket, and calls a destructor.
LEMMA CleanStep ==
  ASSUME Whole(ht, stack, owed), stack # <<>>, Clean
  PROVE  Whole(ht', stack', owed)
  <1> DEFINE f == Head(stack)
             r == Tail(stack)
             g == [f EXCEPT !.p = ht.pListNext[f.p], !.dead = f.p]
  <1>1. f.op = "clean" /\ f.p # NULL /\ f.dead = NULL /\ stack' = <<g>> \o r /\ ht' = ht
    BY DEF Clean, Top, Return
  <1>2. WholeTop(ht, f, r, owed) BY WholePop
  <1> HIDE DEF f, r
  <1>3. FrameOK(ht, f) /\ f \in FrameType /\ IsTable(ht) BY <1>2, TopFacts
  <1>4. PICK s : Linked(ht.pListNext, f.p, s) BY <1>1, <1>3 DEF FrameOK
  <1>5. /\ Linked(ht.pListNext, ht.pListNext[f.p], Tail(s)) /\ f.p \notin ToSet(Tail(s))
        /\ ToSet(s) = {f.p} \cup ToSet(Tail(s)) /\ ht.pListNext[f.p] \in MaybeBucket
        /\ f.p \in Bucket
    BY <1>1, <1>4, LinkedTail
  <1>6. /\ g \in FrameType /\ g.op = "clean" /\ g.p = ht.pListNext[f.p] /\ g.dead = f.p
    BY <1>1, <1>3, <1>5 DEF FrameType, MaybeBucket
  <1> HIDE DEF g
  <1>7. Path(ht.pListNext, f.p) = s /\ Path(ht.pListNext, g.p) = Tail(s)
    <2>1. ht.pListNext \in Ptr BY <1>3 DEF IsTable, Table
    <2> QED BY <2>1, <1>4, <1>5, <1>6, PathLinked
  <1>8. Own(ht, f) = ToSet(s) /\ Own(ht, g) = {f.p} \cup ToSet(Tail(s))
    BY <1>1, <1>6, <1>7 DEF Own
  <1>9. Own(ht, g) = Own(ht, f) BY <1>5, <1>8
  <1>10. FrameOK(ht, g)
    <2>1. \E z : Linked(ht.pListNext, g.p, z) /\ g.dead \notin ToSet(z) BY <1>5, <1>6
    <2>2. Own(ht, g) \subseteq ht.live \ In(ht) BY <1>3, <1>9 DEF FrameOK
    <2> QED BY <2>1, <2>2, <1>6 DEF FrameOK, Apply, Sorting
  <1>11. Whole(ht, <<g>> \o r, owed) BY <1>1, <1>2, <1>6, <1>9, <1>10, RetopStep
    DEF Apply, Sorting
  <1> QED BY <1>1, <1>11

\* zend_hash_clean frees a bucket.
LEMMA CleanedStep ==
  ASSUME Whole(ht, stack, owed), stack # <<>>, Cleaned
  PROVE  Whole(ht', stack', owed)
  <1> DEFINE f == Head(stack)
             r == Tail(stack)
             g == [f EXCEPT !.dead = NULL]
             u == pefree(ht, f.dead)
  <1>1. f.op = "clean" /\ f.dead # NULL /\ stack' = <<g>> \o r /\ ht' = u
    BY DEF Cleaned, Top, Return
  <1>2. WholeTop(ht, f, r, owed) BY WholePop
  <1>3. PICK s : Holds(ht, In(ht), s) BY DEF Whole
  <1> HIDE DEF f, r
  <1>4. /\ FrameOK(ht, f) /\ f \in FrameType /\ IsTable(ht) /\ f.dead \in Bucket /\ f.dead \in Own(ht, f)
        /\ Own(ht, f) \subseteq ht.live \ In(ht) /\ Own(ht, f) \cap Owned(ht, r) = {}
        /\ ht.live = In(ht) \cup Own(ht, f) \cup Owned(ht, r) /\ NULL \notin Bucket
        /\ ht.live \subseteq Bucket
    BY <1>1, <1>2, TopFacts
  <1>5. FreedTop(ht, u, f.dead, r, s) BY <1>1, <1>2, <1>3, FreeTop
  <1> HIDE DEF u
  <1>6. /\ IsTable(u) /\ In(u) = In(ht) /\ Holds(u, In(u), s) /\ Leaves(ht, u, r)
        /\ u.nNumOfElements = ht.nNumOfElements /\ u.live = ht.live \ {f.dead}
        /\ \A q \in Bucket \ {f.dead} : u.pListNext[q] = ht.pListNext[q]
    BY <1>5 DEF FreedTop
  <1>7. PICK c : Linked(ht.pListNext, f.p, c) /\ f.dead \notin ToSet(c) BY <1>1, <1>4 DEF FrameOK
  <1>8. Path(ht.pListNext, f.p) = c
    <2>1. ht.pListNext \in Ptr BY <1>4 DEF IsTable, Table
    <2> QED BY <2>1, <1>7, PathLinked
  <1>9. Own(ht, f) = {f.dead} \cup ToSet(c) BY <1>1, <1>8 DEF Own
  <1>10. Linked(u.pListNext, f.p, c)
    <2>1. \A q \in ToSet(c) : u.pListNext[q] = ht.pListNext[q] BY <1>4, <1>6, <1>7, <1>9
    <2> QED BY <2>1, <1>7, LinkedFrame
  <1>11. g \in FrameType /\ g.op = "clean" /\ g.p = f.p /\ g.dead = NULL
    BY <1>1, <1>4 DEF FrameType, MaybeBucket
  <1> HIDE DEF g
  <1>12. Own(u, g) = ToSet(c)
    <2>1. u.pListNext \in Ptr BY <1>6 DEF IsTable, Table
    <2>2. Path(u.pListNext, g.p) = c BY <2>1, <1>10, <1>11, PathLinked
    <2> QED BY <2>2, <1>11 DEF Own
  <1>13. FrameOK(u, g)
    <2>1. NULL \notin ToSet(c) BY <1>4, <1>9
    <2>2. \E z : Linked(u.pListNext, g.p, z) /\ g.dead \notin ToSet(z) BY <1>10, <1>11, <2>1
    <2>3. Own(u, g) \subseteq u.live \ In(u) BY <1>4, <1>6, <1>7, <1>9, <1>12
    <2> QED BY <1>11, <2>2, <2>3 DEF FrameOK, Apply, Sorting
  <1>14. Fits(ht, u, g, r, owed)
    <2>1. Own(u, g) \cap Owned(ht, r) = {} BY <1>4, <1>9, <1>12
    <2>2. u.live = In(u) \cup Own(u, g) \cup Owned(ht, r)
      <3>1. f.dead \notin In(ht) /\ f.dead \notin Owned(ht, r) BY <1>4
      <3> QED BY <3>1, <1>4, <1>6, <1>7, <1>9, <1>12
    <2>3. Counted(u, Cardinality(In(u)) + Cardinality(Del(r)) + Off(g), owed)
      BY <1>1, <1>2, <1>6, <1>11 DEF WholeTop, Off, Counted
    <2> QED BY <1>11, <1>13, <2>1, <2>2, <2>3 DEF Fits, Apply, Sorting
  <1>15. Whole(u, <<g>> \o r, owed) BY <1>6, <1>14, WholeNewTop
  <1> QED BY <1>1, <1>15

\* zend_hash_clean returns.
LEMMA CleanDoneStep ==
  ASSUME Whole(ht, stack, owed), stack # <<>>, CleanDone
  PROVE  Whole(ht', stack', owed)
  <1> DEFINE f == Head(stack)
             r == Tail(stack)
  <1>1. f.op = "clean" /\ f.p = NULL /\ f.dead = NULL /\ stack' = r /\ ht' = ht
    BY DEF CleanDone, Top, Return
  <1>2. WholeTop(ht, f, r, owed) BY WholePop
  <1> HIDE DEF f, r
  <1>3. FrameOK(ht, f) /\ IsTable(ht) BY <1>2, TopFacts
  <1>4. Own(ht, f) = {}
    <2>1. ht.pListNext \in Ptr BY <1>3 DEF IsTable, Table
    <2>2. Dll(ht.pListNext, ht.pListLast, NULL, <<>>) /\ ToSet(<<>>) = {} BY DllEmpty
    <2>3. Linked(ht.pListNext, NULL, <<>>) BY <2>2 DEF Dll
    <2>4. Path(ht.pListNext, f.p) = <<>> BY <1>1, <2>1, <2>3, PathLinked
    <2> QED BY <1>1, <2>2, <2>4 DEF Own
  <1>5. Whole(ht, r, owed) BY <1>1, <1>2, <1>4, ReturnStep
  <1> QED BY <1>1, <1>5

\* The bucket that zend_hash_apply goes on with is an element of the table if it
\* is not freed.
LEMMA GoesOn ==
  ASSUME Whole(ht, stack, owed), stack # <<>>, BucketsLive, Apply(Head(stack)),
         Head(stack).p # NULL, Head(stack).dead = NULL
  PROVE  Head(stack).p \in In(ht)
  <1> DEFINE f == Head(stack)
             r == Tail(stack)
  <1>1. WholeTop(ht, f, r, owed) BY WholePop
  <1>2. f.p \in ht.live
    <2>1. stack \in Seq(FrameType) BY Facts
    <2>2. 1 \in DOMAIN stack /\ f = stack[1] BY <2>1
    <2> QED BY <2>2 DEF BucketsLive, Frames
  <1> HIDE DEF f, r
  <1>3. Apply(f) /\ f.dead = NULL /\ f.p # NULL BY DEF f
  <1>4. Own(ht, f) = {} /\ Goes(ht, f) = f.p BY <1>3 DEF Own, Goes, Apply
  <1>5. f.p \notin Owned(ht, r) /\ ht.live = In(ht) \cup Own(ht, f) \cup Owned(ht, r)
    BY <1>1, <1>3, <1>4 DEF WholeTop
  <1>6. f.p \in In(ht) BY <1>2, <1>4, <1>5
  <1> QED BY <1>6 DEF f

\* The neighbours of an element in the list are elements.
LEMMA Neighbours ==
  ASSUME NEW t, NEW s, Holds(t, In(t), s), NEW p \in In(t)
  PROVE  t.pListNext[p] \in In(t) \cup {NULL} /\ t.pListLast[p] \in In(t) \cup {NULL}
  <1>1. Dll(t.pListNext, t.pListLast, t.pListHead, s) /\ ToSet(s) = In(t) BY DEF Holds, ListIs
  <1> QED BY <1>1, DllType

\* Head and tail of the list are elements.
LEMMA ListEnds ==
  ASSUME NEW t, NEW s, Holds(t, In(t), s)
  PROVE  t.pListHead \in In(t) \cup {NULL} /\ t.pListTail \in In(t) \cup {NULL}
  <1>1. Dll(t.pListNext, t.pListLast, t.pListHead, s) /\ ToSet(s) = In(t) /\ t.pListTail = End(s)
    BY DEF Holds, ListIs
  <1> QED BY <1>1, DllType

\* zend_hash_apply and zend_hash_reverse_apply begin at an end of the list.
LEMMA ApplyStep ==
  ASSUME Whole(ht, stack, owed), zend_hash_apply \/ zend_hash_reverse_apply
  PROVE  Whole(ht', stack', owed)
  <1>1. PICK s : Holds(ht, In(ht), s) BY DEF Whole
  <1>2. In(ht) \subseteq Bucket BY Facts
  <1>3. CASE zend_hash_apply
    <2> DEFINE f == Frame("apply", ht.pListHead, NULL, NULL)
    <2>1. ht.pListHead \in In(ht) BY <1>1, <1>3, ListEnds DEF zend_hash_apply
    <2>2. ht' = ht /\ stack' = <<f>> \o stack BY <1>3 DEF zend_hash_apply, Enter
    <2>3. f \in FrameType /\ f.op = "apply" /\ f.p = ht.pListHead /\ f.dead = NULL
      BY <1>2, <2>1 DEF Frame, FrameType, Op, MaybeBucket
    <2> HIDE DEF f
    <2> QED BY <2>1, <2>2, <2>3, EnterStep DEF Sorting
  <1>4. CASE zend_hash_reverse_apply
    <2> DEFINE f == Frame("reverse_apply", ht.pListTail, NULL, NULL)
    <2>1. ht.pListTail \in In(ht) BY <1>1, <1>4, ListEnds DEF zend_hash_reverse_apply
    <2>2. ht' = ht /\ stack' = <<f>> \o stack BY <1>4 DEF zend_hash_reverse_apply, Enter
    <2>3. f \in FrameType /\ f.op = "reverse_apply" /\ f.p = ht.pListTail /\ f.dead = NULL
      BY <1>2, <2>1 DEF Frame, FrameType, Op, MaybeBucket
    <2> HIDE DEF f
    <2> QED BY <2>1, <2>2, <2>3, EnterStep DEF Sorting
  <1> QED BY <1>3, <1>4

\* zend_hash_graceful_reverse_destroy begins.
LEMMA DestroyStep ==
  ASSUME Whole(ht, stack, owed), zend_hash_graceful_reverse_destroy
  PROVE  Whole(ht', stack', owed)
  <1> DEFINE f == Frame("destroy", NULL, NULL, NULL)
  <1>1. stack = <<>> /\ ht' = ht /\ stack' = <<f>> \o stack
    BY DEF zend_hash_graceful_reverse_destroy, Enter
  <1>2. f \in FrameType /\ f.op = "destroy" /\ f.dead = NULL
    BY DEF Frame, FrameType, Op, MaybeBucket
  <1> HIDE DEF f
  <1> QED BY <1>1, <1>2, EnterStep DEF Apply, Sorting

\* zend_hash_apply keeps an element, and goes on to its neighbour.
LEMMA ApplyKeepStep ==
  ASSUME Whole(ht, stack, owed), stack # <<>>, BucketsLive, ApplyKeep
  PROVE  Whole(ht', stack', owed)
  <1> DEFINE f == Head(stack)
             r == Tail(stack)
             n == (IF f.op = "apply" THEN ht.pListNext ELSE ht.pListLast)[f.p]
             g == [f EXCEPT !.p = n]
  <1>1. PICK s : Holds(ht, In(ht), s) BY DEF Whole
  <1>2. Apply(f) /\ f.p # NULL /\ f.dead = NULL /\ stack' = <<g>> \o r /\ ht' = ht
    BY DEF ApplyKeep, Applying, Apply, Top, Return
  <1>3. f.p \in In(ht) BY <1>2, GoesOn
  <1>4. WholeTop(ht, f, r, owed) BY WholePop
  <1> HIDE DEF f, r
  <1>5. n \in In(ht) \cup {NULL} BY <1>1, <1>3, Neighbours
  <1>6. /\ f \in FrameType /\ In(ht) \subseteq Bucket /\ NULL \notin Bucket
        /\ Owned(ht, r) \subseteq ht.live \ In(ht) /\ ht.live \subseteq Bucket
    BY <1>4, TopFacts
  <1> HIDE DEF n
  <1>7. g \in FrameType /\ g.op = f.op /\ g.p = n /\ g.dead = NULL
    BY <1>2, <1>5, <1>6 DEF FrameType, MaybeBucket
  <1> HIDE DEF g
  <1>8. Own(ht, f) = {} /\ Own(ht, g) = {} /\ Goes(ht, g) = n /\ Apply(g)
    BY <1>2, <1>7 DEF Own, Goes, Apply
  <1>9. FrameOK(ht, g) /\ ~Sorting(g) BY <1>2, <1>7, <1>8 DEF FrameOK, Apply, Sorting
  <1>10. Goes(ht, g) \notin Owned(ht, r) BY <1>5, <1>6, <1>8
  <1>11. Whole(ht, <<g>> \o r, owed) BY <1>4, <1>7, <1>8, <1>9, <1>10, RetopStep
  <1> QED BY <1>2, <1>11

\* zend_hash_apply returns.
LEMMA ApplyDoneStep ==
  ASSUME Whole(ht, stack, owed), stack # <<>>, ApplyDone
  PROVE  Whole(ht', stack', owed)
  <1> DEFINE f == Head(stack)
             r == Tail(stack)
  <1>1. Apply(f) /\ f.dead = NULL /\ stack' = r /\ ht' = ht
    BY DEF ApplyDone, Applying, Apply, Top, Return
  <1>2. WholeTop(ht, f, r, owed) BY WholePop
  <1> HIDE DEF f, r
  <1>3. Own(ht, f) = {} /\ f.op # "del" BY <1>1 DEF Own, Apply
  <1>4. Whole(ht, r, owed) BY <1>2, <1>3, ReturnStep
  <1> QED BY <1>1, <1>4

\* An element is deleted by the innermost call, whose destructor is to run.
LEMMA DeleteTop ==
  ASSUME NEW o, NEW t, NEW u, NEW f, NEW r, NEW s, NEW i, WholeTop(t, f, r, o), Holds(t, In(t), s),
         TakenOut(t, u, s, i), u.nNumOfElements = (t.nNumOfElements - 1) % SizeLimit,
         f.dead = NULL, f.op \in {"apply", "reverse_apply", "destroy"},
         NEW g \in FrameType, g.op = f.op, g.dead = s[i],
         Apply(g) => g.p \in In(u) \cup {NULL}
  PROVE  Whole(u, <<g>> \o r, o)
  <1> DEFINE p == s[i]
  <1>1. /\ IsTable(t) /\ StackOK(t, r) /\ In(t) \subseteq t.live
        /\ Owned(t, r) \subseteq t.live \ In(t) /\ t.live \subseteq Bucket
        /\ t.live = In(t) \cup Own(t, f) \cup Owned(t, r) /\ NULL \notin Bucket
    BY TopFacts
  <1>2. /\ Leaves(t, u, r) /\ p \notin Owned(t, r) /\ p \in Bucket \ In(u)
        /\ Cardinality(In(t)) = Cardinality(In(u)) + 1
        /\ Cardinality(In(t)) \in Nat /\ Cardinality(In(u)) \in Nat
    BY <1>1, LeavesTaken
  <1>3. /\ In(u) = In(t) \ {p} /\ p \in In(t) /\ u.live = t.live
        /\ t.pListNext[p] \in In(u) \cup {NULL}
        /\ \A q \in Bucket \ In(u) : u.pListNext[q] = t.pListNext[q]
    BY DEF TakenOut
  <1>d. g.dead = p OBVIOUS
  <1> HIDE DEF p
  <1>4. Own(t, f) = {} /\ Own(u, g) = {p} BY <1>1, <1>2, <1>d DEF Own
  <1>5. Apply(g) => Goes(u, g) \in In(u) \cup {NULL} BY <1>2, <1>3, <1>d DEF Goes
  <1>6. Apply(g) => Goes(u, g) \notin Owned(t, r) /\ Goes(u, g) # p BY <1>1, <1>2, <1>3, <1>5
  <1>7. FrameOK(u, g)
    <2>1. g.op # "update" /\ g.op # "del" /\ g.op # "clean" /\ ~Sorting(g) BY DEF Sorting
    <2>2. Own(u, g) \subseteq u.live \ In(u) BY <1>1, <1>2, <1>3, <1>4
    <2> QED BY <1>4, <1>6, <2>1, <2>2 DEF FrameOK
  <1>8. Counted(u, Cardinality(In(u)) + Cardinality(Del(r)) + Off(g), o)
    <2>1. StackOK(u, r) BY <1>2, StackFrame DEF Leaves
    <2>2. /\ Cardinality(In(t)) + Cardinality(Del(r)) <= NB /\ NB \in Nat
          /\ Cardinality(Del(r)) \in Nat
      BY <1>1, CountBound
    <2>3. Counted(t, Cardinality(In(t)) + Cardinality(Del(r)) + 0, o)
      BY DEF WholeTop, Off
    <2>4. LET n == Cardinality(In(t)) + Cardinality(Del(r)) + 0
          IN  n \in 0 .. NB /\ n + -1 \in 0 .. NB
              /\ n + -1 = Cardinality(In(u)) + Cardinality(Del(r)) + Off(g)
      BY <1>2, <2>2 DEF Off
    <2>5. t.nNumOfElements \in Int BY <1>1, HashAssumption DEF IsTable, Table
    <2>6. u.nNumOfElements = (t.nNumOfElements + -1) % SizeLimit
      <3>1. t.nNumOfElements - 1 = t.nNumOfElements + -1 BY <2>5
      <3> QED BY <3>1
    <2> QED BY <2>3, <2>4, <2>6, CountedMore
  <1>9. Fits(t, u, g, r, o)
    <2>1. Own(u, g) \cap Owned(t, r) = {} BY <1>2, <1>4
    <2>2. u.live = In(u) \cup Own(u, g) \cup Owned(t, r) BY <1>1, <1>3, <1>4
    <2>3. g.op = "destroy" => r = <<>> BY DEF WholeTop
    <2>4. ~Sorting(g) BY DEF Sorting
    <2> QED BY <1>6, <1>7, <1>8, <2>1, <2>2, <2>3, <2>4 DEF Fits
  <1> QED BY <1>2, <1>9, WholeNewTop

\* zend_hash_apply_deleter, up to the destructor.
LEMMA ApplyRemoveStep ==
  ASSUME Whole(ht, stack, owed), stack # <<>>, BucketsLive, ApplyRemove
  PROVE  Whole(ht', stack', owed)
  <1> DEFINE f == Head(stack)
             r == Tail(stack)
             p == f.p
             n == IF f.op = "apply" THEN NULL ELSE ht.pListLast[p]
             g == [f EXCEPT !.p = n, !.dead = p]
  <1>1. PICK s : Holds(ht, In(ht), s) BY DEF Whole
  <1>2. Apply(f) /\ p # NULL /\ f.dead = NULL /\ stack' = <<g>> \o r
    BY DEF ApplyRemove, Applying, Apply, Top, Return
  <1>3. ht' = Forget(Count(Unlist(Unchain(ht, p, ht.pLast[p] = NULL), p), -1), {p})
    BY DEF ApplyRemove, Delete, Top
  <1>4. p \in In(ht) BY <1>2, GoesOn
  <1>5. WholeTop(ht, f, r, owed) BY WholePop
  <1>p. p = f.p OBVIOUS
  <1> HIDE DEF f, r, p
  <1>6. PICK i \in 1 .. Len(s) : p = s[i] BY <1>1, <1>4, Place
  <1>7. TakenOut(ht, ht', s, i) /\ ht'.nNumOfElements = (ht.nNumOfElements - 1) % SizeLimit
    BY <1>1, <1>3, <1>6, DeletedOne
  <1>8. n \in In(ht') \cup {NULL} BY <1>6, <1>7 DEF TakenOut
  <1>9. f \in FrameType /\ In(ht) \subseteq Bucket /\ In(ht') \subseteq Bucket BY <1>5, TopFacts DEF In
  <1> HIDE DEF n
  <1>10. g \in FrameType /\ g.op = f.op /\ g.p = n /\ g.dead = p
    BY <1>4, <1>8, <1>9 DEF FrameType, MaybeBucket
  <1> HIDE DEF g
  <1>11. Whole(ht', <<g>> \o r, owed)
    <2>1. f.op \in {"apply", "reverse_apply", "destroy"} BY <1>2 DEF Apply
    <2>2. g.dead = s[i] BY <1>6, <1>10
    <2> QED BY <1>1, <1>2, <1>5, <1>7, <1>8, <1>10, <2>1, <2>2, DeleteTop DEF Apply
  <1> QED BY <1>2, <1>11

\* zend_hash_graceful_reverse_destroy takes the last element out.
LEMMA DestroyTailStep ==
  ASSUME Whole(ht, stack, owed), stack # <<>>, DestroyTail
  PROVE  Whole(ht', stack', owed)
  <1> DEFINE f == Head(stack)
             r == Tail(stack)
             p == ht.pListTail
             g == [f EXCEPT !.dead = p]
  <1>1. PICK s : Holds(ht, In(ht), s) BY DEF Whole
  <1>2. f.op = "destroy" /\ p # NULL /\ f.dead = NULL /\ stack' = <<g>> \o r
    BY DEF DestroyTail, Top, Return
  <1>3. ht' = Forget(Count(Unlist(Unchain(ht, p, ht.pLast[p] = NULL), p), -1), {p})
    BY DEF DestroyTail, Delete
  <1>4. p \in In(ht) BY <1>1, <1>2, ListEnds
  <1>5. WholeTop(ht, f, r, owed) BY WholePop
  <1> HIDE DEF f, r, p
  <1>6. PICK i \in 1 .. Len(s) : p = s[i] BY <1>1, <1>4, Place
  <1>7. TakenOut(ht, ht', s, i) /\ ht'.nNumOfElements = (ht.nNumOfElements - 1) % SizeLimit
    BY <1>1, <1>3, <1>6, DeletedOne
  <1>9. f \in FrameType /\ In(ht) \subseteq Bucket BY <1>5, TopFacts
  <1>10. g \in FrameType /\ g.op = f.op /\ g.p = f.p /\ g.dead = p
    BY <1>4, <1>9 DEF FrameType, MaybeBucket
  <1> HIDE DEF g
  <1>11. Whole(ht', <<g>> \o r, owed)
    <2>1. f.op \in {"apply", "reverse_apply", "destroy"} BY <1>2
    <2>2. g.dead = s[i] BY <1>6, <1>10
    <2> QED BY <1>1, <1>2, <1>5, <1>7, <1>10, <2>1, <2>2, DeleteTop DEF Apply
  <1> QED BY <1>2, <1>11

\* The innermost call has freed its bucket and has nothing else to free.
LEMMA FreedAll ==
  ASSUME NEW o, NEW t, NEW u, NEW f, NEW r, NEW s, WholeTop(t, f, r, o), FreedTop(t, u, f.dead, r, s),
         f.dead # NULL, f.op \in {"apply", "reverse_apply", "destroy"},
         NEW g \in FrameType, g.op = f.op, g.dead = NULL,
         Apply(g) => g.p = Goes(t, f)
  PROVE  Whole(u, <<g>> \o r, o)
  <1>1. /\ Own(t, f) \subseteq t.live \ In(t) /\ Own(t, f) \cap Owned(t, r) = {}
        /\ t.live = In(t) \cup Own(t, f) \cup Owned(t, r)
    BY TopFacts
  <1>2. Own(t, f) = {f.dead} /\ Own(u, g) = {} BY DEF Own
  <1>3. /\ IsTable(u) /\ In(u) = In(t) /\ Leaves(t, u, r)
        /\ u.nNumOfElements = t.nNumOfElements /\ u.live = t.live \ {f.dead}
    BY DEF FreedTop
  <1>4. Goes(u, g) = g.p BY DEF Goes
  <1>5. Apply(g) => Goes(u, g) \notin Owned(t, r) BY <1>4 DEF WholeTop, Apply
  <1>6. FrameOK(u, g)
    <2>1. g.op # "update" /\ g.op # "del" /\ g.op # "clean" /\ ~Sorting(g) BY DEF Sorting
    <2> QED BY <2>1, <1>2 DEF FrameOK
  <1>7. u.live = In(u) \cup Own(u, g) \cup Owned(t, r) BY <1>1, <1>2, <1>3
  <1>8. Counted(u, Cardinality(In(u)) + Cardinality(Del(r)) + Off(g), o)
    BY <1>3 DEF WholeTop, Off, Counted
  <1>9. (g.op = "destroy" => r = <<>>) /\ ~Sorting(g) BY DEF WholeTop, Sorting
  <1>10. Fits(t, u, g, r, o) BY <1>2, <1>5, <1>6, <1>7, <1>8, <1>9 DEF Fits
  <1> QED BY <1>3, <1>10, WholeNewTop

\* zend_hash_apply_deleter, after the destructor.
LEMMA RemovedStep ==
  ASSUME Whole(ht, stack, owed), stack # <<>>, Removed
  PROVE  Whole(ht', stack', owed)
  <1> DEFINE f == Head(stack)
             r == Tail(stack)
             n == IF f.op = "apply" THEN ht.pListNext[f.dead] ELSE f.p
             g == [f EXCEPT !.p = n, !.dead = NULL]
  <1>1. PICK s : Holds(ht, In(ht), s) BY DEF Whole
  <1>2. Apply(f) /\ f.dead # NULL /\ stack' = <<g>> \o r /\ ht' = pefree(ht, f.dead)
    BY DEF Removed, Applying, Apply, Top, Return
  <1>3. WholeTop(ht, f, r, owed) BY WholePop
  <1> HIDE DEF f, r
  <1>4. FreedTop(ht, ht', f.dead, r, s) BY <1>1, <1>2, <1>3, FreeTop
  <1>5. n = Goes(ht, f) BY <1>2 DEF Goes
  <1>6. f \in FrameType /\ f.dead \in Bucket /\ IsTable(ht) /\ f.p \in MaybeBucket BY <1>2, <1>3, TopFacts
  <1>7. n \in MaybeBucket BY <1>6 DEF IsTable, Table, Ptr, MaybeBucket
  <1> HIDE DEF n
  <1>8. g \in FrameType /\ g.op = f.op /\ g.p = n /\ g.dead = NULL
    BY <1>6, <1>7 DEF FrameType, MaybeBucket
  <1> HIDE DEF g
  <1>9. f.op \in {"apply", "reverse_apply", "destroy"} BY <1>2 DEF Apply
  <1>10. Whole(ht', <<g>> \o r, owed) BY <1>2, <1>3, <1>4, <1>5, <1>8, <1>9, FreedAll
  <1> QED BY <1>2, <1>10

\* zend_hash_graceful_reverse_destroy frees a bucket.
LEMMA TailDestroyedStep ==
  ASSUME Whole(ht, stack, owed), stack # <<>>, TailDestroyed
  PROVE  Whole(ht', stack', owed)
  <1> DEFINE f == Head(stack)
             r == Tail(stack)
             g == [f EXCEPT !.dead = NULL]
  <1>1. PICK s : Holds(ht, In(ht), s) BY DEF Whole
  <1>2. f.op = "destroy" /\ f.dead # NULL /\ stack' = <<g>> \o r /\ ht' = pefree(ht, f.dead)
    BY DEF TailDestroyed, Top, Return
  <1>3. WholeTop(ht, f, r, owed) BY WholePop
  <1> HIDE DEF f, r
  <1>4. FreedTop(ht, ht', f.dead, r, s) BY <1>1, <1>2, <1>3, FreeTop
  <1>6. f \in FrameType BY <1>3, TopFacts
  <1>8. g \in FrameType /\ g.op = f.op /\ g.dead = NULL BY <1>6 DEF FrameType, MaybeBucket
  <1> HIDE DEF g
  <1>9. f.op \in {"apply", "reverse_apply", "destroy"} /\ ~Apply(g) BY <1>2, <1>8 DEF Apply
  <1>10. Whole(ht', <<g>> \o r, owed) BY <1>2, <1>3, <1>4, <1>8, <1>9, FreedAll
  <1> QED BY <1>2, <1>10

\* A new table, with no call that waits.
LEMMA WholeNew == Whole(_zend_hash_init, <<>>, 0)
  <1> DEFINE u == _zend_hash_init
  <1>1. /\ IsTable(u) /\ In(u) = {} /\ Holds(u, In(u), <<>>)
        /\ u.nNumOfElements = 0 /\ u.live = {}
    BY NewTable
  <1> HIDE DEF u
  <1>2. StackOK(u, <<>>) /\ Owned(u, <<>>) = {} BY DEF StackOK, Owned
  <1>3. Cardinality(In(u)) = 0 /\ Cardinality(Del(<<>>)) = 0 BY <1>1, DelEmpty, FS_EmptySet
  <1>4. 0 \in 0 .. NB /\ 0 - 0 = 0 BY HashAssumption, FS_CardinalityType DEF NB
  <1>5. Whole(u, <<>>, 0) BY <1>1, <1>2, <1>3, <1>4 DEF Whole, Counted, Wrap
  <1> QED BY <1>5 DEF u

\* zend_hash_graceful_reverse_destroy is done, and a new table is made.
LEMMA DestroyedStep ==
  ASSUME Whole(ht, stack, owed), stack # <<>>, Destroyed
  PROVE  Whole(ht', stack', owed')
  <1>1. Head(stack).op = "destroy" /\ stack' = Tail(stack) /\ ht' = _zend_hash_init /\ owed' = 0
    BY DEF Destroyed, Top, Return
  <1>2. Tail(stack) = <<>> BY <1>1, WholePop DEF WholeTop
  <1> QED BY <1>1, <1>2, WholeNew

\* A step that changes the order of the list, or the internal pointer.
LEMMA SameElements ==
  ASSUME NEW o, NEW t, NEW u, NEW st, Whole(t, st, o), NEW s, IsTable(u), In(u) = In(t),
         Holds(u, In(u), s), u.nNumOfElements = t.nNumOfElements, u.live = t.live,
         \A q \in Bucket \ In(t) : u.pListNext[q] = t.pListNext[q]
  PROVE  Whole(u, st, o)
  <1>1. /\ IsTable(t) /\ StackOK(t, st) /\ t.live \subseteq Bucket
        /\ Owned(t, st) \subseteq t.live \ In(t)
        /\ t.live = In(t) \cup Owned(t, st)
    BY Facts
  <1>2. \A q \in Owned(t, st) : q \in Bucket \ In(u) /\ q \in u.live BY <1>1
  <1>3. \A q \in Owned(t, st) : u.pListNext[q] = t.pListNext[q] BY <1>2
  <1>4. Leaves(t, u, st) BY <1>1, <1>2, <1>3, LeavesAll
  <1>5. Counted(u, Cardinality(In(u)) + Cardinality(Del(st)), o) BY DEF Whole, Counted
  <1>6. u.live = In(u) \cup Owned(t, st) BY <1>1
  <1> QED BY <1>4, <1>5, <1>6, WholeNoTop

\* The internal pointer moves to an element or off the end.
LEMMA MoveStep ==
  ASSUME Whole(ht, stack, owed), NEW p \in In(ht) \cup {NULL}, Move(p)
  PROVE  Whole(ht', stack', owed)
  <1> DEFINE u == [ht EXCEPT !.pInternalPointer = p]
  <1>1. PICK s : Holds(ht, In(ht), s) BY DEF Whole
  <1>2. ht' = u /\ stack' = stack BY DEF Move
  <1>3. /\ ht \in Table /\ ht.arBuckets \in [0 .. ht.nTableSize - 1 -> MaybeBucket]
    BY <1>1 DEF Holds, IsTable
  <1>4. p \in MaybeBucket BY DEF In, MaybeBucket
  <1>5. u \in Table BY <1>3, <1>4 DEF Table
  <1>6. /\ u.nTableSize = ht.nTableSize /\ u.arBuckets = ht.arBuckets
        /\ u.nNumOfElements = ht.nNumOfElements /\ u.live = ht.live /\ u.key = ht.key
        /\ u.pListHead = ht.pListHead /\ u.pListTail = ht.pListTail
        /\ u.pInternalPointer = p
        /\ u.pNext = ht.pNext /\ u.pLast = ht.pLast
        /\ u.pListNext = ht.pListNext /\ u.pListLast = ht.pListLast
    BY <1>3 DEF Table
  <1> HIDE DEF u
  <1>7. IsTable(u) /\ In(u) = In(ht) BY <1>3, <1>5, <1>6 DEF IsTable, In
  <1>8. Holds(u, In(ht), s) BY <1>1, <1>6, <1>7, HoldsFrame
  <1>9. Holds(u, In(u), s) BY <1>7, <1>8
  <1> QED BY <1>2, <1>6, <1>7, <1>9, SameElements

\* The calls that move the internal pointer.
LEMMA PointerStep ==
  ASSUME Whole(ht, stack, owed), fe \in [pos : MaybeBucket, h : 0 .. 2 * LongMax + 1],
         \/ zend_hash_internal_pointer_reset \/ zend_hash_internal_pointer_end
         \/ zend_hash_move_forward \/ zend_hash_move_backwards \/ zend_hash_set_pointer
  PROVE  Whole(ht', stack', owed)
  <1>1. PICK s : Holds(ht, In(ht), s) BY DEF Whole
  <1>2. ht.pInternalPointer \in In(ht) \cup {NULL} /\ IsTable(ht) BY <1>1 DEF Holds
  <1>3. CASE zend_hash_internal_pointer_reset
    BY <1>1, <1>3, ListEnds, MoveStep DEF zend_hash_internal_pointer_reset
  <1>4. CASE zend_hash_internal_pointer_end
    BY <1>1, <1>4, ListEnds, MoveStep DEF zend_hash_internal_pointer_end
  <1>5. CASE zend_hash_move_forward
    BY <1>1, <1>2, <1>5, Neighbours, MoveStep DEF zend_hash_move_forward
  <1>6. CASE zend_hash_move_backwards
    BY <1>1, <1>2, <1>6, Neighbours, MoveStep DEF zend_hash_move_backwards
  <1>7. CASE zend_hash_set_pointer
    <2> DEFINE x == fe.h % ht.nTableSize
    <2>1. Move(fe.pos) /\ (fe.pos = NULL \/ fe.pos \in ToSet(Chain(ht, x)))
      BY <1>7 DEF zend_hash_set_pointer
    <2>2. x \in 0 .. ht.nTableSize - 1
      <3>1. ht.nTableSize \in Nat \ {0} BY <1>2 DEF IsTable, Table
      <3>2. fe.h \in Int BY HashAssumption
      <3> QED BY <3>1, <3>2
    <2> HIDE DEF x
    <2>3. PICK c : ChainHas(ht, x, In(ht), c) BY <1>1, <2>2 DEF Holds, Chains
    <2>4. Chain(ht, x) = c
      <3>1. ht.pNext \in Ptr BY <1>2 DEF IsTable, Table
      <3>2. Linked(ht.pNext, ht.arBuckets[x], c) BY <2>3 DEF ChainHas, Dll
      <3> QED BY <3>1, <3>2, PathLinked DEF Chain
    <2>5. fe.pos \in In(ht) \cup {NULL} BY <2>1, <2>3, <2>4 DEF ChainHas
    <2> QED BY <2>1, <2>5, MoveStep
  <1> QED BY <1>3, <1>4, <1>5, <1>6, <1>7

\* zend_hash_sort, up to the comparisons.
LEMMA SortStep ==
  ASSUME Whole(ht, stack, owed), NEW renumber \in BOOLEAN, zend_hash_sort(renumber)
  PROVE  Whole(ht', stack', owed)
  <1>1. PICK s : Holds(ht, In(ht), s) BY DEF Whole
  <1>2. /\ List(ht) = s /\ ToSet(s) = In(ht) /\ s \in Seq(Bucket) /\ Len(s) \in Nat
    BY <1>1, ListFound, DllType DEF Holds, ListIs, IsTable
  <1> DEFINE call == Frame(IF renumber THEN "sort" ELSE "asort", NULL, NULL, NULL)
             over == Frame("overrun", NULL, NULL, NULL)
             g == [call EXCEPT !.arTmp = s]
  <1>3. /\ ht' = ht
        /\ \/ Len(s) \in 1 .. ht.nNumOfElements /\ stack' = <<g>> \o stack
           \/ stack' = <<over>> \o stack
    BY <1>2 DEF zend_hash_sort, Enter
  <1>4. CASE Len(s) \in 1 .. ht.nNumOfElements /\ stack' = <<g>> \o stack
    <2>1. g \in FrameType /\ Sorting(g) /\ g.dead = NULL /\ g.arTmp = s
      BY <1>2 DEF Frame, FrameType, Op, MaybeBucket, Sorting
    <2>2. s # <<>> BY <1>4
    <2> HIDE DEF g
    <2> QED BY <2>1, <2>2, <1>2, <1>3, <1>4, EnterStep DEF Apply, Sorting
  <1>5. CASE stack' = <<over>> \o stack
    <2>1. over \in FrameType /\ over.op = "overrun" /\ over.dead = NULL
      BY DEF Frame, FrameType, Op, MaybeBucket
    <2> HIDE DEF over
    <2> QED BY <2>1, <1>3, <1>5, EnterStep DEF Apply, Sorting
  <1> QED BY <1>3, <1>4, <1>5

\* The buckets that zend_hash_sort has sorted are elements if they are not freed.
LEMMA SortReady ==
  ASSUME Whole(ht, stack, owed), stack # <<>>, BucketsLive, Sorting(Head(stack))
  PROVE  LET f == Head(stack)
         IN  /\ Whole(ht, Tail(stack), owed)
             /\ ToSet(f.arTmp) \subseteq In(ht) /\ ToSet(f.arTmp) # {}
  <1> DEFINE f == Head(stack)
             r == Tail(stack)
  <1>1. WholeTop(ht, f, r, owed) BY WholePop
  <1>2. ToSet(f.arTmp) \subseteq ht.live
    <2>1. stack \in Seq(FrameType) BY Facts
    <2>2. 1 \in DOMAIN stack /\ f = stack[1] BY <2>1
    <2> QED BY <2>2 DEF BucketsLive, Frames
  <1>3. Sorting(f) OBVIOUS
  <1> HIDE DEF f, r
  <1>4. f.dead = NULL /\ f.arTmp # <<>> /\ f.arTmp \in Seq(Bucket)
    BY <1>1, <1>3 DEF WholeTop, FrameOK, FrameType
  <1>5. Own(ht, f) = {} /\ f.op # "del" BY <1>3, <1>4 DEF Own, Sorting
  <1>6. ToSet(f.arTmp) \cap Owned(ht, r) = {} /\ ht.live = In(ht) \cup Own(ht, f) \cup Owned(ht, r)
    BY <1>1, <1>3 DEF WholeTop
  <1>7. ToSet(f.arTmp) # {}
    <2>1. 1 \in DOMAIN f.arTmp BY <1>4
    <2> QED BY <2>1 DEF ToSet
  <1>8. Whole(ht, r, owed) BY <1>1, <1>5, ReturnStep
  <1> QED BY <1>2, <1>5, <1>6, <1>7, <1>8 DEF f, r

\* zend_hash_sort, after the comparisons: either the buckets are those of the list, and
\* get another order, or the list is torn.
LEMMA SortDoneStep ==
  ASSUME Whole(ht, stack, owed), stack # <<>>, BucketsLive, SortDone
  PROVE  /\ torn' \in BOOLEAN
         /\ torn' => Tabular(ht') /\ ht'.live = ht.live
         /\ ~torn' => Whole(ht', stack', owed)
  <1> DEFINE f == Head(stack)
             S == ToSet(f.arTmp)
  <1>1. PICK c : Holds(ht, In(ht), c) BY DEF Whole
  <1>2. Sorting(f) /\ stack' = Tail(stack) /\ torn' = (ToSet(List(ht)) # S)
    BY DEF SortDone, Sorting, Top, Return
  <1>3. Whole(ht, Tail(stack), owed) /\ S \subseteq In(ht) /\ S # {} BY <1>2, SortReady
  <1>4. In(ht) \subseteq Bucket /\ In(ht) \subseteq ht.live BY Facts
  <1>5. PICK s \in SetToSeqs(S) :
          ht' = IF f.op = "sort" THEN Renumber(Sorted(ht, s), s) ELSE Sorted(ht, s)
    BY DEF SortDone, Top
  <1> HIDE DEF f, S
  <1>6. Order(s, S)
    <2>1. S \in SUBSET Bucket BY <1>3, <1>4
    <2> QED BY <2>1, <1>5, OrderOf
  <1>7. Len(s) # 0
    <2>1. ToSet(s) = S /\ DOMAIN s = 1 .. Len(s) BY <1>6 DEF Order
    <2> QED BY <2>1, <1>3 DEF ToSet
  <1>8. ASSUME torn' PROVE Tabular(ht') /\ ht'.live = ht.live
    <2>1. ht' \in {Sorted(ht, s), Renumber(Sorted(ht, s), s)} BY <1>5
    <2>2. S \in SUBSET In(ht) BY <1>3
    <2> QED BY <2>1, <2>2, <1>1, <1>4, <1>6, <1>7, TornTable
  <1>9. ASSUME ~torn' PROVE Whole(ht', stack', owed)
    <2>1. S = In(ht)
      <3>1. List(ht) = c /\ ToSet(c) = In(ht) BY <1>1, ListFound DEF Holds, IsTable
      <3> QED BY <3>1, <1>2, <1>9
    <2> DEFINE u == Sorted(ht, s)
    <2>2. InOrder(ht, u, s) BY <2>1, <1>1, <1>6, <1>7, SortedOne
    <2> HIDE DEF u
    <2>3. /\ IsTable(u) /\ In(u) = In(ht) /\ Holds(u, In(u), s)
          /\ u.nNumOfElements = ht.nNumOfElements /\ u.live = ht.live
          /\ u.pInternalPointer = s[1]
          /\ \A q \in Bucket \ In(u) : u.pListNext[q] = ht.pListNext[q]
      BY <2>2 DEF InOrder
    <2>4. Whole(u, Tail(stack), owed) BY <2>3, <1>3, SameElements
    <2>5. CASE ht' = u BY <2>4, <2>5, <1>2
    <2>6. CASE ht' = Renumber(u, s)
      <3>1. InOrder(u, ht', s) BY <2>3, <2>6, <1>7, Renumbered
      <3>2. /\ IsTable(ht') /\ In(ht') = In(u) /\ Holds(ht', In(ht'), s)
            /\ ht'.nNumOfElements = u.nNumOfElements /\ ht'.live = u.live
            /\ \A q \in Bucket \ In(ht') : ht'.pListNext[q] = u.pListNext[q]
        BY <3>1 DEF InOrder
      <3>3. \A q \in Bucket \ In(u) : ht'.pListNext[q] = u.pListNext[q] BY <3>2
      <3>4. Whole(ht', Tail(stack), owed) BY <2>4, <3>2, <3>3, SameElements
      <3> QED BY <3>4, <1>2
    <2> QED BY <2>5, <2>6, <1>5 DEF u
  <1> QED BY <1>2, <1>8, <1>9

\* A sound table, with no call that waits ...
LEMMA WholeIdle ==
  ASSUME NEW o, NEW u, NEW s, IsTable(u), Holds(u, In(u), s), u.live = In(u),
         Counted(u, Cardinality(In(u)), o)
  PROVE  Whole(u, <<>>, o)
  <1>1. StackOK(u, <<>>) /\ Owned(u, <<>>) = {} BY DEF StackOK, Owned
  <1>2. Cardinality(In(u)) \in Nat /\ Cardinality(Del(<<>>)) = 0 BY <1>1, CountBound, DelEmpty
  <1> QED BY <1>1, <1>2 DEF Whole, Counted

\* ... has all of its buckets in the table.
LEMMA IdleWhole ==
  ASSUME NEW o, NEW u, Whole(u, <<>>, o)
  PROVE  /\ u.live = In(u) /\ Counted(u, Cardinality(In(u)), o) /\ IsTable(u)
         /\ IsFiniteSet(In(u)) /\ Cardinality(In(u)) \in 0 .. NB /\ NB \in Nat
  <1>1. StackOK(u, <<>>) /\ Owned(u, <<>>) = {} BY DEF Whole, Owned
  <1>2. /\ Cardinality(In(u)) \in Nat /\ Cardinality(Del(<<>>)) = 0 /\ IsFiniteSet(In(u))
        /\ Cardinality(In(u)) + Cardinality(Del(<<>>)) <= NB /\ NB \in Nat
    BY <1>1, CountBound, DelEmpty
  <1> QED BY <1>1, <1>2 DEF Whole, Counted

\* The element at place i of the list is gone for good.
Dropped(t, u, s, i) ==
    /\ IsTable(u) /\ In(u) = In(t) \ {s[i]} /\ Holds(u, In(u), Cut(s, i)) /\ s[i] \in In(t)
    /\ u.nNumOfElements = (t.nNumOfElements - 1) % SizeLimit /\ u.live = t.live \ {s[i]}
    /\ u.pInternalPointer = IF t.pInternalPointer = s[i] THEN t.pListNext[s[i]]
                            ELSE t.pInternalPointer
    /\ \A q \in In(u) : u.key[q] = t.key[q]

\* zend_hash_update_current_key_ex deletes an element.
LEMMA DroppedOne ==
  ASSUME NEW t, NEW s, Holds(t, In(t), s), NEW i \in 1 .. Len(s)
  PROVE  Dropped(t, Count(pefree(Unlink(t, s[i]), s[i]), -1), s, i)
  <1> DEFINE p == s[i]
             x == Unlink(t, p)
             y == pefree(x, p)
             u == Count(y, -1)
  <1>1. TakenOut(t, x, s, i) /\ x.nNumOfElements = t.nNumOfElements BY Unlinked
  <1>0. t.nNumOfElements \in Int BY HashAssumption DEF Holds, IsTable, Table
  <1> HIDE DEF x
  <1>2. /\ IsTable(x) /\ In(x) = In(t) \ {p} /\ Holds(x, In(x), Cut(s, i)) /\ p \in In(t)
        /\ x.live = t.live
        /\ x.pInternalPointer = IF t.pInternalPointer = p THEN t.pListNext[p]
                                ELSE t.pInternalPointer
        /\ \A q \in In(x) : x.key[q] = t.key[q]
    BY <1>1 DEF TakenOut
  <1> HIDE DEF p
  <1>3. p \in Bucket \ In(x) BY <1>2 DEF In
  <1>4. /\ IsTable(y) /\ In(y) = In(x) /\ Holds(y, In(y), Cut(s, i))
        /\ y.nNumOfElements = x.nNumOfElements /\ y.live = x.live \ {p}
        /\ y.pInternalPointer = x.pInternalPointer
        /\ \A q \in In(x) : y.key[q] = x.key[q]
    BY <1>2, <1>3, Freed
  <1> HIDE DEF y
  <1>5. -1 \in Int /\ y.pInternalPointer \in In(y) \cup {NULL} BY <1>4 DEF Holds
  <1>6. /\ IsTable(u)
        /\ u.nTableSize = y.nTableSize /\ u.arBuckets = y.arBuckets
        /\ u.nNextFreeElement = y.nNextFreeElement /\ u.live = y.live
        /\ u.pListHead = y.pListHead /\ u.pListTail = y.pListTail
        /\ u.pInternalPointer = y.pInternalPointer
        /\ u.key = y.key /\ u.pNext = y.pNext /\ u.pLast = y.pLast
        /\ u.pListNext = y.pListNext /\ u.pListLast = y.pListLast
        /\ u.nNumOfElements = (y.nNumOfElements + -1) % SizeLimit
    BY <1>4, <1>5, CountFields
  <1> HIDE DEF u
  <1>7. In(u) = In(y) BY <1>6 DEF In
  <1>8. Holds(u, In(u), Cut(s, i))
    <2>1. Holds(u, In(y), Cut(s, i)) BY <1>4, <1>5, <1>6, HoldsFrame
    <2> QED BY <2>1, <1>7
  <1>9. u.nNumOfElements = (t.nNumOfElements - 1) % SizeLimit
    <2>1. y.nNumOfElements + -1 = t.nNumOfElements - 1 BY <1>0, <1>1, <1>4
    <2> QED BY <2>1, <1>6
  <1>10. /\ u.live = t.live \ {p}
         /\ u.pInternalPointer = IF t.pInternalPointer = p THEN t.pListNext[p]
                                 ELSE t.pInternalPointer
         /\ \A q \in In(u) : u.key[q] = t.key[q]
    BY <1>2, <1>4, <1>6, <1>7
  <1>11. Dropped(t, u, s, i) BY <1>2, <1>4, <1>6, <1>7, <1>8, <1>9, <1>10 DEF Dropped, p
  <1> QED BY <1>11 DEF u, y, x, p

\* ... and the table stays sound.
LEMMA DroppedWhole ==
  ASSUME NEW o, NEW t, NEW u, NEW s, NEW i, Whole(t, <<>>, o), Dropped(t, u, s, i)
  PROVE  Whole(u, <<>>, o)
  <1>1. /\ t.live = In(t) /\ Counted(t, Cardinality(In(t)), o) /\ IsTable(t)
        /\ IsFiniteSet(In(t)) /\ Cardinality(In(t)) \in 0 .. NB /\ NB \in Nat
    BY IdleWhole
  <1> DEFINE p == s[i]
  <1>2. /\ IsTable(u) /\ In(u) = In(t) \ {p} /\ Holds(u, In(u), Cut(s, i)) /\ p \in In(t)
        /\ u.nNumOfElements = (t.nNumOfElements - 1) % SizeLimit /\ u.live = t.live \ {p}
    BY DEF Dropped
  <1> HIDE DEF p
  <1>3. IsFiniteSet(In(u)) /\ Cardinality(In(u)) = Cardinality(In(t)) - 1
    BY <1>1, <1>2, FS_RemoveElement
  <1>4. Cardinality(In(u)) \in Nat BY <1>3, FS_CardinalityType
  <1>5. Counted(u, Cardinality(In(u)), o)
    <2>1. LET n == Cardinality(In(t))
          IN  n \in 0 .. NB /\ n + -1 \in 0 .. NB /\ n + -1 = Cardinality(In(u))
      BY <1>1, <1>3, <1>4
    <2>2. t.nNumOfElements \in Int BY <1>1, HashAssumption DEF IsTable, Table
    <2>3. u.nNumOfElements = (t.nNumOfElements + -1) % SizeLimit
      <3>1. t.nNumOfElements - 1 = t.nNumOfElements + -1 BY <2>2
      <3> QED BY <3>1, <1>2
    <2> QED BY <2>1, <2>3, <1>1, CountedMore
  <1>6. u.live = In(u) BY <1>1, <1>2
  <1> QED BY <1>2, <1>5, <1>6, WholeIdle

\* Rekey, whichever bucket it takes.
LEMMA RekeyWhole ==
  ASSUME NEW o, NEW t, Whole(t, <<>>, o), NEW s, Holds(t, In(t), s), NEW i \in 1 .. Len(s),
         NEW k \in Key, \A q \in In(t) : t.key[q] # k, NEW u \in Rekey(t, s[i], k)
  PROVE  /\ Whole(u, <<>>, o)
         /\ \E b : Rekeyed(t, u, s, s[i], b, k, [s EXCEPT ![i] = b]) /\ b \in Bucket
                   /\ (b = s[i] \/ b \notin In(t))
  <1> DEFINE p == s[i]
             a == Unchain(t, p, t.pLast[p] = NULL)
             v(b) == IF b = p THEN a ELSE Replace(a, p, b)
  <1>1. /\ t.live = In(t) /\ Counted(t, Cardinality(In(t)), o) /\ IsTable(t)
        /\ IsFiniteSet(In(t)) /\ Cardinality(In(t)) \in Nat
    BY IdleWhole
  <1>2. p \in In(t)
    <2>1. Dll(t.pListNext, t.pListLast, t.pListHead, s) /\ ToSet(s) = In(t) BY DEF Holds, ListIs
    <2>2. ToSet(s) = {s[j] : j \in 1 .. Len(s)} BY <2>1, DllType
    <2> QED BY <2>1, <2>2
  <1>3. PICK b \in {p} \cup (Bucket \ t.live) :
           u = CONNECT_TO_BUCKET_DLLIST([v(b) EXCEPT !.key[b] = k], b)
    BY DEF Rekey
  <1>4. Rebucketed(t, p, b, v(b)) BY DEF Rebucketed
  <1>5. In(t) \subseteq t.live /\ In(t) \subseteq Bucket BY <1>1 DEF In
  <1>6. Rekeyed(t, u, s, p, b, k, [s EXCEPT ![i] = b])
    <2> DEFINE w == v(b)
    <2>1. u = CONNECT_TO_BUCKET_DLLIST([w EXCEPT !.key[b] = k], b) /\ Rebucketed(t, p, b, w)
      BY <1>3, <1>4
    <2> HIDE DEF w, v, a
    <2>2. b \in {s[i]} \cup (Bucket \ t.live) BY <1>3
    <2>3. Rebucketed(t, s[i], b, w) BY <2>1
    <2>4. u = CONNECT_TO_BUCKET_DLLIST([w EXCEPT !.key[b] = k], b) BY <2>1
    <2> HIDE DEF p
    <2>5. Rekeyed(t, u, s, s[i], b, k, [s EXCEPT ![i] = b])
      BY <1>5, <2>2, <2>3, <2>4, RekeyedOne
    <2> QED BY <2>5 DEF p
  <1> HIDE DEF p, v
  <1>7. /\ IsTable(u) /\ In(u) = (In(t) \ {p}) \cup {b} /\ Holds(u, In(u), [s EXCEPT ![i] = b])
        /\ u.nNumOfElements = t.nNumOfElements /\ u.live = (t.live \ {p}) \cup {b}
    BY <1>6 DEF Rekeyed
  <1>8. b \in Bucket /\ b \notin In(t) \ {p} /\ (b = p \/ b \notin In(t)) BY <1>1, <1>2, <1>3, <1>5
  <1>9. Cardinality(In(u)) = Cardinality(In(t))
    <2>1. IsFiniteSet(In(t) \ {p}) /\ Cardinality(In(t) \ {p}) = Cardinality(In(t)) - 1
      BY <1>1, <1>2, FS_RemoveElement
    <2>2. Cardinality(In(u)) = Cardinality(In(t) \ {p}) + 1 BY <1>7, <1>8, <2>1, FS_AddElement
    <2> QED BY <1>1, <2>1, <2>2
  <1>10. u.live = In(u) BY <1>1, <1>7
  <1>11. Whole(u, <<>>, o) BY <1>1, <1>7, <1>9, <1>10, WholeIdle DEF Counted
  <1> QED BY <1>6, <1>8, <1>11 DEF p

\* zend_hash_update_current_key_ex.
LEMMA RekeyStep ==
  ASSUME Whole(ht, stack, owed), NEW k \in Key, NEW mode,
         zend_hash_update_current_key_ex(k, mode)
  PROVE  Whole(ht', stack', owed)
  <1> DEFINE p == ht.pInternalPointer
             q == Find(ht, k)
             Without(b) == Count(pefree(Unlink(ht, b), b), -1)
  <1>1. PICK s : Holds(ht, In(ht), s) BY DEF Whole
  <1>2. /\ stack = <<>> /\ stack' = stack /\ p # NULL /\ ht.key[p] # k
        /\ \/ q = NULL /\ ht' \in Rekey(ht, p, k)
           \/ q # NULL /\ ht' = Without(p)
           \/ q # NULL /\ ht' \in Rekey(Without(q), p, k)
    BY DEF zend_hash_update_current_key_ex
  <1>3. p \in In(ht) BY <1>1, <1>2 DEF Holds
  <1>4. \/ q = NULL /\ \A x \in In(ht) : ht.key[x] # k
        \/ /\ q \in In(ht) /\ q # NULL /\ ht.key[q] = k
           /\ \A x \in In(ht) : ht.key[x] = k => x = q
    BY <1>1, Found
  <1>5. Whole(ht, <<>>, owed) BY <1>2
  <1> HIDE DEF p, q
  <1>6. PICK i \in 1 .. Len(s) : p = s[i] BY <1>1, <1>3, Place
  <1>7. CASE q = NULL /\ ht' \in Rekey(ht, p, k)
    <2>1. \A x \in In(ht) : ht.key[x] # k BY <1>4, <1>7
    <2>2. Whole(ht', <<>>, owed) BY <1>1, <1>5, <1>6, <1>7, <2>1, RekeyWhole
    <2> QED BY <1>2, <2>2
  <1>8. CASE q # NULL /\ ht' = Without(p)
    <2>1. Dropped(ht, ht', s, i) BY <1>1, <1>6, <1>8, DroppedOne
    <2>2. Whole(ht', <<>>, owed) BY <1>5, <2>1, DroppedWhole
    <2> QED BY <1>2, <2>2
  <1>9. CASE q # NULL /\ ht' \in Rekey(Without(q), p, k)
    <2> DEFINE t == Without(q)
    <2>1. q \in In(ht) /\ ht.key[q] = k /\ \A x \in In(ht) : ht.key[x] = k => x = q BY <1>4, <1>9
    <2>2. PICK j \in 1 .. Len(s) : q = s[j] BY <1>1, <2>1, Place
    <2>3. Dropped(ht, t, s, j) BY <1>1, <2>2, DroppedOne
    <2>4. ht' \in Rekey(t, p, k) BY <1>9
    <2> HIDE DEF t
    <2>5. Whole(t, <<>>, owed) BY <1>5, <2>3, DroppedWhole
    <2>6. /\ In(t) = In(ht) \ {q} /\ Holds(t, In(t), Cut(s, j))
          /\ \A x \in In(t) : t.key[x] = ht.key[x]
      BY <2>2, <2>3 DEF Dropped
    <2>7. p \in In(t) /\ \A x \in In(t) : t.key[x] # k BY <1>2, <1>3, <2>1, <2>6
    <2> DEFINE c == Cut(s, j)
    <2>8. Holds(t, In(t), c) BY <2>6
    <2> HIDE DEF c
    <2>9. PICK m \in 1 .. Len(c) : p = c[m] BY <2>7, <2>8, Place
    <2>10. Whole(ht', <<>>, owed) BY <2>4, <2>5, <2>7, <2>8, <2>9, RekeyWhole
    <2> QED BY <1>2, <2>10
  <1> QED BY <1>2, <1>7, <1>8, <1>9

\* h of a key is an ulong.
LEMMA UlongType ==
  ASSUME NEW k \in Key
  PROVE  Ulong(k) \in 0 .. 2 * LongMax + 1
  <1>1. LongMax \in Nat /\ 2 * LongMax + 2 \in Nat \ {0} BY HashAssumption
  <1>2. CASE k \in StrKey BY <1>2, HashAssumption DEF Ulong
  <1>3. CASE k \notin StrKey
    <2>1. k \in Int BY <1>3, <1>1 DEF Key, Index
    <2>2. k % (2 * LongMax + 2) \in 0 .. (2 * LongMax + 2) - 1 BY <2>1, <1>1
    <2>3. (2 * LongMax + 2) - 1 = 2 * LongMax + 1 BY <1>1
    <2> QED BY <1>3, <2>2, <2>3 DEF Ulong
  <1> QED BY <1>2, <1>3

\* zend_hash_get_pointer: what a loop saves.
LEMMA GetPointerStep ==
  ASSUME IInv, ~torn, zend_hash_get_pointer
  PROVE  IInv'
  <1> DEFINE p == ht.pInternalPointer
  <1>1. PICK s : Holds(ht, In(ht), s) BY DEF IInv, Whole
  <1>2. /\ ht' = ht /\ stack' = stack /\ owed' = owed /\ torn' = torn
        /\ fe' = [pos |-> p, h |-> IF p = NULL THEN 0 ELSE Ulong(ht.key[p])]
    BY DEF zend_hash_get_pointer
  <1>3. IsTable(ht) /\ p \in In(ht) \cup {NULL} BY <1>1 DEF Holds
  <1> HIDE DEF p
  <1>4. p \in MaybeBucket BY <1>3 DEF In, MaybeBucket
  <1> DEFINE h == IF p = NULL THEN 0 ELSE Ulong(ht.key[p])
  <1>5. h \in 0 .. 2 * LongMax + 1
    <2>1. LongMax \in Nat BY HashAssumption
    <2>2. CASE p = NULL BY <2>1, <2>2
    <2>3. CASE p # NULL
      <3>1. ht.key[p] \in Key BY <1>3, <2>3, KeyOf
      <3> QED BY <2>3, <3>1, UlongType
    <2> QED BY <2>2, <2>3
  <1>6. fe' = [pos |-> p, h |-> h] BY <1>2
  <1> HIDE DEF h
  <1>7. fe' \in [pos : MaybeBucket, h : 0 .. 2 * LongMax + 1] BY <1>4, <1>5, <1>6
  <1>8. Whole(ht', stack', owed') BY <1>2 DEF IInv
  <1>9. torn' \in BOOLEAN /\ ~torn' BY <1>2 DEF IInv
  <1> QED BY <1>7, <1>8, <1>9 DEF IInv, MaybeBucket

\* A call from a script, or from a destructor or a comparison.
LEMMA ScriptStep ==
  ASSUME IInv, ~torn, Script
  PROVE  Whole(ht', stack', owed)
  <1>1. /\ Whole(ht, stack, owed) /\ fe \in [pos : MaybeBucket, h : 0 .. 2 * LongMax + 1]
    BY DEF IInv
  <1>2. ScriptKey \subseteq Key BY HashAssumption DEF ScriptKey, Key, Index
  <1>3. CASE \E k \in ScriptKey : zend_hash_add(k) BY <1>1, <1>2, <1>3, AddStep
  <1>4. CASE zend_hash_next_index_insert
    <2>1. ht.nNextFreeElement \in Key BY <1>1 DEF Whole, IsTable, Table, Key
    <2> QED BY <1>1, <1>4, <2>1, AddStep DEF zend_hash_next_index_insert
  <1>5. CASE \E k \in Key : zend_hash_update(k) \/ zend_hash_del_key_or_index(k)
    BY <1>1, <1>5, UpdateStep, DelStep
  <1>6. CASE \E k \in ScriptKey, mode \in Mode : zend_hash_update_current_key_ex(k, mode)
    BY <1>1, <1>2, <1>6, RekeyStep
  <1>7. CASE \E renumber \in BOOLEAN : zend_hash_sort(renumber) BY <1>1, <1>7, SortStep
  <1>9. CASE zend_hash_apply \/ zend_hash_reverse_apply BY <1>1, <1>9, ApplyStep
  <1>10. CASE zend_hash_graceful_reverse_destroy BY <1>1, <1>10, DestroyStep
  <1>11. CASE \/ zend_hash_internal_pointer_reset \/ zend_hash_internal_pointer_end
              \/ zend_hash_move_forward \/ zend_hash_move_backwards \/ zend_hash_set_pointer
    BY <1>1, <1>11, PointerStep
  <1> QED BY <1>3, <1>4, <1>5, <1>6, <1>7, <1>9, <1>10, <1>11 DEF Script

\* A call goes on, once the destructor it waited for has returned.
LEMMA ResumeStep ==
  ASSUME IInv, ~torn, BucketsLive, Resume
  PROVE  Whole(ht', stack', owed)
  <1>1. Whole(ht, stack, owed) /\ stack # <<>> BY DEF IInv, Resume
  <1>2. CASE UpdateData BY <1>1, <1>2, UpdateDataStep
  <1>3. CASE Deleted BY <1>1, <1>3, DeletedStep
  <1>4. CASE Clean BY <1>1, <1>4, CleanStep
  <1>5. CASE Cleaned BY <1>1, <1>5, CleanedStep
  <1>6. CASE CleanDone BY <1>1, <1>6, CleanDoneStep
  <1>7. CASE ApplyKeep BY <1>1, <1>7, ApplyKeepStep
  <1>8. CASE ApplyRemove BY <1>1, <1>8, ApplyRemoveStep
  <1>9. CASE Removed BY <1>1, <1>9, RemovedStep
  <1>10. CASE ApplyDone BY <1>1, <1>10, ApplyDoneStep
  <1>11. CASE DestroyTail BY <1>1, <1>11, DestroyTailStep
  <1>12. CASE TailDestroyed BY <1>1, <1>12, TailDestroyedStep
  <1> QED BY <1>2, <1>3, <1>4, <1>5, <1>6, <1>7, <1>8, <1>9, <1>10, <1>11, <1>12
          DEF Resume

\* The frames of a stack, as the places of a sequence.
LEMMA FramesAt ==
  ASSUME Whole(ht, stack, owed)
  PROVE  /\ stack \in Seq(FrameType) /\ Frames = {stack[i] : i \in 1 .. Len(stack)}
         /\ Deleting = Del(stack)
  <1>1. stack \in Seq(FrameType) BY Facts
  <1>2. DOMAIN stack = 1 .. Len(stack) BY <1>1
  <1> QED BY <1>1, <1>2 DEF Frames, Deleting, Del

\* A bucket whose destructor runs is there.
LEMMA DeadLive ==
  ASSUME Whole(ht, stack, owed), NEW f \in Frames
  PROVE  f.dead \in ht.live \cup {NULL}
  <1>1. PICK i \in 1 .. Len(stack) : f = stack[i] BY FramesAt
  <1>2. Own(ht, f) \subseteq Owned(ht, stack) /\ Owned(ht, stack) \subseteq ht.live
    BY <1>1, Facts DEF Owned
  <1>3. f.dead # NULL => f.dead \in Own(ht, f) BY DEF Own
  <1> QED BY <1>2, <1>3

\* The types of the frames, of the table and of the history.
LEMMA WholeType ==
  ASSUME IInv
  PROVE  TypeOK
  <1>0. CASE torn BY <1>0 DEF IInv
  <1> SUFFICES ASSUME ~torn PROVE TypeOK BY <1>0
  <1>1. Whole(ht, stack, owed) /\ fe \in [pos : Bucket \cup {NULL}, h : 0 .. 2 * LongMax + 1]
    BY DEF IInv, MaybeBucket
  <1>2. PICK s : Holds(ht, In(ht), s) BY <1>1 DEF Whole
  <1>3. IsTable(ht) /\ Chains(ht, In(ht)) /\ In(ht) \subseteq ht.live BY <1>1, <1>2, Facts DEF Holds
  <1>4. {ht.pListHead, ht.pListTail, ht.pInternalPointer} \subseteq ht.live \cup {NULL}
    <2>1. ht.pListHead \in In(ht) \cup {NULL} /\ ht.pListTail \in In(ht) \cup {NULL}
      BY <1>2, ListEnds
    <2>2. ht.pInternalPointer \in In(ht) \cup {NULL} BY <1>2 DEF Holds
    <2> QED BY <2>1, <2>2, <1>3
  <1>5. Tabular(ht) BY <1>3, <1>4, ChainsTabular
  <1>6. \A f \in Frames : f.dead \in ht.live \cup {NULL} BY <1>1, DeadLive
  <1>7. owed \in 0 .. Cardinality(Bucket) BY <1>1 DEF Whole, Counted, NB
  <1>8. torn \in BOOLEAN BY DEF IInv
  <1> QED BY <1>1, <1>5, <1>6, <1>7, <1>8 DEF TypeOK, Tabular

\* A new table.
LEMMA IInvInit == Init => IInv
  <1> SUFFICES ASSUME Init PROVE IInv OBVIOUS
  <1>1. /\ ht = _zend_hash_init /\ stack = <<>> /\ fe = [pos |-> NULL, h |-> 0]
        /\ owed = 0 /\ torn = FALSE
    BY DEF Init
  <1>2. Whole(ht, stack, owed) BY <1>1, WholeNew
  <1>3. 0 \in 0 .. 2 * LongMax + 1 BY HashAssumption
  <1>4. fe \in [pos : MaybeBucket, h : 0 .. 2 * LongMax + 1] BY <1>1, <1>3 DEF MaybeBucket
  <1> QED BY <1>1, <1>2, <1>4 DEF IInv

\* After the comparisons of zend_hash_sort the invariant holds, the list torn or not.
LEMMA SortDoneInv ==
  ASSUME IInv, ~torn, BucketsLive, stack # <<>>, SortDone, UNCHANGED <<fe, owed>>
  PROVE  IInv'
  <1>1. Whole(ht, stack, owed) /\ fe \in [pos : MaybeBucket, h : 0 .. 2 * LongMax + 1]
    BY DEF IInv
  <1>2. /\ torn' \in BOOLEAN
        /\ torn' => Tabular(ht') /\ ht'.live = ht.live
        /\ ~torn' => Whole(ht', stack', owed)
    BY <1>1, SortDoneStep
  <1>3. fe' \in [pos : MaybeBucket, h : 0 .. 2 * LongMax + 1] /\ owed' = owed BY <1>1
  <1>4. CASE ~torn'
    <2>1. Whole(ht', stack', owed') BY <1>2, <1>3, <1>4
    <2> QED BY <2>1, <1>2, <1>3, <1>4 DEF IInv, MaybeBucket
  <1>5. CASE torn'
    <2>1. \A f \in Frames' : f.dead \in ht'.live \cup {NULL}
      <3>1. stack' = Tail(stack) BY DEF SortDone, Return
      <3>2. stack \in Seq(FrameType) BY <1>1, Facts
      <3>3. \A i \in 1 .. Len(stack) - 1 : Tail(stack)[i] = stack[i + 1] /\ i + 1 \in DOMAIN stack
        BY <3>2
      <3>4. DOMAIN Tail(stack) = 1 .. Len(stack) - 1 BY <3>2
      <3>5. \A f \in Frames' : f \in Frames BY <3>1, <3>3, <3>4 DEF Frames
      <3> QED BY <3>5, <1>1, <1>2, <1>5, DeadLive
    <2>2. owed' \in 0 .. Cardinality(Bucket) BY <1>1, <1>3 DEF Whole, Counted, NB
    <2>3. TypeOK' BY <1>2, <1>3, <1>5, <2>1, <2>2 DEF TypeOK, Tabular, MaybeBucket
    <2> QED BY <2>3, <1>2, <1>3, <1>5 DEF IInv, MaybeBucket
  <1> QED BY <1>4, <1>5

\* The invariant is inductive.
LEMMA IInvStep == IInv /\ [Next]_vars => IInv'
  <1> SUFFICES ASSUME IInv, [Next]_vars PROVE IInv' OBVIOUS
  <1> DEFINE FE == [pos : MaybeBucket, h : 0 .. 2 * LongMax + 1]
  <1>0. CASE UNCHANGED vars
    <2>1. ht' = ht /\ stack' = stack /\ fe' = fe /\ owed' = owed /\ torn' = torn
      BY <1>0 DEF vars
    <2>2. torn => TypeOK' BY <2>1 DEF IInv, TypeOK, Frames
    <2> QED BY <2>1, <2>2 DEF IInv
  <1> SUFFICES ASSUME Next PROVE IInv' BY <1>0
  <1>t. BucketsLive /\ ~torn BY DEF Next
  <1>1. Whole(ht, stack, owed) /\ fe \in FE BY <1>t DEF IInv
  <1>2. ASSUME Whole(ht', stack', owed'), fe' = fe, torn' = torn PROVE IInv'
    <2>1. fe' \in FE BY <1>1, <1>2
    <2> QED BY <1>t, <1>2, <2>1 DEF IInv, MaybeBucket
  <1>3. CASE Script /\ UNCHANGED <<fe, owed, torn>> BY <1>t, <1>2, <1>3, ScriptStep
  <1>4. CASE Resume /\ UNCHANGED <<fe, owed, torn>> BY <1>t, <1>2, <1>4, ResumeStep
  <1>5. CASE zend_hash_clean /\ UNCHANGED <<fe, torn>> BY <1>1, <1>2, <1>5, CleanAllStep
  <1>6. CASE stack # <<>> /\ Destroyed /\ UNCHANGED <<fe, torn>>
    BY <1>1, <1>2, <1>6, DestroyedStep
  <1>7. CASE stack # <<>> /\ SortDone /\ UNCHANGED <<fe, owed>> BY <1>t, <1>7, SortDoneInv
  <1>8. CASE zend_hash_get_pointer BY <1>t, <1>8, GetPointerStep
  <1> QED BY <1>3, <1>4, <1>5, <1>6, <1>7, <1>8 DEF Next

\* The invariant holds in every state.
LEMMA Invariance == Spec => []IInv
  <1> QED BY IInvInit, IInvStep, PTL DEF Spec

\* Elements are the buckets that have a key.
LEMMA ElementsIn ==
  ASSUME Whole(ht, stack, owed)
  PROVE  Elements = In(ht)
  <1>1. /\ Owned(ht, stack) \subseteq ht.live \ In(ht) /\ In(ht) \subseteq ht.live
        /\ In(ht) \subseteq Bucket /\ NULL \notin Bucket
        /\ ht.live = In(ht) \cup Owned(ht, stack)
    BY Facts
  <1>2. Frames = {stack[i] : i \in 1 .. Len(stack)} BY FramesAt
  <1> DEFINE D == {f.dead : f \in Frames}
             C == UNION {ToSet(Path(ht.pListNext, f.p)) : f \in {g \in Frames : g.op = "clean"}}
  <1>3. Owned(ht, stack) = UNION {Own(ht, f) : f \in Frames} BY <1>2 DEF Owned
  <1>4. Owned(ht, stack) = (D \ {NULL}) \cup C
    <2>1. ASSUME NEW q \in Owned(ht, stack) PROVE q \in (D \ {NULL}) \cup C
      <3>1. PICK f \in Frames : q \in Own(ht, f) BY <1>3
      <3>2. CASE q \in {f.dead} \ {NULL} BY <3>2
      <3>3. CASE f.op = "clean" /\ q \in ToSet(Path(ht.pListNext, f.p)) BY <3>3
      <3> QED BY <3>1, <3>2, <3>3 DEF Own
    <2>2. ASSUME NEW q \in D \ {NULL} PROVE q \in Owned(ht, stack)
      <3>1. PICK f \in Frames : q = f.dead BY <2>2
      <3>2. q \in Own(ht, f) BY <3>1, <2>2 DEF Own
      <3> QED BY <3>2, <1>3
    <2>3. ASSUME NEW q \in C PROVE q \in Owned(ht, stack)
      <3>1. PICK f \in Frames : f.op = "clean" /\ q \in ToSet(Path(ht.pListNext, f.p)) BY <2>3
      <3>2. q \in Own(ht, f) BY <3>1 DEF Own
      <3> QED BY <3>2, <1>3
    <2> HIDE DEF C, D
    <2> QED BY <2>1, <2>2, <2>3
  <1>5. Elements = ht.live \ (D \cup C) BY DEF Elements
  <1> HIDE DEF C, D
  <1> QED BY <1>1, <1>4, <1>5

\* The list backwards.
LEMMA LinkedBack ==
  ASSUME NEW n, NEW l, NEW h, NEW s, Dll(n, l, h, s)
  PROVE  Linked(l, End(s), Reverse(s))
  <1> DEFINE m == Len(s)
             r == Reverse(s)
  <1>1. /\ s \in Seq(Bucket) /\ m \in Nat /\ \A i, j \in 1 .. m : s[i] = s[j] => i = j
        /\ \A i \in 1 .. m : l[s[i]] = IF i = 1 THEN NULL ELSE s[i - 1]
        /\ \A i \in 1 .. m : s[i] \in Bucket
    BY DllType DEF Dll, Linked
  <1>2. End(s) = IF m = 0 THEN NULL ELSE s[m] BY DEF End
  <1>3. r = [i \in 1 .. m |-> s[(m - i) + 1]] BY DEF Reverse
  <1> HIDE DEF r, m
  <1>4. \A i \in 1 .. m : (m - i) + 1 \in 1 .. m BY <1>1
  <1>5. r \in Seq(Bucket) /\ Len(r) = m
    <2>1. r \in [1 .. m -> Bucket] BY <1>1, <1>3, <1>4
    <2> QED BY <2>1, <1>1
  <1>6. \A i \in 1 .. m : r[i] = s[(m - i) + 1] BY <1>3
  <1>7. ASSUME NEW i \in 1 .. m, NEW j \in 1 .. m, r[i] = r[j] PROVE i = j
    <2>1. (m - i) + 1 = (m - j) + 1 BY <1>1, <1>4, <1>6, <1>7
    <2> QED BY <2>1, <1>1
  <1>8. End(s) = IF m = 0 THEN NULL ELSE r[1]
    <2>1. m # 0 => 1 \in 1 .. m /\ (m - 1) + 1 = m BY <1>1
    <2> QED BY <2>1, <1>2, <1>6
  <1>9. ASSUME NEW i \in 1 .. m PROVE l[r[i]] = IF i = m THEN NULL ELSE r[i + 1]
    <2> DEFINE j == (m - i) + 1
    <2>1. j \in 1 .. m /\ r[i] = s[j] BY <1>4, <1>6
    <2>2. l[s[j]] = IF j = 1 THEN NULL ELSE s[j - 1] BY <2>1, <1>1
    <2>3. (j = 1 <=> i = m) /\ (i # m => i + 1 \in 1 .. m /\ (m - (i + 1)) + 1 = j - 1) BY <1>1
    <2> HIDE DEF j
    <2>4. i # m => r[i + 1] = s[j - 1] BY <2>3, <1>6
    <2> QED BY <2>1, <2>2, <2>3, <2>4
  <1> QED BY <1>5, <1>7, <1>8, <1>9 DEF Linked, r

\* The list is sound wherever the table is.
LEMMA WholeList ==
  ASSUME Whole(ht, stack, owed)
  PROVE  ListSound
  <1>1. PICK s : Holds(ht, In(ht), s) BY DEF Whole
  <1>2. /\ ht \in Table /\ ListIs(ht, s) /\ ToSet(s) = In(ht)
        /\ ht.pInternalPointer \in In(ht) \cup {NULL}
    BY <1>1 DEF Holds, IsTable
  <1>3. List(ht) = s /\ Elements = In(ht) BY <1>2, ListFound, ElementsIn
  <1>4. Len(s) = Cardinality(In(ht))
    <2>1. Linked(ht.pListNext, ht.pListHead, s) BY <1>2 DEF ListIs, Dll
    <2> QED BY <2>1, <1>2, LinkedLen
  <1>5. Path(ht.pListLast, ht.pListTail) = Reverse(s)
    <2>1. Linked(ht.pListLast, End(s), Reverse(s)) BY <1>2, LinkedBack DEF ListIs
    <2>2. ht.pListTail = End(s) /\ ht.pListLast \in Ptr BY <1>2 DEF ListIs, Table
    <2> QED BY <2>1, <2>2, PathLinked
  <1> QED BY <1>2, <1>3, <1>4, <1>5 DEF ListSound

\* Looking up is exact wherever the table is sound.
LEMMA WholeLookup ==
  ASSUME Whole(ht, stack, owed)
  PROVE  LookupExact
  <1>1. PICK s : Holds(ht, In(ht), s) BY DEF Whole
  <1>2. Elements = In(ht) BY ElementsIn
  <1>3. NULL \notin In(ht) BY HashAssumption DEF In
  <1>4. ASSUME NEW k \in Key
        PROVE  {p \in In(ht) : ht.key[p] = k} = {Find(ht, k)} \ {NULL}
    <2> DEFINE q == Find(ht, k)
    <2>1. \/ q = NULL /\ \A x \in In(ht) : ht.key[x] # k
          \/ /\ q \in In(ht) /\ q # NULL /\ ht.key[q] = k
             /\ \A x \in In(ht) : ht.key[x] = k => x = q
      BY <1>1, Found
    <2> HIDE DEF q
    <2>2. {p \in In(ht) : ht.key[p] = k} = {q} \ {NULL} BY <2>1, <1>3
    <2> QED BY <2>2 DEF q
  <1> QED BY <1>2, <1>4 DEF LookupExact

\* The count is exact wherever the table is sound.
LEMMA WholeCount ==
  ASSUME Whole(ht, stack, owed)
  PROVE  CountExact
  <1>1. PICK s : Holds(ht, In(ht), s) BY DEF Whole
  <1>2. ht \in Table /\ ListIs(ht, s) /\ ToSet(s) = In(ht) BY <1>1 DEF Holds, IsTable
  <1>3. List(ht) = s BY <1>2, ListFound
  <1>4. Len(s) = Cardinality(In(ht))
    <2>1. Linked(ht.pListNext, ht.pListHead, s) BY <1>2 DEF ListIs, Dll
    <2> QED BY <2>1, <1>2, LinkedLen
  <1>5. Deleting = Del(stack) BY FramesAt
  <1> DEFINE n == Cardinality(In(ht)) + Cardinality(Del(stack))
  <1>6. n \in Nat /\ n <= NB /\ NB \in Nat BY CountBound DEF Whole
  <1>7. owed \in 0 .. NB /\ ht.nNumOfElements = Wrap(n - owed) BY DEF Whole, Counted
  <1> HIDE DEF n
  <1>8. n - owed \in Int /\ -NB <= n - owed /\ n - owed <= NB BY <1>6, <1>7
  <1>9. ht.nNumOfElements = (n - owed) % SizeLimit BY <1>7, <1>8, WrapMod
  <1>10. /\ Len(List(ht)) = Cardinality(In(ht)) /\ Cardinality(Deleting) = Cardinality(Del(stack))
         /\ Cardinality(In(ht)) \in Nat /\ Cardinality(Del(stack)) \in Nat /\ owed \in Int
    BY <1>3, <1>4, <1>5, <1>7, CountBound DEF Whole
  <1>11. Len(List(ht)) + Cardinality(Deleting) - owed = n - owed BY <1>10 DEF n
  <1> QED BY <1>9, <1>11 DEF CountExact

\* Types: in every state that zend_hash.c reaches, no pointer of the table leads to
\* freed memory, and a bucket that a call has taken out of the table is not freed by
\* another before its destructor has returned.
THEOREM HashTypeTheorem == Spec => []TypeOK
  BY Invariance, WholeType, PTL

\* The list of all buckets that CONNECT_TO_GLOBAL_DLLIST, zend_hash_sort and the
\* deletions maintain has every element once, and is the same in both directions,
\* until a comparison that zend_hash_sort calls changes the elements.
THEOREM ListTheorem == Spec => []ListSound
  <1>1. IInv => ListSound
    <2>1. torn => ListSound BY DEF ListSound
    <2> QED BY <2>1, WholeList DEF IInv
  <1> QED BY <1>1, Invariance, PTL

\* Until then, zend_hash_find and the searches of the other calls find the one element
\* that has the key, after any insertions, deletions, resizes and renumberings.
THEOREM LookupTheorem == Spec => []LookupExact
  <1>1. IInv => LookupExact
    <2>1. torn => LookupExact BY DEF LookupExact
    <2> QED BY <2>1, WholeLookup DEF IInv
  <1> QED BY <1>1, Invariance, PTL

\* Until then, nNumOfElements is the length of the list and of the elements that
\* zend_hash_del has not yet counted off, less those that zend_hash_clean has counted
\* as gone before, modulo the width of the counter: this is all by which it is wrong.
THEOREM CountTheorem == Spec => []CountExact
  <1>1. IInv => CountExact
    <2>1. torn => CountExact BY DEF CountExact
    <2> QED BY <2>1, WholeCount DEF IInv
  <1> QED BY <1>1, Invariance, PTL

-----------------------------------------------------------------------------
(***************************************************************************)
(* The hash table implements OrderedMap, for any number of buckets.  View  *)
(* relates a table to the map that it stands for, by way of the sequence   *)
(* of its buckets; each call that changes the table is one step of the     *)
(* map, and what a call does after a destructor is none.                   *)
(***************************************************************************)
\* The map m shows the table t, whose buckets are s.
View(t, m, s) ==
    /\ m = [keys |-> m.keys, cur |-> m.cur]
    /\ m.keys \in Seq(Key) /\ Len(m.keys) = Len(s) /\ Len(s) \in Nat
    /\ \A i \in 1 .. Len(s) : m.keys[i] = t.key[s[i]]
    /\ m.cur \in 0 .. Len(s) /\ (m.cur = 0 <=> t.pInternalPointer = NULL)
    /\ \A i \in 1 .. Len(s) : m.cur = i <=> t.pInternalPointer = s[i]

\* AsMap shows a table that holds its elements in the order of s.
LEMMA Viewed ==
  ASSUME NEW t, NEW s, Holds(t, In(t), s)
  PROVE  View(t, AsMap(t, List(t)), s)
  <1> DEFINE p == t.pInternalPointer
             ks == [i \in 1 .. Len(s) |-> t.key[s[i]]]
             c == FirstIndex(s, p)
             m == AsMap(t, s)
  <1>1. /\ IsTable(t) /\ t \in Table /\ ListIs(t, s) /\ ToSet(s) = In(t)
        /\ p \in In(t) \cup {NULL}
    BY DEF Holds, IsTable
  <1>2. List(t) = s BY <1>1, ListFound
  <1>3. /\ s \in Seq(Bucket) /\ Len(s) \in Nat /\ DOMAIN s = 1 .. Len(s)
        /\ ToSet(s) = {s[i] : i \in 1 .. Len(s)}
        /\ \A i \in 1 .. Len(s) : s[i] # NULL /\ s[i] \in ToSet(s)
    BY <1>1, DllType DEF ListIs
  <1>4. \A i, j \in 1 .. Len(s) : s[i] = s[j] => i = j BY <1>1 DEF ListIs, Dll, Linked
  <1>5. \A i \in 1 .. Len(s) : t.key[s[i]] \in Key BY <1>1, <1>3, KeyOf
  <1>6. ks \in Seq(Key) /\ Len(ks) = Len(s) /\ \A i \in 1 .. Len(s) : ks[i] = t.key[s[i]]
    <2>1. ks \in [1 .. Len(s) -> Key] BY <1>5
    <2> QED BY <2>1, <1>3
  <1>7. m = [keys |-> ks, cur |-> c] BY <1>3 DEF AsMap
  <1>8. c \in 0 .. Len(s) /\ (c = 0 <=> p = NULL) /\ \A i \in 1 .. Len(s) : c = i <=> p = s[i]
    <2>1. CASE p = NULL
      <3>1. p \notin ToSet(s) BY <2>1, <1>3
      <3>2. c = 0 BY <3>1 DEF FirstIndex
      <3> QED BY <3>2, <2>1, <1>3
    <2>2. CASE p # NULL
      <3>1. p \in ToSet(s) BY <1>1, <2>2
      <3>2. PICK i \in 1 .. Len(s) : p = s[i] BY <3>1, <1>3
      <3>3. c = CHOOSE j \in DOMAIN s : s[j] = p BY <3>1 DEF FirstIndex
      <3>4. c \in 1 .. Len(s) /\ s[c] = p BY <3>2, <3>3, <1>3
      <3>5. \A j \in 1 .. Len(s) : c = j <=> p = s[j] BY <3>4, <1>4
      <3>6. c \in 0 .. Len(s) /\ c # 0 BY <3>4, <1>3
      <3> QED BY <3>5, <3>6, <2>2
    <2> QED BY <2>1, <2>2
  <1> HIDE DEF ks, c
  <1>9. m.keys = ks /\ m.cur = c BY <1>7
  <1> HIDE DEF m
  <1>10. View(t, m, s) BY <1>3, <1>6, <1>7, <1>8, <1>9 DEF View
  <1> QED BY <1>2, <1>10 DEF m

\* Two views that agree are the same map.
LEMMA SameMap ==
  ASSUME NEW t, NEW u, NEW m, NEW n, NEW s, View(t, m, s), View(u, n, s),
         \A i \in 1 .. Len(s) : u.key[s[i]] = t.key[s[i]],
         u.pInternalPointer = t.pInternalPointer
  PROVE  n = m
  <1>1. n.keys = m.keys
    <2>1. m.keys \in Seq(Key) /\ n.keys \in Seq(Key) /\ Len(m.keys) = Len(n.keys)
          /\ \A i \in 1 .. Len(m.keys) : m.keys[i] = n.keys[i]
      BY DEF View
    <2> QED BY <2>1
  <1>2. n.cur = m.cur
    <2>1. CASE m.cur = 0 BY <2>1 DEF View
    <2>2. CASE m.cur # 0
      <3>1. m.cur \in 1 .. Len(s) BY <2>2 DEF View
      <3> QED BY <3>1 DEF View
    <2> QED BY <2>1, <2>2
  <1> QED BY <1>1, <1>2 DEF View

\* The first and the last element of the list, and NULL, are positions.
LEMMA MovedMap ==
  ASSUME NEW t, NEW u, NEW m, NEW n, NEW s, View(t, m, s), View(u, n, s),
         \A i \in 1 .. Len(s) : u.key[s[i]] = t.key[s[i]]
  PROVE  Map!Step(m, n)
  <1>1. n.keys = m.keys
    <2>1. m.keys \in Seq(Key) /\ n.keys \in Seq(Key) /\ Len(m.keys) = Len(n.keys)
          /\ \A i \in 1 .. Len(m.keys) : m.keys[i] = n.keys[i]
      BY DEF View
    <2> QED BY <2>1
  <1>2. n.cur \in 0 .. Len(m.keys) BY DEF View
  <1>3. Map!Moved(m, n) BY <1>1, <1>2 DEF Map!Moved
  <1> QED BY <1>3 DEF Map!Step

\* An empty table.
LEMMA ClearedMap ==
  ASSUME NEW u, NEW m, NEW n, View(u, n, <<>>)
  PROVE  n = Map!Cleared /\ Map!Step(m, n)
  <1>1. n.keys \in Seq(Key) /\ Len(n.keys) = 0 /\ n.cur = 0 /\ n = [keys |-> n.keys, cur |-> n.cur]
    BY DEF View
  <1>2. n.keys = <<>> BY <1>1
  <1> QED BY <1>1, <1>2 DEF Map!Step, Map!Cleared

\* A new element comes last, and is the current one if there was none.
LEMMA AddedMap ==
  ASSUME NEW t, NEW u, NEW m, NEW n, NEW s, NEW p, NEW k \in Key,
         View(t, m, s), View(u, n, Append(s, p)), Holds(t, In(t), s), p \notin In(t),
         Added(t, u, s, p, k), \A q \in In(t) : t.key[q] # k
  PROVE  Map!Step(m, n)
  <1> DEFINE l == Len(s)
  <1>1. /\ s \in Seq(Bucket) /\ l \in Nat /\ ToSet(s) = In(t)
        /\ \A i \in 1 .. l : s[i] \in In(t) /\ s[i] # NULL
    BY DllType DEF Holds, ListIs
  <1>2. /\ Len(Append(s, p)) = l + 1 /\ Append(s, p)[l + 1] = p
        /\ \A i \in 1 .. l : Append(s, p)[i] = s[i]
    BY <1>1
  <1>3. /\ u.pInternalPointer = IF t.pInternalPointer = NULL THEN p ELSE t.pInternalPointer
        /\ u.key[p] = k /\ \A q \in In(t) : u.key[q] = t.key[q]
    BY DEF Added
  <1>4. /\ m.keys \in Seq(Key) /\ Len(m.keys) = l /\ m.cur \in 0 .. l
        /\ \A i \in 1 .. l : m.keys[i] = t.key[s[i]]
        /\ (m.cur = 0 <=> t.pInternalPointer = NULL)
        /\ \A i \in 1 .. l : m.cur = i <=> t.pInternalPointer = s[i]
    BY DEF View
  <1>5. /\ n.keys \in Seq(Key) /\ Len(n.keys) = l + 1 /\ n = [keys |-> n.keys, cur |-> n.cur]
        /\ \A i \in 1 .. l + 1 : n.keys[i] = u.key[Append(s, p)[i]]
        /\ \A i \in 1 .. l + 1 : n.cur = i <=> u.pInternalPointer = Append(s, p)[i]
    BY <1>2 DEF View
  <1> HIDE DEF l
  <1>6. n.keys = Append(m.keys, k)
    <2>1. \A i \in 1 .. l : n.keys[i] = m.keys[i]
      <3> TAKE i \in 1 .. l
      <3>1. i \in 1 .. l + 1 BY <1>1
      <3>2. n.keys[i] = u.key[s[i]] BY <3>1, <1>2, <1>5
      <3>3. u.key[s[i]] = t.key[s[i]] BY <1>1, <1>3
      <3> QED BY <3>2, <3>3, <1>4
    <2>2. n.keys[l + 1] = k
      <3>1. l + 1 \in 1 .. l + 1 BY <1>1
      <3> QED BY <3>1, <1>2, <1>3, <1>5
    <2>3. Append(m.keys, k) \in Seq(Key) /\ Len(Append(m.keys, k)) = l + 1
          /\ Append(m.keys, k)[l + 1] = k /\ \A i \in 1 .. l : Append(m.keys, k)[i] = m.keys[i]
      BY <1>4
    <2>4. \A i \in 1 .. l + 1 : n.keys[i] = Append(m.keys, k)[i]
      <3> TAKE i \in 1 .. l + 1
      <3>1. i = l + 1 \/ i \in 1 .. l BY <1>1
      <3> QED BY <3>1, <2>1, <2>2, <2>3
    <2> QED BY <2>3, <2>4, <1>5
  <1>7. n.cur = IF m.cur = 0 THEN Len(m.keys) + 1 ELSE m.cur
    <2>1. CASE m.cur = 0
      <3>1. l + 1 \in 1 .. l + 1 BY <1>1
      <3>2. u.pInternalPointer = p BY <2>1, <1>3, <1>4
      <3> QED BY <2>1, <3>1, <3>2, <1>2, <1>4, <1>5
    <2>2. CASE m.cur # 0
      <3> DEFINE i == m.cur
      <3>1. i \in 1 .. l /\ i \in 1 .. l + 1 BY <2>2, <1>1, <1>4
      <3>2. t.pInternalPointer = s[i] /\ u.pInternalPointer = s[i] BY <3>1, <1>1, <1>3, <1>4
      <3> QED BY <2>2, <3>1, <3>2, <1>2, <1>5
    <2> QED BY <2>1, <2>2
  <1>8. k \notin ToSet(m.keys)
    <2>1. ToSet(m.keys) = {m.keys[i] : i \in 1 .. l} BY <1>4 DEF ToSet
    <2> QED BY <2>1, <1>1, <1>4
  <1>9. n \in Map!Added(m)
    <2>1. n = [keys |-> Append(m.keys, k),
               cur |-> IF m.cur = 0 THEN Len(m.keys) + 1 ELSE m.cur]
      BY <1>5, <1>6, <1>7
    <2> QED BY <2>1, <1>8 DEF Map!Added, Map!ToSet, ToSet
  <1> QED BY <1>9 DEF Map!Step

\* What it takes to be the map m without its element i.
LEMMA WithoutIs ==
  ASSUME NEW m, NEW n, m.keys \in Seq(Key), NEW i \in 1 .. Len(m.keys),
         n = [keys |-> n.keys, cur |-> n.cur], n.keys \in Seq(Key),
         Len(n.keys) = Len(m.keys) - 1,
         \A j \in 1 .. Len(m.keys) - 1 :
            n.keys[j] = IF j < i THEN m.keys[j] ELSE m.keys[j + 1],
         n.cur = IF m.cur > i THEN m.cur - 1
                 ELSE IF m.cur = i /\ i = Len(m.keys) THEN 0 ELSE m.cur
  PROVE  n = Map!Without(m, i)
  <1> DEFINE ks == m.keys
             l == Len(ks)
             a == SubSeq(ks, 1, i - 1)
             b == SubSeq(ks, i + 1, l)
  <1>1. ks \in Seq(Key) /\ l \in Nat /\ i \in Nat /\ 1 <= i /\ i <= l OBVIOUS
  <1> HIDE DEF ks
  <1>2. a \in Seq(Key) /\ Len(a) = i - 1 /\ \A j \in 1 .. i - 1 : a[j] = ks[j] BY <1>1
  <1>3. b \in Seq(Key) /\ Len(b) = l - i /\ \A j \in 1 .. l - i : b[j] = ks[j + i]
    BY <1>1
  <1> HIDE DEF a, b, l
  <1>4. /\ a \o b \in Seq(Key) /\ Len(a \o b) = l - 1
        /\ \A j \in 1 .. l - 1 : (a \o b)[j] = IF j < i THEN a[j] ELSE b[j - (i - 1)]
    <2>0. a \in Seq(Key) /\ b \in Seq(Key) BY <1>2, <1>3
    <2>1. a \o b \in Seq(Key) /\ Len(a \o b) = Len(a) + Len(b) BY <2>0
    <2>2. (i - 1) + (l - i) = l - 1 BY <1>1
    <2>3. \A j \in 1 .. Len(a) + Len(b) :
            (a \o b)[j] = IF j <= Len(a) THEN a[j] ELSE b[j - Len(a)]
      BY <1>2, <1>3
    <2>4. \A j \in 1 .. l - 1 : j <= i - 1 <=> j < i BY <1>1
    <2>5. Len(a) + Len(b) = l - 1 BY <1>2, <1>3, <2>2
    <2> QED BY <1>2, <2>1, <2>2, <2>3, <2>4, <2>5
  <1>5. \A j \in 1 .. l - 1 : (a \o b)[j] = IF j < i THEN ks[j] ELSE ks[j + 1]
    <2> TAKE j \in 1 .. l - 1
    <2>1. CASE j < i
      <3>1. j \in 1 .. i - 1 BY <2>1, <1>1
      <3> QED BY <2>1, <3>1, <1>2, <1>4
    <2>2. CASE ~(j < i)
      <3>1. j - (i - 1) \in 1 .. l - i /\ (j - (i - 1)) + i = j + 1 BY <2>2, <1>1
      <3> QED BY <2>2, <3>1, <1>3, <1>4
    <2> QED BY <2>1, <2>2
  <1>6. n.keys = a \o b
    <2>1. Len(n.keys) = l - 1 /\ \A j \in 1 .. l - 1 : n.keys[j] = (a \o b)[j]
      BY <1>5 DEF ks, l
    <2> DEFINE r == n.keys
               z == a \o b
    <2>2. r \in Seq(Key) /\ z \in Seq(Key) /\ Len(r) = Len(z)
          /\ \A j \in 1 .. Len(r) : r[j] = z[j]
      BY <2>1, <1>4
    <2> HIDE DEF r, z
    <2>3. r = z BY <2>2
    <2> QED BY <2>3 DEF r, z
  <1>7. a \o b = Map!RemoveAt(m.keys, i) BY DEF a, b, l, ks, Map!RemoveAt, RemoveAt
  <1> QED BY <1>6, <1>7 DEF Map!Without

\* u is t without the element at place i of its list.
Drops(t, u, s, i) ==
    /\ Holds(t, In(t), s) /\ i \in 1 .. Len(s) /\ Holds(u, In(u), Cut(s, i))
    /\ u.pInternalPointer = IF t.pInternalPointer = s[i] THEN t.pListNext[s[i]]
                            ELSE t.pInternalPointer
    /\ \A q \in In(u) : u.key[q] = t.key[q]

\* It is gone from the map, and a position on it moves to the next element.
LEMMA WithoutMap ==
  ASSUME NEW t, NEW u, NEW m, NEW n, NEW s, NEW i, Drops(t, u, s, i),
         View(t, m, s), View(u, n, Cut(s, i))
  PROVE  n = Map!Without(m, i) /\ i \in 1 .. Len(m.keys)
  <1> DEFINE l == Len(s)
             c == Cut(s, i)
  <1>1. /\ s \in Seq(Bucket) /\ l \in Nat /\ i \in 1 .. l
        /\ \A j \in 1 .. l : s[j] # NULL
        /\ \A j, k \in 1 .. l : s[j] = s[k] => j = k
        /\ \A j \in 1 .. l : t.pListNext[s[j]] = IF j = l THEN NULL ELSE s[j + 1]
    <2>1. Dll(t.pListNext, t.pListLast, t.pListHead, s) BY DEF Drops, Holds, ListIs
    <2>2. s \in Seq(Bucket) /\ l \in Nat /\ \A j \in 1 .. l : s[j] # NULL BY <2>1, DllType
    <2> QED BY <2>1, <2>2 DEF Drops, Dll, Linked
  <1>2. /\ m.keys \in Seq(Key) /\ Len(m.keys) = l /\ m.cur \in 0 .. l
        /\ \A j \in 1 .. l : m.keys[j] = t.key[s[j]]
        /\ (m.cur = 0 <=> t.pInternalPointer = NULL)
        /\ \A j \in 1 .. l : m.cur = j <=> t.pInternalPointer = s[j]
    BY DEF View
  <1>3. Len(c) = l - 1 /\ \A j \in 1 .. l - 1 : c[j] = IF j < i THEN s[j] ELSE s[j + 1]
    <2>1. c = [j \in 1 .. l - 1 |-> IF j < i THEN s[j] ELSE s[j + 1]] BY DEF Cut
    <2>2. l - 1 \in Nat BY <1>1
    <2> QED BY <2>1, <2>2
  <1>4. /\ n.keys \in Seq(Key) /\ Len(n.keys) = l - 1 /\ n = [keys |-> n.keys, cur |-> n.cur]
        /\ \A j \in 1 .. l - 1 : n.keys[j] = u.key[c[j]]
        /\ (n.cur = 0 <=> u.pInternalPointer = NULL)
        /\ \A j \in 1 .. l - 1 : n.cur = j <=> u.pInternalPointer = c[j]
    BY <1>3 DEF View
  <1>5. \A j \in 1 .. l - 1 : u.key[c[j]] = t.key[c[j]]
    <2>1. Holds(u, In(u), c) /\ \A q \in In(u) : u.key[q] = t.key[q] BY DEF Drops
    <2>2. ToSet(c) = In(u) /\ ToSet(c) = {c[j] : j \in 1 .. Len(c)}
      BY <2>1, DllType DEF Holds, ListIs
    <2> QED BY <2>1, <2>2, <1>3
  <1>6. u.pInternalPointer = IF t.pInternalPointer = s[i] THEN t.pListNext[s[i]]
                             ELSE t.pInternalPointer
    BY DEF Drops
  <1> HIDE DEF c, l
  <1>7. \A j \in 1 .. l - 1 : n.keys[j] = IF j < i THEN m.keys[j] ELSE m.keys[j + 1]
    <2> TAKE j \in 1 .. l - 1
    <2>1. j \in 1 .. l /\ j + 1 \in 1 .. l BY <1>1
    <2>2. n.keys[j] = t.key[c[j]] BY <1>4, <1>5
    <2> QED BY <2>1, <2>2, <1>2, <1>3
  <1> DEFINE k == m.cur
  <1>8. n.cur = IF k > i THEN k - 1 ELSE IF k = i /\ i = l THEN 0 ELSE k
    <2>0. k \in Nat /\ i \in Nat /\ l \in Nat /\ k <= l /\ 1 <= i /\ i <= l BY <1>1, <1>2
    <2>1. CASE k = 0
      <3>1. t.pInternalPointer = NULL /\ t.pInternalPointer # s[i] BY <2>1, <1>1, <1>2
      <3>2. n.cur = 0 BY <3>1, <1>4, <1>6
      <3> QED BY <2>0, <2>1, <3>2
    <2>2. CASE k = i
      <3>1. u.pInternalPointer = IF i = l THEN NULL ELSE s[i + 1] BY <2>2, <1>1, <1>2, <1>6
      <3>2. CASE i = l BY <2>0, <2>2, <3>1, <3>2, <1>4
      <3>3. CASE i # l
        <4>1. i \in 1 .. l - 1 /\ ~(i < i) BY <2>0, <3>3
        <4>2. c[i] = s[i + 1] BY <4>1, <1>3
        <4>3. n.cur = i BY <4>1, <4>2, <3>1, <3>3, <1>4
        <4> QED BY <2>0, <2>2, <3>3, <4>3
      <3> QED BY <3>2, <3>3
    <2>3. CASE k # 0 /\ k < i
      <3>1. k \in 1 .. l /\ k \in 1 .. l - 1 BY <2>0, <2>3
      <3>2. t.pInternalPointer = s[k] /\ t.pInternalPointer # s[i] BY <3>1, <2>0, <2>3, <1>1, <1>2
      <3>3. c[k] = s[k] BY <3>1, <2>3, <1>3
      <3>4. n.cur = k BY <3>1, <3>2, <3>3, <1>4, <1>6
      <3> QED BY <2>0, <2>3, <3>4
    <2>4. CASE k > i
      <3>1. k \in 1 .. l /\ k - 1 \in 1 .. l - 1 /\ ~(k - 1 < i) /\ (k - 1) + 1 = k BY <2>0, <2>4
      <3>2. t.pInternalPointer = s[k] /\ t.pInternalPointer # s[i] BY <3>1, <2>0, <2>4, <1>1, <1>2
      <3>3. c[k - 1] = s[k] BY <3>1, <1>3
      <3>4. n.cur = k - 1 BY <3>1, <3>2, <3>3, <1>4, <1>6
      <3> QED BY <2>4, <3>4
    <2> QED BY <2>0, <2>1, <2>2, <2>3, <2>4
  <1>9. n = Map!Without(m, i) BY <1>1, <1>2, <1>4, <1>7, <1>8, WithoutIs
  <1> QED BY <1>1, <1>2, <1>9

\* So a deletion is a step of the map.
LEMMA DropsMap ==
  ASSUME NEW t, NEW u, NEW m, NEW n, NEW s, NEW i, Drops(t, u, s, i),
         View(t, m, s), View(u, n, Cut(s, i))
  PROVE  Map!Step(m, n)
  <1>1. n = Map!Without(m, i) /\ i \in 1 .. Len(m.keys) BY WithoutMap
  <1>2. m.keys \in Seq(Key) BY DEF View
  <1>3. DOMAIN m.keys = 1 .. Len(m.keys) BY <1>2
  <1>4. n \in Map!Dropped(m) BY <1>1, <1>3 DEF Map!Dropped
  <1> QED BY <1>4 DEF Map!Step

\* The current element gets the key k, perhaps in another bucket.
Rekeys(t, u, s, i, b, k) ==
    /\ i \in 1 .. Len(s) /\ b \in Bucket /\ k \in Key
    /\ Holds(t, In(t), s) /\ t.pInternalPointer = s[i] /\ (b = s[i] \/ b \notin In(t))
    /\ Rekeyed(t, u, s, s[i], b, k, [s EXCEPT ![i] = b])

\* n is the map m with the key k for the current element.
Renames(m, n, k) == n = [m EXCEPT !.keys[m.cur] = k]

\* It does in the map.
LEMMA RekeyedMap ==
  ASSUME NEW t, NEW u, NEW m, NEW n, NEW s, NEW i, NEW b, NEW k, Rekeys(t, u, s, i, b, k),
         View(t, m, s), View(u, n, [s EXCEPT ![i] = b])
  PROVE  m.cur = i /\ Renames(m, n, k)
  <1> DEFINE l == Len(s)
             p == s[i]
             r == [s EXCEPT ![i] = b]
             ks == [m.keys EXCEPT ![i] = k]
  <1>0. /\ i \in 1 .. Len(s) /\ b \in Bucket /\ k \in Key
        /\ Holds(t, In(t), s) /\ t.pInternalPointer = s[i] /\ (b = s[i] \/ b \notin In(t))
        /\ Rekeyed(t, u, s, s[i], b, k, [s EXCEPT ![i] = b])
    BY DEF Rekeys
  <1>1. /\ s \in Seq(Bucket) /\ l \in Nat /\ i \in 1 .. l /\ ToSet(s) = In(t)
        /\ \A j \in 1 .. l : s[j] \in In(t)
    BY <1>0, DllType DEF Holds, ListIs
  <1>2. \A j, x \in 1 .. l : s[j] = s[x] => j = x BY <1>0 DEF Holds, ListIs, Dll, Linked
  <1>3. Len(r) = l /\ r[i] = b /\ \A j \in 1 .. l : j # i => r[j] = s[j] BY <1>1
  <1>4. /\ u.key[b] = k /\ \A q \in In(t) \ {p} : u.key[q] = t.key[q]
        /\ u.pInternalPointer = b
    BY <1>0 DEF Rekeyed
  <1>5. /\ m.keys \in Seq(Key) /\ Len(m.keys) = l /\ m = [keys |-> m.keys, cur |-> m.cur]
        /\ \A j \in 1 .. l : m.keys[j] = t.key[s[j]]
        /\ m.cur = i
    BY <1>0 DEF View
  <1>6. /\ n.keys \in Seq(Key) /\ Len(n.keys) = l /\ n = [keys |-> n.keys, cur |-> n.cur]
        /\ \A j \in 1 .. l : n.keys[j] = u.key[r[j]]
        /\ n.cur = i
    BY <1>0, <1>3, <1>4 DEF View
  <1> HIDE DEF r, l
  <1>7. \A j \in 1 .. l : n.keys[j] = IF j = i THEN k ELSE m.keys[j]
    <2> TAKE j \in 1 .. l
    <2>1. CASE j = i BY <2>1, <1>1, <1>3, <1>4, <1>6
    <2>2. CASE j # i
      <3>1. s[j] \in In(t) \ {p} BY <2>2, <1>1, <1>2
      <3>2. n.keys[j] = u.key[s[j]] BY <2>2, <1>3, <1>6
      <3> QED BY <2>2, <3>1, <3>2, <1>4, <1>5
    <2> QED BY <2>1, <2>2
  <1>8. /\ ks \in Seq(Key) /\ Len(ks) = l
        /\ \A j \in 1 .. l : ks[j] = IF j = i THEN k ELSE m.keys[j]
    BY <1>0, <1>1, <1>5
  <1> HIDE DEF ks
  <1>9. n.keys = ks
    <2> DEFINE a == n.keys
    <2>1. a \in Seq(Key) /\ Len(a) = Len(ks) /\ \A j \in 1 .. Len(a) : a[j] = ks[j]
      BY <1>6, <1>7, <1>8
    <2> HIDE DEF a
    <2>2. a = ks BY <2>1, <1>8
    <2> QED BY <2>2 DEF a
  <1>10. [m EXCEPT !.keys[m.cur] = k] = [keys |-> ks, cur |-> m.cur] BY <1>5 DEF ks
  <1> QED BY <1>5, <1>6, <1>9, <1>10 DEF Renames

\* zend_hash_update_current_key_ex, for a key that is not there.
LEMMA RenamedMap ==
  ASSUME NEW t, NEW u, NEW m, NEW n, NEW s, NEW i, NEW b, NEW k, Rekeys(t, u, s, i, b, k),
         View(t, m, s), View(u, n, [s EXCEPT ![i] = b]), \A q \in In(t) : t.key[q] # k
  PROVE  Map!Step(m, n)
  <1>1. m.cur = i /\ n = [m EXCEPT !.keys[m.cur] = k] BY RekeyedMap DEF Renames
  <1>2. /\ m.keys \in Seq(Key) /\ Len(m.keys) = Len(s) /\ Len(s) \in Nat
        /\ \A j \in 1 .. Len(s) : m.keys[j] = t.key[s[j]]
    BY DEF View
  <1>0. Holds(t, In(t), s) /\ i \in 1 .. Len(s) /\ k \in Key BY DEF Rekeys
  <1>3. m.cur # 0 BY <1>0, <1>1, <1>2
  <1>4. \A j \in 1 .. Len(s) : s[j] \in In(t) BY <1>0, DllType DEF Holds, ListIs
  <1>5. k \notin ToSet(m.keys)
    <2>1. ToSet(m.keys) = {m.keys[j] : j \in 1 .. Len(s)} BY <1>2 DEF ToSet
    <2> QED BY <2>1, <1>2, <1>4
  <1>6. n \in Map!Renamed(m) BY <1>0, <1>1, <1>3, <1>5 DEF Map!Renamed, Map!ToSet, ToSet
  <1> QED BY <1>6 DEF Map!Step

\* A map with one of its keys replaced, as a record.
LEMMA KeyReplaced ==
  ASSUME NEW m, m = [keys |-> m.keys, cur |-> m.cur], NEW c, NEW k
  PROVE  [m EXCEPT !.keys[c] = k] = [keys |-> [m.keys EXCEPT ![c] = k], cur |-> m.cur]
  OBVIOUS

\* x is the map m, of length l, without its element j, which is not the current one.
Leaving(m, x, l, j) ==
    /\ m = [keys |-> m.keys, cur |-> m.cur] /\ m.keys \in Seq(Key) /\ Len(m.keys) = l
    /\ m.cur \in 1 .. l /\ j # m.cur
    /\ x = Map!Without(m, j) /\ x.keys \in Seq(Key) /\ Len(x.keys) = l - 1
    /\ \A a \in 1 .. l - 1 : x.keys[a] = IF a < j THEN m.keys[a] ELSE m.keys[a + 1]

\* Renaming the current element and then removing another one that has the new key
\* is what removing that one first comes to.
LEMMA RenameWithout ==
  ASSUME NEW m, NEW x, NEW z, NEW l \in Nat, NEW j \in 1 .. l, NEW k \in Key,
         Leaving(m, x, l, j), Renames(x, z, k)
  PROVE  z = Map!Without([m EXCEPT !.keys[m.cur] = k], j)
  <1> DEFINE c == m.cur
             d == x.cur
             mk == [m.keys EXCEPT ![c] = k]
             xk == [x.keys EXCEPT ![d] = k]
             y == [m EXCEPT !.keys[m.cur] = k]
             n == [x EXCEPT !.keys[x.cur] = k]
  <1>0. /\ m.keys \in Seq(Key) /\ Len(m.keys) = l /\ m.cur \in 1 .. l /\ j # m.cur
        /\ x.keys \in Seq(Key) /\ Len(x.keys) = l - 1
        /\ \A a \in 1 .. l - 1 : x.keys[a] = IF a < j THEN m.keys[a] ELSE m.keys[a + 1]
    BY DEF Leaving
  <1>m. m = [keys |-> m.keys, cur |-> m.cur] BY DEF Leaving
  <1>1. c \in 1 .. l /\ c \in Nat /\ j \in Nat /\ j # c /\ 1 <= j /\ j <= l /\ 1 <= c /\ c <= l
    BY <1>0
  <1>2. d = (IF c > j THEN c - 1 ELSE IF c = j /\ j = Len(m.keys) THEN 0 ELSE c)
        /\ x = [keys |-> x.keys, cur |-> x.cur]
    BY DEF Map!Without, Leaving
  <1>3. d = IF c > j THEN c - 1 ELSE c BY <1>0, <1>1, <1>2
  <1>4. y = [keys |-> mk, cur |-> c] BY ONLY KeyReplaced, <1>m
  <1>5. n = [keys |-> xk, cur |-> d] BY ONLY KeyReplaced, <1>2
  <1>6. mk \in Seq(Key) /\ Len(mk) = l /\ \A a \in 1 .. l : mk[a] = IF a = c THEN k ELSE m.keys[a]
    BY <1>0
  <1>7. d \in 1 .. l - 1 BY <1>1, <1>3
  <1>8. /\ xk \in Seq(Key) /\ Len(xk) = l - 1
        /\ \A a \in 1 .. l - 1 : xk[a] = IF a = d THEN k ELSE x.keys[a]
    BY <1>0, <1>7
  <1> HIDE DEF c, d, mk, xk, y, n
  <1>9. y.keys = mk /\ y.cur = c /\ n.keys = xk /\ n.cur = d BY <1>4, <1>5
  <1>10. \A a \in 1 .. l - 1 : xk[a] = IF a < j THEN mk[a] ELSE mk[a + 1]
    <2> TAKE a \in 1 .. l - 1
    <2>1. a \in 1 .. l /\ a + 1 \in 1 .. l /\ a \in Nat OBVIOUS
    <2>2. CASE a < j
      <3>1. a = d <=> a = c BY <2>2, <1>1, <1>3, <2>1
      <3> QED BY <2>1, <2>2, <3>1, <1>0, <1>6, <1>8
    <2>3. CASE ~(a < j)
      <3>1. a = d <=> a + 1 = c BY <2>3, <1>1, <1>3, <2>1
      <3> QED BY <2>1, <2>3, <3>1, <1>0, <1>6, <1>8
    <2> QED BY <2>2, <2>3
  <1>11. n.cur = IF y.cur > j THEN y.cur - 1
                 ELSE IF y.cur = j /\ j = Len(y.keys) THEN 0 ELSE y.cur
    BY <1>1, <1>3, <1>9
  <1>12. n = [keys |-> n.keys, cur |-> n.cur] BY <1>5, <1>9
  <1>13. /\ y.keys \in Seq(Key) /\ n.keys \in Seq(Key) /\ Len(n.keys) = Len(y.keys) - 1
         /\ j \in 1 .. Len(y.keys)
         /\ \A a \in 1 .. Len(y.keys) - 1 :
               n.keys[a] = IF a < j THEN y.keys[a] ELSE y.keys[a + 1]
    BY <1>0, <1>6, <1>8, <1>9, <1>10
  <1>14. n = Map!Without(y, j) BY <1>11, <1>12, <1>13, WithoutIs
  <1> QED BY <1>14 DEF n, y, Renames

\* zend_hash_update_current_key_ex, where the element that had the key goes.
LEMMA ReplacedMap ==
  ASSUME NEW t, NEW x, NEW u, NEW m, NEW n, NEW s, NEW j, NEW c, NEW i, NEW b,
         NEW k \in Key,
         Drops(t, x, s, j), c = Cut(s, j), t.key[s[j]] = k,
         t.pInternalPointer # s[j], t.pInternalPointer # NULL,
         Rekeys(x, u, c, i, b, k),
         View(t, m, s), View(u, n, [c EXCEPT ![i] = b])
  PROVE  Map!Step(m, n)
  <1> DEFINE y == AsMap(x, List(x))
  <1>1. Holds(x, In(x), c) BY DEF Drops
  <1>2. View(x, y, c) BY <1>1, Viewed
  <1> HIDE DEF y
  <1>3. Renames(y, n, k) BY <1>2, RekeyedMap
  <1>4. y = Map!Without(m, j) /\ j \in 1 .. Len(m.keys)
    <2>1. View(x, y, Cut(s, j)) BY <1>2
    <2> QED BY <2>1, WithoutMap
  <1>5. /\ m = [keys |-> m.keys, cur |-> m.cur] /\ m.keys \in Seq(Key)
        /\ Len(m.keys) = Len(s) /\ Len(s) \in Nat /\ m.cur \in 0 .. Len(s) /\ m.cur # 0
        /\ m.keys[j] = t.key[s[j]] /\ j \in 1 .. Len(s) /\ m.cur # j
    BY <1>4 DEF View
  <1>6. /\ y.keys \in Seq(Key) /\ Len(y.keys) = Len(s) - 1
        /\ \A a \in 1 .. Len(s) - 1 : y.keys[a] = IF a < j THEN m.keys[a] ELSE m.keys[a + 1]
    <2>1. Len(c) = Len(s) - 1 /\ \A a \in 1 .. Len(s) - 1 : c[a] = IF a < j THEN s[a] ELSE s[a + 1]
      <3>1. c = [a \in 1 .. Len(s) - 1 |-> IF a < j THEN s[a] ELSE s[a + 1]] BY DEF Cut
      <3>2. Len(s) - 1 \in Nat BY <1>5
      <3> QED BY ONLY <3>1, <3>2
    <2>2. /\ y.keys \in Seq(Key) /\ Len(y.keys) = Len(c)
          /\ \A a \in 1 .. Len(c) : y.keys[a] = x.key[c[a]]
      BY <1>2 DEF View
    <2>3. \A a \in 1 .. Len(c) : x.key[c[a]] = t.key[c[a]]
      <3>1. \A a \in 1 .. Len(c) : c[a] \in In(x) BY <1>1, DllType DEF Holds, ListIs
      <3> QED BY <3>1 DEF Drops
    <2>4. \A a \in 1 .. Len(s) : m.keys[a] = t.key[s[a]] BY DEF View
    <2>5. \A a \in 1 .. Len(s) - 1 : y.keys[a] = IF a < j THEN m.keys[a] ELSE m.keys[a + 1]
      <3> TAKE a \in 1 .. Len(s) - 1
      <3>1. a \in 1 .. Len(s) /\ a + 1 \in 1 .. Len(s) BY <1>5
      <3>2. y.keys[a] = t.key[c[a]] BY <2>1, <2>2, <2>3
      <3> QED BY <3>1, <3>2, <2>1, <2>4
    <2> QED BY <2>1, <2>2, <2>5
  <1>7. n = Map!Without([m EXCEPT !.keys[m.cur] = k], j)
    <2>1. m.cur \in 1 .. Len(s) BY <1>5
    <2>2. Leaving(m, y, Len(s), j) BY <1>4, <1>5, <1>6, <2>1 DEF Leaving
    <2>3. Len(s) \in Nat /\ j \in 1 .. Len(s) /\ k \in Key BY <1>5
    <2> QED BY ONLY <1>3, <2>2, <2>3, RenameWithout
  <1>8. j \in DOMAIN m.keys \ {m.cur} /\ m.keys[j] = k BY <1>5
  <1>9. n \in Map!Renamed(m) BY <1>5, <1>7, <1>8 DEF Map!Renamed
  <1> QED BY <1>9 DEF Map!Step

\* zend_hash_sort, with and without new keys.
LEMMA SortedMap ==
  ASSUME NEW t, NEW u, NEW m, NEW n, NEW s, NEW r, Holds(t, In(t), s), Holds(u, In(u), r),
         In(u) = In(t), u.pInternalPointer = r[1], Len(r) # 0, View(t, m, s), View(u, n, r),
         \/ \A q \in In(t) : u.key[q] = t.key[q]
         \/ \A i \in 1 .. Len(r) : u.key[r[i]] = i - 1
  PROVE  Map!Step(m, n)
  <1>1. Dll(t.pListNext, t.pListLast, t.pListHead, s) /\ ToSet(s) = In(t) BY DEF Holds, ListIs
  <1>2. Dll(u.pListNext, u.pListLast, u.pListHead, r) /\ ToSet(r) = In(t) BY DEF Holds, ListIs
  <1>3. Len(s) = Cardinality(In(t)) /\ Len(r) = Cardinality(In(t)) /\ Len(r) \in Nat
    <2>1. Len(s) = Cardinality(In(t)) BY <1>1, LinkedLen DEF Dll
    <2>2. Len(r) = Cardinality(In(t)) /\ Len(r) \in Nat BY <1>2, LinkedLen DEF Dll
    <2> QED BY <2>1, <2>2
  <1>4. /\ ToSet(s) = {s[i] : i \in 1 .. Len(s)} /\ ToSet(r) = {r[i] : i \in 1 .. Len(r)}
    <2>1. ToSet(s) = {s[i] : i \in 1 .. Len(s)} BY <1>1, DllType
    <2>2. ToSet(r) = {r[i] : i \in 1 .. Len(r)} BY <1>2, DllType
    <2> QED BY <2>1, <2>2
  <1>5. /\ m.keys \in Seq(Key) /\ Len(m.keys) = Len(s) /\ DOMAIN m.keys = 1 .. Len(s)
        /\ \A i \in 1 .. Len(s) : m.keys[i] = t.key[s[i]]
    BY DEF View
  <1>6. /\ n.keys \in Seq(Key) /\ Len(n.keys) = Len(r) /\ DOMAIN n.keys = 1 .. Len(r)
        /\ \A i \in 1 .. Len(r) : n.keys[i] = u.key[r[i]]
    BY DEF View
  <1>7. n.cur = 1
    <2>1. 1 \in 1 .. Len(r) BY <1>3
    <2> QED BY <2>1 DEF View
  <1>8. m.keys # <<>> BY <1>3, <1>5
  <1>9. CASE \A q \in In(t) : u.key[q] = t.key[q]
    <2>1. ToSet(m.keys) = {t.key[q] : q \in In(t)}
      <3>1. ToSet(m.keys) = {m.keys[i] : i \in 1 .. Len(s)} BY <1>5 DEF ToSet
      <3>2. \A i \in 1 .. Len(s) : s[i] \in In(t) BY <1>1, <1>4
      <3>3. \A q \in In(t) : \E i \in 1 .. Len(s) : q = s[i] BY <1>1, <1>4
      <3> QED BY <3>1, <3>2, <3>3, <1>5
    <2>2. ToSet(n.keys) = {t.key[q] : q \in In(t)}
      <3>1. ToSet(n.keys) = {n.keys[i] : i \in 1 .. Len(r)} BY <1>6 DEF ToSet
      <3>2. \A i \in 1 .. Len(r) : r[i] \in In(t) BY <1>2, <1>4
      <3>3. \A q \in In(t) : \E i \in 1 .. Len(r) : q = r[i] BY <1>2, <1>4
      <3>4. \A i \in 1 .. Len(r) : n.keys[i] = t.key[r[i]] BY <3>2, <1>6, <1>9
      <3>5. ToSet(n.keys) = {t.key[r[i]] : i \in 1 .. Len(r)} BY ONLY <3>1, <3>4
      <3>6. {t.key[r[i]] : i \in 1 .. Len(r)} = {t.key[q] : q \in In(t)}
        BY ONLY <3>2, <3>3
      <3> QED BY ONLY <3>5, <3>6
    <2>3. Map!Reordered(m, n)
      BY <1>3, <1>5, <1>6, <1>7, <1>8, <2>1, <2>2 DEF Map!Reordered, Map!ToSet, ToSet
    <2> QED BY <2>3 DEF Map!Step
  <1>10. CASE \A i \in 1 .. Len(r) : u.key[r[i]] = i - 1
    <2>1. \A i \in DOMAIN n.keys : n.keys[i] = i - 1 BY <1>6, <1>10
    <2>2. Map!Reordered(m, n) BY <1>3, <1>5, <1>6, <1>7, <1>8, <2>1 DEF Map!Reordered
    <2> QED BY <2>2 DEF Map!Step
  <1> QED BY <1>9, <1>10

-----------------------------------------------------------------------------
(***************************************************************************)
(* The calls.                                                              *)
(***************************************************************************)
\* The map that a table stands for.
Shown(t) == AsMap(t, List(t))

\* Insertion.
LEMMA AddMap ==
  ASSUME Whole(ht, stack, owed), NEW k \in Key, zend_hash_add(k)
  PROVE  Map!Step(Shown(ht), Shown(ht'))
  <1>1. PICK s : Holds(ht, In(ht), s) BY DEF Whole
  <1>2. Find(ht, k) = NULL /\ Insert(k) BY DEF zend_hash_add
  <1>3. PICK p \in Bucket \ ht.live :
          LET v == [ht EXCEPT !.live = @ \cup {p}, !.key[p] = k,
                              !.nNextFreeElement = NextFree(@, k)]
          IN  ht' \in ZEND_HASH_IF_FULL_DO_RESIZE(
                    Count(CONNECT_TO_GLOBAL_DLLIST(CONNECT_TO_BUCKET_DLLIST(v, p), p), 1))
    BY <1>2 DEF Insert
  <1>4. In(ht) \subseteq ht.live BY Facts
  <1>5. \A q \in In(ht) : ht.key[q] # k BY <1>1, <1>2, Found, HashAssumption DEF In
  <1>6. p \in Bucket \ In(ht) BY <1>4
  <1>7. Added(ht, ht', s, p, k) BY <1>1, <1>3, <1>5, <1>6, Inserted
  <1>8. Holds(ht', In(ht'), Append(s, p)) BY <1>7 DEF Added
  <1>9. View(ht, Shown(ht), s) /\ View(ht', Shown(ht'), Append(s, p))
    BY <1>1, <1>8, Viewed DEF Shown
  <1> QED BY <1>1, <1>5, <1>6, <1>7, <1>9, AddedMap

\* A table that has lost an element.
LEMMA LostMap ==
  ASSUME NEW t, NEW u, NEW s, NEW i, Drops(t, u, s, i)
  PROVE  Map!Step(Shown(t), Shown(u))
  <1>1. Holds(t, In(t), s) /\ Holds(u, In(u), Cut(s, i)) BY DEF Drops
  <1>2. View(t, Shown(t), s) /\ View(u, Shown(u), Cut(s, i)) BY <1>1, Viewed DEF Shown
  <1> QED BY <1>2, DropsMap

\* Deletion by key.
LEMMA DelMap ==
  ASSUME Whole(ht, stack, owed), NEW k \in Key, zend_hash_del_key_or_index(k)
  PROVE  Map!Step(Shown(ht), Shown(ht'))
  <1> DEFINE p == Find(ht, k)
             x == Unlink(ht, p)
  <1>1. PICK s : Holds(ht, In(ht), s) BY DEF Whole
  <1>2. p \in In(ht) BY <1>1, Found DEF zend_hash_del_key_or_index
  <1>3. ht' = [x EXCEPT !.pListNext[p] = NULL] BY DEF zend_hash_del_key_or_index
  <1> HIDE DEF p
  <1>4. PICK i \in 1 .. Len(s) : p = s[i] BY <1>1, <1>2, Place
  <1>5. TakenOut(ht, x, s, i) BY <1>1, <1>4, Unlinked
  <1> HIDE DEF x
  <1>6. /\ In(x) = In(ht) \ {p} /\ Holds(x, In(x), Cut(s, i))
        /\ x.pInternalPointer = IF ht.pInternalPointer = s[i] THEN ht.pListNext[s[i]]
                                ELSE ht.pInternalPointer
        /\ \A q \in In(x) : x.key[q] = ht.key[q]
    BY <1>4, <1>5 DEF TakenOut
  <1>7. p \in Bucket \ In(x) BY <1>2, <1>6 DEF In
  <1>8. Detached(x, ht', p) /\ Holds(ht', In(ht'), Cut(s, i)) BY <1>3, <1>6, <1>7, DetachedOne
  <1>9. Drops(ht, ht', s, i) BY <1>1, <1>6, <1>8 DEF Drops, Detached
  <1> QED BY <1>9, LostMap

\* zend_hash_apply_deleter.
LEMMA DeleteMap ==
  ASSUME Whole(ht, stack, owed), NEW p \in In(ht), Delete(p)
  PROVE  Map!Step(Shown(ht), Shown(ht'))
  <1>1. PICK s : Holds(ht, In(ht), s) BY DEF Whole
  <1>2. PICK i \in 1 .. Len(s) : p = s[i] BY <1>1, Place
  <1>3. ht' = Forget(Count(Unlist(Unchain(ht, p, ht.pLast[p] = NULL), p), -1), {p})
    BY DEF Delete
  <1>4. TakenOut(ht, ht', s, i) BY <1>1, <1>2, <1>3, DeletedOne
  <1>5. Drops(ht, ht', s, i) BY <1>1, <1>4 DEF Drops, TakenOut
  <1> QED BY <1>5, LostMap

\* An empty table shows an empty map.
LEMMA EmptyMap ==
  ASSUME NEW t, NEW u, Holds(u, In(u), <<>>)
  PROVE  Shown(u) = Map!Cleared /\ Map!Step(Shown(t), Shown(u))
  <1>1. View(u, Shown(u), <<>>) BY Viewed DEF Shown
  <1> QED BY <1>1, ClearedMap

\* zend_hash_clean, and the end of zend_hash_graceful_reverse_destroy.
LEMMA CleanMap ==
  ASSUME Whole(ht, stack, owed), zend_hash_clean \/ Destroyed
  PROVE  Map!Step(Shown(ht), Shown(ht'))
  <1>1. PICK s : Holds(ht, In(ht), s) BY DEF Whole
  <1>2. CASE zend_hash_clean
    <2>1. Holds(ht', In(ht'), <<>>) BY <1>1, <1>2, CleanedAll DEF zend_hash_clean
    <2> QED BY <2>1, EmptyMap
  <1>3. CASE Destroyed
    <2>1. ht' = _zend_hash_init BY <1>3 DEF Destroyed
    <2>2. Holds(ht', In(ht'), <<>>) BY <2>1, NewTable
    <2> QED BY <2>2, EmptyMap
  <1> QED BY <1>2, <1>3

\* Moves of the internal pointer.
LEMMA MoveMap ==
  ASSUME Whole(ht, stack, owed), NEW p, Move(p), Whole(ht', stack', owed)
  PROVE  Map!Step(Shown(ht), Shown(ht'))
  <1>1. PICK s : Holds(ht, In(ht), s) BY DEF Whole
  <1>2. PICK r : Holds(ht', In(ht'), r) BY DEF Whole
  <1>3. ht' = [ht EXCEPT !.pInternalPointer = p] BY DEF Move
  <1>4. ht \in Table /\ ht' \in Table /\ ListIs(ht, s) /\ ListIs(ht', r)
    BY <1>1, <1>2 DEF Holds, IsTable
  <1>5. ht'.pListNext = ht.pListNext /\ ht'.pListHead = ht.pListHead /\ ht'.key = ht.key
    BY <1>3, <1>4 DEF Table
  <1>6. r = s
    <2>1. List(ht') = List(ht) BY <1>5 DEF List
    <2> QED BY <2>1, <1>4, ListFound
  <1>7. View(ht, Shown(ht), s) /\ View(ht', Shown(ht'), s) BY <1>1, <1>2, <1>6, Viewed DEF Shown
  <1> QED BY <1>5, <1>7, MovedMap

\* zend_hash_sort, when the comparisons have left the elements alone.
LEMMA SortMap ==
  ASSUME Whole(ht, stack, owed), stack # <<>>, BucketsLive, SortDone, ~torn'
  PROVE  Map!Step(Shown(ht), Shown(ht'))
  <1> DEFINE f == Head(stack)
             S == ToSet(f.arTmp)
  <1>1. PICK c : Holds(ht, In(ht), c) BY DEF Whole
  <1>2. List(ht) = c /\ ToSet(c) = In(ht) /\ In(ht) \in SUBSET Bucket
    BY <1>1, ListFound DEF Holds, IsTable, In
  <1>3. Sorting(f) /\ torn' = (ToSet(List(ht)) # S) BY DEF SortDone, Sorting, Top
  <1>4. S # {} BY <1>3, SortReady
  <1>5. S = In(ht) BY <1>2, <1>3
  <1>6. PICK r \in SetToSeqs(S) :
          ht' = IF f.op = "sort" THEN Renumber(Sorted(ht, r), r) ELSE Sorted(ht, r)
    BY DEF SortDone, Top
  <1> HIDE DEF f, S
  <1>7. Order(r, In(ht)) BY <1>2, <1>5, <1>6, OrderOf
  <1>8. Len(r) # 0
    <2>1. ToSet(r) = S /\ DOMAIN r = 1 .. Len(r) BY <1>5, <1>7 DEF Order
    <2> QED BY <2>1, <1>4 DEF ToSet
  <1> DEFINE u == Sorted(ht, r)
  <1>9. InOrder(ht, u, r) /\ u.key = ht.key BY <1>1, <1>7, <1>8, SortedOne
  <1> HIDE DEF u
  <1>10. In(u) = In(ht) /\ Holds(u, In(u), r) /\ u.pInternalPointer = r[1] BY <1>9 DEF InOrder
  <1>11. View(ht, Shown(ht), c) BY <1>1, Viewed DEF Shown
  <1>12. CASE ht' = u
    <2>1. View(ht', Shown(ht'), r) BY <1>10, <1>12, Viewed DEF Shown
    <2>2. \A q \in In(ht) : ht'.key[q] = ht.key[q] BY <1>9, <1>12
    <2> QED BY <1>1, <1>8, <1>10, <1>11, <1>12, <2>1, <2>2, SortedMap
  <1>13. CASE ht' = Renumber(u, r)
    <2>1. InOrder(u, ht', r) /\ \A i \in 1 .. Len(r) : ht'.key[r[i]] = i - 1
      BY <1>8, <1>10, <1>13, Renumbered
    <2>2. In(ht') = In(ht) /\ Holds(ht', In(ht'), r) /\ ht'.pInternalPointer = r[1]
      BY <2>1, <1>10 DEF InOrder
    <2>3. View(ht', Shown(ht'), r) BY <2>2, Viewed DEF Shown
    <2> QED BY <1>1, <1>8, <1>11, <2>1, <2>2, <2>3, SortedMap
  <1> QED BY <1>6, <1>12, <1>13 DEF u

\* Rekey changes the key of the current element.
LEMMA RekeysOne ==
  ASSUME NEW o, NEW t, Whole(t, <<>>, o), NEW s, Holds(t, In(t), s), NEW i \in 1 .. Len(s),
         NEW k \in Key, \A q \in In(t) : t.key[q] # k, NEW u \in Rekey(t, s[i], k),
         t.pInternalPointer = s[i]
  PROVE  \E b : Rekeys(t, u, s, i, b, k) /\ Holds(u, In(u), [s EXCEPT ![i] = b])
  <1>1. PICK b : /\ Rekeyed(t, u, s, s[i], b, k, [s EXCEPT ![i] = b]) /\ b \in Bucket
                 /\ (b = s[i] \/ b \notin In(t))
    BY RekeyWhole
  <1>2. Rekeys(t, u, s, i, b, k) BY <1>1 DEF Rekeys
  <1>3. Holds(u, In(u), [s EXCEPT ![i] = b]) BY <1>1 DEF Rekeyed
  <1> QED BY <1>2, <1>3

\* zend_hash_update_current_key_ex.
LEMMA RekeyMap ==
  ASSUME Whole(ht, stack, owed), NEW k \in Key, NEW mode,
         zend_hash_update_current_key_ex(k, mode)
  PROVE  Map!Step(Shown(ht), Shown(ht'))
  <1> DEFINE p == ht.pInternalPointer
             q == Find(ht, k)
             Without(b) == Count(pefree(Unlink(ht, b), b), -1)
  <1>1. PICK s : Holds(ht, In(ht), s) BY DEF Whole
  <1>2. /\ stack = <<>> /\ p # NULL /\ ht.key[p] # k
        /\ \/ q = NULL /\ ht' \in Rekey(ht, p, k)
           \/ q # NULL /\ ht' = Without(p)
           \/ q # NULL /\ ht' \in Rekey(Without(q), p, k)
    BY DEF zend_hash_update_current_key_ex
  <1>3. p \in In(ht) BY <1>1, <1>2 DEF Holds
  <1>4. \/ q = NULL /\ \A x \in In(ht) : ht.key[x] # k
        \/ /\ q \in In(ht) /\ q # NULL /\ ht.key[q] = k
           /\ \A x \in In(ht) : ht.key[x] = k => x = q
    BY <1>1, Found
  <1>5. Whole(ht, <<>>, owed) BY <1>2
  <1>p. ht.pInternalPointer = p OBVIOUS
  <1> HIDE DEF p, q
  <1>6. PICK i \in 1 .. Len(s) : p = s[i] BY <1>1, <1>3, Place
  <1>s. View(ht, Shown(ht), s) BY <1>1, Viewed DEF Shown
  <1>7. CASE q = NULL /\ ht' \in Rekey(ht, p, k)
    <2>1. \A x \in In(ht) : ht.key[x] # k BY <1>4, <1>7
    <2>2. PICK b : Rekeys(ht, ht', s, i, b, k) /\ Holds(ht', In(ht'), [s EXCEPT ![i] = b])
      BY <1>1, <1>5, <1>6, <1>7, <1>p, <2>1, RekeysOne
    <2>3. View(ht', Shown(ht'), [s EXCEPT ![i] = b]) BY <2>2, Viewed DEF Shown
    <2> QED BY <1>s, <2>1, <2>2, <2>3, RenamedMap
  <1>8. CASE q # NULL /\ ht' = Without(p)
    <2>1. Dropped(ht, ht', s, i) BY <1>1, <1>6, <1>8, DroppedOne
    <2>2. Drops(ht, ht', s, i) BY <1>1, <2>1 DEF Dropped, Drops
    <2> QED BY <2>2, LostMap
  <1>9. CASE q # NULL /\ ht' \in Rekey(Without(q), p, k)
    <2> DEFINE t == Without(q)
    <2>1. q \in In(ht) /\ ht.key[q] = k /\ \A x \in In(ht) : ht.key[x] = k => x = q BY <1>4, <1>9
    <2>2. PICK j \in 1 .. Len(s) : q = s[j] BY <1>1, <2>1, Place
    <2>3. Dropped(ht, t, s, j) BY <1>1, <2>2, DroppedOne
    <2>4. ht' \in Rekey(t, p, k) BY <1>9
    <2> HIDE DEF t
    <2>5. Whole(t, <<>>, owed) BY <1>5, <2>3, DroppedWhole
    <2>6. /\ In(t) = In(ht) \ {q} /\ Holds(t, In(t), Cut(s, j))
          /\ \A x \in In(t) : t.key[x] = ht.key[x]
          /\ t.pInternalPointer = IF ht.pInternalPointer = q THEN ht.pListNext[q]
                                  ELSE ht.pInternalPointer
      BY <2>2, <2>3 DEF Dropped
    <2>7. p # q /\ p \in In(t) /\ \A x \in In(t) : t.key[x] # k BY <1>2, <1>3, <2>1, <2>6
    <2>8. t.pInternalPointer = p BY <1>p, <2>6, <2>7
    <2>9. Drops(ht, t, s, j) BY <1>1, <2>3 DEF Dropped, Drops
    <2> DEFINE c == Cut(s, j)
    <2>10. Holds(t, In(t), c) BY <2>6
    <2>c. c = Cut(s, j) OBVIOUS
    <2> HIDE DEF c
    <2>11. PICK m \in 1 .. Len(c) : p = c[m] BY <2>7, <2>10, Place
    <2>12. PICK b : Rekeys(t, ht', c, m, b, k) /\ Holds(ht', In(ht'), [c EXCEPT ![m] = b])
      BY <2>4, <2>5, <2>7, <2>8, <2>10, <2>11, RekeysOne
    <2>13. View(ht', Shown(ht'), [c EXCEPT ![m] = b]) BY <2>12, Viewed DEF Shown
    <2>14. ht.key[s[j]] = k /\ ht.pInternalPointer # s[j] /\ ht.pInternalPointer # NULL
      BY <1>2, <1>p, <2>1, <2>2, <2>7
    <2> QED BY <1>s, <2>9, <2>c, <2>12, <2>13, <2>14, ReplacedMap
  <1> QED BY <1>2, <1>7, <1>8, <1>9

\* The same list with the same keys and the same position.
LEMMA QuietMap ==
  ASSUME NEW t, NEW u, NEW s, Holds(t, In(t), s), Holds(u, In(u), s),
         \A q \in In(t) : u.key[q] = t.key[q], u.pInternalPointer = t.pInternalPointer
  PROVE  Shown(u) = Shown(t)
  <1>1. View(t, Shown(t), s) /\ View(u, Shown(u), s) BY Viewed DEF Shown
  <1>2. \A i \in 1 .. Len(s) : s[i] \in In(t) BY DllType DEF Holds, ListIs
  <1> QED BY <1>1, <1>2, SameMap

\* Freeing the bucket whose destructor has run.
LEMMA FreeMap ==
  ASSUME Whole(ht, stack, owed), stack # <<>>, Head(stack).dead # NULL, NEW u,
         u = pefree(ht, Head(stack).dead)
  PROVE  Shown(u) = Shown(ht) /\ IsTable(u) /\ \E s : Holds(u, In(u), s)
  <1> DEFINE d == Head(stack).dead
  <1>1. PICK s : Holds(ht, In(ht), s) BY DEF Whole
  <1>2. WholeTop(ht, Head(stack), Tail(stack), owed) BY WholePop
  <1>3. d \in Bucket \ In(ht) BY <1>2, TopFacts
  <1> HIDE DEF d
  <1>4. u = pefree(ht, d) BY DEF d
  <1>5. /\ IsTable(u) /\ Holds(u, In(u), s) /\ u.pInternalPointer = ht.pInternalPointer
        /\ \A q \in In(ht) : u.key[q] = ht.key[q]
    BY <1>1, <1>3, <1>4, Freed
  <1>6. Shown(u) = Shown(ht) BY <1>1, <1>5, QuietMap
  <1> QED BY <1>5, <1>6

\* What only a waiting call does to the table.
LEMMA ResumeQuiet ==
  ASSUME Whole(ht, stack, owed), stack # <<>>, UpdateData \/ Deleted \/ Cleaned \/ Removed \/ TailDestroyed
  PROVE  Shown(ht') = Shown(ht)
  <1>1. IsTable(ht) BY DEF Whole
  <1>2. CASE UpdateData
    <2>1. ht' = [ht EXCEPT !.nNextFreeElement = NextFree(@, Top.k)] BY <1>2 DEF UpdateData
    <2>2. /\ ht'.pListNext = ht.pListNext /\ ht'.pListHead = ht.pListHead /\ ht'.key = ht.key
          /\ ht'.pInternalPointer = ht.pInternalPointer
      BY <2>1, <1>1 DEF IsTable, Table
    <2>3. List(ht') = List(ht) BY <2>2 DEF List
    <2> QED BY <2>2, <2>3 DEF Shown, AsMap
  <1>3. CASE Deleted
    <2> DEFINE y == pefree(ht, Head(stack).dead)
    <2>1. Head(stack).op = "del" /\ ht' = Count(y, -1) BY <1>3 DEF Deleted, Top
    <2>2. Head(stack).dead # NULL
      <3>1. FrameOK(ht, Head(stack)) BY WholePop DEF WholeTop
      <3> QED BY <2>1, <3>1 DEF FrameOK
    <2>3. Shown(y) = Shown(ht) /\ IsTable(y) BY <2>2, FreeMap
    <2> HIDE DEF y
    <2>4. -1 \in Int OBVIOUS
    <2>5. /\ ht'.pListNext = y.pListNext /\ ht'.pListHead = y.pListHead /\ ht'.key = y.key
          /\ ht'.pInternalPointer = y.pInternalPointer
      BY <2>1, <2>3, <2>4, CountFields
    <2>6. List(ht') = List(y) BY <2>5 DEF List
    <2>7. Shown(ht') = Shown(y) BY <2>5, <2>6 DEF Shown, AsMap
    <2> QED BY <2>3, <2>7
  <1>4. CASE Cleaned \/ Removed \/ TailDestroyed
    <2>1. Head(stack).dead # NULL /\ ht' = pefree(ht, Head(stack).dead)
      BY <1>4 DEF Cleaned, Removed, TailDestroyed, Top
    <2> QED BY <2>1, FreeMap
  <1> QED BY <1>2, <1>3, <1>4

\* A call of a script is a step of the map, or none.
LEMMA ScriptMap ==
  ASSUME Whole(ht, stack, owed), Whole(ht', stack', owed), Script
  PROVE  Map!Step(Shown(ht), Shown(ht')) \/ Shown(ht') = Shown(ht)
  <1>1. ScriptKey \subseteq Key BY HashAssumption DEF ScriptKey, Key, Index
  <1>2. CASE \E k \in ScriptKey : zend_hash_add(k) BY <1>1, <1>2, AddMap
  <1>3. CASE zend_hash_next_index_insert
    <2>1. ht.nNextFreeElement \in Key BY DEF Whole, IsTable, Table, Key
    <2> QED BY <1>3, <2>1, AddMap DEF zend_hash_next_index_insert
  <1>4. CASE \E k \in Key : zend_hash_del_key_or_index(k) BY <1>4, DelMap
  <1>5. CASE \E k \in ScriptKey, mode \in Mode : zend_hash_update_current_key_ex(k, mode)
    BY <1>1, <1>5, RekeyMap
  <1>6. CASE \/ zend_hash_internal_pointer_reset \/ zend_hash_internal_pointer_end
             \/ zend_hash_move_forward \/ zend_hash_move_backwards \/ zend_hash_set_pointer
    BY <1>6, MoveMap DEF zend_hash_internal_pointer_reset, zend_hash_internal_pointer_end,
       zend_hash_move_forward, zend_hash_move_backwards, zend_hash_set_pointer
  <1>7. CASE UNCHANGED ht BY <1>7
  <1>8. /\ (\E k \in Key : zend_hash_update(k)) => UNCHANGED ht
        /\ (\E renumber \in BOOLEAN : zend_hash_sort(renumber)) => UNCHANGED ht
        /\ zend_hash_apply \/ zend_hash_reverse_apply \/ zend_hash_graceful_reverse_destroy
           => UNCHANGED ht
    BY DEF zend_hash_update, zend_hash_sort, zend_hash_apply, zend_hash_reverse_apply,
       zend_hash_graceful_reverse_destroy
  <1> QED BY <1>2, <1>3, <1>4, <1>5, <1>6, <1>7, <1>8 DEF Script

\* So is what a waiting call does.
LEMMA ResumeMap ==
  ASSUME Whole(ht, stack, owed), BucketsLive, Resume
  PROVE  Map!Step(Shown(ht), Shown(ht')) \/ Shown(ht') = Shown(ht)
  <1>1. stack # <<>> BY DEF Resume
  <1>2. CASE ApplyRemove
    <2>1. /\ Head(stack).p # NULL /\ Head(stack).dead = NULL /\ Delete(Head(stack).p)
          /\ Apply(Head(stack))
      BY <1>2 DEF ApplyRemove, Applying, Apply, Top
    <2>2. Head(stack).p \in In(ht) BY <1>1, <2>1, GoesOn
    <2> QED BY <2>1, <2>2, DeleteMap
  <1>3. CASE DestroyTail
    <2>1. ht.pListTail # NULL /\ Delete(ht.pListTail) BY <1>3 DEF DestroyTail
    <2>2. PICK s : Holds(ht, In(ht), s) BY DEF Whole
    <2>3. ht.pListTail \in In(ht) BY <2>1, <2>2, ListEnds
    <2> QED BY <2>1, <2>3, DeleteMap
  <1>4. CASE UpdateData \/ Deleted \/ Cleaned \/ Removed \/ TailDestroyed
    BY <1>1, <1>4, ResumeQuiet
  <1>5. CASE Clean \/ CleanDone \/ ApplyKeep \/ ApplyDone
    <2>1. UNCHANGED ht BY <1>5 DEF Clean, CleanDone, ApplyKeep, ApplyDone
    <2> QED BY <2>1
  <1> QED BY <1>2, <1>3, <1>4, <1>5 DEF Resume

\* Every step of ZendHash is a step of the map, or none, or tears the list.
LEMMA MapStep == IInv /\ IInv' /\ [Next]_vars => [torn' \/ Map!MapNext]_(Shown(ht))
  <1> SUFFICES ASSUME IInv, IInv', [Next]_vars, ~torn'
      PROVE  Map!Step(Shown(ht), Shown(ht')) \/ Shown(ht') = Shown(ht)
    BY DEF Map!MapNext, Shown
  <1>1. CASE zend_hash_get_pointer \/ UNCHANGED vars
    <2>1. UNCHANGED ht BY <1>1 DEF zend_hash_get_pointer, vars
    <2> QED BY <2>1
  <1> SUFFICES ASSUME Next PROVE Map!Step(Shown(ht), Shown(ht')) \/ Shown(ht') = Shown(ht)
    BY <1>1
  <1>2. BucketsLive /\ ~torn BY DEF Next
  <1>3. Whole(ht, stack, owed) /\ Whole(ht', stack', owed') BY <1>2 DEF IInv
  <1>4. CASE Script /\ UNCHANGED <<fe, owed, torn>>
    <2>1. Whole(ht', stack', owed) BY <1>3, <1>4
    <2> QED BY <1>3, <1>4, <2>1, ScriptMap
  <1>5. CASE Resume BY <1>2, <1>3, <1>5, ResumeMap
  <1>6. CASE zend_hash_clean \/ Destroyed BY <1>3, <1>6, CleanMap
  <1>7. CASE stack # <<>> /\ SortDone BY <1>2, <1>3, <1>7, SortMap
  <1> QED BY <1>1, <1>4, <1>5, <1>6, <1>7 DEF Next

\* To a script the table is the ordered map that OrderedMap describes, whatever the
\* destructors and comparisons do that zend_hash.c calls, up to the call of
\* zend_hash_sort whose comparison changes the elements (AssociationKept): an element
\* comes, goes or gets another key in one step of the map, and what a call does when a
\* destructor has returned shows nowhere.
THEOREM MapTheorem == Spec => ImplementsMap
  <1>1. Init => Shown(ht) = Map!Cleared
    <2>1. Init => ht = _zend_hash_init BY DEF Init
    <2>2. Holds(_zend_hash_init, In(_zend_hash_init), <<>>) BY NewTable
    <2> QED BY <2>1, <2>2, EmptyMap
  <1>2. Init => Map!MapInit BY <1>1 DEF Shown, Map!MapInit
  <1>3. IInv /\ IInv' /\ [Next]_vars => [torn' \/ Map!MapNext]_(AsMap(ht, List(ht)))
    BY MapStep DEF Shown
  <1> QED BY <1>2, <1>3, Invariance, PTL DEF Spec, ImplementsMap

=============================================================================
