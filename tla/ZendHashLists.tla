--------------------------- MODULE ZendHashLists ----------------------------
(***************************************************************************)
(* The data structures of ZendHash: what its helpers do to doubly linked   *)
(* lists, chains and the table they make up.  Linked and Dll say what lies *)
(* along the pointers, Holds that a table holds given elements in a given  *)
(* order; each helper has a lemma in these terms, and the calls of         *)
(* ZendHash are proved from those alone.                                   *)
(*                                                                         *)
(* Path, Find and zend_hash_rehash are recursive, and what they compute is *)
(* needed for every table: by the lemmas of RecursionLemmas.               *)
(***************************************************************************)
EXTENDS ZendHash, RecursionLemmas, FiniteSetTheorems

\* From p along the pointers f lie the buckets of s, each once, and then NULL.
Linked(f, p, s) ==
    /\ s \in Seq(Bucket)
    /\ \A i, j \in 1 .. Len(s) : s[i] = s[j] => i = j
    /\ p = IF Len(s) = 0 THEN NULL ELSE s[1]
    /\ \A i \in 1 .. Len(s) : f[s[i]] = IF i = Len(s) THEN NULL ELSE s[i + 1]

\* The values of a field that is a pointer to a bucket.
Ptr == [Bucket -> Bucket \cup {NULL}]
\* There are this many buckets.
NB == Cardinality(Bucket)

\* What the recursion of Path computes.
LEMMA PathRec ==
  ASSUME NEW f \in Ptr
  PROVE  \E g : /\ \A p : Path(f, p) = g[NB + 1][p]
                /\ \A n \in 0 .. NB + 1 : \A q \in Bucket \cup {NULL} :
                     g[n][q] = IF n = 0 \/ q = NULL THEN <<>> ELSE <<q>> \o g[n - 1][f[q]]
  <1> DEFINE B == Bucket \cup {NULL}
             T == [B -> Seq(Bucket)]
             row(r) == [q \in B |-> IF q = NULL THEN <<>> ELSE <<q>> \o r[f[q]]]
             F == [n \in Nat |-> [r \in T |-> row(r)]]
             zero == [q \in B |-> <<>>]
             body(g, n) == [q \in B |-> IF n = 0 \/ q = NULL THEN <<>>
                                        ELSE <<q>> \o g[n - 1][f[q]]]
             R(g) == g = [n \in 0 .. NB + 1 |-> body(g, n)]
  <1>0. NB \in Nat /\ NB + 1 \in Nat
    <2>1. NB \in Nat BY HashAssumption, FS_CardinalityType DEF NB
    <2> QED BY <2>1
  <1>1. zero \in T OBVIOUS
  <1>2. ASSUME NEW r \in T PROVE row(r) \in T
    <2>1. ASSUME NEW q \in Bucket PROVE <<q>> \o r[f[q]] \in Seq(Bucket)
      <3>1. f[q] \in B BY DEF Ptr
      <3> QED BY <3>1
    <2> QED BY <2>1
  <1>3. F \in [Nat -> [T -> T]]
    <2> HIDE DEF row, T
    <2> QED BY <1>2
  <1>4. PICK g \in [0 .. NB + 1 -> T] : g[0] = zero
                      /\ \A n \in 1 .. NB + 1 : g[n] = F[n][g[n - 1]]
    <2> DEFINE m == NB + 1
    <2>1. m \in Nat BY <1>0
    <2> HIDE DEF F, T, zero, m
    <2>2. \E g : Unfolds(g, T, zero, F, m) BY <2>1, <1>1, <1>3, Recursion
    <2> QED BY <2>2 DEF m, Unfolds
  <1>5. ASSUME NEW n \in 0 .. NB + 1 PROVE g[n] = body(g, n)
    <2>1. CASE n = 0 BY <2>1, <1>4
    <2>2. CASE n # 0
      <3>1. n \in 1 .. NB + 1 /\ n - 1 \in 0 .. NB + 1 /\ n \in Nat BY <1>0, <2>2
      <3>2. g[n - 1] \in T BY <3>1
      <3>3. g[n] = row(g[n - 1])
        <4> HIDE DEF row, T
        <4> QED BY <1>4, <3>1, <3>2
      <3> QED BY <2>2, <3>3
    <2> QED BY <2>1, <2>2
  <1>6. R(g)
    <2> HIDE DEF T, body
    <2> QED BY <1>5
  <1>7. R(CHOOSE h : R(h))
    <2> HIDE DEF R
    <2> QED BY <1>6
  <1> DEFINE w == CHOOSE h : R(h)
  <1>. R(w) BY <1>7
  <1>8. \A p : Path(f, p) = w[NB + 1][p] BY DEF Path, NB
  <1>9. ASSUME NEW n \in 0 .. NB + 1, NEW q \in B PROVE w[n][q] = body(w, n)[q]
    <2>1. w = [k \in 0 .. NB + 1 |-> body(w, k)] OBVIOUS
    <2> HIDE DEF w, body, B
    <2> QED BY <2>1
  <1>10. ASSUME NEW n \in 0 .. NB + 1, NEW q \in B
         PROVE w[n][q] = IF n = 0 \/ q = NULL THEN <<>> ELSE <<q>> \o w[n - 1][f[q]]
    <2> HIDE DEF w
    <2> QED BY <1>9
  <1> HIDE DEF w
  <1> QED BY <1>8, <1>10

\* A linked sequence has no more elements than there are buckets.
LEMMA LinkedLen ==
  ASSUME NEW f, NEW p, NEW s, Linked(f, p, s)
  PROVE  /\ Len(s) \in Nat /\ Len(s) <= NB
         /\ Cardinality(ToSet(s)) = Len(s) /\ IsFiniteSet(ToSet(s))
  <1>1. Len(s) \in Nat /\ s \in [1 .. Len(s) -> Bucket] /\ DOMAIN s = 1 .. Len(s)
    BY DEF Linked
  <1>2. ToSet(s) \subseteq Bucket /\ ToSet(s) = {s[i] : i \in 1 .. Len(s)} BY <1>1 DEF ToSet
  <1>3. IsFiniteSet(ToSet(s)) /\ Cardinality(ToSet(s)) <= NB
    BY <1>2, HashAssumption, FS_Subset DEF NB
  <1>4. s \in Bijection(1 .. Len(s), ToSet(s))
    <2>1. s \in [1 .. Len(s) -> ToSet(s)] BY <1>1, <1>2
    <2>2. s \in Injection(1 .. Len(s), ToSet(s))
      BY <1>1, <2>1 DEF Linked, Injection, IsInjective
    <2>3. s \in Surjection(1 .. Len(s), ToSet(s)) BY <1>2, <2>1 DEF Surjection
    <2> QED BY <2>2, <2>3 DEF Bijection
  <1>5. IsFiniteSet(1 .. Len(s)) /\ Cardinality(1 .. Len(s)) = Len(s)
    BY <1>1, FS_Interval
  <1>6. Cardinality(1 .. Len(s)) = Cardinality(ToSet(s))
    BY <1>4, <1>5, FS_Bijection DEF ExistsBijection
  <1> QED BY <1>1, <1>3, <1>5, <1>6

\* Path finds the sequence that is linked.
LEMMA PathLinked ==
  ASSUME NEW f \in Ptr, NEW p, NEW s, Linked(f, p, s)
  PROVE  Path(f, p) = s
  <1>0. NB \in Nat /\ 0 \in 0 .. NB + 1
    <2>1. NB \in Nat BY HashAssumption, FS_CardinalityType DEF NB
    <2> QED BY <2>1
  <1>1. PICK g : /\ \A x : Path(f, x) = g[NB + 1][x]
                 /\ \A n \in 0 .. NB + 1 : \A q \in Bucket \cup {NULL} :
                      g[n][q] = IF n = 0 \/ q = NULL THEN <<>> ELSE <<q>> \o g[n - 1][f[q]]
    BY PathRec
  <1> DEFINE Q(n) == \A q, r : Linked(f, q, r) /\ Len(r) <= n => g[n][q] = r
             S == {n \in Nat : n <= NB + 1 => Q(n)}
  <1>2. 0 \in S
    <2>1. ASSUME NEW q, NEW r, Linked(f, q, r), Len(r) <= 0 PROVE g[0][q] = r
      <3>1. r = <<>> /\ q = NULL BY <2>1 DEF Linked
      <3>2. g[0][NULL] = <<>> BY <1>0, <1>1
      <3> QED BY <3>1, <3>2
    <2> QED BY <2>1
  <1>3. ASSUME NEW n \in S PROVE n + 1 \in S
    <2> SUFFICES ASSUME n + 1 <= NB + 1, NEW q, NEW r, Linked(f, q, r), Len(r) <= n + 1
                 PROVE  g[n + 1][q] = r
      OBVIOUS
    <2>1. n \in Nat /\ n + 1 \in 0 .. NB + 1 /\ Q(n) BY <1>0
    <2>2. r \in Seq(Bucket) /\ Len(r) \in Nat BY DEF Linked
    <2>3. CASE Len(r) = 0
      <3>1. q = NULL /\ r = <<>> BY <2>2, <2>3 DEF Linked
      <3> QED BY <2>1, <1>1, <3>1
    <2>4. CASE Len(r) # 0
      <3>1. q = r[1] /\ q \in Bucket /\ q # NULL BY <2>2, <2>4, HashAssumption DEF Linked
      <3> DEFINE u == Tail(r)
      <3>2. u \in Seq(Bucket) /\ Len(u) = Len(r) - 1 /\ \A i \in 1 .. Len(u) : u[i] = r[i + 1]
        BY <2>2, <2>4
      <3>3. Linked(f, f[q], u)
        <4>1. ASSUME NEW i \in 1 .. Len(u), NEW j \in 1 .. Len(u), u[i] = u[j] PROVE i = j
          <5>1. i + 1 \in 1 .. Len(r) /\ j + 1 \in 1 .. Len(r) BY <3>2, <2>2, <2>4
          <5>2. i + 1 = j + 1 BY <5>1, <4>1, <3>2 DEF Linked
          <5> QED BY <5>2
        <4>2. f[q] = IF Len(u) = 0 THEN NULL ELSE u[1]
          <5>1. 1 \in 1 .. Len(r) BY <2>2, <2>4
          <5>2. f[r[1]] = IF 1 = Len(r) THEN NULL ELSE r[1 + 1] BY <5>1 DEF Linked
          <5> QED BY <5>2, <3>1, <3>2, <2>2, <2>4
        <4>3. ASSUME NEW i \in 1 .. Len(u)
              PROVE  f[u[i]] = IF i = Len(u) THEN NULL ELSE u[i + 1]
          <5>1. i + 1 \in 1 .. Len(r) BY <3>2, <2>2, <2>4
          <5>2. f[r[i + 1]] = IF i + 1 = Len(r) THEN NULL ELSE r[(i + 1) + 1]
            BY <5>1 DEF Linked
          <5> QED BY <5>2, <3>2, <2>2, <2>4
        <4> QED BY <3>2, <4>1, <4>2, <4>3 DEF Linked
      <3>4. g[n][f[q]] = u
        <4>1. Len(u) <= n BY <2>1, <3>2, <2>2
        <4> HIDE DEF u
        <4> QED BY <2>1, <3>3, <4>1
      <3>5. g[n + 1][q] = <<q>> \o g[n][f[q]]
        <4>1. n + 1 # 0 /\ (n + 1) - 1 = n BY <2>1
        <4>2. g[n + 1][q] = <<q>> \o g[(n + 1) - 1][f[q]] BY <2>1, <4>1, <3>1, <1>1
        <4> QED BY <4>1, <4>2
      <3>6. <<q>> \o u = r BY <3>1, <3>2, <2>2, <2>4
      <3> QED BY <3>4, <3>5, <3>6
    <2> QED BY <2>3, <2>4
  <1>4. S = Nat
    <2> HIDE DEF S
    <2>1. S \in SUBSET Nat BY DEF S
    <2> QED BY <1>2, <1>3, <2>1, Induct
  <1>5. Len(s) \in Nat /\ Len(s) <= NB BY LinkedLen
  <1>6. NB + 1 \in S BY <1>0, <1>4
  <1> QED BY <1>0, <1>1, <1>5, <1>6

-----------------------------------------------------------------------------
(***************************************************************************)
(* Doubly linked lists.                                                    *)
(***************************************************************************)
Dll(next, last, head, s) ==
    /\ Linked(next, head, s)
    /\ \A i \in 1 .. Len(s) : last[s[i]] = IF i = 1 THEN NULL ELSE s[i - 1]

\* The last bucket of a list.
End(s) == IF Len(s) = 0 THEN NULL ELSE s[Len(s)]

\* The list without its element at place i.
Cut(s, i) == [j \in 1 .. Len(s) - 1 |-> IF j < i THEN s[j] ELSE s[j + 1]]

\* What a doubly linked list says of its ends and of its neighbours.
LEMMA DllType ==
  ASSUME NEW n, NEW l, NEW h, NEW s, Dll(n, l, h, s)
  PROVE  /\ s \in Seq(Bucket) /\ Len(s) \in Nat /\ DOMAIN s = 1 .. Len(s)
         /\ \A i \in 1 .. Len(s) : s[i] \in Bucket /\ s[i] # NULL
         /\ ToSet(s) = {s[i] : i \in 1 .. Len(s)} /\ ToSet(s) \subseteq Bucket
         /\ h \in ToSet(s) \cup {NULL} /\ End(s) \in ToSet(s) \cup {NULL}
         /\ (h = NULL <=> Len(s) = 0) /\ (End(s) = NULL <=> Len(s) = 0)
         /\ \A p \in ToSet(s) : /\ n[p] \in ToSet(s) \cup {NULL}
                                /\ l[p] \in ToSet(s) \cup {NULL}
                                /\ (n[p] = NULL <=> p = End(s)) /\ (l[p] = NULL <=> p = h)
  <1>1. s \in Seq(Bucket) /\ Len(s) \in Nat /\ DOMAIN s = 1 .. Len(s)
    BY DEF Dll, Linked
  <1>2. \A i \in 1 .. Len(s) : s[i] \in Bucket /\ s[i] # NULL
    BY <1>1, HashAssumption
  <1>3. ToSet(s) = {s[i] : i \in 1 .. Len(s)} /\ ToSet(s) \subseteq Bucket
    BY <1>1, <1>2 DEF ToSet
  <1>4. h \in ToSet(s) \cup {NULL} /\ End(s) \in ToSet(s) \cup {NULL}
         /\ (h = NULL <=> Len(s) = 0) /\ (End(s) = NULL <=> Len(s) = 0)
    <2>1. Len(s) # 0 => 1 \in 1 .. Len(s) /\ Len(s) \in 1 .. Len(s) BY <1>1
    <2>2. h = IF Len(s) = 0 THEN NULL ELSE s[1] BY DEF Dll, Linked
    <2> QED BY <1>2, <1>3, <2>1, <2>2 DEF End
  <1>5. ASSUME NEW p \in ToSet(s)
        PROVE  /\ n[p] \in ToSet(s) \cup {NULL}
               /\ l[p] \in ToSet(s) \cup {NULL}
               /\ (n[p] = NULL <=> p = End(s)) /\ (l[p] = NULL <=> p = h)
    <2>1. PICK i \in 1 .. Len(s) : p = s[i] BY <1>3
    <2>2. n[p] = IF i = Len(s) THEN NULL ELSE s[i + 1] BY <2>1 DEF Dll, Linked
    <2>3. l[p] = IF i = 1 THEN NULL ELSE s[i - 1] BY <2>1 DEF Dll
    <2>4. Len(s) # 0 /\ 1 \in 1 .. Len(s) /\ Len(s) \in 1 .. Len(s) BY <1>1
    <2>0. Len(s) \in Nat BY <1>1
    <2>5. i # Len(s) => i + 1 \in 1 .. Len(s) BY <2>0
    <2>6. i # 1 => i - 1 \in 1 .. Len(s) BY <1>1
    <2>7. h = s[1] /\ End(s) = s[Len(s)] BY <2>4 DEF Dll, Linked, End
    <2>8. \A j, k \in 1 .. Len(s) : s[j] = s[k] => j = k BY DEF Dll, Linked
    <2>9. (p = End(s) <=> i = Len(s)) /\ (p = h <=> i = 1) BY <2>1, <2>4, <2>7, <2>8
    <2>10. n[p] \in ToSet(s) \cup {NULL} /\ (n[p] = NULL <=> i = Len(s))
      BY <2>2, <2>5, <1>2, <1>3
    <2>11. l[p] \in ToSet(s) \cup {NULL} /\ (l[p] = NULL <=> i = 1)
      BY <2>3, <2>6, <1>2, <1>3
    <2> QED BY <2>9, <2>10, <2>11
  <1> QED BY <1>1, <1>2, <1>3, <1>4, <1>5

\* Pointers of other buckets do not matter.
LEMMA DllFrame ==
  ASSUME NEW n, NEW l, NEW h, NEW s, Dll(n, l, h, s), NEW n2, NEW l2,
         \A p \in ToSet(s) : n2[p] = n[p] /\ l2[p] = l[p]
  PROVE  Dll(n2, l2, h, s)
  <1>1. \A i \in 1 .. Len(s) : s[i] \in ToSet(s) BY DllType
  <1> QED BY <1>1 DEF Dll, Linked

\* No head, no list.
LEMMA DllEmpty ==
  ASSUME NEW n, NEW l
  PROVE  Dll(n, l, NULL, <<>>) /\ ToSet(<<>>) = {} /\ End(<<>>) = NULL
  BY DEF Dll, Linked, ToSet, End

\* A bucket before the first.
LEMMA DllFront ==
  ASSUME NEW n, NEW l, NEW h, NEW s, Dll(n, l, h, s), NEW n2, NEW l2,
         NEW p \in Bucket \ ToSet(s),
         n2[p] = h, l2[p] = NULL,
         \A q \in ToSet(s) : n2[q] = n[q] /\ l2[q] = IF q = h THEN p ELSE l[q]
  PROVE  Dll(n2, l2, p, <<p>> \o s) /\ ToSet(<<p>> \o s) = ToSet(s) \cup {p}
  <1> DEFINE u == <<p>> \o s
  <1>0. /\ s \in Seq(Bucket) /\ Len(s) \in Nat
        /\ \A i \in 1 .. Len(s) : s[i] \in Bucket /\ s[i] # NULL /\ s[i] \in ToSet(s)
        /\ ToSet(s) = {s[i] : i \in 1 .. Len(s)}
    BY DllType
  <1>1. u \in Seq(Bucket) /\ Len(u) = Len(s) + 1 /\ u[1] = p
        /\ \A i \in 1 .. Len(s) : u[i + 1] = s[i]
    BY <1>0
  <1>2. \A i \in 2 .. Len(u) : u[i] = s[i - 1] /\ i - 1 \in 1 .. Len(s)
    BY <1>0, <1>1
  <1>3. DOMAIN u = 1 .. Len(u) BY <1>1
  <1> HIDE DEF u
  <1>4. ToSet(u) = ToSet(s) \cup {p}
    <2>1. ASSUME NEW i \in 1 .. Len(u) PROVE u[i] \in ToSet(s) \cup {p}
      <3>1. CASE i = 1 BY <3>1, <1>1
      <3>2. CASE i # 1
        <4>1. i \in 2 .. Len(u) BY <3>2, <1>0, <1>1
        <4> QED BY <4>1, <1>0, <1>2
      <3> QED BY <3>1, <3>2
    <2>2. \A i \in 1 .. Len(s) : i + 1 \in 1 .. Len(u) BY <1>0, <1>1
    <2>3. ToSet(u) = {u[i] : i \in 1 .. Len(u)} BY <1>3 DEF ToSet
    <2>4. 1 \in 1 .. Len(u) BY <1>0, <1>1
    <2>5. ToSet(u) \subseteq ToSet(s) \cup {p} BY <2>1, <2>3
    <2>6. ASSUME NEW q \in ToSet(s) PROVE q \in ToSet(u)
      <3>1. PICK i \in 1 .. Len(s) : q = s[i] BY <1>0
      <3>2. u[i + 1] = q /\ i + 1 \in 1 .. Len(u) BY <3>1, <2>2, <1>1
      <3> QED BY <3>2, <2>3
    <2>7. p \in ToSet(u) BY <2>3, <2>4, <1>1
    <2> QED BY <2>5, <2>6, <2>7
  <1>5. ASSUME NEW i \in 1 .. Len(u), NEW j \in 1 .. Len(u), u[i] = u[j] PROVE i = j
    <2>1. \A a, b \in 1 .. Len(s) : s[a] = s[b] => a = b BY DEF Dll, Linked
    <2>2. CASE i = 1 /\ j = 1 BY <2>2
    <2>3. CASE i = 1 /\ j # 1
      <3>0. j \in 2 .. Len(u) BY <2>3, <1>0, <1>1
      <3>1. u[j] \in ToSet(s) BY <3>0, <1>0, <1>2
      <3> QED BY <3>1, <2>3, <1>5, <1>1
    <2>4. CASE i # 1 /\ j = 1
      <3>0. i \in 2 .. Len(u) BY <2>4, <1>0, <1>1
      <3>1. u[i] \in ToSet(s) BY <3>0, <1>0, <1>2
      <3> QED BY <3>1, <2>4, <1>5, <1>1
    <2>5. CASE i # 1 /\ j # 1
      <3>1. i \in 2 .. Len(u) /\ j \in 2 .. Len(u) BY <2>5, <1>0, <1>1
      <3>2. i - 1 = j - 1 BY <3>1, <1>2, <1>5, <2>1
      <3> QED BY <3>1, <3>2
    <2> QED BY <2>2, <2>3, <2>4, <2>5
  <1>6. ASSUME NEW i \in 1 .. Len(u)
        PROVE  n2[u[i]] = IF i = Len(u) THEN NULL ELSE u[i + 1]
    <2>1. CASE i = 1
      <3>1. h = IF Len(s) = 0 THEN NULL ELSE s[1] BY DEF Dll, Linked
      <3>2. Len(s) # 0 => u[1 + 1] = s[1] BY <1>0, <1>1
      <3> QED BY <2>1, <3>1, <3>2, <1>0, <1>1
    <2>2. CASE i # 1
      <3>1. u[i] = s[i - 1] /\ i - 1 \in 1 .. Len(s) BY <2>2, <1>0, <1>1, <1>2
      <3>2. n2[s[i - 1]] = IF i - 1 = Len(s) THEN NULL ELSE s[(i - 1) + 1]
        BY <3>1, <1>0 DEF Dll, Linked
      <3>3. i - 1 # Len(s) => u[i + 1] = s[i]
        <4>1. i - 1 # Len(s) => i \in 1 .. Len(s) BY <3>1, <1>0
        <4> QED BY <4>1, <1>1
      <3>4. (i - 1) + 1 = i /\ (i = Len(u) <=> i - 1 = Len(s)) BY <1>0, <1>1
      <3> QED BY <3>1, <3>2, <3>3, <3>4
    <2> QED BY <2>1, <2>2
  <1>7. ASSUME NEW i \in 1 .. Len(u)
        PROVE  l2[u[i]] = IF i = 1 THEN NULL ELSE u[i - 1]
    <2>1. CASE i = 1 BY <2>1, <1>1
    <2>2. CASE i # 1
      <3>1. u[i] = s[i - 1] /\ i - 1 \in 1 .. Len(s) BY <2>2, <1>0, <1>1, <1>2
      <3>2. l2[u[i]] = IF u[i] = h THEN p ELSE l[u[i]] BY <3>1, <1>0
      <3>3. h = s[1] /\ 1 \in 1 .. Len(s) BY <3>1, <1>0 DEF Dll, Linked
      <3>4. u[i] = h <=> i - 1 = 1 BY <3>1, <3>3 DEF Dll, Linked
      <3>5. l[s[i - 1]] = IF i - 1 = 1 THEN NULL ELSE s[(i - 1) - 1] BY <3>1 DEF Dll
      <3>6. i - 1 # 1 => i - 1 \in 2 .. Len(u) BY <3>1, <1>0, <1>1
      <3>7. i - 1 # 1 => u[i - 1] = s[(i - 1) - 1] BY <3>6, <1>2
      <3> QED BY <2>2, <3>1, <3>2, <3>4, <3>5, <3>7, <1>1
    <2> QED BY <2>1, <2>2
  <1>8. Linked(n2, p, u)
    <2>1. Len(u) # 0 BY <1>0, <1>1
    <2> QED BY <2>1, <1>1, <1>5, <1>6 DEF Linked
  <1>9. Dll(n2, l2, p, u) BY <1>7, <1>8 DEF Dll
  <1> QED BY <1>4, <1>9 DEF u

\* A bucket after the last.
LEMMA DllBack ==
  ASSUME NEW n, NEW l, NEW h, NEW s, Dll(n, l, h, s), NEW n2, NEW l2,
         NEW p \in Bucket \ ToSet(s),
         n2[p] = NULL, l2[p] = End(s),
         \A q \in ToSet(s) : l2[q] = l[q] /\ n2[q] = IF q = End(s) THEN p ELSE n[q]
  PROVE  /\ Dll(n2, l2, IF h = NULL THEN p ELSE h, Append(s, p))
         /\ ToSet(Append(s, p)) = ToSet(s) \cup {p} /\ End(Append(s, p)) = p
  <1> DEFINE u == Append(s, p)
  <1>0. /\ s \in Seq(Bucket) /\ Len(s) \in Nat
        /\ \A i \in 1 .. Len(s) : s[i] \in Bucket /\ s[i] # NULL /\ s[i] \in ToSet(s)
        /\ ToSet(s) = {s[i] : i \in 1 .. Len(s)}
        /\ (h = NULL <=> Len(s) = 0)
    BY DllType
  <1>1. u \in Seq(Bucket) /\ Len(u) = Len(s) + 1 /\ u[Len(u)] = p
        /\ \A i \in 1 .. Len(s) : u[i] = s[i]
    BY <1>0
  <1>2. Len(s) \in Nat /\ Len(u) = Len(s) + 1 BY <1>0, <1>1
  <1>3. DOMAIN u = 1 .. Len(u) BY <1>1
  <1> HIDE DEF u
  <1>4. ToSet(u) = ToSet(s) \cup {p}
    <2>1. ASSUME NEW i \in 1 .. Len(u) PROVE u[i] \in ToSet(s) \cup {p}
      <3>1. CASE i = Len(u) BY <3>1, <1>1
      <3>2. CASE i # Len(u)
        <4>1. i \in 1 .. Len(s) BY <3>2, <1>2
        <4> QED BY <4>1, <1>0, <1>1
      <3> QED BY <3>1, <3>2
    <2>2. \A i \in 1 .. Len(s) : i \in 1 .. Len(u) BY <1>2
    <2>3. ToSet(u) = {u[i] : i \in 1 .. Len(u)} BY <1>3 DEF ToSet
    <2>4. Len(u) \in 1 .. Len(u) BY <1>2
    <2>5. ToSet(u) \subseteq ToSet(s) \cup {p} BY <2>1, <2>3
    <2>6. ASSUME NEW q \in ToSet(s) PROVE q \in ToSet(u)
      <3>1. PICK i \in 1 .. Len(s) : q = s[i] BY <1>0
      <3>2. u[i] = q /\ i \in 1 .. Len(u) BY <3>1, <2>2, <1>1
      <3> QED BY <3>2, <2>3
    <2>7. p \in ToSet(u) BY <2>3, <2>4, <1>1
    <2> QED BY <2>5, <2>6, <2>7
  <1>5. ASSUME NEW i \in 1 .. Len(u), NEW j \in 1 .. Len(u), u[i] = u[j] PROVE i = j
    <2>1. \A a, b \in 1 .. Len(s) : s[a] = s[b] => a = b BY DEF Dll, Linked
    <2>0. \A a \in 1 .. Len(u) : a # Len(u) => a \in 1 .. Len(s) BY <1>2
    <2>2. \A a \in 1 .. Len(u) : a # Len(u) => u[a] # p BY <2>0, <1>0, <1>1
    <2>3. CASE i # Len(u) /\ j # Len(u) BY <2>3, <2>0, <2>1, <1>1, <1>5
    <2> QED BY <2>2, <2>3, <1>1, <1>5
  <1>6. ASSUME NEW i \in 1 .. Len(u)
        PROVE  n2[u[i]] = IF i = Len(u) THEN NULL ELSE u[i + 1]
    <2>1. CASE i = Len(u) BY <2>1, <1>1
    <2>2. CASE i # Len(u)
      <3>1. i \in 1 .. Len(s) /\ (i # Len(s) => i + 1 \in 1 .. Len(s)) /\ Len(s) # 0
            /\ Len(s) \in 1 .. Len(s) /\ (i = Len(s) => i + 1 = Len(u))
        BY <2>2, <1>2
      <3>2. u[i] = s[i] /\ u[i] \in ToSet(s) BY <3>1, <1>0, <1>1
      <3>3. n[s[i]] = IF i = Len(s) THEN NULL ELSE s[i + 1]
        BY <3>1 DEF Dll, Linked
      <3>4. s[i] = End(s) <=> i = Len(s) BY <3>1 DEF Dll, Linked, End
      <3>5. n2[s[i]] = IF i = Len(s) THEN p ELSE s[i + 1] BY <3>2, <3>3, <3>4
      <3>6. i # Len(s) => u[i + 1] = s[i + 1] BY <3>1, <1>1
      <3> QED BY <2>2, <3>1, <3>2, <3>5, <3>6, <1>1
    <2> QED BY <2>1, <2>2
  <1>7. ASSUME NEW i \in 1 .. Len(u)
        PROVE  l2[u[i]] = IF i = 1 THEN NULL ELSE u[i - 1]
    <2>1. CASE i = Len(u)
      <3>1. l2[u[i]] = End(s) BY <2>1, <1>1
      <3>2. CASE Len(s) = 0 BY <3>1, <3>2, <2>1, <1>2 DEF End
      <3>3. CASE Len(s) # 0
        <4>1. i - 1 = Len(s) /\ i # 1 /\ Len(s) \in 1 .. Len(s) BY <2>1, <3>3, <1>2
        <4> QED BY <3>1, <3>3, <4>1, <1>1 DEF End
      <3> QED BY <3>2, <3>3
    <2>2. CASE i # Len(u)
      <3>1. i \in 1 .. Len(s) /\ (i # 1 => i - 1 \in 1 .. Len(s)) BY <2>2, <1>2
      <3>2. u[i] = s[i] /\ u[i] \in ToSet(s) BY <3>1, <1>0, <1>1
      <3>3. l[s[i]] = IF i = 1 THEN NULL ELSE s[i - 1] BY <3>1 DEF Dll
      <3> QED BY <3>1, <3>2, <3>3, <1>1
    <2> QED BY <2>1, <2>2
  <1>8. Linked(n2, IF h = NULL THEN p ELSE h, u)
    <2>1. Len(u) # 0 BY <1>2
    <2>2. (IF h = NULL THEN p ELSE h) = u[1]
      <3>1. CASE Len(s) = 0 BY <3>1, <1>0, <1>1, <1>2
      <3>2. CASE Len(s) # 0
        <4>1. 1 \in 1 .. Len(s) BY <3>2, <1>2
        <4> QED BY <3>2, <4>1, <1>0, <1>1 DEF Dll, Linked
      <3> QED BY <3>1, <3>2
    <2> QED BY <2>1, <2>2, <1>1, <1>5, <1>6 DEF Linked
  <1>9. Dll(n2, l2, IF h = NULL THEN p ELSE h, u) BY <1>7, <1>8 DEF Dll
  <1>10. End(u) = p BY <1>1, <1>2 DEF End
  <1> QED BY <1>4, <1>9, <1>10 DEF u

\* Without the bucket p the pointers are these.
CutOut(n, l, h, s, p, n2, l2, h2) ==
    /\ h2 = IF h = p THEN n[p] ELSE h
    /\ \A q \in ToSet(s) \ {p} : /\ n2[q] = IF q = l[p] THEN n[p] ELSE n[q]
                                /\ l2[q] = IF q = n[p] THEN l[p] ELSE l[q]

\* A bucket is taken out.
LEMMA DllCut ==
  ASSUME NEW n, NEW l, NEW h, NEW s, Dll(n, l, h, s), NEW n2, NEW l2, NEW h2,
         NEW i \in 1 .. Len(s), NEW p, p = s[i], CutOut(n, l, h, s, p, n2, l2, h2)
  PROVE  /\ Dll(n2, l2, h2, Cut(s, i))
         /\ ToSet(Cut(s, i)) = ToSet(s) \ {p}
         /\ End(Cut(s, i)) = IF End(s) = p THEN l[p] ELSE End(s)
  <1> DEFINE u == Cut(s, i)
  <1>0. /\ s \in Seq(Bucket) /\ Len(s) \in Nat
        /\ \A j \in 1 .. Len(s) : s[j] \in Bucket /\ s[j] # NULL /\ s[j] \in ToSet(s)
        /\ ToSet(s) = {s[j] : j \in 1 .. Len(s)}
    BY DllType
  <1>1. Len(s) \in Nat /\ Len(s) - 1 \in Nat BY <1>0
  <1>2. u \in Seq(Bucket) /\ Len(u) = Len(s) - 1 /\ DOMAIN u = 1 .. Len(s) - 1
    <2>1. \A j \in 1 .. Len(s) - 1 : (IF j < i THEN s[j] ELSE s[j + 1]) \in Bucket
      <3>1. \A j \in 1 .. Len(s) - 1 : j \in 1 .. Len(s) /\ j + 1 \in 1 .. Len(s) BY <1>1
      <3> QED BY <3>1, <1>0
    <2> QED BY <2>1, <1>1 DEF Cut
  <1>3. \A j \in 1 .. Len(s) - 1 : u[j] = IF j < i THEN s[j] ELSE s[j + 1]
    BY DEF Cut
  <1> HIDE DEF u
  <1> DEFINE N == Len(s)
             at(j) == IF j < i THEN j ELSE j + 1
  <1>4. Len(u) = N - 1 /\ N \in Nat /\ N - 1 \in Nat /\ i \in 1 .. N BY <1>1, <1>2
  <1>5. \A j \in 1 .. N - 1 : u[j] = s[at(j)] /\ at(j) \in 1 .. N /\ at(j) # i
    BY <1>3, <1>4
  <1>6. \A a, b \in 1 .. N : s[a] = s[b] => a = b BY DEF Dll, Linked
  <1>7. \A j \in 1 .. N : n[s[j]] = IF j = N THEN NULL ELSE s[j + 1] BY DEF Dll, Linked
  <1>8. \A j \in 1 .. N : l[s[j]] = IF j = 1 THEN NULL ELSE s[j - 1] BY DEF Dll
  <1>9. h = s[1] /\ End(s) = s[N] BY <1>4 DEF Dll, Linked, End
  <1>10. ToSet(u) = ToSet(s) \ {p}
    <2>1. ToSet(u) = {u[j] : j \in 1 .. N - 1} BY <1>2 DEF ToSet
    <2>2. ASSUME NEW j \in 1 .. N - 1 PROVE u[j] \in ToSet(s) \ {p}
      BY <1>0, <1>5, <1>6
    <2>3. ASSUME NEW j \in 1 .. N, j # i PROVE s[j] \in ToSet(u)
      <3>1. CASE j < i
        <4>1. j \in 1 .. N - 1 /\ at(j) = j BY <3>1, <1>4
        <4> QED BY <4>1, <1>5, <2>1
      <3>2. CASE j > i
        <4>1. j - 1 \in 1 .. N - 1 /\ at(j - 1) = j BY <3>2, <1>4
        <4> QED BY <4>1, <1>5, <2>1
      <3> QED BY <3>1, <3>2, <2>3, <1>4
    <2>4. ToSet(u) \subseteq ToSet(s) \ {p} BY <2>1, <2>2
    <2>5. ASSUME NEW q \in ToSet(s) \ {p} PROVE q \in ToSet(u)
      <3>1. PICK j \in 1 .. N : q = s[j] BY <1>0
      <3> QED BY <3>1, <2>3
    <2> QED BY <2>4, <2>5
  <1>11. ASSUME NEW a \in 1 .. Len(u), NEW b \in 1 .. Len(u), u[a] = u[b] PROVE a = b
    <2>1. a \in 1 .. N - 1 /\ b \in 1 .. N - 1 BY <1>4
    <2>2. at(a) = at(b) BY <2>1, <1>5, <1>6, <1>11
    <2> QED BY <2>1, <2>2, <1>4
  <1>12. ASSUME NEW j \in 1 .. Len(u)
         PROVE  n2[u[j]] = IF j = Len(u) THEN NULL ELSE u[j + 1]
    <2>1. j \in 1 .. N - 1 /\ u[j] = s[at(j)] /\ at(j) \in 1 .. N /\ u[j] \in ToSet(s) \ {p}
      BY <1>0, <1>4, <1>5, <1>6
    <2>2. n2[u[j]] = IF u[j] = l[p] THEN n[p] ELSE n[u[j]] BY <2>1 DEF CutOut
    <2>3. l[p] = IF i = 1 THEN NULL ELSE s[i - 1] BY <1>8
    <2>4. n[p] = IF i = N THEN NULL ELSE s[i + 1] BY <1>7
    <2>5. CASE j = i - 1
      <3>1. at(j) = i - 1 /\ i # 1 /\ i - 1 \in 1 .. N BY <2>1, <2>5, <1>4
      <3>2. n2[u[j]] = n[p] BY <2>1, <2>2, <2>3, <3>1
      <3>3. i # N => j + 1 \in 1 .. N - 1 /\ at(j + 1) = i + 1 BY <2>5, <2>1, <1>4
      <3>4. i # N => u[j + 1] = s[i + 1] BY <3>3, <1>5
      <3>5. i = N <=> j = Len(u) BY <2>5, <1>4
      <3> QED BY <3>2, <3>4, <3>5, <2>4
    <2>6. CASE j # i - 1
      <3>0. at(j) # i - 1 /\ (i # 1 => i - 1 \in 1 .. N) BY <2>1, <2>6, <1>4
      <3>1. u[j] # l[p] BY <3>0, <2>1, <2>3, <1>0, <1>6
      <3>2. n2[u[j]] = IF at(j) = N THEN NULL ELSE s[at(j) + 1] BY <2>1, <2>2, <3>1, <1>7
      <3>3. at(j) = N <=> j = Len(u) BY <2>1, <2>6, <1>4
      <3>4. at(j) # N => j + 1 \in 1 .. N - 1 /\ at(j + 1) = at(j) + 1 BY <2>1, <2>6, <1>4
      <3>5. at(j) # N => u[j + 1] = s[at(j) + 1] BY <3>4, <1>5
      <3> QED BY <3>2, <3>3, <3>5
    <2> QED BY <2>5, <2>6
  <1>13. ASSUME NEW j \in 1 .. Len(u)
         PROVE  l2[u[j]] = IF j = 1 THEN NULL ELSE u[j - 1]
    <2>1. j \in 1 .. N - 1 /\ u[j] = s[at(j)] /\ at(j) \in 1 .. N /\ u[j] \in ToSet(s) \ {p}
      BY <1>0, <1>4, <1>5, <1>6
    <2>2. l2[u[j]] = IF u[j] = n[p] THEN l[p] ELSE l[u[j]] BY <2>1 DEF CutOut
    <2>3. l[p] = IF i = 1 THEN NULL ELSE s[i - 1] BY <1>8
    <2>4. n[p] = IF i = N THEN NULL ELSE s[i + 1] BY <1>7
    <2>5. CASE j = i
      <3>1. at(j) = i + 1 /\ i # N /\ i + 1 \in 1 .. N BY <2>1, <2>5, <1>4
      <3>2. l2[u[j]] = l[p] BY <2>1, <2>2, <2>4, <3>1
      <3>3. i # 1 => j - 1 \in 1 .. N - 1 /\ at(j - 1) = i - 1 BY <2>5, <2>1, <1>4
      <3>4. i # 1 => u[j - 1] = s[i - 1] BY <3>3, <1>5
      <3> QED BY <2>5, <3>2, <3>4, <2>3
    <2>6. CASE j # i
      <3>0. at(j) # i + 1 /\ (i # N => i + 1 \in 1 .. N) BY <2>1, <2>6, <1>4
      <3>1. u[j] # n[p] BY <3>0, <2>1, <2>4, <1>0, <1>6
      <3>2. l2[u[j]] = IF at(j) = 1 THEN NULL ELSE s[at(j) - 1] BY <2>1, <2>2, <3>1, <1>8
      <3>3. at(j) = 1 <=> j = 1 BY <2>1, <2>6, <1>4
      <3>4. at(j) # 1 => j - 1 \in 1 .. N - 1 /\ at(j - 1) = at(j) - 1 BY <2>1, <2>6, <1>4
      <3>5. at(j) # 1 => u[j - 1] = s[at(j) - 1] BY <3>4, <1>5
      <3> QED BY <3>2, <3>3, <3>5
    <2> QED BY <2>5, <2>6
  <1>14. h2 = IF Len(u) = 0 THEN NULL ELSE u[1]
    <2>1. h = p <=> i = 1 BY <1>4, <1>6, <1>9
    <2>2. CASE i = 1
      <3>1. h2 = IF 1 = N THEN NULL ELSE s[1 + 1] BY <2>1, <2>2, <1>7 DEF CutOut
      <3>2. N # 1 => 1 \in 1 .. N - 1 /\ at(1) = 2 BY <2>2, <1>4
      <3> QED BY <3>1, <3>2, <1>4, <1>5
    <2>3. CASE i # 1
      <3>1. 1 \in 1 .. N - 1 /\ at(1) = 1 /\ Len(u) # 0 BY <2>3, <1>4
      <3> QED BY <2>1, <2>3, <3>1, <1>5, <1>9 DEF CutOut
    <2> QED BY <2>2, <2>3
  <1>15. End(u) = IF End(s) = p THEN l[p] ELSE End(s)
    <2>1. End(s) = p <=> i = N BY <1>4, <1>6, <1>9
    <2>2. End(u) = IF N = 1 THEN NULL ELSE u[N - 1] BY <1>4 DEF End
    <2>3. CASE i = N
      <3>1. l[p] = IF N = 1 THEN NULL ELSE s[N - 1] BY <2>3, <1>8
      <3>2. N # 1 => N - 1 \in 1 .. N - 1 /\ at(N - 1) = N - 1 BY <2>3, <1>4
      <3> QED BY <2>1, <2>2, <2>3, <3>1, <3>2, <1>5
    <2>4. CASE i # N
      <3>1. N # 1 /\ N - 1 \in 1 .. N - 1 /\ at(N - 1) = N BY <2>4, <1>4
      <3> QED BY <2>1, <2>2, <2>4, <3>1, <1>5, <1>9
    <2> QED BY <2>3, <2>4
  <1>16. Dll(n2, l2, h2, u)
    <2>1. Linked(n2, h2, u) BY <1>2, <1>11, <1>12, <1>14 DEF Linked
    <2> QED BY <2>1, <1>13 DEF Dll
  <1> QED BY <1>10, <1>15, <1>16 DEF u

\* The assignments that put the bucket b in the place of p.
SwapIn(n, l, h, s, p, b, n2, l2, h2) ==
    /\ h2 = IF h = p THEN b ELSE h
    /\ n2[b] = n[p] /\ l2[b] = l[p]
    /\ \A q \in ToSet(s) \ {p} : /\ n2[q] = IF q = l[p] THEN b ELSE n[q]
                                /\ l2[q] = IF q = n[p] THEN b ELSE l[q]

\* The list r is s with b in the place of p.
Swapped(n2, l2, h2, s, p, b, r) ==
    /\ Dll(n2, l2, h2, r) /\ ToSet(r) = (ToSet(s) \ {p}) \cup {b}
    /\ End(r) = IF End(s) = p THEN b ELSE End(s)

\* A bucket takes the place of another.
LEMMA DllSwap ==
  ASSUME NEW n, NEW l, NEW h, NEW s, Dll(n, l, h, s), NEW n2, NEW l2, NEW h2,
         NEW i \in 1 .. Len(s), NEW p, p = s[i], NEW b \in Bucket \ ToSet(s),
         SwapIn(n, l, h, s, p, b, n2, l2, h2)
  PROVE  Swapped(n2, l2, h2, s, p, b, [s EXCEPT ![i] = b])
  <1> USE DEF SwapIn
  <1> DEFINE u == [s EXCEPT ![i] = b]
             N == Len(s)
  <1>0. /\ s \in Seq(Bucket) /\ N \in Nat
        /\ \A j \in 1 .. N : s[j] \in Bucket /\ s[j] # NULL /\ s[j] \in ToSet(s)
        /\ ToSet(s) = {s[j] : j \in 1 .. N}
    BY DllType
  <1>2. u \in Seq(Bucket) /\ Len(u) = N /\ DOMAIN u = 1 .. N
        /\ \A j \in 1 .. N : u[j] = IF j = i THEN b ELSE s[j]
    BY <1>0
  <1> HIDE DEF u
  <1>4. Len(u) = N /\ N \in Nat /\ i \in 1 .. N BY <1>0, <1>2
  <1>5. \A j \in 1 .. N : u[j] = IF j = i THEN b ELSE s[j] BY <1>2
  <1>6. \A x, y \in 1 .. N : s[x] = s[y] => x = y BY DEF Dll, Linked
  <1>7. \A j \in 1 .. N : n[s[j]] = IF j = N THEN NULL ELSE s[j + 1] BY DEF Dll, Linked
  <1>8. \A j \in 1 .. N : l[s[j]] = IF j = 1 THEN NULL ELSE s[j - 1] BY DEF Dll
  <1>9. h = s[1] /\ End(s) = s[N] BY <1>4 DEF Dll, Linked, End
  <1>10. ToSet(u) = (ToSet(s) \ {p}) \cup {b}
    <2>1. ToSet(u) = {u[j] : j \in 1 .. N} BY <1>2 DEF ToSet
    <2>2. ASSUME NEW j \in 1 .. N PROVE u[j] \in (ToSet(s) \ {p}) \cup {b}
      BY <1>0, <1>5, <1>6
    <2>3. ToSet(u) \subseteq (ToSet(s) \ {p}) \cup {b} BY <2>1, <2>2
    <2>4. ASSUME NEW q \in ToSet(s) \ {p} PROVE q \in ToSet(u)
      <3>1. PICK j \in 1 .. N : q = s[j] BY <1>0
      <3>2. j # i /\ u[j] = q BY <3>1, <1>5
      <3> QED BY <3>1, <3>2, <2>1
    <2>5. b \in ToSet(u) BY <1>4, <1>5, <2>1
    <2> QED BY <2>3, <2>4, <2>5
  <1>11. ASSUME NEW x \in 1 .. Len(u), NEW y \in 1 .. Len(u), u[x] = u[y] PROVE x = y
    <2>1. x \in 1 .. N /\ y \in 1 .. N BY <1>4
    <2>2. \A j \in 1 .. N : s[j] # b BY <1>0
    <2> QED BY <2>1, <2>2, <1>5, <1>6, <1>11
  <1>12. ASSUME NEW j \in 1 .. Len(u)
         PROVE  n2[u[j]] = IF j = Len(u) THEN NULL ELSE u[j + 1]
    <2>1. j \in 1 .. N /\ (j # N => j + 1 \in 1 .. N) BY <1>4
    <2>2. CASE j = i
      <3>1. u[j] = b /\ n2[b] = IF i = N THEN NULL ELSE s[i + 1] BY <2>1, <2>2, <1>5, <1>7
      <3>2. i # N => u[i + 1] = s[i + 1] BY <2>1, <2>2, <1>4, <1>5
      <3> QED BY <2>2, <3>1, <3>2, <1>4
    <2>3. CASE j # i
      <3>1. u[j] = s[j] /\ s[j] \in ToSet(s) \ {p} BY <2>1, <2>3, <1>0, <1>5, <1>6
      <3>2. n2[s[j]] = IF s[j] = l[p] THEN b ELSE n[s[j]] BY <3>1
      <3>3. l[p] = IF i = 1 THEN NULL ELSE s[i - 1] BY <1>8
      <3>4. i # 1 => i - 1 \in 1 .. N BY <1>4
      <3>5. s[j] = l[p] <=> j = i - 1 /\ i # 1 BY <3>3, <3>4, <2>1, <1>0, <1>6
      <3>6. CASE j = i - 1
        <4>1. i # 1 /\ j + 1 = i /\ j # N BY <3>6, <2>1, <1>4
        <4>2. u[j + 1] = b BY <4>1, <1>5
        <4> QED BY <3>1, <3>2, <3>5, <3>6, <4>1, <4>2, <1>4
      <3>7. CASE j # i - 1
        <4>1. j + 1 # i BY <3>7, <2>1, <1>4
        <4>2. j # N => u[j + 1] = s[j + 1] BY <4>1, <2>1, <1>5
        <4>3. n[s[j]] = IF j = N THEN NULL ELSE s[j + 1] BY <2>1, <1>7
        <4> QED BY <3>1, <3>2, <3>5, <3>7, <4>2, <4>3, <1>4
      <3> QED BY <3>6, <3>7
    <2> QED BY <2>2, <2>3
  <1>13. ASSUME NEW j \in 1 .. Len(u)
         PROVE  l2[u[j]] = IF j = 1 THEN NULL ELSE u[j - 1]
    <2>1. j \in 1 .. N /\ (j # 1 => j - 1 \in 1 .. N) BY <1>4
    <2>2. CASE j = i
      <3>1. u[j] = b /\ l2[b] = IF i = 1 THEN NULL ELSE s[i - 1] BY <2>1, <2>2, <1>5, <1>8
      <3>2. i # 1 => u[i - 1] = s[i - 1] BY <2>1, <2>2, <1>4, <1>5
      <3> QED BY <2>2, <3>1, <3>2, <1>4
    <2>3. CASE j # i
      <3>1. u[j] = s[j] /\ s[j] \in ToSet(s) \ {p} BY <2>1, <2>3, <1>0, <1>5, <1>6
      <3>2. l2[s[j]] = IF s[j] = n[p] THEN b ELSE l[s[j]] BY <3>1
      <3>3. n[p] = IF i = N THEN NULL ELSE s[i + 1] BY <1>7
      <3>4. i # N => i + 1 \in 1 .. N BY <1>4
      <3>5. s[j] = n[p] <=> j = i + 1 /\ i # N BY <3>3, <3>4, <2>1, <1>0, <1>6
      <3>6. CASE j = i + 1
        <4>1. i # N /\ j - 1 = i /\ j # 1 BY <3>6, <2>1, <1>4
        <4>2. u[j - 1] = b BY <4>1, <1>5
        <4> QED BY <3>1, <3>2, <3>5, <3>6, <4>1, <4>2, <1>4
      <3>7. CASE j # i + 1
        <4>1. j - 1 # i BY <3>7, <2>1, <1>4
        <4>2. j # 1 => u[j - 1] = s[j - 1] BY <4>1, <2>1, <1>5
        <4>3. l[s[j]] = IF j = 1 THEN NULL ELSE s[j - 1] BY <2>1, <1>8
        <4> QED BY <3>1, <3>2, <3>5, <3>7, <4>2, <4>3
      <3> QED BY <3>6, <3>7
    <2> QED BY <2>2, <2>3
  <1>14. h2 = IF Len(u) = 0 THEN NULL ELSE u[1]
    <2>1. 1 \in 1 .. N /\ Len(u) # 0 BY <1>4
    <2>2. h = p <=> i = 1 BY <2>1, <1>6, <1>9
    <2> QED BY <2>1, <2>2, <1>5, <1>9
  <1>15. End(u) = IF End(s) = p THEN b ELSE End(s)
    <2>1. N \in 1 .. N /\ Len(u) # 0 BY <1>4
    <2>2. End(s) = p <=> i = N BY <2>1, <1>6, <1>9
    <2> QED BY <2>1, <2>2, <1>4, <1>5, <1>9 DEF End
  <1>16. Dll(n2, l2, h2, u)
    <2>1. Linked(n2, h2, u) BY <1>2, <1>11, <1>12, <1>14 DEF Linked
    <2> QED BY <2>1, <1>13 DEF Dll
  <1>17. Swapped(n2, l2, h2, s, p, b, u) BY <1>10, <1>15, <1>16 DEF Swapped
  <1> QED BY <1>17 DEF u

-----------------------------------------------------------------------------
(***************************************************************************)
(* Tables.                                                                 *)
(***************************************************************************)
MaybeBucket == Bucket \cup {NULL}

\* The values of the fields of a table.
Table ==
    [nTableSize : Nat \ {0}, nNumOfElements : 0 .. SizeLimit - 1, nNextFreeElement : Index,
     pInternalPointer : MaybeBucket, pListHead : MaybeBucket, pListTail : MaybeBucket,
     arBuckets : UNION {[0 .. n - 1 -> MaybeBucket] : n \in Nat \ {0}},
     live : SUBSET Bucket, key : [Bucket -> Key \cup {NULL}],
     pListNext : Ptr, pListLast : Ptr, pNext : Ptr, pLast : Ptr]

\* ... with as many chains as nTableSize says.
IsTable(t) == t \in Table /\ t.arBuckets \in [0 .. t.nTableSize - 1 -> MaybeBucket]

\* Buckets whose element is in the table.
In(t) == {p \in Bucket : t.key[p] # NULL}

\* The chains hold the buckets S, each in the chain of its key.
ChainHas(t, x, S, s) ==
    /\ Dll(t.pNext, t.pLast, t.arBuckets[x], s)
    /\ ToSet(s) = {p \in S : nIndex(t, t.key[p]) = x}

\* All the chains.
Chains(t, S) == \A x \in 0 .. t.nTableSize - 1 : \E s : ChainHas(t, x, S, s)

\* The list of the table is s, in both directions.
ListIs(t, s) == Dll(t.pListNext, t.pListLast, t.pListHead, s) /\ t.pListTail = End(s)

\* All of the table but its chains is the same.
SameButChains(t, u) ==
    /\ u.nTableSize = t.nTableSize /\ u.nNumOfElements = t.nNumOfElements
    /\ u.nNextFreeElement = t.nNextFreeElement /\ u.pInternalPointer = t.pInternalPointer
    /\ u.pListHead = t.pListHead /\ u.pListTail = t.pListTail
    /\ u.live = t.live /\ u.key = t.key
    /\ u.pListNext = t.pListNext /\ u.pListLast = t.pListLast

\* nIndex is a place of arBuckets.
LEMMA IndexType ==
  ASSUME NEW t, IsTable(t), NEW k \in Key
  PROVE  nIndex(t, k) \in 0 .. t.nTableSize - 1
  <1>1. t.nTableSize \in Nat \ {0} BY DEF IsTable, Table
  <1>2. LongMax \in Nat /\ 2 * LongMax + 2 \in Nat \ {0} BY HashAssumption
  <1>3. Ulong(k) \in Nat
    <2>1. CASE k \in StrKey BY <2>1, <1>2, HashAssumption DEF Ulong
    <2>2. CASE k \notin StrKey
      <3>1. k \in Int BY <2>2, <1>2 DEF Key, Index
      <3>2. k % (2 * LongMax + 2) \in 0 .. (2 * LongMax + 2) - 1 BY <3>1, <1>2
      <3> QED BY <2>2, <3>2, <1>2 DEF Ulong
    <2> QED BY <2>1, <2>2
  <1> QED BY <1>1, <1>3 DEF nIndex

\* CONNECT_TO_BUCKET_DLLIST: what it writes.
LEMMA ConnectFields ==
  ASSUME NEW t, IsTable(t), NEW p \in Bucket, t.key[p] \in Key
  PROVE  LET u == CONNECT_TO_BUCKET_DLLIST(t, p)
             x == nIndex(t, t.key[p])
         IN  /\ SameButChains(t, u) /\ IsTable(u)
             /\ u.pNext = [t.pNext EXCEPT ![p] = t.arBuckets[x]]
             /\ u.pLast = Set([t.pLast EXCEPT ![p] = NULL], t.arBuckets[x], p)
             /\ u.arBuckets = [t.arBuckets EXCEPT ![x] = p]
  <1> DEFINE x == nIndex(t, t.key[p])
             a == t.arBuckets[x]
  <1>1. x \in 0 .. t.nTableSize - 1 BY IndexType
  <1>2. a \in MaybeBucket BY <1>1 DEF IsTable
  <1>3. [t.pNext EXCEPT ![p] = a] \in Ptr BY <1>2 DEF IsTable, Table, Ptr, MaybeBucket
  <1>4. Set([t.pLast EXCEPT ![p] = NULL], a, p) \in Ptr
    BY <1>2 DEF IsTable, Table, Ptr, MaybeBucket, Set
  <1>5. t.nTableSize \in Nat \ {0} /\ [t.arBuckets EXCEPT ![x] = p] \in [0 .. t.nTableSize - 1 -> MaybeBucket]
    BY <1>1 DEF IsTable, Table, MaybeBucket
  <1> DEFINE u == CONNECT_TO_BUCKET_DLLIST(t, p)
  <1>6. u = [t EXCEPT !.pNext = [t.pNext EXCEPT ![p] = a],
                      !.pLast = Set([t.pLast EXCEPT ![p] = NULL], a, p),
                      !.arBuckets = [t.arBuckets EXCEPT ![x] = p]]
    BY DEF CONNECT_TO_BUCKET_DLLIST
  <1> HIDE DEF u, a, x
  <1>7. /\ SameButChains(t, u)
        /\ u.pNext = [t.pNext EXCEPT ![p] = a]
        /\ u.pLast = Set([t.pLast EXCEPT ![p] = NULL], a, p)
        /\ u.arBuckets = [t.arBuckets EXCEPT ![x] = p]
    BY <1>6 DEF IsTable, Table, SameButChains
  <1>8. u \in Table
    BY <1>3, <1>4, <1>5, <1>6 DEF IsTable, Table
  <1> QED BY <1>5, <1>7, <1>8 DEF IsTable, SameButChains, u, a, x

\* CONNECT_TO_BUCKET_DLLIST puts the bucket into the chain of its key.
LEMMA ConnectChains ==
  ASSUME NEW t, IsTable(t), NEW S \in SUBSET Bucket, NEW p \in Bucket \ S,
         t.key[p] \in Key, Chains(t, S)
  PROVE  Chains(CONNECT_TO_BUCKET_DLLIST(t, p), S \cup {p})
  <1> DEFINE u == CONNECT_TO_BUCKET_DLLIST(t, p)
             y == nIndex(t, t.key[p])
             a == t.arBuckets[y]
  <1>1. /\ SameButChains(t, u) /\ IsTable(u)
        /\ u.pNext = [t.pNext EXCEPT ![p] = a]
        /\ u.pLast = Set([t.pLast EXCEPT ![p] = NULL], a, p)
        /\ u.arBuckets = [t.arBuckets EXCEPT ![y] = p]
    BY ConnectFields
  <1>2. y \in 0 .. t.nTableSize - 1 BY IndexType
  <1>3. /\ t.pNext \in Ptr /\ t.pLast \in Ptr
        /\ t.arBuckets \in [0 .. t.nTableSize - 1 -> MaybeBucket]
    BY DEF IsTable, Table
  <1>4. u.nTableSize = t.nTableSize /\ u.key = t.key BY <1>1 DEF SameButChains
  <1>5. \A k : nIndex(u, k) = nIndex(t, k) BY <1>4 DEF nIndex
  <1> HIDE DEF u, y, a
  <1>6. a \in MaybeBucket BY <1>2, <1>3 DEF a
  <1>7. ASSUME NEW x \in 0 .. t.nTableSize - 1
        PROVE  \E s : ChainHas(u, x, S \cup {p}, s)
    <2>1. PICK s : ChainHas(t, x, S, s) BY DEF Chains
    <2>2. Dll(t.pNext, t.pLast, t.arBuckets[x], s) /\ ToSet(s) = {q \in S : nIndex(t, t.key[q]) = x}
      BY <2>1 DEF ChainHas
    <2>3. \A q \in ToSet(s) : q \in S /\ q \in Bucket /\ q # p BY <2>2
    <2>4. \A q \in ToSet(s) : u.pNext[q] = t.pNext[q] BY <2>3, <1>1, <1>3 DEF Ptr
    <2>5. \A q \in ToSet(s) : u.pLast[q] = IF q = a THEN p ELSE t.pLast[q]
      BY <2>3, <1>1, <1>3, <1>6, HashAssumption DEF Ptr, Set, MaybeBucket
    <2>6. CASE x = y
      <3>1. t.arBuckets[x] = a /\ u.arBuckets[x] = p BY <2>6, <1>1, <1>2, <1>3 DEF a
      <3>2. u.pNext[p] = a BY <1>1, <1>3 DEF Ptr
      <3>3. a # p
        <4>1. a \in ToSet(s) \cup {NULL} BY <2>2, <3>1, DllType
        <4> QED BY <4>1, <2>3, HashAssumption
      <3>4. u.pLast[p] = NULL
        BY <3>3, <1>1, <1>3, <1>6 DEF Ptr, Set, MaybeBucket
      <3>5. p \in Bucket \ ToSet(s) BY <2>3
      <3>6. Dll(u.pNext, u.pLast, p, <<p>> \o s) /\ ToSet(<<p>> \o s) = ToSet(s) \cup {p}
        BY <2>2, <2>4, <2>5, <3>1, <3>2, <3>4, <3>5, DllFront
      <3>7. {q \in S \cup {p} : nIndex(u, u.key[q]) = x} = ToSet(s) \cup {p}
        BY <2>2, <2>6, <1>4, <1>5 DEF y
      <3>8. ChainHas(u, x, S \cup {p}, <<p>> \o s) BY <3>1, <3>6, <3>7 DEF ChainHas
      <3> QED BY <3>8
    <2>7. CASE x # y
      <3>1. u.arBuckets[x] = t.arBuckets[x] BY <2>7, <1>1, <1>3
      <3>2. a \notin ToSet(s)
        <4>1. PICK r : ChainHas(t, y, S, r) BY <1>2 DEF Chains
        <4>2. a \in ToSet(r) \cup {NULL}
          <5>1. Dll(t.pNext, t.pLast, a, r) BY <4>1 DEF ChainHas, a
          <5> QED BY <5>1, DllType
        <4>3. \A q \in ToSet(r) : nIndex(t, t.key[q]) = y BY <4>1 DEF ChainHas
        <4>4. NULL \notin ToSet(s) BY <2>3, HashAssumption
        <4> QED BY <4>2, <4>3, <4>4, <2>2, <2>7
      <3>3. \A q \in ToSet(s) : u.pNext[q] = t.pNext[q] /\ u.pLast[q] = t.pLast[q]
        BY <2>4, <2>5, <3>2
      <3>4. Dll(u.pNext, u.pLast, u.arBuckets[x], s) BY <2>2, <3>1, <3>3, DllFrame
      <3>5. {q \in S \cup {p} : nIndex(u, u.key[q]) = x} = ToSet(s)
        BY <2>2, <2>7, <1>4, <1>5 DEF y
      <3>6. ChainHas(u, x, S \cup {p}, s) BY <3>4, <3>5 DEF ChainHas
      <3> QED BY <3>6
    <2> QED BY <2>6, <2>7
  <1> QED BY <1>4, <1>7 DEF Chains, u

\* Unchain: what it writes.
LEMMA UnchainFields ==
  ASSUME NEW t, IsTable(t), NEW p \in Bucket, t.key[p] \in Key, NEW first \in BOOLEAN
  PROVE  LET u == Unchain(t, p, first)
             x == nIndex(t, t.key[p])
         IN  /\ SameButChains(t, u) /\ IsTable(u)
             /\ u.pNext = IF first THEN t.pNext ELSE Set(t.pNext, t.pLast[p], t.pNext[p])
             /\ u.pLast = Set(t.pLast, t.pNext[p], t.pLast[p])
             /\ u.arBuckets = [t.arBuckets EXCEPT ![x] = IF first THEN t.pNext[p] ELSE @]
  <1> DEFINE x == nIndex(t, t.key[p])
             f1 == IF first THEN t.pNext ELSE Set(t.pNext, t.pLast[p], t.pNext[p])
             f2 == Set(t.pLast, t.pNext[p], t.pLast[p])
             f3 == [t.arBuckets EXCEPT ![x] = IF first THEN t.pNext[p] ELSE @]
             u == Unchain(t, p, first)
  <1>1. x \in 0 .. t.nTableSize - 1 BY IndexType
  <1>2. /\ t.pNext \in Ptr /\ t.pLast \in Ptr
        /\ t.arBuckets \in [0 .. t.nTableSize - 1 -> MaybeBucket]
    BY DEF IsTable, Table
  <1>3. f1 \in Ptr /\ f2 \in Ptr BY <1>2 DEF Ptr, Set
  <1>4. f3 \in [0 .. t.nTableSize - 1 -> MaybeBucket] BY <1>1, <1>2 DEF Ptr, MaybeBucket
  <1>5. u = [t EXCEPT !.pNext = f1, !.pLast = f2, !.arBuckets = f3] BY DEF Unchain
  <1> HIDE DEF u, x, f1, f2, f3
  <1>6. SameButChains(t, u) /\ u.pNext = f1 /\ u.pLast = f2 /\ u.arBuckets = f3
    BY <1>5 DEF IsTable, Table, SameButChains
  <1>7. t.nTableSize \in Nat \ {0} BY DEF IsTable, Table
  <1>8. u \in Table BY <1>3, <1>4, <1>5, <1>7 DEF IsTable, Table
  <1> QED BY <1>4, <1>6, <1>8 DEF IsTable, SameButChains, u, x, f1, f2, f3


\* The first of a chain is the one without a predecessor.
LEMMA FirstOfChain ==
  ASSUME NEW t, IsTable(t), NEW S \in SUBSET Bucket, NEW p \in S,
         t.key[p] \in Key, Chains(t, S)
  PROVE  t.pLast[p] = NULL <=> p = t.arBuckets[nIndex(t, t.key[p])]
  <1> DEFINE y == nIndex(t, t.key[p])
  <1>1. y \in 0 .. t.nTableSize - 1 BY IndexType
  <1>2. PICK s : ChainHas(t, y, S, s) BY <1>1 DEF Chains
  <1>3. p \in ToSet(s) /\ Dll(t.pNext, t.pLast, t.arBuckets[y], s) BY <1>2 DEF ChainHas
  <1> QED BY <1>3, DllType

\* Unchain takes the bucket out of its chain.
LEMMA UnchainChains ==
  ASSUME NEW t, IsTable(t), NEW S \in SUBSET Bucket, NEW p \in S,
         t.key[p] \in Key, Chains(t, S),
         NEW first \in BOOLEAN, first <=> t.pLast[p] = NULL
  PROVE  Chains(Unchain(t, p, first), S \ {p})
  <1> DEFINE u == Unchain(t, p, first)
             y == nIndex(t, t.key[p])
             n == t.pNext[p]
             l == t.pLast[p]
  <1>1. /\ SameButChains(t, u) /\ IsTable(u)
        /\ u.pNext = IF first THEN t.pNext ELSE Set(t.pNext, l, n)
        /\ u.pLast = Set(t.pLast, n, l)
        /\ u.arBuckets = [t.arBuckets EXCEPT ![y] = IF first THEN n ELSE @]
    BY UnchainFields
  <1>2. y \in 0 .. t.nTableSize - 1 BY IndexType
  <1>3. /\ t.pNext \in Ptr /\ t.pLast \in Ptr
        /\ t.arBuckets \in [0 .. t.nTableSize - 1 -> MaybeBucket]
    BY DEF IsTable, Table
  <1>4. u.nTableSize = t.nTableSize /\ u.key = t.key BY <1>1 DEF SameButChains
  <1>5. \A k : nIndex(u, k) = nIndex(t, k) BY <1>4 DEF nIndex
  <1>6. n \in MaybeBucket /\ l \in MaybeBucket BY <1>3 DEF Ptr, MaybeBucket
  <1>7. PICK r : ChainHas(t, y, S, r) BY <1>2 DEF Chains
  <1>8. Dll(t.pNext, t.pLast, t.arBuckets[y], r) /\ ToSet(r) = {q \in S : nIndex(t, t.key[q]) = y}
    BY <1>7 DEF ChainHas
  <1>9. p \in ToSet(r) BY <1>8
  <1>10. n \in ToSet(r) \cup {NULL} /\ l \in ToSet(r) \cup {NULL} BY <1>8, <1>9, DllType
  <1>11. first <=> t.arBuckets[y] = p BY <1>8, <1>9, DllType
  <1>12. \A q \in Bucket : /\ u.pNext[q] = IF q = l THEN n ELSE t.pNext[q]
                           /\ u.pLast[q] = IF q = n THEN l ELSE t.pLast[q]
    <2>1. first => l = NULL OBVIOUS
    <2>2. \A q \in Bucket : q # NULL BY HashAssumption
    <2> HIDE DEF n, l, u
    <2> QED BY <2>1, <2>2, <1>1, <1>3, <1>6 DEF Ptr, Set, MaybeBucket
  <1> HIDE DEF u, y, n, l
  <1>13. ASSUME NEW x \in 0 .. t.nTableSize - 1
         PROVE  \E s : ChainHas(u, x, S \ {p}, s)
    <2>1. CASE x = y
      <3>1. u.arBuckets[x] = IF t.arBuckets[y] = p THEN n ELSE t.arBuckets[y]
        BY <2>1, <1>1, <1>2, <1>3, <1>11
      <3>2. PICK i \in 1 .. Len(r) : p = r[i] BY <1>8, <1>9, DllType
      <3>3. ToSet(r) \subseteq Bucket BY <1>8
      <3>4. /\ Dll(u.pNext, u.pLast, u.arBuckets[x], Cut(r, i))
            /\ ToSet(Cut(r, i)) = ToSet(r) \ {p}
        <4>1. \A q \in ToSet(r) \ {p} :
                 /\ u.pNext[q] = IF q = t.pLast[p] THEN t.pNext[p] ELSE t.pNext[q]
                 /\ u.pLast[q] = IF q = t.pNext[p] THEN t.pLast[p] ELSE t.pLast[q]
          BY <3>3, <1>12 DEF n, l
        <4>2. u.arBuckets[x] = IF t.arBuckets[y] = p THEN t.pNext[p] ELSE t.arBuckets[y]
          BY <3>1 DEF n
        <4>3. CutOut(t.pNext, t.pLast, t.arBuckets[y], r, p, u.pNext, u.pLast, u.arBuckets[x])
          BY <4>1, <4>2 DEF CutOut
        <4>4. Dll(t.pNext, t.pLast, t.arBuckets[y], r) BY <1>8
        <4> QED BY <3>2, <4>3, <4>4, DllCut
      <3>5. {q \in S \ {p} : nIndex(u, u.key[q]) = x} = ToSet(r) \ {p}
        BY <2>1, <1>4, <1>5, <1>8
      <3>6. ChainHas(u, x, S \ {p}, Cut(r, i)) BY <3>4, <3>5 DEF ChainHas
      <3> QED BY <3>6
    <2>2. CASE x # y
      <3>1. PICK s : ChainHas(t, x, S, s) BY DEF Chains
      <3>2. Dll(t.pNext, t.pLast, t.arBuckets[x], s) /\ ToSet(s) = {q \in S : nIndex(t, t.key[q]) = x}
        BY <3>1 DEF ChainHas
      <3>3. u.arBuckets[x] = t.arBuckets[x] BY <2>2, <1>1, <1>3
      <3>4. \A q \in ToSet(s) : q \in Bucket /\ q # l /\ q # n
        BY <3>2, <1>8, <1>10, <2>2, HashAssumption
      <3>5. \A q \in ToSet(s) : u.pNext[q] = t.pNext[q] /\ u.pLast[q] = t.pLast[q]
        BY <3>4, <1>12
      <3>6. Dll(u.pNext, u.pLast, u.arBuckets[x], s) BY <3>2, <3>3, <3>5, DllFrame
      <3>7. {q \in S \ {p} : nIndex(u, u.key[q]) = x} = ToSet(s)
        BY <3>2, <2>2, <1>4, <1>5 DEF y
      <3>8. ChainHas(u, x, S \ {p}, s) BY <3>6, <3>7 DEF ChainHas
      <3> QED BY <3>8
    <2> QED BY <2>1, <2>2
  <1> QED BY <1>4, <1>13 DEF Chains, u

\* Chains are kept when the pointers, and the keys, of their buckets are.
LEMMA ChainsFrame ==
  ASSUME NEW t, NEW u, NEW S \in SUBSET Bucket, Chains(t, S),
         u.nTableSize = t.nTableSize, u.arBuckets = t.arBuckets,
         \A q \in S : u.pNext[q] = t.pNext[q] /\ u.pLast[q] = t.pLast[q]
                      /\ u.key[q] = t.key[q]
  PROVE  Chains(u, S)
  <1>1. \A k : nIndex(u, k) = nIndex(t, k) BY DEF nIndex
  <1>2. ASSUME NEW x \in 0 .. t.nTableSize - 1
        PROVE  \E s : ChainHas(u, x, S, s)
    <2>1. PICK s : ChainHas(t, x, S, s) BY DEF Chains
    <2>2. Dll(t.pNext, t.pLast, t.arBuckets[x], s) /\ ToSet(s) = {q \in S : nIndex(t, t.key[q]) = x}
      BY <2>1 DEF ChainHas
    <2>3. Dll(u.pNext, u.pLast, u.arBuckets[x], s) BY <2>2, DllFrame
    <2>4. ToSet(s) = {q \in S : nIndex(u, u.key[q]) = x} BY <2>2, <1>1
    <2>5. ChainHas(u, x, S, s) BY <2>3, <2>4 DEF ChainHas
    <2> QED BY <2>5
  <1> QED BY <1>2 DEF Chains

-----------------------------------------------------------------------------
(***************************************************************************)
(* The list, and the memory of buckets.                                    *)
(***************************************************************************)
\* All of the table but its list and the internal pointer is the same.
SameButList(t, u) ==
    /\ u.nTableSize = t.nTableSize /\ u.nNumOfElements = t.nNumOfElements
    /\ u.nNextFreeElement = t.nNextFreeElement /\ u.arBuckets = t.arBuckets
    /\ u.live = t.live /\ u.key = t.key /\ u.pNext = t.pNext /\ u.pLast = t.pLast

\* CONNECT_TO_GLOBAL_DLLIST puts the bucket at the end of the list.
LEMMA AppendList ==
  ASSUME NEW t, IsTable(t), NEW s, ListIs(t, s), NEW p \in Bucket \ ToSet(s)
  PROVE  LET u == CONNECT_TO_GLOBAL_DLLIST(t, p)
         IN  /\ IsTable(u) /\ SameButList(t, u) /\ ListIs(u, Append(s, p))
             /\ ToSet(Append(s, p)) = ToSet(s) \cup {p}
             /\ u.pInternalPointer = IF t.pInternalPointer = NULL THEN p
                                     ELSE t.pInternalPointer
             /\ \A q \in Bucket \ (ToSet(s) \cup {p}) : u.pListNext[q] = t.pListNext[q]
  <1> DEFINE f1 == [t.pListLast EXCEPT ![p] = t.pListTail]
             f2 == Set([t.pListNext EXCEPT ![p] = NULL], t.pListTail, p)
             h == IF t.pListHead = NULL THEN p ELSE t.pListHead
             c == IF t.pInternalPointer = NULL THEN p ELSE t.pInternalPointer
             u == CONNECT_TO_GLOBAL_DLLIST(t, p)
  <1>1. /\ t.pListNext \in Ptr /\ t.pListLast \in Ptr /\ t.pListTail \in MaybeBucket
        /\ t.pListHead \in MaybeBucket /\ t.pInternalPointer \in MaybeBucket
    BY DEF IsTable, Table
  <1>2. f1 \in Ptr /\ f2 \in Ptr /\ h \in MaybeBucket /\ c \in MaybeBucket
        /\ p \in MaybeBucket
    BY <1>1 DEF Ptr, Set, MaybeBucket
  <1>3. u = [t EXCEPT !.pListLast = f1, !.pListNext = f2, !.pListTail = p,
                      !.pListHead = h, !.pInternalPointer = c]
    BY DEF CONNECT_TO_GLOBAL_DLLIST
  <1>4. Dll(t.pListNext, t.pListLast, t.pListHead, s) /\ t.pListTail = End(s)
    BY DEF ListIs
  <1>5. t.pListTail # p /\ p # NULL
    <2>1. t.pListTail \in ToSet(s) \cup {NULL} BY <1>4, DllType
    <2> QED BY <2>1, HashAssumption
  <1>6. f1[p] = End(s) /\ f2[p] = NULL
    BY <1>1, <1>4, <1>5 DEF Ptr, Set, MaybeBucket
  <1>7. \A q \in Bucket \ {p} : f1[q] = t.pListLast[q]
                   /\ f2[q] = IF q = End(s) THEN p ELSE t.pListNext[q]
    BY <1>1, <1>4, HashAssumption DEF Ptr, Set, MaybeBucket
  <1>8. ToSet(s) \subseteq Bucket \ {p} /\ End(s) \in ToSet(s) \cup {NULL} BY <1>4, DllType
  <1> HIDE DEF u, f1, f2, h, c
  <1>9. /\ SameButList(t, u) /\ u.pListLast = f1 /\ u.pListNext = f2 /\ u.pListTail = p
        /\ u.pListHead = h /\ u.pInternalPointer = c
    BY <1>3 DEF IsTable, Table, SameButList
  <1>10. IsTable(u)
    <2>1. u \in Table BY <1>2, <1>3 DEF IsTable, Table
    <2> QED BY <2>1, <1>9 DEF IsTable, SameButList
  <1>11. /\ Dll(f2, f1, IF t.pListHead = NULL THEN p ELSE t.pListHead, Append(s, p))
         /\ ToSet(Append(s, p)) = ToSet(s) \cup {p} /\ End(Append(s, p)) = p
    <2>1. \A q \in ToSet(s) : f1[q] = t.pListLast[q]
                   /\ f2[q] = IF q = End(s) THEN p ELSE t.pListNext[q]
      BY <1>7, <1>8
    <2> QED BY <2>1, <1>4, <1>6, DllBack
  <1>12. ListIs(u, Append(s, p)) BY <1>9, <1>11 DEF ListIs, h
  <1>13. \A q \in Bucket \ (ToSet(s) \cup {p}) : f2[q] = t.pListNext[q]
    BY <1>7, <1>8, HashAssumption
  <1> QED BY <1>9, <1>10, <1>11, <1>12, <1>13 DEF u, c

\* Unlist takes the bucket out of the list, and leaves its own pointers.
LEMMA CutList ==
  ASSUME NEW t, IsTable(t), NEW s, ListIs(t, s), NEW i \in 1 .. Len(s), NEW p, p = s[i]
  PROVE  LET u == Unlist(t, p)
         IN  /\ IsTable(u) /\ SameButList(t, u) /\ ListIs(u, Cut(s, i))
             /\ ToSet(Cut(s, i)) = ToSet(s) \ {p} /\ p \in ToSet(s)
             /\ u.pInternalPointer = IF t.pInternalPointer = p THEN t.pListNext[p]
                                     ELSE t.pInternalPointer
             /\ t.pListNext[p] \in (ToSet(s) \ {p}) \cup {NULL}
             /\ t.pListLast[p] \in (ToSet(s) \ {p}) \cup {NULL}
             /\ \A q \in (Bucket \ ToSet(s)) \cup {p} : u.pListNext[q] = t.pListNext[q]
  <1> DEFINE n == t.pListNext[p]
             l == t.pListLast[p]
             f1 == Set(t.pListNext, l, n)
             f2 == Set(t.pListLast, n, l)
             h == IF l = NULL THEN n ELSE t.pListHead
             e == IF n = NULL THEN l ELSE t.pListTail
             c == IF t.pInternalPointer = p THEN n ELSE t.pInternalPointer
             u == Unlist(t, p)
  <1>1. /\ t.pListNext \in Ptr /\ t.pListLast \in Ptr /\ t.pListTail \in MaybeBucket
        /\ t.pListHead \in MaybeBucket /\ t.pInternalPointer \in MaybeBucket
    BY DEF IsTable, Table
  <1>2. Dll(t.pListNext, t.pListLast, t.pListHead, s) /\ t.pListTail = End(s)
    BY DEF ListIs
  <1>3. p \in ToSet(s) /\ ToSet(s) \subseteq Bucket BY <1>2, DllType
  <1>4. n \in MaybeBucket /\ l \in MaybeBucket BY <1>1, <1>3 DEF Ptr, MaybeBucket
  <1>5. f1 \in Ptr /\ f2 \in Ptr /\ h \in MaybeBucket /\ c \in MaybeBucket /\ e \in MaybeBucket
    <2> HIDE DEF n, l
    <2> QED BY <1>1, <1>4 DEF Ptr, Set, MaybeBucket
  <1>6. u = [t EXCEPT !.pListNext = f1, !.pListLast = f2, !.pListHead = h,
                      !.pListTail = e, !.pInternalPointer = c]
    BY DEF Unlist
  <1>7. /\ n \in ToSet(s) \cup {NULL} /\ l \in ToSet(s) \cup {NULL}
        /\ (l = NULL <=> t.pListHead = p) /\ (n = NULL <=> End(s) = p)
    BY <1>2, <1>3, DllType
  <1>8. n # p /\ l # p
    <2>1. n = IF i = Len(s) THEN NULL ELSE s[i + 1] BY <1>2 DEF Dll, Linked
    <2>2. l = IF i = 1 THEN NULL ELSE s[i - 1] BY <1>2 DEF Dll
    <2>3. Len(s) \in Nat BY <1>2, DllType
    <2>4. (i # Len(s) => i + 1 \in 1 .. Len(s)) /\ (i # 1 => i - 1 \in 1 .. Len(s))
          /\ i + 1 # i /\ i - 1 # i
      BY <2>3
    <2>5. \A a, b \in 1 .. Len(s) : s[a] = s[b] => a = b BY <1>2 DEF Dll, Linked
    <2>6. p # NULL BY <1>3, HashAssumption
    <2>7. i # Len(s) => s[i + 1] # p BY <2>4, <2>5
    <2>8. i # 1 => s[i - 1] # p BY <2>4, <2>5
    <2> QED BY <2>1, <2>2, <2>6, <2>7, <2>8
  <1>9. \A q \in Bucket : /\ f1[q] = IF q = l THEN n ELSE t.pListNext[q]
                          /\ f2[q] = IF q = n THEN l ELSE t.pListLast[q]
    <2>1. \A q \in Bucket : q # NULL BY HashAssumption
    <2> HIDE DEF n, l
    <2> QED BY <2>1, <1>1, <1>4 DEF Ptr, Set, MaybeBucket
  <1> HIDE DEF u, f1, f2, h, c, e, n, l
  <1>10. /\ SameButList(t, u) /\ u.pListNext = f1 /\ u.pListLast = f2 /\ u.pListHead = h
         /\ u.pListTail = e /\ u.pInternalPointer = c
    BY <1>6 DEF IsTable, Table, SameButList
  <1>11. IsTable(u)
    <2>1. u \in Table BY <1>5, <1>6 DEF IsTable, Table
    <2> QED BY <2>1, <1>10 DEF IsTable, SameButList
  <1>12. /\ Dll(f1, f2, h, Cut(s, i)) /\ ToSet(Cut(s, i)) = ToSet(s) \ {p}
         /\ End(Cut(s, i)) = IF End(s) = p THEN l ELSE End(s)
    <2>1. h = IF t.pListHead = p THEN t.pListNext[p] ELSE t.pListHead BY <1>7 DEF h, n
    <2>2. \A q \in ToSet(s) \ {p} :
             /\ f1[q] = IF q = t.pListLast[p] THEN t.pListNext[p] ELSE t.pListNext[q]
             /\ f2[q] = IF q = t.pListNext[p] THEN t.pListLast[p] ELSE t.pListLast[q]
      BY <1>3, <1>9 DEF n, l
    <2>3. /\ Dll(f1, f2, h, Cut(s, i)) /\ ToSet(Cut(s, i)) = ToSet(s) \ {p}
          /\ End(Cut(s, i)) = IF End(s) = p THEN t.pListLast[p] ELSE End(s)
      <3>1. CutOut(t.pListNext, t.pListLast, t.pListHead, s, p, f1, f2, h)
        BY <2>1, <2>2 DEF CutOut
      <3> QED BY <3>1, <1>2, DllCut
    <2> QED BY <2>3 DEF l
  <1>13. ListIs(u, Cut(s, i)) BY <1>2, <1>7, <1>10, <1>12 DEF ListIs, e
  <1>14. \A q \in (Bucket \ ToSet(s)) \cup {p} : f1[q] = t.pListNext[q]
    BY <1>3, <1>7, <1>8, <1>9, HashAssumption
  <1> QED BY <1>3, <1>7, <1>8, <1>10, <1>11, <1>12, <1>13, <1>14 DEF u, c, n, l

\* A list is kept when the pointers of its buckets are.
LEMMA ListFrame ==
  ASSUME NEW t, NEW u, NEW s, ListIs(t, s), u.pListHead = t.pListHead,
         u.pListTail = t.pListTail,
         \A q \in ToSet(s) : u.pListNext[q] = t.pListNext[q] /\ u.pListLast[q] = t.pListLast[q]
  PROVE  ListIs(u, s)
  BY DllFrame DEF ListIs

\* Forget: what it writes.
LEMMA ForgetFields ==
  ASSUME NEW t, IsTable(t), NEW gone \in SUBSET Bucket
  PROVE  LET u == Forget(t, gone)
         IN  /\ IsTable(u)
             /\ u.nTableSize = t.nTableSize /\ u.nNumOfElements = t.nNumOfElements
             /\ u.nNextFreeElement = t.nNextFreeElement
             /\ u.pInternalPointer = t.pInternalPointer
             /\ u.pListHead = t.pListHead /\ u.pListTail = t.pListTail
             /\ u.arBuckets = t.arBuckets /\ u.live = t.live /\ u.pListNext = t.pListNext
             /\ \A q \in Bucket \ gone : /\ u.key[q] = t.key[q] /\ u.pNext[q] = t.pNext[q]
                                         /\ u.pLast[q] = t.pLast[q]
                                         /\ u.pListLast[q] = t.pListLast[q]
             /\ \A q \in gone : u.key[q] = NULL
  <1> DEFINE clear(f) == [p \in Bucket |-> IF p \in gone THEN NULL ELSE f[p]]
             u == Forget(t, gone)
             g1 == clear(t.key)
             g2 == clear(t.pListLast)
             g3 == clear(t.pNext)
             g4 == clear(t.pLast)
  <1>1. /\ t.pListLast \in Ptr /\ t.pNext \in Ptr /\ t.pLast \in Ptr
        /\ t.key \in [Bucket -> Key \cup {NULL}]
    BY DEF IsTable, Table
  <1>2. g1 \in [Bucket -> Key \cup {NULL}] /\ g2 \in Ptr /\ g3 \in Ptr /\ g4 \in Ptr
    BY <1>1 DEF Ptr
  <1>3. u = [t EXCEPT !.key = g1, !.pListLast = g2, !.pNext = g3, !.pLast = g4]
    BY DEF Forget
  <1>4. /\ \A q \in Bucket \ gone : g1[q] = t.key[q] /\ g2[q] = t.pListLast[q]
                                    /\ g3[q] = t.pNext[q] /\ g4[q] = t.pLast[q]
        /\ \A q \in gone : g1[q] = NULL
    OBVIOUS
  <1> HIDE DEF u, g1, g2, g3, g4
  <1>5. /\ u.nTableSize = t.nTableSize /\ u.nNumOfElements = t.nNumOfElements
        /\ u.nNextFreeElement = t.nNextFreeElement
        /\ u.pInternalPointer = t.pInternalPointer
        /\ u.pListHead = t.pListHead /\ u.pListTail = t.pListTail
        /\ u.arBuckets = t.arBuckets /\ u.live = t.live /\ u.pListNext = t.pListNext
        /\ u.key = g1 /\ u.pListLast = g2 /\ u.pNext = g3 /\ u.pLast = g4
    BY <1>3 DEF IsTable, Table
  <1>6. u \in Table BY <1>2, <1>3 DEF IsTable, Table
  <1>7. IsTable(u) BY <1>5, <1>6 DEF IsTable
  <1> QED BY <1>4, <1>5, <1>7 DEF u

-----------------------------------------------------------------------------
(***************************************************************************)
(* The table holds the buckets S, in the order s.                          *)
(***************************************************************************)
Holds(t, S, s) ==
    /\ IsTable(t) /\ S \subseteq In(t)
    /\ Chains(t, S) /\ ListIs(t, s) /\ ToSet(s) = S
    /\ \A p, q \in S : t.key[p] = t.key[q] => p = q
    /\ t.pInternalPointer \in S \cup {NULL}

\* Only the fields of the buckets S matter for S.
LEMMA HoldsFrame ==
  ASSUME NEW t, NEW S, NEW s, Holds(t, S, s), NEW u, IsTable(u),
         u.nTableSize = t.nTableSize, u.arBuckets = t.arBuckets,
         u.pListHead = t.pListHead, u.pListTail = t.pListTail,
         u.pInternalPointer \in S \cup {NULL},
         \A q \in S : /\ u.key[q] = t.key[q] /\ u.pNext[q] = t.pNext[q]
                      /\ u.pLast[q] = t.pLast[q] /\ u.pListNext[q] = t.pListNext[q]
                      /\ u.pListLast[q] = t.pListLast[q]
  PROVE  Holds(u, S, s)
  <1>1. S \in SUBSET Bucket BY DEF Holds, In
  <1>2. Chains(u, S) BY <1>1, ChainsFrame DEF Holds
  <1>3. ListIs(u, s) BY ListFrame DEF Holds
  <1>4. S \subseteq In(u) BY DEF Holds, In
  <1> QED BY <1>2, <1>3, <1>4 DEF Holds

\* The bucket of an element has a key.
LEMMA KeyOf ==
  ASSUME NEW t, IsTable(t), NEW p \in In(t)
  PROVE  t.key[p] \in Key /\ p \in Bucket /\ p # NULL
  BY HashAssumption DEF IsTable, Table, In

\* u holds one element less than t, and its bucket keeps its pointer to the next.
OneLess(t, u, S, s, i, p) ==
    /\ Holds(u, S \ {p}, Cut(s, i)) /\ p \in S
    /\ u.nNumOfElements = t.nNumOfElements
    /\ u.nNextFreeElement = t.nNextFreeElement /\ u.live = t.live /\ u.key = t.key
    /\ u.nTableSize = t.nTableSize
    /\ u.pInternalPointer = IF t.pInternalPointer = p THEN t.pListNext[p]
                            ELSE t.pInternalPointer
    /\ t.pListNext[p] \in (S \ {p}) \cup {NULL}
    /\ t.pListLast[p] \in (S \ {p}) \cup {NULL}
    /\ \A q \in (Bucket \ S) \cup {p} : u.pListNext[q] = t.pListNext[q]

\* An element is taken out of its chain and of the list.
LEMMA HoldsWithout ==
  ASSUME NEW t, NEW S, NEW s, Holds(t, S, s), NEW i \in 1 .. Len(s), NEW p, p = s[i],
         NEW first \in BOOLEAN, first <=> t.pLast[p] = NULL
  PROVE  OneLess(t, Unlist(Unchain(t, p, first), p), S, s, i, p)
  <1> DEFINE a == Unchain(t, p, first)
             u == Unlist(a, p)
  <1>1. /\ IsTable(t) /\ S \subseteq In(t) /\ Chains(t, S) /\ ListIs(t, s) /\ ToSet(s) = S
        /\ t.pInternalPointer \in S \cup {NULL}
    BY DEF Holds
  <1>2. p \in S BY <1>1, DllType DEF ListIs
  <1>3. S \in SUBSET Bucket /\ p \in Bucket /\ t.key[p] \in Key BY <1>1, <1>2, KeyOf DEF In
  <1>4. SameButChains(t, a) /\ IsTable(a) BY <1>1, <1>3, UnchainFields
  <1>5. Chains(a, S \ {p}) BY <1>1, <1>2, <1>3, UnchainChains
  <1>6. ListIs(a, s) BY <1>1, <1>4 DEF ListIs, SameButChains
  <1> HIDE DEF a
  <1>7. /\ IsTable(u) /\ SameButList(a, u) /\ ListIs(u, Cut(s, i))
        /\ ToSet(Cut(s, i)) = ToSet(s) \ {p}
        /\ u.pInternalPointer = IF a.pInternalPointer = p THEN a.pListNext[p]
                                ELSE a.pInternalPointer
        /\ a.pListNext[p] \in (ToSet(s) \ {p}) \cup {NULL}
        /\ a.pListLast[p] \in (ToSet(s) \ {p}) \cup {NULL}
        /\ \A q \in (Bucket \ ToSet(s)) \cup {p} : u.pListNext[q] = a.pListNext[q]
    BY <1>4, <1>6, CutList
  <1> HIDE DEF u
  <1>8. Chains(u, S \ {p})
    <2>1. S \ {p} \in SUBSET Bucket BY <1>3
    <2>2. /\ u.nTableSize = a.nTableSize /\ u.arBuckets = a.arBuckets
          /\ \A q \in S \ {p} : u.pNext[q] = a.pNext[q] /\ u.pLast[q] = a.pLast[q]
                                /\ u.key[q] = a.key[q]
      BY <1>7 DEF SameButList
    <2> QED BY <2>1, <2>2, <1>5, ChainsFrame
  <1>9. /\ u.nNumOfElements = t.nNumOfElements
        /\ u.nNextFreeElement = t.nNextFreeElement /\ u.live = t.live /\ u.key = t.key
        /\ u.nTableSize = t.nTableSize
    BY <1>4, <1>7 DEF SameButChains, SameButList
  <1>10. /\ u.pInternalPointer = IF t.pInternalPointer = p THEN t.pListNext[p]
                                 ELSE t.pInternalPointer
         /\ t.pListNext[p] \in (S \ {p}) \cup {NULL}
         /\ t.pListLast[p] \in (S \ {p}) \cup {NULL}
         /\ \A q \in (Bucket \ S) \cup {p} : u.pListNext[q] = t.pListNext[q]
    BY <1>1, <1>4, <1>7 DEF SameButChains
  <1>11. Holds(u, S \ {p}, Cut(s, i))
    <2>1. S \ {p} \subseteq In(u) BY <1>1, <1>9 DEF In
    <2>2. \A x, y \in S \ {p} : u.key[x] = u.key[y] => x = y BY <1>9 DEF Holds
    <2>3. u.pInternalPointer \in (S \ {p}) \cup {NULL} BY <1>1, <1>10
    <2>4. ToSet(Cut(s, i)) = S \ {p} BY <1>1, <1>7
    <2> QED BY <2>1, <2>2, <2>3, <2>4, <1>7, <1>8 DEF Holds
  <1>12. OneLess(t, u, S, s, i, p) BY <1>2, <1>9, <1>10, <1>11 DEF OneLess
  <1> QED BY <1>12 DEF u, a

\* A bucket with a key of its own is put into both.
LEMMA HoldsWith ==
  ASSUME NEW t, NEW S, NEW s, Holds(t, S, s), NEW p \in In(t) \ S,
         \A q \in S : t.key[q] # t.key[p]
  PROVE  LET u == CONNECT_TO_GLOBAL_DLLIST(CONNECT_TO_BUCKET_DLLIST(t, p), p)
         IN  /\ Holds(u, S \cup {p}, Append(s, p))
             /\ u.nNumOfElements = t.nNumOfElements
             /\ u.nNextFreeElement = t.nNextFreeElement /\ u.live = t.live /\ u.key = t.key
             /\ u.nTableSize = t.nTableSize
             /\ u.pInternalPointer = IF t.pInternalPointer = NULL THEN p
                                     ELSE t.pInternalPointer
             /\ \A q \in Bucket \ (S \cup {p}) : u.pListNext[q] = t.pListNext[q]
  <1> DEFINE a == CONNECT_TO_BUCKET_DLLIST(t, p)
             u == CONNECT_TO_GLOBAL_DLLIST(a, p)
  <1>1. /\ IsTable(t) /\ S \subseteq In(t) /\ Chains(t, S) /\ ListIs(t, s) /\ ToSet(s) = S
        /\ t.pInternalPointer \in S \cup {NULL}
    BY DEF Holds
  <1>2. S \in SUBSET Bucket /\ p \in Bucket \ S /\ t.key[p] \in Key BY <1>1, KeyOf DEF In
  <1>3. SameButChains(t, a) /\ IsTable(a) BY <1>1, <1>2, ConnectFields
  <1>4. Chains(a, S \cup {p}) BY <1>1, <1>2, ConnectChains
  <1>5. ListIs(a, s) BY <1>1, <1>3 DEF ListIs, SameButChains
  <1> HIDE DEF a
  <1>6. /\ IsTable(u) /\ SameButList(a, u) /\ ListIs(u, Append(s, p))
        /\ ToSet(Append(s, p)) = ToSet(s) \cup {p}
        /\ u.pInternalPointer = IF a.pInternalPointer = NULL THEN p ELSE a.pInternalPointer
        /\ \A q \in Bucket \ (ToSet(s) \cup {p}) : u.pListNext[q] = a.pListNext[q]
    BY <1>1, <1>2, <1>3, <1>5, AppendList
  <1> HIDE DEF u
  <1>7. Chains(u, S \cup {p})
    <2>1. S \cup {p} \in SUBSET Bucket BY <1>2
    <2>2. /\ u.nTableSize = a.nTableSize /\ u.arBuckets = a.arBuckets
          /\ \A q \in S \cup {p} : u.pNext[q] = a.pNext[q] /\ u.pLast[q] = a.pLast[q]
                                   /\ u.key[q] = a.key[q]
      BY <1>6 DEF SameButList
    <2> QED BY <2>1, <2>2, <1>4, ChainsFrame
  <1>8. /\ u.nNumOfElements = t.nNumOfElements
        /\ u.nNextFreeElement = t.nNextFreeElement /\ u.live = t.live /\ u.key = t.key
        /\ u.nTableSize = t.nTableSize
    BY <1>3, <1>6 DEF SameButChains, SameButList
  <1>9. /\ u.pInternalPointer = IF t.pInternalPointer = NULL THEN p ELSE t.pInternalPointer
        /\ \A q \in Bucket \ (S \cup {p}) : u.pListNext[q] = t.pListNext[q]
    BY <1>1, <1>3, <1>6 DEF SameButChains
  <1>10. Holds(u, S \cup {p}, Append(s, p))
    <2>1. S \cup {p} \subseteq In(u) BY <1>1, <1>8 DEF In
    <2>2. \A x, y \in S \cup {p} : u.key[x] = u.key[y] => x = y BY <1>8 DEF Holds
    <2>3. u.pInternalPointer \in (S \cup {p}) \cup {NULL} BY <1>1, <1>9
    <2> QED BY <2>1, <2>2, <2>3, <1>1, <1>6, <1>7 DEF Holds
  <1> QED BY <1>8, <1>9, <1>10 DEF u, a


\* Count: what it writes.
LEMMA CountFields ==
  ASSUME NEW t, IsTable(t), NEW d \in Int
  PROVE  LET u == Count(t, d)
         IN  /\ IsTable(u) /\ SameButList(t, [u EXCEPT !.nNumOfElements = t.nNumOfElements])
             /\ u.nTableSize = t.nTableSize /\ u.arBuckets = t.arBuckets
             /\ u.nNextFreeElement = t.nNextFreeElement /\ u.live = t.live
             /\ u.pListHead = t.pListHead /\ u.pListTail = t.pListTail
             /\ u.pInternalPointer = t.pInternalPointer
             /\ u.key = t.key /\ u.pNext = t.pNext /\ u.pLast = t.pLast
             /\ u.pListNext = t.pListNext /\ u.pListLast = t.pListLast
             /\ u.nNumOfElements = (t.nNumOfElements + d) % SizeLimit
  <1> DEFINE m == (t.nNumOfElements + d) % SizeLimit
  <1>0. SizeLimit \in Nat \ {0}
    <2>1. Cardinality(Bucket) \in Nat BY HashAssumption, FS_CardinalityType
    <2> QED BY <2>1, HashAssumption
  <1>1. t.nNumOfElements \in Int BY <1>0 DEF IsTable, Table
  <1>2. m \in 0 .. SizeLimit - 1 BY <1>0, <1>1
  <1> HIDE DEF m
  <1>3. Count(t, d) = [t EXCEPT !.nNumOfElements = m] BY DEF Count, m
  <1> QED BY <1>2, <1>3 DEF IsTable, Table, SameButList, m

\* u is t without the memory of p.
BucketFreed(t, u, p) ==
    /\ IsTable(u)
    /\ u.nTableSize = t.nTableSize /\ u.arBuckets = t.arBuckets
    /\ u.nNextFreeElement = t.nNextFreeElement
    /\ u.nNumOfElements = t.nNumOfElements
    /\ u.pListHead = t.pListHead /\ u.pListTail = t.pListTail
    /\ u.pInternalPointer = t.pInternalPointer
    /\ u.live = t.live \ {p} /\ u.key[p] = NULL /\ u.pListNext[p] = NULL
    /\ \A q \in Bucket \ {p} :
          /\ u.key[q] = t.key[q] /\ u.pNext[q] = t.pNext[q]
          /\ u.pLast[q] = t.pLast[q] /\ u.pListLast[q] = t.pListLast[q]
          /\ u.pListNext[q] = t.pListNext[q]

\* pefree: what it writes.
LEMMA FreeFields ==
  ASSUME NEW t, IsTable(t), NEW p \in Bucket
  PROVE  BucketFreed(t, pefree(t, p), p)
  <1> DEFINE a == Forget(t, {p})
             u == pefree(t, p)
             f == [a.pListNext EXCEPT ![p] = NULL]
  <1>0. {p} \in SUBSET Bucket OBVIOUS
  <1>1. /\ IsTable(a)
        /\ a.nTableSize = t.nTableSize /\ a.nNumOfElements = t.nNumOfElements
        /\ a.nNextFreeElement = t.nNextFreeElement
        /\ a.pInternalPointer = t.pInternalPointer
        /\ a.pListHead = t.pListHead /\ a.pListTail = t.pListTail
        /\ a.arBuckets = t.arBuckets /\ a.live = t.live /\ a.pListNext = t.pListNext
        /\ \A q \in Bucket \ {p} : /\ a.key[q] = t.key[q] /\ a.pNext[q] = t.pNext[q]
                                   /\ a.pLast[q] = t.pLast[q]
                                   /\ a.pListLast[q] = t.pListLast[q]
        /\ \A q \in {p} : a.key[q] = NULL
    BY <1>0, ForgetFields
  <1>2. u = [a EXCEPT !.live = a.live \ {p}, !.pListNext = f] BY DEF pefree
  <1> HIDE DEF a, u
  <1>3. a.pListNext \in Ptr BY <1>1 DEF IsTable, Table
  <1>4. f \in Ptr /\ f[p] = NULL /\ \A q \in Bucket \ {p} : f[q] = t.pListNext[q]
    BY <1>1, <1>3 DEF Ptr
  <1> HIDE DEF f
  <1>5. /\ u.nTableSize = a.nTableSize /\ u.arBuckets = a.arBuckets
        /\ u.nNextFreeElement = a.nNextFreeElement
        /\ u.nNumOfElements = a.nNumOfElements
        /\ u.pListHead = a.pListHead /\ u.pListTail = a.pListTail
        /\ u.pInternalPointer = a.pInternalPointer
        /\ u.live = a.live \ {p} /\ u.key = a.key /\ u.pNext = a.pNext /\ u.pLast = a.pLast
        /\ u.pListLast = a.pListLast /\ u.pListNext = f
    BY <1>1, <1>2 DEF IsTable, Table
  <1>6. u \in Table BY <1>1, <1>2, <1>4 DEF IsTable, Table
  <1>7. IsTable(u) BY <1>1, <1>5, <1>6 DEF IsTable
  <1>8. BucketFreed(t, u, p) BY <1>1, <1>4, <1>5, <1>7 DEF BucketFreed
  <1> QED BY <1>8 DEF u

\* What a loop over the list leaves: List finds the list.
LEMMA ListFound ==
  ASSUME NEW t, t \in Table, NEW s, ListIs(t, s)
  PROVE  List(t) = s
  <1>1. t.pListNext \in Ptr BY DEF Table
  <1>2. Linked(t.pListNext, t.pListHead, s) BY DEF ListIs, Dll
  <1> QED BY <1>1, <1>2, PathLinked DEF List

\* zend_hash_rehash: the table has its list and keys, and all chains are made anew.
LEMMA Rehashed ==
  ASSUME NEW t, t \in Table, NEW s, ListIs(t, s), ToSet(s) \subseteq In(t)
  PROVE  LET u == zend_hash_rehash(t)
         IN  SameButChains(t, u) /\ IsTable(u) /\ Chains(u, ToSet(s))
  <1> DEFINE N == Len(s)
             b == [t EXCEPT !.arBuckets = [x \in 0 .. t.nTableSize - 1 |-> NULL]]
             T == {u \in Table : IsTable(u) /\ SameButChains(t, u)}
             step(n, u) == IF n \in 1 .. N THEN CONNECT_TO_BUCKET_DLLIST(u, s[n]) ELSE u
             F == [n \in Nat |-> [u \in T |-> step(n, u)]]
             body(g, n) == IF n = 0 THEN b ELSE CONNECT_TO_BUCKET_DLLIST(g[n - 1], s[n])
             R(g) == g = [n \in 0 .. N |-> body(g, n)]
             Part(n) == {s[j] : j \in 1 .. n}
  <1>0. /\ s \in Seq(Bucket) /\ N \in Nat /\ DOMAIN s = 1 .. N
        /\ ToSet(s) = {s[j] : j \in 1 .. N}
        /\ \A j \in 1 .. N : s[j] \in Bucket
        /\ \A j, k \in 1 .. N : s[j] = s[k] => j = k
    <2>1. Dll(t.pListNext, t.pListLast, t.pListHead, s) BY DEF ListIs
    <2>2. \A j, k \in 1 .. N : s[j] = s[k] => j = k BY <2>1 DEF Dll, Linked
    <2> QED BY <2>1, <2>2, DllType
  <1>1. b \in T /\ b.arBuckets = [x \in 0 .. t.nTableSize - 1 |-> NULL]
    <2> DEFINE z == [x \in 0 .. t.nTableSize - 1 |-> NULL]
    <2>1. z \in [0 .. t.nTableSize - 1 -> MaybeBucket] /\ t.nTableSize \in Nat \ {0}
      BY DEF Table, MaybeBucket
    <2> HIDE DEF z
    <2>2. [t EXCEPT !.arBuckets = z] \in Table BY <2>1 DEF Table
    <2>3. SameButChains(t, [t EXCEPT !.arBuckets = z]) BY DEF Table, SameButChains
    <2>4. [t EXCEPT !.arBuckets = z].arBuckets = z /\ [t EXCEPT !.arBuckets = z].nTableSize = t.nTableSize
      BY DEF Table
    <2> QED BY <2>1, <2>2, <2>3, <2>4 DEF IsTable, z
  <1>2. ASSUME NEW n \in Nat, NEW u \in T PROVE step(n, u) \in T
    <2>1. CASE n \in 1 .. N
      <3>1. u.key[s[n]] \in Key /\ s[n] \in Bucket
        <4>1. s[n] \in In(t) BY <2>1, <1>0
        <4>2. s[n] \in In(u) BY <4>1 DEF In, SameButChains
        <4> QED BY <4>2, KeyOf
      <3>2. SameButChains(u, step(n, u)) /\ IsTable(step(n, u)) BY <2>1, <3>1, ConnectFields
      <3>3. SameButChains(t, step(n, u))
        <4> HIDE DEF step
        <4> QED BY <3>2 DEF SameButChains
      <3> QED BY <3>2, <3>3 DEF IsTable
    <2>2. CASE n \notin 1 .. N BY <2>2
    <2> QED BY <2>1, <2>2
  <1>3. F \in [Nat -> [T -> T]]
    <2> HIDE DEF T, step
    <2> QED BY <1>2
  <1>4. PICK g \in [0 .. N -> T] : g[0] = b /\ \A n \in 1 .. N : g[n] = F[n][g[n - 1]]
    <2>1. b \in T /\ N \in Nat BY <1>0, <1>1
    <2> HIDE DEF F, T, b, N
    <2>2. \E g : Unfolds(g, T, b, F, N) BY <2>1, <1>3, Recursion
    <2> QED BY <2>2 DEF Unfolds
  <1>5. ASSUME NEW n \in 0 .. N PROVE g[n] = body(g, n)
    <2>1. CASE n = 0 BY <2>1, <1>4
    <2>2. CASE n # 0
      <3>1. n \in 1 .. N /\ n - 1 \in 0 .. N /\ n \in Nat BY <1>0, <2>2
      <3>2. g[n - 1] \in T BY <3>1
      <3>3. g[n] = step(n, g[n - 1])
        <4> HIDE DEF T, step, N
        <4> QED BY <1>4, <3>1, <3>2
      <3> QED BY <2>2, <3>1, <3>3
    <2> QED BY <2>1, <2>2
  <1>6. R(g)
    <2> HIDE DEF T, body
    <2> QED BY <1>5
  <1>7. R(CHOOSE h : R(h))
    <2> HIDE DEF R
    <2> QED BY <1>6
  <1> DEFINE w == CHOOSE h : R(h)
  <1>8. zend_hash_rehash(t) = w[N]
    <2>1. List(t) = s BY ListFound
    <2> QED BY <2>1 DEF zend_hash_rehash
  <1>9. \A n \in 0 .. N : w[n] = body(w, n)
    <2>1. w = [n \in 0 .. N |-> body(w, n)] BY <1>7
    <2> HIDE DEF w, body
    <2> QED BY <2>1
  <1> HIDE DEF w
  <1> DEFINE S == {n \in Nat : n <= N => w[n] \in T /\ Chains(w[n], Part(n))}
  <1>10. 0 \in S
    <2>1. 0 \in 0 .. N BY <1>0
    <2>2. w[0] = b BY <1>9, <2>1
    <2>3. Part(0) = {} OBVIOUS
    <2>4. ASSUME NEW x \in 0 .. b.nTableSize - 1 PROVE ChainHas(b, x, {}, <<>>)
      <3>1. b.arBuckets[x] = NULL
        <4>1. b.nTableSize = t.nTableSize BY <1>1 DEF SameButChains
        <4> HIDE DEF b
        <4> QED BY <1>1, <4>1
      <3> QED BY <3>1, DllEmpty DEF ChainHas
    <2>5. Chains(b, {}) BY <2>4 DEF Chains
    <2> HIDE DEF b, T, Part
    <2> QED BY <1>1, <2>2, <2>3, <2>5
  <1>11. ASSUME NEW n \in S PROVE n + 1 \in S
    <2> SUFFICES ASSUME n + 1 <= N PROVE w[n + 1] \in T /\ Chains(w[n + 1], Part(n + 1))
      OBVIOUS
    <2>1. n \in Nat /\ n <= N /\ n + 1 \in 1 .. N /\ n + 1 \in 0 .. N /\ n + 1 # 0 /\ (n + 1) - 1 = n
          /\ n + 1 \in Nat
      BY <1>0
    <2>2. w[n] \in T /\ Chains(w[n], Part(n)) BY <2>1
    <2>3. w[n + 1] = CONNECT_TO_BUCKET_DLLIST(w[n], s[n + 1]) BY <1>9, <2>1
    <2>4. w[n + 1] \in T
      <3>1. step(n + 1, w[n]) = w[n + 1] BY <2>1, <2>3
      <3> HIDE DEF T, step
      <3> QED BY <3>1, <2>1, <2>2, <1>2
    <2>5. Part(n) \in SUBSET Bucket /\ s[n + 1] \in Bucket \ Part(n)
      <3>1. \A j \in 1 .. n : j \in 1 .. N /\ j # n + 1 BY <2>1
      <3> QED BY <3>1, <2>1, <1>0
    <2>6. IsTable(w[n]) /\ w[n].key[s[n + 1]] \in Key
      <3>1. s[n + 1] \in In(t) BY <2>1, <1>0
      <3>2. IsTable(w[n]) /\ SameButChains(t, w[n]) BY <2>2
      <3>3. s[n + 1] \in In(w[n]) BY <3>1, <3>2 DEF In, SameButChains
      <3> QED BY <3>2, <3>3, KeyOf
    <2>7. Part(n + 1) = Part(n) \cup {s[n + 1]}
      <3>1. \A j \in 1 .. n + 1 : j \in 1 .. n \/ j = n + 1 BY <2>1
      <3>2. \A j \in 1 .. n : j \in 1 .. n + 1 BY <2>1
      <3>3. n + 1 \in 1 .. n + 1 BY <2>1
      <3> QED BY <3>1, <3>2, <3>3
    <2>8. Chains(w[n + 1], Part(n + 1))
      <3> HIDE DEF Part
      <3> QED BY <2>2, <2>3, <2>5, <2>6, <2>7, ConnectChains
    <2> QED BY <2>4, <2>8
  <1>12. S = Nat
    <2> HIDE DEF S
    <2>1. S \in SUBSET Nat BY DEF S
    <2> QED BY <1>10, <1>11, <2>1, Induct
  <1>13. w[N] \in T /\ Chains(w[N], Part(N))
    <2>1. N \in S /\ N <= N BY <1>0, <1>12
    <2> HIDE DEF T, Part
    <2> QED BY <2>1
  <1>14. Part(N) = ToSet(s) BY <1>0
  <1> QED BY <1>8, <1>13, <1>14

=============================================================================
