---------------------------- MODULE ZendGcProofs ----------------------------
(***************************************************************************)
(* Reference counting and the cycle collector are safe, for every memory,  *)
(* every size of the buffer of roots and every nesting of calls.           *)
(*                                                                         *)
(* A count is right only together with the calls in progress: a reference  *)
(* that was taken out of the heap is held by the call that will release    *)
(* it, trial deletion takes references away that it gives back later, and  *)
(* zvals are destroyed while others still contain them.  So the invariant  *)
(* says who owns what:                                                     *)
(*   - a call owns what it is destroying, Owned; the references of an      *)
(*     object in Moved are the call's, those of a handle in Stale are      *)
(*     given up; Doomed is what the collector will destroy later;          *)
(*   - Exact: a count is the number of variables of the script, of nodes   *)
(*     whose references count and of calls (Weight) that hold the node;    *)
(*   - Closed: nothing that lives contains what is owned or doomed;        *)
(*   - Phase: what marking has taken away, that the grey and white nodes   *)
(*     are those the roots reach, and that what a scan leaves white is     *)
(*     held by white nodes only.                                           *)
(***************************************************************************)
EXTENDS ZendGc, RecursionLemmas, FiniteSetTheorems

\* The calls in progress.
Frame == [op : Op, z : Zval \cup {None}, n : Node \cup {None}, rest : SUBSET Node,
          list : SUBSET (Zval \cup Slot)]
SetOf(s) == {s[i] : i \in DOMAIN s}

\* What a call is destroying, or has listed to destroy: no other call may.
Own(c) ==
    IF c.op \in {"elements", "efree"} THEN {c.z} \cap Zval
    ELSE IF c.op = "properties" THEN {c.z, c.n} \cap Node
    ELSE IF c.op = "destroy" THEN c.list ELSE {}

\* The references a call has taken over, to release or to give back.
Refs(c) ==
    IF c.op \in {"elements", "properties"} THEN c.rest
    ELSE IF c.op \in {"dtor", "collected"} THEN {c.z} ELSE {}

\* The references of its own that a call keeps on what it destroys.
Keeps(c) ==
    IF c.op = "properties" THEN {IF c.z = None THEN c.n ELSE c.z}
    ELSE IF c.op \in {"collect", "destroy"} THEN c.list ELSE {}

\* How often a call counts in the count of a node.
W(c, n) == (IF n \in Refs(c) THEN 1 ELSE 0) + (IF n \in Keeps(c) THEN 1 ELSE 0)

\* How often all calls do.
Weight(s, n) ==
    LET F[k \in 0 .. Len(s)] ==
            IF k = 0 THEN 0 ELSE F[k - 1] + W(s[Len(s) + 1 - k], n)
    IN  F[Len(s)]

\* a is called by b, directly or not: it does not destroy what b destroys or will
\* release.
PairOK(a, b) ==
    /\ Own(a) \cap (Own(b) \cup Refs(b)) = {}
    /\ a.op = "collected" => a.n \notin Own(b)
PairsOf(s) == \A i, j \in DOMAIN s : i < j => PairOK(s[i], s[j])

\* c is going to destroy o, since it listed a handle of it.
Dooms(c, o, ct) == c.op = "destroy" /\ \E z \in c.rest : o \in ct[z]

\* A call that will buffer a doomed object waits for the one that destroys it.
Ordered(s, X, ct) ==
    \A i \in DOMAIN s : s[i].op = "collected" /\ s[i].n \in X
        => \E j \in DOMAIN s : j < i /\ Dooms(s[j], s[i].n, ct)

-----------------------------------------------------------------------------
\* The innermost call and the others.
LEMMA SeqSplit ==
  ASSUME NEW s \in Seq(Frame), s # <<>>
  PROVE  /\ Head(s) \in Frame /\ Tail(s) \in Seq(Frame) /\ s = <<Head(s)>> \o Tail(s)
  OBVIOUS

\* What a call in front of others makes of their places.
LEMMA PushSeq ==
  ASSUME NEW c \in Frame, NEW s \in Seq(Frame)
  PROVE  /\ <<c>> \o s \in Seq(Frame) /\ <<c>> \o s # <<>>
         /\ Head(<<c>> \o s) = c /\ Tail(<<c>> \o s) = s
         /\ Len(<<c>> \o s) = Len(s) + 1 /\ Len(s) \in Nat
         /\ (<<c>> \o s)[1] = c
         /\ \A i \in 1 .. Len(s) : (<<c>> \o s)[i + 1] = s[i]
         /\ DOMAIN s = 1 .. Len(s) /\ DOMAIN (<<c>> \o s) = 1 .. Len(s) + 1
  OBVIOUS

\* The calls of a stack with one more on top.
LEMMA PushSet ==
  ASSUME NEW c \in Frame, NEW s \in Seq(Frame)
  PROVE  SetOf(<<c>> \o s) = {c} \cup SetOf(s)
  <1> DEFINE t == <<c>> \o s
  <1>1. /\ t[1] = c /\ \A i \in 1 .. Len(s) : t[i + 1] = s[i]
        /\ DOMAIN s = 1 .. Len(s) /\ DOMAIN t = 1 .. Len(s) + 1 /\ Len(s) \in Nat
    BY PushSeq
  <1> HIDE DEF t
  <1>2. ASSUME NEW i \in DOMAIN t PROVE t[i] \in {c} \cup SetOf(s)
    <2>1. CASE i = 1 BY <1>1, <2>1
    <2>2. CASE i # 1
      <3>1. i - 1 \in 1 .. Len(s) /\ (i - 1) + 1 = i BY <1>1, <2>2
      <3>2. t[i] = s[i - 1] BY <1>1, <3>1
      <3> QED BY <1>1, <3>1, <3>2 DEF SetOf
    <2> QED BY <2>1, <2>2
  <1>3. c \in SetOf(t) BY <1>1 DEF SetOf
  <1>4. ASSUME NEW i \in DOMAIN s PROVE s[i] \in SetOf(t)
    <2>1. i + 1 \in DOMAIN t /\ t[i + 1] = s[i] BY <1>1
    <2> QED BY <2>1 DEF SetOf
  <1>5. SetOf(t) \subseteq {c} \cup SetOf(s) BY <1>2 DEF SetOf
  <1>6. SetOf(s) \subseteq SetOf(t) BY <1>4 DEF SetOf
  <1> QED BY <1>3, <1>5, <1>6 DEF t

\* Every two calls fit when the new one fits with each.
LEMMA PairsPush ==
  ASSUME NEW c \in Frame, NEW s \in Seq(Frame)
  PROVE  PairsOf(<<c>> \o s) <=> PairsOf(s) /\ \A d \in SetOf(s) : PairOK(c, d)
  <1> DEFINE t == <<c>> \o s
  <1>1. /\ t[1] = c /\ \A i \in 1 .. Len(s) : t[i + 1] = s[i]
        /\ DOMAIN s = 1 .. Len(s) /\ DOMAIN t = 1 .. Len(s) + 1 /\ Len(s) \in Nat
    BY PushSeq
  <1> HIDE DEF t
  <1>2. ASSUME PairsOf(t) PROVE PairsOf(s) /\ \A d \in SetOf(s) : PairOK(c, d)
    <2>1. ASSUME NEW i \in DOMAIN s, NEW j \in DOMAIN s, i < j PROVE PairOK(s[i], s[j])
      <3>1. i + 1 \in DOMAIN t /\ j + 1 \in DOMAIN t /\ i + 1 < j + 1
        BY <1>1, <2>1
      <3>2. t[i + 1] = s[i] /\ t[j + 1] = s[j] BY <1>1
      <3> QED BY <1>2, <3>1, <3>2 DEF PairsOf
    <2>2. ASSUME NEW j \in DOMAIN s PROVE PairOK(c, s[j])
      <3>1. 1 \in DOMAIN t /\ j + 1 \in DOMAIN t /\ 1 < j + 1 BY <1>1
      <3>2. t[1] = c /\ t[j + 1] = s[j] BY <1>1
      <3> QED BY <1>2, <3>1, <3>2 DEF PairsOf
    <2> QED BY <2>1, <2>2 DEF PairsOf, SetOf
  <1>3. ASSUME PairsOf(s), \A d \in SetOf(s) : PairOK(c, d) PROVE PairsOf(t)
    <2> SUFFICES ASSUME NEW i \in DOMAIN t, NEW j \in DOMAIN t, i < j
                 PROVE  PairOK(t[i], t[j])
      BY DEF PairsOf
    <2>1. j - 1 \in DOMAIN s /\ t[j] = s[j - 1]
      <3>1. j - 1 \in 1 .. Len(s) /\ (j - 1) + 1 = j BY <1>1
      <3> QED BY <1>1, <3>1
    <2>2. CASE i = 1 BY <1>1, <1>3, <2>1, <2>2 DEF SetOf
    <2>3. CASE i # 1
      <3>1. i - 1 \in 1 .. Len(s) /\ (i - 1) + 1 = i /\ i - 1 < j - 1 BY <1>1, <2>3
      <3>2. t[i] = s[i - 1] /\ i - 1 \in DOMAIN s BY <1>1, <3>1
      <3> QED BY <1>3, <2>1, <3>1, <3>2 DEF PairsOf
    <2> QED BY <2>2, <2>3
  <1> QED BY <1>2, <1>3 DEF t

\* A new call on top leaves the order of the others.
LEMMA OrderedPush ==
  ASSUME NEW c \in Frame, NEW s \in Seq(Frame), NEW X, NEW ct,
         Ordered(s, X, ct), c.op = "collected" => c.n \notin X
  PROVE  Ordered(<<c>> \o s, X, ct)
  <1> DEFINE t == <<c>> \o s
  <1>1. /\ t[1] = c /\ \A i \in 1 .. Len(s) : t[i + 1] = s[i]
        /\ DOMAIN s = 1 .. Len(s) /\ DOMAIN t = 1 .. Len(s) + 1 /\ Len(s) \in Nat
    BY PushSeq
  <1> HIDE DEF t
  <1>2. ASSUME NEW i \in DOMAIN t, t[i].op = "collected", t[i].n \in X
        PROVE  \E j \in DOMAIN t : j < i /\ Dooms(t[j], t[i].n, ct)
    <2>1. i # 1 BY <1>1, <1>2
    <2>2. i - 1 \in 1 .. Len(s) /\ (i - 1) + 1 = i BY <1>1, <2>1
    <2>3. t[i] = s[i - 1] /\ i - 1 \in DOMAIN s BY <1>1, <2>2
    <2>4. PICK j \in DOMAIN s : j < i - 1 /\ Dooms(s[j], s[i - 1].n, ct)
      BY <1>2, <2>3 DEF Ordered
    <2>5. j + 1 \in DOMAIN t /\ t[j + 1] = s[j] /\ j + 1 < i BY <1>1, <2>4
    <2> QED BY <2>3, <2>4, <2>5
  <1> QED BY <1>2 DEF Ordered, t

\* A call that dooms none of X can return.
LEMMA OrderedPop ==
  ASSUME NEW c \in Frame, NEW s \in Seq(Frame), NEW X, NEW ct,
         Ordered(<<c>> \o s, X, ct), \A o \in X : ~Dooms(c, o, ct)
  PROVE  Ordered(s, X, ct)
  <1> DEFINE t == <<c>> \o s
  <1>1. /\ t[1] = c /\ \A i \in 1 .. Len(s) : t[i + 1] = s[i]
        /\ DOMAIN s = 1 .. Len(s) /\ DOMAIN t = 1 .. Len(s) + 1 /\ Len(s) \in Nat
    BY PushSeq
  <1>0. Ordered(t, X, ct) OBVIOUS
  <1> HIDE DEF t
  <1>2. ASSUME NEW i \in DOMAIN s, s[i].op = "collected", s[i].n \in X
        PROVE  \E j \in DOMAIN s : j < i /\ Dooms(s[j], s[i].n, ct)
    <2>1. i + 1 \in DOMAIN t /\ t[i + 1] = s[i] BY <1>1
    <2>2. PICK j \in DOMAIN t : j < i + 1 /\ Dooms(t[j], s[i].n, ct)
      BY <1>0, <1>2, <2>1 DEF Ordered
    <2>3. j # 1 BY <1>1, <1>2, <2>2
    <2>4. j - 1 \in 1 .. Len(s) /\ (j - 1) + 1 = j /\ j - 1 < i BY <1>1, <2>2, <2>3
    <2>5. t[j] = s[j - 1] BY <1>1, <2>4
    <2> QED BY <1>1, <2>2, <2>4, <2>5
  <1> QED BY <1>2 DEF Ordered

\* Nothing is above the innermost call: it does not wait for a doomed object.
LEMMA OrderedTop ==
  ASSUME NEW c \in Frame, NEW s \in Seq(Frame), NEW X, NEW ct,
         Ordered(<<c>> \o s, X, ct), c.op = "collected"
  PROVE  c.n \notin X
  <1> DEFINE t == <<c>> \o s
  <1>1. /\ t[1] = c /\ DOMAIN t = 1 .. Len(s) + 1 /\ Len(s) \in Nat
    BY PushSeq
  <1>0. Ordered(t, X, ct) OBVIOUS
  <1> HIDE DEF t
  <1> SUFFICES ASSUME c.n \in X PROVE FALSE OBVIOUS
  <1>2. \E j \in DOMAIN t : j < 1 /\ Dooms(t[j], c.n, ct)
    <2>1. 1 \in DOMAIN t BY <1>1
    <2> QED BY <1>0, <1>1, <2>1 DEF Ordered
  <1> QED BY <1>1, <1>2

\* The top is replaced, the set grows by what the new top dooms.
LEMMA OrderedSwap ==
  ASSUME NEW c \in Frame, NEW d \in Frame, NEW s \in Seq(Frame), NEW X, NEW Y, NEW ct,
         Ordered(<<c>> \o s, X, ct), d.op # "collected",
         \A o \in X : Dooms(c, o, ct) => Dooms(d, o, ct),
         \A o \in Y \ X : Dooms(d, o, ct)
  PROVE  Ordered(<<d>> \o s, Y, ct)
  <1> DEFINE t == <<c>> \o s
             u == <<d>> \o s
  <1>1. /\ t[1] = c /\ \A i \in 1 .. Len(s) : t[i + 1] = s[i]
        /\ DOMAIN s = 1 .. Len(s) /\ DOMAIN t = 1 .. Len(s) + 1 /\ Len(s) \in Nat
    BY PushSeq
  <1>2. /\ u[1] = d /\ \A i \in 1 .. Len(s) : u[i + 1] = s[i]
        /\ DOMAIN u = 1 .. Len(s) + 1
    BY PushSeq
  <1>0. Ordered(t, X, ct) OBVIOUS
  <1> HIDE DEF t, u
  <1>3. ASSUME NEW i \in DOMAIN u, u[i].op = "collected", u[i].n \in Y
        PROVE  \E j \in DOMAIN u : j < i /\ Dooms(u[j], u[i].n, ct)
    <2>1. i # 1 BY <1>2, <1>3
    <2>2. i - 1 \in 1 .. Len(s) /\ (i - 1) + 1 = i /\ 1 < i /\ 1 \in DOMAIN u
      BY <1>1, <1>2, <2>1
    <2>3. t[i] = u[i] /\ i \in DOMAIN t BY <1>1, <1>2, <2>2
    <2>4. CASE u[i].n \in X
      <3>1. PICK j \in DOMAIN t : j < i /\ Dooms(t[j], u[i].n, ct)
        BY <1>0, <1>3, <2>3, <2>4 DEF Ordered
      <3>2. CASE j = 1 BY <1>1, <1>2, <2>2, <2>4, <3>1, <3>2
      <3>3. CASE j # 1
        <4>1. j - 1 \in 1 .. Len(s) /\ (j - 1) + 1 = j BY <1>1, <3>3
        <4>2. t[j] = u[j] /\ j \in DOMAIN u BY <1>1, <1>2, <4>1
        <4> QED BY <3>1, <4>2
      <3> QED BY <3>2, <3>3
    <2>5. CASE u[i].n \notin X BY <1>2, <1>3, <2>2, <2>5
    <2> QED BY <2>4, <2>5
  <1> QED BY <1>3 DEF Ordered, u

\* The order holds for fewer objects, and when calls doom more.
LEMMA OrderedMono ==
  ASSUME NEW s \in Seq(Frame), NEW X, NEW Y, NEW ct, NEW du, Ordered(s, X, ct),
         Y \subseteq X, \A c \in SetOf(s), o \in Y : Dooms(c, o, ct) => Dooms(c, o, du)
  PROVE  Ordered(s, Y, du)
  <1>1. ASSUME NEW i \in DOMAIN s, s[i].op = "collected", s[i].n \in Y
        PROVE  \E j \in DOMAIN s : j < i /\ Dooms(s[j], s[i].n, du)
    <2>1. PICK j \in DOMAIN s : j < i /\ Dooms(s[j], s[i].n, ct) BY <1>1 DEF Ordered
    <2>2. s[j] \in SetOf(s) BY DEF SetOf
    <2> QED BY <1>1, <2>1, <2>2
  <1> QED BY <1>1 DEF Ordered

-----------------------------------------------------------------------------
\* The sums behind Weight.
Sums(F, s, n) ==
    /\ F \in [0 .. Len(s) -> Nat] /\ F[0] = 0
    /\ \A k \in 1 .. Len(s) : F[k] = F[k - 1] + W(s[Len(s) + 1 - k], n)

\* A call holds a node at most twice.
LEMMA WType ==
  ASSUME NEW c, NEW n
  PROVE  W(c, n) \in 0 .. 2
  BY DEF W

\* Weight is the last of the partial sums its definition builds.
LEMMA WeightSums ==
  ASSUME NEW s \in Seq(Frame), NEW n
  PROVE  \E F : Sums(F, s, n) /\ Weight(s, n) = F[Len(s)]
  <1> DEFINE m == Len(s)
             step(k, r) == r + W(s[m + 1 - k], n)
             S == [k \in Nat |-> [r \in Nat |-> step(k, r)]]
             body(g, k) == IF k = 0 THEN 0 ELSE g[k - 1] + W(s[m + 1 - k], n)
             R(g) == g = [k \in 0 .. m |-> body(g, k)]
  <1>1. m \in Nat OBVIOUS
  <1>2. ASSUME NEW k \in Nat, NEW r \in Nat PROVE step(k, r) \in Nat
    <2>1. W(s[m + 1 - k], n) \in 0 .. 2 BY WType
    <2> QED BY <2>1
  <1>3. S \in [Nat -> [Nat -> Nat]]
    <2> HIDE DEF step
    <2> QED BY <1>2
  <1>4. PICK h : Unfolds(h, Nat, 0, S, m)
    <2> HIDE DEF S, m
    <2> QED BY <1>1, <1>3, Recursion
  <1>5. h \in [0 .. m -> Nat] /\ h[0] = 0 BY <1>4 DEF Unfolds
  <1>6. ASSUME NEW k \in 0 .. m PROVE h[k] = body(h, k)
    <2>1. CASE k = 0 BY <2>1, <1>5
    <2>2. CASE k # 0
      <3>1. k \in 1 .. m /\ k - 1 \in 0 .. m /\ k \in Nat BY <1>1, <2>2
      <3>2. h[k] = S[k][h[k - 1]] /\ h[k - 1] \in Nat BY <1>4, <1>5, <3>1 DEF Unfolds
      <3>3. h[k] = step(k, h[k - 1]) BY <3>1, <3>2
      <3> QED BY <2>2, <3>3
    <2> QED BY <2>1, <2>2
  <1>7. R(h)
    <2>1. h = [k \in 0 .. m |-> h[k]] BY <1>5
    <2> HIDE DEF body, m
    <2> QED BY <2>1, <1>6
  <1> DEFINE G == CHOOSE g : R(g)
  <1>8. R(G) BY <1>7
  <1>9. Weight(s, n) = G[m] BY DEF Weight
  <1>10. ASSUME NEW k \in 0 .. m PROVE G[k] = body(G, k)
    <2> HIDE DEF body, G, m
    <2> QED BY <1>8
  <1> DEFINE P == {k \in Nat : k \in 0 .. m => G[k] = h[k]}
  <1> HIDE DEF G
  <1>11. 0 \in P BY <1>1, <1>5, <1>10
  <1>12. ASSUME NEW k \in P PROVE k + 1 \in P
    <2> SUFFICES ASSUME k + 1 \in 0 .. m PROVE G[k + 1] = h[k + 1]
      OBVIOUS
    <2>1. k \in Nat /\ k \in 0 .. m /\ (k + 1) - 1 = k /\ k + 1 # 0 BY <1>1
    <2>2. G[k] = h[k] BY <2>1
    <2>3. G[k + 1] = body(G, k + 1) /\ h[k + 1] = body(h, k + 1) BY <1>6, <1>10
    <2> QED BY <2>1, <2>2, <2>3
  <1>13. P = Nat
    <2> HIDE DEF P
    <2>1. P \in SUBSET Nat BY DEF P
    <2> QED BY <1>11, <1>12, <2>1, Induct
  <1>14. G[m] = h[m]
    <2>1. m \in P BY <1>1, <1>13
    <2> QED BY <1>1, <2>1
  <1>15. Sums(h, s, n)
    <2>1. ASSUME NEW k \in 1 .. m PROVE h[k] = h[k - 1] + W(s[m + 1 - k], n)
      <3>1. k \in 0 .. m /\ k # 0 BY <1>1
      <3> QED BY <1>6, <3>1
    <2> QED BY <1>5, <2>1 DEF Sums
  <1> QED BY <1>9, <1>14, <1>15

\* Weight is a natural number.
LEMMA WeightType ==
  ASSUME NEW s \in Seq(Frame), NEW n
  PROVE  Weight(s, n) \in Nat
  <1>1. PICK F : Sums(F, s, n) /\ Weight(s, n) = F[Len(s)] BY WeightSums
  <1>2. Len(s) \in 0 .. Len(s) OBVIOUS
  <1> QED BY <1>1, <1>2 DEF Sums

\* Without a call nothing is held.
LEMMA WeightEmpty ==
  ASSUME NEW n
  PROVE  Weight(<<>>, n) = 0
  <1>1. <<>> \in Seq(Frame) /\ Len(<<>>) = 0 OBVIOUS
  <1>2. PICK F : Sums(F, <<>>, n) /\ Weight(<<>>, n) = F[0] BY <1>1, WeightSums
  <1> QED BY <1>2 DEF Sums

\* One more call adds what it holds.
LEMMA WeightPush ==
  ASSUME NEW c \in Frame, NEW s \in Seq(Frame), NEW n
  PROVE  Weight(<<c>> \o s, n) = W(c, n) + Weight(s, n)
  <1> DEFINE t == <<c>> \o s
             m == Len(s)
  <1>1. /\ t[1] = c /\ \A i \in 1 .. m : t[i + 1] = s[i]
        /\ Len(t) = m + 1 /\ m \in Nat /\ t \in Seq(Frame)
    BY PushSeq
  <1>2. PICK F : Sums(F, s, n) /\ Weight(s, n) = F[m] BY WeightSums
  <1> HIDE DEF t
  <1>3. PICK G : Sums(G, t, n) /\ Weight(t, n) = G[m + 1] BY <1>1, WeightSums
  <1> HIDE DEF m
  <1>4. /\ F[0] = 0 /\ G[0] = 0 /\ F \in [0 .. m -> Nat]
        /\ \A k \in 1 .. m : F[k] = F[k - 1] + W(s[m + 1 - k], n)
        /\ \A k \in 1 .. m + 1 : G[k] = G[k - 1] + W(t[(m + 1) + 1 - k], n)
    BY <1>1, <1>2, <1>3 DEF Sums, m
  <1> DEFINE P == {k \in Nat : k \in 0 .. m => G[k] = F[k]}
  <1>5. 0 \in P BY <1>4
  <1>6. ASSUME NEW k \in P PROVE k + 1 \in P
    <2> SUFFICES ASSUME k + 1 \in 0 .. m PROVE G[k + 1] = F[k + 1]
      OBVIOUS
    <2>1. /\ k \in 0 .. m /\ k + 1 \in 1 .. m /\ k + 1 \in 1 .. m + 1 /\ (k + 1) - 1 = k
          /\ (m + 1) + 1 - (k + 1) = (m - k) + 1 /\ m + 1 - (k + 1) = m - k
          /\ m - k \in 1 .. m
      BY <1>1
    <2>2. G[k] = F[k] BY <2>1
    <2>3. t[(m - k) + 1] = s[m - k] BY <1>1, <2>1
    <2>4. G[k + 1] = G[k] + W(t[(m - k) + 1], n) BY <1>4, <2>1
    <2>5. F[k + 1] = F[k] + W(s[m - k], n) BY <1>4, <2>1
    <2> QED BY <2>2, <2>3, <2>4, <2>5
  <1>7. P = Nat
    <2> HIDE DEF P
    <2>1. P \in SUBSET Nat BY DEF P
    <2> QED BY <1>5, <1>6, <2>1, Induct
  <1>8. G[m] = F[m]
    <2>1. m \in P BY <1>1, <1>7
    <2> QED BY <1>1, <2>1
  <1>9. G[m + 1] = G[m] + W(c, n)
    <2>1. m + 1 \in 1 .. m + 1 /\ (m + 1) - 1 = m /\ (m + 1) + 1 - (m + 1) = 1 BY <1>1
    <2>2. G[m + 1] = G[(m + 1) - 1] + W(t[(m + 1) + 1 - (m + 1)], n) BY <1>4, <2>1
    <2> QED BY <1>1, <2>1, <2>2
  <1>10. F[m] \in Nat /\ W(c, n) \in 0 .. 2
    <2>1. m \in 0 .. m BY <1>1
    <2> QED BY <1>4, <2>1, WType
  <1>11. Weight(t, n) = G[m + 1] /\ Weight(s, n) = F[m] BY <1>2, <1>3
  <1>12. Weight(t, n) = W(c, n) + Weight(s, n) BY <1>8, <1>9, <1>10, <1>11
  <1> QED BY <1>12 DEF t

\* What the elements of a sequence make of its sum.
LEMMA WeightBounds ==
  ASSUME NEW s \in Seq(Frame), NEW n
  PROVE  /\ \A c \in SetOf(s) : W(c, n) <= Weight(s, n)
         /\ (\A c \in SetOf(s) : W(c, n) = 0) => Weight(s, n) = 0
  <1> DEFINE m == Len(s)
  <1>1. m \in Nat /\ DOMAIN s = 1 .. m OBVIOUS
  <1>2. PICK F : Sums(F, s, n) /\ Weight(s, n) = F[m] BY WeightSums
  <1> HIDE DEF m
  <1>3. /\ F[0] = 0 /\ F \in [0 .. m -> Nat]
        /\ \A k \in 1 .. m : F[k] = F[k - 1] + W(s[m + 1 - k], n)
    BY <1>2 DEF Sums, m
  <1> DEFINE P == {k \in Nat : k \in 0 .. m =>
                     /\ \A i \in 1 .. m : i + k > m => W(s[i], n) <= F[k]
                     /\ (\A c \in SetOf(s) : W(c, n) = 0) => F[k] = 0}
  <1>4. 0 \in P BY <1>1, <1>3
  <1>5. ASSUME NEW k \in P PROVE k + 1 \in P
    <2> SUFFICES ASSUME k + 1 \in 0 .. m
                 PROVE  /\ \A i \in 1 .. m : i + (k + 1) > m => W(s[i], n) <= F[k + 1]
                        /\ (\A c \in SetOf(s) : W(c, n) = 0) => F[k + 1] = 0
      OBVIOUS
    <2>1. /\ k \in Nat /\ k \in 0 .. m /\ k + 1 \in 1 .. m /\ (k + 1) - 1 = k
          /\ m + 1 - (k + 1) = m - k /\ m - k \in 1 .. m
      BY <1>1
    <2>2. F[k + 1] = F[k] + W(s[m - k], n) BY <1>3, <2>1
    <2>3. F[k] \in Nat /\ W(s[m - k], n) \in 0 .. 2 BY <1>3, <2>1, WType
    <2>4. /\ \A i \in 1 .. m : i + k > m => W(s[i], n) <= F[k]
          /\ (\A c \in SetOf(s) : W(c, n) = 0) => F[k] = 0
      BY <2>1
    <2>5. ASSUME NEW i \in 1 .. m, i + (k + 1) > m PROVE W(s[i], n) <= F[k + 1]
      <3>1. W(s[i], n) \in 0 .. 2 BY WType
      <3>2. CASE i = m - k BY <2>2, <2>3, <3>1, <3>2
      <3>3. CASE i # m - k
        <4>1. i + k > m BY <1>1, <2>1, <2>5, <3>3
        <4> QED BY <2>2, <2>3, <2>4, <3>1, <4>1
      <3> QED BY <3>2, <3>3
    <2>6. ASSUME \A c \in SetOf(s) : W(c, n) = 0 PROVE F[k + 1] = 0
      <3>1. s[m - k] \in SetOf(s) BY <1>1, <2>1 DEF SetOf
      <3>2. W(s[m - k], n) = 0 BY <2>6, <3>1
      <3> QED BY <2>2, <2>4, <2>6, <3>2
    <2> QED BY <2>5, <2>6
  <1>6. P = Nat
    <2> HIDE DEF P
    <2>1. P \in SUBSET Nat BY DEF P
    <2> QED BY <1>4, <1>5, <2>1, Induct
  <1>7. m \in P BY <1>1, <1>6
  <1>8. ASSUME NEW i \in 1 .. m PROVE W(s[i], n) <= F[m]
    BY <1>1, <1>7
  <1>9. (\A c \in SetOf(s) : W(c, n) = 0) => F[m] = 0 BY <1>1, <1>7
  <1> QED BY <1>1, <1>2, <1>8, <1>9 DEF SetOf

-----------------------------------------------------------------------------
\* One element more.
LEMMA CountAdd ==
  ASSUME NEW S, IsFiniteSet(S), NEW x, x \notin S
  PROVE  Cardinality(S \cup {x}) = Cardinality(S) + 1
  BY FS_AddElement

\* One element less.
LEMMA CountRemove ==
  ASSUME NEW S, IsFiniteSet(S), NEW x \in S
  PROVE  Cardinality(S \ {x}) = Cardinality(S) - 1
  BY FS_RemoveElement

-----------------------------------------------------------------------------
\* The calls that may wait for others, and those of the collector that may not.
Lower == {"elements", "properties", "efree", "collected", "destroy"}
Collects == {"mark", "scan", "black", "collect"}

\* What is allocated.
Alive == {n \in Node : type[n] # "free"}
\* An object whose properties a call has taken over.
Moves(c) == IF c.op = "properties" THEN {c.n} ELSE {}
\* Zvals that the collector has listed, to destroy and free.
Lists(c) == IF c.op = "destroy" THEN c.list ELSE {}
\* Zvals a call frees without destroying what they contain.
Drops(c) == IF c.op = "efree" THEN {c.z} ELSE Lists(c)
\* Zvals that the collector is listing.
Gathers(c) == IF c.op = "collect" THEN c.list ELSE {}

\* The same of a set of calls F, and of all calls.
OwnedBy(F) == UNION {Own(c) : c \in F}
MovedBy(F) == UNION {Moves(c) : c \in F}
StaleBy(F) == UNION {Drops(c) : c \in F}
ListedBy(F) == UNION {Lists(c) : c \in F}
GatheredBy(F) == UNION {Gathers(c) : c \in F}

Owned == OwnedBy(Calls)
Moved == MovedBy(Calls)
Stale == StaleBy(Calls)
InLists == ListedBy(Calls)
Gathered == GatheredBy(Calls)
\* The calls that wait.
Below == SetOf(Tail(stack))

\* Objects that only listed handles refer to, and all that are being destroyed or
\* will be.
Doomed == {o \in Obj : /\ type[o] = "store" /\ o \notin Owned
                       /\ \A m \in Node : o \in content[m] => m \in Stale}
Dying == Owned \cup Doomed
\* Zvals that may be released: they live, or the collector has listed them.
RefOK == {z \in Zval : type[z] # "free" /\ (z \notin Dying \/ z \in InLists)}

\* Nodes whose references do not count, since a call has taken them over or they
\* were given up.
Spent == Moved \cup {z \in Stale \cup Gathered : type[z] = "object"}
\* Nodes whose references trial deletion has taken away.
Trial == {n \in Node : color[n] \in {"grey", "white"}}
\* The nodes whose references to n count.
Preds(n) == {m \in Node : n \in content[m] /\ m \notin Spent /\ m \notin Trial}
\* The variables of the script that hold n.
Ext(n) == IF n \in Zval THEN ext[n] ELSE 0

\* The heap.
Types ==
    /\ type \in [Node -> Type] /\ content \in [Node -> SUBSET Node]
    /\ rc \in [Node -> Int] /\ ext \in [Zval -> 0 .. MaxRefs]
    /\ \A z \in Zval : type[z] # "store"
    /\ \A o \in Obj : type[o] \in {"free", "store"}
    /\ \A n \in Node : type[n] \in {"free", "null"} => content[n] = {}
    /\ \A n \in Node : type[n] \in {"array", "store"} => content[n] \subseteq Zval
    /\ \A z \in Zval : type[z] = "object" => \E o \in Obj : content[z] = {o}

\* The buffer of possible roots: the word of a node leads to its slot.
RootTypes ==
    /\ addr \in [Node -> {0} \cup Slot] /\ slots \in [Slot -> Node \cup {None}]
    /\ color \in [Node -> {"black", "grey", "white", "purple"}]
    /\ \A n \in Node : addr[n] # 0 => slots[addr[n]] = n

\* gc_active: only zval_scan_black is called by the collector, by zval_scan.
Shape(s) ==
    s # <<>> =>
        IF Head(s).op = "black"
        THEN /\ Tail(s) # <<>> /\ Head(Tail(s)).op = "scan"
             /\ \A c \in SetOf(Tail(Tail(s))) : c.op \in Lower
        ELSE \A c \in SetOf(Tail(s)) : c.op \in Lower

\* The calls in progress, each with what those it was called by may not destroy.
StackInv == stack \in Seq(Frame) /\ Shape(stack) /\ PairsOf(stack)

\* Who refers to what a call has listed.
ListHeld(c) ==
    \A z \in c.list, m \in Node : z \in content[m] =>
        \/ m \in c.list \/ m \in Moved
        \/ m \in Doomed /\ Dooms(c, m, content)

\* What each call may be working on.
FrameOK(c) ==
    /\ c.op = "dtor" => c.z \in RefOK /\ c.n = c.z
    /\ c.op = "elements" =>
          c.rest \subseteq RefOK /\ (c.z # None => type[c.z] = "null")
    /\ c.op = "properties" =>
          /\ c.rest \subseteq RefOK /\ c.n \in Obj /\ type[c.n] = "store"
          /\ c.z # None => type[c.z] = "object" /\ content[c.z] = {c.n}
    /\ c.op = "efree" => c.z \in Zval /\ type[c.z] = "object"
    /\ c.op = "root" =>
          /\ c.z \in Zval
          /\ (c.n = c.z /\ c.n \in RefOK) \/ (c.n \in Obj \cap Alive /\ c.n \notin Dying)
    /\ c.op = "collected" => c.z \in Zval /\ c.n \in Node
    /\ c.op = "destroy" =>
          /\ c.rest \subseteq c.list /\ c.list \subseteq Zval \cap Alive
          /\ \A z \in c.list \ c.rest : type[z] # "array"
          /\ ListHeld(c)

\* All of them are.
Frames == \A c \in Calls : FrameOK(c)

\* What is doomed will be destroyed, and by a call that comes back first.
DoomInv ==
    /\ \A o \in Doomed : \E c \in Calls : Dooms(c, o, content)
    /\ Ordered(stack, Doomed, content)

\* Nothing that lives refers to what is dying.
Closed ==
    /\ \A m \in Node \ Dying : content[m] \subseteq Alive \ Dying
    /\ \A m \in Doomed \cup InLists : content[m] \cap Zval \subseteq RefOK
    /\ \A z \in Zval : type[z] = "null" => z \in Owned
    /\ \A z \in Zval : ext[z] > 0 => z \in Alive \ Owned
    /\ Owned \subseteq Alive

\* The count of a node: variables, nodes and calls that hold it.
Exact ==
    \A n \in Alive : rc[n] = Ext(n) + Cardinality(Preds(n)) + Weight(stack, n)

\* Nodes of a colour, and roots in slots.
Painted(c) == {n \in Node : color[n] = c}
InSlots(S) == {slots[s] : s \in S}

\* No trial is going on, and a purple root of the buffer lives.
Quiet ==
    /\ Trial = {}
    /\ \A s \in Roots : color[slots[s]] = "purple"
                        => addr[slots[s]] # 0 /\ slots[s] \notin Dying

\* All of D is reached from base through the nodes of C.
Reaches(base, C, D) ==
    \A X \in SUBSET Node : base \subseteq X /\ (\A m \in X \cap C : content[m] \subseteq X)
                           => D \subseteq X
\* C is reached within itself.
Covers(base, C) == Reaches(base, C, C)

\* What the collector may visit.
Sound(ns) == \A n \in ns : n \in Node \ Dying /\ (n \in Zval => n \in Alive)

\* Marking: the grey are closed, but for what c has still to visit, and are reached
\* from the roots done with.
MarkInv(c) ==
    /\ c.list \subseteq Roots /\ Painted("white") = {}
    /\ Sound(c.rest) /\ Sound(Painted("grey")) /\ c.rest \cap Painted("grey") = {}
    /\ \A s \in c.list : color[slots[s]] = "purple" => slots[s] \notin Dying
    /\ \A s \in Roots \ c.list : slots[s] \notin Dying
    /\ \A m \in Painted("grey") : content[m] \subseteq Painted("grey") \cup c.rest
    /\ Reaches(InSlots(Roots \ c.list), Painted("grey"), Painted("grey") \cup c.rest)

\* c scans; rest is what scan_black, called by it, has still to visit.
ScanInv(c, rest) ==
    /\ c.list \subseteq Roots /\ Sound(c.rest) /\ Sound(Trial) /\ rest \subseteq Trial
    /\ \A s \in Roots : slots[s] \notin Dying
    /\ \A m \in Trial : content[m] \subseteq Trial \cup Painted("black")
    /\ Covers(InSlots(Roots) \cup rest, Trial)
    /\ Covers(InSlots(c.list) \cup c.rest \cup rest, Painted("grey"))
    /\ \A n \in Painted("white") : rc[n] <= 0 \/ n \in rest

\* The zvals that a collection has found to be garbage.
Garbage(c) == c.list \cup (Painted("white") \cap Zval)

\* Collecting: garbage is held only by garbage, by what is dying with it, and by the
\* list.
CollectInv(c) ==
    /\ c.list \subseteq Zval \ Painted("white") /\ Painted("grey") = {}
    /\ Sound(c.rest) /\ Sound(Painted("white"))
    /\ \A s \in Roots : slots[s] \notin Dying
    /\ \A z \in Garbage(c) : /\ z \in Alive \ Dying /\ ext[z] = 0
                             /\ Weight(Tail(stack), z) = 0
    /\ \A z \in Garbage(c), m \in Node : z \in content[m] =>
          \/ m \in Garbage(c) \/ m \in Moved
          \/ /\ m \in Obj \ Dying
             /\ \A h \in Node : m \in content[h] => h \in Garbage(c) \cup Stale
    /\ Covers(InSlots(Roots) \cup c.rest, Painted("white"))

\* The phase of the collection at work.
Phase ==
    IF stack = <<>> THEN Quiet
    ELSE IF Top.op = "mark" THEN MarkInv(Top)
    ELSE IF Top.op = "scan" THEN ScanInv(Top, {})
    ELSE IF Top.op = "black" THEN ScanInv(Head(Return), Top.rest)
    ELSE IF Top.op = "collect" THEN CollectInv(Top)
    ELSE Quiet

\* What holds in every state of the heap and of the calls.
Base == Types /\ RootTypes /\ StackInv /\ Frames /\ DoomInv /\ Closed /\ forgotten \subseteq Node

\* The inductive invariant.
GcInv == Base /\ Exact /\ Phase

-----------------------------------------------------------------------------
\* t is s with the call c on top: what c owns, drops, keeps, and the rest.
Pushed(t, c, s) ==
    /\ c \in Frame /\ s \in Seq(Frame) /\ t \in Seq(Frame) /\ t = <<c>> \o s
    /\ t # <<>> /\ Head(t) = c /\ Tail(t) = s /\ SetOf(t) = {c} \cup SetOf(s)
    /\ OwnedBy(SetOf(t)) = Own(c) \cup OwnedBy(SetOf(s))
    /\ MovedBy(SetOf(t)) = Moves(c) \cup MovedBy(SetOf(s))
    /\ StaleBy(SetOf(t)) = Drops(c) \cup StaleBy(SetOf(s))
    /\ ListedBy(SetOf(t)) = Lists(c) \cup ListedBy(SetOf(s))
    /\ GatheredBy(SetOf(t)) = Gathers(c) \cup GatheredBy(SetOf(s))
    /\ \A n : Weight(t, n) = W(c, n) + Weight(s, n)
    /\ \A n : Weight(s, n) \in Nat
    /\ PairsOf(t) <=> PairsOf(s) /\ \A d \in SetOf(s) : PairOK(c, d)

\* What the stack with c on top amounts to.
LEMMA PushIs ==
  ASSUME NEW c \in Frame, NEW s \in Seq(Frame)
  PROVE  Pushed(<<c>> \o s, c, s)
  <1> DEFINE t == <<c>> \o s
  <1>1. t \in Seq(Frame) /\ t # <<>> /\ Head(t) = c /\ Tail(t) = s BY PushSeq
  <1>2. SetOf(t) = {c} \cup SetOf(s) BY PushSet
  <1>3. \A n : Weight(t, n) = W(c, n) + Weight(s, n) BY WeightPush
  <1>4. \A n : Weight(s, n) \in Nat BY WeightType
  <1>5. PairsOf(t) <=> PairsOf(s) /\ \A d \in SetOf(s) : PairOK(c, d) BY PairsPush
  <1> HIDE DEF t
  <1>6. OwnedBy(SetOf(t)) = Own(c) \cup OwnedBy(SetOf(s)) BY <1>2 DEF OwnedBy
  <1>7. MovedBy(SetOf(t)) = Moves(c) \cup MovedBy(SetOf(s)) BY <1>2 DEF MovedBy
  <1>8. StaleBy(SetOf(t)) = Drops(c) \cup StaleBy(SetOf(s)) BY <1>2 DEF StaleBy
  <1>9. ListedBy(SetOf(t)) = Lists(c) \cup ListedBy(SetOf(s)) BY <1>2 DEF ListedBy
  <1>10. GatheredBy(SetOf(t)) = Gathers(c) \cup GatheredBy(SetOf(s)) BY <1>2 DEF GatheredBy
  <1>11. t = <<c>> \o s BY DEF t
  <1> QED BY <1>1, <1>2, <1>3, <1>4, <1>5, <1>6, <1>7, <1>8, <1>9, <1>10, <1>11 DEF Pushed

\* Calls is the set of the calls of the stack.
LEMMA CallsSet ==
  Calls = SetOf(stack) /\ Calls' = SetOf(stack')
  BY DEF Calls, SetOf

\* The call at work and those that wait.
LEMMA Split ==
  ASSUME stack \in Seq(Frame), stack # <<>>
  PROVE  Pushed(stack, Top, Return) /\ Below = SetOf(Return)
  <1>1. Top \in Frame /\ Return \in Seq(Frame) /\ stack = <<Top>> \o Return
    BY SeqSplit DEF Top, Return
  <1> QED BY <1>1, PushIs DEF Below, Return

\* Without a call nothing is owned.
LEMMA EmptySets ==
  ASSUME NEW s, s = <<>>
  PROVE  /\ SetOf(s) = {} /\ OwnedBy(SetOf(s)) = {} /\ MovedBy(SetOf(s)) = {}
         /\ StaleBy(SetOf(s)) = {} /\ ListedBy(SetOf(s)) = {} /\ GatheredBy(SetOf(s)) = {}
  <1>1. SetOf(s) = {} BY DEF SetOf
  <1> QED BY <1>1 DEF OwnedBy, MovedBy, StaleBy, ListedBy, GatheredBy

\* What each kind of call owns.
LEMMA Owns ==
  ASSUME NEW c \in Frame, FrameOK(c)
  PROVE  /\ Own(c) \subseteq Node /\ Moves(c) \subseteq Own(c) \cap Obj
         /\ Drops(c) \subseteq Own(c) \cap Zval /\ Lists(c) \subseteq Drops(c)
  BY DEF Moves, Own, Lists, Drops, Frame, FrameOK, Node

\* Objects are moved, zvals are stale, and all of them are owned.
LEMMA SetParts ==
  ASSUME stack \in Seq(Frame), Frames
  PROVE  /\ Owned \subseteq Node /\ Moved \subseteq Owned \cap Obj
         /\ Stale \subseteq Owned \cap Zval /\ InLists \subseteq Stale
  <1>1. \A c \in Calls : c \in Frame /\ FrameOK(c) BY DEF Calls, Frames
  <1>2. \A c \in Calls : /\ Own(c) \subseteq Node /\ Moves(c) \subseteq Own(c) \cap Obj
                         /\ Drops(c) \subseteq Own(c) \cap Zval /\ Lists(c) \subseteq Drops(c)
    BY <1>1, Owns
  <1>3. Owned \subseteq Node BY <1>2 DEF Owned, OwnedBy
  <1>4. Moved \subseteq Owned \cap Obj BY <1>2 DEF Owned, OwnedBy, Moved, MovedBy
  <1>5. Stale \subseteq Owned \cap Zval BY <1>2 DEF Owned, OwnedBy, Stale, StaleBy
  <1>6. InLists \subseteq Stale BY <1>2 DEF InLists, ListedBy, Stale, StaleBy
  <1> QED BY <1>3, <1>4, <1>5, <1>6

\* A call's part of what a set of calls owns.
LEMMA PartsOf ==
  ASSUME NEW c, NEW F, c \in F
  PROVE  /\ Own(c) \subseteq OwnedBy(F) /\ Moves(c) \subseteq MovedBy(F)
         /\ Drops(c) \subseteq StaleBy(F) /\ Lists(c) \subseteq ListedBy(F)
         /\ Gathers(c) \subseteq GatheredBy(F)
  BY DEF OwnedBy, MovedBy, StaleBy, ListedBy, GatheredBy

\* No node has two owners.
LEMMA Apart ==
  ASSUME NEW s \in Seq(Frame), PairsOf(s), NEW c \in SetOf(s), NEW d \in SetOf(s), c # d
  PROVE  Own(c) \cap Own(d) = {}
  <1>1. PICK i \in DOMAIN s : c = s[i] BY DEF SetOf
  <1>2. PICK j \in DOMAIN s : d = s[j] BY DEF SetOf
  <1>3. i \in Int /\ j \in Int /\ i # j BY <1>1, <1>2
  <1>4. CASE i < j BY <1>1, <1>2, <1>4 DEF PairsOf, PairOK
  <1>5. CASE j < i BY <1>1, <1>2, <1>5 DEF PairsOf, PairOK
  <1> QED BY <1>3, <1>4, <1>5

\* The collector calls nothing while it marks, scans and collects.
LEMMA Waiting ==
  ASSUME StackInv, stack # <<>>
  PROVE  /\ \A d \in SetOf(Return) : d.op \in Lower \/ (Top.op = "black" /\ d.op = "scan")
         /\ Top.op # "black" => \A d \in SetOf(Return) : d.op \in Lower
         /\ GatheredBy(SetOf(Return)) = {}
         /\ Top.op # "collect" => Gathered = {}
  <1>0. Pushed(stack, Top, Return) BY Split DEF StackInv
  <1>1. Top.op # "black" => \A d \in SetOf(Return) : d.op \in Lower
    BY DEF StackInv, Shape, Top, Return
  <1>2. ASSUME Top.op = "black"
        PROVE  \A d \in SetOf(Return) : d.op \in Lower \/ d.op = "scan"
    <2>1. /\ Return # <<>> /\ Head(Return).op = "scan"
          /\ \A c \in SetOf(Tail(Return)) : c.op \in Lower
      BY <1>2 DEF StackInv, Shape, Top, Return
    <2>2. Return \in Seq(Frame) BY <1>0 DEF Pushed
    <2>3. Head(Return) \in Frame /\ Tail(Return) \in Seq(Frame)
          /\ Return = <<Head(Return)>> \o Tail(Return)
      BY <2>1, <2>2, SeqSplit
    <2>4. SetOf(Return) = {Head(Return)} \cup SetOf(Tail(Return)) BY <2>3, PushSet
    <2> QED BY <2>1, <2>4
  <1>3. \A d \in SetOf(Return) : d.op \in Lower \/ (Top.op = "black" /\ d.op = "scan")
    BY <1>1, <1>2
  <1>4. GatheredBy(SetOf(Return)) = {} BY <1>3 DEF GatheredBy, Gathers, Lower
  <1>5. Top.op # "collect" => Gathered = {}
    BY <1>0, <1>4, CallsSet DEF Pushed, Gathered, Gathers
  <1> QED BY <1>1, <1>3, <1>4, <1>5

\* The sets of the calls, split into those of the top and those of the rest.
LEMMA SplitSets ==
  ASSUME StackInv, stack # <<>>
  PROVE  /\ Owned = Own(Top) \cup OwnedBy(SetOf(Return))
         /\ Moved = Moves(Top) \cup MovedBy(SetOf(Return))
         /\ Stale = Drops(Top) \cup StaleBy(SetOf(Return))
         /\ InLists = Lists(Top) \cup ListedBy(SetOf(Return))
         /\ Gathered = Gathers(Top)
         /\ Own(Top) \cap OwnedBy(SetOf(Return)) = {}
         /\ Calls = {Top} \cup SetOf(Return)
         /\ \A d \in SetOf(Return) : d \in Frame /\ PairOK(Top, d)
  <1>0. Pushed(stack, Top, Return) BY Split DEF StackInv
  <1>1. \A d \in SetOf(Return) : PairOK(Top, d) BY <1>0 DEF Pushed, StackInv
  <1>2. Own(Top) \cap OwnedBy(SetOf(Return)) = {} BY <1>1 DEF OwnedBy, PairOK
  <1>3. \A d \in SetOf(Return) : d \in Frame BY <1>0 DEF Pushed, SetOf
  <1>4. Gathered = Gathers(Top) BY <1>0, CallsSet, Waiting DEF Pushed, Gathered
  <1> QED BY <1>0, <1>1, <1>2, <1>3, <1>4, CallsSet DEF Pushed, Owned, Moved, Stale, InLists
-----------------------------------------------------------------------------
\* c owns, drops and lists what d does.
Same(c, d) ==
    Own(c) = Own(d) /\ Moves(c) = Moves(d) /\ Drops(c) = Drops(d) /\ Lists(c) = Lists(d)

\* A call that owns nothing.
Bare(c) == Own(c) = {} /\ Moves(c) = {} /\ Drops(c) = {} /\ Lists(c) = {}

\* The calls change, but what they own does not.
SameOwners ==
    /\ StackInv' /\ Owned' = Owned /\ Moved' = Moved /\ Stale' = Stale /\ InLists' = InLists
    /\ Ordered(stack', Doomed, content)
    /\ \A c \in Calls, o \in Doomed : Dooms(c, o, content)
           => \E d \in Calls' : Dooms(d, o, content)

\* A call that owns nothing returns.
LEMMA StepReturn ==
  ASSUME Base, stack # <<>>, stack' = Return, Bare(Top), Top.op # "destroy"
  PROVE  SameOwners /\ Calls' \subseteq Calls /\ Gathered' = {}
  <1>1. Pushed(stack, Top, Return) BY Split DEF Base, StackInv
  <1>2. StackInv BY DEF Base
  <1>3. /\ Owned = Own(Top) \cup OwnedBy(SetOf(Return))
        /\ Moved = Moves(Top) \cup MovedBy(SetOf(Return))
        /\ Stale = Drops(Top) \cup StaleBy(SetOf(Return))
        /\ InLists = Lists(Top) \cup ListedBy(SetOf(Return))
        /\ Calls = {Top} \cup SetOf(Return)
    BY <1>2, SplitSets
  <1>4. Calls' = SetOf(Return) BY CallsSet
  <1>5. Owned' = Owned /\ Moved' = Moved /\ Stale' = Stale /\ InLists' = InLists
    BY <1>3, <1>4 DEF Bare, Owned, Moved, Stale, InLists
  <1>6. Shape(Return)
    <2>1. CASE Top.op = "black"
      <3>1. /\ Return # <<>> /\ Head(Return).op = "scan"
            /\ \A c \in SetOf(Tail(Return)) : c.op \in Lower
        BY <2>1, <1>2 DEF StackInv, Shape, Top, Return
      <3> QED BY <3>1 DEF Shape
    <2>2. CASE Top.op # "black"
      <3>1. \A d \in SetOf(Return) : d.op \in Lower BY <2>2, <1>2, Waiting
      <3>2. CASE Return # <<>>
        <4>1. Return \in Seq(Frame) BY <1>1 DEF Pushed
        <4>2. Head(Return) \in Frame /\ Tail(Return) \in Seq(Frame)
              /\ Return = <<Head(Return)>> \o Tail(Return)
          BY <3>2, <4>1, SeqSplit
        <4>3. SetOf(Return) = {Head(Return)} \cup SetOf(Tail(Return)) BY <4>2, PushSet
        <4> QED BY <3>1, <4>3 DEF Shape, Lower
      <3> QED BY <3>2 DEF Shape
    <2> QED BY <2>1, <2>2
  <1>7. StackInv' BY <1>1, <1>2, <1>6 DEF Pushed, StackInv
  <1>8. \A o \in Doomed : ~Dooms(Top, o, content) BY DEF Dooms
  <1>9. Ordered(Return, Doomed, content)
    BY <1>1, <1>8, OrderedPop DEF Pushed, Base, DoomInv
  <1>10. GatheredBy(SetOf(Return)) = {} BY <1>2, Waiting
  <1> QED BY <1>3, <1>4, <1>5, <1>7, <1>9, <1>10 DEF SameOwners, Dooms, Gathered

\* A call goes on as c, which owns the same.
LEMMA StepGoto ==
  ASSUME Base, stack # <<>>, NEW c \in Frame, stack' = Goto(c), Same(c, Top),
         Top.op # "destroy", c.op \notin {"destroy", "collected"},
         c.op = "black" <=> Top.op = "black"
  PROVE  /\ SameOwners /\ Calls' = {c} \cup SetOf(Return) /\ Gathered' = Gathers(c)
         /\ Pushed(stack', c, Return)
  <1>1. Pushed(stack, Top, Return) BY Split DEF Base, StackInv
  <1>2. StackInv BY DEF Base
  <1>3. /\ Owned = Own(Top) \cup OwnedBy(SetOf(Return))
        /\ Moved = Moves(Top) \cup MovedBy(SetOf(Return))
        /\ Stale = Drops(Top) \cup StaleBy(SetOf(Return))
        /\ InLists = Lists(Top) \cup ListedBy(SetOf(Return))
        /\ Calls = {Top} \cup SetOf(Return)
        /\ \A d \in SetOf(Return) : PairOK(Top, d)
    BY <1>2, SplitSets
  <1>4. Pushed(stack', c, Return) BY <1>1, PushIs DEF Pushed, Goto
  <1>5. Calls' = {c} \cup SetOf(Return) BY <1>4, CallsSet DEF Pushed
  <1>6. Owned' = Owned /\ Moved' = Moved /\ Stale' = Stale /\ InLists' = InLists
    BY <1>3, <1>4, CallsSet DEF Same, Owned, Moved, Stale, InLists, Pushed
  <1>7. Shape(stack') BY <1>1, <1>2, <1>4 DEF Pushed, StackInv, Shape
  <1>8. \A d \in SetOf(Return) : PairOK(c, d) BY <1>3 DEF PairOK, Same
  <1>9. StackInv' BY <1>1, <1>2, <1>4, <1>7, <1>8 DEF Pushed, StackInv
  <1>10. \A o \in Doomed : ~Dooms(Top, o, content) BY DEF Dooms
  <1>11. Ordered(Return, Doomed, content)
    BY <1>1, <1>10, OrderedPop DEF Pushed, Base, DoomInv
  <1>12. Ordered(stack', Doomed, content) BY <1>4, <1>11, OrderedPush DEF Pushed
  <1>13. GatheredBy(SetOf(Return)) = {} BY <1>2, Waiting
  <1>14. Gathered' = Gathers(c) BY <1>4, <1>13, CallsSet DEF Gathered, Pushed
  <1> QED BY <1>3, <1>4, <1>5, <1>6, <1>9, <1>12, <1>14 DEF SameOwners, Dooms

\* A call makes another one, a, and goes on as b after it.
LEMMA StepCall ==
  ASSUME Base, stack # <<>>, NEW a \in Frame, NEW b \in Frame,
         stack' = <<a>> \o (<<b>> \o Return), Bare(a), Same(b, Top),
         Top.op \notin {"destroy", "black"}, a.op \notin {"destroy", "collected"},
         b.op # "destroy", b.op = "collected" => b.n \notin Dying,
         (a.op # "black" /\ b.op \in Lower) \/ (a.op = "black" /\ b.op = "scan"),
         Gathers(a) = {}
  PROVE  /\ SameOwners /\ Calls' = {a, b} \cup SetOf(Return) /\ Gathered' = {}
         /\ Pushed(stack', a, <<b>> \o Return) /\ Pushed(<<b>> \o Return, b, Return)
  <1>1. Pushed(stack, Top, Return) BY Split DEF Base, StackInv
  <1>2. StackInv BY DEF Base
  <1>3. /\ Owned = Own(Top) \cup OwnedBy(SetOf(Return))
        /\ Moved = Moves(Top) \cup MovedBy(SetOf(Return))
        /\ Stale = Drops(Top) \cup StaleBy(SetOf(Return))
        /\ InLists = Lists(Top) \cup ListedBy(SetOf(Return))
        /\ Calls = {Top} \cup SetOf(Return)
        /\ \A d \in SetOf(Return) : PairOK(Top, d)
    BY <1>2, SplitSets
  <1> DEFINE t == <<b>> \o Return
  <1>4. Pushed(t, b, Return) BY <1>1, PushIs DEF Pushed
  <1>5. Pushed(stack', a, t) BY <1>4, PushIs DEF Pushed
  <1> HIDE DEF t
  <1>6. Calls' = {a, b} \cup SetOf(Return) BY <1>4, <1>5, CallsSet DEF Pushed
  <1>7. Owned' = Owned /\ Moved' = Moved /\ Stale' = Stale /\ InLists' = InLists
    BY <1>3, <1>4, <1>5, CallsSet DEF Same, Bare, Owned, Moved, Stale, InLists, Pushed
  <1>8. \A d \in SetOf(Return) : d.op \in Lower BY <1>2, Waiting
  <1>9. Shape(stack') BY <1>4, <1>5, <1>8 DEF Pushed, Shape
  <1>10. \A d \in SetOf(Return) : Own(d) \subseteq Owned
    BY <1>3, PartsOf
  <1>11. \A d \in SetOf(Return) : PairOK(b, d) BY <1>3, <1>10 DEF PairOK, Same, Dying
  <1>12. \A d \in SetOf(t) : PairOK(a, d) BY DEF PairOK, Bare
  <1>13. StackInv' BY <1>1, <1>2, <1>4, <1>5, <1>9, <1>11, <1>12 DEF Pushed, StackInv
  <1>14. \A o \in Doomed : ~Dooms(Top, o, content) BY DEF Dooms
  <1>15. Ordered(Return, Doomed, content)
    BY <1>1, <1>14, OrderedPop DEF Pushed, Base, DoomInv
  <1>16. Ordered(t, Doomed, content) BY <1>4, <1>15, OrderedPush DEF Pushed, Dying
  <1>17. Ordered(stack', Doomed, content)
    <2>1. stack' = <<a>> \o t /\ t \in Seq(Frame) BY <1>5 DEF Pushed
    <2>2. Ordered(<<a>> \o t, Doomed, content) BY <1>16, <2>1, OrderedPush
    <2> QED BY <2>1, <2>2
  <1>18. GatheredBy(SetOf(Return)) = {} BY <1>2, Waiting
  <1>19. Gathered' = {} BY <1>4, <1>5, <1>18, CallsSet DEF Gathered, Pushed, Gathers, Lower
  <1>20. t = <<b>> \o Return BY DEF t
  <1> QED BY <1>3, <1>4, <1>5, <1>6, <1>7, <1>13, <1>17, <1>19, <1>20 DEF SameOwners, Dooms

\* Where neither the heap nor its owners change, nothing does but the calls.
LEMMA Still ==
  ASSUME Base, UNCHANGED <<type, content, ext>>, rc' \in [Node -> Int], RootTypes',
         forgotten' \subseteq Node, SameOwners, \A c \in Calls' : c \in Calls \/ FrameOK(c)
  PROVE  /\ Base' /\ Doomed' = Doomed /\ Dying' = Dying /\ RefOK' = RefOK
         /\ Alive' = Alive
  <1>1. Owned' = Owned /\ Moved' = Moved /\ Stale' = Stale /\ InLists' = InLists
    BY DEF SameOwners
  <1>2. Doomed' = Doomed BY <1>1 DEF Doomed
  <1>3. Dying' = Dying BY <1>1, <1>2 DEF Dying
  <1>4. RefOK' = RefOK BY <1>1, <1>3 DEF RefOK
  <1>5. Alive' = Alive BY DEF Alive
  <1>6. ASSUME NEW c, FrameOK(c) PROVE FrameOK(c)'
    BY <1>1, <1>2, <1>3, <1>4, <1>5, <1>6 DEF FrameOK, ListHeld, Dooms
  <1>7. Frames'
    <2>1. \A c \in Calls' : FrameOK(c) BY DEF Base, Frames
    <2> QED BY <2>1, <1>6 DEF Frames
  <1>8. DoomInv'
    <2>1. \A o \in Doomed : \E c \in Calls : Dooms(c, o, content) BY DEF Base, DoomInv
    <2>2. \A o \in Doomed : \E c \in Calls' : Dooms(c, o, content)
      BY <2>1 DEF SameOwners
    <2> QED BY <1>2, <2>2 DEF SameOwners, DoomInv
  <1>9. Closed' BY <1>1, <1>2, <1>3, <1>4, <1>5 DEF Base, Closed
  <1>10. Types' BY DEF Base, Types
  <1>11. StackInv' BY DEF SameOwners
  <1>12. Base' BY <1>7, <1>8, <1>9, <1>10, <1>11 DEF Base
  <1> QED BY <1>2, <1>3, <1>4, <1>5, <1>12
-----------------------------------------------------------------------------
\* An invariant state in which the engine is at work, and what no call changes.
Working ==
    GcInv /\ stack # <<>> /\ RootsLive /\ UNCHANGED ext /\ forgotten' \subseteq Node

\* There are finitely many nodes.
LEMMA NodeFinite ==
  IsFiniteSet(Node)
  BY GcAssumption, FS_Union DEF Node

\* A node is referred to by finitely many.
LEMMA PredsCount ==
  ASSUME NEW n
  PROVE  /\ IsFiniteSet(Preds(n)) /\ Cardinality(Preds(n)) \in Nat
         /\ IsFiniteSet(Preds(n)') /\ Cardinality(Preds(n)') \in Nat
  <1>1. Preds(n) \subseteq Node /\ Preds(n)' \subseteq Node BY DEF Preds
  <1> QED BY <1>1, NodeFinite, FS_Subset, FS_CardinalityType

\* The script's variables are counted by a natural number.
LEMMA ExtType ==
  ASSUME Types, NEW n
  PROVE  Ext(n) \in Nat
  <1>1. \A z \in Zval : ext[z] \in 0 .. MaxRefs BY DEF Types
  <1>2. 0 .. MaxRefs \subseteq Nat BY GcAssumption
  <1> QED BY <1>1, <1>2 DEF Ext

\* The summands of Exact are numbers.
LEMMA Numbers ==
  ASSUME Base, NEW n \in Node
  PROVE  /\ rc[n] \in Int /\ Ext(n) \in Nat /\ Cardinality(Preds(n)) \in Nat
         /\ Weight(stack, n) \in Nat
  <1>1. rc[n] \in Int BY DEF Base, Types
  <1>2. Ext(n) \in Nat BY ExtType DEF Base
  <1>3. Cardinality(Preds(n)) \in Nat BY PredsCount
  <1>4. Weight(stack, n) \in Nat BY WeightType DEF Base, StackInv
  <1> QED BY <1>1, <1>2, <1>3, <1>4

\* A count goes with the calls that hold the node.
LEMMA StillExact ==
  ASSUME Base, Base', Exact, UNCHANGED <<type, content, ext>>, Moved' = Moved,
         {z \in Stale' \cup Gathered' : type[z] = "object"}
            = {z \in Stale \cup Gathered : type[z] = "object"},
         Trial' = Trial,
         \A n \in Alive : rc'[n] - rc[n] = Weight(stack', n) - Weight(stack, n)
  PROVE  Exact'
  <1>1. Spent' = Spent BY DEF Spent
  <1>2. ASSUME NEW n PROVE Preds(n)' = Preds(n) BY <1>1 DEF Preds
  <1>3. Alive' = Alive /\ Alive \subseteq Node BY DEF Alive
  <1>4. ASSUME NEW n \in Alive
        PROVE  rc'[n] = Ext(n)' + Cardinality(Preds(n)') + Weight(stack', n)
    <2>1. rc[n] = Ext(n) + Cardinality(Preds(n)) + Weight(stack, n) BY DEF Exact
    <2>2. rc'[n] - rc[n] = Weight(stack', n) - Weight(stack, n) OBVIOUS
    <2>3. Ext(n)' = Ext(n) BY DEF Ext
    <2>4. Cardinality(Preds(n)') = Cardinality(Preds(n)) BY <1>2
    <2>5. /\ rc[n] \in Int /\ Ext(n) \in Nat /\ Cardinality(Preds(n)) \in Nat
          /\ Weight(stack, n) \in Nat
      BY <1>3, Numbers
    <2>6. rc'[n] \in Int BY <1>3 DEF Base, Types
    <2>7. Weight(stack', n) \in Nat BY WeightType DEF Base, StackInv
    <2> QED BY <2>1, <2>2, <2>3, <2>4, <2>5, <2>6, <2>7
  <1> QED BY <1>3, <1>4 DEF Exact

\* Unless the collector marks, scans or collects, no count is taken away.
LEMMA PhaseQuiet ==
  /\ Phase /\ (stack # <<>> => Top.op \notin Collects) => Quiet
  /\ Quiet /\ (stack # <<>> => Top.op \notin Collects) => Phase
  BY DEF Phase, Collects

\* The same of the state after a step.
LEMMA PhaseQuietNext ==
  Quiet' /\ (stack' # <<>> => Top'.op \notin Collects) => Phase'
  BY DEF Phase, Collects

\* After a return the caller is at work, and it is not the collector.
LEMMA BackQuiet ==
  ASSUME Base, stack # <<>>, Top.op # "black", stack' = Return, Quiet'
  PROVE  Phase'
  <1>1. Pushed(stack, Top, Return) /\ \A d \in SetOf(Return) : d.op \in Lower
    BY Split, Waiting DEF Base, StackInv
  <1>2. ASSUME Return # <<>> PROVE Head(Return).op \in Lower
    <2>1. Return \in Seq(Frame) BY <1>1 DEF Pushed
    <2>2. Head(Return) \in Frame /\ Tail(Return) \in Seq(Frame)
          /\ Return = <<Head(Return)>> \o Tail(Return)
      BY <1>2, <2>1, SeqSplit
    <2>3. Head(Return) \in SetOf(Return) BY <2>2, PushSet
    <2> QED BY <1>1, <2>3
  <1>3. stack' # <<>> => Top'.op \notin Collects BY <1>2 DEF Top, Lower, Collects
  <1> QED BY <1>3, PhaseQuietNext

\* The buffer keeps its roots when nothing more is dying.
LEMMA QuietStill ==
  ASSUME Quiet, UNCHANGED gcVars, Dying' \subseteq Dying
  PROVE  Quiet'
  BY DEF Quiet, Trial, Roots, gcVars

\* The buffer keeps its types when it is not touched.
LEMMA RootTypesStill ==
  ASSUME RootTypes, UNCHANGED gcVars
  PROVE  RootTypes'
  BY DEF RootTypes, gcVars

\* A call made of the right parts is a call.
LEMMA CallFrame ==
  ASSUME NEW op \in Op, NEW z \in Zval \cup {None}, NEW n \in Node \cup {None},
         NEW rest \in SUBSET Node, NEW list \in SUBSET (Zval \cup Slot)
  PROVE  Call(op, z, n, rest, list) \in Frame
  BY DEF Call, Frame

\* Two calls are pushed one after the other.
LEMMA TwoCalls ==
  ASSUME NEW a \in Frame, NEW b \in Frame, NEW s \in Seq(Frame)
  PROVE  <<a, b>> \o s = <<a>> \o (<<b>> \o s)
  <1> DEFINE t == <<b>> \o s
             u == <<a>> \o t
             v == <<a, b>> \o s
  <1>1. t \in Seq(Frame) /\ t[1] = b /\ Len(t) = Len(s) + 1 /\ Len(s) \in Nat
        /\ \A i \in 1 .. Len(s) : t[i + 1] = s[i]
    BY PushSeq
  <1>2. u \in Seq(Frame) /\ u[1] = a /\ Len(u) = Len(t) + 1
        /\ \A i \in 1 .. Len(t) : u[i + 1] = t[i]
    BY <1>1, PushSeq
  <1>3. v \in Seq(Frame) /\ Len(v) = Len(s) + 2 /\ v[1] = a /\ v[2] = b
        /\ \A i \in 1 .. Len(s) : v[i + 2] = s[i]
    OBVIOUS
  <1> HIDE DEF t, u, v
  <1>4. \A i \in 1 .. Len(s) + 2 : u[i] = v[i]
    <2> SUFFICES ASSUME NEW i \in 1 .. Len(s) + 2 PROVE u[i] = v[i] OBVIOUS
    <2>1. CASE i = 1 BY <1>2, <1>3, <2>1
    <2>2. CASE i = 2
      <3>1. 1 \in 1 .. Len(t) /\ 1 + 1 = 2 BY <1>1
      <3>2. u[2] = t[1] BY <1>2, <3>1
      <3> QED BY <1>1, <1>3, <2>2, <3>2
    <2>3. CASE i > 2
      <3>1. i - 2 \in 1 .. Len(s) /\ i - 1 \in 1 .. Len(t) BY <1>1, <2>3
      <3>2. u[(i - 1) + 1] = t[i - 1] BY <1>2, <3>1
      <3>3. t[(i - 2) + 1] = s[i - 2] BY <1>1, <3>1
      <3>4. v[(i - 2) + 2] = s[i - 2] BY <1>3, <3>1
      <3>5. (i - 1) + 1 = i /\ (i - 2) + 1 = i - 1 /\ (i - 2) + 2 = i BY <2>3
      <3> QED BY <3>2, <3>3, <3>4, <3>5
    <2> QED BY <1>1, <2>1, <2>2, <2>3
  <1>5. Len(u) = Len(v) BY <1>1, <1>2, <1>3
  <1>6. u = v
    <2>1. DOMAIN u = 1 .. Len(u) /\ DOMAIN v = 1 .. Len(v)
          /\ u = [i \in 1 .. Len(u) |-> u[i]] /\ v = [i \in 1 .. Len(v) |-> v[i]]
      BY <1>2, <1>3
    <2>2. Len(u) = Len(s) + 2 BY <1>3, <1>5
    <2> QED BY <1>4, <1>5, <2>1, <2>2
  <1> QED BY <1>6 DEF t, u, v
-----------------------------------------------------------------------------
\* Calls that leave the heap alone.
LEMMA TopFrame ==
  ASSUME Base, stack # <<>>
  PROVE  /\ Top \in Frame /\ Return \in Seq(Frame) /\ FrameOK(Top)
         /\ Pushed(stack, Top, Return)
         /\ \A d \in SetOf(Return) : d \in Frame /\ FrameOK(d) /\ PairOK(Top, d)
         /\ Calls = {Top} \cup SetOf(Return)
  <1>1. Pushed(stack, Top, Return) BY Split DEF Base, StackInv
  <1>2. Calls = {Top} \cup SetOf(Return)
        /\ \A d \in SetOf(Return) : d \in Frame /\ PairOK(Top, d)
    BY SplitSets DEF Base
  <1>3. \A c \in Calls : FrameOK(c) BY DEF Base, Frames
  <1> QED BY <1>1, <1>2, <1>3 DEF Pushed

\* zend_hash_destroy releases an element: the reference passes to zval_ptr_dtor.
LEMMA TableStep ==
  ASSUME Working, zend_hash_destroy
  PROVE  GcInv'
  <1>0. Base /\ Exact /\ Phase /\ stack # <<>> BY DEF Working, GcInv
  <1>1. Top \in Frame /\ FrameOK(Top) /\ Pushed(stack, Top, Return) BY <1>0, TopFrame
  <1>2. PICK e \in Top.rest :
          stack' = <<Call("dtor", e, e, {}, {}), [Top EXCEPT !.rest = @ \ {e}]>> \o Return
    BY DEF zend_hash_destroy
  <1>3. Top.op \in {"elements", "properties"} /\ UNCHANGED <<type, content, rc, ext>>
        /\ UNCHANGED gcVars
    BY DEF zend_hash_destroy, heapVars, Working
  <1> DEFINE a == Call("dtor", e, e, {}, {})
             b == [Top EXCEPT !.rest = @ \ {e}]
  <1>4. e \in RefOK /\ e \in Zval /\ e \in Node BY <1>1, <1>3 DEF FrameOK, RefOK, Node
  <1>5. a \in Frame BY <1>4, CallFrame DEF Op
  <1>6. b \in Frame BY <1>1 DEF Frame
  <1>7. stack' = <<a>> \o (<<b>> \o Return)
    <2>1. Return \in Seq(Frame) BY <1>1 DEF Pushed
    <2>2. stack' = <<a, b>> \o Return BY <1>2
    <2> HIDE DEF a, b
    <2> QED BY <1>5, <1>6, <2>1, <2>2, TwoCalls
  <1>8. Bare(a) /\ a.op = "dtor" /\ Gathers(a) = {} /\ a.z = e /\ a.n = e
    BY DEF Call, Bare, Own, Moves, Drops, Lists, Gathers
  <1>9. Same(b, Top) /\ b.op = Top.op /\ b.rest = Top.rest \ {e} /\ b.z = Top.z /\ b.n = Top.n
    BY <1>1, <1>3 DEF Frame, Same, Own, Moves, Drops, Lists
  <1>10. \A n : W(a, n) + W(b, n) = W(Top, n)
    <2> SUFFICES ASSUME NEW n PROVE W(a, n) + W(b, n) = W(Top, n) OBVIOUS
    <2>1. Refs(a) = {e} /\ Keeps(a) = {} /\ Refs(b) = Top.rest \ {e} /\ Keeps(b) = Keeps(Top)
          /\ Refs(Top) = Top.rest
      BY <1>3, <1>8, <1>9 DEF Refs, Keeps
    <2> QED BY <2>1 DEF W
  <1>11. FrameOK(a) BY <1>4, <1>8 DEF FrameOK
  <1>12. FrameOK(b) BY <1>1, <1>3, <1>9 DEF FrameOK
  <1> HIDE DEF a, b
  <1>13. /\ SameOwners /\ Calls' = {a, b} \cup SetOf(Return) /\ Gathered' = {}
         /\ Pushed(stack', a, <<b>> \o Return) /\ Pushed(<<b>> \o Return, b, Return)
    BY <1>0, <1>3, <1>5, <1>6, <1>7, <1>8, <1>9, StepCall DEF Lower
  <1>14. \A c \in Calls' : c \in Calls \/ FrameOK(c)
    BY <1>0, <1>11, <1>12, <1>13, TopFrame
  <1>15. Base' /\ Dying' = Dying
    BY <1>0, <1>3, <1>13, <1>14, Still, RootTypesStill DEF Working, Base, Types
  <1>16. Gathered' = Gathered BY <1>0, <1>3, <1>13, Waiting DEF Base
  <1>17. \A n \in Alive : rc'[n] - rc[n] = Weight(stack', n) - Weight(stack, n)
    <2> SUFFICES ASSUME NEW n \in Alive
                 PROVE rc'[n] - rc[n] = Weight(stack', n) - Weight(stack, n) OBVIOUS
    <2>1. Weight(stack', n) = W(a, n) + (W(b, n) + Weight(Return, n)) BY <1>13 DEF Pushed
    <2>2. Weight(stack, n) = W(Top, n) + Weight(Return, n) /\ Weight(Return, n) \in Nat
      BY <1>1 DEF Pushed
    <2>3. rc[n] \in Int /\ rc'[n] = rc[n] BY <1>0, <1>3 DEF Base, Types, Alive
    <2>4. W(a, n) \in 0 .. 2 /\ W(b, n) \in 0 .. 2 BY WType
    <2> QED BY <1>10, <2>1, <2>2, <2>3, <2>4
  <1>18. Exact'
    BY <1>0, <1>3, <1>13, <1>15, <1>16, <1>17, StillExact DEF SameOwners, Trial, gcVars
  <1>19. Quiet BY <1>0, <1>3, PhaseQuiet DEF Collects
  <1>20. Quiet' BY <1>3, <1>15, <1>19, QuietStill
  <1>21. Top'.op = "dtor" BY <1>8, <1>13 DEF Pushed, Top
  <1>22. Phase' BY <1>20, <1>21, PhaseQuietNext DEF Collects
  <1> QED BY <1>15, <1>18, <1>22 DEF GcInv

\* No node is on trial, and a purple root is where its word says.
QuietKept ==
    /\ Trial' = {}
    /\ \A s \in Roots' : color'[slots'[s]] = "purple"
                        => addr'[slots'[s]] # 0 /\ slots'[s] \notin Dying

\* The buffer after a step that leaves the same nodes dying.
LEMMA KeptQuiet ==
  ASSUME QuietKept, Dying' = Dying
  PROVE  Quiet'
  BY DEF QuietKept, Quiet

\* The word `buffered' of every node is left alone.
LEMMA KeptStill ==
  ASSUME Quiet, UNCHANGED gcVars
  PROVE  QuietKept
  BY DEF Quiet, QuietKept, Trial, Roots, gcVars

\* A call that owns nothing returns with what it holds.
LEMMA QuietReturn ==
  ASSUME Working, stack' = Return, Bare(Top), Top.op \notin Collects \cup {"destroy"},
         UNCHANGED <<type, content>>, rc' \in [Node -> Int], RootTypes', QuietKept,
         \A n \in Alive : rc'[n] = rc[n] - W(Top, n)
  PROVE  GcInv'
  <1>0. Base /\ Exact /\ Phase /\ stack # <<>> BY DEF Working, GcInv
  <1>1. Pushed(stack, Top, Return) /\ Calls = {Top} \cup SetOf(Return) BY <1>0, TopFrame
  <1>2. SameOwners /\ Calls' \subseteq Calls /\ Gathered' = {} BY <1>0, StepReturn
  <1>3. Base' /\ Dying' = Dying BY <1>0, <1>2, Still DEF Working
  <1>4. Gathered' = Gathered BY <1>0, <1>2, Waiting DEF Base, Collects
  <1>5. Quiet' BY <1>3, KeptQuiet
  <1>6. Quiet BY <1>0, PhaseQuiet
  <1>7. Trial' = Trial BY <1>5, <1>6 DEF Quiet
  <1>8. ASSUME NEW n \in Alive
        PROVE  rc'[n] - rc[n] = Weight(stack', n) - Weight(stack, n)
    <2>1. Weight(stack, n) = W(Top, n) + Weight(Return, n) /\ Weight(Return, n) \in Nat
      BY <1>1 DEF Pushed
    <2>2. rc[n] \in Int /\ W(Top, n) \in 0 .. 2 BY <1>0, WType DEF Base, Types, Alive
    <2> QED BY <2>1, <2>2
  <1>9. Exact' BY <1>0, <1>2, <1>3, <1>4, <1>7, <1>8, StillExact DEF SameOwners, Working
  <1>10. Phase' BY <1>0, <1>5, BackQuiet DEF Collects
  <1> QED BY <1>3, <1>9, <1>10 DEF GcInv

\* A call that owns nothing goes on as another one.
LEMMA QuietGoto ==
  ASSUME Working, NEW c \in Frame, stack' = Goto(c), Bare(Top), Bare(c), FrameOK(c),
         Top.op \notin Collects \cup {"destroy"},
         c.op \notin Collects \cup {"destroy", "collected"},
         UNCHANGED <<type, content>>, rc' \in [Node -> Int], RootTypes', QuietKept,
         \A n \in Alive : rc'[n] = rc[n] - W(Top, n) + W(c, n)
  PROVE  GcInv'
  <1>0. Base /\ Exact /\ Phase /\ stack # <<>> BY DEF Working, GcInv
  <1>1. Pushed(stack, Top, Return) /\ Calls = {Top} \cup SetOf(Return) BY <1>0, TopFrame
  <1>2. /\ SameOwners /\ Calls' = {c} \cup SetOf(Return) /\ Gathered' = Gathers(c)
        /\ Pushed(stack', c, Return)
    BY <1>0, StepGoto DEF Bare, Same, Collects
  <1>3. Base' /\ Dying' = Dying BY <1>0, <1>1, <1>2, Still DEF Working
  <1>4. Gathered' = Gathered BY <1>0, <1>2, Waiting DEF Base, Collects, Gathers
  <1>5. Quiet' BY <1>3, KeptQuiet
  <1>6. Quiet BY <1>0, PhaseQuiet
  <1>7. Trial' = Trial BY <1>5, <1>6 DEF Quiet
  <1>8. ASSUME NEW n \in Alive
        PROVE  rc'[n] - rc[n] = Weight(stack', n) - Weight(stack, n)
    <2>1. Weight(stack, n) = W(Top, n) + Weight(Return, n) /\ Weight(Return, n) \in Nat
      BY <1>1 DEF Pushed
    <2>2. Weight(stack', n) = W(c, n) + Weight(Return, n) BY <1>2 DEF Pushed
    <2>3. rc[n] \in Int /\ W(Top, n) \in 0 .. 2 /\ W(c, n) \in 0 .. 2
      BY <1>0, WType DEF Base, Types, Alive
    <2> QED BY <2>1, <2>2, <2>3
  <1>9. Exact' BY <1>0, <1>2, <1>3, <1>4, <1>7, <1>8, StillExact DEF SameOwners, Working
  <1>10. Top' = c /\ stack' # <<>> BY <1>2 DEF Pushed, Top
  <1>11. Phase' BY <1>5, <1>10, PhaseQuietNext
  <1> QED BY <1>3, <1>9, <1>11 DEF GcInv
-----------------------------------------------------------------------------
\* zval_ptr_dtor takes one of several references away.
LEMMA SharedStep ==
  ASSUME Working, Top.op = "dtor", DtorShared(Top.z)
  PROVE  GcInv'
  <1>0. Base /\ Exact /\ Phase /\ stack # <<>> BY DEF Working, GcInv
  <1>1. Top \in Frame /\ FrameOK(Top) BY <1>0, TopFrame
  <1>2. Top.z \in RefOK /\ Top.z \in Zval /\ Top.z \in Node BY <1>1 DEF FrameOK, RefOK, Node
  <1>3. rc' = [rc EXCEPT ![Top.z] = @ - 1] /\ UNCHANGED <<type, content>> /\ UNCHANGED gcVars
    BY DEF DtorShared
  <1>4. rc \in [Node -> Int] BY <1>0 DEF Base, Types
  <1>5. rc' \in [Node -> Int] BY <1>2, <1>3, <1>4
  <1>6. RootTypes' BY <1>0, <1>3, RootTypesStill DEF Base
  <1>7. QuietKept BY <1>0, <1>3, PhaseQuiet, KeptStill DEF Collects
  <1>8. Bare(Top) BY DEF Bare, Own, Moves, Drops, Lists
  <1>9. ASSUME NEW n \in Alive PROVE rc'[n] = rc[n] - W(Top, n)
    <2>1. Refs(Top) = {Top.z} /\ Keeps(Top) = {} BY DEF Refs, Keeps
    <2>2. W(Top, n) = IF n = Top.z THEN 1 ELSE 0 BY <2>1 DEF W
    <2>3. n \in Node BY DEF Alive
    <2> QED BY <1>3, <1>4, <2>2, <2>3
  <1>10. CASE stack' = Return
    <2>1. Top.op \notin Collects \cup {"destroy"} BY DEF Collects
    <2> QED BY <1>3, <1>5, <1>6, <1>7, <1>8, <1>9, <1>10, <2>1, QuietReturn
  <1>11. CASE stack' = Goto(Call("root", Top.z, Top.z, {}, {}))
    <2> DEFINE c == Call("root", Top.z, Top.z, {}, {})
    <2>1. c \in Frame BY <1>2, CallFrame DEF Op
    <2>2. Bare(c) /\ c.op = "root" /\ Refs(c) = {} /\ Keeps(c) = {}
      BY DEF Call, Bare, Own, Moves, Drops, Lists, Refs, Keeps
    <2>3. FrameOK(c) BY <1>2 DEF Call, FrameOK
    <2> HIDE DEF c
    <2>4. \A n : W(c, n) = 0 BY <2>2 DEF W
    <2>5. \A n \in Alive : rc'[n] = rc[n] - W(Top, n) + W(c, n)
      <3> SUFFICES ASSUME NEW n \in Alive PROVE rc'[n] = rc[n] - W(Top, n) + W(c, n)
        OBVIOUS
      <3>1. rc[n] - W(Top, n) \in Int BY <1>4, WType DEF Alive
      <3> QED BY <1>9, <2>4, <3>1
    <2>6. stack' = Goto(c) BY <1>11 DEF c
    <2>7. Top.op \notin Collects \cup {"destroy"} BY DEF Collects
    <2>8. c.op \notin Collects \cup {"destroy", "collected"} BY <2>2 DEF Collects
    <2> QED BY <1>3, <1>5, <1>6, <1>7, <1>8, <2>1, <2>2, <2>3, <2>5, <2>6, <2>7, <2>8, QuietGoto
  <1> QED BY <1>10, <1>11 DEF DtorShared

\* What is listed is what the calls list.
LEMMA ListedIs ==
  Listed = InLists
  BY DEF Listed, InLists, ListedBy, Lists

\* gc_zval_possible_root owns nothing and holds no reference.
LEMMA RootCall ==
  ASSUME Top.op = "root"
  PROVE  /\ Bare(Top) /\ Top.op \notin Collects \cup {"destroy"}
         /\ \A n : W(Top, n) = 0
  <1>1. Refs(Top) = {} /\ Keeps(Top) = {} BY DEF Refs, Keeps
  <1> QED BY <1>1 DEF Bare, Own, Moves, Drops, Lists, W, Collects

\* gc_zval_possible_root turns from a handle to its object, or away.
LEMMA RedirectStep ==
  ASSUME Working, RootRedirect
  PROVE  GcInv'
  <1>0. Base /\ Exact /\ Phase /\ stack # <<>> BY DEF Working, GcInv
  <1>1. Top \in Frame /\ FrameOK(Top) BY <1>0, TopFrame
  <1>2. Top.op = "root" /\ Top.n = Top.z /\ Top.z \in Zval /\ Top.z \in Node
        /\ UNCHANGED <<type, content, rc>> /\ UNCHANGED gcVars
    BY <1>1 DEF FrameOK, RootRedirect, heapVars, Node
  <1>3. rc \in [Node -> Int] BY <1>0 DEF Base, Types
  <1>4. RootTypes' BY <1>0, <1>2, RootTypesStill DEF Base
  <1>5. QuietKept BY <1>0, <1>2, PhaseQuiet, KeptStill DEF Collects
  <1>6. Bare(Top) /\ Top.op \notin Collects \cup {"destroy"} /\ \A n : W(Top, n) = 0
    BY <1>2, RootCall
  <1>7. \A n \in Alive : rc'[n] = rc[n] - W(Top, n)
    BY <1>2, <1>3, <1>6 DEF Alive
  <1>8. CASE stack' = Return
    BY <1>2, <1>3, <1>4, <1>5, <1>6, <1>7, <1>8, QuietReturn
  <1>9. CASE /\ Top.z \notin Listed /\ type[Top.z] = "object"
             /\ type[Holder(Top.z)] = "store"
             /\ stack' = Goto([Top EXCEPT !.n = Holder(Top.z)])
    <2> DEFINE o == Holder(Top.z)
               c == [Top EXCEPT !.n = o]
    <2>1. PICK x \in Obj : content[Top.z] = {x} BY <1>0, <1>2, <1>9 DEF Base, Types
    <2>2. o = x BY <1>9, <2>1 DEF Holder
    <2>3. Top.z \in RefOK BY <1>1, <1>2, GcAssumption DEF FrameOK
    <2>4. Top.z \in Node \ Dying BY <1>2, <1>9, <2>3, ListedIs DEF RefOK
    <2>5. o \in Alive /\ o \notin Dying /\ o \in Obj /\ o \in Node
      BY <1>0, <2>1, <2>2, <2>4 DEF Base, Closed, Alive
    <2>6. c \in Frame BY <1>1, <2>5 DEF Frame
    <2>7. c.op = "root" /\ c.z = Top.z /\ c.n = o BY <1>1, <1>2 DEF Frame
    <2>8. stack' = Goto(c) BY <1>9
    <2> HIDE DEF c
    <2>9. Bare(c) /\ Refs(c) = {} /\ Keeps(c) = {}
      BY <2>7 DEF Bare, Own, Moves, Drops, Lists, Refs, Keeps
    <2>10. FrameOK(c) BY <1>2, <2>5, <2>7 DEF FrameOK
    <2>11. \A n : W(c, n) = 0 BY <2>9 DEF W
    <2>12. \A n \in Alive : rc'[n] = rc[n] - W(Top, n) + W(c, n)
      BY <1>2, <1>3, <1>6, <2>11 DEF Alive
    <2>13. c.op \notin Collects \cup {"destroy", "collected"} BY <2>7 DEF Collects
    <2> QED BY <1>2, <1>3, <1>4, <1>5, <1>6, <2>6, <2>8, <2>9, <2>10, <2>12, <2>13, QuietGoto
  <1> QED BY <1>8, <1>9 DEF RootRedirect

\* The node a call looks at as a possible root is not dying.
LEMMA AtRootLive ==
  ASSUME Base, stack # <<>>, NEW n \in Node, AtRoot(n)
  PROVE  n \notin Dying /\ Top.z \in Zval
  <1>1. Top \in Frame /\ FrameOK(Top) BY TopFrame
  <1>2. Top.op = "root" /\ Top.n = n /\ (n \in Obj \/ n \notin InLists)
    BY ListedIs DEF AtRoot
  <1>3. Top.z \in Zval /\ ((Top.n = Top.z /\ Top.n \in RefOK) \/ Top.n \notin Dying)
    BY <1>1, <1>2 DEF FrameOK
  <1>4. CASE Top.n = Top.z /\ Top.n \in RefOK
    <2>1. n \notin InLists BY <1>2, <1>3, <1>4, GcAssumption
    <2> QED BY <1>2, <1>3, <1>4, <2>1 DEF RefOK
  <1> QED BY <1>2, <1>3, <1>4
-----------------------------------------------------------------------------
\* A node that is not dying may enter the buffer.
LEMMA Buffered ==
  ASSUME Base, Quiet, NEW n \in Node, n \notin Dying, Buffer(n)
  PROVE  RootTypes' /\ QuietKept
  <1>0. RootTypes BY DEF Base
  <1>1. PICK s \in Slot \ Roots :
          /\ slots' = [slots EXCEPT ![s] = n] /\ addr' = [addr EXCEPT ![n] = s]
          /\ color' = [color EXCEPT ![n] = "purple"]
    <2>1. \E s \in Slot \ Roots : TRUE BY DEF Buffer, Roots
    <2> QED BY <2>1 DEF Buffer
  <1>2. slots[s] = None /\ None \notin Node BY <1>1, GcAssumption DEF Roots, Node
  <1>3. RootTypes'
    <2>1. /\ addr' \in [Node -> {0} \cup Slot] /\ slots' \in [Slot -> Node \cup {None}]
          /\ color' \in [Node -> {"black", "grey", "white", "purple"}]
      BY <1>0, <1>1 DEF RootTypes
    <2>2. ASSUME NEW m \in Node, addr'[m] # 0 PROVE slots'[addr'[m]] = m
      <3>1. CASE m = n BY <1>0, <1>1, <3>1 DEF RootTypes
      <3>2. CASE m # n
        <4>1. addr'[m] = addr[m] /\ slots[addr[m]] = m BY <1>0, <1>1, <2>2, <3>2 DEF RootTypes
        <4>2. addr[m] # s BY <1>2, <4>1
        <4> QED BY <1>1, <4>1, <4>2
      <3> QED BY <3>1, <3>2
    <2> QED BY <2>1, <2>2 DEF RootTypes
  <1>4. Trial' = {} BY <1>0, <1>1 DEF Quiet, Trial, RootTypes
  <1>5. ASSUME NEW r \in Roots', color'[slots'[r]] = "purple"
        PROVE  addr'[slots'[r]] # 0 /\ slots'[r] \notin Dying
    <2>0. s # 0 /\ s \in Slot BY GcAssumption DEF Slot
    <2>1. CASE slots'[r] = n BY <1>0, <1>1, <2>0, <2>1 DEF RootTypes
    <2>2. CASE slots'[r] # n
      <3>1. r # s /\ slots'[r] = slots[r] /\ r \in Roots
        BY <1>0, <1>1, <2>2 DEF Roots, RootTypes
      <3>2. slots[r] \in Node BY <1>0, <3>1 DEF RootTypes, Roots
      <3>3. color[slots[r]] = "purple" /\ addr'[slots[r]] = addr[slots[r]]
        BY <1>0, <1>1, <1>5, <2>2, <3>1, <3>2 DEF RootTypes
      <3> QED BY <3>1, <3>3 DEF Quiet
    <2> QED BY <2>1, <2>2
  <1> QED BY <1>3, <1>4, <1>5 DEF QuietKept

\* gc_zval_possible_root finds that the node is known.
LEMMA KnownStep ==
  ASSUME Working, NEW n \in Node, RootKnown(n)
  PROVE  GcInv'
  <1>0. Base /\ Exact /\ Phase /\ stack # <<>> BY DEF Working, GcInv
  <1>1. Top.op = "root" /\ n \notin Dying BY <1>0, AtRootLive DEF RootKnown, AtRoot
  <1>2. /\ Bare(Top) /\ Top.op \notin Collects \cup {"destroy"} /\ \A m : W(Top, m) = 0
    BY <1>1, RootCall
  <1>3. /\ color' = [color EXCEPT ![n] = "purple"] /\ stack' = Return
        /\ UNCHANGED <<type, content, rc>> /\ UNCHANGED <<addr, slots>>
        /\ color[n] = "purple" \/ addr[n] # 0
    BY DEF RootKnown, heapVars
  <1>4. Quiet BY <1>0, <1>2, PhaseQuiet
  <1>5. rc \in [Node -> Int] /\ RootTypes BY <1>0 DEF Base, Types
  <1>6. RootTypes' BY <1>3, <1>5 DEF RootTypes
  <1>7. QuietKept
    <2>1. Trial' = {} BY <1>3, <1>4, <1>5 DEF Quiet, Trial, RootTypes
    <2>2. ASSUME NEW s \in Roots', color'[slots'[s]] = "purple"
          PROVE  addr'[slots'[s]] # 0 /\ slots'[s] \notin Dying
      <3>1. s \in Roots /\ slots'[s] = slots[s] /\ slots[s] \in Node
        BY <1>3, <1>5 DEF Roots, RootTypes
      <3>2. CASE color[slots[s]] = "purple" BY <1>3, <1>4, <3>1, <3>2 DEF Quiet
      <3>3. CASE color[slots[s]] # "purple"
        BY <1>1, <1>3, <1>5, <2>2, <3>1, <3>3 DEF RootTypes
      <3> QED BY <3>2, <3>3
    <2> QED BY <2>1, <2>2 DEF QuietKept
  <1>8. \A m \in Alive : rc'[m] = rc[m] - W(Top, m) BY <1>2, <1>3, <1>5 DEF Alive
  <1> QED BY <1>2, <1>3, <1>5, <1>6, <1>7, <1>8, QuietReturn

\* gc_zval_possible_root buffers the node.
LEMMA BufferStep ==
  ASSUME Working, NEW n \in Node, RootBuffer(n)
  PROVE  GcInv'
  <1>0. Base /\ Exact /\ Phase /\ stack # <<>> BY DEF Working, GcInv
  <1>1. Top.op = "root" /\ n \notin Dying BY <1>0, AtRootLive DEF RootBuffer, AtRoot
  <1>2. /\ Bare(Top) /\ Top.op \notin Collects \cup {"destroy"} /\ \A m : W(Top, m) = 0
    BY <1>1, RootCall
  <1>3. Buffer(n) /\ stack' = Return /\ UNCHANGED <<type, content, rc>>
    BY DEF RootBuffer, heapVars
  <1>4. Quiet BY <1>0, <1>2, PhaseQuiet
  <1>5. rc \in [Node -> Int] BY <1>0 DEF Base, Types
  <1>6. RootTypes' /\ QuietKept BY <1>0, <1>1, <1>3, <1>4, Buffered
  <1>7. \A m \in Alive : rc'[m] = rc[m] - W(Top, m) BY <1>2, <1>3, <1>5 DEF Alive
  <1> QED BY <1>2, <1>3, <1>5, <1>6, <1>7, QuietReturn

\* gc_zval_possible_root after the collection it forced.
LEMMA CollectedStep ==
  ASSUME Working, RootCollected
  PROVE  GcInv'
  <1>0. Base /\ Exact /\ Phase /\ stack # <<>> BY DEF Working, GcInv
  <1>1. Top \in Frame /\ FrameOK(Top) /\ Pushed(stack, Top, Return)
        /\ \A d \in SetOf(Return) : PairOK(Top, d)
    BY <1>0, TopFrame
  <1>2. /\ Top.op = "collected" /\ rc' = [rc EXCEPT ![Top.z] = @ - 1] /\ stack' = Return
        /\ UNCHANGED <<type, content>>
        /\ Buffer(Top.n) \/ UNCHANGED gcVars
    BY DEF RootCollected
  <1>3. Top.z \in Zval /\ Top.n \in Node /\ Top.z \in Node BY <1>1, <1>2 DEF FrameOK, Node
  <1>4. Bare(Top) /\ Refs(Top) = {Top.z} /\ Keeps(Top) = {}
        /\ Top.op \notin Collects \cup {"destroy"}
    BY <1>2 DEF Bare, Own, Moves, Drops, Lists, Refs, Keeps, Collects
  <1>5. Top.n \notin Dying
    <2>1. Top.n \notin Doomed
      <3>1. stack = <<Top>> \o Return /\ Top \in Frame /\ Return \in Seq(Frame)
        BY <1>1 DEF Pushed
      <3>2. Ordered(<<Top>> \o Return, Doomed, content) BY <1>0, <3>1 DEF Base, DoomInv
      <3> QED BY <1>2, <3>1, <3>2, OrderedTop
    <2>2. Top.n \notin OwnedBy(SetOf(Return)) BY <1>1, <1>2 DEF PairOK, OwnedBy
    <2>3. Owned = Own(Top) \cup OwnedBy(SetOf(Return)) BY <1>0, SplitSets DEF Base
    <2> QED BY <1>4, <2>1, <2>2, <2>3 DEF Dying, Bare
  <1>6. Quiet BY <1>0, <1>4, PhaseQuiet
  <1>7. rc \in [Node -> Int] /\ rc' \in [Node -> Int]
    <2>1. rc \in [Node -> Int] BY <1>0 DEF Base, Types
    <2> QED BY <1>2, <1>3, <2>1
  <1>8. RootTypes' /\ QuietKept
    <2>1. CASE Buffer(Top.n) BY <1>0, <1>3, <1>5, <1>6, <2>1, Buffered
    <2>2. CASE UNCHANGED gcVars
      <3>1. RootTypes' BY <1>0, <2>2, RootTypesStill DEF Base
      <3> QED BY <1>6, <2>2, <3>1, KeptStill
    <2> QED BY <1>2, <2>1, <2>2
  <1>9. ASSUME NEW n \in Alive PROVE rc'[n] = rc[n] - W(Top, n)
    <2>1. W(Top, n) = IF n = Top.z THEN 1 ELSE 0 BY <1>4 DEF W
    <2>2. n \in Node BY DEF Alive
    <2> QED BY <1>2, <1>7, <2>1, <2>2
  <1> QED BY <1>2, <1>4, <1>7, <1>8, <1>9, QuietReturn

\* The buffer is full: the collection starts above the call that waits for it.
LEMMA FullStep ==
  ASSUME Working, NEW n \in Node, RootFull(n)
  PROVE  GcInv'
  <1>0. Base /\ Exact /\ Phase /\ stack # <<>> BY DEF Working, GcInv
  <1>1. Top \in Frame /\ FrameOK(Top) /\ Pushed(stack, Top, Return) BY <1>0, TopFrame
  <1>2. Top.op = "root" /\ Top.n = n /\ n \notin Dying /\ Top.z \in Zval /\ Top.z \in Node
    BY <1>0, AtRootLive DEF RootFull, AtRoot, Node
  <1>3. /\ Bare(Top) /\ Top.op \notin Collects \cup {"destroy"} /\ \A m : W(Top, m) = 0
    BY <1>2, RootCall
  <1>a. PICK a : a = gc_collect_cycles OBVIOUS
  <1>b. PICK b : b = [Top EXCEPT !.op = "collected"] OBVIOUS
  <1>4. /\ color' = [color EXCEPT ![n] = "purple"] /\ rc' = [rc EXCEPT ![Top.z] = @ + 1]
        /\ stack' = <<a>> \o (<<b>> \o Return)
        /\ UNCHANGED <<type, content, ext>> /\ UNCHANGED <<addr, slots>>
    BY <1>a, <1>b DEF RootFull, Goto, Working
  <1>5. a \in Frame /\ a.op = "mark" /\ a.rest = {} /\ a.list = Roots
    BY <1>a, CallFrame DEF Op, gc_collect_cycles, Gc, Call, Roots
  <1>6. b \in Frame /\ b.op = "collected" /\ b.z = Top.z /\ b.n = n
    BY <1>b, <1>1, <1>2 DEF Frame, Op
  <1>7. Bare(a) /\ Gathers(a) = {} /\ Refs(a) = {} /\ Keeps(a) = {}
    BY <1>5 DEF Bare, Own, Moves, Drops, Lists, Gathers, Refs, Keeps
  <1>8. Bare(b) /\ Same(b, Top) /\ Refs(b) = {Top.z} /\ Keeps(b) = {}
    BY <1>3, <1>6 DEF Bare, Same, Own, Moves, Drops, Lists, Refs, Keeps
  <1>9. FrameOK(a) /\ FrameOK(b) BY <1>2, <1>5, <1>6 DEF FrameOK
  <1>10. /\ SameOwners /\ Calls' = {a, b} \cup SetOf(Return) /\ Gathered' = {}
         /\ Pushed(stack', a, <<b>> \o Return) /\ Pushed(<<b>> \o Return, b, Return)
    BY <1>0, <1>2, <1>3, <1>4, <1>5, <1>6, <1>7, <1>8, StepCall DEF Lower
  <1>11. \A c \in Calls' : c \in Calls \/ FrameOK(c) BY <1>0, <1>9, <1>10, TopFrame
  <1>12. rc \in [Node -> Int] /\ RootTypes BY <1>0 DEF Base, Types
  <1>13. rc' \in [Node -> Int] /\ RootTypes' BY <1>2, <1>4, <1>12 DEF RootTypes
  <1>14. Base' /\ Dying' = Dying BY <1>0, <1>4, <1>10, <1>11, <1>13, Still DEF Working
  <1>15. Gathered' = Gathered BY <1>0, <1>3, <1>10, Waiting DEF Base, Collects
  <1>16. Quiet BY <1>0, <1>3, PhaseQuiet
  <1>17. \A m \in Node : color'[m] = IF m = n THEN "purple" ELSE color[m]
    BY <1>4, <1>12 DEF RootTypes
  <1>18. Trial = {} /\ Trial' = {} BY <1>16, <1>17 DEF Quiet, Trial
  <1>19. ASSUME NEW m \in Alive
         PROVE  rc'[m] - rc[m] = Weight(stack', m) - Weight(stack, m)
    <2>1. Weight(stack', m) = W(a, m) + (W(b, m) + Weight(Return, m)) BY <1>10 DEF Pushed
    <2>2. Weight(stack, m) = Weight(Return, m) /\ Weight(Return, m) \in Nat
      BY <1>1, <1>3 DEF Pushed
    <2>3. W(a, m) = 0 /\ W(b, m) = (IF m = Top.z THEN 1 ELSE 0) BY <1>7, <1>8 DEF W
    <2>4. rc[m] \in Int /\ rc'[m] = rc[m] + (IF m = Top.z THEN 1 ELSE 0)
      BY <1>4, <1>12 DEF Alive
    <2> QED BY <2>1, <2>2, <2>3, <2>4
  <1>20. Exact' BY <1>0, <1>4, <1>10, <1>14, <1>15, <1>18, <1>19, StillExact DEF SameOwners
  <1>21. Top' = a /\ stack' # <<>> BY <1>10 DEF Pushed, Top
  <1>22. MarkInv(a)'
    <2>1. Roots' = Roots /\ slots' = slots BY <1>4 DEF Roots
    <2>2. Painted("white")' = {} /\ Painted("grey")' = {} BY <1>18 DEF Painted, Trial
    <2>3. \A s \in Roots : slots[s] \in Node BY <1>12 DEF Roots, RootTypes
    <2>4. \A s \in Roots : color'[slots[s]] = "purple" => slots[s] \notin Dying
      BY <1>2, <1>16, <1>17, <2>3 DEF Quiet
    <2>5. a.list = Roots' /\ a.rest = {} BY <1>5, <2>1
    <2>6. Sound(a.rest)' /\ Sound(Painted("grey"))' BY <2>2, <2>5 DEF Sound
    <2>7. Reaches(InSlots(Roots \ a.list), Painted("grey"), Painted("grey") \cup a.rest)'
      BY <2>2, <2>5 DEF Reaches
    <2> QED BY <1>14, <2>1, <2>2, <2>4, <2>5, <2>6, <2>7 DEF MarkInv
  <1>23. Phase' BY <1>5, <1>21, <1>22 DEF Phase
  <1> QED BY <1>14, <1>20, <1>23 DEF GcInv
-----------------------------------------------------------------------------
\* A handle has its object, and an object is only in handles.
LEMMA Handle ==
  ASSUME Types, NEW z \in Zval, type[z] = "object"
  PROVE  Holder(z) \in Obj /\ content[z] = {Holder(z)} /\ Holder(z) \in Node \ Zval
  <1>1. PICK o \in Obj : content[z] = {o} BY DEF Types
  <1>2. Holder(z) = o BY <1>1 DEF Holder
  <1> QED BY <1>1, <1>2, GcAssumption DEF Node

\* Only a handle contains an object, and nothing else.
LEMMA Handles ==
  ASSUME Types, NEW o \in Obj, NEW m \in Node, o \in content[m]
  PROVE  m \in Zval /\ type[m] = "object" /\ content[m] = {o} /\ Holder(m) = o
  <1>1. o \notin Zval BY GcAssumption
  <1>2. type[m] \notin {"free", "null", "array", "store"} BY <1>1 DEF Types
  <1>3. type[m] \in Type BY DEF Types
  <1>4. m \in Zval /\ type[m] = "object" BY <1>2, <1>3 DEF Types, Type, Node
  <1>5. content[m] = {Holder(m)} BY <1>4, Handle
  <1> QED BY <1>4, <1>5

\* Calls hold zvals, apart from the object that one destroys.
LEMMA ObjHeld ==
  ASSUME NEW c \in Frame, FrameOK(c), c.op # "collect", NEW o \in Obj, o \notin Own(c)
  PROVE  W(c, o) = 0
  <1>1. o \notin Zval /\ RefOK \subseteq Zval /\ o \in Node BY GcAssumption DEF RefOK, Node
  <1>2. o \notin Refs(c) BY <1>1 DEF FrameOK, Refs
  <1>3. o \notin Keeps(c)
    <2>1. CASE c.op = "properties" BY <1>1, <2>1 DEF Keeps, Own, Frame
    <2>2. CASE c.op # "properties" BY <1>1, <2>2 DEF Keeps, FrameOK
    <2> QED BY <2>1, <2>2
  <1> QED BY <1>2, <1>3 DEF W

\* No call holds an object that none owns.
LEMMA ObjWeight ==
  ASSUME Base, stack # <<>>, Top.op \notin Collects, NEW o \in Obj, o \notin Owned
  PROVE  Weight(stack, o) = 0
  <1>1. Calls = {Top} \cup SetOf(Return) /\ Top \in Frame
        /\ \A d \in SetOf(Return) : d \in Frame
    BY TopFrame
  <1>2. \A d \in SetOf(Return) : d.op \in Lower BY Waiting DEF Base, Collects
  <1>3. \A c \in Calls : c \in Frame /\ FrameOK(c) /\ c.op # "collect"
    BY <1>1, <1>2 DEF Base, Frames, Lower, Collects
  <1>4. \A c \in Calls : o \notin Own(c) BY PartsOf DEF Owned
  <1>5. \A c \in Calls : W(c, o) = 0 BY <1>3, <1>4, ObjHeld
  <1> QED BY <1>5, CallsSet, WeightBounds DEF Base, StackInv

\* Outside a collection the spent nodes are owned, and none is on trial.
LEMMA QuietFacts ==
  ASSUME Base, Phase, stack # <<>>, Top.op \notin Collects
  PROVE  /\ Gathered = {} /\ Trial = {} /\ Spent \subseteq Owned /\ Quiet
         /\ Moved \subseteq Owned \cap Obj /\ Stale \subseteq Owned \cap Zval
         /\ InLists \subseteq Stale /\ Owned \subseteq Node
         /\ Spent = Moved \cup {z \in Stale : type[z] = "object"}
  <1>1. Gathered = {} BY Waiting DEF Base, Collects
  <1>2. Quiet BY PhaseQuiet
  <1>3. /\ Moved \subseteq Owned \cap Obj /\ Stale \subseteq Owned \cap Zval
        /\ InLists \subseteq Stale /\ Owned \subseteq Node
    BY SetParts DEF Base, StackInv
  <1> QED BY <1>1, <1>2, <1>3 DEF Spent, Quiet

\* An object counts nothing exactly if it is doomed, or being destroyed.
LEMMA DoomedCount ==
  ASSUME Base, Exact, Phase, stack # <<>>, Top.op \notin Collects,
         NEW o \in Obj, type[o] = "store"
  PROVE  /\ o \in Doomed => rc[o] = 0 /\ Preds(o) = {}
         /\ rc[o] <= 0 => o \in Doomed /\ Weight(stack, o) = 0 /\ Preds(o) = {}
  <1>1. /\ Gathered = {} /\ Trial = {} /\ Spent \subseteq Owned
        /\ Stale \subseteq Owned \cap Zval /\ Moved \subseteq Owned \cap Obj
        /\ Spent = Moved \cup {z \in Stale : type[z] = "object"}
    BY QuietFacts
  <1>2. o \in Alive /\ o \in Node /\ o \notin Zval /\ Types
    BY GcAssumption DEF Alive, Node, Base
  <1>3. rc[o] = Cardinality(Preds(o)) + Weight(stack, o)
    <2>1. rc[o] = Ext(o) + Cardinality(Preds(o)) + Weight(stack, o) BY <1>2 DEF Exact
    <2>2. Ext(o) = 0 BY <1>2 DEF Ext
    <2>3. Cardinality(Preds(o)) \in Nat /\ Weight(stack, o) \in Nat BY <1>2, Numbers
    <2> QED BY <2>1, <2>2, <2>3
  <1>4. \A m \in Node : o \in content[m] => m \in Zval /\ type[m] = "object"
                                            /\ content[m] = {o}
    BY <1>2, Handles
  <1>5. ASSUME o \in Doomed PROVE rc[o] = 0 /\ Preds(o) = {}
    <2>1. Preds(o) = {} BY <1>1, <1>4, <1>5 DEF Preds, Doomed
    <2>2. Weight(stack, o) = 0 BY <1>5, ObjWeight DEF Doomed
    <2> QED BY <1>3, <2>1, <2>2, FS_EmptySet
  <1>6. ASSUME rc[o] <= 0
        PROVE  o \in Doomed /\ Weight(stack, o) = 0 /\ Preds(o) = {}
    <2>1. Weight(stack, o) \in Nat /\ Cardinality(Preds(o)) \in Nat /\ IsFiniteSet(Preds(o))
      BY <1>2, Numbers, PredsCount
    <2>2. Weight(stack, o) = 0 /\ Cardinality(Preds(o)) = 0 BY <1>3, <1>6, <2>1
    <2>3. Preds(o) = {} BY <2>1, <2>2, FS_EmptySet
    <2>4. \A m \in Node : o \in content[m] => m \in Stale
      BY <1>1, <1>4, <2>3, GcAssumption DEF Preds
    <2>5. o \notin Owned
      <3> SUFFICES ASSUME o \in Owned PROVE FALSE OBVIOUS
      <3>1. PICK c \in Calls : o \in Own(c) BY DEF Owned, OwnedBy
      <3>2. c \in Frame /\ FrameOK(c) BY DEF Base, Frames, StackInv, Calls
      <3>3. c.op = "properties" /\ o = c.n
        BY <1>2, <3>1, <3>2, GcAssumption DEF Own, FrameOK
      <3>4. W(c, o) = 0
        <4>1. W(c, o) <= Weight(stack, o) BY CallsSet, WeightBounds DEF Base, StackInv
        <4> QED BY <2>2, <4>1, WType
      <3>5. c.z # None BY <3>3, <3>4 DEF W, Keeps
      <3>6. type[c.z] = "object" /\ content[c.z] = {o} /\ c.z \in Zval /\ c.z \in Node
        BY <3>2, <3>3, <3>5 DEF FrameOK, Frame, Node
      <3>7. c.z \in Stale BY <2>4, <3>6
      <3>8. PICK d \in Calls : c.z \in Drops(d) BY <3>7 DEF Stale, StaleBy
      <3>9. d \in Frame /\ FrameOK(d) BY DEF Base, Frames, StackInv, Calls
      <3>10. c.z \in Own(d) /\ c.z \in Own(c) BY <3>3, <3>6, <3>8, <3>9, Owns DEF Own
      <3>11. c # d BY <3>3, <3>8 DEF Drops, Lists
      <3>12. Own(c) \cap Own(d) = {} BY <3>11, CallsSet, Apart DEF Base, StackInv
      <3> QED BY <3>10, <3>12
    <2>6. o \in Doomed BY <2>4, <2>5 DEF Doomed
    <2> QED BY <2>2, <2>3, <2>6
  <1> QED BY <1>5, <1>6
-----------------------------------------------------------------------------
\* The walk over a collection's list reaches z.
LEMMA DestroyTop ==
  ASSUME Base, stack # <<>>, NEW z \in Zval, Top.op = "destroy", z \in Top.rest,
         NEW c, c = [Top EXCEPT !.rest = @ \ {z}]
  PROVE  /\ c \in Frame /\ Same(c, Top) /\ c.op = "destroy" /\ c.list = Top.list
         /\ c.rest = Top.rest \ {z} /\ \A n : W(c, n) = W(Top, n)
         /\ z \in Top.list /\ z \in Alive /\ Own(Top) = Top.list /\ Drops(Top) = Top.list
         /\ Lists(Top) = Top.list /\ z \in Owned /\ z \in Stale /\ z \in InLists
         /\ z \notin OwnedBy(SetOf(Return))
  <1>1. Top \in Frame /\ FrameOK(Top) BY TopFrame
  <1>2. /\ c \in Frame /\ c.op = "destroy" /\ c.list = Top.list
        /\ c.rest = Top.rest \ {z} /\ c.z = Top.z /\ c.n = Top.n
    BY <1>1 DEF Frame
  <1>3. Same(c, Top) BY <1>2 DEF Same, Own, Moves, Drops, Lists
  <1>4. \A n : W(c, n) = W(Top, n) BY <1>2 DEF W, Refs, Keeps
  <1>5. z \in Top.list /\ z \in Alive BY <1>1 DEF FrameOK
  <1>6. Own(Top) = Top.list /\ Drops(Top) = Top.list /\ Lists(Top) = Top.list
    BY DEF Own, Drops, Lists
  <1>7. /\ Owned = Own(Top) \cup OwnedBy(SetOf(Return))
        /\ Stale = Drops(Top) \cup StaleBy(SetOf(Return))
        /\ InLists = Lists(Top) \cup ListedBy(SetOf(Return))
        /\ Own(Top) \cap OwnedBy(SetOf(Return)) = {}
    BY SplitSets DEF Base
  <1>8. z \in Own(Top) /\ z \in Drops(Top) /\ z \in Lists(Top) BY <1>5, <1>6
  <1>9. z \in Owned /\ z \in Stale /\ z \in InLists /\ z \notin OwnedBy(SetOf(Return))
    BY <1>7, <1>8
  <1> QED BY <1>2, <1>3, <1>4, <1>5, <1>6, <1>9

\* The collector leaves out an object that is held, or destroyed, already.
LEMMA SkipStep ==
  ASSUME Working, NEW z \in Zval, Top.op = "destroy", z \in Top.rest, DestroySkip(z)
  PROVE  GcInv'
  <1>0. Base /\ Exact /\ Phase /\ stack # <<>> BY DEF Working, GcInv
  <1>1. Top \in Frame /\ FrameOK(Top) /\ Pushed(stack, Top, Return)
        /\ (\A d \in SetOf(Return) : PairOK(Top, d)) /\ Calls = {Top} \cup SetOf(Return)
    BY <1>0, TopFrame
  <1>2. PICK c : c = [Top EXCEPT !.rest = @ \ {z}] OBVIOUS
  <1>3. /\ c \in Frame /\ Same(c, Top) /\ c.op = "destroy" /\ c.list = Top.list
        /\ c.rest = Top.rest \ {z} /\ \A n : W(c, n) = W(Top, n)
    BY <1>0, <1>2, DestroyTop
  <1>4. /\ type[z] = "object" /\ (type[Holder(z)] # "store" \/ rc[Holder(z)] > 0)
        /\ stack' = Goto(c) /\ UNCHANGED <<type, content, rc>> /\ UNCHANGED gcVars
        /\ UNCHANGED ext
    BY <1>2 DEF DestroySkip, heapVars, Working
  <1>5. Top.op \notin Collects /\ Top.op # "black" BY DEF Collects
  <1>6. Holder(z) \in Obj /\ content[z] = {Holder(z)} BY <1>0, <1>4, Handle DEF Base
  <1>7. Holder(z) \notin Doomed
    <2> SUFFICES ASSUME Holder(z) \in Doomed PROVE FALSE OBVIOUS
    <2>1. type[Holder(z)] = "store" BY DEF Doomed
    <2>2. rc[Holder(z)] = 0 BY <1>0, <1>5, <1>6, <2>1, DoomedCount
    <2> QED BY <1>4, <2>1, <2>2
  <1>8. \A o \in Doomed : Dooms(Top, o, content) => Dooms(c, o, content)
    BY <1>3, <1>6, <1>7 DEF Dooms
  <1>9. Pushed(stack', c, Return) BY <1>1, <1>3, <1>4, PushIs DEF Pushed, Goto
  <1>10. Calls' = {c} \cup SetOf(Return) BY <1>9, CallsSet DEF Pushed
  <1>11. /\ Owned = Own(Top) \cup OwnedBy(SetOf(Return))
         /\ Moved = Moves(Top) \cup MovedBy(SetOf(Return))
         /\ Stale = Drops(Top) \cup StaleBy(SetOf(Return))
         /\ InLists = Lists(Top) \cup ListedBy(SetOf(Return))
    BY <1>0, SplitSets DEF Base
  <1>12. Owned' = Owned /\ Moved' = Moved /\ Stale' = Stale /\ InLists' = InLists
    BY <1>3, <1>9, <1>11, CallsSet DEF Same, Owned, Moved, Stale, InLists, Pushed
  <1>13. Shape(stack') BY <1>0, <1>1, <1>3, <1>5, <1>9 DEF Pushed, Base, StackInv, Shape
  <1>14. \A d \in SetOf(Return) : PairOK(c, d) BY <1>1, <1>3 DEF PairOK, Same
  <1>15. StackInv' BY <1>0, <1>1, <1>9, <1>13, <1>14 DEF Pushed, Base, StackInv
  <1>16. Ordered(stack', Doomed, content)
    <2>1. Ordered(<<Top>> \o Return, Doomed, content)
      BY <1>0, <1>1 DEF Base, DoomInv, Pushed
    <2>2. Ordered(<<c>> \o Return, Doomed, content)
      <3>1. Return \in Seq(Frame) /\ c.op # "collected" BY <1>1, <1>3 DEF Pushed
      <3> QED BY <1>1, <1>3, <1>8, <2>1, <3>1, OrderedSwap
    <2> QED BY <1>9, <2>2 DEF Pushed
  <1>17. SameOwners BY <1>1, <1>8, <1>10, <1>12, <1>15, <1>16 DEF SameOwners
  <1>18. FrameOK(c)
    <2>1. ListHeld(c)
      BY <1>1, <1>3, <1>8 DEF FrameOK, ListHeld
    <2> QED BY <1>1, <1>3, <1>4, <2>1 DEF FrameOK
  <1>19. Base' /\ Dying' = Dying
    <2>1. \A d \in Calls' : d \in Calls \/ FrameOK(d) BY <1>1, <1>10, <1>18
    <2>2. RootTypes' /\ rc' \in [Node -> Int] BY <1>0, <1>4, RootTypesStill DEF Base, Types
    <2> QED BY <1>0, <1>4, <1>17, <2>1, <2>2, Still DEF Working
  <1>20. Gathered' = {} /\ Gathered = {}
    <2>1. GatheredBy(SetOf(Return)) = {} /\ Gathered = {}
      BY <1>0, <1>5, Waiting DEF Base, Collects
    <2> QED BY <1>3, <1>9, <2>1, CallsSet DEF Gathered, Gathers, Pushed
  <1>21. \A n \in Alive : rc'[n] - rc[n] = Weight(stack', n) - Weight(stack, n)
    <2> SUFFICES ASSUME NEW n \in Alive
                 PROVE rc'[n] - rc[n] = Weight(stack', n) - Weight(stack, n) OBVIOUS
    <2>1. Weight(stack', n) = W(c, n) + Weight(Return, n) BY <1>9 DEF Pushed
    <2>2. Weight(stack, n) = W(Top, n) + Weight(Return, n) /\ Weight(Return, n) \in Nat
      BY <1>1 DEF Pushed
    <2>3. rc[n] \in Int /\ rc'[n] = rc[n] BY <1>0, <1>4 DEF Base, Types, Alive
    <2> QED BY <1>3, <2>1, <2>2, <2>3, WType
  <1>22. Exact' BY <1>0, <1>4, <1>12, <1>19, <1>20, <1>21, StillExact DEF Trial, gcVars
  <1>23. Quiet' BY <1>0, <1>4, <1>5, <1>19, PhaseQuiet, QuietStill
  <1>24. Top'.op = "destroy" BY <1>3, <1>9 DEF Pushed, Top
  <1>25. Phase' BY <1>23, <1>24, PhaseQuietNext DEF Collects
  <1> QED BY <1>19, <1>22, <1>25 DEF GcInv
-----------------------------------------------------------------------------
\* Inside gc_collect_cycles: the heap is not changed, only counted and coloured.
Walks(c, op, rest, list) ==
    /\ c \in Frame /\ c.op = op /\ c.rest = rest /\ c.list = list
    /\ Bare(c) /\ FrameOK(c) /\ Gathers(c) = {} /\ \A n : W(c, n) = 0

\* The calls by which the collector marks and scans own and hold nothing.
LEMMA PhaseCall ==
  ASSUME NEW rest \in SUBSET Node, NEW list \in SUBSET (Zval \cup Slot)
  PROVE  /\ Walks(Gc("mark", rest, list), "mark", rest, list)
         /\ Walks(Gc("scan", rest, list), "scan", rest, list)
         /\ Walks(Gc("black", rest, list), "black", rest, list)
  <1>1. ASSUME NEW op \in {"mark", "scan", "black"}
        PROVE  Walks(Gc(op, rest, list), op, rest, list)
    <2>1. PICK c : c = Gc(op, rest, list) OBVIOUS
    <2>2. c.op = op /\ c.rest = rest /\ c.list = list BY <2>1 DEF Gc, Call
    <2>3. c \in Frame BY <2>1 DEF Gc, Call, Frame, Op
    <2>4. Bare(c) /\ FrameOK(c) /\ Gathers(c) = {}
      BY <2>2 DEF Bare, Own, Moves, Drops, Lists, FrameOK, Gathers
    <2>5. \A n : W(c, n) = 0 BY <2>2 DEF W, Refs, Keeps
    <2> QED BY <2>1, <2>2, <2>3, <2>4, <2>5 DEF Walks
  <1> QED BY <1>1

\* While the collector marks, scans and collects it owns nothing, and holds what it lists.
LEMMA PhaseTop ==
  ASSUME Base, stack # <<>>, Top.op \in Collects
  PROVE  /\ Bare(Top) /\ Top.op # "destroy" /\ Top \in Frame
         /\ Gathered = (IF Top.op = "collect" THEN Top.list ELSE {})
         /\ \A n : W(Top, n) = IF Top.op = "collect" /\ n \in Top.list THEN 1 ELSE 0
  <1>1. Bare(Top) BY DEF Bare, Own, Moves, Drops, Lists, Collects
  <1>2. Gathered = Gathers(Top) BY SplitSets DEF Base
  <1>3. \A n : W(Top, n) = IF Top.op = "collect" /\ n \in Top.list THEN 1 ELSE 0
    BY DEF W, Refs, Keeps, Collects
  <1> QED BY <1>1, <1>2, <1>3, TopFrame DEF Gathers, Collects

\* The collector goes on, as c: what that leaves alone.
PhaseKept(c) ==
    /\ Base' /\ Dying' = Dying /\ Alive' = Alive
    /\ Moved' = Moved /\ Stale' = Stale /\ Gathered' = Gathers(c)
    /\ \A n : /\ Weight(stack', n) = W(c, n) + Weight(Return, n)
              /\ Weight(stack, n) = W(Top, n) + Weight(Return, n)
              /\ Weight(Return, n) \in Nat
    /\ Top' = c /\ stack' # <<>> /\ Return' = Return

\* The collector goes on: the heap, and who owns what, are the same.
LEMMA PhaseGoto ==
  ASSUME Working, Top.op \in Collects, NEW c \in Frame, c.op \in Collects, Bare(c),
         FrameOK(c), c.op = "black" <=> Top.op = "black", stack' = Goto(c),
         UNCHANGED <<type, content>>, rc' \in [Node -> Int], RootTypes'
  PROVE  PhaseKept(c)
  <1>0. Base /\ stack # <<>> BY DEF Working, GcInv
  <1>1. Bare(Top) /\ Top.op # "destroy" BY <1>0, PhaseTop
  <1>2. Same(c, Top) /\ c.op \notin {"destroy", "collected"}
    BY <1>1 DEF Same, Bare, Collects
  <1>3. /\ SameOwners /\ Calls' = {c} \cup SetOf(Return) /\ Gathered' = Gathers(c)
        /\ Pushed(stack', c, Return)
    BY <1>0, <1>1, <1>2, StepGoto
  <1>4. Calls = {Top} \cup SetOf(Return) /\ Pushed(stack, Top, Return) BY <1>0, TopFrame
  <1>5. Base' /\ Dying' = Dying /\ Alive' = Alive BY <1>0, <1>3, <1>4, Still DEF Working
  <1>6. \A n : /\ Weight(stack', n) = W(c, n) + Weight(Return, n)
               /\ Weight(stack, n) = W(Top, n) + Weight(Return, n)
               /\ Weight(Return, n) \in Nat
    BY <1>3, <1>4 DEF Pushed
  <1>7. Top' = c /\ stack' # <<>> /\ Return' = Return BY <1>3 DEF Pushed, Top, Return
  <1> QED BY <1>3, <1>5, <1>6, <1>7 DEF PhaseKept, SameOwners

\* Nothing is counted or coloured: only the walk goes on.
LEMMA PhaseExact ==
  ASSUME Working, Top.op \in Collects \ {"collect"}, NEW c, c.op \in Collects,
         PhaseKept(c), Gathers(c) = {}, \A n : W(c, n) = 0,
         UNCHANGED <<type, content, rc>>, Trial' = Trial
  PROVE  Exact'
  <1>0. Base /\ Exact /\ stack # <<>> BY DEF Working, GcInv
  <1>1. Gathered = {} /\ \A n : W(Top, n) = 0 BY <1>0, PhaseTop
  <1>2. \A n \in Alive : rc'[n] - rc[n] = Weight(stack', n) - Weight(stack, n)
    <2> SUFFICES ASSUME NEW n \in Alive
                 PROVE rc'[n] - rc[n] = Weight(stack', n) - Weight(stack, n) OBVIOUS
    <2>1. Weight(stack', n) = Weight(stack, n) /\ Weight(stack, n) \in Nat
      BY <1>1 DEF PhaseKept
    <2>2. rc'[n] = rc[n] /\ rc[n] \in Int BY <1>0 DEF Base, Types, Alive
    <2> QED BY <2>1, <2>2
  <1> QED BY <1>0, <1>1, <1>2, StillExact DEF PhaseKept, Working

\* One less refers to the node.
LEMMA PredsLess ==
  ASSUME NEW n, NEW k, k \in Preds(n), Preds(n)' = Preds(n) \ {k}
  PROVE  Cardinality(Preds(n)') = Cardinality(Preds(n)) - 1
  BY PredsCount, CountRemove

\* One more refers to the node.
LEMMA PredsMore ==
  ASSUME NEW n, NEW k, k \notin Preds(n), Preds(n)' = Preds(n) \cup {k}
  PROVE  Cardinality(Preds(n)') = Cardinality(Preds(n)) + 1
  BY PredsCount, CountAdd

\* A node that is not dying is counted as a predecessor, unless it is on trial.
LEMMA NotSpent ==
  ASSUME Base, stack # <<>>, NEW n, n \notin Dying, n \notin Gathered
  PROVE  n \notin Spent
  <1>1. Moved \subseteq Owned /\ Stale \subseteq Owned BY SetParts DEF Base, StackInv
  <1> QED BY <1>1 DEF Spent, Dying

\* One node of a collection changes its colour, and with it the counts of what
\* it contains: by less than nothing when it goes on trial.
LEMMA TrialBegins ==
  ASSUME Working, Top.op \in Collects \ {"collect"}, NEW c, c.op \in Collects,
         PhaseKept(c), Gathers(c) = {}, \A m : W(c, m) = 0, UNCHANGED <<type, content>>,
         NEW n \in Node \ Dying, n \notin Trial, Trial' = Trial \cup {n},
         rc' = [m \in Node |-> IF m \in content[n] THEN rc[m] + -1 ELSE rc[m]]
  PROVE  Exact'
  <1>0. Base /\ Exact /\ stack # <<>> BY DEF Working, GcInv
  <1>1. Gathered = {} /\ \A m : W(Top, m) = 0 BY <1>0, PhaseTop
  <1>2. n \notin Spent BY <1>0, <1>1, NotSpent
  <1>3. Spent' = Spent BY <1>1 DEF PhaseKept, Spent
  <1>4. ASSUME NEW m \in Alive
        PROVE  rc'[m] = Ext(m)' + Cardinality(Preds(m)') + Weight(stack', m)
    <2>1. rc[m] = Ext(m) + Cardinality(Preds(m)) + Weight(stack, m) /\ m \in Node
      BY <1>0 DEF Exact, Alive
    <2>2. /\ Ext(m)' = Ext(m) /\ rc[m] \in Int /\ Ext(m) \in Nat
          /\ Cardinality(Preds(m)) \in Nat /\ Weight(stack, m) \in Nat
      BY <1>0, <2>1, Numbers DEF Ext, Working
    <2>3. Weight(stack', m) = Weight(stack, m) BY <1>1, <2>2 DEF PhaseKept
    <2>4. CASE m \in content[n]
      <3>1. n \in Preds(m) BY <1>2, <2>4 DEF Preds
      <3>2. Preds(m)' = Preds(m) \ {n} BY <1>3 DEF Preds
      <3>3. Cardinality(Preds(m)') = Cardinality(Preds(m)) - 1 BY <3>1, <3>2, PredsLess
      <3> QED BY <2>1, <2>2, <2>3, <2>4, <3>3
    <2>5. CASE m \notin content[n]
      <3>1. Preds(m)' = Preds(m) BY <1>3, <2>5 DEF Preds
      <3> QED BY <2>1, <2>2, <2>3, <2>5, <3>1
    <2> QED BY <2>4, <2>5
  <1> QED BY <1>4 DEF Exact, PhaseKept

\* The references of n count again, and so the counts are exact.
LEMMA TrialEnds ==
  ASSUME Working, Top.op \in Collects \ {"collect"}, NEW c, c.op \in Collects,
         PhaseKept(c), Gathers(c) = {}, \A m : W(c, m) = 0, UNCHANGED <<type, content>>,
         NEW n \in Node \ Dying, n \in Trial, Trial' = Trial \ {n},
         rc' = [m \in Node |-> IF m \in content[n] THEN rc[m] + 1 ELSE rc[m]]
  PROVE  Exact'
  <1>0. Base /\ Exact /\ stack # <<>> BY DEF Working, GcInv
  <1>1. Gathered = {} /\ \A m : W(Top, m) = 0 BY <1>0, PhaseTop
  <1>2. n \notin Spent BY <1>0, <1>1, NotSpent
  <1>3. Spent' = Spent BY <1>1 DEF PhaseKept, Spent
  <1>4. ASSUME NEW m \in Alive
        PROVE  rc'[m] = Ext(m)' + Cardinality(Preds(m)') + Weight(stack', m)
    <2>1. rc[m] = Ext(m) + Cardinality(Preds(m)) + Weight(stack, m) /\ m \in Node
      BY <1>0 DEF Exact, Alive
    <2>2. /\ Ext(m)' = Ext(m) /\ rc[m] \in Int /\ Ext(m) \in Nat
          /\ Cardinality(Preds(m)) \in Nat /\ Weight(stack, m) \in Nat
      BY <1>0, <2>1, Numbers DEF Ext, Working
    <2>3. Weight(stack', m) = Weight(stack, m) BY <1>1, <2>2 DEF PhaseKept
    <2>4. CASE m \in content[n]
      <3>1. n \notin Preds(m) BY DEF Preds
      <3>2. Preds(m)' = Preds(m) \cup {n} BY <1>2, <1>3, <2>4 DEF Preds
      <3>3. Cardinality(Preds(m)') = Cardinality(Preds(m)) + 1 BY <3>1, <3>2, PredsMore
      <3> QED BY <2>1, <2>2, <2>3, <2>4, <3>3
    <2>5. CASE m \notin content[n]
      <3>1. Preds(m)' = Preds(m) BY <1>3, <2>5 DEF Preds
      <3> QED BY <2>1, <2>2, <2>3, <2>5, <3>1
    <2> QED BY <2>4, <2>5
  <1> QED BY <1>4 DEF Exact, PhaseKept
-----------------------------------------------------------------------------
\* What holds while the collector marks, scans and collects.
LEMMA PhaseIs ==
  ASSUME Phase, stack # <<>>
  PROVE  /\ Top.op = "mark" => MarkInv(Top)
         /\ Top.op = "scan" => ScanInv(Top, {})
         /\ Top.op = "black" => ScanInv(Head(Return), Top.rest)
         /\ Top.op = "collect" => CollectInv(Top)
  BY DEF Phase

\* What a live node contains is alive.
LEMMA SoundContent ==
  ASSUME Base, NEW n \in Node \ Dying
  PROVE  \A m \in content[n] : m \in Node \ Dying /\ (m \in Zval => m \in Alive)
  BY DEF Base, Closed, Types, Alive

\* A root is a node.
LEMMA RootNode ==
  ASSUME Base, NEW s \in Roots
  PROVE  slots[s] \in Node /\ s \in Slot
  BY DEF Base, RootTypes, Roots

\* gc_mark_roots turns to a root, or drops one that is no longer purple.
LEMMA MarkRootStep ==
  ASSUME Working, NEW s \in Slot, MarkRoot(s)
  PROVE  GcInv'
  <1>0. Base /\ Exact /\ Phase /\ stack # <<>> /\ RootsLive BY DEF Working, GcInv
  <1>1. Top.op = "mark" /\ Top.rest = {} /\ s \in Top.list
        /\ UNCHANGED <<type, content, rc>> /\ UNCHANGED color
    BY DEF MarkRoot, heapVars
  <1>2. MarkInv(Top) BY <1>0, <1>1, PhaseIs
  <1>3. s \in Roots /\ slots[s] \in Node /\ Top.list \subseteq Slot
    BY <1>0, <1>1, <1>2, RootNode DEF MarkInv, Roots
  <1>4. PICK n \in Node : n = slots[s] BY <1>3
  <1>5. Trial' = Trial BY <1>1 DEF Trial
  <1>6. rc' \in [Node -> Int] /\ RootTypes BY <1>0, <1>1 DEF Base, Types
  <1>7. CASE color[n] = "purple"
    <2>1. PICK c : c = Gc("mark", {n}, Top.list \ {s}) OBVIOUS
    <2>2. stack' = Goto(c) /\ UNCHANGED gcVars
      BY <1>1, <1>4, <1>7, <2>1 DEF MarkRoot, gcVars
    <2>3. /\ c \in Frame /\ c.op = "mark" /\ c.rest = {n} /\ c.list = Top.list \ {s}
          /\ Bare(c) /\ FrameOK(c) /\ Gathers(c) = {} /\ \A m : W(c, m) = 0
      <3>1. {n} \in SUBSET Node /\ Top.list \ {s} \in SUBSET (Zval \cup Slot) BY <1>3
      <3>2. Walks(Gc("mark", {n}, Top.list \ {s}), "mark", {n}, Top.list \ {s})
        BY <3>1, PhaseCall
      <3> QED BY <2>1, <3>2 DEF Walks
    <2>4. RootTypes' BY <1>6, <2>2, RootTypesStill
    <2>5. PhaseKept(c)
      BY <1>1, <1>6, <2>2, <2>3, <2>4, PhaseGoto DEF Collects
    <2>6. Exact' BY <1>1, <1>5, <2>3, <2>5, PhaseExact DEF Collects
    <2>7. n \notin Dying /\ (n \in Zval => n \in Alive)
      BY <1>0, <1>1, <1>2, <1>3, <1>4, <1>7 DEF MarkInv, RootsLive, Alive
    <2>8. Roots' = Roots /\ Painted("grey")' = Painted("grey")
          /\ Painted("white")' = Painted("white") /\ slots' = slots /\ color' = color
          /\ content' = content
      BY <1>1, <2>2 DEF Roots, Painted, gcVars
    <2>9. MarkInv(c)'
      <3>1. c.list \subseteq Roots' /\ Painted("white")' = {}
        BY <1>2, <2>3, <2>8 DEF MarkInv
      <3>2. Sound(c.rest)' /\ Sound(Painted("grey"))'
        BY <1>2, <2>3, <2>5, <2>7, <2>8 DEF MarkInv, Sound, PhaseKept
      <3>3. c.rest \cap Painted("grey")' = {} BY <1>7, <2>3, <2>8 DEF Painted
      <3>4. \A r \in c.list : color'[slots'[r]] = "purple" => slots'[r] \notin Dying'
        BY <1>2, <2>3, <2>5, <2>8 DEF MarkInv, PhaseKept
      <3>5. \A r \in Roots' \ c.list : slots'[r] \notin Dying'
        BY <1>2, <1>4, <2>3, <2>5, <2>7, <2>8 DEF MarkInv, PhaseKept
      <3>6. \A m \in Painted("grey")' : content'[m] \subseteq Painted("grey")' \cup c.rest
        BY <1>1, <1>2, <2>8 DEF MarkInv
      <3>7. Reaches(InSlots(Roots \ c.list), Painted("grey"), Painted("grey") \cup c.rest)'
        <4>1. SUFFICES ASSUME NEW X \in SUBSET Node, InSlots(Roots \ c.list)' \subseteq X,
                              \A m \in X \cap Painted("grey")' : content'[m] \subseteq X
                       PROVE  Painted("grey")' \cup c.rest \subseteq X
          BY DEF Reaches
        <4>2. InSlots(Roots \ Top.list) \subseteq X BY <2>3, <2>8, <4>1 DEF InSlots
        <4>3. n \in X
          <5>1. slots[s] \in InSlots(Roots \ c.list)' BY <1>3, <2>3, <2>8 DEF InSlots
          <5> QED BY <1>4, <4>1, <5>1
        <4>4. Painted("grey") \subseteq X BY <1>2, <2>8, <4>1, <4>2 DEF MarkInv, Reaches
        <4> QED BY <2>3, <2>8, <4>3, <4>4
      <3> QED BY <3>1, <3>2, <3>3, <3>4, <3>5, <3>6, <3>7 DEF MarkInv
    <2> QED BY <2>3, <2>5, <2>6, <2>9 DEF GcInv, Phase, PhaseKept
  <1>8. CASE color[n] # "purple"
    <2>1. PICK c : c = Gc("mark", {}, Top.list \ {s}) OBVIOUS
    <2>2. /\ stack' = Goto(c) /\ slots' = [slots EXCEPT ![s] = None]
          /\ addr' = [addr EXCEPT ![n] = 0]
      BY <1>1, <1>4, <1>8, <2>1 DEF MarkRoot
    <2>3. /\ c \in Frame /\ c.op = "mark" /\ c.rest = {} /\ c.list = Top.list \ {s}
          /\ Bare(c) /\ FrameOK(c) /\ Gathers(c) = {} /\ \A m : W(c, m) = 0
      <3>1. {} \in SUBSET Node /\ Top.list \ {s} \in SUBSET (Zval \cup Slot) BY <1>3
      <3>2. Walks(Gc("mark", {}, Top.list \ {s}), "mark", {}, Top.list \ {s})
        BY <3>1, PhaseCall
      <3> QED BY <2>1, <3>2 DEF Walks
    <2>4. RootTypes'
      <3>1. /\ addr' \in [Node -> {0} \cup Slot] /\ slots' \in [Slot -> Node \cup {None}]
            /\ color' \in [Node -> {"black", "grey", "white", "purple"}]
        BY <1>1, <1>6, <2>2 DEF RootTypes
      <3>2. ASSUME NEW m \in Node, addr'[m] # 0 PROVE slots'[addr'[m]] = m
        <4>1. m # n /\ addr'[m] = addr[m] BY <1>6, <2>2, <3>2 DEF RootTypes
        <4>2. slots[addr[m]] = m /\ addr[m] \in Slot BY <1>6, <3>2, <4>1 DEF RootTypes
        <4>3. addr[m] # s BY <1>4, <4>1, <4>2
        <4> QED BY <1>6, <2>2, <4>1, <4>2, <4>3 DEF RootTypes
      <3> QED BY <3>1, <3>2 DEF RootTypes
    <2>5. PhaseKept(c)
      BY <1>1, <1>6, <2>2, <2>3, <2>4, PhaseGoto DEF Collects
    <2>6. Exact' BY <1>1, <1>5, <2>3, <2>5, PhaseExact DEF Collects
    <2>7. \A r \in Slot : slots'[r] = IF r = s THEN None ELSE slots[r]
      BY <1>6, <2>2 DEF RootTypes
    <2>8. Roots' = Roots \ {s} BY <2>7 DEF Roots
    <2>9. Painted("grey")' = Painted("grey") /\ Painted("white")' = Painted("white")
      BY <1>1 DEF Painted
    <2>10. Roots' \ c.list = Roots \ Top.list BY <1>1, <2>3, <2>8
    <2>11. \A r \in Roots' : slots'[r] = slots[r] BY <2>7, <2>8 DEF Roots
    <2>12. InSlots(Roots \ c.list)' = InSlots(Roots \ Top.list)
      BY <2>10, <2>11 DEF InSlots
    <2>13. MarkInv(c)'
      <3>1. c.list \subseteq Roots' /\ Painted("white")' = {}
        BY <1>2, <2>3, <2>8, <2>9 DEF MarkInv
      <3>2. Sound(c.rest)' /\ Sound(Painted("grey"))'
        BY <1>2, <2>3, <2>5, <2>9 DEF MarkInv, Sound, PhaseKept
      <3>3. c.rest \cap Painted("grey")' = {} BY <2>3
      <3>4. \A r \in c.list : color'[slots'[r]] = "purple" => slots'[r] \notin Dying'
        BY <1>1, <1>2, <2>3, <2>5, <2>11, <3>1 DEF MarkInv, PhaseKept
      <3>5. \A r \in Roots' \ c.list : slots'[r] \notin Dying'
        BY <1>2, <2>5, <2>10, <2>11 DEF MarkInv, PhaseKept
      <3>6. \A m \in Painted("grey")' : content'[m] \subseteq Painted("grey")' \cup c.rest
        BY <1>1, <1>2, <2>9 DEF MarkInv
      <3>7. Reaches(InSlots(Roots \ c.list), Painted("grey"), Painted("grey") \cup c.rest)'
        <4>1. SUFFICES ASSUME NEW X \in SUBSET Node, InSlots(Roots \ c.list)' \subseteq X,
                              \A m \in X \cap Painted("grey")' : content'[m] \subseteq X
                       PROVE  Painted("grey")' \cup c.rest \subseteq X
          BY DEF Reaches
        <4>2. /\ InSlots(Roots \ Top.list) \subseteq X
              /\ \A m \in X \cap Painted("grey") : content[m] \subseteq X
          BY <1>1, <2>9, <2>12, <4>1
        <4>3. Painted("grey") \subseteq X BY <1>2, <4>2 DEF MarkInv, Reaches
        <4> QED BY <2>3, <2>9, <4>3
      <3> QED BY <3>1, <3>2, <3>3, <3>4, <3>5, <3>6, <3>7 DEF MarkInv
    <2> QED BY <2>3, <2>5, <2>6, <2>13 DEF GcInv, Phase, PhaseKept
  <1> QED BY <1>7, <1>8

\* zval_mark_grey: the references of the node are on trial.
LEMMA MarkGreyStep ==
  ASSUME Working, NEW n \in Node, MarkGrey(n)
  PROVE  GcInv'
  <1>0. Base /\ Exact /\ Phase /\ stack # <<>> /\ RootsLive BY DEF Working, GcInv
  <1>1. /\ Top.op = "mark" /\ n \in Top.rest /\ UNCHANGED <<type, content>>
        /\ UNCHANGED <<addr, slots>> /\ color' = [color EXCEPT ![n] = "grey"]
        /\ rc' = [m \in Node |-> IF m \in content[n] THEN rc[m] + -1 ELSE rc[m]]
    BY DEF MarkGrey, Paint, Add
  <1>2. MarkInv(Top) BY <1>0, <1>1, PhaseIs
  <1>3. RootTypes /\ rc \in [Node -> Int] /\ content[n] \subseteq Node
    BY <1>0 DEF Base, Types
  <1>4. Top \in Frame BY <1>0, TopFrame
  <1>5. PICK rest \in SUBSET Node :
          rest = {m \in (Top.rest \cup content[n]) \ {n} : color[m] # "grey"}
    BY <1>3, <1>4 DEF Frame
  <1>9. PICK d : d = [Top EXCEPT !.rest =
                        {m \in (@ \cup content[n]) \ {n} : color[m] # "grey"}]
    OBVIOUS
  <1>10. d \in Frame /\ d.op = "mark" /\ d.rest = rest /\ d.list = Top.list
    BY <1>1, <1>4, <1>5, <1>9 DEF Frame
  <1>11. /\ Bare(d) /\ FrameOK(d) /\ Gathers(d) = {} /\ \A m : W(d, m) = 0
    BY <1>10 DEF Bare, Own, Moves, Drops, Lists, FrameOK, Gathers, W, Refs, Keeps
  <1>12. stack' = Goto(d) BY <1>9 DEF MarkGrey
  <1>13. rc' \in [Node -> Int] /\ RootTypes'
    BY <1>1, <1>3 DEF RootTypes
  <1>14. PhaseKept(d) BY <1>1, <1>10, <1>11, <1>12, <1>13, PhaseGoto DEF Collects
  <1>15. \A m \in Node : color'[m] = IF m = n THEN "grey" ELSE color[m]
    BY <1>1, <1>3 DEF RootTypes
  <1>16. /\ Painted("grey")' = Painted("grey") \cup {n}
         /\ Painted("white")' = Painted("white") \ {n}
         /\ Trial' = Trial \cup {n}
    BY <1>15 DEF Painted, Trial
  <1>17. n \notin Dying /\ (n \in Zval => n \in Alive) /\ n \notin Trial
    BY <1>1, <1>2 DEF MarkInv, Sound, Trial, Painted
  <1>18. Exact'
    BY <1>1, <1>10, <1>11, <1>14, <1>16, <1>17, TrialBegins DEF Collects
  <1>19. Roots' = Roots /\ slots' = slots /\ content' = content BY <1>1 DEF Roots
  <1>20. \A m \in content[n] : m \in Node \ Dying /\ (m \in Zval => m \in Alive)
    BY <1>0, <1>17, SoundContent
  <1>21. MarkInv(d)'
    <2>1. d.list \subseteq Roots' /\ Painted("white")' = {}
      BY <1>2, <1>10, <1>16, <1>19 DEF MarkInv
    <2>2. Sound(d.rest)' /\ Sound(Painted("grey"))'
      <3>1. Sound(rest) BY <1>2, <1>5, <1>20 DEF MarkInv, Sound
      <3>2. Sound(Painted("grey") \cup {n}) BY <1>2, <1>17 DEF MarkInv, Sound
      <3> QED BY <1>10, <1>14, <1>16, <3>1, <3>2 DEF Sound, PhaseKept
    <2>3. d.rest \cap Painted("grey")' = {} BY <1>5, <1>10, <1>16 DEF Painted
    <2>4. \A r \in d.list : color'[slots'[r]] = "purple" => slots'[r] \notin Dying'
      <3>1. \A r \in Top.list : slots[r] \in Node BY <1>0, <1>2, RootNode DEF MarkInv
      <3> QED BY <1>2, <1>10, <1>14, <1>15, <1>19, <3>1 DEF MarkInv, PhaseKept
    <2>5. \A r \in Roots' \ d.list : slots'[r] \notin Dying'
      BY <1>2, <1>10, <1>14, <1>19 DEF MarkInv, PhaseKept
    <2>6. \A m \in Painted("grey")' : content'[m] \subseteq Painted("grey")' \cup d.rest
      <3> SUFFICES ASSUME NEW m \in Painted("grey")', NEW k \in content[m]
                   PROVE  k \in Painted("grey")' \cup d.rest
        BY <1>19
      <3>1. k \in Painted("grey") \cup Top.rest \cup content[n]
        BY <1>2, <1>16 DEF MarkInv
      <3>2. k \in Node BY <1>2, <1>20, <3>1 DEF MarkInv, Sound
      <3> QED BY <1>5, <1>10, <1>16, <3>1, <3>2 DEF Painted
    <2>7. Reaches(InSlots(Roots \ d.list), Painted("grey"), Painted("grey") \cup d.rest)'
      <3>1. SUFFICES ASSUME NEW X \in SUBSET Node, InSlots(Roots \ d.list)' \subseteq X,
                            \A m \in X \cap Painted("grey")' : content'[m] \subseteq X
                     PROVE  Painted("grey")' \cup d.rest \subseteq X
        BY DEF Reaches
      <3>2. InSlots(Roots \ Top.list) \subseteq X BY <1>10, <1>19, <3>1 DEF InSlots
      <3>3. Painted("grey") \cup Top.rest \subseteq X
        BY <1>2, <1>16, <1>19, <3>1, <3>2 DEF MarkInv, Reaches
      <3>4. n \in X BY <1>1, <3>3
      <3>5. content[n] \subseteq X BY <1>16, <1>19, <3>1, <3>4
      <3> QED BY <1>5, <1>10, <1>16, <3>3, <3>4, <3>5
    <2> QED BY <2>1, <2>2, <2>3, <2>4, <2>5, <2>6, <2>7 DEF MarkInv
  <1> QED BY <1>10, <1>14, <1>18, <1>21 DEF GcInv, Phase, PhaseKept
-----------------------------------------------------------------------------
\* gc_mark_roots is done: all roots are grey, and scanning begins.
LEMMA MarkDoneStep ==
  ASSUME Working, MarkDone
  PROVE  GcInv'
  <1>0. Base /\ Exact /\ Phase /\ stack # <<>> BY DEF Working, GcInv
  <1>1. /\ Top.op = "mark" /\ Top.rest = {} /\ Top.list = {}
        /\ UNCHANGED <<type, content, rc>> /\ UNCHANGED gcVars
    BY DEF MarkDone, heapVars
  <1>2. MarkInv(Top) BY <1>0, <1>1, PhaseIs
  <1>3. PICK c : c = Gc("scan", {}, Roots) OBVIOUS
  <1>4. Walks(c, "scan", {}, Roots)
    <2>1. {} \in SUBSET Node /\ Roots \in SUBSET (Zval \cup Slot) BY DEF Roots
    <2>2. Walks(Gc("scan", {}, Roots), "scan", {}, Roots) BY <2>1, PhaseCall
    <2> QED BY <1>3, <2>2
  <1>5. rc' \in [Node -> Int] /\ RootTypes'
    BY <1>0, <1>1, RootTypesStill DEF Base, Types
  <1>6. PhaseKept(c)
    <2>1. stack' = Goto(c) BY <1>3 DEF MarkDone
    <2> QED BY <1>1, <1>4, <1>5, <2>1, PhaseGoto DEF Collects, Walks
  <1>7. Exact'
    <2>1. Trial' = Trial BY <1>1 DEF Trial, gcVars
    <2> QED BY <1>1, <1>4, <1>6, <2>1, PhaseExact DEF Collects, Walks
  <1>8. Trial = Painted("grey") BY <1>2 DEF MarkInv, Trial, Painted
  <1>9. /\ Trial' = Trial /\ Roots' = Roots /\ slots' = slots /\ content' = content
        /\ Painted("grey")' = Painted("grey") /\ Painted("white")' = {}
        /\ Painted("black")' = Painted("black") /\ c.list = Roots /\ c.rest = {}
        /\ Dying' = Dying /\ Alive' = Alive
    BY <1>1, <1>2, <1>4, <1>6
       DEF Trial, Roots, Painted, gcVars, MarkInv, Walks, PhaseKept
  <1>10. ScanInv(c, {})'
    <2>1. Sound(c.rest)' /\ Sound(Trial)' BY <1>2, <1>8, <1>9 DEF MarkInv, Sound
    <2>2. \A s \in Roots' : slots'[s] \notin Dying' BY <1>1, <1>2, <1>9 DEF MarkInv
    <2>3. \A m \in Trial' : content'[m] \subseteq Trial' \cup Painted("black")'
      BY <1>1, <1>2, <1>8, <1>9 DEF MarkInv
    <2>4. \A X \in SUBSET Node :
            InSlots(Roots) \subseteq X /\ (\A m \in X \cap Trial : content[m] \subseteq X)
              => Trial \subseteq X
      <3>1. InSlots(Roots \ Top.list) = InSlots(Roots) BY <1>1
      <3> QED BY <1>1, <1>2, <1>8, <3>1 DEF MarkInv, Reaches
    <2>5. InSlots(Roots)' = InSlots(Roots) /\ InSlots(c.list)' = InSlots(Roots)
      BY <1>9 DEF InSlots
    <2>6. Covers(InSlots(Roots) \cup {}, Trial)'
          /\ Covers(InSlots(c.list) \cup c.rest \cup {}, Painted("grey"))'
      BY <1>8, <1>9, <2>4, <2>5 DEF Covers, Reaches
    <2> QED BY <1>9, <2>1, <2>2, <2>3, <2>6 DEF ScanInv
  <1> QED BY <1>4, <1>6, <1>7, <1>10 DEF GcInv, Phase, PhaseKept, Walks

\* What the scan depends on is the same, but for the calls' sets.
ScanKept(c, d, r, s) ==
    /\ Sound(d.rest) /\ d.list \subseteq c.list /\ s \subseteq Trial /\ r \subseteq s
    /\ \A X \in SUBSET Node : InSlots(d.list) \cup d.rest \cup s \subseteq X
          => \E Y \in SUBSET Node :
                /\ X \subseteq Y /\ InSlots(c.list) \cup c.rest \cup r \subseteq Y
                /\ Y \cap Painted("grey") \subseteq X

\* The scan goes on without a change of colours and counts.
LEMMA ScanStill ==
  ASSUME NEW c, NEW d, NEW r, NEW s, ScanInv(c, r), ScanKept(c, d, r, s),
         UNCHANGED gcVars, UNCHANGED <<content, rc>>, Dying' = Dying, Alive' = Alive
  PROVE  ScanInv(d, s)'
  <1>1. /\ Trial' = Trial /\ Roots' = Roots /\ slots' = slots
        /\ \A k : Painted(k)' = Painted(k)
    BY DEF Trial, Roots, Painted, gcVars
  <1>2. \A S : InSlots(S)' = InSlots(S) BY <1>1 DEF InSlots
  <1>3. d.list \subseteq Roots' /\ Sound(d.rest)' /\ Sound(Trial)' /\ s \subseteq Trial'
    BY <1>1 DEF ScanInv, Sound, ScanKept
  <1>4. \A k \in Roots' : slots'[k] \notin Dying' BY <1>1 DEF ScanInv
  <1>5. \A m \in Trial' : content'[m] \subseteq Trial' \cup Painted("black")'
    BY <1>1 DEF ScanInv
  <1>6. Covers(InSlots(Roots) \cup s, Trial)'
    <2>1. InSlots(Roots)' = InSlots(Roots) BY <1>1, <1>2
    <2> QED BY <1>1, <2>1 DEF ScanInv, Covers, Reaches, ScanKept
  <1>7. Covers(InSlots(d.list) \cup d.rest \cup s, Painted("grey"))'
    <2>1. SUFFICES ASSUME NEW X \in SUBSET Node,
                          InSlots(d.list) \cup d.rest \cup s \subseteq X,
                          \A m \in X \cap Painted("grey") : content[m] \subseteq X
                   PROVE  Painted("grey") \subseteq X
      BY <1>1, <1>2 DEF Covers, Reaches
    <2>2. PICK Y \in SUBSET Node :
                    /\ X \subseteq Y /\ InSlots(c.list) \cup c.rest \cup r \subseteq Y
                    /\ Y \cap Painted("grey") \subseteq X
      BY <2>1 DEF ScanKept
    <2>3. \A m \in Y \cap Painted("grey") : content[m] \subseteq Y BY <2>1, <2>2
    <2>4. Painted("grey") \subseteq Y BY <2>2, <2>3 DEF ScanInv, Covers, Reaches
    <2> QED BY <2>2, <2>4
  <1>8. \A n \in Painted("white")' : rc'[n] <= 0 \/ n \in s BY <1>1 DEF ScanInv, ScanKept
  <1> QED BY <1>3, <1>4, <1>5, <1>6, <1>7, <1>8 DEF ScanInv

\* gc_scan_roots turns to a root.
LEMMA ScanRootStep ==
  ASSUME Working, NEW s \in Slot, ScanRoot(s)
  PROVE  GcInv'
  <1>0. Base /\ Exact /\ Phase /\ stack # <<>> /\ RootsLive BY DEF Working, GcInv
  <1>1. /\ Top.op = "scan" /\ Top.rest = {} /\ s \in Top.list
        /\ UNCHANGED <<type, content, rc>> /\ UNCHANGED gcVars
    BY DEF ScanRoot, heapVars
  <1>2. ScanInv(Top, {}) BY <1>0, <1>1, PhaseIs
  <1>3. s \in Roots /\ slots[s] \in Node /\ Top.list \subseteq Slot
    BY <1>0, <1>1, <1>2, RootNode DEF ScanInv, Roots
  <1>4. PICK n \in Node : n = slots[s] BY <1>3
  <1>5. PICK c : c = Gc("scan", {n}, Top.list \ {s}) OBVIOUS
  <1>6. Walks(c, "scan", {n}, Top.list \ {s})
    <2>1. {n} \in SUBSET Node /\ Top.list \ {s} \in SUBSET (Zval \cup Slot) BY <1>3
    <2>2. Walks(Gc("scan", {n}, Top.list \ {s}), "scan", {n}, Top.list \ {s})
      BY <2>1, PhaseCall
    <2> QED BY <1>5, <2>2
  <1>7. rc' \in [Node -> Int] /\ RootTypes'
    BY <1>0, <1>1, RootTypesStill DEF Base, Types
  <1>8. PhaseKept(c)
    <2>1. stack' = Goto(c) BY <1>4, <1>5 DEF ScanRoot
    <2> QED BY <1>1, <1>6, <1>7, <2>1, PhaseGoto DEF Collects, Walks
  <1>9. Exact'
    <2>1. Trial' = Trial BY <1>1 DEF Trial, gcVars
    <2> QED BY <1>1, <1>6, <1>8, <2>1, PhaseExact DEF Collects, Walks
  <1>10. ScanInv(c, {})'
    <2>1. c.rest = {n} /\ c.list = Top.list \ {s} BY <1>6 DEF Walks
    <2>2. n \in Node \ Dying /\ (n \in Zval => n \in Alive)
      BY <1>0, <1>2, <1>3, <1>4 DEF ScanInv, RootsLive, Alive
    <2>3. Sound(c.rest) /\ c.list \subseteq Top.list BY <2>1, <2>2 DEF Sound
    <2>4. ASSUME NEW X \in SUBSET Node, InSlots(c.list) \cup c.rest \cup {} \subseteq X
          PROVE  \E Y \in SUBSET Node :
                    /\ X \subseteq Y /\ InSlots(Top.list) \cup Top.rest \cup {} \subseteq Y
                    /\ Y \cap Painted("grey") \subseteq X
      <3>1. InSlots(Top.list) \subseteq X BY <1>4, <2>1, <2>4 DEF InSlots
      <3> QED BY <1>1, <3>1
    <2>5. Dying' = Dying /\ Alive' = Alive BY <1>8 DEF PhaseKept
    <2>6. ScanKept(Top, c, {}, {}) BY <2>3, <2>4 DEF ScanKept
    <2> QED BY <1>1, <1>2, <2>5, <2>6, ScanStill
  <1> QED BY <1>6, <1>8, <1>9, <1>10 DEF GcInv, Phase, PhaseKept, Walks

\* The node is not grey: the scan has been there, or must not go there.
LEMMA ScanOtherStep ==
  ASSUME Working, NEW n \in Node, Top.op = "scan", n \in Top.rest, color[n] # "grey",
         stack' = Goto([Top EXCEPT !.rest = @ \ {n}]),
         UNCHANGED <<type, content, rc>>, UNCHANGED gcVars
  PROVE  GcInv'
  <1>0. Base /\ Exact /\ Phase /\ stack # <<>> BY DEF Working, GcInv
  <1>1. ScanInv(Top, {}) BY <1>0, PhaseIs
  <1>2. Top \in Frame BY <1>0, TopFrame
  <1>3. PICK c : c = [Top EXCEPT !.rest = @ \ {n}] OBVIOUS
  <1>4. c \in Frame /\ c.op = "scan" /\ c.rest = Top.rest \ {n} /\ c.list = Top.list
    BY <1>2, <1>3 DEF Frame
  <1>5. /\ Bare(c) /\ FrameOK(c) /\ Gathers(c) = {} /\ \A m : W(c, m) = 0
    BY <1>4 DEF Bare, Own, Moves, Drops, Lists, FrameOK, Gathers, W, Refs, Keeps
  <1>6. rc' \in [Node -> Int] /\ RootTypes' BY <1>0, RootTypesStill DEF Base, Types
  <1>7. PhaseKept(c) BY <1>3, <1>4, <1>5, <1>6, PhaseGoto DEF Collects
  <1>8. Exact'
    <2>1. Trial' = Trial BY DEF Trial, gcVars
    <2> QED BY <1>4, <1>5, <1>7, <2>1, PhaseExact DEF Collects
  <1>9. ScanInv(c, {})'
    <2>1. Sound(c.rest) /\ c.list \subseteq Top.list BY <1>1, <1>4 DEF ScanInv, Sound
    <2>2. ASSUME NEW X \in SUBSET Node, InSlots(c.list) \cup c.rest \cup {} \subseteq X
          PROVE  \E Y \in SUBSET Node :
                    /\ X \subseteq Y /\ InSlots(Top.list) \cup Top.rest \cup {} \subseteq Y
                    /\ Y \cap Painted("grey") \subseteq X
      <3>1. X \cup {n} \in SUBSET Node
            /\ InSlots(Top.list) \cup Top.rest \cup {} \subseteq X \cup {n}
        BY <1>4, <2>2
      <3>2. n \notin Painted("grey") BY DEF Painted
      <3> QED BY <3>1, <3>2
    <2>3. Dying' = Dying /\ Alive' = Alive BY <1>7 DEF PhaseKept
    <2>4. ScanKept(Top, c, {}, {}) BY <2>1, <2>2 DEF ScanKept
    <2> QED BY <1>1, <2>3, <2>4, ScanStill
  <1> QED BY <1>4, <1>7, <1>8, <1>9 DEF GcInv, Phase, PhaseKept
-----------------------------------------------------------------------------
\* The node is counted from outside: what it holds is given back.
LEMMA ScanHeldStep ==
  ASSUME Working, NEW n \in Node, Top.op = "scan", n \in Top.rest, color[n] = "grey",
         stack' = <<Gc("black", {n}, {})>> \o Goto([Top EXCEPT !.rest = @ \ {n}]),
         UNCHANGED <<type, content, rc>>, UNCHANGED gcVars
  PROVE  GcInv'
  <1>0. Base /\ Exact /\ Phase /\ stack # <<>> BY DEF Working, GcInv
  <1>1. ScanInv(Top, {}) BY <1>0, PhaseIs
  <1>2. Top \in Frame /\ Pushed(stack, Top, Return) /\ Calls = {Top} \cup SetOf(Return)
    BY <1>0, TopFrame
  <1>3. PICK c : c = [Top EXCEPT !.rest = @ \ {n}] OBVIOUS
  <1>4. c \in Frame /\ c.op = "scan" /\ c.rest = Top.rest \ {n} /\ c.list = Top.list
    BY <1>2, <1>3 DEF Frame
  <1>5. /\ Bare(c) /\ FrameOK(c) /\ Gathers(c) = {} /\ \A m : W(c, m) = 0
    BY <1>4 DEF Bare, Own, Moves, Drops, Lists, FrameOK, Gathers, W, Refs, Keeps
  <1>6. PICK a : a = Gc("black", {n}, {}) OBVIOUS
  <1>7. Walks(a, "black", {n}, {})
    <2>1. {n} \in SUBSET Node /\ {} \in SUBSET (Zval \cup Slot) OBVIOUS
    <2>2. Walks(Gc("black", {n}, {}), "black", {n}, {}) BY <2>1, PhaseCall
    <2> QED BY <1>6, <2>2
  <1>8. Bare(Top) /\ Gathered = {} /\ \A m : W(Top, m) = 0
    BY <1>0, PhaseTop DEF Collects
  <1>9. Same(c, Top) BY <1>5, <1>8 DEF Same, Bare
  <1>10. stack' = <<a>> \o (<<c>> \o Return) BY <1>3, <1>6 DEF Goto
  <1>11. /\ SameOwners /\ Calls' = {a, c} \cup SetOf(Return) /\ Gathered' = {}
         /\ Pushed(stack', a, <<c>> \o Return) /\ Pushed(<<c>> \o Return, c, Return)
    BY <1>0, <1>4, <1>5, <1>7, <1>9, <1>10, StepCall DEF Walks
  <1>12. rc' \in [Node -> Int] /\ RootTypes' BY <1>0, RootTypesStill DEF Base, Types
  <1>13. Base' /\ Dying' = Dying /\ Alive' = Alive
    <2>1. \A d \in Calls' : d \in Calls \/ FrameOK(d)
      BY <1>2, <1>5, <1>7, <1>11 DEF Walks
    <2> QED BY <1>0, <1>11, <1>12, <2>1, Still DEF Working
  <1>14. Exact'
    <2>1. ASSUME NEW m \in Alive
          PROVE rc'[m] - rc[m] = Weight(stack', m) - Weight(stack, m)
      <3>1. Weight(stack', m) = W(a, m) + (W(c, m) + Weight(Return, m)) BY <1>11 DEF Pushed
      <3>2. Weight(stack, m) = W(Top, m) + Weight(Return, m) /\ Weight(Return, m) \in Nat
        BY <1>2 DEF Pushed
      <3>3. rc[m] \in Int /\ rc'[m] = rc[m] BY <1>0 DEF Base, Types, Alive
      <3>4. W(a, m) = 0 /\ W(c, m) = 0 /\ W(Top, m) = 0 BY <1>5, <1>7, <1>8 DEF Walks
      <3> QED BY <3>1, <3>2, <3>3, <3>4
    <2>2. Trial' = Trial BY DEF Trial, gcVars
    <2> QED BY <1>0, <1>8, <1>11, <1>13, <2>1, <2>2, StillExact DEF SameOwners, Working
  <1>15. ScanInv(c, {n})'
    <2>1. ASSUME NEW X \in SUBSET Node, InSlots(c.list) \cup c.rest \cup {n} \subseteq X
          PROVE  \E Y \in SUBSET Node :
                    /\ X \subseteq Y /\ InSlots(Top.list) \cup Top.rest \cup {} \subseteq Y
                    /\ Y \cap Painted("grey") \subseteq X
      BY <1>4, <2>1
    <2>2. Sound(c.rest) /\ c.list \subseteq Top.list /\ {n} \subseteq Trial
      BY <1>1, <1>4 DEF ScanInv, Sound, Trial
    <2>3. ScanKept(Top, c, {}, {n}) BY <2>1, <2>2 DEF ScanKept
    <2> QED BY <1>1, <1>13, <2>3, ScanStill
  <1>16. Top' = a /\ Head(Return)' = c /\ stack' # <<>> BY <1>11 DEF Pushed, Top, Return
  <1>17. Phase'
    <2>1. Top'.op = "black" /\ Top'.rest = {n} BY <1>7, <1>16 DEF Walks
    <2> QED BY <1>15, <1>16, <2>1 DEF Phase
  <1> QED BY <1>13, <1>14, <1>17 DEF GcInv

\* Nothing outside counts the node: it turns white, until it is found otherwise.
LEMMA ScanWhiteStep ==
  ASSUME Working, NEW n \in Node, Top.op = "scan", n \in Top.rest, color[n] = "grey",
         rc[n] <= 0, color' = [color EXCEPT ![n] = "white"],
         stack' = Goto([Top EXCEPT !.rest = (@ \cup content[n]) \ {n}]),
         UNCHANGED <<type, content, rc>>, UNCHANGED <<addr, slots>>
  PROVE  GcInv'
  <1>0. Base /\ Exact /\ Phase /\ stack # <<>> BY DEF Working, GcInv
  <1>1. ScanInv(Top, {}) BY <1>0, PhaseIs
  <1>2. Top \in Frame BY <1>0, TopFrame
  <1>3. RootTypes /\ rc \in [Node -> Int] /\ content[n] \subseteq Node
    BY <1>0 DEF Base, Types
  <1>4. PICK c : c = [Top EXCEPT !.rest = (@ \cup content[n]) \ {n}] OBVIOUS
  <1>5. /\ c \in Frame /\ c.op = "scan" /\ c.rest = (Top.rest \cup content[n]) \ {n}
        /\ c.list = Top.list
    BY <1>2, <1>3, <1>4 DEF Frame
  <1>6. /\ Bare(c) /\ FrameOK(c) /\ Gathers(c) = {} /\ \A m : W(c, m) = 0
    BY <1>5 DEF Bare, Own, Moves, Drops, Lists, FrameOK, Gathers, W, Refs, Keeps
  <1>7. rc' \in [Node -> Int] /\ RootTypes' BY <1>3 DEF RootTypes
  <1>8. PhaseKept(c) BY <1>4, <1>5, <1>6, <1>7, PhaseGoto DEF Collects
  <1>9. \A m \in Node : color'[m] = IF m = n THEN "white" ELSE color[m]
    BY <1>3 DEF RootTypes
  <1>10. /\ Painted("grey")' = Painted("grey") \ {n}
         /\ Painted("white")' = Painted("white") \cup {n}
         /\ Painted("black")' = Painted("black") /\ Trial' = Trial
    BY <1>9 DEF Painted, Trial
  <1>11. Exact' BY <1>5, <1>6, <1>8, <1>10, PhaseExact DEF Collects
  <1>12. n \notin Dying BY <1>1 DEF ScanInv, Sound
  <1>13. /\ Roots' = Roots /\ slots' = slots /\ content' = content /\ rc' = rc
         /\ Dying' = Dying /\ Alive' = Alive
    BY <1>8 DEF Roots, PhaseKept
  <1>14. \A S : InSlots(S)' = InSlots(S) BY <1>13 DEF InSlots
  <1>15. ScanInv(c, {})'
    <2>1. c.list \subseteq Roots' BY <1>1, <1>5, <1>13 DEF ScanInv
    <2>2. Sound(c.rest)' /\ Sound(Trial)'
      <3>1. \A m \in content[n] : m \in Node \ Dying /\ (m \in Zval => m \in Alive)
        BY <1>0, <1>12, SoundContent
      <3> QED BY <1>1, <1>5, <1>10, <1>13, <3>1 DEF ScanInv, Sound
    <2>3. \A s \in Roots' : slots'[s] \notin Dying' BY <1>1, <1>13 DEF ScanInv
    <2>4. \A m \in Trial' : content'[m] \subseteq Trial' \cup Painted("black")'
      BY <1>1, <1>10, <1>13 DEF ScanInv
    <2>5. Covers(InSlots(Roots) \cup {}, Trial)'
      <3>1. InSlots(Roots)' = InSlots(Roots) BY <1>13, <1>14
      <3> QED BY <1>1, <1>10, <1>13, <3>1 DEF ScanInv, Covers, Reaches
    <2>6. Covers(InSlots(c.list) \cup c.rest \cup {}, Painted("grey"))'
      <3>1. SUFFICES ASSUME NEW X \in SUBSET Node, InSlots(c.list) \cup c.rest \subseteq X,
                            \A m \in X \cap Painted("grey")' : content[m] \subseteq X
                     PROVE  Painted("grey")' \subseteq X
        BY <1>13, <1>14 DEF Covers, Reaches
      <3>2. InSlots(Top.list) \cup Top.rest \cup {} \subseteq X \cup {n} BY <1>5, <3>1
      <3>3. \A m \in (X \cup {n}) \cap Painted("grey") : content[m] \subseteq X \cup {n}
        BY <1>5, <1>10, <3>1
      <3>4. Painted("grey") \subseteq X \cup {n}
        <4>1. X \cup {n} \in SUBSET Node OBVIOUS
        <4>2. Covers(InSlots(Top.list) \cup Top.rest \cup {}, Painted("grey"))
          BY <1>1 DEF ScanInv
        <4> QED BY <3>2, <3>3, <4>1, <4>2 DEF Covers, Reaches
      <3> QED BY <1>10, <3>4
    <2>7. \A m \in Painted("white")' : rc'[m] <= 0 \/ m \in {}
      BY <1>1, <1>10, <1>13 DEF ScanInv
    <2>8. {} \subseteq Trial' OBVIOUS
    <2> QED BY <2>1, <2>2, <2>3, <2>4, <2>5, <2>6, <2>7, <2>8 DEF ScanInv
  <1> QED BY <1>5, <1>8, <1>11, <1>15 DEF GcInv, Phase, PhaseKept

\* zval_scan: a node is left out, found in use, or found white.
LEMMA ScanStep ==
  ASSUME Working, NEW n \in Node, Scan(n)
  PROVE  GcInv'
  <1>1. Top.op = "scan" /\ n \in Top.rest /\ UNCHANGED <<type, content, rc>>
        /\ UNCHANGED <<addr, slots>>
    BY DEF Scan, heapVars
  <1>2. CASE color[n] # "grey" /\ stack' = Goto([Top EXCEPT !.rest = @ \ {n}])
             /\ UNCHANGED color
    BY <1>1, <1>2, ScanOtherStep DEF gcVars
  <1>3. CASE color[n] = "grey" /\ UNCHANGED color
             /\ stack' = <<Gc("black", {n}, {})>> \o Goto([Top EXCEPT !.rest = @ \ {n}])
    BY <1>1, <1>3, ScanHeldStep DEF gcVars
  <1>4. CASE color[n] = "grey" /\ rc[n] <= 0 /\ Paint(n, "white")
             /\ stack' = Goto([Top EXCEPT !.rest = (@ \cup content[n]) \ {n}])
    BY <1>1, <1>4, ScanWhiteStep DEF Paint
  <1> QED BY <1>2, <1>3, <1>4 DEF Scan
-----------------------------------------------------------------------------
\* zval_scan_black gives back what was taken from the node.
LEMMA ScanBlackStep ==
  ASSUME Working, NEW n \in Node, ScanBlack(n)
  PROVE  GcInv'
  <1>0. Base /\ Exact /\ Phase /\ stack # <<>> BY DEF Working, GcInv
  <1>1. /\ Top.op = "black" /\ n \in Top.rest /\ UNCHANGED <<type, content>>
        /\ UNCHANGED <<addr, slots>> /\ color' = [color EXCEPT ![n] = "black"]
        /\ rc' = [m \in Node |-> IF m \in content[n] THEN rc[m] + 1 ELSE rc[m]]
    BY DEF ScanBlack, Paint, Add
  <1>2. PICK k : k = Head(Return) OBVIOUS
  <1>3. ScanInv(k, Top.rest) BY <1>0, <1>1, <1>2, PhaseIs
  <1>4. RootTypes /\ rc \in [Node -> Int] /\ content[n] \subseteq Node
    BY <1>0 DEF Base, Types
  <1>5. Top \in Frame BY <1>0, TopFrame
  <1>6. PICK rest \in SUBSET Node :
          rest = {m \in (Top.rest \cup content[n]) \ {n} : color[m] # "black"}
    BY <1>4, <1>5 DEF Frame
  <1>7. PICK d : d = [Top EXCEPT !.rest =
                        {m \in (@ \cup content[n]) \ {n} : color[m] # "black"}]
    OBVIOUS
  <1>8. d \in Frame /\ d.op = "black" /\ d.rest = rest
    BY <1>1, <1>5, <1>6, <1>7 DEF Frame
  <1>9. /\ Bare(d) /\ FrameOK(d) /\ Gathers(d) = {} /\ \A m : W(d, m) = 0
    BY <1>8 DEF Bare, Own, Moves, Drops, Lists, FrameOK, Gathers, W, Refs, Keeps
  <1>10. stack' = Goto(d) BY <1>7 DEF ScanBlack
  <1>11. rc' \in [Node -> Int] /\ RootTypes' BY <1>1, <1>4 DEF RootTypes
  <1>12. PhaseKept(d) BY <1>1, <1>8, <1>9, <1>10, <1>11, PhaseGoto DEF Collects
  <1>13. \A m \in Node : color'[m] = IF m = n THEN "black" ELSE color[m]
    BY <1>1, <1>4 DEF RootTypes
  <1>14. /\ Painted("grey")' = Painted("grey") \ {n}
         /\ Painted("white")' = Painted("white") \ {n}
         /\ Painted("black")' = Painted("black") \cup {n}
         /\ Trial' = Trial \ {n}
    BY <1>13 DEF Painted, Trial
  <1>15. n \in Trial /\ Top.rest \subseteq Trial BY <1>1, <1>3 DEF ScanInv
  <1>16. n \notin Dying BY <1>3, <1>15 DEF ScanInv, Sound
  <1>17. Exact'
    BY <1>1, <1>8, <1>9, <1>12, <1>14, <1>15, <1>16, TrialEnds DEF Collects
  <1>18. /\ Roots' = Roots /\ slots' = slots /\ content' = content
         /\ Dying' = Dying /\ Alive' = Alive
    BY <1>1, <1>12 DEF Roots, PhaseKept
  <1>19. \A S : InSlots(S)' = InSlots(S) BY <1>18 DEF InSlots
  <1>20. content[n] \subseteq Trial \cup Painted("black") BY <1>3, <1>15 DEF ScanInv
  <1>21. Trial \cap Painted("black") = {} /\ Painted("grey") \subseteq Trial
         /\ Painted("white") \subseteq Trial
    BY DEF Trial, Painted
  <1>22. Top.rest \subseteq rest \cup {n}
         /\ content[n] \subseteq rest \cup {n} \cup Painted("black")
    BY <1>4, <1>5, <1>6, <1>15 DEF Painted, Trial
  <1>23. ScanInv(k, rest)'
    <2>1. k.list \subseteq Roots' BY <1>3, <1>18 DEF ScanInv
    <2>2. Sound(k.rest)' /\ Sound(Trial)' BY <1>3, <1>14, <1>18 DEF ScanInv, Sound
    <2>3. \A s \in Roots' : slots'[s] \notin Dying' BY <1>3, <1>18 DEF ScanInv
    <2>4. rest \subseteq Trial' BY <1>6, <1>14, <1>15, <1>20 DEF Painted
    <2>5. \A m \in Trial' : content'[m] \subseteq Trial' \cup Painted("black")'
      BY <1>3, <1>14, <1>18 DEF ScanInv
    <2>6. Covers(InSlots(Roots) \cup rest, Trial)'
      <3>1. Covers(InSlots(Roots) \cup Top.rest, Trial) BY <1>3 DEF ScanInv
      <3>2. SUFFICES ASSUME NEW X \in SUBSET Node, InSlots(Roots) \cup rest \subseteq X,
                            \A m \in X \cap Trial' : content[m] \subseteq X
                     PROVE  Trial' \subseteq X
        BY <1>18, <1>19 DEF Covers, Reaches
      <3>3. PICK Y \in SUBSET Node : Y = X \cup {n} \cup Painted("black")
        BY <3>2 DEF Painted
      <3>4. InSlots(Roots) \cup Top.rest \subseteq Y BY <1>22, <3>2, <3>3
      <3>5. \A m \in Y \cap Trial : content[m] \subseteq Y
        BY <1>14, <1>21, <1>22, <3>2, <3>3
      <3>6. Trial \subseteq Y BY <3>1, <3>4, <3>5 DEF Covers, Reaches
      <3> QED BY <1>14, <1>21, <3>3, <3>6
    <2>7. Covers(InSlots(k.list) \cup k.rest \cup rest, Painted("grey"))'
      <3>1. Covers(InSlots(k.list) \cup k.rest \cup Top.rest, Painted("grey"))
        BY <1>3 DEF ScanInv
      <3>2. SUFFICES ASSUME NEW X \in SUBSET Node,
                            InSlots(k.list) \cup k.rest \cup rest \subseteq X,
                            \A m \in X \cap Painted("grey")' : content[m] \subseteq X
                     PROVE  Painted("grey")' \subseteq X
        BY <1>18, <1>19 DEF Covers, Reaches
      <3>3. PICK Y \in SUBSET Node : Y = X \cup {n} \cup Painted("black")
        BY <3>2 DEF Painted
      <3>4. InSlots(k.list) \cup k.rest \cup Top.rest \subseteq Y BY <1>22, <3>2, <3>3
      <3>5. \A m \in Y \cap Painted("grey") : content[m] \subseteq Y
        BY <1>14, <1>21, <1>22, <3>2, <3>3
      <3>6. Painted("grey") \subseteq Y BY <3>1, <3>4, <3>5 DEF Covers, Reaches
      <3> QED BY <1>14, <1>21, <3>3, <3>6
    <2>8. \A m \in Painted("white")' : rc'[m] <= 0 \/ m \in rest
      <3> SUFFICES ASSUME NEW m \in Painted("white")', m \notin rest PROVE rc'[m] <= 0
        OBVIOUS
      <3>1. m \in Painted("white") /\ m # n /\ m \in Node BY <1>14 DEF Painted
      <3>2. color[m] # "black" BY <3>1 DEF Painted
      <3>3. m \notin Top.rest /\ m \notin content[n] BY <1>6, <3>1, <3>2
      <3>4. rc[m] <= 0 BY <1>3, <3>1, <3>3 DEF ScanInv
      <3> QED BY <1>1, <3>1, <3>3, <3>4
    <2> QED BY <2>1, <2>2, <2>3, <2>4, <2>5, <2>6, <2>7, <2>8 DEF ScanInv
  <1>24. Phase'
    <2>1. Top'.op = "black" /\ Top'.rest = rest /\ Head(Return)' = k /\ stack' # <<>>
      BY <1>2, <1>8, <1>12 DEF PhaseKept
    <2> QED BY <1>23, <2>1 DEF Phase
  <1> QED BY <1>12, <1>17, <1>24 DEF GcInv, PhaseKept

\* zval_scan_black returns to zval_scan.
LEMMA BlackDoneStep ==
  ASSUME Working, BlackDone
  PROVE  GcInv'
  <1>0. Base /\ Exact /\ Phase /\ stack # <<>> BY DEF Working, GcInv
  <1>1. /\ Top.op = "black" /\ Top.rest = {} /\ stack' = Return
        /\ UNCHANGED <<type, content, rc>> /\ UNCHANGED gcVars
    BY DEF BlackDone, heapVars
  <1>2. PICK k : k = Head(Return) OBVIOUS
  <1>3. ScanInv(k, {}) BY <1>0, <1>1, <1>2, PhaseIs
  <1>4. Pushed(stack, Top, Return) BY <1>0, TopFrame
  <1>5. Return # <<>> /\ Head(Return).op = "scan"
    BY <1>0, <1>1 DEF Base, StackInv, Shape, Top, Return
  <1>6. Bare(Top) /\ Top.op # "destroy" /\ Gathered = {} /\ \A m : W(Top, m) = 0
    BY <1>0, <1>1, PhaseTop DEF Collects
  <1>7. SameOwners /\ Calls' \subseteq Calls /\ Gathered' = {}
    BY <1>0, <1>1, <1>6, StepReturn
  <1>8. rc' \in [Node -> Int] /\ RootTypes' BY <1>0, <1>1, RootTypesStill DEF Base, Types
  <1>9. Base' /\ Dying' = Dying /\ Alive' = Alive
    BY <1>0, <1>1, <1>7, <1>8, Still DEF Working
  <1>10. Exact'
    <2>1. ASSUME NEW m \in Alive
          PROVE rc'[m] - rc[m] = Weight(stack', m) - Weight(stack, m)
      <3>1. Weight(stack, m) = W(Top, m) + Weight(Return, m) /\ Weight(Return, m) \in Nat
        BY <1>4 DEF Pushed
      <3>2. rc[m] \in Int /\ rc'[m] = rc[m] BY <1>0, <1>1 DEF Base, Types, Alive
      <3> QED BY <1>1, <1>6, <3>1, <3>2
    <2>2. Trial' = Trial BY <1>1 DEF Trial, gcVars
    <2> QED BY <1>0, <1>1, <1>6, <1>7, <1>9, <2>1, <2>2, StillExact DEF SameOwners, Working
  <1>11. ScanInv(k, {})'
    <2>1. ScanKept(k, k, {}, {}) BY <1>3 DEF ScanKept, ScanInv
    <2> QED BY <1>1, <1>3, <1>9, <2>1, ScanStill
  <1>12. Top' = k /\ Top'.op = "scan" /\ stack' # <<>> BY <1>1, <1>2, <1>5 DEF Top
  <1> QED BY <1>9, <1>10, <1>11, <1>12 DEF GcInv, Phase
-----------------------------------------------------------------------------
\* A count that is used up leaves nothing that could hold the node.
LEMMA CountZero ==
  ASSUME Base, Exact, NEW n \in Alive, rc[n] <= 0
  PROVE  Ext(n) = 0 /\ Preds(n) = {} /\ Weight(stack, n) = 0
  <1>1. n \in Node BY DEF Alive
  <1>2. rc[n] = Ext(n) + Cardinality(Preds(n)) + Weight(stack, n) BY DEF Exact
  <1>3. /\ rc[n] \in Int /\ Ext(n) \in Nat /\ Cardinality(Preds(n)) \in Nat
        /\ Weight(stack, n) \in Nat
    BY <1>1, Numbers
  <1>4. Ext(n) = 0 /\ Cardinality(Preds(n)) = 0 /\ Weight(stack, n) = 0 BY <1>2, <1>3
  <1> QED BY <1>4, PredsCount, FS_EmptySet

\* What holds a white node once all roots are scanned.
LEMMA WhiteHeld ==
  ASSUME Base, Exact, stack # <<>>, Top.op = "scan", ScanInv(Top, {}), Top.rest = {},
         Top.list = {}
  PROVE  /\ Painted("grey") = {} /\ Trial = Painted("white")
         /\ \A n \in Painted("white") :
               n \in Alive => /\ Ext(n) = 0 /\ Weight(stack, n) = 0
                              /\ \A m \in Node : n \in content[m] =>
                                     m \in Painted("white") \/ m \in Moved \/ m \in Stale
  <1>1. Painted("grey") = {}
    <2>1. InSlots(Top.list) \cup Top.rest \cup {} = {} BY DEF InSlots
    <2>2. Covers({}, Painted("grey")) BY <2>1 DEF ScanInv
    <2>3. {} \in SUBSET Node OBVIOUS
    <2> QED BY <2>2, <2>3 DEF Covers, Reaches
  <1>2. Trial = Painted("white") BY <1>1 DEF Trial, Painted
  <1>3. Gathered = {} BY PhaseTop DEF Collects
  <1>4. ASSUME NEW n \in Painted("white"), n \in Alive
        PROVE  /\ Ext(n) = 0 /\ Weight(stack, n) = 0
               /\ \A m \in Node : n \in content[m] =>
                     m \in Painted("white") \/ m \in Moved \/ m \in Stale
    <2>1. rc[n] <= 0 BY <1>4 DEF ScanInv
    <2>2. Ext(n) = 0 /\ Preds(n) = {} /\ Weight(stack, n) = 0 BY <1>4, <2>1, CountZero
    <2> QED BY <1>2, <1>3, <2>2 DEF Preds, Spent
  <1> QED BY <1>1, <1>2, <1>4

\* gc_scan_roots is done: what is still on trial is white, and only white refers to it.
LEMMA ScanDoneStep ==
  ASSUME Working, ScanDone
  PROVE  GcInv'
  <1>0. Base /\ Exact /\ Phase /\ stack # <<>> BY DEF Working, GcInv
  <1>1. /\ Top.op = "scan" /\ Top.rest = {} /\ Top.list = {}
        /\ UNCHANGED <<type, content, rc>> /\ UNCHANGED gcVars
    BY DEF ScanDone, heapVars
  <1>2. ScanInv(Top, {}) BY <1>0, <1>1, PhaseIs
  <1>3. PICK c : c = Gc("collect", {}, {}) OBVIOUS
  <1>4. c \in Frame /\ c.op = "collect" /\ c.rest = {} /\ c.list = {}
    BY <1>3 DEF Gc, Call, Frame, Op
  <1>5. Bare(c) /\ FrameOK(c) /\ Gathers(c) = {} /\ \A m : W(c, m) = 0
    BY <1>4 DEF Bare, Own, Moves, Drops, Lists, FrameOK, Gathers, W, Refs, Keeps
  <1>6. rc' \in [Node -> Int] /\ RootTypes'
    BY <1>0, <1>1, RootTypesStill DEF Base, Types
  <1>7. PhaseKept(c)
    <2>1. stack' = Goto(c) BY <1>3 DEF ScanDone
    <2> QED BY <1>1, <1>4, <1>5, <1>6, <2>1, PhaseGoto DEF Collects
  <1>8. Exact'
    <2>1. Trial' = Trial BY <1>1 DEF Trial, gcVars
    <2> QED BY <1>1, <1>4, <1>5, <1>7, <2>1, PhaseExact DEF Collects
  <1>9. /\ Painted("grey") = {} /\ Trial = Painted("white")
        /\ \A n \in Painted("white") :
               n \in Alive => /\ Ext(n) = 0 /\ Weight(stack, n) = 0
                              /\ \A m \in Node : n \in content[m] =>
                                     m \in Painted("white") \/ m \in Moved \/ m \in Stale
    BY <1>0, <1>1, <1>2, WhiteHeld
  <1>10. /\ Roots' = Roots /\ slots' = slots /\ content' = content /\ ext' = ext
         /\ Painted("grey")' = Painted("grey") /\ Painted("white")' = Painted("white")
         /\ Dying' = Dying /\ Alive' = Alive /\ Moved' = Moved /\ Stale' = Stale
    BY <1>1, <1>7 DEF Roots, Painted, gcVars, PhaseKept, Working
  <1>11. Sound(Painted("white")) BY <1>2, <1>9 DEF ScanInv, Sound
  <1>12. Garbage(c) = Painted("white") \cap Zval BY <1>4 DEF Garbage
  <1>13. \A z \in Garbage(c) : /\ z \in Alive \ Dying /\ ext[z] = 0
                               /\ Weight(Return, z) = 0
    <2> SUFFICES ASSUME NEW z \in Painted("white") \cap Zval
                 PROVE  z \in Alive \ Dying /\ ext[z] = 0 /\ Weight(Return, z) = 0
      BY <1>12
    <2>1. z \in Alive \ Dying BY <1>11 DEF Sound
    <2>2. ext[z] = 0 /\ Weight(stack, z) = 0 BY <1>9, <2>1 DEF Ext
    <2>3. Weight(Return, z) = 0
      <3>1. Weight(stack, z) = W(Top, z) + Weight(Return, z) /\ Weight(Return, z) \in Nat
        BY <1>7 DEF PhaseKept
      <3> QED BY <2>2, <3>1, WType
    <2> QED BY <2>1, <2>2, <2>3
  <1>14. ASSUME NEW z \in Garbage(c), NEW m \in Node, z \in content[m]
         PROVE \/ m \in Garbage(c) \/ m \in Moved
               \/ /\ m \in Obj \ Dying
                  /\ \A h \in Node : m \in content[h] => h \in Garbage(c) \cup Stale
    <2>1. z \in Painted("white") /\ z \in Zval /\ z \in Alive BY <1>12, <1>13
    <2>2. m \in Painted("white") \/ m \in Moved \/ m \in Stale BY <1>9, <1>14, <2>1
    <2>3. CASE m \in Zval
      <3>1. CASE m \in Painted("white") BY <1>12, <2>3, <3>1
      <3>2. CASE m \in Stale \ Painted("white")
        <4>1. m \notin Trial BY <1>9, <3>2
        <4>2. type[m] # "object" BY <1>0, <1>14, <2>1, <2>3, Handle DEF Base
        <4>3. z \in Alive /\ (m \notin Spent \/ m \in Moved) BY <2>1, <4>2, <1>0, <1>1, PhaseTop
          DEF Spent
        <4>4. rc[z] <= 0 BY <1>2, <2>1 DEF ScanInv
        <4>5. Preds(z) = {} BY <1>0, <2>1, <4>4, CountZero
        <4> QED BY <1>14, <4>1, <4>3, <4>5 DEF Preds
      <3> QED BY <2>2, <3>1, <3>2
    <2>4. CASE m \notin Zval /\ m \notin Moved
      <3>1. m \in Obj BY <2>4 DEF Node
      <3>2. m \notin Stale BY <1>0, <2>4, SetParts DEF Base, StackInv
      <3>3. m \in Painted("white") BY <2>2, <2>4, <3>2
      <3>4. m \in Alive BY <1>0, <1>14 DEF Base, Types, Alive
      <3>5. m \notin Dying BY <1>11, <3>3 DEF Sound
      <3>6. ASSUME NEW h \in Node, m \in content[h] PROVE h \in Garbage(c) \cup Stale
        <4>1. h \in Zval BY <1>0, <3>1, <3>6, Handles DEF Base
        <4>2. h \in Painted("white") \/ h \in Moved \/ h \in Stale BY <1>9, <3>3, <3>4, <3>6
        <4>3. h \notin Moved BY <1>0, <4>1, SetParts, GcAssumption DEF Base, StackInv
        <4> QED BY <1>12, <4>1, <4>2, <4>3
      <3> QED BY <3>1, <3>5, <3>6
    <2> QED BY <2>3, <2>4
  <1>15. CollectInv(c)'
    <2>1. Garbage(c)' = Garbage(c) BY <1>10 DEF Garbage
    <2>2. Tail(stack') = Return BY <1>7 DEF PhaseKept, Return
    <2>3. c.list \subseteq Zval \ Painted("white")' /\ Painted("grey")' = {}
      BY <1>4, <1>9, <1>10
    <2>4. Sound(c.rest)' /\ Sound(Painted("white"))' BY <1>4, <1>10, <1>11 DEF Sound
    <2>5. \A s \in Roots' : slots'[s] \notin Dying' BY <1>2, <1>10 DEF ScanInv
    <2>6. \A z \in Garbage(c)' : /\ z \in Alive' \ Dying' /\ ext'[z] = 0
                                 /\ Weight(Tail(stack'), z) = 0
      BY <1>10, <1>13, <2>1, <2>2
    <2>7. \A z \in Garbage(c)', m \in Node : z \in content'[m] =>
             \/ m \in Garbage(c)' \/ m \in Moved'
             \/ /\ m \in Obj \ Dying'
                /\ \A h \in Node : m \in content'[h] => h \in Garbage(c)' \cup Stale'
      BY <1>10, <1>14, <2>1
    <2>8. Covers(InSlots(Roots) \cup c.rest, Painted("white"))'
      <3>1. Covers(InSlots(Roots) \cup {}, Trial) BY <1>2 DEF ScanInv
      <3>2. InSlots(Roots)' = InSlots(Roots) BY <1>10 DEF InSlots
      <3> QED BY <1>4, <1>9, <1>10, <3>1, <3>2 DEF Covers, Reaches
    <2> QED BY <2>3, <2>4, <2>5, <2>6, <2>7, <2>8 DEF CollectInv
  <1> QED BY <1>4, <1>7, <1>8, <1>15 DEF GcInv, Phase, PhaseKept
-----------------------------------------------------------------------------
\* gc_collect_roots goes on with other nodes to visit, and the list it has.
LEMMA CollectGoes ==
  ASSUME Working, Top.op = "collect", NEW r \in SUBSET Node, NEW c,
         c = [Top EXCEPT !.rest = r], stack' = Goto(c), RootTypes',
         UNCHANGED <<type, content, rc, color>>
  PROVE  /\ c \in Frame /\ c.op = "collect" /\ c.rest = r /\ c.list = Top.list
         /\ PhaseKept(c) /\ Exact'
  <1>0. Base /\ Exact /\ stack # <<>> BY DEF Working, GcInv
  <1>1. Top \in Frame BY <1>0, TopFrame
  <1>2. c \in Frame /\ c.op = "collect" /\ c.rest = r /\ c.list = Top.list
    BY <1>1 DEF Frame
  <1>3. /\ Bare(c) /\ FrameOK(c) /\ Gathers(c) = Top.list
    BY <1>2 DEF Bare, Own, Moves, Drops, Lists, FrameOK, Gathers
  <1>4. \A m : W(c, m) = W(Top, m) BY <1>2 DEF W, Refs, Keeps
  <1>5. rc' \in [Node -> Int] BY <1>0 DEF Base, Types
  <1>6. PhaseKept(c) BY <1>2, <1>3, <1>5, PhaseGoto DEF Collects
  <1>7. Gathered' = Gathered BY <1>0, <1>3, <1>6, PhaseTop DEF Collects, PhaseKept
  <1>8. \A m \in Alive : rc'[m] - rc[m] = Weight(stack', m) - Weight(stack, m)
    <2> SUFFICES ASSUME NEW m \in Alive
                 PROVE rc'[m] - rc[m] = Weight(stack', m) - Weight(stack, m) OBVIOUS
    <2>1. Weight(stack', m) = W(c, m) + Weight(Return, m) BY <1>6 DEF PhaseKept
    <2>2. Weight(stack, m) = W(Top, m) + Weight(Return, m) /\ Weight(Return, m) \in Nat
      BY <1>6 DEF PhaseKept
    <2>3. rc[m] \in Int /\ rc'[m] = rc[m] BY <1>0 DEF Base, Types, Alive
    <2> QED BY <1>4, <2>1, <2>2, <2>3, WType
  <1>9. Exact'
    <2>1. Trial' = Trial BY DEF Trial
    <2> QED BY <1>0, <1>6, <1>7, <1>8, <2>1, StillExact DEF PhaseKept, Working
  <1> QED BY <1>2, <1>6, <1>9

\* What the invariant says of the white nodes holds on.
LEMMA CollectStill ==
  ASSUME NEW c, CollectInv(Top), PhaseKept(c), c.list = Top.list,
         UNCHANGED <<content, color, ext>>, Sound(c.rest), Roots' \subseteq Roots,
         \A s \in Roots' : slots'[s] = slots[s],
         Covers(InSlots(Roots) \cup c.rest, Painted("white"))'
  PROVE  CollectInv(c)'
  <1>1. /\ Painted("grey")' = Painted("grey") /\ Painted("white")' = Painted("white")
        /\ Dying' = Dying /\ Alive' = Alive /\ Moved' = Moved /\ Stale' = Stale
    BY DEF Painted, PhaseKept
  <1>2. Garbage(c)' = Garbage(Top) BY <1>1 DEF Garbage
  <1>3. \A m : Weight(Tail(stack'), m) = Weight(Tail(stack), m) BY DEF PhaseKept, Return
  <1>4. c.list \subseteq Zval \ Painted("white")' /\ Painted("grey")' = {}
    BY <1>1 DEF CollectInv
  <1>5. Sound(c.rest)' /\ Sound(Painted("white"))' BY <1>1 DEF Sound, CollectInv
  <1>6. \A s \in Roots' : slots'[s] \notin Dying' BY <1>1 DEF CollectInv
  <1>7. \A z \in Garbage(c)' : /\ z \in Alive' \ Dying' /\ ext'[z] = 0
                               /\ Weight(Tail(stack'), z) = 0
    BY <1>1, <1>2, <1>3 DEF CollectInv
  <1>8. \A z \in Garbage(c)', m \in Node : z \in content'[m] =>
           \/ m \in Garbage(c)' \/ m \in Moved'
           \/ /\ m \in Obj \ Dying'
              /\ \A h \in Node : m \in content'[h] => h \in Garbage(c)' \cup Stale'
    BY <1>1, <1>2 DEF CollectInv
  <1> QED BY <1>4, <1>5, <1>6, <1>7, <1>8 DEF CollectInv

\* gc_collect_roots takes a root out of the buffer.
LEMMA CollectRootStep ==
  ASSUME Working, NEW s \in Slot, CollectRoot(s)
  PROVE  GcInv'
  <1>0. Base /\ Exact /\ Phase /\ stack # <<>> /\ RootsLive BY DEF Working, GcInv
  <1>1. /\ Top.op = "collect" /\ Top.rest = {} /\ s \in Roots
        /\ UNCHANGED <<type, content, rc>> /\ UNCHANGED color
        /\ slots' = [slots EXCEPT ![s] = None]
    BY DEF CollectRoot, heapVars
  <1>2. CollectInv(Top) BY <1>0, <1>1, PhaseIs
  <1>3. PICK n \in Node : n = slots[s] BY <1>0, <1>1, RootNode
  <1>4. addr' = [addr EXCEPT ![n] = 0] BY <1>3 DEF CollectRoot
  <1>5. RootTypes BY <1>0 DEF Base
  <1>6. RootTypes'
    <2>1. /\ addr' \in [Node -> {0} \cup Slot] /\ slots' \in [Slot -> Node \cup {None}]
          /\ color' \in [Node -> {"black", "grey", "white", "purple"}]
      BY <1>1, <1>4, <1>5 DEF RootTypes
    <2>2. ASSUME NEW m \in Node, addr'[m] # 0 PROVE slots'[addr'[m]] = m
      <3>1. m # n /\ addr'[m] = addr[m] BY <1>4, <1>5, <2>2 DEF RootTypes
      <3>2. slots[addr[m]] = m /\ addr[m] \in Slot BY <1>5, <2>2, <3>1 DEF RootTypes
      <3>3. addr[m] # s BY <1>3, <3>1, <3>2
      <3> QED BY <1>1, <1>5, <3>1, <3>2, <3>3 DEF RootTypes
    <2> QED BY <2>1, <2>2 DEF RootTypes
  <1>7. PICK c : c = [Top EXCEPT !.rest = {n}] OBVIOUS
  <1>8. /\ c \in Frame /\ c.op = "collect" /\ c.rest = {n} /\ c.list = Top.list
        /\ PhaseKept(c) /\ Exact'
    <2>1. stack' = Goto(c) BY <1>3, <1>7 DEF CollectRoot
    <2>2. {n} \in SUBSET Node OBVIOUS
    <2> QED BY <1>1, <1>6, <1>7, <2>1, <2>2, CollectGoes
  <1>9. \A r \in Slot : slots'[r] = IF r = s THEN None ELSE slots[r]
    BY <1>1, <1>5 DEF RootTypes
  <1>10. Roots' = Roots \ {s} /\ \A r \in Roots' : slots'[r] = slots[r]
    BY <1>9 DEF Roots
  <1>11. n \notin Dying /\ (n \in Zval => n \in Alive)
    BY <1>0, <1>1, <1>2, <1>3 DEF CollectInv, RootsLive, Alive
  <1>12. Sound(c.rest) BY <1>8, <1>11 DEF Sound
  <1>13. Covers(InSlots(Roots) \cup c.rest, Painted("white"))'
    <2>1. Painted("white")' = Painted("white") BY <1>1 DEF Painted
    <2>2. InSlots(Roots) \cup Top.rest \subseteq InSlots(Roots)' \cup c.rest
      BY <1>1, <1>3, <1>8, <1>10 DEF InSlots
    <2>3. Covers(InSlots(Roots) \cup Top.rest, Painted("white")) BY <1>2 DEF CollectInv
    <2> QED BY <1>1, <2>1, <2>2, <2>3 DEF Covers, Reaches
  <1>14. CollectInv(c)'
    <2>1. UNCHANGED <<content, color, ext>> BY <1>1 DEF Working
    <2> QED BY <1>2, <1>8, <1>10, <1>12, <1>13, <2>1, CollectStill
  <1> QED BY <1>8, <1>14 DEF GcInv, Phase, PhaseKept

\* The node is not white, or a root of its own: its time has been or will come.
LEMMA CollectOtherStep ==
  ASSUME Working, NEW n \in Node, Top.op = "collect", n \in Top.rest,
         ~(color[n] = "white" /\ addr[n] = 0),
         stack' = Goto([Top EXCEPT !.rest = @ \ {n}]),
         UNCHANGED <<type, content, rc>>, UNCHANGED gcVars
  PROVE  GcInv'
  <1>0. Base /\ Exact /\ Phase /\ stack # <<>> BY DEF Working, GcInv
  <1>1. CollectInv(Top) BY <1>0, PhaseIs
  <1>2. RootTypes /\ Top \in Frame BY <1>0, TopFrame DEF Base
  <1>3. RootTypes' BY <1>2, RootTypesStill
  <1>4. PICK r \in SUBSET Node : r = Top.rest \ {n} BY <1>2 DEF Frame
  <1>5. PICK c : c = [Top EXCEPT !.rest = r] OBVIOUS
  <1>6. /\ c \in Frame /\ c.op = "collect" /\ c.rest = r /\ c.list = Top.list
        /\ PhaseKept(c) /\ Exact'
    <2>1. stack' = Goto(c) BY <1>4, <1>5
    <2> QED BY <1>3, <1>5, <2>1, CollectGoes DEF gcVars
  <1>7. Roots' = Roots /\ slots' = slots /\ Painted("white")' = Painted("white")
    BY DEF Roots, Painted, gcVars
  <1>8. Sound(c.rest) BY <1>1, <1>4, <1>6 DEF CollectInv, Sound
  <1>9. Covers(InSlots(Roots) \cup c.rest, Painted("white"))'
    <2>1. SUFFICES ASSUME NEW X \in SUBSET Node, InSlots(Roots) \cup r \subseteq X,
                          \A m \in X \cap Painted("white") : content[m] \subseteq X
                   PROVE  Painted("white") \subseteq X
      BY <1>6, <1>7 DEF Covers, Reaches, InSlots
    <2>2. Covers(InSlots(Roots) \cup Top.rest, Painted("white")) BY <1>1 DEF CollectInv
    <2>3. CASE color[n] # "white"
      <3>1. X \cup {n} \in SUBSET Node OBVIOUS
      <3>2. InSlots(Roots) \cup Top.rest \subseteq X \cup {n} BY <1>4, <2>1
      <3>3. n \notin Painted("white") BY <2>3 DEF Painted
      <3>4. \A m \in (X \cup {n}) \cap Painted("white") : content[m] \subseteq X \cup {n}
        BY <2>1, <3>3
      <3>5. Painted("white") \subseteq X \cup {n}
        BY <2>2, <3>1, <3>2, <3>4 DEF Covers, Reaches
      <3> QED BY <3>3, <3>5
    <2>4. CASE addr[n] # 0
      <3>1. addr[n] \in Slot /\ slots[addr[n]] = n BY <1>2, <2>4 DEF RootTypes
      <3>2. n # None BY GcAssumption DEF Node
      <3>3. n \in InSlots(Roots) BY <3>1, <3>2 DEF InSlots, Roots
      <3>4. InSlots(Roots) \cup Top.rest \subseteq X BY <1>4, <2>1, <3>3
      <3> QED BY <2>1, <2>2, <3>4 DEF Covers, Reaches
    <2> QED BY <2>3, <2>4
  <1>10. CollectInv(c)'
    <2>1. UNCHANGED <<content, color, ext>> BY DEF Working, gcVars
    <2> QED BY <1>1, <1>6, <1>7, <1>8, <1>9, <2>1, CollectStill
  <1> QED BY <1>6, <1>10 DEF GcInv, Phase, PhaseKept
-----------------------------------------------------------------------------
\* The node is found garbage: it leaves the trial, a zval for the list.  What it
\* contains is counted again, unless it is a handle: its object is not.
LEMMA CollectWhiteStep ==
  ASSUME Working, NEW n \in Node, Top.op = "collect", n \in Top.rest,
         color[n] = "white", addr[n] = 0, CollectWhite(n)
  PROVE  GcInv'
  <1>0. Base /\ Exact /\ Phase /\ stack # <<>> BY DEF Working, GcInv
  <1>1. CollectInv(Top) BY <1>0, PhaseIs
  <1>2. /\ UNCHANGED <<type, content, addr, slots, ext>>
        /\ color' = [color EXCEPT ![n] = IF n \in Zval THEN "black" ELSE "purple"]
        /\ rc' = [m \in Node |-> rc[m] + (IF m \in content[n] \cap Zval THEN 1 ELSE 0)
                                       + (IF m = n /\ n \in Zval THEN 1 ELSE 0)]
    BY DEF CollectWhite, Paint, Working
  <1>3. RootTypes /\ Types /\ rc \in [Node -> Int] /\ content[n] \subseteq Node
    BY <1>0 DEF Base, Types
  <1>4. Top \in Frame /\ Top.list \subseteq Zval BY <1>0, <1>1, TopFrame DEF CollectInv
  <1>5. PICK c : c = [Top EXCEPT !.rest = (@ \cup content[n]) \ {n},
                                 !.list = @ \cup ({n} \cap Zval)]
    OBVIOUS
  <1>6. /\ c \in Frame /\ c.op = "collect" /\ c.rest = (Top.rest \cup content[n]) \ {n}
        /\ c.list = Top.list \cup ({n} \cap Zval)
    BY <1>3, <1>4, <1>5 DEF Frame
  <1>7. Bare(c) /\ FrameOK(c) /\ Gathers(c) = c.list
    BY <1>6 DEF Bare, Own, Moves, Drops, Lists, FrameOK, Gathers
  <1>8. rc' \in [Node -> Int]
    <2>1. \A m \in Node : rc[m] \in Int BY <1>3
    <2> QED BY <1>2, <2>1
  <1>9. RootTypes' BY <1>2, <1>3 DEF RootTypes
  <1>10. PhaseKept(c)
    <2>1. stack' = Goto(c) BY <1>5 DEF CollectWhite
    <2> QED BY <1>2, <1>6, <1>7, <1>8, <1>9, <2>1, PhaseGoto DEF Collects
  <1>11. \A m \in Node : color'[m] = IF m = n THEN (IF n \in Zval THEN "black" ELSE "purple")
                                     ELSE color[m]
    BY <1>2, <1>3 DEF RootTypes
  <1>12. /\ Painted("grey")' = {} /\ Painted("white")' = Painted("white") \ {n}
         /\ Trial' = Trial \ {n} /\ n \in Painted("white") /\ n \in Trial
    BY <1>1, <1>11 DEF CollectInv, Painted, Trial
  <1>13. n \notin Dying /\ (n \in Zval => n \in Alive) /\ n \notin Top.list
    BY <1>1, <1>12 DEF CollectInv, Sound
  <1>14. /\ Gathered = Top.list /\ Gathered' = Top.list \cup ({n} \cap Zval)
         /\ \A m : W(Top, m) = IF m \in Top.list THEN 1 ELSE 0
         /\ \A m : W(c, m) = IF m \in c.list THEN 1 ELSE 0
    <2>1. \A m : W(c, m) = IF m \in c.list THEN 1 ELSE 0 BY <1>6 DEF W, Refs, Keeps
    <2> QED BY <1>0, <1>6, <1>7, <1>10, <2>1, PhaseTop DEF Collects, PhaseKept
  <1>15. n \notin Spent BY <1>0, <1>13, <1>14, NotSpent
  <1>16. Spent' = Spent \cup {z \in {n} \cap Zval : type[z] = "object"}
    BY <1>2, <1>10, <1>14 DEF PhaseKept, Spent
  <1>17. \A m \in Node : m \in content[n] \cap Zval <=> m \in content[n] /\ n \notin Spent'
    <2>1. CASE n \in Zval /\ type[n] = "object"
      BY <1>3, <1>16, <2>1, Handle
    <2>2. CASE ~(n \in Zval /\ type[n] = "object")
      <3>1. n \notin Spent' BY <1>15, <1>16, <2>2
      <3>2. content[n] \subseteq Zval BY <1>3, <2>2 DEF Types, Type, Node
      <3> QED BY <3>1, <3>2
    <2> QED BY <2>1, <2>2
  <1>18. \A m : Preds(m)' = IF m \in content[n] /\ n \notin Spent'
                            THEN Preds(m) \cup {n} ELSE Preds(m)
    <2> SUFFICES ASSUME NEW m
                 PROVE  Preds(m)' = IF m \in content[n] /\ n \notin Spent'
                                    THEN Preds(m) \cup {n} ELSE Preds(m)
      OBVIOUS
    <2>1. \A k \in Node \ {n} : k \in Preds(m)' <=> k \in Preds(m)
      BY <1>2, <1>12, <1>16 DEF Preds
    <2>2. n \notin Preds(m) BY <1>12 DEF Preds
    <2>3. n \in Preds(m)' <=> m \in content[n] /\ n \notin Spent'
      BY <1>2, <1>12 DEF Preds
    <2>4. Preds(m) \subseteq Node /\ Preds(m)' \subseteq Node BY DEF Preds
    <2> QED BY <2>1, <2>2, <2>3, <2>4
  <1>19. ASSUME NEW m \in Alive
         PROVE  rc'[m] = Ext(m)' + Cardinality(Preds(m)') + Weight(stack', m)
    <2>1. rc[m] = Ext(m) + Cardinality(Preds(m)) + Weight(stack, m) /\ m \in Node
      BY <1>0 DEF Exact, Alive
    <2>2. /\ Ext(m)' = Ext(m) /\ rc[m] \in Int /\ Ext(m) \in Nat
          /\ Cardinality(Preds(m)) \in Nat /\ Weight(stack, m) \in Nat
      BY <1>0, <1>2, <2>1, Numbers DEF Ext
    <2>3. Weight(stack', m) = Weight(stack, m) + (IF m = n /\ n \in Zval THEN 1 ELSE 0)
      <3>1. Weight(stack', m) = W(c, m) + Weight(Return, m) BY <1>10 DEF PhaseKept
      <3>2. Weight(stack, m) = W(Top, m) + Weight(Return, m) /\ Weight(Return, m) \in Nat
        BY <1>10 DEF PhaseKept
      <3>3. W(c, m) = W(Top, m) + (IF m = n /\ n \in Zval THEN 1 ELSE 0)
        BY <1>6, <1>13, <1>14
      <3>4. W(Top, m) \in 0 .. 2 BY WType
      <3> QED BY <3>1, <3>2, <3>3, <3>4
    <2>4. Cardinality(Preds(m)') = Cardinality(Preds(m))
                                   + (IF m \in content[n] \cap Zval THEN 1 ELSE 0)
      <3>1. CASE m \in content[n] \cap Zval
        <4>1. Preds(m)' = Preds(m) \cup {n} BY <1>17, <1>18, <2>1, <3>1
        <4>2. n \notin Preds(m) BY <1>12 DEF Preds
        <4>3. Cardinality(Preds(m)') = Cardinality(Preds(m)) + 1 BY <4>1, <4>2, PredsMore
        <4> QED BY <3>1, <4>3
      <3>2. CASE m \notin content[n] \cap Zval
        <4>1. Preds(m)' = Preds(m) BY <1>17, <1>18, <2>1, <3>2
        <4> QED BY <2>2, <3>2, <4>1
      <3> QED BY <3>1, <3>2
    <2>5. rc'[m] = rc[m] + (IF m \in content[n] \cap Zval THEN 1 ELSE 0)
                         + (IF m = n /\ n \in Zval THEN 1 ELSE 0)
      BY <1>2, <2>1
    <2> QED BY <2>1, <2>2, <2>3, <2>4, <2>5
  <1>20. Exact' BY <1>10, <1>19 DEF Exact, PhaseKept
  <1>21. /\ Roots' = Roots /\ slots' = slots /\ content' = content /\ ext' = ext
         /\ Dying' = Dying /\ Alive' = Alive /\ Moved' = Moved /\ Stale' = Stale
    BY <1>2, <1>10 DEF Roots, PhaseKept
  <1>22. Garbage(c)' = Garbage(Top)
    BY <1>6, <1>12 DEF Garbage
  <1>23. CollectInv(c)'
    <2>1. c.list \subseteq Zval \ Painted("white")' /\ Painted("grey")' = {}
      BY <1>1, <1>6, <1>12 DEF CollectInv
    <2>2. Sound(c.rest)' /\ Sound(Painted("white"))'
      <3>1. \A m \in content[n] : m \in Node \ Dying /\ (m \in Zval => m \in Alive)
        BY <1>0, <1>13, SoundContent
      <3> QED BY <1>1, <1>6, <1>12, <1>21, <3>1 DEF CollectInv, Sound
    <2>3. \A s \in Roots' : slots'[s] \notin Dying' BY <1>1, <1>21 DEF CollectInv
    <2>4. \A z \in Garbage(c)' : /\ z \in Alive' \ Dying' /\ ext'[z] = 0
                                 /\ Weight(Tail(stack'), z) = 0
      <3>1. \A m : Weight(Tail(stack'), m) = Weight(Tail(stack), m)
        BY <1>10 DEF PhaseKept, Return
      <3> QED BY <1>1, <1>21, <1>22, <3>1 DEF CollectInv
    <2>5. \A z \in Garbage(c)', m \in Node : z \in content'[m] =>
             \/ m \in Garbage(c)' \/ m \in Moved'
             \/ /\ m \in Obj \ Dying'
                /\ \A h \in Node : m \in content'[h] => h \in Garbage(c)' \cup Stale'
      BY <1>1, <1>21, <1>22 DEF CollectInv
    <2>6. Covers(InSlots(Roots) \cup c.rest, Painted("white"))'
      <3>1. SUFFICES ASSUME NEW X \in SUBSET Node, InSlots(Roots) \cup c.rest \subseteq X,
                            \A m \in X \cap Painted("white")' : content[m] \subseteq X
                     PROVE  Painted("white")' \subseteq X
        BY <1>21 DEF Covers, Reaches, InSlots
      <3>2. Covers(InSlots(Roots) \cup Top.rest, Painted("white")) BY <1>1 DEF CollectInv
      <3>3. X \cup {n} \in SUBSET Node OBVIOUS
      <3>4. InSlots(Roots) \cup Top.rest \subseteq X \cup {n} BY <1>6, <3>1
      <3>5. \A m \in (X \cup {n}) \cap Painted("white") : content[m] \subseteq X \cup {n}
        BY <1>6, <1>12, <3>1
      <3>6. Painted("white") \subseteq X \cup {n}
        BY <3>2, <3>3, <3>4, <3>5 DEF Covers, Reaches
      <3> QED BY <1>12, <3>6
    <2> QED BY <2>1, <2>2, <2>3, <2>4, <2>5, <2>6 DEF CollectInv
  <1> QED BY <1>6, <1>10, <1>20, <1>23 DEF GcInv, Phase, PhaseKept

\* zval_collect_white: a white zval's references are restored and it is listed.
LEMMA CollectStep ==
  ASSUME Working, NEW n \in Node, CollectWhite(n)
  PROVE  GcInv'
  <1>1. Top.op = "collect" /\ n \in Top.rest /\ UNCHANGED <<type, content, addr, slots>>
    BY DEF CollectWhite
  <1>2. CASE color[n] = "white" /\ addr[n] = 0 BY <1>1, <1>2, CollectWhiteStep
  <1>3. CASE ~(color[n] = "white" /\ addr[n] = 0)
    <2>1. /\ stack' = Goto([Top EXCEPT !.rest = @ \ {n}]) /\ UNCHANGED <<color, rc>>
      BY <1>3 DEF CollectWhite
    <2> QED BY <1>1, <1>3, <2>1, CollectOtherStep DEF gcVars
  <1> QED BY <1>2, <1>3
-----------------------------------------------------------------------------
\* Nothing is left in the buffer and nothing white: what is listed is destroyed.
LEMMA CollectDoneStep ==
  ASSUME Working, CollectDone
  PROVE  GcInv'
  <1>0. Base /\ Exact /\ Phase /\ stack # <<>> BY DEF Working, GcInv
  <1>1. /\ Top.op = "collect" /\ Top.rest = {} /\ Roots = {}
        /\ UNCHANGED <<type, content, rc, ext>> /\ UNCHANGED gcVars
    BY DEF CollectDone, heapVars, Working
  <1>2. CollectInv(Top) BY <1>0, <1>1, PhaseIs
  <1>3. PICK L : L = Top.list OBVIOUS
  <1>4. Painted("white") = {} /\ Trial = {} /\ Garbage(Top) = L
    <2>1. InSlots(Roots) \cup Top.rest = {} BY <1>1 DEF InSlots
    <2>2. Covers({}, Painted("white")) BY <1>2, <2>1 DEF CollectInv
    <2>3. {} \in SUBSET Node OBVIOUS
    <2>4. Painted("white") = {} BY <2>2, <2>3 DEF Covers, Reaches
    <2>5. Painted("grey") = {} BY <1>2 DEF CollectInv
    <2> QED BY <1>3, <2>4, <2>5 DEF Trial, Painted, Garbage
  <1>5. /\ L \subseteq Zval /\ L \subseteq Node /\ L \subseteq Alive /\ L \cap Dying = {}
        /\ \A z \in L : ext[z] = 0 /\ Weight(Return, z) = 0
    BY <1>2, <1>3, <1>4 DEF CollectInv, Node, Return
  <1>6. \A z \in L, m \in Node : z \in content[m] =>
           \/ m \in L \/ m \in Moved
           \/ m \in Obj \ Dying /\ \A h \in Node : m \in content[h] => h \in L \cup Stale
    BY <1>2, <1>4 DEF CollectInv
  <1>7. PICK d : d = Gc("destroy", L, L) OBVIOUS
  <1>8. d \in Frame /\ d.op = "destroy" /\ d.rest = L /\ d.list = L
    BY <1>5, <1>7 DEF Gc, Call, Frame, Op
  <1>9. Own(d) = L /\ Moves(d) = {} /\ Drops(d) = L /\ Lists(d) = L /\ Gathers(d) = {}
    BY <1>8 DEF Own, Moves, Drops, Lists, Gathers
  <1>10. /\ Top \in Frame /\ Pushed(stack, Top, Return) /\ Calls = {Top} \cup SetOf(Return)
         /\ \A e \in SetOf(Return) : e \in Frame /\ FrameOK(e) /\ PairOK(Top, e)
    BY <1>0, TopFrame
  <1>11. Bare(Top) /\ Gathered = L /\ \A m : W(Top, m) = IF m \in L THEN 1 ELSE 0
    BY <1>0, <1>1, <1>3, PhaseTop DEF Collects
  <1>12. \A m : W(d, m) = W(Top, m)
    <2>1. Refs(d) = {} /\ Keeps(d) = L BY <1>8 DEF Refs, Keeps
    <2> QED BY <1>11, <2>1 DEF W
  <1>13. /\ \A e \in SetOf(Return) : e.op \in Lower
         /\ GatheredBy(SetOf(Return)) = {}
    BY <1>0, <1>1, Waiting DEF Base
  <1>14. Pushed(stack', d, Return)
    <2>1. stack' = <<d>> \o Return BY <1>3, <1>7 DEF CollectDone, Goto
    <2>2. Return \in Seq(Frame) BY <1>10 DEF Pushed
    <2> QED BY <1>8, <2>1, <2>2, PushIs
  <1>15. Calls' = {d} \cup SetOf(Return) BY <1>14, CallsSet DEF Pushed
  <1>16. /\ Owned' = Owned \cup L /\ Moved' = Moved /\ Stale' = Stale \cup L
         /\ InLists' = InLists \cup L /\ Gathered' = {}
    <2>1. /\ Owned = Own(Top) \cup OwnedBy(SetOf(Return))
          /\ Moved = Moves(Top) \cup MovedBy(SetOf(Return))
          /\ Stale = Drops(Top) \cup StaleBy(SetOf(Return))
          /\ InLists = Lists(Top) \cup ListedBy(SetOf(Return))
      BY <1>0, SplitSets DEF Base
    <2> QED BY <1>9, <1>11, <1>13, <1>14, <2>1, CallsSet
         DEF Bare, Owned, Moved, Stale, InLists, Gathered, Pushed
  <1>17. Alive' = Alive BY <1>1 DEF Alive
  <1>18. Doomed \subseteq Doomed' /\ \A o \in Doomed' \ Doomed : Dooms(d, o, content)
    <2>1. ASSUME NEW o \in Doomed PROVE o \in Doomed'
      <3>1. o \in Obj /\ o \notin L BY <1>5, GcAssumption DEF Doomed
      <3> QED BY <1>1, <1>16, <3>1 DEF Doomed
    <2>2. ASSUME NEW o \in Doomed', o \notin Doomed PROVE Dooms(d, o, content)
      <3>1. PICK m \in Node : o \in content[m] /\ m \notin Stale
        BY <1>1, <1>16, <2>2 DEF Doomed
      <3>2. m \in L BY <1>1, <1>16, <3>1 DEF Doomed
      <3> QED BY <1>8, <3>1, <3>2 DEF Dooms
    <2> QED BY <2>1, <2>2
  <1>19. /\ Dying \subseteq Dying' /\ L \subseteq Dying'
         /\ \A m \in Dying' : m \in Dying \cup L \/ m \in Doomed' \ Doomed
    BY <1>16, <1>18 DEF Dying
  <1>20. \A m \in Doomed' \ Doomed : m \in Obj /\ m \notin Dying
    BY <1>16, <1>18 DEF Doomed, Dying
  <1>21. RefOK' = RefOK
    <2>1. \A z \in Zval : z \notin Doomed' BY GcAssumption DEF Doomed
    <2> QED BY <1>1, <1>5, <1>16, <1>17, <1>19, <2>1 DEF RefOK, Alive
  <1>22. StackInv'
    <2>1. Shape(stack') BY <1>8, <1>13, <1>14 DEF Pushed, Shape
    <2>2. ASSUME NEW e \in SetOf(Return) PROVE PairOK(d, e)
      <3>1. L \cap Own(e) = {}
        <4>1. e \in Calls BY <1>10
        <4>2. Own(e) \subseteq Owned BY <4>1, PartsOf DEF Owned
        <4> QED BY <1>5, <4>2 DEF Dying
      <3>2. ASSUME NEW z \in L PROVE z \notin Refs(e)
        <4>1. W(e, z) <= Weight(Return, z) BY <1>10, WeightBounds DEF Pushed
        <4>2. W(e, z) <= 0 BY <1>5, <4>1
        <4> QED BY <4>2 DEF W
      <3> QED BY <1>8, <1>9, <3>1, <3>2 DEF PairOK
    <2>3. PairsOf(Return) BY <1>0, <1>10 DEF Pushed, Base, StackInv
    <2> QED BY <1>14, <2>1, <2>2, <2>3 DEF StackInv, Pushed
  <1>23. ASSUME NEW m \in Node, m \in Obj \ Dying,
                \A h \in Node : m \in content[h] => h \in L \cup Stale, content[m] # {}
         PROVE  m \in Doomed' /\ Dooms(d, m, content)
    <2>1. type[m] = "store" BY <1>0, <1>23 DEF Base, Types
    <2>2. m \notin L BY <1>5, <1>23, GcAssumption
    <2>3. m \in Doomed' BY <1>1, <1>16, <1>23, <2>1, <2>2 DEF Doomed, Dying
    <2> QED BY <1>18, <1>23, <2>3 DEF Dying
  <1>24. Frames'
    <2>1. FrameOK(d)'
      <3>1. \A z \in L, m \in Node : z \in content[m] =>
               m \in L \/ m \in Moved \/ (m \in Doomed' /\ Dooms(d, m, content))
        BY <1>6, <1>23
      <3>2. ListHeld(d)' BY <1>1, <1>8, <1>16, <3>1 DEF ListHeld, Dooms
      <3> QED BY <1>5, <1>8, <1>17, <3>2 DEF FrameOK
    <2>2. ASSUME NEW e \in SetOf(Return) PROVE FrameOK(e)'
      <3>1. FrameOK(e) /\ e.op \in Lower BY <1>10, <1>13
      <3>2. e.op # "dtor" /\ e.op # "root" BY <3>1 DEF Lower
      <3>3. e.op = "destroy" => ListHeld(e)'
        BY <1>1, <1>16, <1>18, <3>1 DEF FrameOK, ListHeld, Dooms
      <3> QED BY <1>1, <1>17, <1>21, <3>1, <3>2, <3>3 DEF FrameOK
    <2> QED BY <1>15, <2>1, <2>2 DEF Frames
  <1>25. DoomInv'
    <2>1. ASSUME NEW o \in Doomed' PROVE \E c \in Calls' : Dooms(c, o, content)
      <3>1. CASE o \in Doomed
        <4>1. PICK c \in Calls : Dooms(c, o, content) BY <1>0, <3>1 DEF Base, DoomInv
        <4>2. c # Top BY <1>1, <4>1 DEF Dooms
        <4> QED BY <1>10, <1>15, <4>1, <4>2
      <3>2. CASE o \notin Doomed BY <1>15, <1>18, <3>2
      <3> QED BY <3>1, <3>2
    <2>2. Ordered(stack', Doomed', content)
      <3>1. Ordered(<<Top>> \o Return, Doomed, content) /\ Return \in Seq(Frame)
        BY <1>0, <1>10 DEF Base, DoomInv, Pushed
      <3>2. \A o \in Doomed : Dooms(Top, o, content) => Dooms(d, o, content)
        BY <1>1 DEF Dooms
      <3>3. d.op # "collected" BY <1>8
      <3>4. PICK Y : Y = Doomed' OBVIOUS
      <3>5. \A o \in Y \ Doomed : Dooms(d, o, content) BY <1>18, <3>4
      <3>6. Ordered(<<d>> \o Return, Y, content)
        BY <1>8, <1>10, <3>1, <3>2, <3>3, <3>5, OrderedSwap
      <3> QED BY <1>14, <3>4, <3>6 DEF Pushed
    <2> QED BY <1>1, <2>1, <2>2 DEF DoomInv, Dooms
  <1>26. Closed'
    <2>1. ASSUME NEW m \in Node \ Dying', NEW k \in content[m]
          PROVE  k \in Alive \ Dying'
      <3>1. m \notin Dying /\ m \notin L BY <1>19, <2>1
      <3>2. k \in Alive \ Dying BY <1>0, <2>1, <3>1 DEF Base, Closed
      <3>3. k \notin L
        <4> SUFFICES ASSUME k \in L PROVE FALSE OBVIOUS
        <4>1. m \notin Moved BY <1>0, <3>1, SetParts DEF Base, StackInv, Dying
        <4>2. m \in Obj \ Dying /\ \A h \in Node : m \in content[h] => h \in L \cup Stale
          BY <1>6, <2>1, <3>1, <4>1
        <4>3. m \in Doomed' BY <1>23, <2>1, <4>2
        <4> QED BY <2>1, <4>3 DEF Dying
      <3>4. k \notin Doomed' \ Doomed
        <4> SUFFICES ASSUME k \in Doomed' PROVE FALSE OBVIOUS
        <4>1. m \in Stale' BY <1>1, <2>1 DEF Doomed
        <4>2. m \in Stale BY <1>16, <3>1, <4>1
        <4> QED BY <1>0, <3>1, <4>2, SetParts DEF Base, StackInv, Dying
      <3> QED BY <1>19, <3>2, <3>3, <3>4
    <2>2. ASSUME NEW m \in Doomed' \cup InLists' PROVE content[m] \cap Zval \subseteq RefOK
      <3>1. CASE m \in Doomed \cup InLists BY <1>0, <3>1 DEF Base, Closed
      <3>2. CASE m \in Node \ Dying
        <4>1. content[m] \subseteq Alive \ Dying BY <1>0, <3>2 DEF Base, Closed
        <4> QED BY <4>1 DEF RefOK, Alive
      <3>3. m \in Doomed \cup InLists \/ m \in Node \ Dying
        BY <1>5, <1>16, <1>20, <2>2 DEF Node
      <3> QED BY <3>1, <3>2, <3>3
    <2>3. \A z \in Zval : type[z] = "null" => z \in Owned' BY <1>0, <1>16 DEF Base, Closed
    <2>4. \A z \in Zval : ext[z] > 0 => z \in Alive \ Owned'
      <3> SUFFICES ASSUME NEW z \in Zval, ext[z] > 0 PROVE z \in Alive \ Owned' OBVIOUS
      <3>1. z \in Alive \ Owned BY <1>0 DEF Base, Closed
      <3>2. z \notin L BY <1>5
      <3> QED BY <1>16, <3>1, <3>2
    <2>5. Owned' \subseteq Alive BY <1>0, <1>5, <1>16 DEF Base, Closed
    <2>6. \A m \in Node \ Dying' : content[m] \subseteq Alive \ Dying' BY <2>1
    <2> QED BY <1>1, <1>17, <1>21, <2>2, <2>3, <2>4, <2>5, <2>6 DEF Closed
  <1>27. Base'
    <2>1. Types' BY <1>0, <1>1 DEF Base, Types
    <2>2. RootTypes' BY <1>0, <1>1, RootTypesStill DEF Base
    <2> QED BY <1>22, <1>24, <1>25, <1>26, <2>1, <2>2 DEF Base, Working
  <1>28. Exact'
    <2>1. Trial' = Trial BY <1>1 DEF Trial, gcVars
    <2>2. Stale' \cup Gathered' = Stale \cup Gathered BY <1>11, <1>16
    <2>3. ASSUME NEW m \in Alive
          PROVE rc'[m] - rc[m] = Weight(stack', m) - Weight(stack, m)
      <3>1. Weight(stack', m) = W(d, m) + Weight(Return, m) BY <1>14 DEF Pushed
      <3>2. Weight(stack, m) = W(Top, m) + Weight(Return, m) /\ Weight(Return, m) \in Nat
        BY <1>10 DEF Pushed
      <3>3. rc[m] \in Int /\ rc'[m] = rc[m] BY <1>0, <1>1 DEF Base, Types, Alive
      <3> QED BY <1>12, <3>1, <3>2, <3>3, WType
    <2> QED BY <1>0, <1>1, <1>16, <1>27, <2>1, <2>2, <2>3, StillExact
  <1>29. Quiet' BY <1>1, <1>4 DEF Quiet, Trial, Roots, gcVars
  <1>30. Top'.op = "destroy" BY <1>8, <1>14 DEF Pushed, Top
  <1>31. Phase' BY <1>29, <1>30, PhaseQuietNext DEF Collects
  <1> QED BY <1>27, <1>28, <1>31 DEF GcInv
-----------------------------------------------------------------------------
\* The nodes ns give back their slots.
LEMMA Unbuffered ==
  ASSUME RootTypes, Quiet, NEW ns \in SUBSET Node, Unbuffer(ns)
  PROVE  /\ RootTypes' /\ Trial' = {}
         /\ \A s \in Roots' : color'[slots'[s]] = "purple"
               => addr'[slots'[s]] # 0 /\ slots'[s] \notin Dying /\ slots'[s] \notin ns
  <1>1. /\ \A s \in Slot : slots'[s] = IF \E n \in ns : addr[n] = s THEN None ELSE slots[s]
        /\ \A m \in Node : addr'[m] = IF m \in ns THEN 0 ELSE addr[m]
        /\ \A m \in Node : color'[m] = IF m \in ns /\ addr[m] # 0 THEN "black" ELSE color[m]
    BY DEF Unbuffer
  <1>2. RootTypes'
    <2>1. /\ addr' \in [Node -> {0} \cup Slot] /\ slots' \in [Slot -> Node \cup {None}]
          /\ color' \in [Node -> {"black", "grey", "white", "purple"}]
      BY DEF Unbuffer, RootTypes
    <2>2. ASSUME NEW m \in Node, addr'[m] # 0 PROVE slots'[addr'[m]] = m
      <3>1. m \notin ns /\ addr'[m] = addr[m] BY <1>1, <2>2
      <3>2. slots[addr[m]] = m /\ addr[m] \in Slot BY <2>2, <3>1 DEF RootTypes
      <3>3. \A n \in ns : addr[n] # addr[m]
        <4> SUFFICES ASSUME NEW n \in ns, addr[n] = addr[m] PROVE FALSE OBVIOUS
        <4>1. slots[addr[n]] = n BY <2>2, <3>1 DEF RootTypes
        <4> QED BY <3>1, <3>2, <4>1
      <3> QED BY <1>1, <3>1, <3>2, <3>3
    <2> QED BY <2>1, <2>2 DEF RootTypes
  <1>3. Trial' = {} BY <1>1 DEF Quiet, Trial
  <1>4. ASSUME NEW s \in Roots', color'[slots'[s]] = "purple"
        PROVE  addr'[slots'[s]] # 0 /\ slots'[s] \notin Dying /\ slots'[s] \notin ns
    <2>1. s \in Roots /\ slots'[s] = slots[s] /\ slots[s] \in Node
      BY <1>1 DEF Roots, RootTypes
    <2>2. color[slots[s]] = "purple" BY <1>1, <1>4, <2>1
    <2>3. addr[slots[s]] # 0 /\ slots[s] \notin Dying BY <2>1, <2>2 DEF Quiet
    <2>4. slots[s] \notin ns BY <1>1, <1>4, <2>1, <2>3
    <2> QED BY <1>1, <2>1, <2>3, <2>4
  <1> QED BY <1>2, <1>3, <1>4

\* Nodes that are about to die leave the buffer.
LEMMA UnbufferedQuiet ==
  ASSUME RootTypes, Quiet, NEW ns \in SUBSET Node, Unbuffer(ns), Dying' \subseteq Dying \cup ns
  PROVE  RootTypes' /\ Quiet'
  BY Unbuffered DEF Quiet

\* zval_ptr_dtor gives up the last reference to a zval: only objects that are
\* being destroyed may still contain it, and no call will release it again.
LastRef(z) ==
    /\ z \in Zval /\ z \in Node /\ z \in Alive /\ z \notin Dying /\ ext[z] = 0
    /\ Preds(z) = {} /\ Weight(Return, z) = 0
    /\ type[z] \in {"array", "object"} /\ content[z] \subseteq Alive \ Dying
    /\ \A m \in Node : z \in content[m] => m \in Moved
    /\ \A d \in SetOf(Return) : z \notin Refs(d) /\ z \notin Own(d) /\ d.op \in Lower

\* A count of one: the call of zval_ptr_dtor holds the only reference.
LEMMA LastRefIs ==
  ASSUME Working, Top.op = "dtor", rc[Top.z] = 1
  PROVE  LastRef(Top.z)
  <1>0. Base /\ Exact /\ Phase /\ stack # <<>> BY DEF Working, GcInv
  <1>1. Top \in Frame /\ FrameOK(Top) /\ Pushed(stack, Top, Return) BY <1>0, TopFrame
  <1>2. PICK z : z = Top.z OBVIOUS
  <1>3. z \in RefOK /\ z \in Zval /\ z \in Node /\ z \in Alive
    BY <1>1, <1>2 DEF FrameOK, RefOK, Node, Alive
  <1>4. W(Top, z) = 1
    <2>1. Refs(Top) = {z} /\ Keeps(Top) = {} BY <1>2 DEF Refs, Keeps
    <2> QED BY <2>1 DEF W
  <1>5. Ext(z) = 0 /\ Cardinality(Preds(z)) = 0 /\ Weight(Return, z) = 0
    <2>1. rc[z] = Ext(z) + Cardinality(Preds(z)) + Weight(stack, z)
      BY <1>0, <1>3 DEF Exact
    <2>2. Weight(stack, z) = W(Top, z) + Weight(Return, z) /\ Weight(Return, z) \in Nat
      BY <1>1 DEF Pushed
    <2>3. Ext(z) \in Nat /\ Cardinality(Preds(z)) \in Nat BY <1>0, <1>3, Numbers
    <2> QED BY <1>2, <1>4, <2>1, <2>2, <2>3
  <1>6. Preds(z) = {} BY <1>5, PredsCount, FS_EmptySet
  <1>7. ext[z] = 0 BY <1>3, <1>5 DEF Ext
  <1>8. \A d \in SetOf(Return) : W(d, z) = 0
    <2> SUFFICES ASSUME NEW d \in SetOf(Return) PROVE W(d, z) = 0 OBVIOUS
    <2>1. W(d, z) <= Weight(Return, z) BY <1>1, WeightBounds DEF Pushed
    <2> QED BY <1>5, <2>1, WType
  <1>9. \A d \in SetOf(Return) : z \notin Refs(d) /\ z \notin Keeps(d) BY <1>8 DEF W
  <1>10. z \notin InLists
    <2>1. InLists = Lists(Top) \cup ListedBy(SetOf(Return)) /\ Lists(Top) = {}
      BY <1>0, SplitSets DEF Base, Lists
    <2>2. \A d \in SetOf(Return) : z \notin Lists(d) BY <1>9 DEF Keeps, Lists
    <2> QED BY <2>1, <2>2 DEF ListedBy
  <1>11. z \notin Dying BY <1>3, <1>10 DEF RefOK
  <1>12. \A d \in SetOf(Return) : z \notin Own(d)
    <2>1. \A d \in Calls : Own(d) \subseteq Owned BY PartsOf DEF Owned
    <2>2. SetOf(Return) \subseteq Calls BY <1>0, TopFrame
    <2> QED BY <1>11, <2>1, <2>2 DEF Dying
  <1>13. \A d \in SetOf(Return) : d.op \in Lower BY <1>0, Waiting DEF Base
  <1>14. content[z] \subseteq Alive \ Dying BY <1>0, <1>3, <1>11 DEF Base, Closed
  <1>15. type[z] \in {"array", "object"}
    <2>1. type[z] # "null" BY <1>0, <1>3, <1>11 DEF Base, Closed, Dying
    <2>2. type[z] \in Type /\ type[z] # "store" /\ type[z] # "free"
      BY <1>0, <1>3 DEF Base, Types, Alive
    <2> QED BY <2>1, <2>2 DEF Type
  <1>16. ASSUME NEW m \in Node, z \in content[m] PROVE m \in Moved
    <2>1. /\ Gathered = {} /\ Trial = {} /\ Stale \subseteq Owned \cap Zval
          /\ Spent = Moved \cup {y \in Stale : type[y] = "object"}
      BY <1>0, QuietFacts DEF Collects
    <2>2. m \in Moved \/ (m \in Zval /\ type[m] = "object")
      BY <1>6, <1>16, <2>1 DEF Preds
    <2>3. ~(m \in Zval /\ type[m] = "object")
      BY <1>0, <1>3, <1>16, Handle, GcAssumption DEF Base
    <2> QED BY <2>2, <2>3
  <1>17. LastRef(z)
    BY <1>3, <1>5, <1>6, <1>7, <1>9, <1>11, <1>12, <1>13, <1>14, <1>15, <1>16 DEF LastRef
  <1> QED BY <1>2, <1>17
-----------------------------------------------------------------------------
\* A call takes U: the zval z, and perhaps its object, to destroy them.
Takes(z, U) ==
    /\ z \in U /\ U \subseteq Node /\ U \cap Zval = {z} /\ U \subseteq Alive \ Dying
    /\ \A m \in Node \ {z} : type'[m] = type[m] /\ content'[m] = content[m]
    /\ \/ type[z] = "object" /\ type'[z] = "object" /\ content'[z] = content[z]
       \/ type[z] = "array" /\ type'[z] = "null" /\ content'[z] = {}
    /\ Owned' = Owned \cup U /\ Moved \subseteq Moved' /\ Stale \subseteq Stale'
    /\ InLists' = InLists /\ Doomed' = Doomed

\* What else is dying when a call takes U to destroy it.
LEMMA TakesSets ==
  ASSUME Working, NEW z, LastRef(z), NEW U, Takes(z, U)
  PROVE  /\ Dying' = Dying \cup U /\ RefOK' = RefOK \ {z} /\ Alive' = Alive
         /\ \A d \in SetOf(Return), o \in Doomed :
               Dooms(d, o, content) => Dooms(d, o, content')
         /\ z \notin InLists
  <1>0. Base /\ stack # <<>> BY DEF Working, GcInv
  <1>1. Dying' = Dying \cup U BY DEF Takes, Dying
  <1>2. Alive' = Alive
    <2>1. type[z] # "free" /\ type'[z] # "free" BY DEF Takes
    <2> QED BY <2>1 DEF Alive, Takes
  <1>3. z \notin InLists BY <1>0, SetParts DEF Base, StackInv, LastRef, Dying
  <1>4. RefOK' = RefOK \ {z}
    <2>1. \A y \in Zval \ {z} : type'[y] = type[y] /\ y \notin U BY DEF Takes, Node
    <2>2. z \in U /\ InLists' = InLists BY DEF Takes
    <2> QED BY <1>1, <1>3, <2>1, <2>2 DEF RefOK
  <1>5. ASSUME NEW d \in SetOf(Return), NEW o \in Doomed, Dooms(d, o, content)
        PROVE  Dooms(d, o, content')
    <2>1. d \in Frame /\ FrameOK(d) BY <1>0, TopFrame
    <2>2. PICK y \in d.rest : o \in content[y] BY <1>5 DEF Dooms
    <2>3. d.op = "destroy" /\ y \in d.list /\ y \in Node
      BY <1>5, <2>1, <2>2 DEF Dooms, FrameOK, Frame
    <2>4. z \notin d.list BY <2>3 DEF LastRef, Own
    <2>5. content'[y] = content[y] BY <2>3, <2>4 DEF Takes
    <2> QED BY <2>2, <2>3, <2>5 DEF Dooms
  <1> QED BY <1>1, <1>2, <1>3, <1>4, <1>5

\* The waiting calls do not know what is taken.
LEMMA TakesFrames ==
  ASSUME Working, NEW z, LastRef(z), NEW U, Takes(z, U), NEW d \in SetOf(Return)
  PROVE  FrameOK(d)'
  <1>0. Base /\ stack # <<>> BY DEF Working, GcInv
  <1>1. /\ Dying' = Dying \cup U /\ RefOK' = RefOK \ {z} /\ Alive' = Alive
        /\ \A o \in Doomed : Dooms(d, o, content) => Dooms(d, o, content')
    BY TakesSets
  <1>2. d \in Frame /\ FrameOK(d) BY <1>0, TopFrame
  <1>3. d.op \in Lower /\ z \notin Refs(d) /\ z \notin Own(d) BY DEF LastRef
  <1>4. CASE d.op = "elements"
    <2>1. d.rest \subseteq RefOK' BY <1>1, <1>2, <1>3, <1>4 DEF FrameOK, Refs
    <2>2. d.z # None => type'[d.z] = "null"
      <3>1. d.z # z /\ (d.z # None => d.z \in Node)
        BY <1>2, <1>3, <1>4 DEF Own, LastRef, Frame, Node
      <3> QED BY <1>2, <1>4, <3>1 DEF FrameOK, Takes
    <2> QED BY <1>4, <2>1, <2>2 DEF FrameOK
  <1>5. CASE d.op = "properties"
    <2>1. d.rest \subseteq RefOK' BY <1>1, <1>2, <1>3, <1>5 DEF FrameOK, Refs
    <2>2. d.n \in Obj /\ type'[d.n] = "store"
      <3>1. d.n \in Obj /\ d.n \in Node /\ d.n # z
        BY <1>2, <1>5, GcAssumption DEF FrameOK, Node, LastRef
      <3> QED BY <1>2, <1>5, <3>1 DEF FrameOK, Takes
    <2>3. d.z # None => type'[d.z] = "object" /\ content'[d.z] = {d.n}
      <3>1. d.z # z /\ (d.z # None => d.z \in Node)
        BY <1>2, <1>3, <1>5 DEF Own, LastRef, Frame, Node
      <3> QED BY <1>2, <1>5, <3>1 DEF FrameOK, Takes
    <2> QED BY <1>5, <2>1, <2>2, <2>3 DEF FrameOK
  <1>6. CASE d.op = "efree"
    <2>1. d.z # z /\ d.z \in Node BY <1>2, <1>3, <1>6 DEF Own, LastRef, FrameOK, Node
    <2> QED BY <1>2, <1>6, <2>1 DEF FrameOK, Takes
  <1>7. CASE d.op = "collected" BY <1>2, <1>7 DEF FrameOK
  <1>8. CASE d.op = "destroy"
    <2>1. z \notin d.list BY <1>3, <1>8 DEF Own
    <2>2. d.list \subseteq Node BY <1>2, <1>8 DEF FrameOK, Node
    <2>3. \A y \in d.list : type'[y] = type[y] /\ content'[y] = content[y]
      BY <2>1, <2>2 DEF Takes
    <2>4. ListHeld(d)'
      <3> SUFFICES ASSUME NEW y \in d.list, NEW m \in Node, y \in content'[m]
                   PROVE  \/ m \in d.list \/ m \in Moved'
                          \/ m \in Doomed' /\ Dooms(d, m, content')
        BY DEF ListHeld
      <3>1. y \in content[m]
        <4>1. CASE m = z BY <4>1 DEF Takes
        <4>2. CASE m # z BY <4>2 DEF Takes
        <4> QED BY <4>1, <4>2
      <3>2. \/ m \in d.list \/ m \in Moved \/ (m \in Doomed /\ Dooms(d, m, content))
        BY <1>2, <1>8, <3>1 DEF FrameOK, ListHeld
      <3> QED BY <1>1, <3>2 DEF Takes
    <2> QED BY <1>1, <1>2, <1>8, <2>3, <2>4 DEF FrameOK
  <1> QED BY <1>3, <1>4, <1>5, <1>6, <1>7, <1>8 DEF Lower

\* Nothing that lives refers to what is taken.
LEMMA TakesClosed ==
  ASSUME Working, NEW z, LastRef(z), NEW U, Takes(z, U),
         \A m \in Node, k \in U \ {z} : k \in content[m] => m \in Stale \cup U
  PROVE  Closed'
  <1>0. Base /\ Closed /\ UNCHANGED ext BY DEF Working, GcInv, Base
  <1>1. /\ Dying' = Dying \cup U /\ RefOK' = RefOK \ {z} /\ Alive' = Alive
        /\ z \notin InLists
    BY TakesSets
  <1>2. /\ Moved \subseteq Owned \cap Obj /\ Stale \subseteq Owned \cap Zval
        /\ InLists \subseteq Stale
    BY <1>0, SetParts DEF Base, StackInv
  <1>3. z \in U /\ z \in Zval /\ z \notin Obj BY GcAssumption DEF Takes, LastRef
  <1>4. ASSUME NEW m \in Node \ Dying', NEW k \in content'[m]
        PROVE  k \in Alive' \ Dying'
    <2>1. m # z /\ m \notin Dying /\ k \in content[m] BY <1>1, <1>3, <1>4 DEF Takes
    <2>2. k \in Alive \ Dying BY <1>0, <1>4, <2>1 DEF Closed
    <2>3. k # z BY <1>2, <1>4, <2>1 DEF LastRef, Dying
    <2>4. k \notin U \ {z} BY <1>1, <1>2, <1>4, <2>1 DEF Dying
    <2> QED BY <1>1, <2>2, <2>3, <2>4
  <1>5. ASSUME NEW m \in Doomed' \cup InLists' PROVE content'[m] \cap Zval \subseteq RefOK'
    <2>1. m \in Doomed \cup InLists /\ m \in Node /\ m # z
      BY <1>1, <1>2, <1>3, <1>5 DEF Takes, Doomed, Node
    <2>2. content'[m] = content[m] BY <2>1 DEF Takes
    <2>3. z \notin content[m]
      <3>1. m \notin Moved BY <1>2, <2>1, GcAssumption DEF Doomed
      <3> QED BY <2>1, <3>1 DEF LastRef
    <2> QED BY <1>0, <1>1, <2>1, <2>2, <2>3 DEF Closed
  <1>6. ASSUME NEW y \in Zval, type'[y] = "null" PROVE y \in Owned'
    <2>1. CASE y = z BY <1>3, <2>1 DEF Takes
    <2>2. CASE y # z BY <1>0, <1>6, <2>2 DEF Takes, Closed, Node
    <2> QED BY <2>1, <2>2
  <1>7. ASSUME NEW y \in Zval, ext'[y] > 0 PROVE y \in Alive' \ Owned'
    <2>1. y # z
      <3>1. ext[z] = 0 BY DEF LastRef
      <3> QED BY <1>0, <1>7, <3>1
    <2>2. y \in Alive \ Owned BY <1>0, <1>7 DEF Closed
    <2> QED BY <1>1, <2>1, <2>2 DEF Takes
  <1>8. Owned' \subseteq Alive' BY <1>0, <1>1 DEF Takes, Closed
  <1> QED BY <1>4, <1>5, <1>6, <1>7, <1>8 DEF Closed

\* A call that takes U keeps what the invariant says of the heap.
LEMMA TakesBase ==
  ASSUME Working, Top.op = "dtor", NEW z, LastRef(z), NEW U, Takes(z, U),
         \A m \in Node, k \in U \ {z} : k \in content[m] => m \in Stale \cup U,
         Types', RootTypes', StackInv', NEW F, Calls' = F \cup SetOf(Return),
         \A c \in F : FrameOK(c)', Ordered(stack', Doomed, content')
  PROVE  Base'
  <1>0. Base /\ stack # <<>> BY DEF Working, GcInv
  <1>1. Closed' BY TakesClosed
  <1>2. Frames'
    <2>1. \A d \in SetOf(Return) : FrameOK(d)' BY TakesFrames
    <2> QED BY <2>1 DEF Frames
  <1>3. DoomInv'
    <2>1. ASSUME NEW o \in Doomed PROVE \E c \in Calls' : Dooms(c, o, content')
      <3>1. PICK c \in Calls : Dooms(c, o, content) BY <1>0 DEF Base, DoomInv
      <3>2. c # Top BY <3>1 DEF Dooms
      <3>3. c \in SetOf(Return) BY <1>0, <3>1, <3>2, TopFrame
      <3> QED BY <3>1, <3>3, TakesSets
    <2>2. \A o \in Doomed' : \E c \in Calls' : Dooms(c, o, content)' BY <2>1 DEF Takes, Dooms
    <2>3. Ordered(stack, Doomed, content)' BY DEF Takes, Ordered, Dooms
    <2> QED BY <2>2, <2>3 DEF DoomInv
  <1> QED BY <1>1, <1>2, <1>3 DEF Base, Working
-----------------------------------------------------------------------------
\* The destructor goes on as d, which waits for what d calls to release.
LEMMA DtorStack ==
  ASSUME Working, Top.op = "dtor", LastRef(Top.z), NEW d \in Frame, d.op \in Lower,
         d.op \notin {"collected", "destroy"}, NEW ct,
         \A e \in SetOf(Return) : Own(d) \cap (Own(e) \cup Refs(e)) = {},
         \A e \in SetOf(Return), o \in Doomed :
               Dooms(e, o, content) => Dooms(e, o, ct)
  PROVE  /\ Pushed(<<d>> \o Return, d, Return) /\ PairsOf(<<d>> \o Return)
         /\ Ordered(<<d>> \o Return, Doomed, ct)
         /\ \A e \in SetOf(<<d>> \o Return) : e.op \in Lower
         /\ <<d>> \o Return \in Seq(Frame)
  <1>0. Base /\ stack # <<>> BY DEF Working, GcInv
  <1>1. Top \in Frame /\ Pushed(stack, Top, Return) BY <1>0, TopFrame
  <1>2. Return \in Seq(Frame) /\ PairsOf(Return) BY <1>0, <1>1 DEF Pushed, Base, StackInv
  <1>3. Pushed(<<d>> \o Return, d, Return) BY <1>2, PushIs
  <1>4. PairsOf(<<d>> \o Return) BY <1>2, PairsPush DEF PairOK
  <1>5. Ordered(Return, Doomed, content)
    <2>1. Ordered(<<Top>> \o Return, Doomed, content)
      BY <1>0, <1>1 DEF Base, DoomInv, Pushed
    <2>2. \A o \in Doomed : ~Dooms(Top, o, content) BY DEF Dooms
    <2> QED BY <1>1, <1>2, <2>1, <2>2, OrderedPop
  <1>6. Ordered(Return, Doomed, ct) BY <1>2, <1>5, OrderedMono
  <1>7. Ordered(<<d>> \o Return, Doomed, ct) BY <1>2, <1>6, OrderedPush
  <1>8. \A e \in SetOf(<<d>> \o Return) : e.op \in Lower
    BY <1>3 DEF Pushed, LastRef
  <1> QED BY <1>3, <1>4, <1>7, <1>8 DEF Pushed

\* The reference that zval_ptr_dtor was called with.
LEMMA DtorWeight ==
  ASSUME Working, Top.op = "dtor", LastRef(Top.z)
  PROVE  \A m : /\ Weight(stack, m) = (IF m = Top.z THEN 1 ELSE 0) + Weight(Return, m)
                /\ Weight(Return, m) \in Nat
  <1>1. Pushed(stack, Top, Return) BY TopFrame DEF Working, GcInv
  <1>2. Refs(Top) = {Top.z} /\ Keeps(Top) = {} BY DEF Refs, Keeps
  <1>3. \A m : W(Top, m) = IF m = Top.z THEN 1 ELSE 0 BY <1>2 DEF W
  <1> QED BY <1>1, <1>3 DEF Pushed

\* zval_ptr_dtor of the last reference to an array.
LEMMA ArrayStep ==
  ASSUME Working, Top.op = "dtor", DtorArray(Top.z)
  PROVE  GcInv'
  <1>0. Base /\ Exact /\ Phase /\ stack # <<>> BY DEF Working, GcInv
  <1>1. PICK z : z = Top.z OBVIOUS
  <1>2. rc[z] = 1 /\ type[z] # "object" BY <1>1 DEF DtorArray
  <1>3. LastRef(z) BY <1>1, <1>2, LastRefIs
  <1>4. z \in Zval /\ z \in Node /\ type[z] = "array" /\ z \notin Obj /\ z \in Alive \ Dying
        /\ content[z] \subseteq Alive \ Dying
    BY <1>2, <1>3, GcAssumption DEF LastRef
  <1>5. Types /\ RootTypes /\ content[z] \subseteq Zval /\ content[z] \subseteq Node
        /\ content[z] \subseteq RefOK
    <2>1. content[z] \subseteq Zval BY <1>0, <1>4 DEF Base, Types
    <2> QED BY <1>0, <1>4, <2>1 DEF Base, RefOK, Alive
  <1>6. PICK d : d = Call("elements", z, z, content[z], {}) OBVIOUS
  <1>7. /\ rc' = [rc EXCEPT ![z] = 0] /\ Unbuffer({z}) /\ type' = [type EXCEPT ![z] = "null"]
        /\ content' = [content EXCEPT ![z] = {}] /\ stack' = <<d>> \o Return
    BY <1>1, <1>6 DEF DtorArray, Goto
  <1>8. /\ d \in Frame /\ d.op = "elements" /\ d.z = z /\ d.n = z /\ d.rest = content[z]
        /\ d.list = {}
    BY <1>4, <1>5, <1>6 DEF Call, Frame, Op
  <1>9. Own(d) = {z} /\ Moves(d) = {} /\ Drops(d) = {} /\ Lists(d) = {} /\ Gathers(d) = {}
        /\ Refs(d) = content[z] /\ Keeps(d) = {}
    BY <1>4, <1>8 DEF Own, Moves, Drops, Lists, Gathers, Refs, Keeps
  <1>10. \A m \in Node : /\ type'[m] = (IF m = z THEN "null" ELSE type[m])
                         /\ content'[m] = (IF m = z THEN {} ELSE content[m])
                         /\ rc'[m] = (IF m = z THEN 0 ELSE rc[m])
    BY <1>5, <1>7, <1>0 DEF Types, Base
  <1>11. Types'
    <2>1. type' \in [Node -> Type] /\ content' \in [Node -> SUBSET Node]
          /\ rc' \in [Node -> Int] /\ ext' \in [Zval -> 0 .. MaxRefs]
      BY <1>4, <1>5, <1>7 DEF Types, Type, Working
    <2>2. \A y \in Zval : type'[y] # "store" BY <1>5, <1>10 DEF Types, Node
    <2>3. \A o \in Obj : type'[o] \in {"free", "store"} BY <1>4, <1>5, <1>10 DEF Types, Node
    <2>4. \A m \in Node : type'[m] \in {"free", "null"} => content'[m] = {}
      BY <1>5, <1>10 DEF Types
    <2>5. \A m \in Node : type'[m] \in {"array", "store"} => content'[m] \subseteq Zval
      BY <1>5, <1>10 DEF Types
    <2>6. \A y \in Zval : type'[y] = "object" => \E o \in Obj : content'[y] = {o}
      BY <1>5, <1>10 DEF Types, Node
    <2> QED BY <2>1, <2>2, <2>3, <2>4, <2>5, <2>6 DEF Types
  <1>12. /\ \A e \in SetOf(Return) : Own(d) \cap (Own(e) \cup Refs(e)) = {}
         /\ \A e \in SetOf(Return), o \in Doomed :
               Dooms(e, o, content) => Dooms(e, o, content')
    <2>1. ASSUME NEW e \in SetOf(Return), NEW o \in Doomed, Dooms(e, o, content)
          PROVE  Dooms(e, o, content')
      <3>1. e \in Frame BY <1>0, TopFrame
      <3>2. o \notin content[z] BY <1>5, GcAssumption DEF Doomed
      <3> QED BY <1>10, <2>1, <3>1, <3>2 DEF Dooms, Frame
    <2> QED BY <1>3, <1>9, <2>1 DEF LastRef
  <1>13. /\ Pushed(stack', d, Return) /\ PairsOf(stack') /\ Ordered(stack', Doomed, content')
         /\ (\A e \in SetOf(stack') : e.op \in Lower) /\ stack' \in Seq(Frame)
    <2>1. d.op \in Lower /\ d.op \notin {"collected", "destroy"} BY <1>8 DEF Lower
    <2>2. PICK ct : ct = content' OBVIOUS
    <2> QED BY <1>1, <1>3, <1>7, <1>8, <1>12, <2>1, <2>2, DtorStack
  <1>14. StackInv'
    <2>1. Shape(stack') BY <1>8, <1>13 DEF Shape, Pushed
    <2> QED BY <1>13, <2>1 DEF StackInv
  <1>15. Calls' = {d} \cup SetOf(Return) BY <1>13, CallsSet DEF Pushed
  <1>16. /\ Owned' = Owned \cup {z} /\ Moved' = Moved /\ Stale' = Stale
         /\ InLists' = InLists /\ Gathered' = {}
    <2>1. /\ Owned = Own(Top) \cup OwnedBy(SetOf(Return))
          /\ Moved = Moves(Top) \cup MovedBy(SetOf(Return))
          /\ Stale = Drops(Top) \cup StaleBy(SetOf(Return))
          /\ InLists = Lists(Top) \cup ListedBy(SetOf(Return))
      BY <1>0, SplitSets DEF Base
    <2>2. Bare(Top) BY DEF Bare, Own, Moves, Drops, Lists
    <2>3. GatheredBy(SetOf(Return)) = {} BY <1>0, Waiting DEF Base
    <2> QED BY <1>9, <1>13, <2>1, <2>2, <2>3, CallsSet
         DEF Bare, Owned, Moved, Stale, InLists, Gathered, Pushed
  <1>17. Doomed' = Doomed
    <2>1. ASSUME NEW o \in Obj PROVE o \in Doomed' <=> o \in Doomed
      <3>1. o \in Node /\ o # z BY <1>4 DEF Node
      <3>2. type'[o] = type[o] /\ (o \in Owned' <=> o \in Owned) BY <1>10, <1>16, <3>1
      <3>3. \A m \in Node : o \in content'[m] <=> o \in content[m]
        BY <1>5, <1>10, GcAssumption
      <3> QED BY <1>16, <3>2, <3>3 DEF Doomed
    <2> QED BY <2>1 DEF Doomed
  <1>18. Takes(z, {z}) BY <1>4, <1>10, <1>16, <1>17 DEF Takes
  <1>19. Dying' = Dying \cup {z} /\ RefOK' = RefOK \ {z} /\ Alive' = Alive
    BY <1>3, <1>18, TakesSets
  <1>20. z \notin content[z]
    <2>1. z \notin Moved BY <1>0, <1>4, SetParts DEF Base, StackInv
    <2> QED BY <1>3, <1>4, <2>1 DEF LastRef
  <1>21. FrameOK(d)'
    <2>1. d.rest \subseteq RefOK' BY <1>5, <1>8, <1>19, <1>20
    <2>2. type'[z] = "null" BY <1>4, <1>10
    <2> QED BY <1>8, <2>1, <2>2 DEF FrameOK
  <1>22. RootTypes' /\ Quiet'
    <2>1. Quiet BY <1>0, PhaseQuiet DEF Collects
    <2>2. {z} \in SUBSET Node BY <1>4
    <2> QED BY <1>5, <1>7, <1>19, <2>1, <2>2, UnbufferedQuiet
  <1>23. Base'
    <2>1. PICK U : U = {z} OBVIOUS
    <2>2. PICK F : F = {d} OBVIOUS
    <2>3. \A m \in Node, k \in U \ {z} : k \in content[m] => m \in Stale \cup U BY <2>1
    <2>4. (\A c \in F : FrameOK(c)') /\ Calls' = F \cup SetOf(Return)
      BY <1>15, <1>21, <2>2
    <2>5. Takes(z, U) BY <1>18, <2>1
    <2>6. Ordered(stack', Doomed, content') BY <1>13
    <2> QED BY <1>3, <1>11, <1>14, <1>22, <2>3, <2>4, <2>5, <2>6, TakesBase
  <1>24. Spent' = Spent /\ z \notin Spent /\ Trial = {} /\ Trial' = {}
    <2>1. Gathered = {} /\ Trial = {} /\ Stale \subseteq Owned \cap Zval /\ Spent \subseteq Owned
      BY <1>0, QuietFacts DEF Collects
    <2>2. z \notin Owned BY <1>4 DEF Dying
    <2>3. \A y \in Stale : type'[y] = type[y] BY <1>10, <2>1, <2>2 DEF Node
    <2>4. Trial' = {} BY <1>22 DEF Quiet
    <2> QED BY <1>16, <2>1, <2>2, <2>3, <2>4 DEF Spent
  <1>25. ASSUME NEW m \in Alive
         PROVE  rc'[m] = Ext(m)' + Cardinality(Preds(m)') + Weight(stack', m)
    <2>1. rc[m] = Ext(m) + Cardinality(Preds(m)) + Weight(stack, m) /\ m \in Node
      BY <1>0 DEF Exact, Alive
    <2>2. /\ Ext(m)' = Ext(m) /\ rc[m] \in Int /\ Ext(m) \in Nat
          /\ Cardinality(Preds(m)) \in Nat /\ Weight(stack, m) \in Nat
      BY <1>0, <2>1, Numbers DEF Ext, Working
    <2>3. Weight(stack', m) = (IF m \in content[z] THEN 1 ELSE 0) + Weight(Return, m)
      BY <1>9, <1>13 DEF Pushed, W
    <2>4. Weight(stack, m) = (IF m = z THEN 1 ELSE 0) + Weight(Return, m)
          /\ Weight(Return, m) \in Nat
      BY <1>1, <1>3, DtorWeight
    <2>5. Preds(m)' = Preds(m) \ {z}
      <3>1. ASSUME NEW k \in Node PROVE k \in Preds(m)' <=> k \in Preds(m) \ {z}
        BY <1>10, <1>24 DEF Preds
      <3> QED BY <3>1 DEF Preds
    <2>6. CASE m = z
      <3>1. Preds(m) = {} /\ Weight(Return, m) = 0 /\ ext[z] = 0
        BY <1>3, <2>6 DEF LastRef
      <3>2. Cardinality(Preds(m)') = 0 BY <2>5, <3>1, FS_EmptySet
      <3>3. Ext(m) = 0 BY <2>6, <3>1 DEF Ext
      <3>4. rc'[m] = 0 BY <1>10, <2>1, <2>6
      <3> QED BY <1>20, <2>2, <2>3, <2>6, <3>1, <3>2, <3>3, <3>4
    <2>7. CASE m # z /\ m \in content[z]
      <3>1. z \in Preds(m) BY <1>4, <1>24, <2>7 DEF Preds
      <3>2. Cardinality(Preds(m)') = Cardinality(Preds(m)) - 1 BY <2>5, <3>1, PredsLess
      <3> QED BY <1>10, <2>1, <2>2, <2>3, <2>4, <2>7, <3>2
    <2>8. CASE m # z /\ m \notin content[z]
      <3>1. z \notin Preds(m) BY <2>8 DEF Preds
      <3>2. Preds(m)' = Preds(m) BY <2>5, <3>1
      <3> QED BY <1>10, <2>1, <2>2, <2>3, <2>4, <2>8, <3>2
    <2> QED BY <2>6, <2>7, <2>8
  <1>26. Exact' BY <1>19, <1>25 DEF Exact
  <1>27. Phase'
    <2>1. Top'.op = "elements" BY <1>8, <1>13 DEF Pushed, Top
    <2> QED BY <1>22, <2>1, PhaseQuietNext DEF Collects
  <1> QED BY <1>23, <1>26, <1>27 DEF GcInv
-----------------------------------------------------------------------------
\* The object of a handle that loses its last reference counts its handles.
LEMMA LastHandle ==
  ASSUME Working, Top.op = "dtor", NEW z, LastRef(z), type[z] = "object",
         NEW o, o = Holder(z)
  PROVE  /\ o \in Obj /\ o \in Node /\ o \notin Zval /\ content[z] = {o} /\ z # o
         /\ type[o] = "store" /\ o \in Alive \ Dying /\ content[o] \subseteq Zval
         /\ content[o] \subseteq Alive \ Dying /\ content[o] \subseteq RefOK
         /\ z \in Preds(o) /\ rc[o] = Cardinality(Preds(o)) /\ Weight(stack, o) = 0
         /\ o \notin Doomed /\ z \notin content[o]
         /\ \A m \in Node : o \in content[m] => m \in Zval /\ type[m] = "object"
                                                /\ content[m] = {o}
  <1>0. Base /\ Exact /\ Phase /\ stack # <<>> /\ Types BY DEF Working, GcInv, Base
  <1>1. z \in Zval /\ z \in Node /\ content[z] \subseteq Alive \ Dying /\ z \notin Dying
    BY DEF LastRef
  <1>2. o \in Obj /\ content[z] = {o} /\ o \in Node /\ o \notin Zval
    BY <1>0, <1>1, Handle
  <1>3. o \in Alive \ Dying BY <1>1, <1>2
  <1>4. type[o] = "store" BY <1>0, <1>2, <1>3 DEF Types, Alive
  <1>5. content[o] \subseteq Zval /\ content[o] \subseteq Alive \ Dying
    BY <1>0, <1>2, <1>3, <1>4 DEF Types, Base, Closed
  <1>6. content[o] \subseteq RefOK BY <1>5 DEF RefOK, Alive
  <1>7. /\ Gathered = {} /\ Trial = {} /\ Spent \subseteq Owned
    BY <1>0, QuietFacts DEF Collects
  <1>8. z \in Preds(o) BY <1>1, <1>2, <1>7 DEF Preds, Dying
  <1>9. Weight(stack, o) = 0 BY <1>0, <1>2, <1>3, ObjWeight DEF Collects, Dying
  <1>10. rc[o] = Cardinality(Preds(o))
    <2>1. rc[o] = Ext(o) + Cardinality(Preds(o)) + Weight(stack, o) BY <1>0, <1>3 DEF Exact
    <2>2. Ext(o) = 0 BY <1>2 DEF Ext
    <2>3. Cardinality(Preds(o)) \in Nat BY PredsCount
    <2> QED BY <1>9, <2>1, <2>2, <2>3
  <1>11. z \notin content[o]
    <2>1. o \notin Moved BY <1>0, <1>3, SetParts DEF Base, StackInv, Dying
    <2> QED BY <1>2, <2>1 DEF LastRef
  <1>12. \A m \in Node : o \in content[m] => m \in Zval /\ type[m] = "object"
                                             /\ content[m] = {o}
    BY <1>0, <1>2, Handles
  <1> QED BY <1>1, <1>2, <1>3, <1>4, <1>5, <1>6, <1>8, <1>9, <1>10, <1>11, <1>12
       DEF Dying

\* Types and counts where only the colours and the buffer change.
LEMMA SameTypes ==
  ASSUME Types, UNCHANGED <<type, content, ext>>, rc' \in [Node -> Int]
  PROVE  Types' /\ Alive' = Alive
  BY DEF Types, Alive

\* The last handle: the object goes with it.
LEMMA LastHandleStep ==
  ASSUME Working, Top.op = "dtor", NEW z, z = Top.z, rc[z] = 1, type[z] = "object",
         NEW o, o = Holder(z), rc[o] = 1, Unbuffer({z, o}), UNCHANGED <<type, content, rc>>,
         stack' = Goto(Call("properties", z, o, content[o], {}))
  PROVE  GcInv'
  <1>0. Base /\ Exact /\ Phase /\ stack # <<>> BY DEF Working, GcInv
  <1>1. LastRef(z) BY LastRefIs
  <1>2. z \in Zval /\ z \in Node /\ z \in Alive \ Dying /\ ext[z] = 0 BY <1>1 DEF LastRef
  <1>3. /\ o \in Obj /\ o \in Node /\ o \notin Zval /\ content[z] = {o} /\ z # o
        /\ type[o] = "store" /\ o \in Alive \ Dying /\ content[o] \subseteq Zval
        /\ content[o] \subseteq Alive \ Dying /\ content[o] \subseteq RefOK
        /\ z \in Preds(o) /\ rc[o] = Cardinality(Preds(o)) /\ Weight(stack, o) = 0
        /\ o \notin Doomed /\ z \notin content[o]
        /\ \A m \in Node : o \in content[m] => m \in Zval /\ type[m] = "object"
                                                /\ content[m] = {o}
    BY <1>1, LastHandle
  <1>4. Types /\ RootTypes /\ content[o] \subseteq Node /\ UNCHANGED ext
    BY <1>0, <1>3 DEF Base, Types, Working
  <1>5. PICK d : d = Call("properties", z, o, content[o], {}) OBVIOUS
  <1>6. /\ d \in Frame /\ d.op = "properties" /\ d.z = z /\ d.n = o /\ d.rest = content[o]
        /\ d.list = {}
    BY <1>2, <1>3, <1>4, <1>5 DEF Call, Frame, Op
  <1>7. stack' = <<d>> \o Return BY <1>5 DEF Goto
  <1>8. z # None BY <1>2, GcAssumption
  <1>9. Own(d) = {z, o} /\ Moves(d) = {o} /\ Drops(d) = {} /\ Lists(d) = {}
        /\ Gathers(d) = {} /\ Refs(d) = content[o] /\ Keeps(d) = {z}
    BY <1>2, <1>3, <1>6, <1>8 DEF Own, Moves, Drops, Lists, Gathers, Refs, Keeps
  <1>10. Preds(o) = {z}
    <2>1. IsFiniteSet(Preds(o)) /\ Cardinality(Preds(o)) = 1 BY <1>3, PredsCount
    <2>2. Cardinality(Preds(o) \ {z}) = 0 /\ IsFiniteSet(Preds(o) \ {z})
      BY <1>3, <2>1, CountRemove, FS_RemoveElement
    <2>3. Preds(o) \ {z} = {} BY <2>2, FS_EmptySet
    <2> QED BY <1>3, <2>3
  <1>11. /\ Gathered = {} /\ Trial = {} /\ Spent \subseteq Owned
         /\ Stale \subseteq Owned \cap Zval /\ Moved \subseteq Owned \cap Obj
         /\ Spent = Moved \cup {y \in Stale : type[y] = "object"} /\ Quiet
    BY <1>0, QuietFacts DEF Collects
  <1>12. ASSUME NEW m \in Node, o \in content[m] PROVE m \in Stale \cup {z, o}
    <2>1. m \in Zval /\ m \notin Obj BY <1>3, <1>12, GcAssumption
    <2> QED BY <1>10, <1>11, <1>12, <2>1 DEF Preds
  <1>13. \A e \in SetOf(Return) : Own(d) \cap (Own(e) \cup Refs(e)) = {}
    <2>1. ASSUME NEW e \in SetOf(Return) PROVE o \notin Own(e) /\ o \notin Refs(e)
      <3>1. e \in Calls BY <1>0, TopFrame
      <3>2. Own(e) \subseteq Owned BY <3>1, PartsOf DEF Owned
      <3>3. W(e, o) <= Weight(stack, o)
        BY <1>0, <3>1, CallsSet, WeightBounds DEF Base, StackInv
      <3> QED BY <1>3, <3>2, <3>3 DEF W, Dying
    <2> QED BY <1>1, <1>9, <2>1 DEF LastRef
  <1>14. /\ Pushed(stack', d, Return) /\ PairsOf(stack') /\ Ordered(stack', Doomed, content')
         /\ (\A e \in SetOf(stack') : e.op \in Lower) /\ stack' \in Seq(Frame)
    <2>1. d.op \in Lower /\ d.op \notin {"collected", "destroy"} BY <1>6 DEF Lower
    <2>2. PICK ct : ct = content' OBVIOUS
    <2>3. \A e \in SetOf(Return), x \in Doomed :
             Dooms(e, x, content) => Dooms(e, x, ct)
      BY <2>2
    <2>4. LastRef(Top.z) BY <1>1
    <2> QED BY <1>6, <1>7, <1>13, <2>1, <2>2, <2>3, <2>4, DtorStack
  <1>15. StackInv'
    <2>1. Shape(stack') BY <1>6, <1>14 DEF Shape, Pushed
    <2> QED BY <1>14, <2>1 DEF StackInv
  <1>16. Calls' = {d} \cup SetOf(Return) BY <1>14, CallsSet DEF Pushed
  <1>17. /\ Owned' = Owned \cup {z, o} /\ Moved' = Moved \cup {o} /\ Stale' = Stale
         /\ InLists' = InLists /\ Gathered' = {}
    <2>1. /\ Owned = Own(Top) \cup OwnedBy(SetOf(Return))
          /\ Moved = Moves(Top) \cup MovedBy(SetOf(Return))
          /\ Stale = Drops(Top) \cup StaleBy(SetOf(Return))
          /\ InLists = Lists(Top) \cup ListedBy(SetOf(Return))
      BY <1>0, SplitSets DEF Base
    <2>2. Bare(Top) BY DEF Bare, Own, Moves, Drops, Lists
    <2>3. GatheredBy(SetOf(Return)) = {} BY <1>0, Waiting DEF Base
    <2> QED BY <1>9, <1>14, <2>1, <2>2, <2>3, CallsSet
         DEF Bare, Owned, Moved, Stale, InLists, Gathered, Pushed
  <1>18. Doomed' = Doomed
    <2>1. z \notin Obj BY <1>2, GcAssumption
    <2> QED BY <1>3, <1>17, <2>1 DEF Doomed
  <1>19. PICK U : U = {z, o} OBVIOUS
  <1>20. Takes(z, U)
    BY <1>2, <1>3, <1>17, <1>18, <1>19 DEF Takes
  <1>21. Dying' = Dying \cup U /\ RefOK' = RefOK \ {z} /\ Alive' = Alive
    BY <1>1, <1>20, TakesSets
  <1>22. FrameOK(d)'
    <2>1. d.rest \subseteq RefOK' BY <1>3, <1>6, <1>21
    <2> QED BY <1>3, <1>6, <2>1 DEF FrameOK
  <1>23. RootTypes' /\ Quiet'
    <2>1. U \in SUBSET Node /\ Unbuffer(U) BY <1>2, <1>3, <1>19
    <2>2. Dying' \subseteq Dying \cup U BY <1>21
    <2> QED BY <1>4, <1>11, <2>1, <2>2, UnbufferedQuiet
  <1>24. Base'
    <2>1. \A m \in Node, k \in U \ {z} : k \in content[m] => m \in Stale \cup U
      BY <1>12, <1>19
    <2>2. PICK F : F = {d} OBVIOUS
    <2>3. (\A c \in F : FrameOK(c)') /\ Calls' = F \cup SetOf(Return)
      BY <1>16, <1>22, <2>2
    <2>4. Types' BY <1>4, SameTypes DEF Types
    <2>5. Ordered(stack', Doomed, content') BY <1>14
    <2> QED BY <1>1, <1>15, <1>20, <1>23, <2>1, <2>3, <2>4, <2>5, TakesBase
  <1>25. Spent' = Spent \cup {o} /\ o \notin Spent /\ Trial' = {}
    BY <1>3, <1>11, <1>17, <1>23 DEF Spent, Quiet, Dying
  <1>26. ASSUME NEW m \in Alive
         PROVE  rc'[m] = Ext(m)' + Cardinality(Preds(m)') + Weight(stack', m)
    <2>1. rc[m] = Ext(m) + Cardinality(Preds(m)) + Weight(stack, m) /\ m \in Node
      BY <1>0 DEF Exact, Alive
    <2>2. /\ Ext(m)' = Ext(m) /\ rc[m] \in Int /\ Ext(m) \in Nat
          /\ Cardinality(Preds(m)) \in Nat /\ Weight(stack, m) \in Nat
      BY <1>0, <2>1, Numbers DEF Ext, Working
    <2>3. Weight(stack', m) = (IF m \in content[o] THEN 1 ELSE 0)
                              + (IF m = z THEN 1 ELSE 0) + Weight(Return, m)
      BY <1>9, <1>14 DEF Pushed, W
    <2>4. Weight(stack, m) = (IF m = z THEN 1 ELSE 0) + Weight(Return, m)
          /\ Weight(Return, m) \in Nat
      BY <1>1, DtorWeight
    <2>5. Preds(m)' = Preds(m) \ {o}
      <3>1. ASSUME NEW k \in Node PROVE k \in Preds(m)' <=> k \in Preds(m) \ {o}
        BY <1>11, <1>25 DEF Preds
      <3> QED BY <3>1 DEF Preds
    <2>6. CASE m \in content[o]
      <3>1. o \in Preds(m) BY <1>3, <1>11, <1>25, <2>6 DEF Preds
      <3>2. Cardinality(Preds(m)') = Cardinality(Preds(m)) - 1 BY <2>5, <3>1, PredsLess
      <3> QED BY <2>1, <2>2, <2>3, <2>4, <2>6, <3>2
    <2>7. CASE m \notin content[o]
      <3>1. o \notin Preds(m) BY <2>7 DEF Preds
      <3>2. Preds(m)' = Preds(m) BY <2>5, <3>1
      <3> QED BY <2>1, <2>2, <2>3, <2>4, <2>7, <3>2
    <2> QED BY <2>6, <2>7
  <1>27. Exact' BY <1>21, <1>26 DEF Exact
  <1>28. Phase'
    <2>1. Top'.op = "properties" BY <1>6, <1>14 DEF Pushed, Top
    <2> QED BY <1>23, <2>1, PhaseQuietNext DEF Collects
  <1> QED BY <1>24, <1>27, <1>28 DEF GcInv
-----------------------------------------------------------------------------
\* Another handle is left: the object becomes a possible root.
LEMMA OtherHandleStep ==
  ASSUME Working, Top.op = "dtor", NEW z, z = Top.z, rc[z] = 1, type[z] = "object",
         NEW o, o = Holder(z), rc[o] # 1, Unbuffer({z}), UNCHANGED <<type, content>>,
         rc' = [rc EXCEPT ![o] = @ - 1, ![z] = 0],
         stack' = <<Call("root", z, o, {}, {})>> \o Goto(Call("efree", z, z, {}, {}))
  PROVE  GcInv'
  <1>0. Base /\ Exact /\ Phase /\ stack # <<>> BY DEF Working, GcInv
  <1>1. LastRef(z) BY LastRefIs
  <1>2. z \in Zval /\ z \in Node /\ z \in Alive \ Dying /\ ext[z] = 0 BY <1>1 DEF LastRef
  <1>3. /\ o \in Obj /\ o \in Node /\ o \notin Zval /\ content[z] = {o} /\ z # o
        /\ o \in Alive \ Dying
        /\ z \in Preds(o) /\ rc[o] = Cardinality(Preds(o)) /\ o \notin Doomed
        /\ \A m \in Node : o \in content[m] => m \in Zval /\ type[m] = "object"
                                                /\ content[m] = {o}
    BY <1>1, LastHandle
  <1>4. Types /\ RootTypes /\ UNCHANGED ext /\ rc \in [Node -> Int]
    BY <1>0 DEF Base, Types, Working
  <1>5. PICK b : b = Call("efree", z, z, {}, {}) OBVIOUS
  <1>6. b \in Frame /\ b.op = "efree" /\ b.z = z
    BY <1>2, <1>5 DEF Call, Frame, Op
  <1>7. PICK a : a = Call("root", z, o, {}, {}) OBVIOUS
  <1>8. a \in Frame /\ a.op = "root" /\ a.z = z /\ a.n = o
    BY <1>2, <1>3, <1>7 DEF Call, Frame, Op
  <1>9. Own(b) = {z} /\ Moves(b) = {} /\ Drops(b) = {z} /\ Lists(b) = {}
        /\ Gathers(b) = {} /\ Refs(b) = {} /\ Keeps(b) = {}
    BY <1>2, <1>6 DEF Own, Moves, Drops, Lists, Gathers, Refs, Keeps
  <1>10. Own(a) = {} /\ Moves(a) = {} /\ Drops(a) = {} /\ Lists(a) = {}
         /\ Gathers(a) = {} /\ Refs(a) = {} /\ Keeps(a) = {}
    BY <1>8 DEF Own, Moves, Drops, Lists, Gathers, Refs, Keeps
  <1>11. /\ Gathered = {} /\ Trial = {} /\ Spent \subseteq Owned
         /\ Stale \subseteq Owned \cap Zval /\ Moved \subseteq Owned \cap Obj
         /\ Spent = Moved \cup {y \in Stale : type[y] = "object"} /\ Quiet
    BY <1>0, QuietFacts DEF Collects
  <1>12. PICK t : t = <<b>> \o Return OBVIOUS
  <1>13. stack' = <<a>> \o t BY <1>5, <1>7, <1>12 DEF Goto
  <1>14. /\ Pushed(t, b, Return) /\ PairsOf(t) /\ Ordered(t, Doomed, content)
         /\ (\A e \in SetOf(t) : e.op \in Lower) /\ t \in Seq(Frame)
    <2>1. b.op \in Lower /\ b.op \notin {"collected", "destroy"} BY <1>6 DEF Lower
    <2>2. PICK ct : ct = content OBVIOUS
    <2>3. \A e \in SetOf(Return), x \in Doomed :
             Dooms(e, x, content) => Dooms(e, x, ct)
      BY <2>2
    <2>4. LastRef(Top.z) BY <1>1
    <2>5. \A e \in SetOf(Return) : Own(b) \cap (Own(e) \cup Refs(e)) = {}
      BY <1>1, <1>9 DEF LastRef
    <2> QED BY <1>6, <1>12, <2>1, <2>2, <2>3, <2>4, <2>5, DtorStack
  <1>15. Pushed(stack', a, t) BY <1>8, <1>13, <1>14, PushIs
  <1>16. StackInv'
    <2>1. Shape(stack') BY <1>8, <1>14, <1>15 DEF Shape, Pushed
    <2>2. PairsOf(stack') BY <1>8, <1>10, <1>14, <1>15 DEF Pushed, PairOK
    <2> QED BY <1>15, <2>1, <2>2 DEF StackInv, Pushed
  <1>17. Calls' = {a, b} \cup SetOf(Return) BY <1>14, <1>15, CallsSet DEF Pushed
  <1>18. /\ Owned' = Owned \cup {z} /\ Moved' = Moved /\ Stale' = Stale \cup {z}
         /\ InLists' = InLists /\ Gathered' = {}
    <2>1. /\ Owned = Own(Top) \cup OwnedBy(SetOf(Return))
          /\ Moved = Moves(Top) \cup MovedBy(SetOf(Return))
          /\ Stale = Drops(Top) \cup StaleBy(SetOf(Return))
          /\ InLists = Lists(Top) \cup ListedBy(SetOf(Return))
      BY <1>0, SplitSets DEF Base
    <2>2. Bare(Top) BY DEF Bare, Own, Moves, Drops, Lists
    <2>3. GatheredBy(SetOf(Return)) = {} BY <1>0, Waiting DEF Base
    <2> QED BY <1>9, <1>10, <1>14, <1>15, <2>1, <2>2, <2>3, CallsSet
         DEF Bare, Owned, Moved, Stale, InLists, Gathered, Pushed
  <1>19. PICK k \in Node : o \in content[k] /\ k # z /\ k \notin Stale
    <2>1. Cardinality(Preds(o)) # 1 /\ Preds(o) \subseteq Node BY <1>3 DEF Preds
    <2>2. Preds(o) # {z} BY <2>1, FS_Singleton
    <2>3. PICK k \in Preds(o) : k # z BY <1>3, <2>2
    <2>4. k \in Node /\ o \in content[k] /\ k \notin Spent BY <2>3 DEF Preds
    <2> QED BY <1>3, <1>11, <2>3, <2>4
  <1>20. Doomed' = Doomed
    <2>1. z \notin Obj BY <1>2, GcAssumption
    <2>2. ASSUME NEW x \in Obj PROVE x \in Doomed' <=> x \in Doomed
      <3>1. CASE x = o
        <4>1. k \notin Stale' BY <1>18, <1>19
        <4> QED BY <1>3, <1>19, <3>1, <4>1 DEF Doomed
      <3>2. CASE x # o
        <4>1. x \notin content[z] BY <1>3, <3>2
        <4>2. x # z BY <2>1
        <4> QED BY <1>18, <4>1, <4>2 DEF Doomed
      <3> QED BY <3>1, <3>2
    <2> QED BY <2>2 DEF Doomed
  <1>21. PICK U : U = {z} OBVIOUS
  <1>22. Takes(z, U)
    BY <1>2, <1>18, <1>20, <1>21 DEF Takes
  <1>23. Dying' = Dying \cup U /\ RefOK' = RefOK \ {z} /\ Alive' = Alive
    BY <1>1, <1>22, TakesSets
  <1>24. FrameOK(a)' /\ FrameOK(b)'
    <2>1. o \in Obj \cap Alive' /\ o \notin Dying' BY <1>3, <1>21, <1>23
    <2> QED BY <1>2, <1>6, <1>8, <2>1 DEF FrameOK
  <1>25. RootTypes' /\ Quiet'
    <2>1. U \in SUBSET Node /\ Unbuffer(U) BY <1>2, <1>21
    <2>2. Dying' \subseteq Dying \cup U BY <1>23
    <2> QED BY <1>4, <1>11, <2>1, <2>2, UnbufferedQuiet
  <1>26. \A m \in Node : rc'[m] = IF m = z THEN 0 ELSE IF m = o THEN rc[m] - 1 ELSE rc[m]
    BY <1>2, <1>3, <1>4
  <1>27. rc' \in [Node -> Int]
    <2>1. rc' = [[rc EXCEPT ![o] = @ - 1] EXCEPT ![z] = 0] OBVIOUS
    <2>2. PICK q : q = [rc EXCEPT ![o] = @ - 1] OBVIOUS
    <2>3. rc[o] - 1 \in Int BY <1>3, <1>4
    <2>4. q \in [Node -> Int] BY <1>4, <2>2, <2>3
    <2>5. [q EXCEPT ![z] = 0] \in [Node -> Int] BY <1>2, <2>4
    <2>6. rc' = [q EXCEPT ![z] = 0] BY ONLY <2>1, <2>2
    <2> QED BY ONLY <2>5, <2>6
  <1>28. Base'
    <2>1. \A m \in Node, y \in U \ {z} : y \in content[m] => m \in Stale \cup U BY <1>21
    <2>2. PICK F : F = {a, b} OBVIOUS
    <2>3. (\A c \in F : FrameOK(c)') /\ Calls' = F \cup SetOf(Return)
      BY <1>17, <1>24, <2>2
    <2>4. Types' BY <1>4, <1>27, SameTypes
    <2>5. Ordered(stack', Doomed, content')
      <3>1. Ordered(<<a>> \o t, Doomed, content) BY <1>8, <1>14, OrderedPush
      <3> QED BY <1>13, <3>1
    <2> QED BY <1>1, <1>16, <1>22, <1>25, <2>1, <2>3, <2>4, <2>5, TakesBase
  <1>29. Spent' = Spent \cup {z} /\ z \notin Spent /\ Trial' = {}
    BY <1>2, <1>11, <1>18, <1>25 DEF Spent, Quiet, Dying
  <1>30. ASSUME NEW m \in Alive
         PROVE  rc'[m] = Ext(m)' + Cardinality(Preds(m)') + Weight(stack', m)
    <2>1. rc[m] = Ext(m) + Cardinality(Preds(m)) + Weight(stack, m) /\ m \in Node
      BY <1>0 DEF Exact, Alive
    <2>2. /\ Ext(m)' = Ext(m) /\ rc[m] \in Int /\ Ext(m) \in Nat
          /\ Cardinality(Preds(m)) \in Nat /\ Weight(stack, m) \in Nat
      BY <1>0, <1>4, <2>1, Numbers DEF Ext
    <2>3. Weight(stack', m) = Weight(Return, m)
      <3>1. W(a, m) = 0 /\ W(b, m) = 0 BY <1>9, <1>10 DEF W
      <3>2. Weight(stack', m) = W(a, m) + Weight(t, m) BY <1>15 DEF Pushed
      <3>3. Weight(t, m) = W(b, m) + Weight(Return, m) /\ Weight(Return, m) \in Nat
        BY <1>14 DEF Pushed
      <3> QED BY <3>1, <3>2, <3>3
    <2>4. Weight(stack, m) = (IF m = z THEN 1 ELSE 0) + Weight(Return, m)
          /\ Weight(Return, m) \in Nat
      BY <1>1, DtorWeight
    <2>5. Preds(m)' = Preds(m) \ {z}
      <3>1. ASSUME NEW x \in Node PROVE x \in Preds(m)' <=> x \in Preds(m) \ {z}
        BY <1>11, <1>29 DEF Preds
      <3> QED BY <3>1 DEF Preds
    <2>6. CASE m = z
      <3>1. Preds(m) = {} /\ Weight(Return, m) = 0 BY <1>1, <2>6 DEF LastRef
      <3>2. Cardinality(Preds(m)') = 0 BY <2>5, <3>1, FS_EmptySet
      <3>3. Ext(m) = 0 BY <1>2, <2>6 DEF Ext
      <3>4. rc'[m] = 0 BY <1>26, <2>1, <2>6
      <3> QED BY <2>2, <2>3, <3>1, <3>2, <3>3, <3>4
    <2>7. CASE m = o
      <3>1. Cardinality(Preds(m)') = Cardinality(Preds(m)) - 1
        BY <1>3, <2>5, <2>7, PredsLess
      <3>2. rc'[m] = rc[m] - 1 BY <1>3, <1>26, <2>1, <2>7
      <3> QED BY <1>3, <2>1, <2>2, <2>3, <2>4, <2>7, <3>1, <3>2
    <2>8. CASE m # z /\ m # o
      <3>1. z \notin Preds(m) BY <1>3, <2>8 DEF Preds
      <3>2. Preds(m)' = Preds(m) BY <2>5, <3>1
      <3>3. rc'[m] = rc[m] BY <1>26, <2>1, <2>8
      <3> QED BY <2>1, <2>2, <2>3, <2>4, <2>8, <3>2, <3>3
    <2> QED BY <2>6, <2>7, <2>8
  <1>31. Exact' BY <1>23, <1>30 DEF Exact
  <1>32. Phase'
    <2>1. Top'.op = "root" BY <1>8, <1>15 DEF Pushed, Top
    <2> QED BY <1>25, <2>1, PhaseQuietNext DEF Collects
  <1> QED BY <1>28, <1>31, <1>32 DEF GcInv

\* zval_ptr_dtor, whatever it finds.
LEMMA DtorStep ==
  ASSUME Working, zval_ptr_dtor
  PROVE  GcInv'
  <1>1. Top.op = "dtor" BY DEF zval_ptr_dtor
  <1>2. CASE DtorShared(Top.z) BY <1>1, <1>2, SharedStep
  <1>3. CASE DtorArray(Top.z) BY <1>1, <1>3, ArrayStep
  <1>4. CASE DtorHandle(Top.z)
    <2>1. PICK z : z = Top.z OBVIOUS
    <2>2. PICK o : o = Holder(z) OBVIOUS
    <2>3. rc[z] = 1 /\ type[z] = "object" /\ UNCHANGED <<type, content>>
      BY <1>4, <2>1 DEF DtorHandle
    <2>4. LastRef(z) BY <1>1, <2>1, <2>3, LastRefIs
    <2>5. type[o] = "store" BY <1>1, <2>2, <2>3, <2>4, LastHandle
    <2>6. \/ /\ rc[o] = 1 /\ Unbuffer({z, o}) /\ UNCHANGED rc
             /\ stack' = Goto(Call("properties", z, o, content[o], {}))
          \/ /\ rc[o] # 1 /\ Unbuffer({z}) /\ rc' = [rc EXCEPT ![o] = @ - 1, ![z] = 0]
             /\ stack' = <<Call("root", z, o, {}, {})>> \o Goto(Call("efree", z, z, {}, {}))
      BY <1>4, <2>1, <2>2, <2>5 DEF DtorHandle
    <2>7. CASE /\ rc[o] = 1 /\ Unbuffer({z, o}) /\ UNCHANGED rc
               /\ stack' = Goto(Call("properties", z, o, content[o], {}))
      BY <1>1, <2>1, <2>2, <2>3, <2>7, LastHandleStep
    <2>8. CASE /\ rc[o] # 1 /\ Unbuffer({z}) /\ rc' = [rc EXCEPT ![o] = @ - 1, ![z] = 0]
               /\ stack' = <<Call("root", z, o, {}, {})>> \o Goto(Call("efree", z, z, {}, {}))
      BY <1>1, <2>1, <2>2, <2>3, <2>8, OtherHandleStep
    <2> QED BY <2>6, <2>7, <2>8
  <1> QED BY <1>2, <1>3, <1>4 DEF zval_ptr_dtor
-----------------------------------------------------------------------------
\* A call is done with all that it owns, U, and frees it.
Frees(U) ==
    /\ U = Own(Top) /\ Top.op \in {"elements", "properties", "efree", "destroy"}
    /\ Top.op # "efree" => Top.rest = {}
    /\ \A m \in Node : type'[m] = IF m \in U THEN "free" ELSE type[m]
    /\ \A m \in Node : content'[m] = IF m \in U THEN {} ELSE content[m]
    /\ stack' = Return

\* What is freed is its owner's alone, and what it still contains is not counted.
LEMMA FreesOwn ==
  ASSUME Working, NEW U, Frees(U)
  PROVE  /\ U \subseteq Owned /\ U \subseteq Node /\ U \cap OwnedBy(SetOf(Return)) = {}
         /\ Drops(Top) \subseteq U /\ Moves(Top) \subseteq U /\ Lists(Top) \subseteq U
         /\ \A m \in Node \ U : W(Top, m) = 0
         /\ \A k \in U, m \in Node \ U :
               m \in content[k] => k \in Spent /\ (m \in Obj => k \in Stale)
         /\ \A o : ~Dooms(Top, o, content)
         /\ Top.op \notin Collects
  <1>0. Base /\ Exact /\ Phase /\ stack # <<>> /\ Types BY DEF Working, GcInv, Base
  <1>1. Top \in Frame /\ FrameOK(Top) BY <1>0, TopFrame
  <1>2. U = Own(Top) /\ Top.op \in {"elements", "properties", "efree", "destroy"}
    BY DEF Frees
  <1>3. /\ Owned = Own(Top) \cup OwnedBy(SetOf(Return))
        /\ Own(Top) \cap OwnedBy(SetOf(Return)) = {}
    BY <1>0, SplitSets DEF Base
  <1>4. /\ Own(Top) \subseteq Node /\ Moves(Top) \subseteq Own(Top) \cap Obj
        /\ Drops(Top) \subseteq Own(Top) \cap Zval /\ Lists(Top) \subseteq Drops(Top)
    BY <1>1, Owns
  <1>5. Top \in Calls BY <1>0, TopFrame
  <1>6. Drops(Top) \subseteq Stale /\ Moves(Top) \subseteq Moved
    BY <1>5, PartsOf DEF Stale, Moved
  <1>7. ASSUME NEW m \in Node \ U PROVE W(Top, m) = 0
    <2>1. Refs(Top) = {} BY <1>2 DEF Refs, Frees
    <2>2. Keeps(Top) \subseteq Own(Top) \cup {None}
      BY <1>1, <1>2 DEF Keeps, Own, Frame, FrameOK, Node
    <2>3. m # None BY GcAssumption DEF Node
    <2> QED BY <1>2, <1>7, <2>1, <2>2, <2>3 DEF W
  <1>8. ASSUME NEW k \in U, NEW m \in Node \ U, m \in content[k]
        PROVE  k \in Spent /\ (m \in Obj => k \in Stale)
    <2>0. k \in Node BY <1>2, <1>4
    <2>1. CASE Top.op = "elements"
      <3>1. k = Top.z /\ k \in Zval /\ k # None BY <1>2, <2>1, GcAssumption DEF Own
      <3>2. type[k] = "null" BY <1>1, <2>1, <3>1 DEF FrameOK
      <3> QED BY <1>0, <1>8, <2>0, <3>2 DEF Types
    <2>2. CASE Top.op = "properties"
      <3>1. k = Top.z \/ k = Top.n BY <1>2, <2>2 DEF Own
      <3>2. k # None BY <2>0, GcAssumption DEF Node
      <3>3. Top.n \in Obj /\ Top.n \in U /\ type[Top.n] = "store"
        BY <1>1, <1>2, <2>2 DEF FrameOK, Own, Node
      <3>4. k # Top.z BY <1>1, <1>8, <2>2, <3>2, <3>3 DEF FrameOK
      <3>5. k = Top.n /\ content[k] \subseteq Zval BY <1>0, <2>0, <3>1, <3>3, <3>4 DEF Types
      <3>6. k \in Moved BY <1>6, <2>2, <3>5 DEF Moves
      <3> QED BY <1>8, <3>5, <3>6, GcAssumption DEF Spent
    <2>3. CASE Top.op = "efree"
      <3>1. k = Top.z /\ type[k] = "object" /\ k \in Zval BY <1>1, <1>2, <2>3 DEF Own, FrameOK
      <3>2. k \in Stale BY <1>6, <2>3, <3>1 DEF Drops
      <3> QED BY <3>1, <3>2 DEF Spent
    <2>4. CASE Top.op = "destroy"
      <3>1. k \in Top.list /\ Top.rest = {} BY <1>2, <2>4 DEF Own, Frees
      <3>2. k \in Zval /\ k \in Alive /\ type[k] # "array" BY <1>1, <2>4, <3>1 DEF FrameOK
      <3>3. k \in Stale BY <1>6, <2>4, <3>1 DEF Drops, Lists
      <3>4. type[k] = "object"
        BY <1>0, <1>8, <2>0, <3>2 DEF Types, Type, Alive
      <3> QED BY <3>3, <3>4 DEF Spent
    <2> QED BY <1>2, <2>1, <2>2, <2>3, <2>4
  <1>9. \A o : ~Dooms(Top, o, content) BY DEF Dooms, Frees
  <1>10. Top.op \notin Collects BY <1>2 DEF Collects
  <1> QED BY <1>2, <1>3, <1>4, <1>7, <1>8, <1>9, <1>10

\* What is left when the owner of U frees it.
LEMMA FreesSets ==
  ASSUME Working, NEW U, Frees(U)
  PROVE  /\ Calls' = SetOf(Return) /\ Owned' = Owned \ U /\ Gathered' = {}
         /\ (\A m : m \notin U => (m \in Moved' <=> m \in Moved)
                                  /\ (m \in Stale' <=> m \in Stale)
                                  /\ (m \in InLists' <=> m \in InLists))
         /\ InLists' = ListedBy(SetOf(Return))
         /\ Doomed' = Doomed /\ Dying' = Dying \ U /\ Doomed \cap U = {}
         /\ RefOK' = RefOK \ U /\ Alive' = Alive \ U
  <1>0. Base /\ stack # <<>> /\ Types BY DEF Working, GcInv, Base
  <1>1. /\ U = Own(Top) /\ U \subseteq Owned /\ U \subseteq Node
        /\ U \cap OwnedBy(SetOf(Return)) = {}
        /\ Drops(Top) \subseteq U /\ Moves(Top) \subseteq U /\ Lists(Top) \subseteq U
        /\ \A k \in U, m \in Node \ U : m \in content[k] => (m \in Obj => k \in Stale)
    BY FreesOwn DEF Frees
  <1>2. /\ Owned = Own(Top) \cup OwnedBy(SetOf(Return))
        /\ Moved = Moves(Top) \cup MovedBy(SetOf(Return))
        /\ Stale = Drops(Top) \cup StaleBy(SetOf(Return))
        /\ InLists = Lists(Top) \cup ListedBy(SetOf(Return))
    BY <1>0, SplitSets DEF Base
  <1>3. Calls' = SetOf(Return) BY CallsSet DEF Frees
  <1>4. /\ Owned' = OwnedBy(SetOf(Return)) /\ Moved' = MovedBy(SetOf(Return))
        /\ Stale' = StaleBy(SetOf(Return)) /\ InLists' = ListedBy(SetOf(Return))
    BY <1>3 DEF Owned, Moved, Stale, InLists
  <1>5. Gathered' = {} BY <1>0, <1>3, Waiting DEF Base, Gathered
  <1>6. Owned' = Owned \ U BY <1>1, <1>2, <1>4
  <1>7. \A m : m \notin U => (m \in Moved' <=> m \in Moved)
                             /\ (m \in Stale' <=> m \in Stale)
                             /\ (m \in InLists' <=> m \in InLists)
    BY <1>1, <1>2, <1>4
  <1>8. /\ \A m \in Node : type'[m] = IF m \in U THEN "free" ELSE type[m]
        /\ \A m \in Node : content'[m] = IF m \in U THEN {} ELSE content[m]
    BY DEF Frees
  <1>9. ASSUME NEW o \in Obj PROVE o \in Doomed' <=> o \in Doomed
    <2>0. o \in Node BY DEF Node
    <2>1. CASE o \in U BY <1>1, <1>8, <2>0, <2>1 DEF Doomed
    <2>2. CASE o \notin U
      <3>1. type'[o] = type[o] /\ (o \in Owned' <=> o \in Owned) BY <1>6, <1>8, <2>0, <2>2
      <3>2. ASSUME NEW m \in Node
            PROVE  (o \in content'[m] => m \in Stale') <=> (o \in content[m] => m \in Stale)
        <4>1. CASE m \in U BY <1>1, <1>8, <2>0, <2>2, <4>1
        <4>2. CASE m \notin U BY <1>7, <1>8, <4>2
        <4> QED BY <4>1, <4>2
      <3> QED BY <3>1, <3>2 DEF Doomed
    <2> QED BY <2>1, <2>2
  <1>10. Doomed' = Doomed BY <1>9 DEF Doomed
  <1>11. Doomed \cap U = {} BY <1>1 DEF Doomed
  <1>12. Dying' = Dying \ U BY <1>6, <1>10, <1>11 DEF Dying
  <1>13. Alive' = Alive \ U BY <1>8 DEF Alive
  <1>14. ASSUME NEW z \in Zval PROVE z \in RefOK' <=> z \in RefOK \ U
    <2>0. z \in Node BY DEF Node
    <2>1. CASE z \in U BY <1>8, <2>0, <2>1 DEF RefOK
    <2>2. CASE z \notin U BY <1>7, <1>8, <1>12, <2>0, <2>2 DEF RefOK
    <2> QED BY <2>1, <2>2
  <1>15. RefOK' = RefOK \ U BY <1>14 DEF RefOK
  <1> QED BY <1>3, <1>4, <1>5, <1>6, <1>7, <1>10, <1>11, <1>12, <1>13, <1>15
-----------------------------------------------------------------------------
\* The calls that wait hold nothing of what is freed.
LEMMA FreesFrames ==
  ASSUME Working, NEW U, Frees(U), NEW d \in SetOf(Return)
  PROVE  /\ FrameOK(d)'
         /\ \A o \in Doomed : Dooms(d, o, content) => Dooms(d, o, content')
  <1>0. Base /\ stack # <<>> BY DEF Working, GcInv
  <1>1. /\ Doomed' = Doomed /\ RefOK' = RefOK \ U /\ Alive' = Alive \ U
        /\ \A m : m \notin U => (m \in Moved' <=> m \in Moved)
    BY FreesSets
  <1>2. d \in Frame /\ FrameOK(d) /\ PairOK(Top, d) BY <1>0, TopFrame
  <1>3. U \cap (Own(d) \cup Refs(d)) = {} BY <1>2 DEF PairOK, Frees
  <1>4. /\ \A m \in Node \ U : type'[m] = type[m] /\ content'[m] = content[m]
        /\ \A m \in U \cap Node : content'[m] = {}
    BY DEF Frees
  <1>5. d.op \in Lower
    <2>1. Top.op # "black" BY DEF Frees
    <2> QED BY <1>0, <2>1, Waiting DEF Base
  <1>6. ASSUME NEW o \in Doomed, Dooms(d, o, content) PROVE Dooms(d, o, content')
    <2>1. PICK y \in d.rest : o \in content[y] BY <1>6 DEF Dooms
    <2>2. d.op = "destroy" /\ y \in d.list /\ y \in Node
      BY <1>2, <1>6, <2>1 DEF Dooms, FrameOK, Frame
    <2>3. y \notin U BY <1>3, <2>2 DEF Own
    <2>4. content'[y] = content[y] BY <1>4, <2>2, <2>3
    <2> QED BY <2>1, <2>2, <2>4 DEF Dooms
  <1>7. CASE d.op = "elements"
    <2>1. d.rest \subseteq RefOK' BY <1>1, <1>2, <1>3, <1>7 DEF FrameOK, Refs
    <2>2. d.z # None => type'[d.z] = "null"
      <3>1. d.z # None => d.z \in Node \ U
        BY <1>2, <1>3, <1>7 DEF Own, Frame, Node
      <3> QED BY <1>2, <1>4, <1>7, <3>1 DEF FrameOK
    <2> QED BY <1>6, <1>7, <2>1, <2>2 DEF FrameOK
  <1>8. CASE d.op = "properties"
    <2>1. d.rest \subseteq RefOK' BY <1>1, <1>2, <1>3, <1>8 DEF FrameOK, Refs
    <2>2. d.n \in Obj /\ type'[d.n] = "store"
      <3>1. d.n \in Obj /\ d.n \in Node \ U BY <1>2, <1>3, <1>8 DEF FrameOK, Node, Own
      <3> QED BY <1>2, <1>4, <1>8, <3>1 DEF FrameOK
    <2>3. d.z # None => type'[d.z] = "object" /\ content'[d.z] = {d.n}
      <3>1. d.z # None => d.z \in Node \ U
        BY <1>2, <1>3, <1>8 DEF Own, Frame, Node
      <3> QED BY <1>2, <1>4, <1>8, <3>1 DEF FrameOK
    <2> QED BY <1>6, <1>8, <2>1, <2>2, <2>3 DEF FrameOK
  <1>9. CASE d.op = "efree"
    <2>1. d.z \in Node \ U BY <1>2, <1>3, <1>9 DEF Own, FrameOK, Node
    <2> QED BY <1>2, <1>4, <1>6, <1>9, <2>1 DEF FrameOK
  <1>10. CASE d.op = "collected" BY <1>2, <1>6, <1>10 DEF FrameOK
  <1>11. CASE d.op = "destroy"
    <2>1. d.list \cap U = {} /\ d.list \subseteq Node
      BY <1>2, <1>3, <1>11 DEF Own, FrameOK, Node
    <2>2. \A y \in d.list : type'[y] = type[y] /\ content'[y] = content[y]
      BY <1>4, <2>1
    <2>3. ListHeld(d)'
      <3> SUFFICES ASSUME NEW y \in d.list, NEW m \in Node, y \in content'[m]
                   PROVE  \/ m \in d.list \/ m \in Moved'
                          \/ m \in Doomed' /\ Dooms(d, m, content')
        BY DEF ListHeld
      <3>1. m \notin U /\ y \in content[m] BY <1>4
      <3>2. \/ m \in d.list \/ m \in Moved \/ (m \in Doomed /\ Dooms(d, m, content))
        BY <1>2, <1>11, <3>1 DEF FrameOK, ListHeld
      <3> QED BY <1>1, <1>6, <3>1, <3>2
    <2>4. d.rest \subseteq d.list /\ d.list \subseteq Zval \cap Alive'
          /\ \A y \in d.list \ d.rest : type'[y] # "array"
      BY <1>1, <1>2, <1>11, <2>1, <2>2 DEF FrameOK
    <2> QED BY <1>6, <1>11, <2>3, <2>4 DEF FrameOK
  <1> QED BY <1>5, <1>6, <1>7, <1>8, <1>9, <1>10, <1>11 DEF Lower

\* Nothing that lives refers to what is freed.
LEMMA FreesClosed ==
  ASSUME Working, NEW U, Frees(U)
  PROVE  Closed'
  <1>0. Base /\ Closed /\ UNCHANGED ext /\ stack # <<>> BY DEF Working, GcInv, Base
  <1>1. /\ Owned' = Owned \ U /\ InLists' = ListedBy(SetOf(Return))
        /\ (\A m : m \notin U => (m \in InLists' <=> m \in InLists))
        /\ Doomed' = Doomed /\ Dying' = Dying \ U /\ Doomed \cap U = {}
        /\ RefOK' = RefOK \ U /\ Alive' = Alive \ U
    BY FreesSets
  <1>2. U \subseteq Owned /\ U \subseteq Node /\ U \cap OwnedBy(SetOf(Return)) = {}
        /\ U = Own(Top) /\ \A o : ~Dooms(Top, o, content)
    BY FreesOwn DEF Frees
  <1>3. /\ Moved \subseteq Owned \cap Obj /\ Stale \subseteq Owned \cap Zval
        /\ InLists \subseteq Stale
    BY <1>0, SetParts DEF Base, StackInv
  <1>4. /\ \A m \in Node \ U : type'[m] = type[m] /\ content'[m] = content[m]
        /\ \A m \in U : type'[m] = "free" /\ content'[m] = {}
    BY <1>2 DEF Frees
  <1>5. InLists' \cap U = {}
    <2>1. \A d \in SetOf(Return) : Lists(d) \subseteq Own(d) BY DEF Lists, Own
    <2>2. InLists' \subseteq OwnedBy(SetOf(Return)) BY <1>1, <2>1 DEF ListedBy, OwnedBy
    <2> QED BY <1>2, <2>2
  <1>6. ASSUME NEW m \in Node \ Dying', NEW k \in content'[m]
        PROVE  k \in Alive' \ Dying'
    <2>1. m \notin U /\ k \in content[m] BY <1>4, <1>6
    <2>2. k \in Alive \ Dying BY <1>0, <1>1, <1>6, <2>1 DEF Closed
    <2>3. k \notin U BY <1>2, <2>2 DEF Dying
    <2> QED BY <1>1, <2>2, <2>3
  <1>7. ASSUME NEW m \in Doomed' \cup InLists' PROVE content'[m] \cap Zval \subseteq RefOK'
    <2>1. m \in Doomed \cup InLists /\ m \notin U /\ m \in Node
      BY <1>1, <1>3, <1>5, <1>7 DEF Doomed, Node
    <2>2. content'[m] = content[m] BY <1>4, <2>1
    <2>3. ASSUME NEW k \in content[m] \cap Zval PROVE k \notin U
      <3> SUFFICES ASSUME k \in U PROVE FALSE OBVIOUS
      <3>1. k \in RefOK BY <1>0, <2>1, <2>3 DEF Closed
      <3>2. k \in InLists BY <1>2, <3>1 DEF RefOK, Dying
      <3>3. k \in Lists(Top)
        <4>1. InLists = Lists(Top) \cup ListedBy(SetOf(Return)) BY <1>0, SplitSets DEF Base
        <4> QED BY <1>1, <1>5, <3>2, <4>1
      <3>4. Top.op = "destroy" /\ k \in Top.list BY <3>3 DEF Lists
      <3>5. ListHeld(Top) BY <1>0, <3>4, TopFrame DEF FrameOK
      <3>6. m \in Top.list \/ m \in Moved BY <1>2, <2>1, <2>3, <3>4, <3>5 DEF ListHeld
      <3>7. m \notin Top.list BY <1>2, <2>1, <3>4 DEF Own
      <3> QED BY <1>3, <2>1, <3>6, <3>7, GcAssumption DEF Doomed
    <2> QED BY <1>0, <1>1, <2>1, <2>2, <2>3 DEF Closed
  <1>8. ASSUME NEW y \in Zval, type'[y] = "null" PROVE y \in Owned'
    <2>1. y \in Node BY DEF Node
    <2>2. y \notin U /\ type[y] = "null" BY <1>4, <1>8, <2>1
    <2> QED BY <1>0, <1>1, <2>2 DEF Closed
  <1>9. ASSUME NEW y \in Zval, ext'[y] > 0 PROVE y \in Alive' \ Owned'
    <2>1. y \in Alive \ Owned BY <1>0, <1>9 DEF Closed
    <2> QED BY <1>1, <1>2, <2>1
  <1>10. Owned' \subseteq Alive' BY <1>0, <1>1 DEF Closed
  <1> QED BY <1>6, <1>7, <1>8, <1>9, <1>10 DEF Closed

\* A call that frees all it owns, and returns, keeps the invariant.
LEMMA FreeStep ==
  ASSUME Working, NEW ns, Free(ns), ns \cap Node = Own(Top), stack' = Return,
         Top.op \in {"elements", "properties", "efree", "destroy"},
         Top.op # "efree" => Top.rest = {},
         UNCHANGED gcVars, rc' \in [Node -> Int],
         \A m \in Node \ Own(Top) : rc'[m] = rc[m]
  PROVE  GcInv'
  <1>0. Base /\ Exact /\ Phase /\ stack # <<>> /\ Types /\ UNCHANGED ext
    BY DEF Working, GcInv, Base
  <1>1. PICK U : U = Own(Top) OBVIOUS
  <1>2. U \subseteq Node /\ \A m \in Node : m \in ns <=> m \in U BY <1>1
  <1>3. Frees(U) BY <1>1, <1>2 DEF Free, Frees
  <1>4. /\ Calls' = SetOf(Return) /\ Owned' = Owned \ U /\ Gathered' = {}
        /\ (\A m : m \notin U => (m \in Moved' <=> m \in Moved)
                                 /\ (m \in Stale' <=> m \in Stale))
        /\ Doomed' = Doomed /\ Dying' = Dying \ U /\ Alive' = Alive \ U
    BY <1>3, FreesSets
  <1>5. /\ \A m \in Node \ U : W(Top, m) = 0
        /\ \A k \in U, m \in Node \ U : m \in content[k] => k \in Spent
        /\ \A o : ~Dooms(Top, o, content)
        /\ Top.op \notin Collects
    BY <1>3, FreesOwn
  <1>6. \A d \in SetOf(Return) :
          FrameOK(d)' /\ \A o \in Doomed : Dooms(d, o, content) => Dooms(d, o, content')
    BY <1>3, FreesFrames
  <1>7. /\ \A m \in Node \ U : type'[m] = type[m] /\ content'[m] = content[m]
        /\ \A m \in U : type'[m] = "free" /\ content'[m] = {}
    BY <1>2, <1>3 DEF Frees
  <1>8. Closed' BY <1>3, FreesClosed
  <1>9. Types'
    <2>1. type' \in [Node -> Type] /\ content' \in [Node -> SUBSET Node]
          /\ rc' \in [Node -> Int] /\ ext' \in [Zval -> 0 .. MaxRefs]
      BY <1>0 DEF Types, Type, Free
    <2>2. \A y \in Zval : type'[y] # "store" BY <1>0, <1>7 DEF Types, Node
    <2>3. \A o \in Obj : type'[o] \in {"free", "store"} BY <1>0, <1>7 DEF Types, Node
    <2>4. \A m \in Node : type'[m] \in {"free", "null"} => content'[m] = {}
      BY <1>0, <1>7 DEF Types
    <2>5. \A m \in Node : type'[m] \in {"array", "store"} => content'[m] \subseteq Zval
      BY <1>0, <1>7 DEF Types
    <2>6. ASSUME NEW y \in Zval, type'[y] = "object" PROVE \E o \in Obj : content'[y] = {o}
      <3>1. y \in Node \ U BY <1>7, <2>6 DEF Node
      <3>2. type[y] = "object" /\ content'[y] = content[y] BY <1>7, <2>6, <3>1
      <3> QED BY <1>0, <3>2 DEF Types
    <2> QED BY <2>1, <2>2, <2>3, <2>4, <2>5, <2>6 DEF Types
  <1>10. Pushed(stack, Top, Return) BY <1>0, TopFrame
  <1>11. StackInv'
    <2>1. Return \in Seq(Frame) /\ PairsOf(Return) BY <1>0, <1>10 DEF Pushed, Base, StackInv
    <2>2. Shape(Return)
      <3>1. \A d \in SetOf(Return) : d.op \in Lower
        <4>1. Top.op # "black" OBVIOUS
        <4> QED BY <1>0, <4>1, Waiting DEF Base
      <3>2. CASE Return # <<>>
        <4>1. Head(Return) \in Frame /\ Tail(Return) \in Seq(Frame)
              /\ Return = <<Head(Return)>> \o Tail(Return)
          BY <2>1, <3>2, SeqSplit
        <4>2. SetOf(Return) = {Head(Return)} \cup SetOf(Tail(Return)) BY <4>1, PushSet
        <4> QED BY <3>1, <4>2 DEF Shape, Lower
      <3> QED BY <3>2 DEF Shape
    <2> QED BY <2>1, <2>2 DEF StackInv
  <1>12. DoomInv'
    <2>1. \A o \in Doomed : \E c \in Calls' : Dooms(c, o, content')
      <3> SUFFICES ASSUME NEW o \in Doomed PROVE \E c \in Calls' : Dooms(c, o, content')
        OBVIOUS
      <3>1. PICK c \in Calls : Dooms(c, o, content) BY <1>0 DEF Base, DoomInv
      <3>2. c \in SetOf(Return) BY <1>0, <1>5, <3>1, TopFrame
      <3> QED BY <1>4, <1>6, <3>1, <3>2
    <2>2. Ordered(Return, Doomed, content')
      <3>1. Top \in Frame /\ Return \in Seq(Frame) BY <1>10 DEF Pushed
      <3>2. Ordered(<<Top>> \o Return, Doomed, content)
        BY <1>0, <1>10 DEF Base, DoomInv, Pushed
      <3>3. Ordered(Return, Doomed, content) BY <1>5, <3>1, <3>2, OrderedPop
      <3> QED BY <1>6, <3>1, <3>3, OrderedMono
    <2>3. Ordered(stack, Doomed, content)' BY <1>4, <2>2 DEF Ordered, Dooms
    <2>4. \A o \in Doomed' : \E c \in Calls' : Dooms(c, o, content)' BY <1>4, <2>1 DEF Dooms
    <2> QED BY <2>3, <2>4 DEF DoomInv
  <1>13. Quiet /\ RootTypes' /\ Quiet' /\ Phase'
    <2>1. Quiet BY <1>0, <1>5, PhaseQuiet
    <2>2. Quiet' BY <1>4, <2>1, QuietStill
    <2>3. Phase' BY <1>0, <2>2, BackQuiet
    <2> QED BY <1>0, <2>1, <2>2, <2>3, RootTypesStill DEF Base
  <1>14. Base'
    <2>1. Frames' BY <1>4, <1>6 DEF Frames
    <2> QED BY <1>8, <1>9, <1>11, <1>12, <1>13, <2>1 DEF Base, Working
  <1>15. ASSUME NEW m \in Alive'
         PROVE  rc'[m] = Ext(m)' + Cardinality(Preds(m)') + Weight(stack', m)
    <2>1. m \in Alive /\ m \in Node \ U /\ rc'[m] = rc[m] BY <1>1, <1>4 DEF Alive
    <2>2. rc[m] = Ext(m) + Cardinality(Preds(m)) + Weight(stack, m)
      BY <1>0, <2>1 DEF Exact
    <2>3. Ext(m)' = Ext(m) BY <1>0 DEF Ext
    <2>4. Weight(stack, m) = Weight(stack', m)
      <3>1. Weight(stack, m) = W(Top, m) + Weight(Return, m) /\ Weight(Return, m) \in Nat
        BY <1>10 DEF Pushed
      <3>2. W(Top, m) = 0 BY <1>5, <2>1
      <3> QED BY <3>1, <3>2
    <2>5. Trial = {} /\ Trial' = {} /\ Gathered = {}
      BY <1>0, <1>5, <1>13, QuietFacts DEF Quiet
    <2>6. ASSUME NEW k \in Node PROVE k \in Preds(m)' <=> k \in Preds(m)
      <3>1. CASE k \in U BY <1>5, <1>7, <2>1, <3>1 DEF Preds
      <3>2. CASE k \notin U
        <4>1. k \in Spent' <=> k \in Spent BY <1>4, <1>7, <2>5, <3>2 DEF Spent
        <4>2. content'[k] = content[k] BY <1>7, <3>2
        <4> QED BY <2>5, <4>1, <4>2 DEF Preds
      <3> QED BY <3>1, <3>2
    <2>7. Preds(m)' = Preds(m) BY <2>6 DEF Preds
    <2> QED BY <2>1, <2>2, <2>3, <2>4, <2>7
  <1>16. Exact' BY <1>15 DEF Exact
  <1> QED BY <1>13, <1>14, <1>16 DEF GcInv
-----------------------------------------------------------------------------
\* An array is freed after its elements.
LEMMA ElementsDoneStep ==
  ASSUME Working, ElementsDone
  PROVE  GcInv'
  <1>1. Top \in Frame BY TopFrame DEF Working, GcInv
  <1>2. Top.op = "elements" /\ Top.rest = {} /\ Free({Top.z}) /\ stack' = Return
        /\ UNCHANGED rc /\ UNCHANGED gcVars
    BY DEF ElementsDone
  <1>3. {Top.z} \cap Node = Own(Top) BY <1>1, <1>2, GcAssumption DEF Own, Frame, Node
  <1>4. rc' \in [Node -> Int] /\ \A m \in Node \ Own(Top) : rc'[m] = rc[m]
    BY <1>2 DEF Working, GcInv, Base, Types
  <1> QED BY <1>2, <1>3, <1>4, FreeStep

\* An object is freed after its properties.
LEMMA PropertiesDoneStep ==
  ASSUME Working, PropertiesDone
  PROVE  GcInv'
  <1>1. Top \in Frame BY TopFrame DEF Working, GcInv
  <1>2. Top.op = "properties" /\ Top.rest = {} /\ Free({Top.n, Top.z}) /\ stack' = Return
        /\ UNCHANGED gcVars
        /\ rc' = [n \in Node |-> IF n \in {Top.n, Top.z} THEN rc[n] - 1 ELSE rc[n]]
    BY DEF PropertiesDone
  <1>3. {Top.n, Top.z} \cap Node = Own(Top) BY <1>2 DEF Own
  <1>4. rc \in [Node -> Int] BY DEF Working, GcInv, Base, Types
  <1>5. rc' \in [Node -> Int] BY <1>2, <1>4
  <1>6. \A m \in Node \ Own(Top) : rc'[m] = rc[m] BY <1>2, <1>3
  <1> QED BY <1>2, <1>3, <1>5, <1>6, FreeStep

\* A handle is freed.
LEMMA EfreeStep ==
  ASSUME Working, efree
  PROVE  GcInv'
  <1>1. Top \in Frame BY TopFrame DEF Working, GcInv
  <1>2. Top.op = "efree" /\ Free({Top.z}) /\ stack' = Return
        /\ UNCHANGED rc /\ UNCHANGED gcVars
    BY DEF efree
  <1>3. {Top.z} \cap Node = Own(Top) BY <1>1, <1>2, GcAssumption DEF Own, Frame, Node
  <1>4. rc' \in [Node -> Int] /\ \A m \in Node \ Own(Top) : rc'[m] = rc[m]
    BY <1>2 DEF Working, GcInv, Base, Types
  <1> QED BY <1>2, <1>3, <1>4, FreeStep

\* gc_collect_cycles frees what it listed.
LEMMA DestroyDoneStep ==
  ASSUME Working, DestroyDone
  PROVE  GcInv'
  <1>1. FrameOK(Top) BY TopFrame DEF Working, GcInv
  <1>2. Top.op = "destroy" /\ Top.rest = {} /\ Free(Top.list) /\ stack' = Return
        /\ UNCHANGED rc /\ UNCHANGED gcVars
    BY DEF DestroyDone
  <1>3. Top.list \cap Node = Own(Top) BY <1>1, <1>2 DEF Own, FrameOK, Node
  <1>4. rc' \in [Node -> Int] /\ \A m \in Node \ Own(Top) : rc'[m] = rc[m]
    BY <1>2 DEF Working, GcInv, Base, Types
  <1> QED BY <1>2, <1>3, <1>4, FreeStep
-----------------------------------------------------------------------------
\* The collector destroys z of its list: the call d releases what src, the array z
\* or the object of the handle z, contains; d takes V, that object.
Begins(z, V, src, d) ==
    /\ Top.op = "destroy" /\ z \in Zval /\ z \in Top.rest
    /\ \/ type[z] = "array" /\ src = z /\ V = {}
       \/ type[z] = "object" /\ src \in Obj /\ V = {src} /\ src \in Doomed
    /\ V = content[z] \cap Obj
    /\ d \in Frame /\ d.op \in {"elements", "properties"} /\ d.z = None
    /\ d.rest = content[src] /\ (d.op = "properties" => d.n \in V)
    /\ Own(d) = V /\ Moves(d) = V /\ Keeps(d) = V
    /\ \A m \in Node : type'[m] = IF m = z THEN "null" ELSE type[m]
    /\ \A m \in Node : content'[m] = IF m = z THEN {} ELSE content[m]
    /\ stack' = <<d>> \o Goto([Top EXCEPT !.rest = @ \ {z}])

\* What holds of that; c is the collector's call, which goes on after d.
Begun(z, V, src, d, c) ==
    /\ c \in Frame /\ Same(c, Top) /\ c.op = "destroy" /\ c.list = Top.list
    /\ c.rest = Top.rest \ {z} /\ (\A n : W(c, n) = W(Top, n))
    /\ z \in Top.list /\ z \in Alive /\ z \in Owned /\ z \in Stale /\ z \in InLists
    /\ z \in Node /\ z \notin Obj /\ V \subseteq Doomed /\ V \subseteq Obj
    /\ src \in Node /\ d.rest \subseteq RefOK /\ d.rest \subseteq Zval
    /\ Drops(d) = {} /\ Lists(d) = {} /\ Gathers(d) = {} /\ Refs(d) = d.rest
    /\ d.op \in Lower
    /\ \A e \in SetOf(Return) : z \notin Own(e) /\ e.op \in Lower

\* The parts of the two calls.
LEMMA BeginsFacts ==
  ASSUME Working, NEW z, NEW V, NEW src, NEW d, Begins(z, V, src, d),
         NEW c, c = [Top EXCEPT !.rest = @ \ {z}]
  PROVE  Begun(z, V, src, d, c)
  <1>0. Base /\ stack # <<>> /\ Types /\ Closed BY DEF Working, GcInv, Base
  <1>1. Top.op = "destroy" /\ z \in Zval /\ z \in Top.rest BY DEF Begins
  <1>2. /\ c \in Frame /\ Same(c, Top) /\ c.op = "destroy" /\ c.list = Top.list
        /\ c.rest = Top.rest \ {z} /\ \A n : W(c, n) = W(Top, n)
        /\ z \in Top.list /\ z \in Alive /\ z \in Owned /\ z \in Stale /\ z \in InLists
        /\ z \notin OwnedBy(SetOf(Return))
    BY <1>0, <1>1, DestroyTop
  <1>3. z \in Node /\ z \notin Obj BY <1>1, GcAssumption DEF Node
  <1>4. V \subseteq Doomed /\ V \subseteq Obj BY DEF Begins
  <1>5. src \in Node BY <1>3 DEF Begins, Node
  <1>6. d.rest \subseteq Zval /\ d.rest \subseteq RefOK
    <2>1. d.rest = content[src] BY DEF Begins
    <2>2. type[src] \in {"array", "store"} BY DEF Begins, Doomed
    <2>3. content[src] \subseteq Zval BY <1>0, <1>5, <2>2 DEF Types
    <2>4. src \in Doomed \cup InLists BY <1>2 DEF Begins
    <2>5. content[src] \cap Zval \subseteq RefOK BY <1>0, <2>4 DEF Closed
    <2> QED BY <2>1, <2>3, <2>5
  <1>7. d.op \in {"elements", "properties"} BY DEF Begins
  <1>8. Drops(d) = {} /\ Lists(d) = {} /\ Gathers(d) = {} /\ Refs(d) = d.rest /\ d.op \in Lower
    BY <1>7 DEF Drops, Lists, Gathers, Refs, Lower
  <1>9. \A e \in SetOf(Return) : z \notin Own(e) BY <1>2 DEF OwnedBy
  <1>10. \A e \in SetOf(Return) : e.op \in Lower
    <2>1. Top.op # "black" BY <1>1
    <2> QED BY <1>0, <2>1, Waiting DEF Base
  <1> QED BY <1>2, <1>3, <1>4, <1>5, <1>6, <1>8, <1>9, <1>10 DEF Begun

\* The call c is added to what the calls hold.
Heavier(c) == \A m : Weight(stack', m) = W(c, m) + Weight(stack, m)

\* What the calls own, and hold, once destroying the content has begun.
LEMMA BeginsStack ==
  ASSUME Working, NEW z, NEW V, NEW src, NEW d, Begins(z, V, src, d),
         NEW c, c = [Top EXCEPT !.rest = @ \ {z}]
  PROVE  /\ StackInv' /\ Calls' = {d, c} \cup SetOf(Return)
         /\ Owned' = Owned \cup V /\ Moved' = Moved \cup V /\ Stale' = Stale
         /\ InLists' = InLists /\ Gathered' = {} /\ Top' = d /\ stack' # <<>>
         /\ stack' = <<d>> \o (<<c>> \o Return)
         /\ Heavier(d)
  <1>0. Base /\ stack # <<>> BY DEF Working, GcInv
  <1>1. Top \in Frame /\ FrameOK(Top) /\ Return \in Seq(Frame) /\ Pushed(stack, Top, Return)
        /\ \A e \in SetOf(Return) : e \in Frame /\ FrameOK(e) /\ PairOK(Top, e)
    BY <1>0, TopFrame
  <1>2. /\ c \in Frame /\ Same(c, Top) /\ c.op = "destroy" /\ c.list = Top.list
        /\ c.rest = Top.rest \ {z} /\ (\A n : W(c, n) = W(Top, n))
        /\ V \subseteq Doomed /\ V \subseteq Obj
        /\ Drops(d) = {} /\ Lists(d) = {} /\ Gathers(d) = {} /\ d.op \in Lower
        /\ \A e \in SetOf(Return) : e.op \in Lower
    <2>1. Begun(z, V, src, d, c) BY BeginsFacts
    <2> QED BY <2>1 DEF Begun
  <1>3. d \in Frame /\ Own(d) = V /\ Moves(d) = V /\ d.op \in {"elements", "properties"}
    BY DEF Begins
  <1>4. PICK t : t = <<c>> \o Return OBVIOUS
  <1>5. Pushed(t, c, Return) BY <1>1, <1>2, <1>4, PushIs
  <1>6. t \in Seq(Frame) /\ SetOf(t) = {c} \cup SetOf(Return) BY <1>5 DEF Pushed
  <1>7. stack' = <<d>> \o t BY <1>2, <1>4 DEF Begins, Goto
  <1>8. Pushed(stack', d, t) BY <1>3, <1>6, <1>7, PushIs
  <1>9. Calls' = {d, c} \cup SetOf(Return) BY <1>6, <1>8, CallsSet DEF Pushed
  <1>10. /\ Owned = Own(Top) \cup OwnedBy(SetOf(Return))
         /\ Moved = Moves(Top) \cup MovedBy(SetOf(Return))
         /\ Stale = Drops(Top) \cup StaleBy(SetOf(Return))
         /\ InLists = Lists(Top) \cup ListedBy(SetOf(Return))
    BY <1>0, SplitSets DEF Base
  <1>11. GatheredBy(SetOf(Return)) = {} /\ Gathers(c) = {}
    BY <1>0, <1>2, Waiting DEF Base, Gathers
  <1>12. Calls' = SetOf(stack') BY CallsSet
  <1>13. Owned' = Owned \cup V
    <2>1. OwnedBy(SetOf(stack')) = Own(d) \cup (Own(c) \cup OwnedBy(SetOf(Return)))
      BY <1>5, <1>8 DEF Pushed
    <2> QED BY <1>2, <1>3, <1>10, <1>12, <2>1 DEF Same, Owned
  <1>14. Moved' = Moved \cup V
    <2>1. MovedBy(SetOf(stack')) = Moves(d) \cup (Moves(c) \cup MovedBy(SetOf(Return)))
      BY <1>5, <1>8 DEF Pushed
    <2> QED BY <1>2, <1>3, <1>10, <1>12, <2>1 DEF Same, Moved
  <1>15. Stale' = Stale
    <2>1. StaleBy(SetOf(stack')) = Drops(d) \cup (Drops(c) \cup StaleBy(SetOf(Return)))
      BY <1>5, <1>8 DEF Pushed
    <2> QED BY <1>2, <1>10, <1>12, <2>1 DEF Same, Stale
  <1>16. InLists' = InLists
    <2>1. ListedBy(SetOf(stack')) = Lists(d) \cup (Lists(c) \cup ListedBy(SetOf(Return)))
      BY <1>5, <1>8 DEF Pushed
    <2> QED BY <1>2, <1>10, <1>12, <2>1 DEF Same, InLists
  <1>17. Gathered' = {}
    <2>1. GatheredBy(SetOf(stack')) = Gathers(d) \cup (Gathers(c) \cup GatheredBy(SetOf(Return)))
      BY <1>5, <1>8 DEF Pushed
    <2> QED BY <1>2, <1>11, <1>12, <2>1 DEF Gathered
  <1>18. Heavier(d)
    <2>1. ASSUME NEW m PROVE Weight(stack', m) = W(d, m) + Weight(stack, m)
      <3>1. Weight(stack', m) = W(d, m) + (W(c, m) + Weight(Return, m))
        <4>1. Weight(stack', m) = W(d, m) + Weight(t, m) BY <1>8 DEF Pushed
        <4>2. Weight(t, m) = W(c, m) + Weight(Return, m) BY <1>5 DEF Pushed
        <4> QED BY <4>1, <4>2
      <3>2. Weight(stack, m) = W(Top, m) + Weight(Return, m) BY <1>1 DEF Pushed
      <3> QED BY <1>2, <3>1, <3>2
    <2> QED BY <2>1 DEF Heavier
  <1>19. StackInv'
    <2>1. \A e \in SetOf(t) : e.op \in Lower BY <1>2, <1>6 DEF Lower
    <2>2. Shape(stack') BY <1>3, <1>8, <2>1 DEF Shape, Pushed
    <2>3. PairsOf(Return) BY <1>0, <1>1 DEF Pushed, Base, StackInv
    <2>4. \A e \in SetOf(Return) : PairOK(c, e) BY <1>1, <1>2 DEF PairOK, Same
    <2>5. PairsOf(t) BY <1>5, <2>3, <2>4 DEF Pushed
    <2>6. ASSUME NEW e \in SetOf(t) PROVE PairOK(d, e)
      <3>1. Own(e) \cap V = {}
        <4>1. Own(e) \subseteq Owned
          BY <1>2, <1>6, <1>10, PartsOf DEF Same
        <4> QED BY <1>2, <4>1 DEF Doomed
      <3>2. Refs(e) \cap V = {}
        <4>1. CASE e = c BY <1>2, <4>1 DEF Refs
        <4>2. CASE e # c
          <5>1. e \in SetOf(Return) BY <1>6, <4>2
          <5>2. Refs(e) \subseteq Zval BY <1>1, <1>2, <5>1 DEF Refs, FrameOK, RefOK, Lower
          <5> QED BY <1>2, <5>2, GcAssumption
        <4> QED BY <4>1, <4>2
      <3> QED BY <1>3, <3>1, <3>2 DEF PairOK
    <2>7. PairsOf(stack') BY <1>8, <2>5, <2>6 DEF Pushed
    <2> QED BY <1>8, <2>2, <2>7 DEF StackInv, Pushed
  <1>20. Top' = d /\ stack' # <<>> BY <1>8 DEF Top, Pushed
  <1>21. stack' = <<d>> \o (<<c>> \o Return) BY <1>4, <1>7
  <1> QED BY <1>9, <1>13, <1>14, <1>15, <1>16, <1>17, <1>18, <1>19, <1>20, <1>21
-----------------------------------------------------------------------------
\* The object was doomed before it is owned: nothing else is dying.
LEMMA BeginsSets ==
  ASSUME Working, NEW z, NEW V, NEW src, NEW d, Begins(z, V, src, d),
         NEW c, c = [Top EXCEPT !.rest = @ \ {z}]
  PROVE  /\ Doomed' = Doomed \ V /\ Dying' = Dying /\ RefOK' = RefOK /\ Alive' = Alive
         /\ \A o \in Doomed \ V : Dooms(Top, o, content) => Dooms(c, o, content')
         /\ \A e \in SetOf(Return), o \in Doomed :
               Dooms(e, o, content) => Dooms(e, o, content')
  <1>0. Base /\ stack # <<>> BY DEF Working, GcInv
  <1>1. Begun(z, V, src, d, c) BY BeginsFacts
  <1>2. /\ c.op = "destroy" /\ c.rest = Top.rest \ {z} /\ z \in Stale /\ z \in Node
        /\ z \in Alive /\ z \in Owned /\ z \in InLists /\ z \notin Obj
        /\ V \subseteq Doomed /\ V \subseteq Obj
        /\ \A e \in SetOf(Return) : z \notin Own(e)
    BY <1>1 DEF Begun
  <1>3. /\ \A m \in Node : type'[m] = IF m = z THEN "null" ELSE type[m]
        /\ \A m \in Node : content'[m] = IF m = z THEN {} ELSE content[m]
        /\ V = content[z] \cap Obj
    BY DEF Begins
  <1>4. Owned' = Owned \cup V /\ Stale' = Stale /\ InLists' = InLists BY BeginsStack
  <1>5. ASSUME NEW o \in Obj PROVE o \in Doomed' <=> o \in Doomed \ V
    <2>1. o \in Node /\ o # z BY <1>2 DEF Node
    <2>2. type'[o] = type[o] BY <1>3, <2>1
    <2>3. ASSUME NEW m \in Node
          PROVE  (o \in content'[m] => m \in Stale') <=> (o \in content[m] => m \in Stale)
      BY <1>2, <1>3, <1>4
    <2> QED BY <1>4, <2>2, <2>3 DEF Doomed
  <1>6. Doomed' = Doomed \ V BY <1>5 DEF Doomed
  <1>7. Dying' = Dying BY <1>2, <1>4, <1>6 DEF Dying
  <1>8. Alive' = Alive BY <1>2, <1>3 DEF Alive
  <1>9. RefOK' = RefOK
    <2>1. \A y \in Zval : type'[y] # "free" <=> type[y] # "free"
      BY <1>2, <1>3 DEF Alive, Node
    <2> QED BY <1>4, <1>7, <2>1 DEF RefOK
  <1>10. Top \in Frame /\ \A e \in SetOf(Return) : e \in Frame /\ FrameOK(e)
    BY <1>0, TopFrame
  <1>11. ASSUME NEW o \in Doomed \ V, Dooms(Top, o, content) PROVE Dooms(c, o, content')
    <2>1. PICK y \in Top.rest : o \in content[y] BY <1>11 DEF Dooms
    <2>2. y # z BY <1>3, <1>11, <2>1 DEF Doomed
    <2>3. y \in Node BY <1>10, <2>1 DEF Frame
    <2>4. y \in c.rest /\ o \in content'[y] BY <1>2, <1>3, <2>1, <2>2, <2>3
    <2> QED BY <1>2, <2>4 DEF Dooms
  <1>12. ASSUME NEW e \in SetOf(Return), NEW o \in Doomed, Dooms(e, o, content)
         PROVE  Dooms(e, o, content')
    <2>1. PICK y \in e.rest : o \in content[y] BY <1>12 DEF Dooms
    <2>2. e.op = "destroy" /\ y \in e.list /\ y \in Node
      BY <1>10, <1>12, <2>1 DEF Dooms, FrameOK, Frame
    <2>3. y # z BY <1>2, <2>2 DEF Own
    <2>4. content'[y] = content[y] BY <1>3, <2>2, <2>3
    <2> QED BY <2>1, <2>2, <2>4 DEF Dooms
  <1> QED BY <1>6, <1>7, <1>8, <1>9, <1>11, <1>12

\* All calls are as they should be, the new one included.
LEMMA BeginsFrames ==
  ASSUME Working, NEW z, NEW V, NEW src, NEW d, Begins(z, V, src, d),
         NEW c, c = [Top EXCEPT !.rest = @ \ {z}]
  PROVE  /\ FrameOK(d)' /\ FrameOK(c)' /\ \A e \in SetOf(Return) : FrameOK(e)'
  <1>0. Base /\ stack # <<>> BY DEF Working, GcInv
  <1>1. Begun(z, V, src, d, c) BY BeginsFacts
  <1>2. /\ c.op = "destroy" /\ c.list = Top.list /\ c.rest = Top.rest \ {z}
        /\ z \in Node /\ z \notin Obj /\ V \subseteq Doomed /\ V \subseteq Obj
        /\ d.rest \subseteq RefOK
        /\ \A e \in SetOf(Return) : z \notin Own(e) /\ e.op \in Lower
    BY <1>1 DEF Begun
  <1>3. /\ \A m \in Node : type'[m] = IF m = z THEN "null" ELSE type[m]
        /\ \A m \in Node : content'[m] = IF m = z THEN {} ELSE content[m]
        /\ d.op \in {"elements", "properties"} /\ d.z = None
        /\ (d.op = "properties" => d.n \in V) /\ Top.op = "destroy"
    BY DEF Begins
  <1>4. Moved' = Moved \cup V BY BeginsStack
  <1>5. /\ Doomed' = Doomed \ V /\ RefOK' = RefOK /\ Alive' = Alive
        /\ \A o \in Doomed \ V : Dooms(Top, o, content) => Dooms(c, o, content')
        /\ \A e \in SetOf(Return), o \in Doomed :
               Dooms(e, o, content) => Dooms(e, o, content')
    BY BeginsSets
  <1>6. /\ Top \in Frame /\ FrameOK(Top)
        /\ \A e \in SetOf(Return) : e \in Frame /\ FrameOK(e)
    BY <1>0, TopFrame
  <1>7. FrameOK(d)'
    <2>1. d.op = "properties" => d.n \in Obj /\ type'[d.n] = "store"
      <3>1. \A o \in V : o \in Obj /\ o \in Node /\ o # z /\ type[o] = "store"
        BY <1>2 DEF Doomed, Node
      <3> QED BY <1>3, <3>1
    <2> QED BY <1>2, <1>3, <1>5, <2>1 DEF FrameOK
  <1>8. ASSUME NEW b, NEW r, r.op = "destroy", r.list = b.list, ListHeld(b),
               \A o \in Doomed \ V : Dooms(b, o, content) => Dooms(r, o, content')
        PROVE  ListHeld(r)'
    <2> SUFFICES ASSUME NEW y \in r.list, NEW m \in Node, y \in content'[m]
                 PROVE  \/ m \in r.list \/ m \in Moved'
                        \/ m \in Doomed' /\ Dooms(r, m, content')
      BY DEF ListHeld
    <2>1. y \in content[m] BY <1>3
    <2>2. \/ m \in b.list \/ m \in Moved \/ (m \in Doomed /\ Dooms(b, m, content))
      BY <1>8, <2>1 DEF ListHeld
    <2> QED BY <1>4, <1>5, <1>8, <2>2
  <1>9. FrameOK(c)'
    <2>1. ListHeld(Top) BY <1>3, <1>6 DEF FrameOK
    <2>2. ListHeld(c)' BY <1>2, <1>5, <1>8, <2>1
    <2>3. /\ Top.rest \subseteq Top.list /\ Top.list \subseteq Zval \cap Alive
          /\ \A y \in Top.list \ Top.rest : type[y] # "array"
      BY <1>3, <1>6 DEF FrameOK
    <2>4. \A y \in c.list \ c.rest : type'[y] # "array" BY <1>2, <1>3, <2>3 DEF Node
    <2> QED BY <1>2, <1>5, <2>2, <2>3, <2>4 DEF FrameOK
  <1>10. ASSUME NEW e \in SetOf(Return) PROVE FrameOK(e)'
    <2>0. e \in Frame /\ FrameOK(e) /\ z \notin Own(e) /\ e.op \in Lower BY <1>2, <1>6
    <2>1. CASE e.op = "elements"
      <3>1. e.z # None => e.z \in Node /\ e.z # z BY <2>0, <2>1 DEF Own, Frame, Node
      <3>2. e.z # None => type'[e.z] = "null" BY <1>3, <2>0, <2>1, <3>1 DEF FrameOK
      <3> QED BY <1>5, <2>0, <2>1, <3>2 DEF FrameOK
    <2>2. CASE e.op = "properties"
      <3>1. e.z # None => e.z \in Node /\ e.z # z BY <2>0, <2>2 DEF Own, Frame, Node
      <3>2. e.z # None => type'[e.z] = "object" /\ content'[e.z] = {e.n}
        BY <1>3, <2>0, <2>2, <3>1 DEF FrameOK
      <3>3. e.n \in Obj /\ e.n \in Node /\ e.n # z BY <1>2, <2>0, <2>2 DEF FrameOK, Node
      <3>4. type'[e.n] = "store" BY <1>3, <2>0, <2>2, <3>3 DEF FrameOK
      <3> QED BY <1>5, <2>0, <2>2, <3>2, <3>3, <3>4 DEF FrameOK
    <2>3. CASE e.op = "efree"
      <3>1. e.z \in Node /\ e.z # z BY <2>0, <2>3 DEF Own, FrameOK, Node
      <3> QED BY <1>3, <2>0, <2>3, <3>1 DEF FrameOK
    <2>4. CASE e.op = "collected" BY <2>0, <2>4 DEF FrameOK
    <2>5. CASE e.op = "destroy"
      <3>1. ListHeld(e) BY <2>0, <2>5 DEF FrameOK
      <3>2. \A o \in Doomed \ V : Dooms(e, o, content) => Dooms(e, o, content') BY <1>5
      <3>3. ListHeld(e)' BY <1>8, <2>5, <3>1, <3>2
      <3>4. /\ e.rest \subseteq e.list /\ e.list \subseteq Zval \cap Alive
            /\ \A y \in e.list \ e.rest : type[y] # "array"
        BY <2>0, <2>5 DEF FrameOK
      <3>5. \A y \in e.list \ e.rest : type'[y] # "array" BY <1>3, <3>4 DEF Node
      <3> QED BY <1>5, <2>5, <3>3, <3>4, <3>5 DEF FrameOK
    <2> QED BY <2>0, <2>1, <2>2, <2>3, <2>4, <2>5 DEF Lower
  <1> QED BY <1>7, <1>9, <1>10
-----------------------------------------------------------------------------
\* Nothing that lives refers to what is being destroyed.
LEMMA BeginsClosed ==
  ASSUME Working, NEW z, NEW V, NEW src, NEW d, Begins(z, V, src, d)
  PROVE  Closed'
  <1>0. Base /\ Closed /\ UNCHANGED ext BY DEF Working, GcInv, Base
  <1>1. PICK c : c = [Top EXCEPT !.rest = @ \ {z}] OBVIOUS
  <1>2. Begun(z, V, src, d, c) BY <1>1, BeginsFacts
  <1>3. z \in Node /\ z \in Owned /\ V \subseteq Doomed /\ V \subseteq Obj BY <1>2 DEF Begun
  <1>4. /\ \A m \in Node : type'[m] = IF m = z THEN "null" ELSE type[m]
        /\ \A m \in Node : content'[m] = IF m = z THEN {} ELSE content[m]
    BY DEF Begins
  <1>5. Owned' = Owned \cup V /\ InLists' = InLists BY <1>1, BeginsStack
  <1>6. Doomed' = Doomed \ V /\ Dying' = Dying /\ RefOK' = RefOK /\ Alive' = Alive
    BY <1>1, BeginsSets
  <1>7. \A m \in Node \ Dying' : content'[m] \subseteq Alive' \ Dying'
    BY <1>0, <1>4, <1>6 DEF Closed
  <1>8. \A m \in Doomed' \cup InLists' : content'[m] \cap Zval \subseteq RefOK'
    <2>1. Doomed \cup InLists \subseteq Node
      BY <1>0, SetParts DEF Base, StackInv, Doomed, Node
    <2> QED BY <1>0, <1>4, <1>5, <1>6, <2>1 DEF Closed
  <1>9. ASSUME NEW y \in Zval, type'[y] = "null" PROVE y \in Owned'
    <2>1. y = z \/ type[y] = "null" BY <1>4, <1>9 DEF Node
    <2> QED BY <1>0, <1>3, <1>5, <2>1 DEF Closed
  <1>10. ASSUME NEW y \in Zval, ext'[y] > 0 PROVE y \in Alive' \ Owned'
    BY <1>0, <1>3, <1>5, <1>6, <1>10, GcAssumption DEF Closed
  <1>11. Owned' \subseteq Alive'
    <2>1. V \subseteq Alive BY <1>3 DEF Doomed, Alive, Node
    <2> QED BY <1>0, <1>5, <1>6, <2>1 DEF Closed
  <1> QED BY <1>7, <1>8, <1>9, <1>10, <1>11 DEF Closed

\* Destroying what a listed zval contains keeps the invariant.
LEMMA BeginStep ==
  ASSUME Working, NEW z, NEW V, NEW src, NEW d, Begins(z, V, src, d),
         type' = [type EXCEPT ![z] = "null"], content' = [content EXCEPT ![z] = {}],
         rc' \in [Node -> Int], \A m \in Node : rc'[m] = rc[m] + IF m \in V THEN 1 ELSE 0,
         RootTypes', QuietKept
  PROVE  GcInv'
  <1>0. Base /\ Exact /\ Phase /\ stack # <<>> /\ Types /\ UNCHANGED ext
    BY DEF Working, GcInv, Base
  <1>1. PICK c : c = [Top EXCEPT !.rest = @ \ {z}] OBVIOUS
  <1>2. Begun(z, V, src, d, c) BY <1>1, BeginsFacts
  <1>3. /\ c \in Frame /\ c.op = "destroy" /\ z \in Node /\ z \in Owned /\ z \in Stale
        /\ z \notin Obj /\ V \subseteq Doomed /\ V \subseteq Obj /\ src \in Node
        /\ Refs(d) = d.rest /\ c.rest = Top.rest \ {z}
    BY <1>2 DEF Begun
  <1>4. /\ \A m \in Node : type'[m] = IF m = z THEN "null" ELSE type[m]
        /\ \A m \in Node : content'[m] = IF m = z THEN {} ELSE content[m]
        /\ Top.op = "destroy" /\ d.rest = content[src] /\ Keeps(d) = V
        /\ d \in Frame /\ d.op \in {"elements", "properties"} /\ z \in Zval
        /\ V = content[z] \cap Obj
    BY DEF Begins
  <1>5. /\ StackInv' /\ Calls' = {d, c} \cup SetOf(Return)
        /\ Moved' = Moved \cup V /\ Stale' = Stale /\ Gathered' = {} /\ Top' = d
        /\ stack' = <<d>> \o (<<c>> \o Return)
        /\ Heavier(d)
    <2>1. StackInv' /\ Calls' = {d, c} \cup SetOf(Return) BY <1>1, BeginsStack
    <2>2. Moved' = Moved \cup V /\ Stale' = Stale /\ Gathered' = {} BY <1>1, BeginsStack
    <2>3. Top' = d BY <1>1, BeginsStack
    <2>4. stack' = <<d>> \o (<<c>> \o Return) BY <1>1, BeginsStack
    <2>5. Heavier(d) BY <1>1, BeginsStack
    <2> QED BY <2>1, <2>2, <2>3, <2>4, <2>5
  <1>6. /\ Doomed' = Doomed \ V /\ Dying' = Dying /\ Alive' = Alive
        /\ (\A o \in Doomed \ V : Dooms(Top, o, content) => Dooms(c, o, content'))
        /\ \A e \in SetOf(Return), o \in Doomed :
               Dooms(e, o, content) => Dooms(e, o, content')
    BY <1>1, BeginsSets
  <1>7. Frames' BY <1>1, <1>5, BeginsFrames DEF Frames
  <1>8. Closed' BY BeginsClosed
  <1>9. Types'
    <2>1. type' \in [Node -> Type] /\ content' \in [Node -> SUBSET Node]
          /\ rc' \in [Node -> Int] /\ ext' \in [Zval -> 0 .. MaxRefs]
      BY <1>0, <1>3 DEF Types, Type
    <2>2. \A y \in Zval : type'[y] # "store" BY <1>0, <1>4 DEF Types, Node
    <2>3. \A o \in Obj : type'[o] \in {"free", "store"} BY <1>0, <1>3, <1>4 DEF Types, Node
    <2>4. \A m \in Node : type'[m] \in {"free", "null"} => content'[m] = {}
      BY <1>0, <1>4 DEF Types
    <2>5. \A m \in Node : type'[m] \in {"array", "store"} => content'[m] \subseteq Zval
      BY <1>0, <1>4 DEF Types
    <2>6. ASSUME NEW y \in Zval, type'[y] = "object" PROVE \E o \in Obj : content'[y] = {o}
      <3>1. y \in Node /\ y # z BY <1>4, <2>6 DEF Node
      <3>2. type[y] = "object" /\ content'[y] = content[y] BY <1>4, <2>6, <3>1
      <3> QED BY <1>0, <3>2 DEF Types
    <2> QED BY <2>1, <2>2, <2>3, <2>4, <2>5, <2>6 DEF Types
  <1>10. Top \in Frame /\ Return \in Seq(Frame) /\ Pushed(stack, Top, Return)
         /\ Calls = {Top} \cup SetOf(Return)
    BY <1>0, TopFrame
  <1>11. DoomInv'
    <2>1. ASSUME NEW o \in Doomed \ V PROVE \E e \in Calls' : Dooms(e, o, content')
      <3>1. PICK e \in Calls : Dooms(e, o, content) BY <1>0 DEF Base, DoomInv
      <3> QED BY <1>5, <1>6, <1>10, <3>1
    <2>2. PICK ct : ct = content' OBVIOUS
    <2>3. PICK Y : Y = Doomed \ V OBVIOUS
    <2>4. Ordered(<<Top>> \o Return, Y, ct)
      <3>1. SetOf(stack) = {Top} \cup SetOf(Return) BY <1>10 DEF Pushed
      <3>2. ASSUME NEW e \in SetOf(stack), NEW o \in Y, Dooms(e, o, content)
            PROVE  Dooms(e, o, ct)
        <4>1. CASE e \in SetOf(Return) BY <1>6, <2>2, <2>3, <3>2, <4>1
        <4>2. CASE e = Top
          <5>1. Dooms(c, o, ct) BY <1>6, <2>2, <2>3, <3>2, <4>2
          <5> QED BY <1>3, <1>4, <4>2, <5>1 DEF Dooms
        <4> QED BY <3>1, <4>1, <4>2
      <3>3. stack \in Seq(Frame) /\ Ordered(stack, Doomed, content) /\ Y \subseteq Doomed
        BY <1>0, <2>3 DEF Base, StackInv, DoomInv
      <3>4. Ordered(stack, Y, ct) BY <3>2, <3>3, OrderedMono
      <3> QED BY <1>10, <3>4 DEF Pushed
    <2>5. Ordered(<<c>> \o Return, Y, ct)
      <3>1. ASSUME NEW o \in Y, Dooms(Top, o, ct) PROVE Dooms(c, o, ct)
        <4>1. PICK y \in Top.rest : o \in ct[y] BY <3>1 DEF Dooms
        <4>2. y \in Node BY <1>10, <4>1 DEF Frame
        <4>3. y # z BY <1>4, <2>2, <4>1, <4>2
        <4> QED BY <1>3, <4>1, <4>3 DEF Dooms
      <3>2. c.op # "collected" /\ \A o \in Y \ Y : Dooms(c, o, ct) BY <1>3
      <3> QED BY <1>3, <1>10, <2>4, <3>1, <3>2, OrderedSwap
    <2>6. Ordered(stack', Y, ct)
      <3>1. PICK t : t = <<c>> \o Return OBVIOUS
      <3>2. t \in Seq(Frame) BY <1>3, <1>10, <3>1, PushSeq
      <3>3. d.op # "collected" BY <1>4
      <3>4. Ordered(<<d>> \o t, Y, ct) BY <1>4, <2>5, <3>1, <3>2, <3>3, OrderedPush
      <3> QED BY <1>5, <3>1, <3>4
    <2>7. Ordered(stack, Doomed, content)' BY <1>6, <2>2, <2>3, <2>6 DEF Ordered, Dooms
    <2>8. \A o \in Doomed' : \E e \in Calls' : Dooms(e, o, content)' BY <1>6, <2>1 DEF Dooms
    <2> QED BY <2>7, <2>8 DEF DoomInv
  <1>12. Base' BY <1>5, <1>7, <1>8, <1>9, <1>11 DEF Base, Working
  <1>13. /\ Gathered = {} /\ Trial = {} /\ Moved \subseteq Owned \cap Obj
         /\ Stale \subseteq Owned \cap Zval
         /\ Spent = Moved \cup {y \in Stale : type[y] = "object"}
    BY <1>0, <1>4, QuietFacts DEF Collects
  <1>14. Trial' = {} BY DEF QuietKept
  <1>15. \A k \in Node : k \in Spent' <=> (k \in Spent /\ k # z) \/ k \in V
    <2>1. Spent' = Moved' \cup {y \in Stale' : type'[y] = "object"} BY <1>5 DEF Spent
    <2>2. z \notin Moved BY <1>3, <1>13
    <2> QED BY <1>3, <1>4, <1>5, <1>13, <2>1, <2>2
  <1>16. src \notin Spent /\ (z # src => z \in Spent) /\ \A k \in V : k = src
    <2>1. CASE type[z] = "array" /\ src = z /\ V = {}
      BY <1>3, <1>13, <2>1
    <2>2. CASE type[z] = "object" /\ src \in Obj /\ V = {src} /\ src \in Doomed
      <3>1. z \in Spent BY <1>3, <1>13, <2>2
      <3>2. src \notin Spent BY <1>13, <2>2, GcAssumption DEF Doomed
      <3> QED BY <2>2, <3>1, <3>2
    <2> QED BY <2>1, <2>2 DEF Begins
  <1>17. \A k \in Node : k = src => k = z \/ k \in V BY DEF Begins
  <1>18. ASSUME NEW m \in Alive
         PROVE  rc'[m] = Ext(m)' + Cardinality(Preds(m)') + Weight(stack', m)
    <2>1. rc[m] = Ext(m) + Cardinality(Preds(m)) + Weight(stack, m) /\ m \in Node
      BY <1>0 DEF Exact, Alive
    <2>2. /\ Ext(m)' = Ext(m) /\ rc[m] \in Int /\ Ext(m) \in Nat
          /\ Cardinality(Preds(m)) \in Nat /\ Weight(stack, m) \in Nat
      BY <1>0, <2>1, Numbers DEF Ext
    <2>3. Weight(stack', m) = (IF m \in content[src] THEN 1 ELSE 0)
                              + (IF m \in V THEN 1 ELSE 0) + Weight(stack, m)
      <3>1. W(d, m) = (IF m \in content[src] THEN 1 ELSE 0) + (IF m \in V THEN 1 ELSE 0)
        BY <1>3, <1>4 DEF W
      <3> QED BY <1>5, <3>1 DEF Heavier
    <2>4. rc'[m] = rc[m] + IF m \in V THEN 1 ELSE 0 BY <2>1
    <2>5. Preds(m)' = Preds(m) \ {src}
      <3>1. ASSUME NEW k \in Node PROVE k \in Preds(m)' <=> k \in Preds(m) \ {src}
        <4>1. CASE k = z
          <5>1. content'[k] = {} BY <1>4, <4>1
          <5> QED BY <1>16, <4>1, <5>1 DEF Preds
        <4>2. CASE k # z /\ k = src BY <1>15, <1>17, <4>2 DEF Preds
        <4>3. CASE k # z /\ k # src
          <5>1. content'[k] = content[k] /\ (k \in Spent' <=> k \in Spent)
            BY <1>4, <1>15, <1>16, <4>3
          <5> QED BY <1>13, <1>14, <4>3, <5>1 DEF Preds
        <4> QED BY <4>1, <4>2, <4>3
      <3> QED BY <3>1 DEF Preds
    <2>6. CASE m \in content[src]
      <3>1. src \in Preds(m) BY <1>3, <1>13, <1>16, <2>6 DEF Preds
      <3>2. Cardinality(Preds(m)') = Cardinality(Preds(m)) - 1 BY <2>5, <3>1, PredsLess
      <3> QED BY <2>1, <2>2, <2>3, <2>4, <2>6, <3>2
    <2>7. CASE m \notin content[src]
      <3>1. src \notin Preds(m) BY <2>7 DEF Preds
      <3>2. Preds(m)' = Preds(m) BY <2>5, <3>1
      <3> QED BY <2>1, <2>2, <2>3, <2>4, <2>7, <3>2
    <2> QED BY <2>6, <2>7
  <1>19. Exact' BY <1>6, <1>18 DEF Exact
  <1>20. Phase'
    <2>1. Quiet' BY <1>6, KeptQuiet
    <2> QED BY <1>4, <1>5, <2>1, PhaseQuietNext DEF Collects
  <1> QED BY <1>12, <1>19, <1>20 DEF GcInv

\* gc_collect_cycles begins to destroy a listed array.
LEMMA DestroyArrayStep ==
  ASSUME Working, NEW z \in Zval, Top.op = "destroy", z \in Top.rest, DestroyArray(z)
  PROVE  GcInv'
  <1>0. Base /\ Phase /\ stack # <<>> /\ Types /\ RootTypes BY DEF Working, GcInv, Base
  <1>1. /\ type[z] = "array" /\ type' = [type EXCEPT ![z] = "null"]
        /\ content' = [content EXCEPT ![z] = {}]
        /\ stack' = <<Call("elements", None, z, content[z], {})>>
                    \o Goto([Top EXCEPT !.rest = @ \ {z}])
        /\ UNCHANGED rc /\ UNCHANGED gcVars
    BY DEF DestroyArray
  <1>2. z \in Node /\ content[z] \subseteq Zval /\ content[z] \subseteq Node
    BY <1>0, <1>1 DEF Types, Node
  <1>3. PICK d : d = Call("elements", None, z, content[z], {}) OBVIOUS
  <1>4. d \in Frame /\ d.op = "elements" /\ d.z = None /\ d.rest = content[z]
    BY <1>2, <1>3 DEF Call, Frame, Op
  <1>5. Own(d) = {} /\ Moves(d) = {} /\ Keeps(d) = {}
    BY <1>4, GcAssumption DEF Own, Moves, Keeps
  <1>6. \A m \in Node : /\ type'[m] = (IF m = z THEN "null" ELSE type[m])
                        /\ content'[m] = (IF m = z THEN {} ELSE content[m])
    BY <1>0, <1>1 DEF Types
  <1>7. PICK V : V = {} OBVIOUS
  <1>8. V = content[z] \cap Obj BY <1>2, <1>7, GcAssumption
  <1>9. Begins(z, V, z, d) BY <1>1, <1>3, <1>4, <1>5, <1>6, <1>7, <1>8 DEF Begins
  <1>10. rc' \in [Node -> Int] /\ \A m \in Node : rc'[m] = rc[m] + IF m \in V THEN 1 ELSE 0
    BY <1>0, <1>1, <1>7 DEF Types
  <1>11. RootTypes' /\ QuietKept
    <2>1. Quiet BY <1>0, PhaseQuiet DEF Collects
    <2> QED BY <1>0, <1>1, <2>1, RootTypesStill, KeptStill
  <1> QED BY <1>1, <1>9, <1>10, <1>11, BeginStep

\* gc_collect_cycles begins to destroy the object of a listed handle.
LEMMA DestroyHandleStep ==
  ASSUME Working, NEW z \in Zval, Top.op = "destroy", z \in Top.rest, DestroyHandle(z)
  PROVE  GcInv'
  <1>0. Base /\ Exact /\ Phase /\ stack # <<>> /\ Types /\ RootTypes
    BY DEF Working, GcInv, Base
  <1>1. PICK o : o = Holder(z) OBVIOUS
  <1>2. /\ type[z] = "object" /\ type[o] = "store" /\ rc[o] <= 0
        /\ rc' = [rc EXCEPT ![o] = 1] /\ type' = [type EXCEPT ![z] = "null"]
        /\ content' = [content EXCEPT ![z] = {}] /\ Unbuffer({o})
        /\ stack' = <<Call("properties", None, o, content[o], {})>>
                    \o Goto([Top EXCEPT !.rest = @ \ {z}])
    BY <1>1 DEF DestroyHandle
  <1>3. z \in Node /\ o \in Obj /\ o \in Node /\ content[z] = {o} /\ o \notin Zval
    BY <1>0, <1>1, <1>2, Handle DEF Node
  <1>4. content[o] \subseteq Zval /\ content[o] \subseteq Node
    BY <1>0, <1>2, <1>3 DEF Types, Node
  <1>5. Top.op \notin Collects BY DEF Collects
  <1>6. o \in Doomed /\ rc[o] = 0 BY <1>0, <1>2, <1>3, <1>5, DoomedCount
  <1>7. PICK d : d = Call("properties", None, o, content[o], {}) OBVIOUS
  <1>8. d \in Frame /\ d.op = "properties" /\ d.z = None /\ d.rest = content[o] /\ d.n = o
    BY <1>3, <1>4, <1>7 DEF Call, Frame, Op
  <1>9. PICK V : V = {o} OBVIOUS
  <1>10. Own(d) = V /\ Moves(d) = V /\ Keeps(d) = V
    <2>1. None \notin Node BY GcAssumption DEF Node
    <2> QED BY <1>3, <1>8, <1>9, <2>1 DEF Own, Moves, Keeps
  <1>11. \A m \in Node : /\ type'[m] = (IF m = z THEN "null" ELSE type[m])
                         /\ content'[m] = (IF m = z THEN {} ELSE content[m])
    BY <1>0, <1>2 DEF Types
  <1>12. V = content[z] \cap Obj BY <1>3, <1>9
  <1>13. Begins(z, V, o, d)
    BY <1>2, <1>3, <1>6, <1>7, <1>8, <1>9, <1>10, <1>11, <1>12 DEF Begins
  <1>14. rc' \in [Node -> Int] BY <1>0, <1>2, <1>3 DEF Types
  <1>15. \A m \in Node : rc'[m] = rc[m] + IF m \in V THEN 1 ELSE 0
    BY <1>0, <1>2, <1>6, <1>9 DEF Types
  <1>16. RootTypes' /\ QuietKept
    <2>1. Quiet BY <1>0, <1>5, PhaseQuiet
    <2>2. PICK ns : ns = {o} OBVIOUS
    <2>3. ns \in SUBSET Node /\ Unbuffer(ns) BY <1>2, <1>3, <2>2
    <2>4. /\ RootTypes' /\ Trial' = {}
          /\ \A s \in Roots' : color'[slots'[s]] = "purple"
                => addr'[slots'[s]] # 0 /\ slots'[s] \notin Dying
      BY <1>0, <2>1, <2>3, Unbuffered
    <2> QED BY <2>4 DEF QuietKept
  <1> QED BY <1>2, <1>13, <1>14, <1>15, <1>16, BeginStep

\* gc_collect_cycles destroys a listed zval.
LEMMA DestroyStep ==
  ASSUME Working, NEW z \in Zval, Destroy(z)
  PROVE  GcInv'
  BY DestroyArrayStep, DestroyHandleStep, SkipStep DEF Destroy
-----------------------------------------------------------------------------
\* The heap between two statements of the script: what is allocated is whole.
Plain ==
    /\ Types /\ \A z \in Zval : type[z] # "null"
    /\ \A m \in Node : content[m] \subseteq Alive
    /\ \A o \in Obj : type[o] = "store" => \E m \in Node : o \in content[m]
    /\ \A z \in Zval : ext[z] > 0 => z \in Alive

\* The nodes that contain n.
Holders(n) == {m \in Node : n \in content[m]}

\* Between two statements nothing is owned, dying or on trial.
LEMMA IdleSets ==
  ASSUME GcInv, stack = <<>>
  PROVE  /\ Owned = {} /\ Moved = {} /\ Stale = {} /\ InLists = {} /\ Gathered = {}
         /\ Doomed = {} /\ Dying = {} /\ Spent = {} /\ Trial = {} /\ Calls = {}
         /\ Quiet /\ RootTypes /\ forgotten \subseteq Node
  <1>1. Calls = SetOf(stack) BY CallsSet
  <1>2. /\ SetOf(stack) = {} /\ OwnedBy(SetOf(stack)) = {} /\ MovedBy(SetOf(stack)) = {}
        /\ StaleBy(SetOf(stack)) = {} /\ ListedBy(SetOf(stack)) = {}
        /\ GatheredBy(SetOf(stack)) = {}
    BY EmptySets
  <1>3. Owned = {} /\ Moved = {} /\ Stale = {} /\ InLists = {} /\ Gathered = {} /\ Calls = {}
    BY <1>1, <1>2 DEF Owned, Moved, Stale, InLists, Gathered
  <1>4. Base /\ Phase BY DEF GcInv
  <1>5. Doomed = {} BY <1>3, <1>4 DEF Base, DoomInv
  <1>6. Dying = {} /\ Spent = {} BY <1>3, <1>5 DEF Dying, Spent
  <1>7. Quiet BY <1>4, PhaseQuiet
  <1> QED BY <1>3, <1>4, <1>5, <1>6, <1>7 DEF Quiet, Base

\* Between two statements the heap is whole and its counts are exact.
LEMMA IdleHeap ==
  ASSUME GcInv, stack = <<>>
  PROVE  /\ Plain
         /\ \A n : Holders(n) = Preds(n)
         /\ \A n \in Alive : rc[n] = Ext(n) + Cardinality(Preds(n))
  <1>1. Base /\ Exact /\ Types /\ Closed BY DEF GcInv, Base
  <1>2. Owned = {} /\ Dying = {} /\ Spent = {} /\ Trial = {} /\ Stale = {} /\ Doomed = {}
    BY IdleSets
  <1>3. Plain
    <2>1. \A z \in Zval : type[z] # "null" BY <1>1, <1>2 DEF Closed
    <2>2. \A m \in Node : content[m] \subseteq Alive BY <1>1, <1>2 DEF Closed
    <2>3. \A o \in Obj : type[o] = "store" => \E m \in Node : o \in content[m]
      BY <1>2 DEF Doomed
    <2>4. \A z \in Zval : ext[z] > 0 => z \in Alive BY <1>1 DEF Closed
    <2> QED BY <1>1, <2>1, <2>2, <2>3, <2>4 DEF Plain
  <1>4. ASSUME NEW n PROVE Holders(n) = Preds(n) BY <1>2 DEF Holders, Preds
  <1>5. ASSUME NEW n \in Alive PROVE rc[n] = Ext(n) + Cardinality(Preds(n))
    <2>1. rc[n] = Ext(n) + Cardinality(Preds(n)) + Weight(stack, n) BY <1>1 DEF Exact
    <2>2. Weight(stack, n) = 0 BY WeightEmpty
    <2>3. Ext(n) \in Nat /\ Cardinality(Preds(n)) \in Nat BY <1>1, Numbers DEF Alive
    <2> QED BY <2>1, <2>2, <2>3
  <1> QED BY <1>3, <1>4, <1>5

\* No call, or one that owns nothing.
Called(d) ==
    /\ d \in Frame /\ stack' = <<d>> /\ d.op \in {"dtor", "mark"}
    /\ d.op = "dtor" => d.z \in Zval \cap Alive' /\ d.n = d.z
    /\ d.op = "mark" => d.rest = {} /\ d.list = Roots'

\* What a statement of the script begins owns nothing.
LEMMA NextSets ==
  ASSUME stack' = <<>> \/ \E d : Called(d)
  PROVE  /\ Owned' = {} /\ Moved' = {} /\ Stale' = {} /\ InLists' = {} /\ Gathered' = {}
         /\ StackInv' /\ (\A c \in Calls' : Called(c))
         /\ stack' = <<>> => \A n : Weight(stack', n) = 0
         /\ \A d : Called(d) => \A n : Weight(stack', n) = W(d, n)
         /\ \A X, ct : Ordered(stack', X, ct)
  <1>1. CASE stack' = <<>>
    <2>1. /\ SetOf(stack') = {} /\ OwnedBy(SetOf(stack')) = {} /\ MovedBy(SetOf(stack')) = {}
          /\ StaleBy(SetOf(stack')) = {} /\ ListedBy(SetOf(stack')) = {}
          /\ GatheredBy(SetOf(stack')) = {}
      BY <1>1, EmptySets
    <2>2. Calls' = {} BY <2>1, CallsSet
    <2>3. Owned' = {} /\ Moved' = {} /\ Stale' = {} /\ InLists' = {} /\ Gathered' = {}
      BY <2>2 DEF Owned, Moved, Stale, InLists, Gathered, OwnedBy, MovedBy, StaleBy,
                  ListedBy, GatheredBy
    <2>4. StackInv' BY <1>1 DEF StackInv, Shape, PairsOf
    <2>5. \A n : Weight(stack', n) = 0 BY <1>1, WeightEmpty
    <2>6. \A d : ~Called(d) BY <1>1 DEF Called
    <2>7. \A X, ct : Ordered(stack', X, ct) BY <1>1 DEF Ordered
    <2> QED BY <2>2, <2>3, <2>4, <2>5, <2>6, <2>7
  <1>2. ASSUME NEW d, Called(d)
        PROVE  /\ Owned' = {} /\ Moved' = {} /\ Stale' = {} /\ InLists' = {} /\ Gathered' = {}
               /\ StackInv' /\ Calls' = {d}
               /\ \A n : Weight(stack', n) = W(d, n)
               /\ \A X, ct : Ordered(stack', X, ct)
    <2>1. d \in Frame /\ stack' = <<d>> /\ d.op \in {"dtor", "mark"} BY <1>2 DEF Called
    <2>2. PICK e : e = <<>> OBVIOUS
    <2>3. e \in Seq(Frame) /\ <<d>> = <<d>> \o e BY <2>2
    <2>4. Pushed(stack', d, e) BY <2>1, <2>3, PushIs
    <2>5. /\ SetOf(e) = {} /\ OwnedBy(SetOf(e)) = {} /\ MovedBy(SetOf(e)) = {}
          /\ StaleBy(SetOf(e)) = {} /\ ListedBy(SetOf(e)) = {}
          /\ GatheredBy(SetOf(e)) = {}
      BY <2>2, EmptySets
    <2>6. Own(d) = {} /\ Moves(d) = {} /\ Drops(d) = {} /\ Lists(d) = {} /\ Gathers(d) = {}
      BY <2>1 DEF Own, Moves, Drops, Lists, Gathers
    <2>7. Calls' = {d} BY <2>4, <2>5, CallsSet DEF Pushed
    <2>8. Owned' = {} /\ Moved' = {} /\ Stale' = {} /\ InLists' = {} /\ Gathered' = {}
      BY <2>6, <2>7 DEF Owned, Moved, Stale, InLists, Gathered, OwnedBy, MovedBy, StaleBy,
                        ListedBy, GatheredBy
    <2>9. StackInv'
      <3>1. Shape(stack') BY <2>1, <2>4, <2>5 DEF Shape, Pushed
      <3>2. PairsOf(e) BY <2>2 DEF PairsOf
      <3>3. PairsOf(stack') BY <2>4, <2>5, <3>2 DEF Pushed
      <3> QED BY <2>4, <3>1, <3>3 DEF StackInv, Pushed
    <2>10. ASSUME NEW n PROVE Weight(stack', n) = W(d, n)
      <3>1. Weight(stack', n) = W(d, n) + Weight(e, n) BY <2>4 DEF Pushed
      <3>2. Weight(e, n) = 0 BY <2>2, WeightEmpty
      <3> QED BY <3>1, <3>2, WType
    <2>11. \A X, ct : Ordered(stack', X, ct) BY <2>1 DEF Ordered
    <2> QED BY <2>7, <2>8, <2>9, <2>10, <2>11
  <1>3. CASE \E d : Called(d)
    <2>1. PICK d : Called(d) BY <1>3
    <2>2. stack' = <<d>> /\ \A f : Called(f) => f = d BY <2>1 DEF Called
    <2> QED BY <1>2, <2>1, <2>2
  <1> QED BY <1>1, <1>3

\* A statement of the script that leaves the heap whole and its counts exact.
LEMMA ScriptStep ==
  ASSUME GcInv, stack = <<>>, UNCHANGED forgotten, Plain', RootTypes', Trial' = {},
         stack' = <<>> \/ \E d : Called(d),
         \A s \in Roots' : color'[slots'[s]] = "purple" => addr'[slots'[s]] # 0,
         \A n \in Alive' : rc'[n] = Ext(n)' + Cardinality(Holders(n)') + Weight(stack', n)
  PROVE  GcInv'
  <1>1. /\ Owned' = {} /\ Moved' = {} /\ Stale' = {} /\ InLists' = {} /\ Gathered' = {}
        /\ StackInv' /\ (\A c \in Calls' : Called(c))
        /\ \A X, ct : Ordered(stack', X, ct)
    BY NextSets
  <1>2. Doomed' = {} BY <1>1 DEF Plain, Doomed
  <1>3. Dying' = {} /\ Spent' = {} BY <1>1, <1>2 DEF Dying, Spent
  <1>4. RefOK' = Zval \cap Alive' BY <1>3 DEF RefOK, Alive, Node
  <1>5. Frames'
    <2>1. ASSUME NEW c \in Calls' PROVE FrameOK(c)' BY <1>1, <1>4 DEF Called, FrameOK
    <2> QED BY <2>1 DEF Frames
  <1>6. DoomInv'
    <2>1. Ordered(stack', Doomed', content') BY <1>1
    <2>2. Ordered(stack, Doomed, content)' BY <2>1 DEF Ordered, Dooms
    <2> QED BY <1>2, <2>2 DEF DoomInv
  <1>7. Closed' BY <1>1, <1>2, <1>3 DEF Plain, Closed
  <1>8. forgotten' \subseteq Node BY IdleSets
  <1>9. Base' BY <1>1, <1>5, <1>6, <1>7, <1>8 DEF Plain, Base
  <1>10. ASSUME NEW n PROVE Holders(n)' = Preds(n)' BY <1>3 DEF Holders, Preds
  <1>11. Exact' BY <1>10 DEF Exact
  <1>12. Quiet' BY <1>3 DEF Quiet
  <1>13. Phase'
    <2>1. CASE stack' = <<>> BY <1>12, <2>1, PhaseQuietNext
    <2>2. CASE \E d : Called(d) /\ d.op = "dtor"
      <3>1. PICK d : Called(d) /\ d.op = "dtor" BY <2>2
      <3>2. Top' = d BY <3>1 DEF Called, Top
      <3> QED BY <1>12, <3>1, <3>2, PhaseQuietNext DEF Collects
    <2>3. CASE \E d : Called(d) /\ d.op = "mark"
      <3>1. PICK d : Called(d) /\ d.op = "mark" BY <2>3
      <3>2. Top' = d /\ stack' # <<>> /\ d.rest = {} /\ d.list = Roots'
        BY <3>1 DEF Called, Top
      <3>3. Painted("white")' = {} /\ Painted("grey")' = {} BY DEF Painted, Trial
      <3>4. MarkInv(d)' BY <1>3, <3>2, <3>3 DEF MarkInv, Sound, Reaches
      <3>5. MarkInv(Top)' BY <3>2, <3>4
      <3> QED BY <3>1, <3>2, <3>5 DEF Phase
    <2> QED BY <2>1, <2>2, <2>3 DEF Called
  <1> QED BY <1>9, <1>11, <1>13 DEF GcInv
-----------------------------------------------------------------------------
\* The heap before a statement of the script.
LEMMA Idle ==
  ASSUME GcInv, stack = <<>>
  PROVE  /\ Plain /\ Types /\ RootTypes /\ Trial = {}
         /\ (\A m \in Node : content[m] \subseteq Alive)
         /\ (\A s \in Roots : color[slots[s]] = "purple" => addr[slots[s]] # 0)
         /\ \A n \in Alive : /\ n \in Node /\ rc[n] = Ext(n) + Cardinality(Preds(n))
                             /\ rc[n] \in Int /\ Ext(n) \in Nat
                             /\ Cardinality(Preds(n)) \in Nat
  <1>1. Base /\ Quiet /\ RootTypes /\ Trial = {} BY IdleSets DEF GcInv
  <1>2. Plain /\ \A n \in Alive : rc[n] = Ext(n) + Cardinality(Preds(n)) BY IdleHeap
  <1>3. ASSUME NEW n \in Alive
        PROVE  n \in Node /\ rc[n] \in Int /\ Ext(n) \in Nat /\ Cardinality(Preds(n)) \in Nat
    BY <1>1, Numbers DEF Alive
  <1> QED BY <1>1, <1>2, <1>3 DEF Plain, Quiet

\* Between two statements every reference counts.
LEMMA IdlePreds ==
  ASSUME GcInv, stack = <<>>
  PROVE  \A n : Holders(n) = Preds(n)
  BY IdleHeap

\* How many hold a node, when another one begins to, or one stops.
LEMMA HoldersMore ==
  ASSUME GcInv, stack = <<>>, NEW n, NEW k, k \notin Holders(n), k \in Node,
         Holders(n)' = Holders(n) \cup {k}
  PROVE  Cardinality(Holders(n)') = Cardinality(Preds(n)) + 1
  <1>1. Holders(n) = Preds(n) BY IdlePreds
  <1>2. IsFiniteSet(Preds(n)) BY PredsCount
  <1> QED BY <1>1, <1>2, CountAdd

\* One less contains the node.
LEMMA HoldersLess ==
  ASSUME GcInv, stack = <<>>, NEW n, NEW k, k \in Holders(n),
         Holders(n)' = Holders(n) \ {k}
  PROVE  Cardinality(Holders(n)') = Cardinality(Preds(n)) - 1
  <1>1. Holders(n) = Preds(n) BY IdlePreds
  <1>2. IsFiniteSet(Preds(n)) BY PredsCount
  <1> QED BY <1>1, <1>2, CountRemove

\* The same nodes contain it.
LEMMA HoldersSame ==
  ASSUME GcInv, stack = <<>>, NEW n, Holders(n)' = Holders(n)
  PROVE  Cardinality(Holders(n)') = Cardinality(Preds(n))
  BY IdlePreds

\* The colours and the buffer stay as they are.
LEMMA RootsStay ==
  ASSUME GcInv, stack = <<>>, UNCHANGED gcVars
  PROVE  /\ RootTypes' /\ Trial' = {}
         /\ \A s \in Roots' : color'[slots'[s]] = "purple" => addr'[slots'[s]] # 0
  <1>1. /\ RootTypes /\ Trial = {}
        /\ \A s \in Roots : color[slots[s]] = "purple" => addr[slots[s]] # 0
    BY Idle
  <1>2. RootTypes' BY <1>1, RootTypesStill
  <1>3. Trial' = {} /\ Roots' = Roots BY <1>1 DEF Trial, Roots, gcVars
  <1> QED BY <1>1, <1>2, <1>3 DEF gcVars

\* Where y keeps what it contains, for a variable y of the script.
LEMMA HolderIs ==
  ASSUME GcInv, stack = <<>>, NEW y \in Zval, ext[y] > 0
  PROVE  /\ y \in Alive /\ Holder(y) \in Node /\ type[Holder(y)] \in {"array", "store"}
         /\ content[Holder(y)] \subseteq Zval /\ content[Holder(y)] \subseteq Alive
         /\ type[y] = "object" => /\ Holder(y) \in Obj /\ content[y] = {Holder(y)}
                                  /\ Holder(y) \in Alive
  <1>1. Plain /\ Types /\ \A m \in Node : content[m] \subseteq Alive BY Idle
  <1>2. y \in Alive /\ y \in Node BY <1>1 DEF Plain, Alive, Node
  <1>3. type[y] \in {"array", "object"}
    BY <1>1, <1>2 DEF Plain, Types, Type, Alive
  <1>4. CASE type[y] = "array" BY <1>1, <1>2, <1>4 DEF Holder, Types
  <1>5. CASE type[y] = "object"
    <2>1. Holder(y) \in Obj /\ content[y] = {Holder(y)} /\ Holder(y) \in Node
      BY <1>1, <1>5, Handle
    <2>2. Holder(y) \in Alive BY <1>1, <1>2, <2>1
    <2>3. type[Holder(y)] = "store" BY <1>1, <2>1, <2>2 DEF Types, Alive
    <2> QED BY <1>1, <1>2, <2>1, <2>2, <2>3 DEF Types
  <1> QED BY <1>3, <1>4, <1>5

\* A zval is allocated, and its object unless there is one.
LEMMA AllocStep ==
  ASSUME GcInv, stack = <<>>, UNCHANGED forgotten, NEW z \in Zval, NEW t, NEW c,
         \/ t = "array" /\ c = {}
         \/ t = "object" /\ \E o \in Obj : c = {o},
         Alloc(z, t, c)
  PROVE  GcInv'
  <1>0. /\ Plain /\ Types /\ RootTypes /\ Trial = {}
        /\ (\A m \in Node : content[m] \subseteq Alive)
        /\ (\A s \in Roots : color[slots[s]] = "purple" => addr[slots[s]] # 0)
        /\ \A n \in Alive : /\ n \in Node /\ rc[n] = Ext(n) + Cardinality(Preds(n))
                            /\ rc[n] \in Int /\ Ext(n) \in Nat
                            /\ Cardinality(Preds(n)) \in Nat
    BY Idle
  <1>1. /\ type[z] = "free" /\ content' = [content EXCEPT ![z] = c]
        /\ ext' = [ext EXCEPT ![z] = 1] /\ slots' = slots /\ stack' = <<>>
        /\ type' = [n \in Node |-> IF n = z THEN t ELSE IF n \in c THEN "store" ELSE type[n]]
        /\ color' = [n \in Node |-> IF n = z \/ (n \in c /\ type[n] = "free") THEN "black"
                                    ELSE color[n]]
        /\ addr' = [n \in Node |-> IF n = z \/ (n \in c /\ type[n] = "free") THEN 0
                                   ELSE addr[n]]
        /\ rc' = [n \in Node |-> IF n = z \/ (n \in c /\ type[n] = "free") THEN 1
                                 ELSE IF n \in c THEN rc[n] + 1 ELSE rc[n]]
    BY DEF Alloc
  <1>2. z \in Node /\ z \notin Obj /\ z \notin Alive /\ c \subseteq Obj /\ c \subseteq Node
        /\ z \notin c
    BY <1>1, GcAssumption DEF Node, Alive
  <1>3. /\ content[z] = {} /\ ext[z] = 0 /\ ext \in [Zval -> 0 .. MaxRefs]
        /\ content \in [Node -> SUBSET Node] /\ rc \in [Node -> Int]
    BY <1>0, <1>1, <1>2, GcAssumption DEF Plain, Types
  <1>4. \A m \in Node : content'[m] = IF m = z THEN c ELSE content[m] BY <1>1, <1>3
  <1>5. \A y \in Zval : ext'[y] = IF y = z THEN 1 ELSE ext[y] BY <1>1, <1>3
  <1>6. Alive' = Alive \cup {z} \cup c
    <2>1. \A n \in Node : type'[n] # "free" <=> n = z \/ n \in c \/ type[n] # "free"
      BY <1>1
    <2> QED BY <1>2, <2>1 DEF Alive
  <1>7. Types'
    <2>1. type' \in [Node -> Type] BY <1>0, <1>1 DEF Types, Type
    <2>2. content' \in [Node -> SUBSET Node] BY <1>1, <1>2, <1>3
    <2>3. rc' \in [Node -> Int] BY <1>1, <1>3
    <2>4. ext' \in [Zval -> 0 .. MaxRefs]
      <3>1. 1 \in 0 .. MaxRefs BY GcAssumption
      <3> QED BY <1>1, <1>3, <3>1
    <2>5. \A y \in Zval : type'[y] # "store"
      BY <1>0, <1>1, <1>2, GcAssumption DEF Types, Node
    <2>6. \A o \in Obj : type'[o] \in {"free", "store"}
      BY <1>0, <1>1, <1>2 DEF Types, Node
    <2>7. \A m \in Node : type'[m] \in {"free", "null"} => content'[m] = {}
      BY <1>0, <1>1, <1>2, <1>4 DEF Types
    <2>8. ASSUME NEW m \in Node, type'[m] \in {"array", "store"}
          PROVE  content'[m] \subseteq Zval
      <3>1. CASE m = z BY <1>1, <1>4, <2>8, <3>1
      <3>2. CASE m \in c
        <4>1. type[m] \in {"free", "store"} BY <1>0, <1>2, <3>2 DEF Types
        <4> QED BY <1>0, <1>2, <1>4, <3>2, <4>1 DEF Types
      <3>3. CASE m # z /\ m \notin c BY <1>0, <1>1, <1>4, <2>8, <3>3 DEF Types
      <3> QED BY <3>1, <3>2, <3>3
    <2>9. ASSUME NEW y \in Zval, type'[y] = "object"
          PROVE  \E o \in Obj : content'[y] = {o}
      <3>1. y \in Node /\ y \notin c BY <1>2, GcAssumption DEF Node
      <3>2. CASE y = z BY <1>1, <1>4, <2>9, <3>1, <3>2
      <3>3. CASE y # z
        <4>1. type[y] = "object" /\ content'[y] = content[y] BY <1>1, <1>4, <2>9, <3>1, <3>3
        <4> QED BY <1>0, <4>1 DEF Types
      <3> QED BY <3>2, <3>3
    <2> QED BY <2>1, <2>2, <2>3, <2>4, <2>5, <2>6, <2>7, <2>8, <2>9 DEF Types
  <1>8. Plain'
    <2>1. ASSUME NEW y \in Zval PROVE type'[y] # "null"
      BY <1>0, <1>1, <1>2 DEF Plain, Node
    <2>2. \A m \in Node : content'[m] \subseteq Alive' BY <1>0, <1>4, <1>6
    <2>3. ASSUME NEW o \in Obj, type'[o] = "store" PROVE \E m \in Node : o \in content'[m]
      <3>1. CASE o \in c BY <1>2, <1>4, <3>1
      <3>2. CASE o \notin c
        <4>1. o \in Node /\ o # z BY <1>2 DEF Node
        <4>2. type[o] = "store" BY <1>1, <2>3, <3>2, <4>1
        <4>3. PICK m \in Node : o \in content[m] BY <1>0, <4>2 DEF Plain
        <4> QED BY <1>3, <1>4, <4>3
      <3> QED BY <3>1, <3>2
    <2>4. \A y \in Zval : ext'[y] > 0 => y \in Alive' BY <1>0, <1>5, <1>6 DEF Plain
    <2> QED BY <1>7, <2>1, <2>2, <2>3, <2>4 DEF Plain
  <1>9. RootTypes'
    <2>1. /\ addr' \in [Node -> {0} \cup Slot] /\ slots' \in [Slot -> Node \cup {None}]
          /\ color' \in [Node -> {"black", "grey", "white", "purple"}]
      BY <1>0, <1>1 DEF RootTypes
    <2>2. \A m \in Node : addr'[m] # 0 => slots'[addr'[m]] = m
      BY <1>0, <1>1 DEF RootTypes
    <2> QED BY <2>1, <2>2 DEF RootTypes
  <1>10. Trial' = {} BY <1>0, <1>1 DEF Trial
  <1>11. ASSUME NEW s \in Roots', color'[slots'[s]] = "purple" PROVE addr'[slots'[s]] # 0
    <2>1. s \in Roots /\ slots'[s] = slots[s] /\ slots[s] \in Node
      BY <1>0, <1>1 DEF Roots, RootTypes
    <2>2. color[slots[s]] = "purple" /\ addr'[slots[s]] = addr[slots[s]]
      BY <1>1, <1>11, <2>1
    <2> QED BY <1>0, <2>1, <2>2
  <1>12. ASSUME NEW n \in Alive'
         PROVE  rc'[n] = Ext(n)' + Cardinality(Holders(n)') + Weight(stack', n)
    <2>0. n \in Node /\ Weight(stack', n) = 0 BY <1>1, WeightEmpty DEF Alive
    <2>1. CASE n = z
      <3>1. Holders(n)' = {} BY <1>0, <1>2, <1>4, <2>1 DEF Holders
      <3>2. Cardinality(Holders(n)') = 0 BY <3>1, FS_EmptySet
      <3>3. Ext(n)' = 1 /\ rc'[n] = 1 BY <1>1, <1>5, <2>0, <2>1 DEF Ext
      <3> QED BY <2>0, <3>2, <3>3
    <2>2. CASE n \in c
      <3>1. Holders(n)' = Holders(n) \cup {z} /\ z \notin Holders(n)
        BY <1>2, <1>3, <1>4, <2>2 DEF Holders
      <3>2. Cardinality(Holders(n)') = Cardinality(Preds(n)) + 1 BY <1>2, <3>1, HoldersMore
      <3>3. n \in Obj /\ n \notin Zval /\ n # z BY <1>2, <2>2, GcAssumption
      <3>4. Ext(n)' = 0 /\ Ext(n) = 0 BY <3>3 DEF Ext
      <3>5. CASE type[n] = "free"
        <4>1. n \notin Alive BY <3>5 DEF Alive
        <4>2. Holders(n) = {} BY <1>0, <4>1 DEF Holders
        <4>3. Preds(n) = {} BY <4>2, IdlePreds
        <4>4. Cardinality(Preds(n)) = 0 BY <4>3, FS_EmptySet
        <4>5. rc'[n] = 1 BY <1>1, <2>0, <2>2, <3>5
        <4> QED BY <2>0, <3>2, <3>4, <4>4, <4>5
      <3>6. CASE type[n] # "free"
        <4>1. n \in Alive BY <2>0, <3>6 DEF Alive
        <4>2. rc[n] = Ext(n) + Cardinality(Preds(n)) /\ Cardinality(Preds(n)) \in Nat
          BY <1>0, <4>1
        <4>3. rc'[n] = rc[n] + 1 BY <1>1, <2>0, <2>2, <3>3, <3>6
        <4> QED BY <2>0, <3>2, <3>4, <4>2, <4>3
      <3> QED BY <3>5, <3>6
    <2>3. CASE n # z /\ n \notin c
      <3>1. n \in Alive BY <1>6, <2>3
      <3>2. Holders(n)' = Holders(n) BY <1>3, <1>4, <2>3 DEF Holders
      <3>3. Cardinality(Holders(n)') = Cardinality(Preds(n)) BY <3>2, HoldersSame
      <3>4. Ext(n)' = Ext(n) BY <1>5, <2>3 DEF Ext
      <3>5. rc'[n] = rc[n] BY <1>1, <2>0, <2>3
      <3>6. rc[n] = Ext(n) + Cardinality(Preds(n)) /\ Ext(n) \in Nat
            /\ Cardinality(Preds(n)) \in Nat
        BY <1>0, <3>1
      <3> QED BY <2>0, <3>3, <3>4, <3>5, <3>6
    <2> QED BY <2>1, <2>2, <2>3
  <1> QED BY <1>1, <1>8, <1>9, <1>10, <1>11, <1>12, ScriptStep
-----------------------------------------------------------------------------
\* The script makes an array.
LEMMA NewArrayStep ==
  ASSUME GcInv, stack = <<>>, UNCHANGED forgotten, NEW z \in Zval, NewArray(z)
  PROVE  GcInv'
  BY AllocStep DEF NewArray

\* The script makes an object.
LEMMA NewObjectStep ==
  ASSUME GcInv, stack = <<>>, UNCHANGED forgotten, NEW z \in Zval, NEW o \in Obj,
         NewObject(z, o)
  PROVE  GcInv'
  BY AllocStep DEF NewObject

\* The script copies the handle of an object.
LEMMA CopyHandleStep ==
  ASSUME GcInv, stack = <<>>, UNCHANGED forgotten, NEW z \in Zval, NEW y \in Zval,
         CopyHandle(z, y)
  PROVE  GcInv'
  <1>1. ext[y] > 0 /\ type[y] = "object" /\ Alloc(z, "object", content[y])
    BY DEF CopyHandle
  <1>2. Holder(y) \in Obj /\ content[y] = {Holder(y)} BY <1>1, HolderIs
  <1>3. \E p \in Obj : content[y] = {p} BY <1>2
  <1> QED BY <1>1, <1>3, AllocStep

\* The script fetches an element into a variable.
LEMMA FetchStep ==
  ASSUME GcInv, stack = <<>>, UNCHANGED forgotten, NEW y \in Zval, NEW z \in Zval, Fetch(y, z)
  PROVE  GcInv'
  <1>0. /\ Plain /\ Types
        /\ \A n \in Alive : /\ n \in Node /\ rc[n] = Ext(n) + Cardinality(Preds(n))
                            /\ rc[n] \in Int /\ Ext(n) \in Nat
                            /\ Cardinality(Preds(n)) \in Nat
    BY Idle
  <1>1. /\ ext[y] > 0 /\ z \in {y} \cup content[Holder(y)] /\ ext[z] < MaxRefs
        /\ ext' = [ext EXCEPT ![z] = @ + 1] /\ rc' = [rc EXCEPT ![z] = @ + 1]
        /\ UNCHANGED <<type, content>> /\ UNCHANGED gcVars /\ stack' = <<>>
    BY DEF Fetch
  <1>2. z \in Alive /\ z \in Node BY <1>1, HolderIs DEF Node
  <1>3. ext \in [Zval -> 0 .. MaxRefs] /\ rc \in [Node -> Int] BY <1>0 DEF Types
  <1>4. ext[z] \in Nat /\ ext[z] + 1 \in 0 .. MaxRefs /\ rc[z] \in Int /\ rc[z] + 1 \in Int
    <2>1. ext[z] \in 0 .. MaxRefs /\ MaxRefs \in Nat BY <1>3, GcAssumption
    <2> QED BY <1>1, <1>2, <1>3, <2>1
  <1>5. /\ \A x \in Zval : ext'[x] = IF x = z THEN ext[z] + 1 ELSE ext[x]
        /\ \A x \in Node : rc'[x] = IF x = z THEN rc[z] + 1 ELSE rc[x]
    BY <1>1, <1>3
  <1>6. ext' \in [Zval -> 0 .. MaxRefs] /\ rc' \in [Node -> Int] BY <1>1, <1>3, <1>4
  <1>7. Alive' = Alive BY <1>1 DEF Alive
  <1>8. Types' BY <1>0, <1>1, <1>6 DEF Types
  <1>9. Plain'
    <2>1. \A x \in Zval : ext'[x] > 0 => x \in Alive' BY <1>0, <1>2, <1>5, <1>7 DEF Plain
    <2> QED BY <1>0, <1>1, <1>7, <1>8, <2>1 DEF Plain
  <1>10. ASSUME NEW n \in Alive'
         PROVE  rc'[n] = Ext(n)' + Cardinality(Holders(n)') + Weight(stack', n)
    <2>1. n \in Alive /\ n \in Node /\ rc[n] = Ext(n) + Cardinality(Preds(n))
          /\ Ext(n) \in Nat /\ Cardinality(Preds(n)) \in Nat
      BY <1>0, <1>7
    <2>2. Weight(stack', n) = 0 BY <1>1, WeightEmpty
    <2>3. Holders(n)' = Holders(n) BY <1>1 DEF Holders
    <2>4. Cardinality(Holders(n)') = Cardinality(Preds(n)) BY <2>3, HoldersSame
    <2>5. CASE n = z
      <3>1. Ext(n)' = Ext(n) + 1 BY <1>5, <2>5 DEF Ext
      <3>2. rc'[n] = rc[n] + 1 BY <1>2, <1>5, <2>5
      <3> QED BY <2>1, <2>2, <2>4, <3>1, <3>2
    <2>6. CASE n # z
      <3>1. Ext(n)' = Ext(n) BY <1>5, <2>6 DEF Ext
      <3>2. rc'[n] = rc[n] BY <1>5, <2>1, <2>6
      <3> QED BY <2>1, <2>2, <2>4, <3>1, <3>2
    <2> QED BY <2>5, <2>6
  <1> QED BY <1>1, <1>9, <1>10, RootsStay, ScriptStep

\* The script stores a zval in an array or a property.
LEMMA AssignStep ==
  ASSUME GcInv, stack = <<>>, UNCHANGED forgotten, NEW y \in Zval, NEW z \in Zval, Assign(y, z)
  PROVE  GcInv'
  <1>0. /\ Plain /\ Types /\ (\A m \in Node : content[m] \subseteq Alive)
        /\ \A n \in Alive : /\ n \in Node /\ rc[n] = Ext(n) + Cardinality(Preds(n))
                            /\ rc[n] \in Int /\ Ext(n) \in Nat
                            /\ Cardinality(Preds(n)) \in Nat
    BY Idle
  <1>1. PICK h : h = Holder(y) OBVIOUS
  <1>2. /\ ext[y] > 0 /\ ext[z] > 0 /\ z \notin content[h]
        /\ content' = [content EXCEPT ![h] = @ \cup {z}]
        /\ rc' = [rc EXCEPT ![z] = @ + 1]
        /\ type' = type /\ ext' = ext /\ UNCHANGED gcVars /\ stack' = <<>>
    BY <1>1 DEF Assign
  <1>3. h \in Node /\ type[h] \in {"array", "store"} BY <1>1, <1>2, HolderIs
  <1>4. z \in Alive /\ z \in Node BY <1>0, <1>2 DEF Plain, Node
  <1>5. content \in [Node -> SUBSET Node] /\ rc \in [Node -> Int] BY <1>0 DEF Types
  <1>6. /\ \A m \in Node : content'[m] = IF m = h THEN content[h] \cup {z} ELSE content[m]
        /\ \A m \in Node : rc'[m] = IF m = z THEN rc[z] + 1 ELSE rc[m]
    BY <1>2, <1>3, <1>5
  <1>7. content' \in [Node -> SUBSET Node] /\ rc' \in [Node -> Int]
    <2>1. content[h] \cup {z} \in SUBSET Node /\ rc[z] + 1 \in Int BY <1>3, <1>4, <1>5
    <2> QED BY <1>2, <1>5, <2>1
  <1>8. Alive' = Alive BY <1>2 DEF Alive
  <1>9. Types'
    <2>1. \A m \in Node : type'[m] \in {"free", "null"} => content'[m] = {}
      BY <1>0, <1>2, <1>3, <1>6 DEF Types
    <2>2. \A m \in Node : type'[m] \in {"array", "store"} => content'[m] \subseteq Zval
      BY <1>0, <1>2, <1>3, <1>6 DEF Types
    <2>3. ASSUME NEW x \in Zval, type'[x] = "object" PROVE \E o \in Obj : content'[x] = {o}
      <3>1. x # h /\ x \in Node /\ type[x] = "object" BY <1>2, <1>3, <2>3 DEF Node
      <3>2. content'[x] = content[x] BY <1>6, <3>1
      <3> QED BY <1>0, <3>1, <3>2 DEF Types
    <2> QED BY <1>0, <1>2, <1>7, <2>1, <2>2, <2>3 DEF Types
  <1>10. Plain'
    <2>1. \A m \in Node : content'[m] \subseteq Alive' BY <1>0, <1>4, <1>6, <1>8
    <2>2. \A o \in Obj : type'[o] = "store" => \E m \in Node : o \in content'[m]
      BY <1>0, <1>2, <1>6 DEF Plain
    <2> QED BY <1>0, <1>2, <1>8, <1>9, <2>1, <2>2 DEF Plain
  <1>11. ASSUME NEW n \in Alive'
         PROVE  rc'[n] = Ext(n)' + Cardinality(Holders(n)') + Weight(stack', n)
    <2>1. n \in Alive /\ n \in Node /\ rc[n] = Ext(n) + Cardinality(Preds(n))
          /\ Ext(n) \in Nat /\ Cardinality(Preds(n)) \in Nat
      BY <1>0, <1>8
    <2>2. Weight(stack', n) = 0 BY <1>2, WeightEmpty
    <2>3. Ext(n)' = Ext(n) BY <1>2 DEF Ext
    <2>4. CASE n = z
      <3>1. Holders(n)' = Holders(n) \cup {h} /\ h \notin Holders(n)
        BY <1>2, <1>3, <1>6, <2>4 DEF Holders
      <3>2. Cardinality(Holders(n)') = Cardinality(Preds(n)) + 1 BY <1>3, <3>1, HoldersMore
      <3>3. rc'[n] = rc[n] + 1 BY <1>4, <1>6, <2>4
      <3> QED BY <2>1, <2>2, <2>3, <3>2, <3>3
    <2>5. CASE n # z
      <3>1. Holders(n)' = Holders(n) BY <1>6, <2>5 DEF Holders
      <3>2. Cardinality(Holders(n)') = Cardinality(Preds(n)) BY <3>1, HoldersSame
      <3>3. rc'[n] = rc[n] BY <1>6, <2>1, <2>5
      <3> QED BY <2>1, <2>2, <2>3, <3>2, <3>3
    <2> QED BY <2>4, <2>5
  <1> QED BY <1>2, <1>10, <1>11, RootsStay, ScriptStep

\* The script lets go of z: the destructor is called.
LEMMA DtorCall ==
  ASSUME NEW z \in Zval, z \in Alive', stack' = <<Call("dtor", z, z, {}, {})>>
  PROVE  /\ \E d : Called(d)
         /\ \A n : Weight(stack', n) = IF n = z THEN 1 ELSE 0
  <1>1. PICK d : d = Call("dtor", z, z, {}, {}) OBVIOUS
  <1>2. d \in Frame /\ d.op = "dtor" /\ d.z = z /\ d.n = z
    BY <1>1 DEF Call, Frame, Op, Node
  <1>3. Called(d) BY <1>1, <1>2 DEF Called
  <1>4. \A n : Weight(stack', n) = W(d, n) BY <1>3, NextSets
  <1>5. Refs(d) = {z} /\ Keeps(d) = {} BY <1>2 DEF Refs, Keeps
  <1>6. \A n : W(d, n) = IF n = z THEN 1 ELSE 0 BY <1>5 DEF W
  <1> QED BY <1>3, <1>4, <1>6

\* The script removes an element: its reference passes to zval_ptr_dtor.
LEMMA UnsetStep ==
  ASSUME GcInv, stack = <<>>, UNCHANGED forgotten, NEW y \in Zval, NEW z \in Zval, Unset(y, z)
  PROVE  GcInv'
  <1>0. /\ Plain /\ Types /\ (\A m \in Node : content[m] \subseteq Alive)
        /\ \A n \in Alive : /\ n \in Node /\ rc[n] = Ext(n) + Cardinality(Preds(n))
                            /\ rc[n] \in Int /\ Ext(n) \in Nat
                            /\ Cardinality(Preds(n)) \in Nat
    BY Idle
  <1>1. PICK h : h = Holder(y) OBVIOUS
  <1>2. /\ ext[y] > 0 /\ z \in content[h]
        /\ content' = [content EXCEPT ![h] = @ \ {z}]
        /\ stack' = <<Call("dtor", z, z, {}, {})>>
        /\ type' = type /\ rc' = rc /\ ext' = ext /\ UNCHANGED gcVars
    BY <1>1 DEF Unset
  <1>3. h \in Node /\ type[h] \in {"array", "store"} BY <1>1, <1>2, HolderIs
  <1>4. z \in Alive /\ z \in Node /\ z \notin Obj BY <1>0, <1>2, <1>3, GcAssumption
  <1>5. content \in [Node -> SUBSET Node] BY <1>0 DEF Types
  <1>6. \A m \in Node : content'[m] = IF m = h THEN content[h] \ {z} ELSE content[m]
    BY <1>2, <1>3, <1>5
  <1>7. content' \in [Node -> SUBSET Node]
    <2>1. content[h] \ {z} \in SUBSET Node BY <1>3, <1>5
    <2> QED BY <1>2, <1>5, <2>1
  <1>8. Alive' = Alive BY <1>2 DEF Alive
  <1>9. Types'
    <2>1. \A m \in Node : type'[m] \in {"free", "null"} => content'[m] = {}
      BY <1>0, <1>2, <1>3, <1>6 DEF Types
    <2>2. \A m \in Node : type'[m] \in {"array", "store"} => content'[m] \subseteq Zval
      BY <1>0, <1>2, <1>3, <1>6 DEF Types
    <2>3. ASSUME NEW x \in Zval, type'[x] = "object" PROVE \E o \in Obj : content'[x] = {o}
      <3>1. x # h /\ x \in Node /\ type[x] = "object" BY <1>2, <1>3, <2>3 DEF Node
      <3>2. content'[x] = content[x] BY <1>6, <3>1
      <3> QED BY <1>0, <3>1, <3>2 DEF Types
    <2> QED BY <1>0, <1>2, <1>7, <2>1, <2>2, <2>3 DEF Types
  <1>10. Plain'
    <2>1. \A m \in Node : content'[m] \subseteq Alive' BY <1>0, <1>6, <1>8
    <2>2. ASSUME NEW o \in Obj, type'[o] = "store" PROVE \E m \in Node : o \in content'[m]
      <3>1. PICK m \in Node : o \in content[m] BY <1>0, <1>2, <2>2 DEF Plain
      <3> QED BY <1>4, <1>6, <3>1
    <2> QED BY <1>0, <1>2, <1>8, <1>9, <2>1, <2>2 DEF Plain
  <1>11. /\ \E d : Called(d)
         /\ \A n : Weight(stack', n) = IF n = z THEN 1 ELSE 0
    BY <1>2, <1>4, <1>8, DtorCall
  <1>12. ASSUME NEW n \in Alive'
         PROVE  rc'[n] = Ext(n)' + Cardinality(Holders(n)') + Weight(stack', n)
    <2>1. n \in Alive /\ n \in Node /\ rc[n] = Ext(n) + Cardinality(Preds(n))
          /\ Ext(n) \in Nat /\ Cardinality(Preds(n)) \in Nat
      BY <1>0, <1>8
    <2>2. Weight(stack', n) = IF n = z THEN 1 ELSE 0 BY <1>11
    <2>3. Ext(n)' = Ext(n) /\ rc'[n] = rc[n] BY <1>2 DEF Ext
    <2>4. CASE n = z
      <3>1. Holders(n)' = Holders(n) \ {h} /\ h \in Holders(n)
        BY <1>2, <1>3, <1>6, <2>4 DEF Holders
      <3>2. Cardinality(Holders(n)') = Cardinality(Preds(n)) - 1 BY <3>1, HoldersLess
      <3> QED BY <2>1, <2>2, <2>3, <2>4, <3>2
    <2>5. CASE n # z
      <3>1. Holders(n)' = Holders(n) BY <1>6, <2>5 DEF Holders
      <3>2. Cardinality(Holders(n)') = Cardinality(Preds(n)) BY <3>1, HoldersSame
      <3> QED BY <2>1, <2>2, <2>3, <2>5, <3>2
    <2> QED BY <2>4, <2>5
  <1> QED BY <1>2, <1>10, <1>11, <1>12, RootsStay, ScriptStep

\* A variable goes: its reference passes to zval_ptr_dtor.
LEMMA LeaveStep ==
  ASSUME GcInv, stack = <<>>, UNCHANGED forgotten, NEW z \in Zval, Leave(z)
  PROVE  GcInv'
  <1>0. /\ Plain /\ Types
        /\ \A n \in Alive : /\ n \in Node /\ rc[n] = Ext(n) + Cardinality(Preds(n))
                            /\ rc[n] \in Int /\ Ext(n) \in Nat
                            /\ Cardinality(Preds(n)) \in Nat
    BY Idle
  <1>1. /\ ext[z] > 0 /\ ext' = [ext EXCEPT ![z] = @ - 1]
        /\ stack' = <<Call("dtor", z, z, {}, {})>>
        /\ UNCHANGED <<type, content, rc>> /\ UNCHANGED gcVars
    BY DEF Leave, heapVars
  <1>2. z \in Alive /\ z \in Node BY <1>0, <1>1 DEF Plain, Node
  <1>3. ext \in [Zval -> 0 .. MaxRefs] BY <1>0 DEF Types
  <1>4. \A x \in Zval : ext'[x] = IF x = z THEN ext[z] - 1 ELSE ext[x] BY <1>1, <1>3
  <1>5. ext' \in [Zval -> 0 .. MaxRefs] /\ ext[z] \in Nat
    <2>1. ext[z] \in 0 .. MaxRefs /\ MaxRefs \in Nat BY <1>3, GcAssumption
    <2>2. ext[z] - 1 \in 0 .. MaxRefs BY <1>1, <2>1
    <2> QED BY <1>1, <1>3, <2>1, <2>2
  <1>6. Alive' = Alive BY <1>1 DEF Alive
  <1>7. Types' BY <1>0, <1>1, <1>5 DEF Types
  <1>8. Plain'
    <2>1. \A x \in Zval : ext'[x] > 0 => x \in Alive' BY <1>0, <1>2, <1>4, <1>6 DEF Plain
    <2> QED BY <1>0, <1>1, <1>6, <1>7, <2>1 DEF Plain
  <1>9. /\ \E d : Called(d)
        /\ \A n : Weight(stack', n) = IF n = z THEN 1 ELSE 0
    BY <1>1, <1>2, <1>6, DtorCall
  <1>10. ASSUME NEW n \in Alive'
         PROVE  rc'[n] = Ext(n)' + Cardinality(Holders(n)') + Weight(stack', n)
    <2>1. n \in Alive /\ n \in Node /\ rc[n] = Ext(n) + Cardinality(Preds(n))
          /\ Ext(n) \in Nat /\ Cardinality(Preds(n)) \in Nat
      BY <1>0, <1>6
    <2>2. Weight(stack', n) = IF n = z THEN 1 ELSE 0 BY <1>9
    <2>3. Holders(n)' = Holders(n) /\ rc'[n] = rc[n] BY <1>1 DEF Holders
    <2>4. Cardinality(Holders(n)') = Cardinality(Preds(n)) BY <2>3, HoldersSame
    <2>5. CASE n = z
      <3>1. Ext(n)' = Ext(n) - 1 BY <1>4, <2>5 DEF Ext
      <3> QED BY <2>1, <2>2, <2>3, <2>4, <2>5, <3>1
    <2>6. CASE n # z
      <3>1. Ext(n)' = Ext(n) BY <1>4, <2>6 DEF Ext
      <3> QED BY <2>1, <2>2, <2>3, <2>4, <2>6, <3>1
    <2> QED BY <2>5, <2>6
  <1> QED BY <1>1, <1>8, <1>9, <1>10, RootsStay, ScriptStep

\* The script calls gc_collect_cycles.
LEMMA CollectCallStep ==
  ASSUME GcInv, stack = <<>>, UNCHANGED forgotten, Collect
  PROVE  GcInv'
  <1>0. /\ Plain /\ Types
        /\ \A n \in Alive : /\ n \in Node /\ rc[n] = Ext(n) + Cardinality(Preds(n))
                            /\ Ext(n) \in Nat /\ Cardinality(Preds(n)) \in Nat
    BY Idle
  <1>1. /\ stack' = <<gc_collect_cycles>> /\ UNCHANGED <<type, content, rc, ext>>
        /\ UNCHANGED gcVars
    BY DEF Collect, heapVars
  <1>2. Plain' BY <1>0, <1>1 DEF Plain, Types, Alive
  <1>3. PICK d : d = gc_collect_cycles OBVIOUS
  <1>4. Roots' = Roots BY <1>1 DEF Roots, gcVars
  <1>5. d \in Frame /\ d.op = "mark" /\ d.rest = {} /\ d.list = Roots
    <2>1. Roots \subseteq Slot BY DEF Roots
    <2> QED BY <1>3, <2>1 DEF gc_collect_cycles, Gc, Call, Frame, Op
  <1>6. Called(d) BY <1>1, <1>3, <1>4, <1>5 DEF Called
  <1>7. ASSUME NEW n \in Alive'
        PROVE  rc'[n] = Ext(n)' + Cardinality(Holders(n)') + Weight(stack', n)
    <2>1. n \in Alive /\ rc[n] = Ext(n) + Cardinality(Preds(n))
          /\ Ext(n) \in Nat /\ Cardinality(Preds(n)) \in Nat
      BY <1>0, <1>1 DEF Alive
    <2>2. W(d, n) = 0 BY <1>5 DEF W, Refs, Keeps
    <2>3. Weight(stack', n) = 0 BY <1>6, <2>2, NextSets
    <2>4. Holders(n)' = Holders(n) /\ rc'[n] = rc[n] /\ Ext(n)' = Ext(n)
      BY <1>1 DEF Holders, Ext
    <2>5. Cardinality(Holders(n)') = Cardinality(Preds(n)) BY <2>4, HoldersSame
    <2> QED BY <2>1, <2>3, <2>4, <2>5
  <1> QED BY <1>1, <1>2, <1>6, <1>7, RootsStay, ScriptStep
-----------------------------------------------------------------------------
\* The invariant holds before anything is allocated.
LEMMA InitInv ==
  ASSUME Init
  PROVE  GcInv
  <1>1. /\ type = [n \in Node |-> "free"] /\ content = [n \in Node |-> {}]
        /\ rc = [n \in Node |-> 0] /\ color = [n \in Node |-> "black"]
        /\ addr = [n \in Node |-> 0] /\ slots = [s \in Slot |-> None]
        /\ ext = [z \in Zval |-> 0] /\ stack = <<>> /\ forgotten = {}
    BY DEF Init
  <1>2. /\ SetOf(stack) = {} /\ OwnedBy(SetOf(stack)) = {} /\ MovedBy(SetOf(stack)) = {}
        /\ StaleBy(SetOf(stack)) = {} /\ ListedBy(SetOf(stack)) = {}
    BY <1>1, EmptySets
  <1>3. Calls = {} /\ Owned = {} /\ Moved = {} /\ Stale = {} /\ InLists = {}
    BY <1>2, CallsSet DEF Owned, Moved, Stale, InLists
  <1>4. Alive = {} /\ \A z \in Zval : z \in Node BY <1>1 DEF Alive, Node
  <1>5. Doomed = {} BY <1>1 DEF Doomed, Node
  <1>6. Types
    <2>1. 0 \in 0 .. MaxRefs BY GcAssumption
    <2>2. \A n \in Node : type[n] = "free" /\ content[n] = {} BY <1>1
    <2>3. /\ type \in [Node -> Type] /\ content \in [Node -> SUBSET Node]
          /\ rc \in [Node -> Int] /\ ext \in [Zval -> 0 .. MaxRefs]
      BY <1>1, <2>1 DEF Type
    <2> QED BY <2>2, <2>3 DEF Types, Node
  <1>7. RootTypes BY <1>1 DEF RootTypes
  <1>8. StackInv
    <2>1. stack \in Seq(Frame) /\ DOMAIN stack = {} BY <1>1
    <2> QED BY <1>1, <2>1 DEF StackInv, Shape, PairsOf
  <1>9. Frames BY <1>3 DEF Frames
  <1>10. DoomInv BY <1>1, <1>5 DEF DoomInv, Ordered
  <1>11. Closed
    <2>1. \A z \in Zval : type[z] = "free" /\ ext[z] = 0 BY <1>1, <1>4
    <2>2. \A m \in Node : content[m] = {} BY <1>1
    <2> QED BY <1>3, <1>5, <2>1, <2>2 DEF Closed, Dying
  <1>12. Base BY <1>1, <1>6, <1>7, <1>8, <1>9, <1>10, <1>11 DEF Base
  <1>13. Exact BY <1>4 DEF Exact
  <1>14. Quiet
    <2>1. \A n \in Node : color[n] = "black" BY <1>1
    <2>2. Roots = {} BY <1>1 DEF Roots
    <2> QED BY <2>1, <2>2 DEF Quiet, Trial
  <1> QED BY <1>1, <1>12, <1>13, <1>14 DEF GcInv, Phase

\* The invariant depends on the variables alone.
LEMMA Stutter ==
  ASSUME GcInv, UNCHANGED vars
  PROVE  GcInv'
  <1>1. /\ type' = type /\ content' = content /\ rc' = rc /\ color' = color /\ addr' = addr
        /\ slots' = slots /\ ext' = ext /\ stack' = stack /\ forgotten' = forgotten
    BY DEF vars, heapVars, gcVars
  <1>2. Base /\ Exact /\ Phase BY DEF GcInv
  <1>3. /\ Calls' = Calls /\ Top' = Top /\ Return' = Return BY <1>1 DEF Calls, Top, Return
  <1>4. /\ Owned' = Owned /\ Moved' = Moved /\ Stale' = Stale /\ InLists' = InLists
        /\ Gathered' = Gathered
    BY <1>3 DEF Owned, Moved, Stale, InLists, Gathered
  <1>5. Alive' = Alive BY <1>1 DEF Alive
  <1>6. Doomed' = Doomed BY <1>1, <1>4 DEF Doomed
  <1>7. Dying' = Dying BY <1>4, <1>6 DEF Dying
  <1>8. RefOK' = RefOK BY <1>1, <1>4, <1>7 DEF RefOK
  <1>9. Spent' = Spent BY <1>1, <1>4 DEF Spent
  <1>10. Trial' = Trial BY <1>1 DEF Trial
  <1>11. Roots' = Roots BY <1>1 DEF Roots
  <1>12. Base'
    <2>1. Types' BY <1>1, <1>2 DEF Base, Types
    <2>2. RootTypes' BY <1>1, <1>2 DEF Base, RootTypes
    <2>3. StackInv' BY <1>1, <1>2 DEF Base, StackInv
    <2>4. Frames'
      <3>1. ASSUME NEW c \in Calls PROVE FrameOK(c)'
        <4>1. FrameOK(c) BY <1>2 DEF Base, Frames
        <4> QED BY <1>1, <1>4, <1>5, <1>6, <1>7, <1>8, <4>1 DEF FrameOK, ListHeld
      <3> QED BY <1>3, <3>1 DEF Frames
    <2>5. DoomInv' BY <1>1, <1>2, <1>3, <1>6 DEF Base, DoomInv
    <2>6. Closed' BY <1>1, <1>2, <1>4, <1>5, <1>6, <1>7, <1>8 DEF Base, Closed
    <2> QED BY <1>1, <1>2, <2>1, <2>2, <2>3, <2>4, <2>5, <2>6 DEF Base
  <1>13. Exact'
    <2>1. \A n : Preds(n)' = Preds(n) BY <1>1, <1>9, <1>10 DEF Preds
    <2>2. \A n : Ext(n)' = Ext(n) BY <1>1 DEF Ext
    <2> QED BY <1>1, <1>2, <1>5, <2>1, <2>2 DEF Exact
  <1>14. Phase'
    <2>1. \A c : Painted(c)' = Painted(c) BY <1>1 DEF Painted
    <2>2. \A S : InSlots(S)' = InSlots(S) BY <1>1 DEF InSlots
    <2>3. \A S : Sound(S)' <=> Sound(S) BY <1>1, <1>5, <1>7 DEF Sound
    <2>4. \A A, B, D : Reaches(A, B, D)' <=> Reaches(A, B, D) BY <1>1 DEF Reaches
    <2>5. Quiet' <=> Quiet BY <1>1, <1>7, <1>10, <1>11 DEF Quiet
    <2>6. MarkInv(Top)' <=> MarkInv(Top)
      BY <1>1, <1>3, <1>7, <1>11, <2>1, <2>2, <2>3, <2>4 DEF MarkInv
    <2>7. \A c, r : ScanInv(c, r)' <=> ScanInv(c, r)
      BY <1>1, <1>7, <1>10, <1>11, <2>1, <2>2, <2>3, <2>4 DEF ScanInv, Covers
    <2>8. CollectInv(Top)' <=> CollectInv(Top)
      <3>1. Garbage(Top)' = Garbage(Top) BY <1>3, <2>1 DEF Garbage
      <3> QED BY <1>1, <1>3, <1>4, <1>5, <1>7, <1>11, <2>1, <2>2, <2>3, <2>4, <3>1
              DEF CollectInv, Covers
    <2> QED BY <1>1, <1>2, <1>3, <2>5, <2>6, <2>7, <2>8 DEF Phase
  <1> QED BY <1>12, <1>13, <1>14 DEF GcInv

\* Every step of a release keeps the invariant.
LEMMA ReleaseStep ==
  ASSUME Working, Release
  PROVE  GcInv'
  BY DtorStep, TableStep, ElementsDoneStep, PropertiesDoneStep, EfreeStep DEF Release

\* Every step of gc_zval_possible_root keeps the invariant.
LEMMA PossibleRootStep ==
  ASSUME Working, PossibleRoot
  PROVE  GcInv'
  BY RedirectStep, CollectedStep, KnownStep, BufferStep, FullStep DEF PossibleRoot

\* Every step of gc_collect_cycles keeps the invariant.
LEMMA CollectingStep ==
  ASSUME Working, Collecting
  PROVE  GcInv'
  <1>1. CASE \E s \in Slot : MarkRoot(s) \/ ScanRoot(s) \/ CollectRoot(s)
    BY <1>1, MarkRootStep, ScanRootStep, CollectRootStep
  <1>2. CASE \E n \in Node : MarkGrey(n) \/ Scan(n) \/ ScanBlack(n) \/ CollectWhite(n)
    BY <1>2, MarkGreyStep, ScanStep, ScanBlackStep, CollectStep
  <1>3. CASE MarkDone \/ BlackDone \/ ScanDone \/ CollectDone
    BY <1>3, MarkDoneStep, BlackDoneStep, ScanDoneStep, CollectDoneStep
  <1>4. CASE (\E z \in Zval : Destroy(z)) \/ DestroyDone
    BY <1>4, DestroyStep, DestroyDoneStep
  <1> QED BY <1>1, <1>2, <1>3, <1>4 DEF Collecting

\* Every step of the engine keeps the invariant.
LEMMA EngineStep ==
  ASSUME GcInv, RootsLive, Engine
  PROVE  GcInv'
  <1>1. forgotten' \subseteq Node BY DEF Engine, Forgetting
  <1>2. Working BY <1>1 DEF Engine, Working
  <1>3. Release \/ PossibleRoot \/ Collecting BY DEF Engine
  <1> QED BY <1>2, <1>3, ReleaseStep, PossibleRootStep, CollectingStep

\* Every statement of the script keeps the invariant.
LEMMA ScriptStatement ==
  ASSUME GcInv, Script, UNCHANGED forgotten
  PROVE  GcInv'
  <1>1. CASE \E z \in Zval : NewArray(z) \/ Leave(z)
    <2>1. PICK z \in Zval : NewArray(z) \/ Leave(z) BY <1>1
    <2>2. stack = <<>> BY <2>1 DEF NewArray, Leave, Running
    <2> QED BY <2>1, <2>2, NewArrayStep, LeaveStep
  <1>2. CASE \E z \in Zval, o \in Obj : NewObject(z, o)
    <2>1. PICK z \in Zval, o \in Obj : NewObject(z, o) BY <1>2
    <2>2. stack = <<>> BY <2>1 DEF NewObject, Running
    <2> QED BY <2>1, <2>2, NewObjectStep
  <1>3. CASE \E y, z \in Zval : CopyHandle(z, y) \/ Fetch(y, z) \/ Assign(y, z) \/ Unset(y, z)
    <2>1. PICK y \in Zval, z \in Zval :
            CopyHandle(z, y) \/ Fetch(y, z) \/ Assign(y, z) \/ Unset(y, z)
      BY <1>3
    <2>2. stack = <<>> BY <2>1 DEF CopyHandle, Fetch, Assign, Unset, Running
    <2> QED BY <2>1, <2>2, CopyHandleStep, FetchStep, AssignStep, UnsetStep
  <1>4. CASE Collect
    <2>1. stack = <<>> BY <1>4 DEF Collect, Running
    <2> QED BY <1>4, <2>1, CollectCallStep
  <1> QED BY <1>1, <1>2, <1>3, <1>4 DEF Script

\* The invariant of reference counting (zval_ptr_dtor, the object store) and of the
\* cycle collector (gc_collect_cycles), whatever the script does and however calls nest.
THEOREM Invariance == Spec => []GcInv
  <1>1. Init => GcInv BY InitInv
  <1>2. GcInv /\ [Next]_vars => GcInv'
    <2>1. ASSUME GcInv, Next PROVE GcInv'
      BY <2>1, EngineStep, ScriptStatement DEF Next
    <2> QED BY <2>1, Stutter
  <1> QED BY <1>1, <1>2, PTL DEF Spec
-----------------------------------------------------------------------------
\* The sets behind From: what is reached in so many steps.
Stages(F, S) ==
    /\ F[0] = S /\ \A k \in 0 .. Cardinality(Node) : F[k] \in SUBSET Node
    /\ \A k \in Nat : k + 1 \in 0 .. Cardinality(Node)
          => F[k + 1] = F[k] \cup UNION {content[n] : n \in F[k]}

\* From is the last of the sets its definition builds.
LEMMA FromStages ==
  ASSUME NEW S \in SUBSET Node, content \in [Node -> SUBSET Node]
  PROVE  \E F : Stages(F, S) /\ From(S) = F[Cardinality(Node)]
  <1> DEFINE m == Cardinality(Node)
             step(r) == r \cup UNION {content[n] : n \in r}
             G == [k \in Nat |-> [r \in SUBSET Node |-> step(r)]]
             body(g, k) == IF k = 0 THEN S ELSE g[k - 1] \cup UNION {content[n] : n \in g[k - 1]}
             R(g) == g = [k \in 0 .. m |-> body(g, k)]
  <1>1. m \in Nat BY NodeFinite, FS_CardinalityType
  <1>2. ASSUME NEW r \in SUBSET Node PROVE step(r) \in SUBSET Node OBVIOUS
  <1>3. G \in [Nat -> [SUBSET Node -> SUBSET Node]]
    <2> HIDE DEF step
    <2> QED BY <1>2
  <1>4. PICK h : Unfolds(h, SUBSET Node, S, G, m)
    <2> HIDE DEF G, m
    <2> QED BY <1>1, <1>3, Recursion
  <1>5. h \in [0 .. m -> SUBSET Node] /\ h[0] = S BY <1>4 DEF Unfolds
  <1>6. ASSUME NEW k \in 0 .. m PROVE h[k] = body(h, k)
    <2>1. CASE k = 0 BY <2>1, <1>5
    <2>2. CASE k # 0
      <3>1. k \in 1 .. m /\ k - 1 \in 0 .. m /\ k \in Nat BY <1>1, <2>2
      <3>2. h[k] = G[k][h[k - 1]] /\ h[k - 1] \in SUBSET Node
        BY <1>4, <1>5, <3>1 DEF Unfolds
      <3>3. h[k] = step(h[k - 1])
        <4> HIDE DEF step
        <4> QED BY <3>1, <3>2
      <3> QED BY <2>2, <3>3
    <2> QED BY <2>1, <2>2
  <1>7. R(h)
    <2>1. h = [k \in 0 .. m |-> h[k]] BY <1>5
    <2> HIDE DEF body, m
    <2> QED BY <2>1, <1>6
  <1> DEFINE F == CHOOSE g : R(g)
  <1>8. R(F) BY <1>7
  <1>9. From(S) = F[m] BY DEF From
  <1>10. ASSUME NEW k \in 0 .. m PROVE F[k] = body(F, k)
    <2> HIDE DEF body, F, m
    <2> QED BY <1>8
  <1> HIDE DEF F
  <1>11. F[0] = S
    <2>1. 0 \in 0 .. m BY <1>1
    <2>2. body(F, 0) = S OBVIOUS
    <2> HIDE DEF body, m
    <2> QED BY <2>1, <2>2, <1>10
  <1>12. ASSUME NEW k \in Nat, k + 1 \in 0 .. m
         PROVE  k \in 0 .. m /\ F[k + 1] = F[k] \cup UNION {content[n] : n \in F[k]}
    <2>1. k \in 0 .. m /\ (k + 1) - 1 = k /\ k + 1 # 0 BY <1>1, <1>12
    <2> QED BY <1>10, <2>1, <1>12
  <1> DEFINE P == {k \in Nat : k \in 0 .. m => F[k] \subseteq Node}
  <1>13. P = Nat
    <2>1. 0 \in P BY <1>11
    <2>2. ASSUME NEW k \in P PROVE k + 1 \in P
      <3> SUFFICES ASSUME k + 1 \in 0 .. m PROVE F[k + 1] \subseteq Node
        OBVIOUS
      <3>1. k \in 0 .. m /\ F[k + 1] = F[k] \cup UNION {content[n] : n \in F[k]} BY <1>12
      <3> QED BY <3>1
    <2> HIDE DEF P
    <2>3. P \in SUBSET Nat BY DEF P
    <2> QED BY <2>1, <2>2, <2>3, Induct
  <1>14. \A k \in 0 .. m : F[k] \in SUBSET Node BY <1>1, <1>13
  <1>15. Stages(F, S)
    <2> HIDE DEF P
    <2> QED BY <1>11, <1>12, <1>14 DEF Stages
  <1> QED BY <1>9, <1>15

\* A set that holds S and all its elements contain holds what S reaches.
LEMMA FromWithin ==
  ASSUME NEW S \in SUBSET Node, NEW X \in SUBSET Node, S \subseteq X,
         content \in [Node -> SUBSET Node], \A m \in X : content[m] \subseteq X
  PROVE  From(S) \subseteq X
  <1>1. PICK F : Stages(F, S) /\ From(S) = F[Cardinality(Node)] BY FromStages
  <1>2. PICK m \in Nat : m = Cardinality(Node) BY NodeFinite, FS_CardinalityType
  <1> DEFINE P == {k \in Nat : k \in 0 .. m => F[k] \subseteq X}
  <1>3. 0 \in P BY <1>1 DEF Stages
  <1>4. ASSUME NEW k \in P PROVE k + 1 \in P
    <2> SUFFICES ASSUME k + 1 \in 0 .. m PROVE F[k + 1] \subseteq X
      OBVIOUS
    <2>1. k \in Nat /\ k \in 0 .. m BY <1>2
    <2>2. F[k] \subseteq X BY <2>1
    <2>3. F[k + 1] = F[k] \cup UNION {content[n] : n \in F[k]} BY <1>1, <1>2, <2>1 DEF Stages
    <2> QED BY <2>2, <2>3
  <1>5. P = Nat
    <2> HIDE DEF P
    <2>1. P \in SUBSET Nat BY DEF P
    <2> QED BY <1>3, <1>4, <2>1, Induct
  <1>6. m \in P /\ m \in 0 .. m BY <1>2, <1>5
  <1> QED BY <1>1, <1>2, <1>6

\* What the script reaches is allocated, and no call destroys it.
LEMMA Reached ==
  ASSUME GcInv
  PROVE  From(Held) \subseteq Alive \ Dying
  <1>1. Types /\ Closed /\ Base BY DEF GcInv, Base
  <1>2. Held \subseteq Alive \ Dying
    <2>1. Doomed \subseteq Obj BY DEF Doomed
    <2>2. Held \cap Doomed = {} BY <2>1, GcAssumption DEF Held
    <2> QED BY <1>1, <2>2 DEF Held, Closed, Dying
  <1>3. Held \in SUBSET Node /\ Alive \ Dying \in SUBSET Node BY DEF Held, Node, Alive
  <1>4. \A m \in Alive \ Dying : content[m] \subseteq Alive \ Dying
    BY <1>1, <1>3 DEF Closed
  <1>5. content \in [Node -> SUBSET Node] BY <1>1 DEF Types
  <1> QED BY <1>2, <1>3, <1>4, <1>5, FromWithin

\* Counts are sums of natural numbers, and calls are made of the right parts.
LEMMA TypeFollows ==
  GcInv => TypeOK
  <1> SUFFICES ASSUME GcInv PROVE TypeOK OBVIOUS
  <1>1. Base /\ Types /\ RootTypes /\ Exact /\ forgotten \subseteq Node
    BY DEF GcInv, Base
  <1>2. ASSUME NEW n \in Node, type[n] # "free" PROVE rc[n] >= 0
    <2>1. rc[n] = Ext(n) + Cardinality(Preds(n)) + Weight(stack, n)
      BY <1>1, <1>2 DEF Exact, Alive
    <2>2. Ext(n) \in Nat /\ Cardinality(Preds(n)) \in Nat /\ Weight(stack, n) \in Nat
      BY <1>1, Numbers
    <2> QED BY <2>1, <2>2
  <1>3. ASSUME NEW c \in Calls
        PROVE  /\ c.op \in Op /\ c.z \in Zval \cup {None}
               /\ c.n \in Node \cup {None} /\ c.rest \subseteq Node
    <2>1. c \in Frame BY <1>1 DEF Base, StackInv, Calls
    <2> QED BY <2>1 DEF Frame
  <1> QED BY <1>1, <1>2, <1>3 DEF Types, RootTypes, TypeOK

\* Variables keep their types, and no count of an allocated node falls below zero,
\* however the trial deletions of nested collections and releases interleave.
THEOREM TypeTheorem == Spec => []TypeOK
  BY Invariance, TypeFollows, PTL

\* Between two statements the counts that Exact describes are plain counts.
LEMMA CountsFollow ==
  GcInv => CountsExact
  <1> SUFFICES ASSUME GcInv, Running, NEW n \in Node, InUse(n)
               PROVE  rc[n] = (IF n \in Zval THEN ext[n] ELSE 0)
                              + Cardinality({m \in Node : InUse(m) /\ n \in content[m]})
    BY DEF CountsExact
  <1>1. stack = <<>> BY DEF Running
  <1>2. Plain /\ Holders(n) = Preds(n) /\ \A k \in Alive : rc[k] = Ext(k) + Cardinality(Preds(k))
    BY <1>1, IdleHeap
  <1>3. n \in Alive BY DEF InUse, Alive
  <1>4. {m \in Node : InUse(m) /\ n \in content[m]} = Preds(n)
    <2>1. ASSUME NEW m \in Node, n \in content[m] PROVE InUse(m)
      BY <1>2, <2>1 DEF Plain, Types, Type, InUse
    <2> QED BY <1>2, <2>1 DEF Holders
  <1> QED BY <1>2, <1>3, <1>4 DEF Ext

\* Between two statements every count is the number of references: what trial
\* deletion took away has been given back (zend_gc.c, zval_scan_black and
\* zval_collect_white).
THEOREM CountsTheorem == Spec => []CountsExact
  BY Invariance, CountsFollow, PTL

\* What is neither free nor dying is in use.
LEMMA DanglingFollows ==
  GcInv => NoDangling
  <1> SUFFICES ASSUME GcInv, NEW n \in From(Held) PROVE InUse(n)
    BY DEF NoDangling
  <1>1. Types /\ Closed BY DEF GcInv, Base
  <1>2. n \in Node /\ type[n] # "free" /\ n \notin Owned
    BY Reached DEF Alive, Dying
  <1>3. type[n] # "null"
    BY <1>1, <1>2 DEF Closed, Types, Node
  <1> QED BY <1>1, <1>2, <1>3 DEF Types, Type, InUse

\* No release and no collection destroys or frees what the script can reach.
THEOREM DanglingTheorem == Spec => []NoDangling
  BY Invariance, DanglingFollows, PTL

\* A listed zval is owned by the collection that listed it, and held by its list.
LEMMA ListedFollows ==
  GcInv => ListedKept
  <1> SUFFICES ASSUME GcInv, NEW z \in Listed
               PROVE  type[z] # "free" /\ rc[z] >= 1 /\ z \notin From(Held)
    BY DEF ListedKept
  <1>1. Base /\ Types /\ Closed /\ Exact /\ stack \in Seq(Frame) /\ Frames
    BY DEF GcInv, Base, StackInv
  <1>2. z \in Owned /\ z \in Dying BY <1>1, ListedIs, SetParts DEF Dying
  <1>3. z \in Alive /\ z \in Node BY <1>1, <1>2 DEF Closed, Alive
  <1>4. PICK c \in Calls : c.op = "destroy" /\ z \in c.list BY DEF Listed
  <1>5. W(c, z) >= 1
    <2>1. z \in Keeps(c) BY <1>4 DEF Keeps
    <2> QED BY <2>1 DEF W
  <1>6. W(c, z) <= Weight(stack, z) /\ W(c, z) \in 0 .. 2
    BY <1>1, CallsSet, WeightBounds, WType
  <1>7. rc[z] = Ext(z) + Cardinality(Preds(z)) + Weight(stack, z)
    BY <1>1, <1>3 DEF Exact
  <1>8. Ext(z) \in Nat /\ Cardinality(Preds(z)) \in Nat /\ Weight(stack, z) \in Nat
    BY <1>1, <1>3, Numbers
  <1>9. rc[z] >= 1 BY <1>5, <1>6, <1>7, <1>8
  <1>10. z \notin From(Held) BY <1>2, Reached
  <1> QED BY <1>3, <1>9, <1>10 DEF Alive

\* What a collection has listed is garbage, and is kept by the list's reference until
\* the list is freed, whatever destroying the rest of the list runs meanwhile.
THEOREM ListedTheorem == Spec => []ListedKept
  BY Invariance, ListedFollows, PTL

\* What the collector has still to visit.
LEMMA CollectorVisits ==
  ASSUME GcInv, NEW c \in Calls, c.op \in Collects
  PROVE  Sound(c.rest)
  <1>1. Base /\ Phase /\ StackInv BY DEF GcInv, Base
  <1>2. stack # <<>> BY <1>1 DEF Calls
  <1>3. Calls = {Top} \cup SetOf(Return) BY <1>1, <1>2, SplitSets
  <1>4. CASE c = Top
    <2>1. CASE c.op = "mark" BY <1>1, <1>2, <1>4, <2>1, PhaseIs DEF MarkInv
    <2>2. CASE c.op = "scan" BY <1>1, <1>2, <1>4, <2>2, PhaseIs DEF ScanInv
    <2>3. CASE c.op = "collect" BY <1>1, <1>2, <1>4, <2>3, PhaseIs DEF CollectInv
    <2>4. CASE c.op = "black"
      <3>1. ScanInv(Head(Return), c.rest) BY <1>1, <1>2, <1>4, <2>4, PhaseIs
      <3> QED BY <3>1 DEF ScanInv, Sound
    <2> QED BY <2>1, <2>2, <2>3, <2>4 DEF Collects
  <1>5. CASE c # Top
    <2>1. c \in SetOf(Return) BY <1>3, <1>5
    <2>2. c.op \notin Lower BY DEF Collects, Lower
    <2>3. Top.op = "black" BY <1>1, <1>2, <2>1, <2>2, Waiting
    <2>4. /\ Return # <<>> /\ \A d \in SetOf(Tail(Return)) : d.op \in Lower
      BY <1>1, <1>2, <2>3 DEF StackInv, Shape, Top, Return
    <2>5. Return \in Seq(Frame) BY <1>1, <1>2, TopFrame
    <2>6. Head(Return) \in Frame /\ Tail(Return) \in Seq(Frame)
          /\ Return = <<Head(Return)>> \o Tail(Return)
      BY <2>4, <2>5, SeqSplit
    <2>7. SetOf(Return) = {Head(Return)} \cup SetOf(Tail(Return)) BY <2>6, PushSet
    <2>8. c = Head(Return) BY <2>1, <2>2, <2>4, <2>7
    <2>9. ScanInv(Head(Return), Top.rest) BY <1>1, <1>2, <2>3, PhaseIs
    <2> QED BY <2>8, <2>9 DEF ScanInv
  <1> QED BY <1>4, <1>5

\* What the collector visits is not dying, and all that is listed is.
LEMMA VisitsFollow ==
  GcInv => VisitsLive
  <1> SUFFICES ASSUME GcInv, NEW c \in Calls, c.op \in {"mark", "scan", "black", "collect"},
                      NEW n \in c.rest \cap Zval
               PROVE  type[n] # "free" /\ n \notin Listed
    BY DEF VisitsLive
  <1>1. Sound(c.rest) BY CollectorVisits DEF Collects
  <1>2. n \in Alive /\ n \notin Dying BY <1>1 DEF Sound
  <1>3. Listed \subseteq Dying
    BY ListedIs, SetParts DEF GcInv, Base, StackInv, Dying
  <1> QED BY <1>2, <1>3 DEF Alive

\* A collection, nested ones included, visits no zval that is freed or listed.
THEOREM VisitsTheorem == Spec => []VisitsLive
  BY Invariance, VisitsFollow, PTL

=============================================================================
