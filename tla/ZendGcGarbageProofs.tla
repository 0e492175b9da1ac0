------------------------- MODULE ZendGcGarbageProofs -------------------------
(***************************************************************************)
(* Garbage is not lost, for every memory and every size of the buffer.  A  *)
(* second invariant, KnownInv, inductive together with GcInv, says from    *)
(* where everything that lives is reached while calls are in progress:     *)
(* from the script, from what a call has in hand, from what dying nodes    *)
(* contain still, from the buffer's purple roots, and from what            *)
(* gc_zval_possible_root gave up on.  NoLostGarbage is what is left of it  *)
(* once the calls have returned.                                           *)
(***************************************************************************)
EXTENDS ZendGcProofs

\* What no call is destroying, or will.
Live == Alive \ Dying

\* The nodes a call will still release, or buffer.
Hand(c) == Refs(c) \cup (IF c.op \in {"root", "collected"} THEN {c.n} ELSE {})
Hands == UNION {Hand(c) : c \in Calls}

\* Dying nodes whose references have passed to a call, or were given up; what the
\* others contain will be released.
Gone == Moved \cup {z \in Stale : type[z] = "object"}
Leaves == UNION {content[m] : m \in Dying \ Gone}

\* What is known without the buffer, and with its purple roots.
Known == Held \cup forgotten \cup Hands \cup Leaves
PurpleRoots(S) == InSlots({s \in S : color[slots[s]] = "purple"})
Sources == Known \cup PurpleRoots(Roots)

\* A purple node of N without a slot was given up on, or is about to be buffered.
Waits == {c.n : c \in {d \in Calls : d.op = "collected"}}
Noted(N) == \A n \in N : color[n] = "purple" /\ addr[n] = 0 => n \in forgotten \cup Waits

\* gc_zval_possible_root has turned from a live handle to its object only, and is
\* called for a zval with references left.
HandOK(c) ==
    /\ c.op \in {"root", "collected"} /\ c.n # c.z /\ c.z \in Live => content[c.z] = {c.n}
    /\ c.op = "collected" /\ c.n \in Zval => type[c.n] # "object"
    /\ c.op = "root" /\ c.n = c.z => rc[c.z] >= 1

\* No handle is ever buffered, and what is was not given up on.
Words ==
    /\ \A n \in forgotten : addr[n] = 0
    /\ \A z \in Zval : type[z] = "object" => addr[z] = 0
    /\ \A c \in Calls : HandOK(c)

\* No collection is at work.
KnownQuiet ==
    /\ Noted(Live) /\ \A n \in Live : addr[n] # 0 => color[n] = "purple"
    /\ Covers(Sources, Live)

\* c marks: what it has turned to is grey, or about to be.
KnownMarking(c) ==
    /\ Noted(Live) /\ \A n \in Live : addr[n] # 0 => color[n] \in {"purple", "grey"}
    /\ InSlots(Roots \ c.list) \subseteq Painted("grey") \cup c.rest
    /\ Covers(Known \cup PurpleRoots(c.list) \cup InSlots(Roots \ c.list), Live)

\* A scan: what is not on trial is reached without the buffer; zval_scan_black will
\* add r to it.
KnownScanning(r) ==
    /\ Noted(Live) /\ \A s \in Roots : color[slots[s]] # "purple"
    /\ \A n \in (Obj \cap (Live \ Trial)) \cup r : rc[n] > 0
    /\ Reaches(Known, Live \ Trial, (Live \ Trial) \cup (r \cap Live))

\* What c has collected: the zvals of its list, and objects by their count.
Lost(c) == c.list \cup {o \in Obj : rc[o] <= 0}

\* c collects: all but what is white, or collected already, is reached.
KnownCollecting(c) ==
    /\ Noted(Live \ Lost(c))
    /\ \A s \in Roots : color[slots[s]] # "purple" \/ slots[s] \in Lost(c)
    /\ \A o \in Painted("white") \cap Obj : rc[o] <= 0
    /\ Covers(Known, Live \ (Painted("white") \cup Lost(c)))

\* The phase of the collection at work.
KnownPhase ==
    IF stack = <<>> THEN KnownQuiet
    ELSE IF Top.op = "mark" THEN KnownMarking(Top)
    ELSE IF Top.op = "scan" THEN KnownScanning({})
    ELSE IF Top.op = "black" THEN KnownScanning(Top.rest)
    ELSE IF Top.op = "collect" THEN KnownCollecting(Top)
    ELSE KnownQuiet

\* Inductive together with GcInv.
KnownInv == Words /\ KnownPhase

\* A step of the engine, in states of both invariants.
Moving ==
    Working /\ GcInv' /\ KnownInv /\ forgotten' = Forgetting

-----------------------------------------------------------------------------
\* A purple node with a slot is a root.
SlotKnown == RootTypes => \A n \in Node : addr[n] # 0 /\ color[n] = "purple" => n \in Sources

\* It follows from what a slot and a word say of each other.
LEMMA SlotKnownHolds == SlotKnown
  <1> SUFFICES ASSUME RootTypes, NEW n \in Node, addr[n] # 0, color[n] = "purple"
               PROVE  n \in Sources
    BY DEF SlotKnown
  <1>1. PICK s \in Slot : s = addr[n] /\ slots[s] = n BY DEF RootTypes
  <1>2. s \in Roots /\ color[slots[s]] = "purple"
    BY <1>1, GcAssumption DEF Roots, Node
  <1> QED BY <1>1, <1>2 DEF Sources, PurpleRoots, InSlots

\* The same of the state after a step.
LEMMA SlotKnownNext == SlotKnown'
  BY SlotKnownHolds, PTL

\* A live node that is counted is held by the script, by a call, or by a node that
\* lives or is being destroyed.
Counted ==
    GcInv /\ Gathered = {} =>
        \A n \in Live : rc[n] >= 1 =>
            n \in Known \/ \E m \in Live : n \in content[m] /\ m \notin Trial

\* It follows from Exact: something makes up the count.
LEMMA CountedHolds == Counted
  <1> SUFFICES ASSUME GcInv, Gathered = {}, NEW n \in Live, rc[n] >= 1
               PROVE  n \in Known \/ \E m \in Live : n \in content[m] /\ m \notin Trial
    BY DEF Counted
  <1>1. Base /\ Exact /\ Types /\ stack \in Seq(Frame) /\ Frames
    BY DEF GcInv, Base, StackInv
  <1>2. n \in Node /\ n \in Alive /\ n \notin Owned /\ n \notin Dying BY DEF Live, Alive, Dying
  <1>3. /\ rc[n] = Ext(n) + Cardinality(Preds(n)) + Weight(stack, n)
        /\ Ext(n) \in Nat /\ Cardinality(Preds(n)) \in Nat /\ Weight(stack, n) \in Nat
    BY <1>1, <1>2, Numbers DEF Exact
  <1>4. CASE Ext(n) # 0
    <2>1. n \in Zval /\ ext[n] > 0 BY <1>1, <1>3, <1>4 DEF Ext
    <2> QED BY <2>1 DEF Known, Held
  <1>5. CASE Weight(stack, n) # 0
    <2>1. PICK c \in Calls : W(c, n) # 0 BY <1>1, <1>5, WeightBounds, CallsSet
    <2>2. n \in Refs(c) \/ n \in Keeps(c) BY <2>1 DEF W
    <2>3. n \notin Own(c) /\ n \notin Gathers(c)
      BY <1>2, <2>1, PartsOf DEF Owned, OwnedBy, Gathered, GatheredBy
    <2>4. n \notin Keeps(c) BY <1>2, <2>3 DEF Keeps, Own, Gathers
    <2> QED BY <2>2, <2>4 DEF Known, Hands, Hand
  <1>6. CASE Cardinality(Preds(n)) # 0
    <2>1. PICK m \in Node : n \in content[m] /\ m \notin Spent /\ m \notin Trial
      BY <1>6, FS_EmptySet DEF Preds
    <2>2. m \in Alive BY <1>1, <2>1 DEF Types, Alive
    <2>3. CASE m \in Dying
      <3>1. m \notin Gone BY <2>1 DEF Gone, Spent
      <3> QED BY <2>1, <2>3, <3>1 DEF Known, Leaves
    <2> QED BY <2>1, <2>2, <2>3 DEF Live
  <1> QED BY <1>3, <1>4, <1>5, <1>6

\* The same of the state after a step.
LEMMA CountedNext == Counted'
  BY CountedHolds, PTL
-----------------------------------------------------------------------------
\* Nothing begins to live, and what lives on is what it was.
Narrows ==
    /\ Live' \subseteq Live /\ \A n \in Live' : content'[n] = content[n]
    /\ \A z \in Zval : type'[z] = "object" => type[z] = "object"

\* The word `buffered' of what lives on, while no collection marks.
WordsStay ==
    /\ \A n \in Live' : addr[n] # 0 => addr'[n] # 0
    /\ \A n \in Live' : addr'[n] # 0 => color'[n] = "purple"
    /\ \A n \in Live' : color'[n] = "purple" /\ addr'[n] = 0
                          => (color[n] = "purple" /\ addr[n] = 0) \/ n \in Waits'
    /\ \A z \in Zval : type'[z] = "object" => addr'[z] = 0

\* Words after a step of the engine.
LEMMA WordsKept ==
  ASSUME Moving, Narrows, \A z \in Zval : type'[z] = "object" => addr'[z] = 0,
         \A d \in SetOf(Return) : d.op # "root",
         \A c \in Calls' : c \in SetOf(Return) \/ HandOK(c)'
  PROVE  Words'
  <1>1. Words /\ forgotten' = Forgetting /\ Base /\ stack # <<>>
    BY DEF Moving, KnownInv, Working, GcInv
  <1>2. \A n \in forgotten' : addr'[n] = 0 BY <1>1 DEF Forgetting
  <1>3. ASSUME NEW d \in SetOf(Return) PROVE HandOK(d)'
    <2>1. HandOK(d) /\ d.op # "root" /\ d \in Frame BY <1>1, SplitSets DEF Words, Base
    <2>2. d.op = "collected" /\ d.n # d.z /\ d.z \in Live' => content'[d.z] = {d.n}
      BY <2>1 DEF Narrows, HandOK
    <2>3. d.op = "collected" /\ d.n \in Zval => type'[d.n] # "object"
      BY <2>1 DEF Narrows, HandOK
    <2> QED BY <2>1, <2>2, <2>3 DEF HandOK
  <1> QED BY <1>2, <1>3 DEF Words

\* What was given up on is so still, and what waits does.
LEMMA NotedKept ==
  ASSUME Moving, Live' \subseteq Live, Noted(Live), SetOf(Return) \subseteq Calls',
         \A n \in Live' : color'[n] = "purple" /\ addr'[n] = 0
                            => (color[n] = "purple" /\ addr[n] = 0) \/ n \in Waits'
  PROVE  Noted(Live)'
  <1>1. forgotten' = Forgetting /\ Base /\ stack # <<>> BY DEF Moving, Working, GcInv
  <1> SUFFICES ASSUME NEW n \in Live', color'[n] = "purple", addr'[n] = 0
               PROVE  n \in forgotten' \/ n \in Waits'
    BY DEF Noted
  <1>2. n \in Node /\ type'[n] # "free" BY DEF Live, Alive
  <1>3. CASE n \in forgotten BY <1>1, <1>2, <1>3 DEF Forgetting
  <1>4. CASE n \in Waits
    <2>1. PICK c \in Calls : c.op = "collected" /\ c.n = n BY <1>4 DEF Waits
    <2>2. CASE c = Top BY <1>1, <1>2, <2>1, <2>2 DEF Forgetting
    <2>3. CASE c # Top
      <3>1. c \in Calls' BY <1>1, <2>1, <2>3, SplitSets DEF Base
      <3> QED BY <2>1, <3>1 DEF Waits
    <2> QED BY <2>2, <2>3
  <1>5. n \in Live BY DEF Live
  <1> QED BY <1>3, <1>4, <1>5 DEF Noted

\* What the script, the calls that wait and what was given up on make known, and the
\* roots that keep their slots.
LEMMA SourcesKept ==
  ASSUME Moving, Quiet, WordsStay, Live' \subseteq Live, SetOf(Return) \subseteq Calls',
         NEW n \in Live', n \in Sources
  PROVE  n \in Sources' \/ n \in Hand(Top) \/ n \in Leaves
  <1>1. /\ forgotten' = Forgetting /\ Base /\ stack # <<>> /\ UNCHANGED ext /\ RootTypes'
        /\ GcInv' /\ RootTypes
    BY DEF Moving, Working, GcInv, Base
  <1>2. n \in Node /\ type'[n] # "free" BY DEF Live, Alive
  <1>3. addr'[n] # 0 => n \in Sources'
    BY <1>1, <1>2, SlotKnownNext DEF SlotKnown, WordsStay
  <1>4. CASE n \in Held BY <1>1, <1>4 DEF Held, Sources, Known
  <1>5. CASE n \in forgotten
    <2>1. addr'[n] = 0 => n \in forgotten' BY <1>1, <1>2, <1>5 DEF Forgetting
    <2> QED BY <1>3, <2>1 DEF Sources, Known
  <1>6. CASE n \in Hands
    <2>1. PICK c \in Calls : n \in Hand(c) BY <1>6 DEF Hands
    <2>2. CASE c # Top
      <3>1. c \in Calls' BY <1>1, <2>1, <2>2, SplitSets DEF Base
      <3> QED BY <2>1, <3>1 DEF Sources, Known, Hands, Hand, Refs
    <2> QED BY <2>1, <2>2
  <1>7. CASE n \in PurpleRoots(Roots)
    <2>1. PICK s \in Roots : color[slots[s]] = "purple" /\ slots[s] = n
      BY <1>7 DEF PurpleRoots, InSlots
    <2>2. addr[n] # 0 BY <2>1 DEF Quiet
    <2> QED BY <1>3, <2>2 DEF WordsStay
  <1> QED BY <1>4, <1>5, <1>6, <1>7 DEF Sources, Known
-----------------------------------------------------------------------------
\* Only nodes are known.
LEMMA KnownNode ==
  ASSUME Base
  PROVE  Known \subseteq Node /\ Live \subseteq Node
  <1>1. Types /\ StackInv /\ Frames BY DEF Base
  <1>2. Hands \subseteq Node
    <2>1. ASSUME NEW c \in Calls PROVE Hand(c) \subseteq Node
      <3>1. c \in Frame /\ FrameOK(c) BY <1>1 DEF StackInv, Frames, Calls
      <3> QED BY <3>1 DEF FrameOK, Frame, Hand, Refs, RefOK, Node
    <2> QED BY <2>1 DEF Hands
  <1>3. Leaves \subseteq Node
    <2>1. Dying \subseteq Node BY <1>1, SetParts DEF StackInv, Dying, Doomed, Node
    <2> QED BY <1>1, <2>1 DEF Types, Leaves
  <1>4. Held \subseteq Node /\ forgotten \subseteq Node BY DEF Base, Held, Node
  <1> QED BY <1>2, <1>3, <1>4 DEF Known, Live, Alive

\* What stops to live leaves what it contains to the calls.
Released ==
    \A m \in Live : m \in Live' \/ (m \in Dying' \ Gone' /\ content'[m] = content[m])
                    \/ \A k \in content[m] : k \in Live' => k \in Sources'

\* The nodes E are not known by themselves any longer, but are counted.
Inner(E) ==
    /\ E # {} => Gathered' = {}
    /\ \A e \in E : e \in Live' =>
          rc'[e] >= 1 /\ \A k \in content[e] : k \notin E /\ (k \in Live' => k \in Sources')

\* All that lives is reached still.
LEMMA CoverKept ==
  ASSUME Moving, KnownQuiet, Narrows, Released, NEW E \in SUBSET Node, Inner(E),
         \A n \in Live' : n \in Sources => n \in Sources' \/ n \in E
  PROVE  Covers(Sources, Live)'
  <1> SUFFICES ASSUME NEW X \in SUBSET Node, Sources' \subseteq X,
                      \A m \in X : m \in Live' => content'[m] \subseteq X
               PROVE  Live' \subseteq X
    BY DEF Covers, Reaches
  <1>1. Base /\ Types /\ GcInv' /\ Live' \subseteq Node /\ Live \subseteq Node
    BY DEF Moving, Working, GcInv, Base, Live, Alive
  <1>2. PICK Y \in SUBSET Node : Y = X \cup (Node \ Live') \cup E OBVIOUS
  <1>3. Sources \subseteq Y
    <2>1. Sources \subseteq Node
      <3>1. PurpleRoots(Roots) \subseteq Node BY <1>1, RootNode DEF PurpleRoots, InSlots
      <3> QED BY <1>1, <3>1, KnownNode DEF Sources
    <2> QED BY <1>2, <2>1
  <1>4. ASSUME NEW m \in Y, m \in Live PROVE content[m] \subseteq Y
    <2>1. content[m] \subseteq Node BY <1>1 DEF Types
    <2>2. ASSUME NEW k \in content[m] PROVE k \in Y
      <3>1. k \in Live' /\ k \in Sources' => k \in Y BY <1>2
      <3>2. k \notin Live' => k \in Y BY <1>2, <2>1
      <3>3. CASE m \in Dying' \ Gone' /\ content'[m] = content[m]
        <4>1. k \in Sources' BY <2>2, <3>3 DEF Leaves, Sources, Known
        <4> QED BY <3>1, <3>2, <4>1
      <3>4. CASE m \in Live' /\ m \in E BY <3>1, <3>2, <3>4 DEF Inner
      <3>5. CASE m \in Live' /\ m \notin E
        <4>1. m \in X BY <1>2, <3>5
        <4>2. content'[m] = content[m] BY <3>5 DEF Narrows
        <4> QED BY <1>2, <3>5, <4>1, <4>2
      <3> QED BY <1>4, <3>1, <3>2, <3>3, <3>4, <3>5 DEF Released
    <2> QED BY <2>2
  <1>5. Live \subseteq Y BY <1>3, <1>4 DEF KnownQuiet, Covers, Reaches
  <1>6. ASSUME NEW e \in Live' PROVE e \in X
    <2>1. e \in Live BY DEF Narrows
    <2>2. CASE e \in E
      <3>1. rc'[e] >= 1 /\ Gathered' = {} BY <2>2 DEF Inner
      <3>2. CASE e \in Known' BY <3>2 DEF Sources
      <3>3. CASE \E m \in Live' : e \in content'[m]
        <4>1. PICK m \in Live' : e \in content'[m] BY <3>3
        <4>2. e \in content[m] /\ m \in Live BY <4>1 DEF Narrows
        <4>3. m \notin E BY <2>2, <4>2 DEF Inner
        <4>4. m \in X BY <1>2, <1>5, <4>2, <4>3
        <4> QED BY <4>1, <4>4
      <3>4. e \in Known' \/ \E m \in Live' : e \in content'[m] /\ m \notin Trial'
        BY <1>1, <3>1, CountedNext DEF Counted
      <3> QED BY <3>2, <3>3, <3>4
    <2>3. CASE e \notin E BY <1>2, <1>5, <2>1, <2>3
    <2> QED BY <2>2, <2>3
  <1> QED BY <1>6

\* A step outside the collector's phases keeps the second invariant of quiet states.
LEMMA QuietKnown ==
  ASSUME Moving, Top.op \notin Collects, Narrows, Released, WordsStay,
         SetOf(Return) \subseteq Calls', \A c \in Calls' : c \in SetOf(Return) \/ HandOK(c)',
         NEW E \in SUBSET Node, Inner(E),
         \A n \in Live' : n \in Hand(Top) \/ n \in Leaves => n \in Sources' \/ n \in E
  PROVE  Words' /\ KnownQuiet'
  <1>1. Base /\ Phase /\ stack # <<>> /\ Words /\ KnownPhase
    BY DEF Moving, KnownInv, Working, GcInv
  <1>2. KnownQuiet BY <1>1 DEF KnownPhase, Collects
  <1>3. Quiet BY <1>1, PhaseQuiet
  <1>4. Live' \subseteq Live BY DEF Narrows
  <1>5. \A n \in Live' : n \in Sources => n \in Sources' \/ n \in E
    BY <1>3, <1>4, SourcesKept
  <1>6. Covers(Sources, Live)' BY <1>2, <1>5, CoverKept
  <1>7. \A d \in SetOf(Return) : d.op # "root"
    <2>1. \A d \in SetOf(Return) : d.op \in Lower BY <1>1, Waiting DEF Base, Collects
    <2> QED BY <2>1 DEF Lower
  <1>8. Words' BY <1>7, WordsKept DEF WordsStay
  <1>9. Noted(Live)'
    <2>1. Noted(Live) BY <1>2 DEF KnownQuiet
    <2> QED BY <1>4, <2>1, NotedKept DEF WordsStay
  <1> QED BY <1>6, <1>8, <1>9 DEF KnownQuiet, WordsStay

\* The phase of the state after a step is quiet, or a collection begins.
LEMMA KnownPhaseNext ==
  ASSUME Words', KnownQuiet',
         stack' # <<>> /\ Top'.op \in Collects
            => Top'.op = "mark" /\ Top'.list = Roots' /\ Top'.rest = {}
  PROVE  KnownInv'
  <1>1. CASE stack' = <<>> \/ Top'.op \notin Collects
    BY <1>1 DEF KnownInv, KnownPhase, Collects
  <1>2. CASE stack' # <<>> /\ Top'.op \in Collects
    <2>1. Top'.op = "mark" /\ Top'.list = Roots' /\ Top'.rest = {} BY <1>2
    <2>2. InSlots(Roots \ Top.list)' = {} BY <2>1 DEF InSlots
    <2>3. PurpleRoots(Top.list)' = PurpleRoots(Roots)' BY <2>1 DEF PurpleRoots
    <2>4. Covers(Known \cup PurpleRoots(Top.list) \cup InSlots(Roots \ Top.list), Live)'
      BY <2>2, <2>3 DEF KnownQuiet, Covers, Reaches, Sources
    <2>5. KnownMarking(Top)' BY <2>1, <2>2, <2>4 DEF KnownQuiet, KnownMarking
    <2> QED BY <1>2, <2>1, <2>5 DEF KnownInv, KnownPhase
  <1> QED BY <1>1, <1>2

\* After a return the caller is at work, and it is not the collector.
LEMMA KnownBack ==
  ASSUME Moving, stack' = Return, Top.op # "black", Words', KnownQuiet'
  PROVE  KnownInv'
  <1>1. Base /\ stack # <<>> BY DEF Moving, Working, GcInv
  <1>2. ASSUME stack' # <<>> PROVE Top' \in SetOf(Return)
    <2>1. Return \in Seq(Frame) BY <1>1, TopFrame
    <2>2. Return # <<>> BY <1>2
    <2>3. Head(Return) \in Frame /\ Tail(Return) \in Seq(Frame)
          /\ Return = <<Head(Return)>> \o Tail(Return)
      BY <2>1, <2>2, SeqSplit
    <2>4. SetOf(Return) = {Head(Return)} \cup SetOf(Tail(Return)) BY <2>3, PushSet
    <2> QED BY <2>4 DEF Top
  <1>3. \A d \in SetOf(Return) : d.op \in Lower BY <1>1, Waiting DEF Base
  <1> QED BY <1>2, <1>3, KnownPhaseNext DEF Lower, Collects
-----------------------------------------------------------------------------
\* The calls of a step own what the calls before it did.
OwnersSame == Owned' = Owned /\ Moved' = Moved /\ Stale' = Stale

\* A call is replaced by c.
LEMMA GotoSets ==
  ASSUME Base, stack # <<>>, NEW c \in Frame, stack' = Goto(c)
  PROVE  /\ Calls' = {c} \cup SetOf(Return) /\ Top' = c /\ Return' = Return /\ stack' # <<>>
         /\ Owned' = Own(c) \cup OwnedBy(SetOf(Return))
         /\ Moved' = Moves(c) \cup MovedBy(SetOf(Return))
         /\ Stale' = Drops(c) \cup StaleBy(SetOf(Return))
         /\ Gathered' = Gathers(c)
         /\ Same(c, Top) => OwnersSame
  <1>1. Return \in Seq(Frame) BY TopFrame
  <1>2. Pushed(stack', c, Return) BY <1>1, PushIs DEF Goto
  <1>3. Top' = c /\ Return' = Return /\ stack' # <<>> BY <1>2 DEF Pushed, Top, Return
  <1>4. GatheredBy(SetOf(Return)) = {} BY Waiting DEF Base
  <1>5. /\ Calls' = {c} \cup SetOf(Return)
        /\ Owned' = Own(c) \cup OwnedBy(SetOf(Return))
        /\ Moved' = Moves(c) \cup MovedBy(SetOf(Return))
        /\ Stale' = Drops(c) \cup StaleBy(SetOf(Return))
        /\ Gathered' = Gathers(c)
    BY <1>2, <1>4, CallsSet DEF Pushed, Owned, Moved, Stale, Gathered
  <1>6. Same(c, Top) => OwnersSame BY <1>5, SplitSets DEF Base, Same, OwnersSame
  <1> QED BY <1>3, <1>5, <1>6

\* A call a is made, and the caller goes on as b.
LEMMA CallSets ==
  ASSUME Base, stack # <<>>, NEW a \in Frame, NEW b \in Frame,
         stack' = <<a>> \o (<<b>> \o Return)
  PROVE  /\ Calls' = {a, b} \cup SetOf(Return) /\ Top' = a /\ stack' # <<>>
         /\ Return' = <<b>> \o Return /\ Head(Return') = b
         /\ Owned' = Own(a) \cup Own(b) \cup OwnedBy(SetOf(Return))
         /\ Moved' = Moves(a) \cup Moves(b) \cup MovedBy(SetOf(Return))
         /\ Stale' = Drops(a) \cup Drops(b) \cup StaleBy(SetOf(Return))
         /\ Bare(a) /\ Same(b, Top) => OwnersSame
  <1>1. Return \in Seq(Frame) BY TopFrame
  <1>2. PICK t : t = <<b>> \o Return OBVIOUS
  <1>3. Pushed(t, b, Return) BY <1>1, <1>2, PushIs
  <1>4. Pushed(stack', a, t)
    <2>1. t \in Seq(Frame) BY <1>3 DEF Pushed
    <2>2. Pushed(<<a>> \o t, a, t) BY <2>1, PushIs
    <2> QED BY <1>2, <2>2
  <1>5. Top' = a /\ Return' = t /\ stack' # <<>> /\ Head(t) = b
    BY <1>3, <1>4 DEF Pushed, Top, Return
  <1>6. /\ Calls' = {a, b} \cup SetOf(Return)
        /\ Owned' = Own(a) \cup Own(b) \cup OwnedBy(SetOf(Return))
        /\ Moved' = Moves(a) \cup Moves(b) \cup MovedBy(SetOf(Return))
        /\ Stale' = Drops(a) \cup Drops(b) \cup StaleBy(SetOf(Return))
    BY <1>3, <1>4, CallsSet DEF Pushed, Owned, Moved, Stale
  <1>7. Bare(a) /\ Same(b, Top) => OwnersSame
    BY <1>6, SplitSets DEF Base, Bare, Same, OwnersSame
  <1> QED BY <1>2, <1>5, <1>6, <1>7

\* A call returns.
LEMMA ReturnSets ==
  ASSUME Base, stack # <<>>, stack' = Return
  PROVE  /\ Calls' = SetOf(Return) /\ Gathered' = {}
         /\ Owned' = OwnedBy(SetOf(Return)) /\ Moved' = MovedBy(SetOf(Return))
         /\ Stale' = StaleBy(SetOf(Return))
         /\ Bare(Top) => OwnersSame
  <1>1. GatheredBy(SetOf(Return)) = {} BY Waiting DEF Base
  <1>2. /\ Calls' = SetOf(Return) /\ Gathered' = {}
        /\ Owned' = OwnedBy(SetOf(Return)) /\ Moved' = MovedBy(SetOf(Return))
        /\ Stale' = StaleBy(SetOf(Return))
    BY <1>1, CallsSet DEF Owned, Moved, Stale, Gathered
  <1> QED BY <1>2, SplitSets DEF Base, Bare, OwnersSame

\* Where the owners and the heap are the same, the same nodes live.
LEMMA LiveStill ==
  ASSUME OwnersSame, UNCHANGED <<type, content>>
  PROVE  /\ Live' = Live /\ Dying' = Dying /\ Leaves' = Leaves /\ Alive' = Alive
         /\ Narrows /\ Released
  <1>1. Alive' = Alive BY DEF Alive
  <1>2. Doomed' = Doomed BY DEF Doomed, OwnersSame
  <1>3. Dying' = Dying BY <1>2 DEF Dying, OwnersSame
  <1>4. Gone' = Gone BY DEF Gone, OwnersSame
  <1>5. Leaves' = Leaves BY <1>3, <1>4 DEF Leaves
  <1>6. Live' = Live BY <1>1, <1>3 DEF Live
  <1>7. Narrows /\ Released BY <1>6 DEF Narrows, Released
  <1> QED BY <1>1, <1>3, <1>5, <1>6, <1>7

\* The word `buffered' of every node is left alone.
LEMMA WordsSame ==
  ASSUME Moving, Top.op \notin Collects, UNCHANGED gcVars, Narrows
  PROVE  WordsStay
  <1>1. stack # <<>> /\ Words /\ KnownPhase BY DEF Moving, KnownInv, Working
  <1>2. KnownQuiet BY <1>1 DEF KnownPhase, Collects
  <1>3. \A n \in Live' : n \in Live BY DEF Narrows
  <1> QED BY <1>1, <1>2, <1>3 DEF WordsStay, Words, KnownQuiet, Narrows, gcVars

\* The heap and its owners stay as they are.
LEMMA StillKnown ==
  ASSUME Moving, Top.op \notin Collects, OwnersSame, UNCHANGED <<type, content>>,
         WordsStay, SetOf(Return) \subseteq Calls',
         \A c \in Calls' : c \in SetOf(Return) \/ HandOK(c)',
         NEW E \in SUBSET Node, Inner(E),
         \A n \in Live' : n \in Hand(Top) => n \in Sources' \/ n \in E
  PROVE  Words' /\ KnownQuiet'
  <1>1. Leaves' = Leaves /\ Narrows /\ Released BY LiveStill
  <1>2. \A n \in Live' : n \in Hand(Top) \/ n \in Leaves => n \in Sources' \/ n \in E
    BY <1>1 DEF Sources, Known
  <1> QED BY <1>1, <1>2, QuietKnown

\* Where nothing is left out that was known.
LEMMA NoInner == Inner({})
  BY DEF Inner
-----------------------------------------------------------------------------
\* zend_hash_destroy: the element is in the hands of zval_ptr_dtor.
LEMMA TableKnown ==
  ASSUME Moving, zend_hash_destroy
  PROVE  KnownInv'
  <1>1. Base /\ stack # <<>> BY DEF Moving, Working, GcInv
  <1>2. Top \in Frame /\ Top.rest \subseteq Node BY <1>1, TopFrame DEF Frame
  <1>3. Top.op \in {"elements", "properties"} /\ UNCHANGED <<type, content>> /\ UNCHANGED gcVars
    BY DEF zend_hash_destroy, heapVars
  <1>4. PICK e \in Top.rest :
          stack' = <<Call("dtor", e, e, {}, {}), [Top EXCEPT !.rest = @ \ {e}]>> \o Return
    BY DEF zend_hash_destroy
  <1>5. PICK a : a = Call("dtor", e, e, {}, {}) OBVIOUS
  <1>6. PICK b : b = [Top EXCEPT !.rest = @ \ {e}] OBVIOUS
  <1>7. e \in Zval BY <1>1, <1>3, TopFrame DEF FrameOK, RefOK
  <1>8. a \in Frame /\ a.op = "dtor" /\ a.z = e BY <1>5, <1>7, CallFrame DEF Op, Call, Node
  <1>9. b \in Frame /\ b.op = Top.op /\ b.rest = Top.rest \ {e} /\ b.z = Top.z /\ b.n = Top.n
    BY <1>2, <1>6 DEF Frame
  <1>10. stack' = <<a>> \o (<<b>> \o Return)
    <2>1. Return \in Seq(Frame) BY <1>1, TopFrame
    <2>2. stack' = <<a, b>> \o Return BY <1>4, <1>5, <1>6
    <2> QED BY <1>8, <1>9, <2>1, <2>2, TwoCalls
  <1>11. Bare(a) /\ Same(b, Top)
    BY <1>3, <1>8, <1>9 DEF Bare, Same, Own, Moves, Drops, Lists
  <1>12. Calls' = {a, b} \cup SetOf(Return) /\ Top' = a /\ OwnersSame
    BY <1>1, <1>8, <1>9, <1>10, <1>11, CallSets
  <1>13. WordsStay BY <1>3, <1>12, LiveStill, WordsSame DEF Collects
  <1>14. HandOK(a)' /\ HandOK(b)' BY <1>3, <1>8, <1>9 DEF HandOK
  <1>15. \A n \in Hand(Top) : n \in Sources'
    <2>1. Hand(Top) = Top.rest /\ Hand(a) = {e} /\ Hand(b) = Top.rest \ {e}
      BY <1>3, <1>8, <1>9 DEF Hand, Refs
    <2>2. Hand(a) \subseteq Hands' /\ Hand(b) \subseteq Hands'
      BY <1>12 DEF Hands, Hand, Refs
    <2> QED BY <2>1, <2>2 DEF Sources, Known
  <1>16. Words' /\ KnownQuiet'
    <2>1. {} \in SUBSET Node OBVIOUS
    <2> QED BY <1>3, <1>12, <1>13, <1>14, <1>15, <2>1, NoInner, StillKnown DEF Collects
  <1> QED BY <1>8, <1>12, <1>16, KnownPhaseNext DEF Collects

\* Other references are left to the zval: it is in the hands of gc_zval_possible_root.
LEMMA SharedKnown ==
  ASSUME Moving, Top.op = "dtor", DtorShared(Top.z)
  PROVE  KnownInv'
  <1>1. Base /\ stack # <<>> /\ Closed BY DEF Moving, Working, GcInv, Base
  <1>2. /\ rc[Top.z] > 1 /\ rc' = [rc EXCEPT ![Top.z] = @ - 1]
        /\ UNCHANGED <<type, content>> /\ UNCHANGED gcVars
    BY DEF DtorShared
  <1>3. Top.z \in Zval /\ Top.z \in Node /\ Hand(Top) = {Top.z} /\ Bare(Top)
        /\ rc \in [Node -> Int]
    BY <1>1, TopFrame
       DEF FrameOK, RefOK, Hand, Refs, Bare, Own, Moves, Drops, Lists, Node, Base, Types
  <1>4. {} \in SUBSET Node OBVIOUS
  <1>5. CASE type[Top.z] \in {"array", "object"}
    <2>1. PICK c : c = Call("root", Top.z, Top.z, {}, {}) OBVIOUS
    <2>2. c \in Frame /\ c.op = "root" /\ c.z = Top.z /\ c.n = Top.z
      BY <1>3, <2>1, CallFrame DEF Op, Call
    <2>3. stack' = Goto(c) BY <1>5, <2>1 DEF DtorShared
    <2>4. Same(c, Top) BY <2>2 DEF Same, Own, Moves, Drops, Lists
    <2>5. Calls' = {c} \cup SetOf(Return) /\ Top' = c /\ OwnersSame
      BY <1>1, <2>2, <2>3, <2>4, GotoSets
    <2>6. WordsStay BY <1>2, <2>5, LiveStill, WordsSame DEF Collects
    <2>7. HandOK(c)'
      <3>1. rc'[Top.z] >= 1 BY <1>2, <1>3
      <3> QED BY <2>2, <3>1 DEF HandOK
    <2>8. Top.z \in Sources'
      <3>1. Top.z \in Hand(c) BY <2>2 DEF Hand
      <3> QED BY <2>5, <3>1 DEF Sources, Known, Hands, Hand, Refs
    <2>9. Words' /\ KnownQuiet'
      BY <1>2, <1>3, <1>4, <2>5, <2>6, <2>7, <2>8, NoInner, StillKnown DEF Collects
    <2> QED BY <2>2, <2>5, <2>9, KnownPhaseNext DEF Collects
  <1>6. CASE type[Top.z] \notin {"array", "object"}
    <2>1. stack' = Return BY <1>6 DEF DtorShared
    <2>2. Calls' = SetOf(Return) /\ OwnersSame BY <1>1, <1>3, <2>1, ReturnSets
    <2>3. Live' = Live BY <1>2, <2>2, LiveStill
    <2>4. WordsStay BY <1>2, <2>2, LiveStill, WordsSame DEF Collects
    <2>5. Top.z \notin Live
      <3>1. type[Top.z] \in {"free", "null"}
        BY <1>1, <1>3, <1>6 DEF Base, Types, Type
      <3> QED BY <1>1, <1>3, <3>1 DEF Closed, Live, Alive, Dying
    <2>6. Words' /\ KnownQuiet'
      BY <1>2, <1>3, <1>4, <2>2, <2>3, <2>4, <2>5, NoInner, StillKnown DEF Collects
    <2> QED BY <2>1, <2>6, KnownBack
  <1> QED BY <1>5, <1>6
-----------------------------------------------------------------------------
\* gc_zval_possible_root turns to the object of a handle that is counted still, or
\* away from a zval that a collection has listed.
LEMMA RedirectKnown ==
  ASSUME Moving, RootRedirect
  PROVE  KnownInv'
  <1>1. Base /\ stack # <<>> /\ Closed /\ Words /\ rc \in [Node -> Int] /\ Types
    BY DEF Moving, Working, GcInv, Base, KnownInv, Types
  <1>2. Top.op = "root" /\ Top.n = Top.z /\ UNCHANGED <<type, content, rc>> /\ UNCHANGED gcVars
    BY DEF RootRedirect, heapVars
  <1>3. Top \in Frame /\ Top.z \in Zval /\ Top.z \in Node /\ Top.z \in RefOK
    BY <1>1, <1>2, TopFrame, GcAssumption DEF FrameOK, Node
  <1>4. Hand(Top) = {Top.z} /\ Bare(Top)
    BY <1>2 DEF Hand, Refs, Bare, Own, Moves, Drops, Lists
  <1>5. Top.z \in Alive /\ (Top.z \in Dying => Top.z \in Listed)
    BY <1>3, ListedIs DEF RefOK, Alive
  <1>6. CASE stack' = Return /\ Top.z \in Listed
    <2>1. Calls' = SetOf(Return) /\ OwnersSame BY <1>1, <1>4, <1>6, ReturnSets
    <2>2. Live' = Live BY <1>2, <2>1, LiveStill
    <2>3. WordsStay BY <1>2, <2>1, LiveStill, WordsSame DEF Collects
    <2>4. Top.z \notin Live
      BY <1>1, <1>6, ListedIs, SetParts DEF Live, Dying, Base, StackInv
    <2>5. {} \in SUBSET Node OBVIOUS
    <2>6. Words' /\ KnownQuiet'
      BY <1>2, <1>4, <2>1, <2>2, <2>3, <2>4, <2>5, NoInner, StillKnown DEF Collects
    <2> QED BY <1>2, <1>6, <2>6, KnownBack
  <1>7. CASE Top.z \notin Listed /\ type[Top.z] = "object"
    <2>1. PICK o : o = Holder(Top.z) OBVIOUS
    <2>2. o \in Obj /\ content[Top.z] = {o} /\ o \in Node \ Zval
      BY <1>1, <1>3, <1>7, <2>1, Handle
    <2>3. o \in Alive BY <1>1, <1>3, <1>5, <1>7, <2>2 DEF Closed
    <2>4. type[o] = "store" BY <1>1, <2>2, <2>3 DEF Types, Alive
    <2>5. PICK c : c = [Top EXCEPT !.n = o] OBVIOUS
    <2>6. c \in Frame /\ c.op = "root" /\ c.z = Top.z /\ c.n = o
      BY <1>2, <1>3, <2>2, <2>5 DEF Frame
    <2>7. stack' = Goto(c) BY <1>7, <2>1, <2>4, <2>5 DEF RootRedirect
    <2>8. Same(c, Top) /\ Gathers(c) = {}
      BY <1>2, <2>6 DEF Same, Own, Moves, Drops, Lists, Gathers
    <2>9. Calls' = {c} \cup SetOf(Return) /\ Top' = c /\ OwnersSame /\ Gathered' = {}
      BY <1>1, <2>6, <2>7, <2>8, GotoSets
    <2>10. WordsStay BY <1>2, <2>9, LiveStill, WordsSame DEF Collects
    <2>11. HandOK(c)' BY <1>2, <1>3, <2>2, <2>6 DEF HandOK
    <2>12. o \in Sources'
      <3>1. o \in Hand(c) BY <2>6 DEF Hand
      <3> QED BY <2>9, <3>1 DEF Sources, Known, Hands, Hand, Refs
    <2>13. PICK E \in SUBSET Node : E = {Top.z} BY <1>3
    <2>14. rc'[Top.z] >= 1
      <3>1. Top \in Calls BY <1>1, TopFrame
      <3> QED BY <1>1, <1>2, <3>1 DEF Words, HandOK
    <2>15. Inner(E) BY <1>3, <2>2, <2>9, <2>12, <2>13, <2>14 DEF Inner
    <2>16. Words' /\ KnownQuiet'
      BY <1>2, <1>4, <2>9, <2>10, <2>11, <2>13, <2>15, StillKnown DEF Collects
    <2> QED BY <2>6, <2>9, <2>16, KnownPhaseNext DEF Collects
  <1> QED BY <1>6, <1>7 DEF RootRedirect

\* Buffering a node that is not a handle.
LEMMA BufferWords ==
  ASSUME Moving, Top.op \notin Collects, NEW n \in Node, Buffer(n), Narrows,
         n \in Zval => type[n] # "object"
  PROVE  WordsStay /\ addr'[n] # 0 /\ color'[n] = "purple"
  <1>1. stack # <<>> /\ Words /\ KnownPhase /\ RootTypes
    BY DEF Moving, KnownInv, Working, GcInv, Base
  <1>2. KnownQuiet BY <1>1 DEF KnownPhase, Collects
  <1>3. \A m \in Live' : m \in Live BY DEF Narrows
  <1>4. PICK s \in Slot : addr' = [addr EXCEPT ![n] = s]
    <2>1. \E s \in Slot : s \notin Roots BY DEF Buffer, Roots
    <2> QED BY <2>1 DEF Buffer
  <1>5. s # 0 BY <1>4, GcAssumption DEF Slot
  <1>6. \A m \in Node : /\ addr'[m] = (IF m = n THEN s ELSE addr[m])
                        /\ color'[m] = IF m = n THEN "purple" ELSE color[m]
    BY <1>1, <1>4 DEF Buffer, RootTypes
  <1>7. \A m \in Live : m \in Node BY DEF Live, Alive
  <1>8. \A z \in Zval : type'[z] = "object" => addr'[z] = 0
    BY <1>1, <1>6 DEF Words, Narrows, Node
  <1>9. \A m \in Live' : addr[m] # 0 => addr'[m] # 0 BY <1>3, <1>5, <1>6, <1>7
  <1>10. \A m \in Live' : addr'[m] # 0 => color'[m] = "purple"
    BY <1>2, <1>3, <1>6, <1>7 DEF KnownQuiet
  <1>11. \A m \in Live' : color'[m] = "purple" /\ addr'[m] = 0
                            => color[m] = "purple" /\ addr[m] = 0
    BY <1>3, <1>5, <1>6, <1>7
  <1> QED BY <1>5, <1>6, <1>8, <1>9, <1>10, <1>11 DEF WordsStay

\* A live node that is purple and has a slot is known.
LEMMA RootSource ==
  ASSUME Moving, NEW n \in Node, addr'[n] # 0, color'[n] = "purple"
  PROVE  n \in Sources'
  BY SlotKnownNext DEF SlotKnown, Moving, GcInv, Base

\* The node is buffered, or was purple and has a slot, was given up on, or waits.
LEMMA RootKnownKnown ==
  ASSUME Moving, NEW n \in Node, RootKnown(n) \/ RootBuffer(n)
  PROVE  KnownInv'
  <1>1. Base /\ stack # <<>> /\ Words /\ KnownPhase /\ RootTypes
    BY DEF Moving, Working, GcInv, Base, KnownInv
  <1>2. /\ Top.op = "root" /\ Top.n = n /\ (n \in Zval => type[n] # "object")
        /\ stack' = Return /\ UNCHANGED <<type, content>>
    BY GcAssumption DEF RootKnown, RootBuffer, AtRoot, heapVars, Node
  <1>3. KnownQuiet BY <1>1, <1>2 DEF KnownPhase
  <1>4. Hand(Top) = {n} /\ Bare(Top)
    BY <1>2 DEF Hand, Refs, Bare, Own, Moves, Drops, Lists
  <1>5. Calls' = SetOf(Return) /\ OwnersSame BY <1>1, <1>2, <1>4, ReturnSets
  <1>6. Live' = Live /\ Narrows BY <1>2, <1>5, LiveStill
  <1>7. \A m \in Live : m \in Node BY DEF Live, Alive
  <1>8. WordsStay /\ (n \in Live => n \in Sources')
    <2>1. CASE RootKnown(n)
      <3>1. /\ color[n] = "purple" \/ addr[n] # 0
            /\ color' = [color EXCEPT ![n] = "purple"] /\ addr' = addr
        BY <2>1 DEF RootKnown
      <3>2. \A m \in Node : color'[m] = IF m = n THEN "purple" ELSE color[m]
        BY <1>1, <3>1 DEF RootTypes
      <3>3. WordsStay
        BY <1>1, <1>2, <1>3, <1>6, <1>7, <3>1, <3>2 DEF WordsStay, KnownQuiet, Words
      <3>4. CASE addr[n] # 0 BY <3>1, <3>2, <3>3, <3>4, RootSource
      <3>5. CASE addr[n] = 0 /\ n \in Live
        <4>1. n \in forgotten \cup Waits BY <1>3, <3>1, <3>5 DEF KnownQuiet, Noted
        <4>2. CASE n \in forgotten
          <5>1. type'[n] # "free" BY <1>2, <3>5 DEF Live, Alive
          <5>2. n \in forgotten' BY <3>1, <3>5, <4>2, <5>1 DEF Moving, Forgetting
          <5> QED BY <3>3, <5>2 DEF Sources, Known
        <4>3. CASE n \in Waits
          <5>1. PICK d \in Calls : d.op = "collected" /\ d.n = n BY <4>3 DEF Waits
          <5>2. d \in Calls' BY <1>1, <1>2, <1>5, <5>1, TopFrame
          <5>3. n \in Hand(d) BY <5>1 DEF Hand
          <5> QED BY <3>3, <5>2, <5>3 DEF Sources, Known, Hands, Hand, Refs
        <4> QED BY <4>1, <4>2, <4>3
      <3> QED BY <3>3, <3>4, <3>5
    <2>2. CASE RootBuffer(n)
      <3>1. Buffer(n) BY <2>2 DEF RootBuffer
      <3>2. Top.op \notin Collects BY <1>2 DEF Collects
      <3>3. WordsStay /\ addr'[n] # 0 /\ color'[n] = "purple"
        BY <1>2, <1>6, <3>1, <3>2, BufferWords
      <3> QED BY <3>3, RootSource
    <2> QED BY <2>1, <2>2
  <1>9. Words' /\ KnownQuiet'
    <2>1. {} \in SUBSET Node OBVIOUS
    <2> QED BY <1>2, <1>4, <1>5, <1>6, <1>8, <2>1, NoInner, StillKnown DEF Collects
  <1> QED BY <1>2, <1>9, KnownBack
-----------------------------------------------------------------------------
\* Counts stay natural numbers in a step.
LEMMA TypeNext ==
  GcInv' => TypeOK'
  BY TypeFollows, PTL

\* After the collection it forced, gc_zval_possible_root buffers the node or gives it
\* up; the handle it was called for is counted still, or given up too.
LEMMA CollectedKnown ==
  ASSUME Moving, RootCollected
  PROVE  KnownInv'
  <1>1. Base /\ stack # <<>> /\ Words /\ Types
    BY DEF Moving, Working, GcInv, Base, KnownInv
  <1>2. /\ Top.op = "collected" /\ rc' = [rc EXCEPT ![Top.z] = @ - 1] /\ stack' = Return
        /\ UNCHANGED <<type, content>>
        /\ Buffer(Top.n) \/ UNCHANGED gcVars
    BY DEF RootCollected
  <1>3. Top \in Calls /\ Top.z \in Zval /\ Top.n \in Node /\ Top.z \in Node
    BY <1>1, <1>2, TopFrame DEF FrameOK, Node
  <1>4. Hand(Top) = {Top.z, Top.n} /\ Bare(Top) /\ Top.op \notin Collects
    BY <1>2 DEF Hand, Refs, Bare, Own, Moves, Drops, Lists, Collects
  <1>5. Calls' = SetOf(Return) /\ OwnersSame /\ Gathered' = {}
    BY <1>1, <1>2, <1>4, ReturnSets
  <1>6. Live' = Live /\ Narrows BY <1>2, <1>5, LiveStill
  <1>7. HandOK(Top) BY <1>1, <1>3 DEF Words
  <1>8. WordsStay
    <2>1. CASE Buffer(Top.n)
      <3>1. Top.n \in Zval => type[Top.n] # "object" BY <1>2, <1>7 DEF HandOK
      <3> QED BY <1>3, <1>4, <1>6, <2>1, <3>1, BufferWords
    <2>2. CASE UNCHANGED gcVars BY <1>4, <1>6, <2>2, WordsSame
    <2> QED BY <1>2, <2>1, <2>2
  <1>9. ASSUME NEW n \in Live', addr'[n] # 0 PROVE n \in Sources'
    <2>1. n \in Node BY DEF Live, Alive
    <2> QED BY <1>8, <1>9, <2>1, RootSource DEF WordsStay
  <1>10. ASSUME NEW n \in Live', addr'[n] = 0, n = Top.n \/ (n = Top.z /\ rc'[n] = 0)
         PROVE  n \in Sources'
    <2>1. n \in Node /\ type'[n] # "free" BY DEF Live, Alive
    <2>2. n \in forgotten' BY <1>2, <1>10, <2>1 DEF Moving, Forgetting
    <2> QED BY <2>2 DEF Sources, Known
  <1>11. CASE Top.z \in Live' => Top.z \in Sources'
    <2>1. \A n \in Live' : n \in Hand(Top) => n \in Sources'
      BY <1>4, <1>9, <1>10, <1>11
    <2>2. {} \in SUBSET Node OBVIOUS
    <2>3. Words' /\ KnownQuiet'
      BY <1>2, <1>4, <1>5, <1>8, <2>1, <2>2, NoInner, StillKnown
    <2> QED BY <1>2, <2>3, KnownBack
  <1>12. CASE Top.z \in Live' /\ Top.z \notin Sources'
    <2>1. Top.z # Top.n /\ rc'[Top.z] # 0 BY <1>9, <1>10, <1>12
    <2>2. rc'[Top.z] >= 1
      <3>1. TypeOK' BY TypeNext DEF Moving
      <3>2. rc'[Top.z] >= 0 /\ rc'[Top.z] \in Int
        BY <1>3, <1>12, <3>1 DEF TypeOK, Live, Alive
      <3> QED BY <2>1, <3>2
    <2>3. content[Top.z] = {Top.n} BY <1>2, <1>6, <1>7, <1>12, <2>1 DEF HandOK
    <2>4. Top.n \in Live' => Top.n \in Sources' BY <1>9, <1>10
    <2>5. PICK E \in SUBSET Node : E = {Top.z} BY <1>3
    <2>6. Inner(E) BY <1>5, <2>1, <2>2, <2>3, <2>4, <2>5 DEF Inner
    <2>7. Words' /\ KnownQuiet'
      BY <1>2, <1>4, <1>5, <1>8, <2>4, <2>5, <2>6, StillKnown
    <2> QED BY <1>2, <2>7, KnownBack
  <1> QED BY <1>11, <1>12

\* The buffer is full: the node waits, with its handle, for the collection.
LEMMA FullKnown ==
  ASSUME Moving, NEW n \in Node, RootFull(n)
  PROVE  KnownInv'
  <1>1. Base /\ stack # <<>> /\ Words /\ KnownPhase /\ RootTypes
    BY DEF Moving, Working, GcInv, Base, KnownInv
  <1>2. /\ Top.op = "root" /\ Top.n = n /\ (n \in Zval => type[n] # "object")
        /\ color' = [color EXCEPT ![n] = "purple"]
        /\ UNCHANGED <<type, content>> /\ UNCHANGED <<addr, slots>>
    BY GcAssumption DEF RootFull, AtRoot, Node
  <1>3. KnownQuiet BY <1>1, <1>2 DEF KnownPhase
  <1>4. Hand(Top) = {n} /\ Top \in Frame /\ HandOK(Top)
    BY <1>1, <1>2, TopFrame DEF Hand, Refs, Words
  <1>5. PICK a : a = gc_collect_cycles OBVIOUS
  <1>6. PICK b : b = [Top EXCEPT !.op = "collected"] OBVIOUS
  <1>7. a \in Frame /\ a.op = "mark" /\ a.rest = {} /\ a.list = Roots
    BY <1>5, CallFrame DEF Op, gc_collect_cycles, Gc, Call, Roots
  <1>8. b \in Frame /\ b.op = "collected" /\ b.z = Top.z /\ b.n = n
    BY <1>2, <1>4, <1>6 DEF Frame, Op
  <1>9. stack' = <<a>> \o (<<b>> \o Return) BY <1>5, <1>6 DEF RootFull, Goto
  <1>10. Bare(a) /\ Same(b, Top)
    BY <1>2, <1>7, <1>8 DEF Bare, Same, Own, Moves, Drops, Lists
  <1>11. Calls' = {a, b} \cup SetOf(Return) /\ Top' = a /\ OwnersSame
    BY <1>1, <1>7, <1>8, <1>9, <1>10, CallSets
  <1>12. Live' = Live /\ Narrows BY <1>2, <1>11, LiveStill
  <1>13. \A m \in Live : m \in Node BY DEF Live, Alive
  <1>14. n \in Waits' /\ n \in Sources'
    <2>1. n \in Hand(b) BY <1>8 DEF Hand
    <2> QED BY <1>8, <1>11, <2>1 DEF Waits, Sources, Known, Hands, Hand, Refs
  <1>15. WordsStay
    <2>1. \A m \in Node : color'[m] = IF m = n THEN "purple" ELSE color[m]
      BY <1>1, <1>2 DEF RootTypes
    <2> QED BY <1>1, <1>2, <1>3, <1>12, <1>13, <1>14, <2>1 DEF WordsStay, KnownQuiet, Words
  <1>16. HandOK(a)' /\ HandOK(b)'
    <2>1. HandOK(a)' BY <1>7 DEF HandOK
    <2>2. b.n # b.z /\ b.z \in Live' => content'[b.z] = {b.n}
      BY <1>2, <1>4, <1>8, <1>12 DEF HandOK
    <2> QED BY <1>2, <1>8, <2>1, <2>2 DEF HandOK
  <1>17. Words' /\ KnownQuiet'
    <2>1. {} \in SUBSET Node OBVIOUS
    <2> QED BY <1>2, <1>4, <1>11, <1>14, <1>15, <1>16, <2>1, NoInner, StillKnown DEF Collects
  <1>18. Roots' = Roots BY <1>2 DEF Roots
  <1> QED BY <1>7, <1>11, <1>17, <1>18, KnownPhaseNext

\* The collector leaves out a listed handle.
LEMMA SkipKnown ==
  ASSUME Moving, NEW z \in Zval, Top.op = "destroy", z \in Top.rest, DestroySkip(z)
  PROVE  KnownInv'
  <1>1. Base /\ stack # <<>> BY DEF Moving, Working, GcInv
  <1>2. PICK c : c = [Top EXCEPT !.rest = @ \ {z}] OBVIOUS
  <1>3. c \in Frame /\ Same(c, Top) /\ c.op = "destroy" BY <1>1, <1>2, DestroyTop
  <1>4. stack' = Goto(c) /\ UNCHANGED <<type, content>> /\ UNCHANGED gcVars
    BY <1>2 DEF DestroySkip, heapVars
  <1>5. Calls' = {c} \cup SetOf(Return) /\ Top' = c /\ OwnersSame
    BY <1>1, <1>3, <1>4, GotoSets
  <1>6. WordsStay BY <1>4, <1>5, LiveStill, WordsSame DEF Collects
  <1>7. HandOK(c)' /\ Hand(Top) = {} BY <1>3 DEF HandOK, Hand, Refs
  <1>8. Words' /\ KnownQuiet'
    <2>1. {} \in SUBSET Node OBVIOUS
    <2> QED BY <1>4, <1>5, <1>6, <1>7, <2>1, NoInner, StillKnown DEF Collects
  <1> QED BY <1>3, <1>5, <1>8, KnownPhaseNext DEF Collects
-----------------------------------------------------------------------------
\* A call of zval_ptr_dtor takes U: the zval z, and perhaps its object.
Seizes(z, U) ==
    /\ z = Top.z /\ z \in U /\ U \subseteq Node /\ U \cap Zval = {z} /\ Unbuffer(U)
    /\ \A m \in Node : m # z => type'[m] = type[m] /\ content'[m] = content[m]
    /\ type'[z] = "object" => type[z] = "object"
    /\ type'[z] # "free" /\ content'[z] \subseteq content[z]
    /\ Owned' = Owned \cup U
    /\ Moved \subseteq Moved' /\ Moved' \subseteq Moved \cup U
    /\ Stale \subseteq Stale' /\ Stale' \subseteq Stale \cup U
    /\ SetOf(Return) \subseteq Calls' /\ Top'.op \notin Collects

\* What U contains is dying too, or in the hands of the calls.
LEMMA SeizesKnown ==
  ASSUME Moving, Top.op = "dtor", NEW z, LastRef(z), NEW U, Seizes(z, U),
         \A m \in U : \A k \in content[m] : k \in U \/ k \in Sources',
         \A c \in Calls' : c \in SetOf(Return) \/ HandOK(c)'
  PROVE  KnownInv'
  <1>1. Base /\ stack # <<>> /\ Words /\ KnownPhase /\ RootTypes /\ Types
    BY DEF Moving, Working, GcInv, Base, KnownInv
  <1>2. KnownQuiet BY <1>1 DEF KnownPhase
  <1>3. z \in Zval /\ z \in Node /\ z \in Alive /\ z \notin Dying /\ z \notin Obj
        /\ type[z] # "free"
    BY GcAssumption DEF LastRef, Alive
  <1>4. Alive' = Alive BY <1>3 DEF Alive, Seizes
  <1>5. \A m \in Node : content'[m] \subseteq content[m] BY DEF Seizes
  <1>6. Dying \subseteq Dying' /\ U \subseteq Dying'
    <2>1. ASSUME NEW o \in Doomed PROVE o \in Dying'
      <3>1. o \in Obj /\ type[o] = "store" /\ \A m \in Node : o \in content[m] => m \in Stale
        BY DEF Doomed
      <3>2. type'[o] = "store" BY <1>3, <3>1 DEF Seizes, Node
      <3>3. \A m \in Node : o \in content'[m] => m \in Stale'
        BY <1>5, <3>1 DEF Seizes
      <3> QED BY <3>1, <3>2, <3>3 DEF Dying, Doomed
    <2> QED BY <2>1 DEF Dying, Seizes
  <1>7. \A m \in Live' : m \in Live /\ m \notin U /\ m # z /\ m \in Node
    BY <1>4, <1>6 DEF Live, Alive, Seizes
  <1>8. \A m \in Node : m \notin U /\ m \in Gone' => m \in Gone
    BY DEF Gone, Seizes
  <1>9. Gone \subseteq Owned /\ Dying \subseteq Node
    BY <1>1, SetParts DEF Base, StackInv, Gone, Dying, Doomed, Node
  <1>10. Narrows
    <2>1. \A y \in Zval : type'[y] = "object" => type[y] = "object" BY DEF Seizes, Node
    <2> QED BY <1>7, <2>1 DEF Narrows, Seizes
  <1>11. ASSUME NEW n \in Leaves PROVE n \in Live' => n \in Sources'
    <2>1. PICK m \in Dying \ Gone : n \in content[m] BY DEF Leaves
    <2>2. CASE m \in U
      <3>1. n \in U \/ n \in Sources' BY <2>1, <2>2
      <3> QED BY <1>7, <3>1
    <2>3. CASE m \notin U
      <3>1. m \in Node /\ m # z BY <1>9, <2>1, <2>3 DEF Seizes
      <3>2. m \in Dying' \ Gone' /\ content'[m] = content[m]
        BY <1>6, <1>8, <2>1, <2>3, <3>1 DEF Seizes
      <3> QED BY <2>1, <3>2 DEF Sources, Known, Leaves
    <2> QED BY <2>2, <2>3
  <1>12. Released
    <2> SUFFICES ASSUME NEW m \in Live, m \notin Live'
                 PROVE  \/ m \in Dying' \ Gone' /\ content'[m] = content[m]
                        \/ \A k \in content[m] : k \in Live' => k \in Sources'
      BY DEF Released
    <2>1. CASE m \in U BY <1>7, <2>1
    <2>2. CASE m \notin U
      <3>1. m \in Node /\ m # z /\ m \notin Dying /\ m \in Alive
        BY <2>2 DEF Live, Alive, Seizes
      <3>2. m \in Dying' BY <1>4, <3>1 DEF Live
      <3>3. m \notin Gone' BY <1>8, <1>9, <2>2, <3>1 DEF Dying
      <3> QED BY <3>1, <3>2, <3>3 DEF Seizes
    <2> QED BY <2>1, <2>2
  <1>13. WordsStay
    <2>1. \A m \in Node : m \notin U => addr'[m] = addr[m] /\ color'[m] = color[m]
      BY DEF Seizes, Unbuffer
    <2>2. \A m \in Node : addr[m] = 0 => addr'[m] = 0 BY DEF Seizes, Unbuffer
    <2>3. \A y \in Zval : type'[y] = "object" => addr'[y] = 0
      BY <1>1, <1>10, <2>2 DEF Words, Narrows, Node
    <2> QED BY <1>2, <1>7, <2>1, <2>3 DEF WordsStay, KnownQuiet
  <1>14. Hand(Top) = {z} BY DEF Hand, Refs, Seizes
  <1>15. Words' /\ KnownQuiet'
    <2>1. \A n \in Live' : n \in Hand(Top) \/ n \in Leaves => n \in Sources'
      BY <1>7, <1>11, <1>14
    <2>2. {} \in SUBSET Node OBVIOUS
    <2>3. SetOf(Return) \subseteq Calls' /\ Top.op \notin Collects BY DEF Seizes, Collects
    <2> QED BY <1>10, <1>12, <1>13, <2>1, <2>2, <2>3, NoInner, QuietKnown
  <1> QED BY <1>15, KnownPhaseNext DEF Seizes

\* The elements of an array are in the hands of zend_hash_destroy.
LEMMA ArrayKnown ==
  ASSUME Moving, Top.op = "dtor", DtorArray(Top.z)
  PROVE  KnownInv'
  <1>1. Base /\ stack # <<>> /\ Types /\ Working BY DEF Moving, Working, GcInv, Base
  <1>2. PICK z : z = Top.z OBVIOUS
  <1>3. /\ rc[z] = 1 /\ type[z] # "object" /\ Unbuffer({z})
        /\ type' = [type EXCEPT ![z] = "null"] /\ content' = [content EXCEPT ![z] = {}]
        /\ stack' = Goto(Call("elements", z, z, content[z], {}))
    BY <1>2 DEF DtorArray
  <1>4. LastRef(z) BY <1>1, <1>2, <1>3, LastRefIs
  <1>5. z \in Zval /\ z \in Node /\ content[z] \in SUBSET Node BY <1>1, <1>4 DEF LastRef, Types
  <1>6. PICK c : c = Call("elements", z, z, content[z], {}) OBVIOUS
  <1>7. c \in Frame /\ c.op = "elements" /\ c.z = z /\ c.rest = content[z]
    BY <1>5, <1>6, CallFrame DEF Op, Call
  <1>8. Own(c) = {z} /\ Moves(c) = {} /\ Drops(c) = {}
    BY <1>5, <1>7 DEF Own, Moves, Drops, Lists
  <1>9. stack' = Goto(c) BY <1>3, <1>6
  <1>10. /\ Calls' = {c} \cup SetOf(Return) /\ Top' = c
         /\ Owned' = Own(c) \cup OwnedBy(SetOf(Return))
         /\ Moved' = Moves(c) \cup MovedBy(SetOf(Return))
         /\ Stale' = Drops(c) \cup StaleBy(SetOf(Return))
    BY <1>1, <1>7, <1>9, GotoSets
  <1>11. Bare(Top) BY DEF Bare, Own, Moves, Drops, Lists
  <1>12. Owned' = Owned \cup {z} /\ Moved' = Moved /\ Stale' = Stale
    BY <1>1, <1>8, <1>10, <1>11, SplitSets DEF Base, Bare
  <1>13. /\ \A m \in Node : m # z => type'[m] = type[m] /\ content'[m] = content[m]
         /\ type'[z] = "null" /\ content'[z] = {}
    BY <1>1, <1>3, <1>5 DEF Types
  <1>14. PICK U : U = {z} OBVIOUS
  <1>15. Seizes(z, U)
    BY <1>2, <1>3, <1>5, <1>7, <1>10, <1>12, <1>13, <1>14 DEF Seizes, Collects
  <1>16. \A m \in U : \A k \in content[m] : k \in Sources'
    <2>1. Hand(c) \subseteq Hands' BY <1>10 DEF Hands, Hand, Refs
    <2>2. Hand(c) = content[z] BY <1>7 DEF Hand, Refs
    <2> QED BY <1>14, <2>1, <2>2 DEF Sources, Known
  <1>17. HandOK(c)' BY <1>7 DEF HandOK
  <1> QED BY <1>4, <1>10, <1>15, <1>16, <1>17, SeizesKnown
-----------------------------------------------------------------------------
\* The last handle takes the object with it, whose properties are released.
LEMMA LastHandleKnown ==
  ASSUME Moving, Top.op = "dtor", NEW z, z = Top.z, rc[z] = 1, type[z] = "object",
         NEW o, o = Holder(z), Unbuffer({z, o}), UNCHANGED <<type, content>>,
         stack' = Goto(Call("properties", z, o, content[o], {}))
  PROVE  KnownInv'
  <1>1. Base /\ stack # <<>> /\ Types /\ Working BY DEF Moving, Working, GcInv, Base
  <1>2. LastRef(z) BY <1>1, LastRefIs
  <1>3. z \in Zval /\ z \in Node /\ z \in Alive BY <1>2 DEF LastRef
  <1>4. o \in Obj /\ o \in Node /\ o \notin Zval /\ content[z] = {o}
        /\ content[o] \in SUBSET Node
    BY <1>1, <1>2, LastHandle DEF Types
  <1>5. PICK c : c = Call("properties", z, o, content[o], {}) OBVIOUS
  <1>6. c \in Frame /\ c.op = "properties" /\ c.z = z /\ c.n = o /\ c.rest = content[o]
    BY <1>3, <1>4, <1>5, CallFrame DEF Op, Call
  <1>7. Own(c) = {z, o} /\ Moves(c) = {o} /\ Drops(c) = {}
    BY <1>3, <1>4, <1>6 DEF Own, Moves, Drops, Lists
  <1>8. stack' = Goto(c) BY <1>5
  <1>9. /\ Calls' = {c} \cup SetOf(Return) /\ Top' = c
        /\ Owned' = Own(c) \cup OwnedBy(SetOf(Return))
        /\ Moved' = Moves(c) \cup MovedBy(SetOf(Return))
        /\ Stale' = Drops(c) \cup StaleBy(SetOf(Return))
    BY <1>1, <1>6, <1>8, GotoSets
  <1>10. Bare(Top) BY DEF Bare, Own, Moves, Drops, Lists
  <1>11. PICK U : U = {z, o} OBVIOUS
  <1>12. Owned' = Owned \cup U /\ Moved' = Moved \cup {o} /\ Stale' = Stale
    BY <1>1, <1>7, <1>9, <1>10, <1>11, SplitSets DEF Base, Bare
  <1>13. type'[z] # "free" BY <1>3 DEF Alive
  <1>14. Seizes(z, U)
    BY <1>3, <1>4, <1>6, <1>9, <1>11, <1>12, <1>13 DEF Seizes, Collects
  <1>15. ASSUME NEW m \in U, NEW k \in content[m] PROVE k \in U \/ k \in Sources'
    <2>1. CASE m = z BY <1>4, <1>11, <1>15, <2>1
    <2>2. CASE m = o
      <3>1. Hand(c) \subseteq Hands' BY <1>9 DEF Hands, Hand, Refs
      <3>2. Hand(c) = content[o] BY <1>6 DEF Hand, Refs
      <3> QED BY <1>15, <2>2, <3>1, <3>2 DEF Sources, Known
    <2> QED BY <1>11, <1>15, <2>1, <2>2
  <1>16. HandOK(c)' BY <1>6 DEF HandOK
  <1> QED BY <1>2, <1>9, <1>14, <1>15, <1>16, SeizesKnown

\* Another handle is left: the object is in the hands of gc_zobj_possible_root.
LEMMA OtherHandleKnown ==
  ASSUME Moving, Top.op = "dtor", NEW z, z = Top.z, rc[z] = 1, type[z] = "object",
         NEW o, o = Holder(z), Unbuffer({z}), UNCHANGED <<type, content>>,
         stack' = <<Call("root", z, o, {}, {})>> \o Goto(Call("efree", z, z, {}, {}))
  PROVE  KnownInv'
  <1>1. Base /\ stack # <<>> /\ Types /\ Working BY DEF Moving, Working, GcInv, Base
  <1>2. LastRef(z) BY <1>1, LastRefIs
  <1>3. z \in Zval /\ z \in Node /\ z \in Alive BY <1>2 DEF LastRef
  <1>4. o \in Obj /\ o \in Node /\ o \notin Zval /\ content[z] = {o}
    BY <1>1, <1>2, LastHandle
  <1>5. PICK a : a = Call("root", z, o, {}, {}) OBVIOUS
  <1>6. PICK b : b = Call("efree", z, z, {}, {}) OBVIOUS
  <1>7. a \in Frame /\ a.op = "root" /\ a.z = z /\ a.n = o
    BY <1>3, <1>4, <1>5, CallFrame DEF Op, Call
  <1>8. b \in Frame /\ b.op = "efree" /\ b.z = z
    BY <1>3, <1>6, CallFrame DEF Op, Call
  <1>9. stack' = <<a>> \o (<<b>> \o Return) BY <1>5, <1>6 DEF Goto
  <1>10. /\ Own(a) = {} /\ Moves(a) = {} /\ Drops(a) = {}
         /\ Own(b) = {z} /\ Moves(b) = {} /\ Drops(b) = {z}
    BY <1>3, <1>7, <1>8 DEF Own, Moves, Drops, Lists
  <1>11. /\ Calls' = {a, b} \cup SetOf(Return) /\ Top' = a
         /\ Owned' = Own(a) \cup Own(b) \cup OwnedBy(SetOf(Return))
         /\ Moved' = Moves(a) \cup Moves(b) \cup MovedBy(SetOf(Return))
         /\ Stale' = Drops(a) \cup Drops(b) \cup StaleBy(SetOf(Return))
    BY <1>1, <1>7, <1>8, <1>9, CallSets
  <1>12. Bare(Top) BY DEF Bare, Own, Moves, Drops, Lists
  <1>13. PICK U : U = {z} OBVIOUS
  <1>14. Owned' = Owned \cup U /\ Moved' = Moved /\ Stale' = Stale \cup U
    BY <1>1, <1>10, <1>11, <1>12, <1>13, SplitSets DEF Base, Bare
  <1>15. type'[z] # "free" BY <1>3 DEF Alive
  <1>16. Seizes(z, U)
    BY <1>3, <1>7, <1>11, <1>13, <1>14, <1>15 DEF Seizes, Collects
  <1>17. ASSUME NEW m \in U, NEW k \in content[m] PROVE k \in Sources'
    <2>1. Hand(a) \subseteq Hands' BY <1>11 DEF Hands, Hand, Refs
    <2>2. o \in Hand(a) BY <1>7 DEF Hand
    <2> QED BY <1>4, <1>13, <1>17, <2>1, <2>2 DEF Sources, Known
  <1>18. HandOK(a)' /\ HandOK(b)'
    <2>1. z \notin Live' BY <1>13, <1>14 DEF Live, Dying
    <2>2. a.n # a.z BY <1>3, <1>4, <1>7
    <2> QED BY <1>7, <1>8, <2>1, <2>2 DEF HandOK
  <1>19. \A c \in Calls' : c \in SetOf(Return) \/ HandOK(c)' BY <1>11, <1>18
  <1> QED BY <1>2, <1>16, <1>17, <1>19, SeizesKnown

\* zval_ptr_dtor, whatever it finds.
LEMMA DtorKnown ==
  ASSUME Moving, zval_ptr_dtor
  PROVE  KnownInv'
  <1>1. Top.op = "dtor" BY DEF zval_ptr_dtor
  <1>2. CASE DtorShared(Top.z) BY <1>1, <1>2, SharedKnown
  <1>3. CASE DtorArray(Top.z) BY <1>1, <1>3, ArrayKnown
  <1>4. CASE DtorHandle(Top.z)
    <2>1. PICK z : z = Top.z OBVIOUS
    <2>2. PICK o : o = Holder(z) OBVIOUS
    <2>3. rc[z] = 1 /\ type[z] = "object" /\ UNCHANGED <<type, content>>
      BY <1>4, <2>1 DEF DtorHandle
    <2>4. type[o] = "store"
      <3>1. Working /\ LastRef(z) BY <1>1, <2>1, <2>3, LastRefIs DEF Moving
      <3> QED BY <1>1, <2>2, <2>3, <3>1, LastHandle
    <2>5. \/ /\ Unbuffer({z, o})
             /\ stack' = Goto(Call("properties", z, o, content[o], {}))
          \/ /\ Unbuffer({z})
             /\ stack' = <<Call("root", z, o, {}, {})>> \o Goto(Call("efree", z, z, {}, {}))
      BY <1>4, <2>1, <2>2, <2>4 DEF DtorHandle
    <2> QED BY <1>1, <2>1, <2>2, <2>3, <2>5, LastHandleKnown, OtherHandleKnown
  <1> QED BY <1>2, <1>3, <1>4 DEF zval_ptr_dtor
-----------------------------------------------------------------------------
\* What a call frees does not live, and nothing that lives is known by it alone.
LEMMA FreesKnown ==
  ASSUME Moving, NEW U, Frees(U), UNCHANGED gcVars
  PROVE  KnownInv'
  <1>1. Base /\ Phase /\ stack # <<>> /\ Types /\ Working /\ StackInv /\ Frames
    BY DEF Moving, Working, GcInv, Base
  <1>2. /\ Calls' = SetOf(Return) /\ Owned' = Owned \ U
        /\ (\A m : m \notin U => (m \in Moved' <=> m \in Moved)
                                 /\ (m \in Stale' <=> m \in Stale))
        /\ Dying' = Dying \ U /\ Alive' = Alive \ U
    BY <1>1, FreesSets
  <1>3. /\ U \subseteq Owned /\ Top.op \notin Collects
        /\ \A k \in U, m \in Node \ U : m \in content[k] => k \in Spent
    BY <1>1, FreesOwn
  <1>4. /\ Top.op \in {"elements", "properties", "efree", "destroy"}
        /\ Top.op # "efree" => Top.rest = {}
        /\ \A m \in Node : type'[m] = IF m \in U THEN "free" ELSE type[m]
        /\ \A m \in Node : content'[m] = IF m \in U THEN {} ELSE content[m]
        /\ stack' = Return
    BY DEF Frees
  <1>5. Spent = Gone /\ Dying \subseteq Node
    <2>1. Spent = Moved \cup {z \in Stale : type[z] = "object"}
      BY <1>1, <1>3, QuietFacts
    <2>2. Dying \subseteq Node BY <1>1, SetParts DEF StackInv, Dying, Doomed, Node
    <2> QED BY <2>1, <2>2 DEF Gone
  <1>6. Live' = Live /\ \A m \in Live : m \in Node /\ m \notin U
    BY <1>2, <1>3 DEF Live, Dying, Alive
  <1>7. Narrows /\ Released
    <2>1. \A m \in Live' : content'[m] = content[m] BY <1>4, <1>6
    <2>2. \A y \in Zval : type'[y] = "object" => type[y] = "object" BY <1>4 DEF Node
    <2> QED BY <1>6, <2>1, <2>2 DEF Narrows, Released
  <1>8. WordsStay BY <1>3, <1>7, WordsSame
  <1>9. Hand(Top) = {} BY <1>4 DEF Hand, Refs
  <1>10. ASSUME NEW n \in Leaves, n \in Live' PROVE n \in Sources'
    <2>1. PICK m \in Dying \ Gone : n \in content[m] BY <1>10 DEF Leaves
    <2>2. n \in Node /\ n \notin U BY <1>6, <1>10
    <2>3. m \notin U BY <1>3, <1>5, <2>1, <2>2
    <2>4. m \in Dying' /\ content'[m] = content[m] /\ type'[m] = type[m]
      BY <1>2, <1>4, <1>5, <2>1, <2>3
    <2>5. m \notin Gone' BY <1>2, <2>1, <2>3, <2>4 DEF Gone
    <2> QED BY <2>1, <2>4, <2>5 DEF Sources, Known, Leaves
  <1>11. Words' /\ KnownQuiet'
    <2>1. {} \in SUBSET Node OBVIOUS
    <2> QED BY <1>2, <1>3, <1>7, <1>8, <1>9, <1>10, <2>1, NoInner, QuietKnown
  <1> QED BY <1>4, <1>11, KnownBack

\* The steps by which calls free what they own, and return.
LEMMA DoneKnown ==
  ASSUME Moving, ElementsDone \/ PropertiesDone \/ efree \/ DestroyDone
  PROVE  KnownInv'
  <1>1. Base /\ stack # <<>> /\ Top \in Frame BY TopFrame DEF Moving, Working, GcInv
  <1>2. PICK U : U = Own(Top) OBVIOUS
  <1>3. PICK ns : Free(ns) /\ ns \cap Node = U
    <2>1. CASE ElementsDone
      <3>1. Free({Top.z}) /\ Top.op = "elements" BY <2>1 DEF ElementsDone
      <3>2. {Top.z} \cap Node = U
        BY <1>1, <1>2, <3>1, GcAssumption DEF Own, Frame, Node
      <3> QED BY <3>1, <3>2
    <2>2. CASE PropertiesDone
      <3>1. Free({Top.n, Top.z}) /\ Top.op = "properties" BY <2>2 DEF PropertiesDone
      <3>2. {Top.n, Top.z} \cap Node = U BY <1>2, <3>1 DEF Own
      <3> QED BY <3>1, <3>2
    <2>3. CASE efree
      <3>1. Free({Top.z}) /\ Top.op = "efree" BY <2>3 DEF efree
      <3>2. {Top.z} \cap Node = U
        BY <1>1, <1>2, <3>1, GcAssumption DEF Own, Frame, Node
      <3> QED BY <3>1, <3>2
    <2>4. CASE DestroyDone
      <3>1. Free(Top.list) /\ Top.op = "destroy" BY <2>4 DEF DestroyDone
      <3>2. Top.list \subseteq Zval BY <1>1, <3>1, TopFrame DEF FrameOK
      <3>3. Top.list \cap Node = U BY <1>2, <3>1, <3>2 DEF Own, Node
      <3> QED BY <3>1, <3>3
    <2> QED BY <2>1, <2>2, <2>3, <2>4
  <1>4. /\ stack' = Return /\ UNCHANGED gcVars
        /\ Top.op \in {"elements", "properties", "efree", "destroy"}
        /\ Top.op # "efree" => Top.rest = {}
    BY DEF ElementsDone, PropertiesDone, efree, DestroyDone
  <1>5. \A m \in Node : m \in ns <=> m \in U BY <1>3
  <1>6. Frees(U) BY <1>2, <1>3, <1>4, <1>5 DEF Frees, Free
  <1> QED BY <1>4, <1>6, FreesKnown
-----------------------------------------------------------------------------
\* The collector destroys what it listed: what that contains is in the hands of the
\* call that releases it.
LEMMA BeginKnown ==
  ASSUME Moving, NEW z, NEW V, NEW src, NEW d, Begins(z, V, src, d),
         \A m \in Node : m \notin V => addr'[m] = addr[m] /\ color'[m] = color[m],
         \A m \in Node : addr[m] = 0 => addr'[m] = 0
  PROVE  KnownInv'
  <1>1. Base /\ stack # <<>> /\ Working /\ StackInv /\ Frames /\ Words /\ KnownPhase
    BY DEF Moving, Working, GcInv, Base, KnownInv
  <1>2. PICK c : c = [Top EXCEPT !.rest = @ \ {z}] OBVIOUS
  <1>3. Begun(z, V, src, d, c) BY <1>1, <1>2, BeginsFacts
  <1>4. /\ Calls' = {d, c} \cup SetOf(Return) /\ Owned' = Owned \cup V
        /\ Moved' = Moved \cup V /\ Stale' = Stale /\ Top' = d
    <2>1. Calls' = {d, c} \cup SetOf(Return)
      <3>1. c \in Frame BY <1>3 DEF Begun
      <3>2. d \in Frame /\ stack' = <<d>> \o (<<c>> \o Return) BY <1>2 DEF Begins, Goto
      <3> QED BY <1>1, <3>1, <3>2, CallSets
    <2>2. Owned' = Owned \cup V /\ Moved' = Moved \cup V /\ Stale' = Stale
      BY <1>1, <1>2, BeginsStack
    <2>3. Top' = d BY <1>1, <1>2, BeginsStack
    <2> QED BY <2>1, <2>2, <2>3
  <1>5. Dying' = Dying /\ Alive' = Alive BY <1>1, <1>2, BeginsSets
  <1>6. Live' = Live BY <1>5 DEF Live
  <1>7. z \notin Live /\ (\A m \in Live : m \in Node /\ m \notin V)
    BY <1>3 DEF Begun, Live, Dying, Alive
  <1>8. /\ Top.op = "destroy" /\ d.op \in {"elements", "properties"} /\ d.rest = content[src]
        /\ \A m \in Node : type'[m] = IF m = z THEN "null" ELSE type[m]
        /\ \A m \in Node : content'[m] = IF m = z THEN {} ELSE content[m]
        /\ z \in Zval
    BY DEF Begins
  <1>9. Narrows /\ Released
    <2>1. \A m \in Live' : content'[m] = content[m] BY <1>6, <1>7, <1>8
    <2>2. \A y \in Zval : type'[y] = "object" => type[y] = "object" BY <1>8 DEF Node
    <2> QED BY <1>6, <2>1, <2>2 DEF Narrows, Released
  <1>10. WordsStay
    <2>1. KnownQuiet BY <1>1, <1>8 DEF KnownPhase
    <2>2. \A y \in Zval : type'[y] = "object" => addr'[y] = 0
      BY <1>1, <1>9 DEF Words, Narrows, Node
    <2> QED BY <1>6, <1>7, <2>1, <2>2 DEF WordsStay, KnownQuiet
  <1>11. ASSUME NEW n \in Leaves, n \in Live' PROVE n \in Sources'
    <2>1. PICK m \in Dying \ Gone : n \in content[m] BY <1>11 DEF Leaves
    <2>2. m \in Node BY <1>1, <2>1, SetParts DEF StackInv, Dying, Doomed, Node
    <2>3. CASE m = src
      <3>1. Hand(d) = content[src] BY <1>8 DEF Hand, Refs
      <3>2. Hand(d) \subseteq Hands' BY <1>4 DEF Hands, Hand, Refs
      <3> QED BY <2>1, <2>3, <3>1, <3>2 DEF Sources, Known
    <2>4. CASE m # src
      <3>1. m \notin V BY <2>4 DEF Begins
      <3>2. m # z
        <4>1. z \in Stale BY <1>3 DEF Begun
        <4> QED BY <2>1, <2>4, <4>1 DEF Begins, Gone
      <3>3. m \in Dying' /\ content'[m] = content[m] /\ type'[m] = type[m]
        BY <1>5, <1>8, <2>1, <2>2, <3>2
      <3>4. m \notin Gone' BY <1>4, <2>1, <3>1, <3>3 DEF Gone
      <3> QED BY <2>1, <3>3, <3>4 DEF Sources, Known, Leaves
    <2> QED BY <2>3, <2>4
  <1>12. HandOK(d)' /\ HandOK(c)'
    <2>1. c.op = "destroy" BY <1>3 DEF Begun
    <2> QED BY <1>8, <2>1 DEF HandOK
  <1>13. Words' /\ KnownQuiet'
    <2>1. {} \in SUBSET Node OBVIOUS
    <2>2. Hand(Top) = {} /\ Top.op \notin Collects BY <1>8 DEF Hand, Refs, Collects
    <2> QED BY <1>4, <1>9, <1>10, <1>11, <1>12, <2>1, <2>2, NoInner, QuietKnown
  <1>14. Top'.op \notin Collects BY <1>4, <1>8 DEF Collects
  <1> QED BY <1>13, <1>14, KnownPhaseNext

\* gc_collect_cycles destroys a listed zval, or leaves it out.
LEMMA DestroyKnown ==
  ASSUME Moving, NEW z \in Zval, Destroy(z)
  PROVE  KnownInv'
  <1>1. Base /\ Exact /\ Phase /\ stack # <<>> /\ Types /\ RootTypes
    BY DEF Moving, Working, GcInv, Base
  <1>2. Top.op = "destroy" /\ z \in Top.rest /\ z \in Node BY DEF Destroy, Node
  <1>3. Top.op \notin Collects BY <1>2 DEF Collects
  <1>4. CASE DestroyArray(z)
    <2>1. /\ type[z] = "array" /\ type' = [type EXCEPT ![z] = "null"]
          /\ content' = [content EXCEPT ![z] = {}]
          /\ stack' = <<Call("elements", None, z, content[z], {})>>
                      \o Goto([Top EXCEPT !.rest = @ \ {z}])
          /\ UNCHANGED gcVars
      BY <1>4 DEF DestroyArray
    <2>2. PICK d : d = Call("elements", None, z, content[z], {}) OBVIOUS
    <2>3. content[z] \in SUBSET Node /\ content[z] \subseteq Zval
      BY <1>1, <1>2, <2>1 DEF Types
    <2>4. d \in Frame /\ d.op = "elements" /\ d.z = None /\ d.rest = content[z]
      BY <1>2, <2>2, <2>3, CallFrame DEF Op, Call
    <2>5. Own(d) = {} /\ Moves(d) = {} /\ Keeps(d) = {}
      BY <2>4, GcAssumption DEF Own, Moves, Keeps
    <2>6. PICK V : V = {} OBVIOUS
    <2>7. V = content[z] \cap Obj BY <2>3, <2>6, GcAssumption
    <2>8. \A m \in Node : /\ type'[m] = (IF m = z THEN "null" ELSE type[m])
                          /\ content'[m] = (IF m = z THEN {} ELSE content[m])
      BY <1>1, <2>1 DEF Types
    <2>9. Begins(z, V, z, d)
      BY <1>2, <2>1, <2>2, <2>4, <2>5, <2>6, <2>7, <2>8 DEF Begins
    <2>10. addr' = addr /\ color' = color BY <2>1 DEF gcVars
    <2> QED BY <2>9, <2>10, BeginKnown
  <1>5. CASE DestroyHandle(z)
    <2>1. PICK o : o = Holder(z) OBVIOUS
    <2>2. /\ type[z] = "object" /\ type[o] = "store" /\ rc[o] <= 0
          /\ type' = [type EXCEPT ![z] = "null"]
          /\ content' = [content EXCEPT ![z] = {}] /\ Unbuffer({o})
          /\ stack' = <<Call("properties", None, o, content[o], {})>>
                      \o Goto([Top EXCEPT !.rest = @ \ {z}])
      BY <1>5, <2>1 DEF DestroyHandle
    <2>3. o \in Obj /\ o \in Node /\ content[z] = {o} /\ o \notin Zval
          /\ content[o] \in SUBSET Node
      BY <1>1, <2>1, <2>2, Handle DEF Types
    <2>4. o \in Doomed BY <1>1, <1>3, <2>2, <2>3, DoomedCount
    <2>5. PICK d : d = Call("properties", None, o, content[o], {}) OBVIOUS
    <2>6. d \in Frame /\ d.op = "properties" /\ d.z = None /\ d.rest = content[o] /\ d.n = o
      BY <2>3, <2>5, CallFrame DEF Op, Call
    <2>7. PICK V : V = {o} OBVIOUS
    <2>8. Own(d) = V /\ Moves(d) = V /\ Keeps(d) = V
      <3>1. None \notin Node BY GcAssumption DEF Node
      <3> QED BY <2>3, <2>6, <2>7, <3>1 DEF Own, Moves, Keeps
    <2>9. \A m \in Node : /\ type'[m] = (IF m = z THEN "null" ELSE type[m])
                          /\ content'[m] = (IF m = z THEN {} ELSE content[m])
      BY <1>1, <2>2 DEF Types
    <2>10. V = content[z] \cap Obj BY <2>3, <2>7
    <2>11. Begins(z, V, o, d)
      BY <1>2, <2>2, <2>3, <2>4, <2>5, <2>6, <2>7, <2>8, <2>9, <2>10 DEF Begins
    <2>12. \A m \in Node : m \notin V => addr'[m] = addr[m] /\ color'[m] = color[m]
      BY <2>2, <2>7 DEF Unbuffer
    <2>13. \A m \in Node : addr[m] = 0 => addr'[m] = 0 BY <2>2 DEF Unbuffer
    <2> QED BY <2>11, <2>12, <2>13, BeginKnown
  <1>6. CASE DestroySkip(z) BY <1>2, <1>6, SkipKnown
  <1> QED BY <1>4, <1>5, <1>6 DEF Destroy
-----------------------------------------------------------------------------
\* X holds what B has in L, and is closed under the content of C.
Spans(B, C, L, X) ==
    /\ B \subseteq Node /\ C \subseteq L /\ L \subseteq Node /\ X \subseteq Node
    /\ \A n \in L : n \in B => n \in X
    /\ \A m \in X : m \in C => content[m] \subseteq X

\* What is reached within L is reached from the part of the base that is in L.
LEMMA ReachesLive ==
  ASSUME Types, NEW B, NEW C, NEW D, NEW L, NEW X, Reaches(B, C, D), Spans(B, C, L, X),
         D \subseteq L
  PROVE  D \subseteq X
  <1>1. PICK Y \in SUBSET Node : Y = X \cup (Node \ L) BY DEF Spans
  <1>2. B \subseteq Y BY <1>1 DEF Spans
  <1>3. \A m \in Y \cap C : content[m] \subseteq Y
    <2>1. \A m \in Node : content[m] \subseteq Node BY DEF Types
    <2> QED BY <1>1, <2>1 DEF Spans
  <1>4. D \subseteq Y BY <1>2, <1>3 DEF Reaches
  <1> QED BY <1>1, <1>4

\* The collector marks, scans and collects: what is known of the live nodes stays so.
Walking ==
    /\ Words' /\ Live' = Live /\ Alive' = Alive /\ Dying' = Dying
    /\ \A n \in Live : n \in Known => n \in Known'
    /\ \A n \in Live : n \in forgotten \cup Waits => n \in forgotten' \cup Waits'

\* Of the calls a step of the collector changes only its own.
LEMMA WalkOn ==
  ASSUME Moving, Top.op \in Collects, OwnersSame, UNCHANGED <<type, content>>,
         \A m \in Node : addr[m] = 0 => addr'[m] = 0,
         \A d \in Calls : d \in Calls' \/ d.op \in Collects,
         \A d \in Calls' : d \in Calls \/ d.op \in Collects
  PROVE  Walking
  <1>1. Base /\ stack # <<>> /\ Words /\ UNCHANGED ext /\ forgotten' = Forgetting
    BY DEF Moving, Working, GcInv, KnownInv
  <1>2. Live' = Live /\ Alive' = Alive /\ Dying' = Dying /\ Leaves' = Leaves /\ Narrows
    BY LiveStill
  <1>3. Words'
    <2>1. \A y \in Zval : type'[y] = "object" => addr'[y] = 0
      BY <1>1 DEF Words, Node
    <2>2. \A d \in SetOf(Return) : d.op # "root"
      <3>1. \A d \in SetOf(Return) : d.op \in Lower \/ d.op = "scan"
        BY <1>1, Waiting DEF Base
      <3> QED BY <3>1 DEF Lower
    <2>3. \A c \in Calls' : c \in SetOf(Return) \/ HandOK(c)'
      <3>1. \A c : c.op \in Collects => HandOK(c)' BY DEF HandOK, Collects
      <3> QED BY <1>1, <3>1, TopFrame
    <2> QED BY <1>2, <2>1, <2>2, <2>3, WordsKept
  <1>4. ASSUME NEW n \in Live, n \in forgotten PROVE n \in forgotten'
    <2>1. n \in Node /\ type[n] # "free" BY DEF Live, Alive
    <2>2. addr'[n] = 0 BY <1>1, <1>4, <2>1 DEF Words
    <2> QED BY <1>1, <1>4, <2>1, <2>2 DEF Forgetting
  <1>5. Waits \subseteq Waits' BY DEF Waits, Collects
  <1>6. Hands \subseteq Hands'
    <2>1. \A d : d.op \in Collects => Hand(d) = {} BY DEF Collects, Hand, Refs
    <2> QED BY <2>1 DEF Hands, Hand, Refs
  <1>7. \A n \in Live : n \in Known => n \in Known'
    BY <1>1, <1>2, <1>4, <1>6 DEF Known, Held
  <1> QED BY <1>2, <1>3, <1>4, <1>5, <1>7 DEF Walking

\* The collector's call goes on as c.
LEMMA WalkGoto ==
  ASSUME Moving, Top.op \in Collects, NEW c \in Frame, c.op \in Collects, stack' = Goto(c),
         UNCHANGED <<type, content>>, \A m \in Node : addr[m] = 0 => addr'[m] = 0
  PROVE  Walking /\ Top' = c /\ Return' = Return /\ stack' # <<>>
  <1>1. Base /\ stack # <<>> BY DEF Moving, Working, GcInv
  <1>2. Same(c, Top) BY DEF Collects, Same, Own, Moves, Drops, Lists
  <1>3. /\ Calls' = {c} \cup SetOf(Return) /\ Top' = c /\ Return' = Return
        /\ stack' # <<>> /\ OwnersSame
    BY <1>1, <1>2, GotoSets
  <1>4. \A d \in Calls : d \in Calls' \/ d.op \in Collects BY <1>1, <1>3, TopFrame
  <1>5. \A d \in Calls' : d \in Calls \/ d.op \in Collects BY <1>1, <1>3, TopFrame
  <1>6. Walking BY <1>3, <1>4, <1>5, WalkOn
  <1> QED BY <1>3, <1>6

\* The phase of the collection.
LEMMA KnownIs ==
  ASSUME Moving
  PROVE  /\ Top.op = "mark" => KnownMarking(Top)
         /\ Top.op = "scan" => KnownScanning({})
         /\ Top.op = "black" => KnownScanning(Top.rest)
         /\ Top.op = "collect" => KnownCollecting(Top)
  BY DEF Moving, Working, KnownInv, KnownPhase

\* The invariant of the phase is that of the state.
LEMMA KnownWas ==
  ASSUME Words', stack' # <<>>,
         \/ Top'.op = "mark" /\ KnownMarking(Top)'
         \/ Top'.op = "scan" /\ KnownScanning({})'
         \/ Top'.op = "black" /\ KnownScanning(Top.rest)'
         \/ Top'.op = "collect" /\ KnownCollecting(Top)'
  PROVE  KnownInv'
  BY DEF KnownInv, KnownPhase
-----------------------------------------------------------------------------
\* What the roots of a marking are reached from, as nodes.
LEMMA MarkBase ==
  ASSUME Base, NEW S, S \subseteq Roots, NEW T, T \subseteq Roots
  PROVE  Known \cup PurpleRoots(S) \cup InSlots(T) \subseteq Node
  BY KnownNode, RootNode DEF PurpleRoots, InSlots

\* gc_mark_roots turns to a purple root, or drops one that is not.
LEMMA MarkRootKnown ==
  ASSUME Moving, NEW s \in Slot, MarkRoot(s)
  PROVE  KnownInv'
  <1>1. Base /\ stack # <<>> /\ Types /\ RootTypes /\ Phase
    BY DEF Moving, Working, GcInv, Base
  <1>2. /\ Top.op = "mark" /\ Top.rest = {} /\ s \in Top.list
        /\ UNCHANGED <<type, content>> /\ color' = color
    BY DEF MarkRoot, heapVars
  <1>3. MarkInv(Top) /\ KnownMarking(Top) BY <1>1, <1>2, PhaseIs, KnownIs
  <1>4. Top.list \subseteq Roots /\ s \in Roots BY <1>2, <1>3 DEF MarkInv
  <1>5. PICK n \in Node : n = slots[s] BY <1>1, <1>4, RootNode
  <1>6. PICK r \in SUBSET Node : r = IF color[n] = "purple" THEN {n} ELSE {} OBVIOUS
  <1>7. PICK c : c = Gc("mark", r, Top.list \ {s}) OBVIOUS
  <1>8. c \in Frame /\ c.op = "mark" /\ c.rest = r /\ c.list = Top.list \ {s}
    <2>1. Top.list \ {s} \in SUBSET (Zval \cup Slot) BY <1>4 DEF Roots
    <2> QED BY <1>7, <2>1, PhaseCall DEF Walks
  <1>9. stack' = Goto(c) BY <1>5, <1>6, <1>7 DEF MarkRoot
  <1>10. /\ \A t \in Slot : slots'[t] = IF t = s /\ color[n] # "purple" THEN None ELSE slots[t]
         /\ \A m \in Node : addr'[m] = IF m = n /\ color[n] # "purple" THEN 0 ELSE addr[m]
    BY <1>1, <1>5 DEF MarkRoot, RootTypes
  <1>11. \A m \in Node : addr[m] = 0 => addr'[m] = 0 BY <1>10
  <1>12. Walking /\ Top' = c /\ stack' # <<>>
    BY <1>2, <1>8, <1>9, <1>11, WalkGoto DEF Collects
  <1>13. \A m \in Live : m \in Node BY DEF Live, Alive
  <1>14. Noted(Live)'
    <2> SUFFICES ASSUME NEW m \in Live', color'[m] = "purple", addr'[m] = 0
                 PROVE  m \in forgotten' \cup Waits'
      BY DEF Noted
    <2>1. m \in Live /\ m \in Node BY <1>12, <1>13 DEF Walking
    <2>2. color[m] = "purple" /\ addr[m] = 0 BY <1>2, <1>10, <2>1
    <2> QED BY <1>3, <1>12, <2>1, <2>2 DEF Walking, KnownMarking, Noted
  <1>15. \A m \in Live' : addr'[m] # 0 => color'[m] \in {"purple", "grey"}
    BY <1>2, <1>3, <1>10, <1>12, <1>13 DEF KnownMarking, Walking
  <1>16. ASSUME NEW t \in Roots' PROVE t \in Roots /\ slots'[t] = slots[t]
    <2>1. t \in Slot /\ slots'[t] # None BY DEF Roots
    <2> QED BY <1>10, <2>1 DEF Roots
  <1>17. \A t \in Roots : t # s \/ color[n] = "purple" => t \in Roots' /\ slots'[t] = slots[t]
    BY <1>10 DEF Roots
  <1>18. InSlots(Roots \ c.list)' \subseteq Painted("grey")' \cup c.rest
    <2> SUFFICES ASSUME NEW t \in Roots', t \notin c.list
                 PROVE  slots'[t] \in Painted("grey")' \cup c.rest
      BY DEF InSlots
    <2>1. t \in Roots /\ slots'[t] = slots[t] BY <1>16
    <2>2. CASE t = s
      <3>1. color[n] = "purple"
        <4>1. slots'[s] # None BY <2>2 DEF Roots
        <4> QED BY <1>10, <4>1
      <3> QED BY <1>5, <1>6, <1>8, <2>1, <2>2, <3>1
    <2>3. CASE t # s
      <3>1. slots[t] \in Painted("grey")
        BY <1>2, <1>3, <1>8, <2>1, <2>3 DEF KnownMarking, InSlots
      <3> QED BY <1>2, <2>1, <3>1 DEF Painted
    <2> QED BY <2>2, <2>3
  <1>19. Covers(Known \cup PurpleRoots(c.list) \cup InSlots(Roots \ c.list), Live)'
    <2> SUFFICES ASSUME NEW X \in SUBSET Node,
                        Known' \cup PurpleRoots(c.list)' \cup InSlots(Roots \ c.list)' \subseteq X,
                        \A m \in X : m \in Live' => content'[m] \subseteq X
                 PROVE  Live' \subseteq X
      BY DEF Covers, Reaches
    <2>1. PICK B : B = Known \cup PurpleRoots(Top.list) \cup InSlots(Roots \ Top.list) OBVIOUS
    <2>2. Reaches(B, Live, Live) BY <1>3, <2>1 DEF KnownMarking, Covers
    <2>3. B \subseteq Node BY <1>1, <1>4, <2>1, MarkBase
    <2>4. ASSUME NEW m \in Live, m \in B PROVE m \in X
      <3>1. CASE m \in Known BY <1>12, <3>1 DEF Walking
      <3>2. CASE m \in PurpleRoots(Top.list)
        <4>1. PICK t \in Top.list : color[slots[t]] = "purple" /\ slots[t] = m
          BY <3>2 DEF PurpleRoots, InSlots
        <4>2. t \in Roots' /\ slots'[t] = slots[t] BY <1>4, <1>5, <1>17, <4>1
        <4>3. CASE t \in c.list
          <5>1. m \in PurpleRoots(c.list)'
            BY <1>2, <4>1, <4>2, <4>3 DEF PurpleRoots, InSlots
          <5> QED BY <5>1
        <4>4. CASE t \notin c.list
          <5>1. m \in InSlots(Roots \ c.list)' BY <4>1, <4>2, <4>4 DEF InSlots
          <5> QED BY <5>1
        <4> QED BY <4>3, <4>4
      <3>3. CASE m \in InSlots(Roots \ Top.list)
        <4>1. PICK t \in Roots \ Top.list : slots[t] = m BY <3>3 DEF InSlots
        <4>2. t \in Roots' /\ slots'[t] = slots[t] BY <1>2, <1>17, <4>1
        <4>3. m \in InSlots(Roots \ c.list)' BY <1>8, <4>1, <4>2 DEF InSlots
        <4> QED BY <4>3
      <3> QED BY <2>1, <2>4, <3>1, <3>2, <3>3
    <2>5. \A m \in X : m \in Live => content[m] \subseteq X BY <1>2, <1>12 DEF Walking
    <2>6. Live \subseteq X
      <3>1. Spans(B, Live, Live, X) BY <1>1, <2>3, <2>4, <2>5, KnownNode DEF Spans
      <3> QED BY <1>1, <2>2, <3>1, ReachesLive
    <2> QED BY <1>12, <2>6 DEF Walking
  <1>20. KnownMarking(c)' BY <1>14, <1>15, <1>18, <1>19 DEF KnownMarking
  <1>21. KnownMarking(Top)' BY <1>12, <1>20 DEF KnownMarking, PurpleRoots, InSlots, Covers, Reaches
  <1> QED BY <1>8, <1>12, <1>21, KnownWas DEF Walking
-----------------------------------------------------------------------------
\* What the collector may visit lives, or contains nothing.
LEMMA SoundLive ==
  ASSUME Types, NEW S, Sound(S), NEW m \in S
  PROVE  m \in Live \/ content[m] = {}
  BY DEF Types, Sound, Live, Alive

\* zval_mark_grey: the node was reached from the roots that are done with.
LEMMA MarkGreyKnown ==
  ASSUME Moving, NEW n \in Node, MarkGrey(n)
  PROVE  KnownInv'
  <1>1. Base /\ stack # <<>> /\ Types /\ RootTypes /\ Phase /\ Top \in Frame
    BY TopFrame DEF Moving, Working, GcInv, Base
  <1>2. /\ Top.op = "mark" /\ n \in Top.rest /\ color' = [color EXCEPT ![n] = "grey"]
        /\ UNCHANGED <<type, content>> /\ UNCHANGED <<addr, slots>>
    BY DEF MarkGrey, Paint
  <1>3. MarkInv(Top) /\ KnownMarking(Top) BY <1>1, <1>2, PhaseIs, KnownIs
  <1>4. PICK r \in SUBSET Node : r = {m \in (Top.rest \cup content[n]) \ {n} : color[m] # "grey"}
    BY <1>1 DEF Frame, Types
  <1>5. PICK c : c = [Top EXCEPT !.rest = r] OBVIOUS
  <1>6. c \in Frame /\ c.op = "mark" /\ c.rest = r /\ c.list = Top.list
    BY <1>1, <1>2, <1>5 DEF Frame
  <1>7. stack' = Goto(c) BY <1>4, <1>5 DEF MarkGrey
  <1>8. \A m \in Node : color'[m] = IF m = n THEN "grey" ELSE color[m]
    BY <1>1, <1>2 DEF RootTypes
  <1>9. Walking /\ Top' = c /\ stack' # <<>>
    BY <1>2, <1>6, <1>7, WalkGoto DEF Collects
  <1>10. Roots' = Roots /\ \A m \in Live : m \in Node BY <1>2 DEF Roots, Live, Alive
  <1>11. Noted(Live)'
    BY <1>2, <1>3, <1>8, <1>9, <1>10 DEF Walking, KnownMarking, Noted
  <1>12. \A m \in Live' : addr'[m] # 0 => color'[m] \in {"purple", "grey"}
    BY <1>2, <1>3, <1>8, <1>9, <1>10 DEF KnownMarking, Walking
  <1>13. InSlots(Roots \ c.list)' \subseteq Painted("grey")' \cup c.rest
    <2> SUFFICES ASSUME NEW t \in Roots, t \notin Top.list
                 PROVE  slots[t] \in Painted("grey")' \cup c.rest
      BY <1>2, <1>6, <1>10 DEF InSlots
    <2>1. slots[t] \in Node BY <1>1, RootNode
    <2>2. slots[t] \in Painted("grey") \cup Top.rest BY <1>3 DEF KnownMarking, InSlots
    <2> QED BY <1>4, <1>6, <1>8, <2>1, <2>2 DEF Painted
  <1>14. Covers(Known \cup PurpleRoots(c.list) \cup InSlots(Roots \ c.list), Live)'
    <2> SUFFICES ASSUME NEW X \in SUBSET Node,
                        Known' \cup PurpleRoots(c.list)' \cup InSlots(Roots \ c.list)' \subseteq X,
                        \A m \in X : m \in Live' => content'[m] \subseteq X
                 PROVE  Live' \subseteq X
      BY DEF Covers, Reaches
    <2>1. PICK B : B = Known \cup PurpleRoots(Top.list) \cup InSlots(Roots \ Top.list) OBVIOUS
    <2>2. Reaches(B, Live, Live) BY <1>3, <2>1 DEF KnownMarking, Covers
    <2>3. B \subseteq Node BY <1>1, <1>3, <2>1, MarkBase DEF MarkInv
    <2>4. \A m \in X : m \in Live => content[m] \subseteq X BY <1>2, <1>9 DEF Walking
    <2>5. InSlots(Roots \ Top.list) \subseteq X BY <1>2, <1>6, <1>10 DEF InSlots
    <2>6. n \in X
      <3>1. \A m \in X \cap Painted("grey") : content[m] \subseteq X
        BY <1>1, <1>3, <2>4, SoundLive DEF MarkInv
      <3>2. Painted("grey") \cup Top.rest \subseteq X
        BY <1>3, <2>5, <3>1 DEF MarkInv, Reaches
      <3> QED BY <1>2, <3>2
    <2>7. ASSUME NEW m \in Live, m \in B PROVE m \in X
      <3>1. CASE m \in Known BY <1>9, <3>1 DEF Walking
      <3>2. CASE m \in PurpleRoots(Top.list)
        <4>1. PICK t \in Top.list : color[slots[t]] = "purple" /\ slots[t] = m
          BY <3>2 DEF PurpleRoots, InSlots
        <4>2. CASE m # n
          <5>1. color'[slots'[t]] = "purple" BY <1>2, <1>8, <1>10, <4>1, <4>2
          <5>2. m \in PurpleRoots(c.list)'
            BY <1>2, <1>6, <4>1, <5>1 DEF PurpleRoots, InSlots
          <5> QED BY <5>2
        <4> QED BY <2>6, <4>2
      <3> QED BY <2>1, <2>5, <2>7, <3>1, <3>2
    <2>8. Live \subseteq X
      <3>1. Spans(B, Live, Live, X) BY <1>1, <2>3, <2>4, <2>7, KnownNode DEF Spans
      <3> QED BY <1>1, <2>2, <3>1, ReachesLive
    <2> QED BY <1>9, <2>8 DEF Walking
  <1>15. KnownMarking(c)' BY <1>11, <1>12, <1>13, <1>14 DEF KnownMarking
  <1>16. KnownMarking(Top)' BY <1>9, <1>15 DEF KnownMarking, PurpleRoots, InSlots, Covers, Reaches
  <1> QED BY <1>6, <1>9, <1>16, KnownWas DEF Walking

\* An object that lives but is not on trial is counted by a handle.
LEMMA HandleCounts ==
  ASSUME GcInv, Gathered = {}, NEW o \in Obj, o \in Live,
         \A m \in Trial : content[m] \subseteq Trial, o \notin Trial
  PROVE  rc[o] > 0
  <1>1. Base /\ Exact /\ Types /\ StackInv /\ Frames BY DEF GcInv, Base
  <1>2. o \in Node /\ o \in Alive /\ o \notin Owned /\ o \notin Doomed /\ type[o] = "store"
    BY <1>1 DEF Live, Alive, Dying, Types
  <1>3. PICK m \in Node : o \in content[m] /\ m \notin Stale BY <1>2 DEF Doomed
  <1>4. m \in Zval /\ m \notin Moved
    BY <1>1, <1>3, Handles, SetParts, GcAssumption DEF StackInv
  <1>5. m \in Preds(o) BY <1>3, <1>4 DEF Preds, Spent
  <1>6. /\ rc[o] = Ext(o) + Cardinality(Preds(o)) + Weight(stack, o)
        /\ Ext(o) \in Nat /\ Cardinality(Preds(o)) \in Nat /\ Weight(stack, o) \in Nat
    BY <1>1, <1>2, Numbers DEF Exact
  <1>7. Cardinality(Preds(o)) # 0 BY <1>5, PredsCount, FS_EmptySet
  <1> QED BY <1>6, <1>7

\* gc_mark_roots is done: what is not grey is reached without the buffer.
LEMMA MarkDoneKnown ==
  ASSUME Moving, MarkDone
  PROVE  KnownInv'
  <1>1. Base /\ stack # <<>> /\ Types /\ Phase /\ GcInv BY DEF Moving, Working, GcInv, Base
  <1>2. /\ Top.op = "mark" /\ Top.rest = {} /\ Top.list = {}
        /\ UNCHANGED <<type, content, rc>> /\ UNCHANGED gcVars
    BY DEF MarkDone, heapVars
  <1>3. MarkInv(Top) /\ KnownMarking(Top) BY <1>1, <1>2, PhaseIs, KnownIs
  <1>4. PICK c : c = Gc("scan", {}, Roots) OBVIOUS
  <1>5. c \in Frame /\ c.op = "scan"
    BY <1>4, CallFrame DEF Op, Gc, Call, Roots
  <1>6. stack' = Goto(c) BY <1>4 DEF MarkDone
  <1>7. Walking /\ Top' = c /\ stack' # <<>>
    BY <1>2, <1>5, <1>6, WalkGoto DEF Collects, gcVars
  <1>8. Trial = Painted("grey") /\ Trial' = Trial /\ Roots' = Roots
    BY <1>2, <1>3 DEF MarkInv, Painted, Trial, gcVars, Roots
  <1>9. \A m \in Trial : content[m] \subseteq Trial BY <1>2, <1>3, <1>8 DEF MarkInv
  <1>10. InSlots(Roots) \subseteq Trial BY <1>2, <1>3, <1>8 DEF KnownMarking, InSlots
  <1>11. Noted(Live)'
    BY <1>2, <1>3, <1>7 DEF Walking, KnownMarking, Noted, gcVars
  <1>12. \A s \in Roots' : color'[slots'[s]] # "purple"
    BY <1>2, <1>8, <1>10 DEF Trial, InSlots, gcVars
  <1>13. ASSUME NEW o \in Obj, o \in Live' \ Trial' PROVE rc'[o] > 0
    <2>1. Gathered = {} BY <1>1, <1>2, PhaseTop DEF Collects
    <2> QED BY <1>1, <1>2, <1>7, <1>8, <1>9, <1>13, <2>1, HandleCounts DEF Walking
  <1>14. Reaches(Known, Live \ Trial, Live \ Trial)'
    <2> SUFFICES ASSUME NEW X \in SUBSET Node, Known' \subseteq X,
                        \A m \in X : m \in Live' \ Trial' => content'[m] \subseteq X
                 PROVE  Live' \ Trial' \subseteq X
      BY DEF Reaches
    <2>1. PICK B : B = Known \cup PurpleRoots(Top.list) \cup InSlots(Roots \ Top.list) OBVIOUS
    <2>2. Reaches(B, Live, Live) BY <1>3, <2>1 DEF KnownMarking, Covers
    <2>3. B \subseteq Node BY <1>1, <1>3, <2>1, MarkBase DEF MarkInv
    <2>4. PICK Y : Y = X \cup Trial OBVIOUS
    <2>5. Y \subseteq Node BY <2>4 DEF Trial
    <2>6. ASSUME NEW m \in Live, m \in B PROVE m \in Y
      <3>1. CASE m \in Known BY <1>7, <2>4, <3>1 DEF Walking
      <3>2. PurpleRoots(Top.list) = {} BY <1>2 DEF PurpleRoots, InSlots
      <3>3. InSlots(Roots \ Top.list) = InSlots(Roots) BY <1>2 DEF InSlots
      <3> QED BY <1>10, <2>1, <2>4, <2>6, <3>1, <3>2, <3>3
    <2>7. \A m \in Y : m \in Live => content[m] \subseteq Y
      BY <1>2, <1>7, <1>8, <1>9, <2>4 DEF Walking
    <2>8. Spans(B, Live, Live, Y) BY <1>1, <2>3, <2>5, <2>6, <2>7, KnownNode DEF Spans
    <2>9. Live \subseteq Y BY <1>1, <2>2, <2>8, ReachesLive
    <2> QED BY <1>7, <1>8, <2>4, <2>9 DEF Walking
  <1>15. KnownScanning({})'
    <2>1. Reaches(Known, Live \ Trial, (Live \ Trial) \cup ({} \cap Live))'
      BY <1>14 DEF Reaches
    <2> QED BY <1>11, <1>12, <1>13, <2>1 DEF KnownScanning
  <1> QED BY <1>5, <1>7, <1>15, KnownWas DEF Walking
-----------------------------------------------------------------------------
\* What was reached without the buffer still is.
LEMMA WalkReaches ==
  ASSUME Moving, Walking, UNCHANGED content, NEW C, NEW D, Reaches(Known, C, D),
         C \subseteq Live, D \subseteq Live, NEW X \in SUBSET Node, Known' \subseteq X,
         \A m \in X : m \in C => content[m] \subseteq X
  PROVE  D \subseteq X
  <1>1. Base /\ Types BY DEF Moving, Working, GcInv, Base
  <1>2. PICK B : B = Known OBVIOUS
  <1>3. \A n \in Live : n \in B => n \in X BY <1>2 DEF Walking
  <1>4. Spans(B, C, Live, X) BY <1>1, <1>2, <1>3, KnownNode DEF Spans
  <1>5. Reaches(B, C, D) BY <1>2
  <1> QED BY <1>1, <1>4, <1>5, ReachesLive

\* The scan goes on: what is on trial, and what is purple, is so still.
LEMMA ScanOnKnown ==
  ASSUME Moving, Top.op = "scan", NEW c \in Frame, c.op = "scan", stack' = Goto(c),
         UNCHANGED <<type, content, rc>>, UNCHANGED <<addr, slots>>, Trial' = Trial,
         \A m \in Node : color'[m] = "purple" <=> color[m] = "purple"
  PROVE  KnownInv'
  <1>1. Base /\ KnownScanning({}) BY KnownIs DEF Moving, Working, GcInv
  <1>2. Walking /\ Top' = c /\ stack' # <<>> BY WalkGoto DEF Collects
  <1>3. \A m \in Live : m \in Node BY DEF Live, Alive
  <1>4. Noted(Live)' BY <1>1, <1>2, <1>3 DEF Walking, KnownScanning, Noted
  <1>5. Roots' = Roots BY DEF Roots
  <1>6. \A s \in Roots' : color'[slots'[s]] # "purple"
    BY <1>1, <1>5, RootNode DEF KnownScanning
  <1>7. \A n \in (Obj \cap (Live' \ Trial')) \cup {} : rc'[n] > 0
    BY <1>1, <1>2 DEF KnownScanning, Walking
  <1>8. Reaches(Known, Live \ Trial, (Live \ Trial) \cup ({} \cap Live))'
    <2> SUFFICES ASSUME NEW X \in SUBSET Node, Known' \subseteq X,
                        \A m \in X \cap (Live' \ Trial') : content'[m] \subseteq X
                 PROVE  Live' \ Trial' \subseteq X
      BY DEF Reaches
    <2>1. Reaches(Known, Live \ Trial, Live \ Trial) BY <1>1 DEF KnownScanning, Reaches
    <2>2. \A m \in X : m \in Live \ Trial => content[m] \subseteq X BY <1>2 DEF Walking
    <2>3. Live \ Trial \subseteq X BY <1>2, <2>1, <2>2, WalkReaches
    <2> QED BY <1>2, <2>3 DEF Walking
  <1>9. KnownScanning({})' BY <1>4, <1>6, <1>7, <1>8 DEF KnownScanning
  <1> QED BY <1>2, <1>9, KnownWas DEF Walking

\* gc_scan_roots turns to a root.
LEMMA ScanRootKnown ==
  ASSUME Moving, NEW s \in Slot, ScanRoot(s)
  PROVE  KnownInv'
  <1>1. Base /\ Phase /\ stack # <<>> BY DEF Moving, Working, GcInv
  <1>2. /\ Top.op = "scan" /\ s \in Top.list /\ UNCHANGED <<type, content, rc>>
        /\ UNCHANGED gcVars
    BY DEF ScanRoot, heapVars
  <1>3. Top.list \subseteq Roots BY <1>1, <1>2, PhaseIs DEF ScanInv
  <1>4. slots[s] \in Node BY <1>1, <1>2, <1>3, RootNode
  <1>5. PICK c : c = Gc("scan", {slots[s]}, Top.list \ {s}) OBVIOUS
  <1>6. c \in Frame /\ c.op = "scan"
    <2>1. {slots[s]} \in SUBSET Node BY <1>4
    <2>2. Top.list \ {s} \in SUBSET (Zval \cup Slot) BY <1>3 DEF Roots
    <2> QED BY <1>5, <2>1, <2>2, CallFrame DEF Op, Gc, Call
  <1>7. stack' = Goto(c) BY <1>5 DEF ScanRoot
  <1>8. Trial' = Trial BY <1>2 DEF Trial, gcVars
  <1> QED BY <1>2, <1>6, <1>7, <1>8, ScanOnKnown DEF gcVars

\* zval_scan finds that the node is counted from elsewhere: zval_scan_black goes on.
LEMMA ScanHeldKnown ==
  ASSUME Moving, NEW n \in Node, Top.op = "scan", n \in Top.rest, rc[n] > 0,
         stack' = <<Gc("black", {n}, {})>> \o Goto([Top EXCEPT !.rest = @ \ {n}]),
         UNCHANGED <<type, content, rc>>, UNCHANGED gcVars
  PROVE  KnownInv'
  <1>1. Base /\ Types /\ stack # <<>> /\ GcInv /\ KnownScanning({}) /\ Top \in Frame
    BY KnownIs, TopFrame DEF Moving, Working, GcInv, Base
  <1>2. PICK a : a = Gc("black", {n}, {}) OBVIOUS
  <1>3. PICK b : b = [Top EXCEPT !.rest = @ \ {n}] OBVIOUS
  <1>4. a \in Frame /\ a.op = "black" /\ a.rest = {n} BY <1>2, CallFrame DEF Op, Gc, Call
  <1>5. b \in Frame /\ b.op = "scan" BY <1>1, <1>3 DEF Frame
  <1>6. stack' = <<a>> \o (<<b>> \o Return) BY <1>2, <1>3 DEF Goto
  <1>7. Bare(a) /\ Same(b, Top)
    BY <1>4, <1>5 DEF Bare, Same, Own, Moves, Drops, Lists
  <1>8. Calls' = {a, b} \cup SetOf(Return) /\ Top' = a /\ stack' # <<>> /\ OwnersSame
    BY <1>1, <1>4, <1>5, <1>6, <1>7, CallSets
  <1>9. Walking
    <2>1. \A d \in Calls : d \in Calls' \/ d.op \in Collects BY <1>1, <1>8, TopFrame DEF Collects
    <2>2. \A d \in Calls' : d \in Calls \/ d.op \in Collects
      BY <1>1, <1>4, <1>5, <1>8, TopFrame DEF Collects
    <2>3. \A m \in Node : addr[m] = 0 => addr'[m] = 0 BY DEF gcVars
    <2> QED BY <1>8, <2>1, <2>2, <2>3, WalkOn DEF Collects
  <1>10. Trial' = Trial /\ Roots' = Roots BY DEF Trial, Roots, gcVars
  <1>11. Noted(Live)' BY <1>1, <1>9 DEF Walking, KnownScanning, Noted, gcVars
  <1>12. \A s \in Roots' : color'[slots'[s]] # "purple"
    BY <1>1, <1>10 DEF KnownScanning, gcVars
  <1>13. \A o \in (Obj \cap (Live' \ Trial')) \cup a.rest : rc'[o] > 0
    BY <1>1, <1>4, <1>9, <1>10 DEF KnownScanning, Walking
  <1>14. Reaches(Known, Live \ Trial, (Live \ Trial) \cup (a.rest \cap Live))'
    <2> SUFFICES ASSUME NEW X \in SUBSET Node, Known' \subseteq X,
                        \A m \in X \cap (Live' \ Trial') : content'[m] \subseteq X
                 PROVE  (Live' \ Trial') \cup (a.rest \cap Live') \subseteq X
      BY DEF Reaches
    <2>1. Reaches(Known, Live \ Trial, Live \ Trial) BY <1>1 DEF KnownScanning, Reaches
    <2>2. \A m \in X : m \in Live \ Trial => content[m] \subseteq X
      BY <1>9, <1>10 DEF Walking
    <2>3. Live \ Trial \subseteq X
      <3>1. PICK C : C = Live \ Trial OBVIOUS
      <3>2. Reaches(Known, C, C) /\ C \subseteq Live BY <2>1, <3>1
      <3>3. \A m \in X : m \in C => content[m] \subseteq X BY <2>2, <3>1
      <3>4. UNCHANGED content OBVIOUS
      <3>5. C \subseteq X BY <1>9, <3>2, <3>3, <3>4, WalkReaches
      <3> QED BY <3>1, <3>5
    <2>4. ASSUME n \in Live PROVE n \in X
      <3>1. rc[n] >= 1 BY <1>1 DEF Types
      <3>2. Gathered = {} BY <1>1, PhaseTop DEF Collects
      <3>3. n \in Known \/ \E m \in Live : n \in content[m] /\ m \notin Trial
        BY <1>1, <2>4, <3>1, <3>2, CountedHolds DEF Counted
      <3>4. CASE n \in Known BY <1>9, <2>4, <3>4 DEF Walking
      <3>5. CASE \E m \in Live : n \in content[m] /\ m \notin Trial BY <2>2, <2>3, <3>5
      <3> QED BY <3>3, <3>4, <3>5
    <2> QED BY <1>4, <1>9, <1>10, <2>3, <2>4 DEF Walking
  <1>15. KnownScanning(a.rest)' BY <1>11, <1>12, <1>13, <1>14 DEF KnownScanning
  <1>16. KnownScanning(Top.rest)'
    BY <1>8, <1>15 DEF KnownScanning, Reaches
  <1> QED BY <1>4, <1>8, <1>9, <1>16, KnownWas DEF Walking

\* zval_scan: a node is left out, found in use, or found white.
LEMMA ScanKnown ==
  ASSUME Moving, NEW n \in Node, Scan(n)
  PROVE  KnownInv'
  <1>1. Base /\ stack # <<>> /\ Types /\ RootTypes /\ Top \in Frame
    BY TopFrame DEF Moving, Working, GcInv, Base
  <1>2. /\ Top.op = "scan" /\ n \in Top.rest /\ UNCHANGED <<type, content, rc>>
        /\ UNCHANGED <<addr, slots>>
    BY DEF Scan, heapVars
  <1>3. CASE stack' = Goto([Top EXCEPT !.rest = @ \ {n}]) /\ UNCHANGED color
    <2>1. PICK c : c = [Top EXCEPT !.rest = @ \ {n}] OBVIOUS
    <2>2. c \in Frame /\ c.op = "scan" BY <1>1, <1>2, <2>1 DEF Frame
    <2>3. stack' = Goto(c) /\ Trial' = Trial BY <1>3, <2>1 DEF Trial
    <2> QED BY <1>2, <1>3, <2>2, <2>3, ScanOnKnown
  <1>4. CASE /\ rc[n] > 0 /\ UNCHANGED color
             /\ stack' = <<Gc("black", {n}, {})>> \o Goto([Top EXCEPT !.rest = @ \ {n}])
    BY <1>2, <1>4, ScanHeldKnown DEF gcVars
  <1>5. CASE /\ color[n] = "grey" /\ Paint(n, "white")
             /\ stack' = Goto([Top EXCEPT !.rest = (@ \cup content[n]) \ {n}])
    <2>1. PICK c : c = [Top EXCEPT !.rest = (@ \cup content[n]) \ {n}] OBVIOUS
    <2>2. c \in Frame /\ c.op = "scan" BY <1>1, <1>2, <2>1 DEF Frame, Types
    <2>3. \A m \in Node : color'[m] = IF m = n THEN "white" ELSE color[m]
      BY <1>1, <1>5 DEF Paint, RootTypes
    <2>4. Trial' = Trial BY <1>5, <2>3 DEF Trial
    <2>5. \A m \in Node : color'[m] = "purple" <=> color[m] = "purple" BY <1>5, <2>3
    <2>6. stack' = Goto(c) BY <1>5, <2>1
    <2> QED BY <1>2, <2>2, <2>4, <2>5, <2>6, ScanOnKnown
  <1> QED BY <1>3, <1>4, <1>5 DEF Scan
-----------------------------------------------------------------------------
\* zval_scan_black: the node is reached without the buffer, and so is its content.
LEMMA ScanBlackKnown ==
  ASSUME Moving, NEW n \in Node, ScanBlack(n)
  PROVE  KnownInv'
  <1>1. Base /\ stack # <<>> /\ Types /\ RootTypes /\ Phase /\ Closed /\ GcInv /\ Top \in Frame
    BY TopFrame DEF Moving, Working, GcInv, Base
  <1>2. /\ Top.op = "black" /\ n \in Top.rest /\ color' = [color EXCEPT ![n] = "black"]
        /\ UNCHANGED <<type, content>> /\ UNCHANGED <<addr, slots>>
        /\ \A m \in Node : rc'[m] = IF m \in content[n] THEN rc[m] + 1 ELSE rc[m]
    BY DEF ScanBlack, Paint, Add
  <1>3. KnownScanning(Top.rest) BY <1>2, KnownIs
  <1>4. Top.rest \subseteq Trial /\ Sound(Trial) BY <1>1, <1>2, PhaseIs DEF ScanInv
  <1>5. PICK r \in SUBSET Node : r = {m \in (Top.rest \cup content[n]) \ {n} : color[m] # "black"}
    BY <1>1 DEF Frame, Types
  <1>6. PICK c : c = [Top EXCEPT !.rest = r] OBVIOUS
  <1>7. c \in Frame /\ c.op = "black" /\ c.rest = r BY <1>1, <1>2, <1>6 DEF Frame
  <1>8. stack' = Goto(c) BY <1>5, <1>6 DEF ScanBlack
  <1>9. Walking /\ Top' = c /\ stack' # <<>> BY <1>2, <1>7, <1>8, WalkGoto DEF Collects
  <1>10. \A m \in Node : color'[m] = IF m = n THEN "black" ELSE color[m]
    BY <1>1, <1>2 DEF RootTypes
  <1>11. Trial' = Trial \ {n} BY <1>10 DEF Trial
  <1>12. \A m \in Live : m \in Node BY DEF Live, Alive
  <1>13. Noted(Live)'
    BY <1>2, <1>3, <1>9, <1>10, <1>12 DEF Walking, KnownScanning, Noted
  <1>14. \A s \in Roots' : color'[slots'[s]] # "purple"
    <2>1. Roots' = Roots BY <1>2 DEF Roots
    <2> QED BY <1>1, <1>2, <1>3, <1>10, <2>1, RootNode DEF KnownScanning
  <1>15. \A m \in Node : rc'[m] >= rc[m] /\ rc[m] \in Int /\ rc'[m] \in Int BY <1>1, <1>2 DEF Types
  <1>16. ASSUME NEW m \in content[n] PROVE rc'[m] > 0
    <2>1. n \in Node \ Dying BY <1>2, <1>4 DEF Sound
    <2>2. m \in Alive /\ m \in Node BY <1>1, <2>1 DEF Closed, Types
    <2>3. TypeOK BY <1>1, TypeFollows
    <2>4. rc[m] >= 0 BY <2>2, <2>3 DEF TypeOK, Alive
    <2> QED BY <1>2, <1>15, <2>2, <2>4
  <1>17. ASSUME NEW m \in (Obj \cap (Live' \ Trial')) \cup c.rest PROVE rc'[m] > 0
    <2>1. m \in Node BY <1>7, <1>17 DEF Node
    <2>2. m \in (Obj \cap (Live \ Trial)) \cup Top.rest \/ m \in content[n]
      BY <1>2, <1>5, <1>7, <1>9, <1>11, <1>17 DEF Walking
    <2>3. CASE m \in (Obj \cap (Live \ Trial)) \cup Top.rest
      BY <1>3, <1>15, <2>1, <2>3 DEF KnownScanning
    <2> QED BY <1>16, <2>2, <2>3
  <1>18. Reaches(Known, Live \ Trial, (Live \ Trial) \cup (c.rest \cap Live))'
    <2> SUFFICES ASSUME NEW X \in SUBSET Node, Known' \subseteq X,
                        \A m \in X \cap (Live' \ Trial') : content'[m] \subseteq X
                 PROVE  (Live' \ Trial') \cup (c.rest \cap Live') \subseteq X
      BY DEF Reaches
    <2>1. PICK C : C = Live \ Trial OBVIOUS
    <2>2. PICK D : D = (Live \ Trial) \cup (Top.rest \cap Live) OBVIOUS
    <2>3. Reaches(Known, C, D) BY <1>3, <2>1, <2>2 DEF KnownScanning
    <2>4. C \subseteq Live /\ D \subseteq Live BY <2>1, <2>2
    <2>5. \A m \in X : m \in Live /\ m \notin Trial' => content[m] \subseteq X
      BY <1>2, <1>9 DEF Walking
    <2>6. \A m \in X : m \in C => content[m] \subseteq X BY <1>11, <2>1, <2>5
    <2>7. D \subseteq X BY <1>2, <1>9, <2>3, <2>4, <2>6, WalkReaches
    <2>8. content[n] \subseteq X
      <3>1. CASE n \in Live
        <4>1. n \in X BY <1>2, <2>2, <2>7, <3>1
        <4> QED BY <1>11, <2>5, <3>1, <4>1
      <3>2. CASE n \notin Live
        <4>1. n \in Trial BY <1>2, <1>4
        <4>2. content[n] = {} BY <1>1, <1>4, <3>2, <4>1, SoundLive
        <4> QED BY <4>2
      <3> QED BY <3>1, <3>2
    <2> QED BY <1>2, <1>5, <1>7, <1>9, <1>11, <2>2, <2>7, <2>8 DEF Walking
  <1>19. KnownScanning(c.rest)' BY <1>13, <1>14, <1>17, <1>18 DEF KnownScanning
  <1>20. KnownScanning(Top.rest)' BY <1>9, <1>19 DEF KnownScanning, Reaches
  <1> QED BY <1>7, <1>9, <1>20, KnownWas DEF Walking

\* zval_scan_black returns to zval_scan.
LEMMA BlackDoneKnown ==
  ASSUME Moving, BlackDone
  PROVE  KnownInv'
  <1>1. Base /\ stack # <<>> BY DEF Moving, Working, GcInv
  <1>2. /\ Top.op = "black" /\ Top.rest = {} /\ stack' = Return
        /\ UNCHANGED <<type, content, rc>> /\ UNCHANGED gcVars
    BY DEF BlackDone, heapVars
  <1>3. KnownScanning({}) BY <1>2, KnownIs
  <1>4. Bare(Top) BY <1>1, <1>2, PhaseTop DEF Collects
  <1>5. Calls' = SetOf(Return) /\ OwnersSame BY <1>1, <1>2, <1>4, ReturnSets
  <1>6. Top' = Head(Return) /\ stack' # <<>> /\ Top'.op = "scan"
    BY <1>1, <1>2 DEF Base, StackInv, Shape, Top, Return
  <1>7. Walking
    <2>1. \A d \in Calls : d \in Calls' \/ d.op \in Collects
      BY <1>1, <1>2, <1>5, TopFrame DEF Collects
    <2>2. \A d \in Calls' : d \in Calls BY <1>1, <1>5, TopFrame
    <2>3. \A m \in Node : addr[m] = 0 => addr'[m] = 0 BY <1>2 DEF gcVars
    <2> QED BY <1>2, <1>5, <2>1, <2>2, <2>3, WalkOn DEF Collects
  <1>8. Trial' = Trial /\ Roots' = Roots BY <1>2 DEF Trial, Roots, gcVars
  <1>9. Noted(Live)' BY <1>2, <1>3, <1>7 DEF Walking, KnownScanning, Noted, gcVars
  <1>10. \A s \in Roots' : color'[slots'[s]] # "purple"
    BY <1>2, <1>3, <1>8 DEF KnownScanning, gcVars
  <1>11. \A o \in (Obj \cap (Live' \ Trial')) \cup {} : rc'[o] > 0
    BY <1>2, <1>3, <1>7, <1>8 DEF KnownScanning, Walking
  <1>12. Reaches(Known, Live \ Trial, (Live \ Trial) \cup ({} \cap Live))'
    <2> SUFFICES ASSUME NEW X \in SUBSET Node, Known' \subseteq X,
                        \A m \in X \cap (Live' \ Trial') : content'[m] \subseteq X
                 PROVE  Live' \ Trial' \subseteq X
      BY DEF Reaches
    <2>1. PICK C : C = Live \ Trial OBVIOUS
    <2>2. Reaches(Known, C, C) /\ C \subseteq Live
      BY <1>3, <2>1 DEF KnownScanning, Reaches
    <2>3. \A m \in X : m \in C => content[m] \subseteq X
      BY <1>2, <1>7, <1>8, <2>1 DEF Walking
    <2>4. C \subseteq X BY <1>2, <1>7, <2>2, <2>3, WalkReaches
    <2> QED BY <1>7, <1>8, <2>1, <2>4 DEF Walking
  <1>13. KnownScanning({})' BY <1>9, <1>10, <1>11, <1>12 DEF KnownScanning
  <1> QED BY <1>6, <1>7, <1>13, KnownWas DEF Walking

\* gc_scan_roots is done: what is white is not counted.
LEMMA ScanDoneKnown ==
  ASSUME Moving, ScanDone
  PROVE  KnownInv'
  <1>1. Base /\ Exact /\ Phase /\ stack # <<>> BY DEF Moving, Working, GcInv
  <1>2. /\ Top.op = "scan" /\ Top.rest = {} /\ Top.list = {}
        /\ UNCHANGED <<type, content, rc>> /\ UNCHANGED gcVars
    BY DEF ScanDone, heapVars
  <1>3. ScanInv(Top, {}) /\ KnownScanning({}) BY <1>1, <1>2, PhaseIs, KnownIs
  <1>4. Trial = Painted("white") /\ Trial' = Trial /\ Roots' = Roots
    BY <1>1, <1>2, <1>3, WhiteHeld DEF Trial, Roots, gcVars
  <1>5. PICK c : c = Gc("collect", {}, {}) OBVIOUS
  <1>6. c \in Frame /\ c.op = "collect" /\ c.list = {}
    BY <1>5, CallFrame DEF Op, Gc, Call
  <1>7. stack' = Goto(c) BY <1>5 DEF ScanDone
  <1>8. Walking /\ Top' = c /\ stack' # <<>>
    BY <1>2, <1>6, <1>7, WalkGoto DEF Collects, gcVars
  <1>9. Painted("white")' = Painted("white") BY <1>2 DEF Painted, gcVars
  <1>10. Lost(c)' = {o \in Obj : rc[o] <= 0} BY <1>2, <1>6 DEF Lost
  <1>11. Noted(Live \ Lost(c))'
    BY <1>2, <1>3, <1>8 DEF Walking, KnownScanning, Noted, gcVars
  <1>12. \A s \in Roots' : color'[slots'[s]] # "purple"
    BY <1>2, <1>3, <1>4 DEF KnownScanning, gcVars
  <1>13. \A o \in Painted("white")' \cap Obj : rc'[o] <= 0
    BY <1>2, <1>3, <1>9 DEF ScanInv
  <1>14. Live' \ (Painted("white")' \cup Lost(c)') = Live \ Trial
    <2>1. \A o \in Obj : o \in Live \ Trial => ~(rc[o] <= 0)
      <3>1. \A o \in Obj : o \in Live => rc[o] \in Int BY <1>1 DEF Base, Types, Node
      <3> QED BY <1>3, <3>1 DEF KnownScanning
    <2>2. \A m \in Live \ Trial : m \notin Lost(c)' BY <1>10, <2>1
    <2> QED BY <1>4, <1>8, <1>9, <2>2 DEF Walking
  <1>15. Covers(Known, Live \ (Painted("white") \cup Lost(c)))'
    <2> SUFFICES ASSUME NEW X \in SUBSET Node, Known' \subseteq X,
                        \A m \in X \cap (Live' \ (Painted("white")' \cup Lost(c)')) :
                            content'[m] \subseteq X
                 PROVE  Live' \ (Painted("white")' \cup Lost(c)') \subseteq X
      BY DEF Covers, Reaches
    <2>1. PICK C : C = Live \ Trial OBVIOUS
    <2>2. Reaches(Known, C, C) /\ C \subseteq Live
      BY <1>3, <2>1 DEF KnownScanning, Reaches
    <2>3. \A m \in X : m \in C => content[m] \subseteq X BY <1>2, <1>14, <2>1
    <2>4. C \subseteq X BY <1>2, <1>8, <2>2, <2>3, WalkReaches
    <2> QED BY <1>14, <2>1, <2>4
  <1>16. KnownCollecting(c)' BY <1>11, <1>12, <1>13, <1>15 DEF KnownCollecting
  <1>17. KnownCollecting(Top)' BY <1>8, <1>16 DEF KnownCollecting, Lost, Covers, Reaches, Noted
  <1> QED BY <1>6, <1>8, <1>17, KnownWas DEF Walking
-----------------------------------------------------------------------------
\* What is neither white nor collected was reached without the buffer, and is still.
LEMMA CollectCovers ==
  ASSUME Moving, Walking, KnownCollecting(Top), UNCHANGED content, NEW c,
         (Painted("white") \cup Lost(c))' = Painted("white") \cup Lost(Top)
  PROVE  Covers(Known, Live \ (Painted("white") \cup Lost(c)))'
  <1>1. PICK C : C = Live \ (Painted("white") \cup Lost(Top)) OBVIOUS
  <1>2. (Live \ (Painted("white") \cup Lost(c)))' = C BY <1>1 DEF Walking
  <1> SUFFICES ASSUME NEW X \in SUBSET Node, Known' \subseteq X,
                      \A m \in X \cap C : content'[m] \subseteq X
               PROVE  C \subseteq X
    BY <1>2 DEF Covers, Reaches
  <1>3. Reaches(Known, C, C) /\ C \subseteq Live BY <1>1 DEF KnownCollecting, Covers
  <1>4. \A m \in X : m \in C => content[m] \subseteq X OBVIOUS
  <1> QED BY <1>3, <1>4, WalkReaches

\* The collection goes on: roots may leave the buffer, if they are collected.
LEMMA CollectOnKnown ==
  ASSUME Moving, Top.op = "collect", NEW c \in Frame, c.op = "collect", c.list = Top.list,
         stack' = Goto(c), UNCHANGED <<type, content, rc>>, color' = color,
         \A m \in Node : addr[m] = 0 => addr'[m] = 0,
         \A m \in Node : addr'[m] = 0 /\ color[m] = "purple" => addr[m] = 0 \/ m \in Lost(Top),
         \A t \in Roots' : t \in Roots /\ slots'[t] = slots[t]
  PROVE  KnownInv'
  <1>1. Base /\ KnownCollecting(Top) BY KnownIs DEF Moving, Working, GcInv
  <1>2. Walking /\ Top' = c /\ stack' # <<>> BY WalkGoto DEF Collects
  <1>3. Painted("white")' = Painted("white") /\ Lost(c)' = Lost(Top) BY DEF Painted, Lost
  <1>4. \A m \in Live : m \in Node BY DEF Live, Alive
  <1>5. Noted(Live \ Lost(c))'
    BY <1>1, <1>2, <1>3, <1>4 DEF Walking, KnownCollecting, Noted
  <1>6. \A s \in Roots' : color'[slots'[s]] # "purple" \/ slots'[s] \in Lost(c)'
    BY <1>1, <1>3 DEF KnownCollecting
  <1>7. \A o \in Painted("white")' \cap Obj : rc'[o] <= 0 BY <1>1, <1>3 DEF KnownCollecting
  <1>8. Covers(Known, Live \ (Painted("white") \cup Lost(c)))'
    BY <1>1, <1>2, <1>3, CollectCovers
  <1>9. KnownCollecting(c)' BY <1>5, <1>6, <1>7, <1>8 DEF KnownCollecting
  <1>10. KnownCollecting(Top)' BY <1>2, <1>9 DEF KnownCollecting, Lost, Covers, Reaches, Noted
  <1> QED BY <1>2, <1>10, KnownWas DEF Walking

\* gc_collect_roots takes a root out of the buffer: a purple one is collected.
LEMMA CollectRootKnown ==
  ASSUME Moving, NEW s \in Slot, CollectRoot(s)
  PROVE  KnownInv'
  <1>1. Base /\ stack # <<>> /\ RootTypes /\ Top \in Frame
    BY TopFrame DEF Moving, Working, GcInv, Base
  <1>2. /\ Top.op = "collect" /\ s \in Roots /\ UNCHANGED <<type, content, rc>>
        /\ color' = color
    BY DEF CollectRoot, heapVars
  <1>3. KnownCollecting(Top) BY <1>2, KnownIs
  <1>4. PICK n \in Node : n = slots[s] BY <1>1, <1>2, RootNode
  <1>5. PICK c : c = [Top EXCEPT !.rest = {n}] OBVIOUS
  <1>6. c \in Frame /\ c.op = "collect" /\ c.list = Top.list BY <1>1, <1>2, <1>5 DEF Frame
  <1>7. stack' = Goto(c) BY <1>4, <1>5 DEF CollectRoot
  <1>8. /\ \A t \in Slot : slots'[t] = IF t = s THEN None ELSE slots[t]
        /\ \A m \in Node : addr'[m] = IF m = n THEN 0 ELSE addr[m]
    BY <1>1, <1>4 DEF CollectRoot, RootTypes
  <1>9. \A m \in Node : addr[m] = 0 => addr'[m] = 0 BY <1>8
  <1>10. ASSUME NEW m \in Node, addr'[m] = 0, color[m] = "purple"
         PROVE  addr[m] = 0 \/ m \in Lost(Top)
    BY <1>2, <1>3, <1>4, <1>8, <1>10 DEF KnownCollecting
  <1>11. \A t \in Roots' : t \in Roots /\ slots'[t] = slots[t] BY <1>8 DEF Roots
  <1> QED BY <1>2, <1>6, <1>7, <1>9, <1>10, <1>11, CollectOnKnown

\* zval_collect_white, zobj_collect_white: what was white is collected.
LEMMA CollectWhiteKnown ==
  ASSUME Moving, NEW n \in Node, CollectWhite(n)
  PROVE  KnownInv'
  <1>1. Base /\ stack # <<>> /\ Types /\ RootTypes /\ Top \in Frame
    BY TopFrame DEF Moving, Working, GcInv, Base
  <1>2. /\ Top.op = "collect" /\ n \in Top.rest /\ UNCHANGED <<type, content>>
        /\ UNCHANGED <<addr, slots>>
    BY DEF CollectWhite
  <1>3. KnownCollecting(Top) BY <1>2, KnownIs
  <1>4. CASE ~(color[n] = "white" /\ addr[n] = 0)
    <2>1. PICK c : c = [Top EXCEPT !.rest = @ \ {n}] OBVIOUS
    <2>2. c \in Frame /\ c.op = "collect" /\ c.list = Top.list BY <1>1, <1>2, <2>1 DEF Frame
    <2>3. stack' = Goto(c) /\ UNCHANGED <<color, rc>> BY <1>4, <2>1 DEF CollectWhite
    <2>4. Roots' = Roots BY <1>2 DEF Roots
    <2> QED BY <1>2, <2>2, <2>3, <2>4, CollectOnKnown
  <1>5. CASE color[n] = "white" /\ addr[n] = 0
    <2>1. PICK k : k = IF n \in Zval THEN "black" ELSE "purple" OBVIOUS
    <2>2. /\ \A m \in Node : color'[m] = IF m = n THEN k ELSE color[m]
          /\ \A m \in Node : rc'[m] = rc[m] + (IF m \in content[n] \cap Zval THEN 1 ELSE 0)
                                            + (IF m = n /\ n \in Zval THEN 1 ELSE 0)
      BY <1>1, <1>5, <2>1 DEF CollectWhite, Paint, RootTypes
    <2>3. \A o \in Obj : rc'[o] = rc[o]
      <3>1. \A o \in Obj : o \in Node /\ o \notin Zval /\ rc[o] \in Int
        BY <1>1, GcAssumption DEF Types, Node
      <3> QED BY <2>2, <3>1
    <2>4. PICK c : c = [Top EXCEPT !.rest = (@ \cup content[n]) \ {n},
                                   !.list = @ \cup ({n} \cap Zval)] OBVIOUS
    <2>5. c \in Frame /\ c.op = "collect" /\ c.list = Top.list \cup ({n} \cap Zval)
      BY <1>1, <1>2, <2>4 DEF Frame, Types
    <2>6. stack' = Goto(c) BY <1>5, <2>4 DEF CollectWhite
    <2>7. Walking /\ Top' = c /\ stack' # <<>>
      BY <1>2, <2>5, <2>6, WalkGoto DEF Collects
    <2>8. Painted("white")' = Painted("white") \ {n}
      BY <2>1, <2>2 DEF Painted
    <2>9. Lost(c)' = Lost(Top) \cup ({n} \cap Zval) BY <2>3, <2>5 DEF Lost
    <2>10. n \in Lost(c)'
      <3>1. CASE n \in Zval BY <2>9, <3>1
      <3>2. CASE n \in Obj
        <4>1. rc[n] <= 0 BY <1>3, <1>5, <3>2 DEF KnownCollecting, Painted
        <4> QED BY <2>3, <3>2, <4>1 DEF Lost
      <3> QED BY <3>1, <3>2 DEF Node
    <2>11. (Painted("white") \cup Lost(c))' = Painted("white") \cup Lost(Top)
      <3>1. n \in Painted("white") BY <1>5 DEF Painted
      <3> QED BY <2>8, <2>9, <2>10, <3>1
    <2>12. \A m \in Live : m \in Node BY DEF Live, Alive
    <2>13. Noted(Live \ Lost(c))'
      <3> SUFFICES ASSUME NEW m \in Live', m \notin Lost(c)', color'[m] = "purple",
                          addr'[m] = 0
                   PROVE  m \in forgotten' \cup Waits'
        BY DEF Noted
      <3>1. m \in Live /\ m \in Node /\ m # n /\ m \notin Lost(Top)
        BY <2>7, <2>9, <2>10, <2>12 DEF Walking
      <3>2. color[m] = "purple" /\ addr[m] = 0 BY <1>2, <2>2, <3>1
      <3> QED BY <1>3, <2>7, <3>1, <3>2 DEF Walking, KnownCollecting, Noted
    <2>14. ASSUME NEW s \in Roots'
           PROVE  color'[slots'[s]] # "purple" \/ slots'[s] \in Lost(c)'
      <3>1. s \in Roots /\ slots'[s] = slots[s] BY <1>2 DEF Roots
      <3>2. slots[s] \in Node BY <1>1, <3>1, RootNode
      <3> QED BY <1>3, <2>2, <2>9, <2>10, <3>1, <3>2 DEF KnownCollecting
    <2>15. \A o \in Painted("white")' \cap Obj : rc'[o] <= 0
      BY <1>3, <2>3, <2>8 DEF KnownCollecting
    <2>16. Covers(Known, Live \ (Painted("white") \cup Lost(c)))'
      BY <1>2, <1>3, <2>7, <2>11, CollectCovers
    <2>17. KnownCollecting(c)' BY <2>13, <2>14, <2>15, <2>16 DEF KnownCollecting
    <2>18. KnownCollecting(Top)'
      BY <2>7, <2>17 DEF KnownCollecting, Lost, Covers, Reaches, Noted
    <2> QED BY <2>5, <2>7, <2>18, KnownWas DEF Walking
  <1> QED BY <1>4, <1>5
-----------------------------------------------------------------------------
\* gc_collect_roots is done, and what it listed will be destroyed: c does.
Destroys(c) ==
    /\ Top.op = "collect"
    /\ c \in Frame /\ c.op = "destroy" /\ c.list = Top.list /\ c.rest = Top.list
    /\ stack' = Goto(c) /\ Top' = c /\ Calls' = {c} \cup SetOf(Return)
    /\ Owned' = Owned \cup Top.list /\ Moved' = Moved /\ Stale' = Stale \cup Top.list
    /\ Top.list \subseteq (Zval \cap Alive) \ Dying
    /\ Gathered = Top.list /\ Trial = {} /\ Painted("white") = {} /\ Roots = {}
    /\ UNCHANGED <<type, content, rc>> /\ UNCHANGED gcVars

\* The list is complete, and handed to the call that destroys it.
LEMMA DestroysIs ==
  ASSUME Moving, CollectDone
  PROVE  Destroys(Gc("destroy", Top.list, Top.list))
  <1>1. Base /\ stack # <<>> /\ Phase BY DEF Moving, Working, GcInv
  <1>2. /\ Top.op = "collect" /\ Top.rest = {} /\ Roots = {}
        /\ UNCHANGED <<type, content, rc>> /\ UNCHANGED gcVars
    BY DEF CollectDone, heapVars
  <1>3. CollectInv(Top) BY <1>1, <1>2, PhaseIs
  <1>4. Top.list \subseteq (Zval \cap Alive) \ Dying BY <1>3 DEF CollectInv, Garbage
  <1>5. PICK c : c = Gc("destroy", Top.list, Top.list) OBVIOUS
  <1>6. c \in Frame /\ c.op = "destroy" /\ c.list = Top.list /\ c.rest = Top.list
    <2>1. Top.list \in SUBSET Node /\ Top.list \in SUBSET (Zval \cup Slot)
      BY <1>4 DEF Node
    <2> QED BY <1>5, <2>1, CallFrame DEF Op, Gc, Call
  <1>7. stack' = Goto(c) BY <1>5 DEF CollectDone
  <1>8. /\ Calls' = {c} \cup SetOf(Return) /\ Top' = c
        /\ Owned' = Own(c) \cup OwnedBy(SetOf(Return))
        /\ Moved' = Moves(c) \cup MovedBy(SetOf(Return))
        /\ Stale' = Drops(c) \cup StaleBy(SetOf(Return))
    BY <1>1, <1>6, <1>7, GotoSets
  <1>9. Bare(Top) /\ Gathered = Top.list BY <1>1, <1>2, PhaseTop DEF Collects
  <1>10. Own(c) = Top.list /\ Moves(c) = {} /\ Drops(c) = Top.list
    BY <1>6 DEF Own, Moves, Drops, Lists
  <1>11. Owned' = Owned \cup Top.list /\ Moved' = Moved /\ Stale' = Stale \cup Top.list
    BY <1>1, <1>8, <1>9, <1>10, SplitSets DEF Base, Bare
  <1>12. Painted("white") = {}
    <2>1. InSlots(Roots) \cup Top.rest \subseteq {} BY <1>2 DEF InSlots
    <2> QED BY <1>3, <2>1 DEF CollectInv, Covers, Reaches
  <1>13. Trial = {} BY <1>3, <1>12 DEF Trial, Painted, CollectInv
  <1>14. Destroys(c)
    BY <1>2, <1>4, <1>6, <1>7, <1>8, <1>9, <1>11, <1>12, <1>13 DEF Destroys
  <1> QED BY <1>5, <1>14

\* Nothing that was collected lives on; what was dying is.
LEMMA DestroysLive ==
  ASSUME Moving, NEW c, Destroys(c)
  PROVE  /\ Live' \subseteq Live /\ Live' \cap Lost(Top) = {} /\ Dying \subseteq Dying'
         /\ \A m \in Live : m \notin Lost(Top) => m \in Live' \/ m \in Dying' \ Gone'
  <1>1. Base /\ Types /\ Exact /\ Closed /\ StackInv /\ Frames /\ Alive' = Alive
    BY DEF Moving, Working, GcInv, Base, Destroys, Alive
  <1>2. /\ Owned' = Owned \cup Top.list /\ Moved' = Moved /\ Stale' = Stale \cup Top.list
        /\ Gathered = Top.list /\ Trial = {} /\ UNCHANGED <<type, content>>
        /\ Top.list \subseteq (Zval \cap Alive) \ Dying
    BY DEF Destroys
  <1>3. Dying \subseteq Dying' BY <1>2 DEF Dying, Doomed
  <1>4. Moved \subseteq Obj /\ Moved \subseteq Dying /\ Stale \subseteq Zval /\ Stale \subseteq Dying
    BY <1>1, SetParts DEF StackInv, Dying
  <1>5. ASSUME NEW o \in Obj, rc[o] <= 0, o \in Alive PROVE o \in Dying'
    <2>1. Preds(o) = {} BY <1>1, <1>5, CountZero
    <2>2. ASSUME NEW m \in Node, o \in content[m] PROVE m \in Stale'
      <3>1. m \in Zval BY <1>1, <2>2, Handles
      <3>2. m \in Spent BY <1>2, <2>1, <2>2 DEF Preds
      <3>3. m \notin Moved BY <1>4, <3>1, GcAssumption
      <3> QED BY <1>2, <3>2, <3>3 DEF Spent
    <2>3. type[o] = "store" BY <1>1, <1>5 DEF Types, Alive
    <2> QED BY <1>2, <2>2, <2>3 DEF Dying, Doomed
  <1>6. Live' \subseteq Live BY <1>1, <1>3 DEF Live
  <1>7. Live' \cap Lost(Top) = {}
    <2>1. \A m \in Live' : m \in Alive /\ m \notin Dying' BY <1>1 DEF Live
    <2>2. \A m \in Top.list : m \in Dying' BY <1>2 DEF Dying
    <2> QED BY <1>5, <2>1, <2>2 DEF Lost
  <1>8. ASSUME NEW m \in Live, m \notin Lost(Top), m \notin Live' PROVE m \in Dying' \ Gone'
    <2>1. m \in Dying' BY <1>1, <1>8 DEF Live
    <2>2. m \notin Owned' /\ m \notin Moved' /\ m \notin Stale'
      BY <1>2, <1>4, <1>8 DEF Live, Dying, Lost
    <2> QED BY <2>1, <2>2 DEF Gone
  <1> QED BY <1>3, <1>6, <1>7, <1>8

\* What was known is so still, or does not live.
LEMMA DestroysNoted ==
  ASSUME Moving, NEW c, Destroys(c)
  PROVE  /\ \A n \in Live' : n \in Known => n \in Known'
         /\ \A n \in Live' : n \in forgotten \cup Waits => n \in forgotten' \cup Waits'
  <1>1. Base /\ stack # <<>> /\ Words /\ UNCHANGED ext /\ forgotten' = Forgetting
    BY DEF Moving, Working, GcInv, KnownInv
  <1>2. /\ Calls' = {c} \cup SetOf(Return) /\ c.op = "destroy" /\ UNCHANGED <<type, content>>
        /\ UNCHANGED gcVars /\ Moved' = Moved /\ Stale' = Stale \cup Top.list
        /\ Top.list \cap Dying = {} /\ Calls = {Top} \cup SetOf(Return)
        /\ Top.op = "collect"
    BY <1>1, TopFrame DEF Destroys
  <1>3. Dying \subseteq Dying' BY DestroysLive
  <1>4. ASSUME NEW n \in Live', n \in forgotten PROVE n \in forgotten'
    <2>1. n \in Node /\ type'[n] # "free" BY DEF Live, Alive
    <2>2. addr'[n] = 0 BY <1>1, <1>2, <1>4 DEF Words, gcVars
    <2> QED BY <1>1, <1>4, <2>1, <2>2 DEF Forgetting
  <1>5. Waits \subseteq Waits' BY <1>2 DEF Waits
  <1>6. Hands \subseteq Hands'
    <2>1. Hand(Top) = {} BY <1>2 DEF Hand, Refs
    <2> QED BY <1>2, <2>1 DEF Hands, Hand, Refs
  <1>7. Leaves \subseteq Leaves'
    <2>1. \A m \in Dying \ Gone : m \in Dying' \ Gone' BY <1>2, <1>3 DEF Gone
    <2> QED BY <1>2, <2>1 DEF Leaves
  <1>8. \A n \in Live' : n \in Known => n \in Known'
    BY <1>1, <1>4, <1>6, <1>7 DEF Known, Held
  <1> QED BY <1>4, <1>5, <1>8

\* The buffer is empty: all that lives is reached without it.
LEMMA CollectDoneKnown ==
  ASSUME Moving, CollectDone
  PROVE  KnownInv'
  <1>1. PICK c : Destroys(c) BY DestroysIs
  <1>2. /\ Base /\ Types /\ RootTypes /\ stack # <<>> /\ Words
        /\ Known \subseteq Node /\ Live' \subseteq Node
    BY KnownNode DEF Moving, Working, GcInv, Base, KnownInv, Live, Alive
  <1>3. /\ Calls' = {c} \cup SetOf(Return) /\ c.op = "destroy" /\ UNCHANGED <<type, content>>
        /\ UNCHANGED gcVars /\ Top' = c /\ Top.op = "collect" /\ Roots = {}
        /\ Painted("white") = {}
    BY <1>1 DEF Destroys
  <1>4. KnownCollecting(Top) BY <1>3, KnownIs
  <1>5. /\ Live' \subseteq Live /\ Live' \cap Lost(Top) = {}
        /\ \A m \in Live : m \notin Lost(Top) => m \in Live' \/ m \in Dying' \ Gone'
    BY <1>1, DestroysLive
  <1>6. /\ \A n \in Live' : n \in Known => n \in Known'
        /\ \A n \in Live' : n \in forgotten \cup Waits => n \in forgotten' \cup Waits'
    BY <1>1, DestroysNoted
  <1>7. \A n \in Node : addr'[n] = 0
    <2>1. \A n \in Node : addr[n] # 0 => addr[n] \in Roots
      BY <1>2, GcAssumption DEF RootTypes, Roots, Node
    <2> QED BY <1>3, <2>1 DEF gcVars
  <1>8. Words'
    <2>1. Narrows BY <1>3, <1>5 DEF Narrows
    <2>2. \A z \in Zval : addr'[z] = 0 BY <1>7 DEF Node
    <2>3. \A d \in SetOf(Return) : d.op # "root"
      <3>1. \A d \in SetOf(Return) : d.op \in Lower BY <1>2, <1>3, Waiting DEF Base
      <3> QED BY <3>1 DEF Lower
    <2>4. HandOK(c)' BY <1>3 DEF HandOK
    <2> QED BY <1>3, <2>1, <2>2, <2>3, <2>4, WordsKept
  <1>9. Noted(Live)'
    <2> SUFFICES ASSUME NEW n \in Live', color'[n] = "purple", addr'[n] = 0
                 PROVE  n \in forgotten' \cup Waits'
      BY DEF Noted
    <2>1. n \in Live /\ n \notin Lost(Top) BY <1>5
    <2>2. color[n] = "purple" /\ addr[n] = 0 BY <1>3 DEF gcVars
    <2> QED BY <1>4, <1>6, <2>1, <2>2 DEF KnownCollecting, Noted
  <1>10. Covers(Sources, Live)'
    <2> SUFFICES ASSUME NEW X \in SUBSET Node, Sources' \subseteq X,
                        \A m \in X : m \in Live' => content'[m] \subseteq X
                 PROVE  Live' \subseteq X
      BY DEF Covers, Reaches
    <2>1. PICK C : C = Live \ Lost(Top) OBVIOUS
    <2>2. Reaches(Known, C, C)
      <3>1. Live \ (Painted("white") \cup Lost(Top)) = C BY <1>3, <2>1
      <3> QED BY <1>4, <3>1 DEF KnownCollecting, Covers
    <2>3. PICK Y \in SUBSET Node : Y = X \cup (Node \ Live') OBVIOUS
    <2>4. Known \subseteq Y BY <1>2, <1>6, <2>3 DEF Sources
    <2>5. ASSUME NEW m \in Y, m \in C PROVE content[m] \subseteq Y
      <3>1. content[m] \subseteq Node BY <1>2 DEF Types
      <3>2. CASE m \in Live'
        <4>1. m \in X BY <2>3, <3>2
        <4> QED BY <1>3, <2>3, <3>2, <4>1
      <3>3. CASE m \notin Live'
        <4>1. m \in Dying' \ Gone' BY <1>5, <2>1, <2>5, <3>3
        <4>2. content[m] \subseteq Leaves' BY <1>3, <4>1 DEF Leaves
        <4> QED BY <2>3, <4>2 DEF Sources, Known
      <3> QED BY <3>2, <3>3
    <2>6. C \subseteq Y BY <2>2, <2>4, <2>5 DEF Reaches
    <2> QED BY <1>5, <2>1, <2>3, <2>6
  <1>11. KnownQuiet' BY <1>7, <1>9, <1>10, <1>2 DEF KnownQuiet
  <1> QED BY <1>3, <1>8, <1>11, KnownPhaseNext DEF Collects
-----------------------------------------------------------------------------
\* A statement of the script, in states of both invariants.
Stating ==
    /\ GcInv /\ GcInv' /\ KnownInv /\ stack = <<>> /\ UNCHANGED forgotten
    /\ stack' = <<>> \/ \E d : Called(d)

\* It frees nothing, and what it lets go of is in the hands of a call.
Grows ==
    /\ Alive \subseteq Alive' /\ slots' = slots
    /\ \A n \in Node : addr[n] = 0 => addr'[n] = 0
    /\ \A n \in Alive : color'[n] = color[n] /\ addr'[n] = addr[n]
    /\ \A n \in Alive' \ Alive : color'[n] = "black" /\ addr'[n] = 0
    /\ \A z \in Zval \cap Alive : type'[z] = "object" => type[z] = "object"
    /\ \A n \in Held : n \in Held' \/ n \in Hands'
    /\ \A m \in Alive : \A k \in content[m] : k \in content'[m] \/ k \in Sources'
    /\ \A n \in Alive' \ Alive :
          n \in Sources' \/ \E m \in Alive' \cap Sources' : n \in content'[m]

\* Between two statements nothing is dying, or in the hands of a call.
LEMMA StatingSets ==
  ASSUME Stating
  PROVE  /\ Live = Alive /\ Waits = {} /\ Sources = Held \cup forgotten \cup PurpleRoots(Roots)
         /\ KnownQuiet /\ Words /\ Quiet /\ Types /\ RootTypes
  <1>1. GcInv /\ KnownInv /\ stack = <<>> BY DEF Stating
  <1>2. Dying = {} /\ Calls = {} /\ Quiet /\ RootTypes BY <1>1, IdleSets
  <1>3. Hands = {} /\ Waits = {} BY <1>2 DEF Hands, Waits
  <1>4. Leaves = {} BY <1>2 DEF Leaves
  <1>5. Sources = Held \cup forgotten \cup PurpleRoots(Roots) BY <1>3, <1>4 DEF Sources, Known
  <1> QED BY <1>1, <1>2, <1>3, <1>5 DEF Live, KnownInv, KnownPhase, GcInv, Base

\* What a statement begins is not dying either.
LEMMA StatingNext ==
  ASSUME Stating
  PROVE  /\ Live' = Alive' /\ Alive' \subseteq Node
         /\ \A c \in Calls' : c.op \in {"dtor", "mark"}
         /\ stack' # <<>> /\ Top'.op \in Collects
               => Top'.op = "mark" /\ Top'.list = Roots' /\ Top'.rest = {}
  <1>1. stack' = <<>> \/ \E d : Called(d) BY DEF Stating
  <1>2. Owned' = {} /\ \A c \in Calls' : Called(c) BY <1>1, NextSets
  <1>3. \A c \in Calls' : c.op \in {"dtor", "mark"} BY <1>2 DEF Called
  <1>4. Doomed' = {}
    <2>1. \A o \in Doomed' : \E c \in Calls' : Dooms(c, o, content')
      BY DEF Stating, GcInv, Base, DoomInv
    <2> QED BY <1>3, <2>1 DEF Dooms
  <1>5. Live' = Alive' BY <1>2, <1>4 DEF Live, Dying
  <1>6. ASSUME stack' # <<>>, Top'.op \in Collects
        PROVE  Top'.op = "mark" /\ Top'.list = Roots' /\ Top'.rest = {}
    <2>1. PICK d : Called(d) BY <1>1, <1>6
    <2>2. Top' = d BY <2>1 DEF Called, Top
    <2> QED BY <1>6, <2>1, <2>2 DEF Called, Collects
  <1> QED BY <1>3, <1>5, <1>6 DEF Alive

\* A statement of the script loses nothing.
LEMMA StatingKnown ==
  ASSUME Stating, Grows
  PROVE  KnownInv'
  <1>1. /\ Live = Alive /\ Waits = {} /\ KnownQuiet /\ Words /\ Quiet /\ Types /\ RootTypes
        /\ Sources = Held \cup forgotten \cup PurpleRoots(Roots)
        /\ forgotten' = forgotten /\ forgotten \subseteq Node /\ Alive \subseteq Node
    BY StatingSets DEF Stating, GcInv, Base, Alive
  <1>2. /\ Live' = Alive' /\ Alive' \subseteq Node
        /\ \A c \in Calls' : c.op \in {"dtor", "mark"}
        /\ stack' # <<>> /\ Top'.op \in Collects
              => Top'.op = "mark" /\ Top'.list = Roots' /\ Top'.rest = {}
    BY StatingNext
  <1>3. /\ Alive \subseteq Alive' /\ slots' = slots
        /\ \A n \in Node : addr[n] = 0 => addr'[n] = 0
        /\ \A n \in Alive : color'[n] = color[n] /\ addr'[n] = addr[n]
        /\ \A n \in Alive' \ Alive : color'[n] = "black" /\ addr'[n] = 0
    BY DEF Grows
  <1>4. Words'
    <2>1. \A n \in forgotten' : addr'[n] = 0 BY <1>1, <1>3 DEF Words
    <2>2. ASSUME NEW z \in Zval, type'[z] = "object" PROVE addr'[z] = 0
      <3>1. z \in Alive' BY <2>2 DEF Alive, Node
      <3>2. CASE z \in Alive
        <4>1. type[z] = "object" BY <2>2, <3>2 DEF Grows
        <4> QED BY <1>1, <1>3, <3>2, <4>1 DEF Words
      <3> QED BY <1>3, <3>1, <3>2
    <2>3. \A c \in Calls' : HandOK(c)' BY <1>2 DEF HandOK
    <2> QED BY <2>1, <2>2, <2>3 DEF Words
  <1>5. Noted(Live)' BY <1>1, <1>2, <1>3 DEF KnownQuiet, Noted
  <1>6. \A n \in Live' : addr'[n] # 0 => color'[n] = "purple"
    BY <1>1, <1>2, <1>3 DEF KnownQuiet
  <1>7. ASSUME NEW n \in Alive, n \in Sources PROVE n \in Sources'
    <2>1. CASE n \in Held
      <3>1. n \in Held' \/ n \in Hands' BY <2>1 DEF Grows
      <3> QED BY <3>1 DEF Sources, Known
    <2>2. CASE n \in forgotten BY <1>1, <2>2 DEF Sources, Known
    <2>3. CASE n \in PurpleRoots(Roots)
      <3>1. PICK s \in Roots : color[slots[s]] = "purple" /\ slots[s] = n
        BY <2>3 DEF PurpleRoots, InSlots
      <3>2. s \in Roots' /\ slots'[s] = n /\ color'[n] = "purple" BY <1>3, <3>1 DEF Roots
      <3>3. n \in PurpleRoots(Roots)' BY <3>2 DEF PurpleRoots, InSlots
      <3> QED BY <3>3 DEF Sources
    <2> QED BY <1>1, <1>7, <2>1, <2>2, <2>3
  <1>8. Covers(Sources, Live)'
    <2> SUFFICES ASSUME NEW X \in SUBSET Node, Sources' \subseteq X,
                        \A m \in X : m \in Live' => content'[m] \subseteq X
                 PROVE  Live' \subseteq X
      BY DEF Covers, Reaches
    <2>1. PICK B : B = Sources OBVIOUS
    <2>2. Reaches(B, Live, Live) BY <1>1, <2>1 DEF KnownQuiet, Covers
    <2>3. B \subseteq Node
      <3>1. PurpleRoots(Roots) \subseteq Node
        BY RootNode DEF PurpleRoots, InSlots, Stating, GcInv
      <3> QED BY <1>1, <2>1, <3>1 DEF Held, Node
    <2>4. ASSUME NEW m \in X, m \in Live PROVE content[m] \subseteq X
      <3>1. content'[m] \subseteq X BY <1>1, <1>2, <1>3, <2>4
      <3>2. \A k \in content[m] : k \in content'[m] \/ k \in Sources'
        BY <1>1, <2>4 DEF Grows
      <3> QED BY <3>1, <3>2
    <2>5. Spans(B, Live, Live, X) BY <1>1, <1>7, <2>1, <2>3, <2>4 DEF Spans
    <2>6. Live \subseteq X BY <1>1, <2>2, <2>5, ReachesLive
    <2>7. ASSUME NEW n \in Alive', n \notin Alive PROVE n \in X
      <3>1. n \in Sources' \/ \E m \in Alive' \cap Sources' : n \in content'[m]
        BY <2>7 DEF Grows
      <3> QED BY <1>2, <3>1
    <2> QED BY <1>1, <1>2, <2>6, <2>7
  <1>9. KnownQuiet' BY <1>5, <1>6, <1>8 DEF KnownQuiet
  <1> QED BY <1>2, <1>4, <1>9, KnownPhaseNext
-----------------------------------------------------------------------------
\* A variable of the script holds the new zval, which holds its object.
LEMMA AllocKnown ==
  ASSUME GcInv, GcInv', KnownInv, stack = <<>>, UNCHANGED forgotten, NEW z \in Zval,
         NEW t \in {"array", "object"}, NEW c \in SUBSET Obj, Alloc(z, t, c)
  PROVE  KnownInv'
  <1>1. Types /\ (\A m \in Node : content[m] \subseteq Alive) BY Idle
  <1>2. /\ type[z] = "free" /\ content' = [content EXCEPT ![z] = c]
        /\ ext' = [ext EXCEPT ![z] = 1] /\ slots' = slots /\ stack' = <<>>
        /\ type' = [n \in Node |-> IF n = z THEN t ELSE IF n \in c THEN "store" ELSE type[n]]
        /\ color' = [n \in Node |-> IF n = z \/ (n \in c /\ type[n] = "free") THEN "black"
                                    ELSE color[n]]
        /\ addr' = [n \in Node |-> IF n = z \/ (n \in c /\ type[n] = "free") THEN 0
                                   ELSE addr[n]]
    BY DEF Alloc
  <1>3. z \in Node /\ z \notin Alive /\ content[z] = {} /\ z \notin c
    BY <1>1, <1>2, GcAssumption DEF Node, Alive, Types
  <1>4. Stating BY <1>2 DEF Stating
  <1>5. /\ \A m \in Node : content'[m] = (IF m = z THEN c ELSE content[m])
        /\ \A y \in Zval : ext'[y] = (IF y = z THEN 1 ELSE ext[y])
    BY <1>1, <1>2, <1>3 DEF Types
  <1>6. z \in Held' BY <1>5 DEF Held
  <1>7. /\ Alive \subseteq Alive' /\ z \in Alive'
        /\ \A n \in Alive' \ Alive : n = z \/ (n \in c /\ type[n] = "free")
    BY <1>2, <1>3 DEF Alive
  <1>8. \A n \in Alive : color'[n] = color[n] /\ addr'[n] = addr[n]
    BY <1>2, <1>3 DEF Alive
  <1>9. \A n \in Alive' \ Alive : color'[n] = "black" /\ addr'[n] = 0
    BY <1>2, <1>7 DEF Alive
  <1>10. \A n \in Node : addr[n] = 0 => addr'[n] = 0 BY <1>2
  <1>11. \A y \in Zval \cap Alive : type'[y] = "object" => type[y] = "object"
    BY <1>2, <1>3 DEF Node
  <1>12. \A n \in Held : n \in Held' BY <1>5 DEF Held
  <1>13. \A m \in Alive : content'[m] = content[m] BY <1>3, <1>5 DEF Alive
  <1>14. ASSUME NEW n \in Alive', n \notin Alive
         PROVE  n \in Sources' \/ \E m \in Alive' \cap Sources' : n \in content'[m]
    <2>1. z \in Sources' BY <1>6 DEF Sources, Known
    <2>2. CASE n \in c BY <1>3, <1>5, <1>7, <2>1, <2>2
    <2> QED BY <1>7, <1>14, <2>1, <2>2
  <1>15. Grows
    BY <1>2, <1>7, <1>8, <1>9, <1>10, <1>11, <1>12, <1>13, <1>14 DEF Grows
  <1> QED BY <1>4, <1>15, StatingKnown

\* Where only what is held, or contained, changes, the words and the types do not.
LEMMA ShiftKnown ==
  ASSUME Stating, UNCHANGED <<type, color, addr, slots>>,
         \A n \in Held : n \in Held' \/ n \in Hands',
         \A m \in Alive : \A k \in content[m] : k \in content'[m] \/ k \in Sources'
  PROVE  KnownInv'
  <1>1. Alive' = Alive BY DEF Alive
  <1>2. \A z \in Zval \cap Alive : type'[z] = "object" => type[z] = "object" OBVIOUS
  <1>3. Grows BY <1>1, <1>2 DEF Grows
  <1> QED BY <1>3, StatingKnown

\* What the script lets go of is in the hands of zval_ptr_dtor.
LEMMA DtorHand ==
  ASSUME NEW z \in Zval, stack' = <<Call("dtor", z, z, {}, {})>>
  PROVE  z \in Hands'
  <1>1. PICK d : d = Call("dtor", z, z, {}, {}) OBVIOUS
  <1>2. d.op = "dtor" /\ d.z = z BY <1>1 DEF Call
  <1>3. d \in Calls' BY <1>1 DEF Calls
  <1>4. z \in Hand(d) BY <1>2 DEF Hand, Refs
  <1> QED BY <1>3, <1>4 DEF Hands, Hand, Refs

\* One more variable, or one more element.
LEMMA FetchKnown ==
  ASSUME GcInv, GcInv', KnownInv, stack = <<>>, UNCHANGED forgotten, NEW y \in Zval,
         NEW z \in Zval, Fetch(y, z)
  PROVE  KnownInv'
  <1>1. /\ ext' = [ext EXCEPT ![z] = @ + 1] /\ stack' = <<>>
        /\ UNCHANGED <<type, content>> /\ UNCHANGED <<color, addr, slots>>
    BY DEF Fetch, gcVars
  <1>2. ext \in [Zval -> 0 .. MaxRefs] /\ MaxRefs \in Nat
    BY GcAssumption DEF GcInv, Base, Types
  <1>3. \A n \in Held : n \in Held'
    <2>1. \A n \in Zval : ext'[n] = IF n = z THEN ext[z] + 1 ELSE ext[n] BY <1>1, <1>2
    <2> QED BY <1>2, <2>1 DEF Held
  <1>4. Stating BY <1>1 DEF Stating
  <1> QED BY <1>1, <1>3, <1>4, ShiftKnown

\* An element more: the node it is put into holds it.
LEMMA AssignKnown ==
  ASSUME GcInv, GcInv', KnownInv, stack = <<>>, UNCHANGED forgotten, NEW y \in Zval,
         NEW z \in Zval, Assign(y, z)
  PROVE  KnownInv'
  <1>1. PICK h : h = Holder(y) OBVIOUS
  <1>2. /\ content' = [content EXCEPT ![h] = @ \cup {z}] /\ stack' = <<>>
        /\ UNCHANGED <<type, ext>> /\ UNCHANGED <<color, addr, slots>>
    BY <1>1 DEF Assign, gcVars
  <1>3. content \in [Node -> SUBSET Node] BY DEF GcInv, Base, Types
  <1>4. \A m \in Node : content[m] \subseteq content'[m] BY <1>2, <1>3
  <1>5. \A m \in Alive : \A k \in content[m] : k \in content'[m] BY <1>4 DEF Alive
  <1>6. Held' = Held BY <1>2 DEF Held
  <1>7. Stating BY <1>2 DEF Stating
  <1> QED BY <1>2, <1>5, <1>6, <1>7, ShiftKnown

\* An element, or a variable, goes.
LEMMA UnsetKnown ==
  ASSUME GcInv, GcInv', KnownInv, stack = <<>>, UNCHANGED forgotten, NEW y \in Zval,
         NEW z \in Zval, Unset(y, z)
  PROVE  KnownInv'
  <1>1. PICK h : h = Holder(y) OBVIOUS
  <1>2. /\ content' = [content EXCEPT ![h] = @ \ {z}] /\ z \in content[h] /\ ext[y] > 0
        /\ stack' = <<Call("dtor", z, z, {}, {})>>
        /\ UNCHANGED <<type, ext>> /\ UNCHANGED <<color, addr, slots>>
    BY <1>1 DEF Unset, gcVars
  <1>3. content \in [Node -> SUBSET Node] BY DEF GcInv, Base, Types
  <1>4. z \in Sources' BY <1>2, DtorHand DEF Sources, Known
  <1>5. \A m \in Alive : \A k \in content[m] : k \in content'[m] \/ k \in Sources'
    <2>1. \A m \in Node : \A k \in content[m] : k \in content'[m] \/ k = z BY <1>2, <1>3
    <2> QED BY <1>4, <2>1 DEF Alive
  <1>6. Held' = Held BY <1>2 DEF Held
  <1>7. Stating
    <2>1. z \in Alive
      <3>1. h \in Node BY <1>1, <1>2, HolderIs
      <3> QED BY <1>2, <3>1, Idle
    <2>2. z \in Alive' BY <1>2, <2>1 DEF Alive
    <2>3. \E d : Called(d) BY <1>2, <2>2, DtorCall
    <2> QED BY <2>3 DEF Stating
  <1> QED BY <1>2, <1>5, <1>6, <1>7, ShiftKnown

\* A variable less: the destructor has it in hand.
LEMMA LeaveKnown ==
  ASSUME GcInv, GcInv', KnownInv, stack = <<>>, UNCHANGED forgotten, NEW z \in Zval, Leave(z)
  PROVE  KnownInv'
  <1>1. /\ ext[z] > 0 /\ ext' = [ext EXCEPT ![z] = @ - 1]
        /\ stack' = <<Call("dtor", z, z, {}, {})>>
        /\ UNCHANGED <<type, content>> /\ UNCHANGED <<color, addr, slots>>
    BY DEF Leave, heapVars, gcVars
  <1>2. ext \in [Zval -> 0 .. MaxRefs] BY DEF GcInv, Base, Types
  <1>3. z \in Hands' BY <1>1, DtorHand
  <1>4. \A n \in Held : n \in Held' \/ n \in Hands'
    <2>1. \A n \in Zval : n # z => ext'[n] = ext[n] BY <1>1, <1>2
    <2> QED BY <1>3, <2>1 DEF Held
  <1>5. Stating
    <2>1. z \in Alive BY <1>1, Idle DEF Plain
    <2>2. z \in Alive' BY <1>1, <2>1 DEF Alive
    <2>3. \E d : Called(d) BY <1>1, <2>2, DtorCall
    <2> QED BY <2>3 DEF Stating
  <1> QED BY <1>1, <1>4, <1>5, ShiftKnown

\* The script calls gc_collect_cycles.
LEMMA CollectCallKnown ==
  ASSUME GcInv, GcInv', KnownInv, stack = <<>>, UNCHANGED forgotten, Collect
  PROVE  KnownInv'
  <1>1. /\ stack' = <<gc_collect_cycles>> /\ UNCHANGED <<type, content, ext>>
        /\ UNCHANGED <<color, addr, slots>>
    BY DEF Collect, heapVars, gcVars
  <1>2. PICK d : d = gc_collect_cycles OBVIOUS
  <1>3. d \in Frame /\ d.op = "mark" /\ d.rest = {} /\ d.list = Roots
    BY <1>2, CallFrame DEF Op, gc_collect_cycles, Gc, Call, Roots
  <1>4. Roots' = Roots BY <1>1 DEF Roots
  <1>5. Called(d) BY <1>1, <1>2, <1>3, <1>4 DEF Called
  <1>6. Stating BY <1>5 DEF Stating
  <1>7. Held' = Held BY <1>1 DEF Held
  <1> QED BY <1>1, <1>6, <1>7, ShiftKnown
-----------------------------------------------------------------------------
\* What From reaches contains all that its nodes contain: a set that still grows
\* has one more node with each step.
LEMMA FromClosed ==
  ASSUME NEW S \in SUBSET Node, content \in [Node -> SUBSET Node]
  PROVE  /\ S \subseteq From(S) /\ From(S) \subseteq Node
         /\ \A n \in From(S) : content[n] \subseteq From(S)
  <1>1. PICK F : Stages(F, S) /\ From(S) = F[Cardinality(Node)] BY FromStages
  <1>2. PICK m \in Nat : m = Cardinality(Node) BY NodeFinite, FS_CardinalityType
  <1>3. /\ F[0] = S /\ \A k \in 0 .. m : F[k] \in SUBSET Node
        /\ \A k \in Nat : k + 1 \in 0 .. m
              => F[k + 1] = F[k] \cup UNION {content[n] : n \in F[k]}
    BY <1>1, <1>2 DEF Stages
  <1> DEFINE Full(k) == Cardinality(F[k]) >= k \/ \A n \in F[k] : content[n] \subseteq F[k]
             P == {k \in Nat : k \in 0 .. m => S \subseteq F[k] /\ Full(k)}
  <1>4. \A k \in 0 .. m : IsFiniteSet(F[k]) /\ Cardinality(F[k]) \in Nat
    BY <1>3, NodeFinite, FS_Subset, FS_CardinalityType
  <1>5. 0 \in P
    <2>1. 0 \in 0 .. m OBVIOUS
    <2>2. Cardinality(F[0]) >= 0 BY <1>4, <2>1
    <2> QED BY <1>3, <2>2
  <1>6. ASSUME NEW k \in P PROVE k + 1 \in P
    <2> SUFFICES ASSUME k + 1 \in 0 .. m PROVE S \subseteq F[k + 1] /\ Full(k + 1)
      OBVIOUS
    <2>1. k \in Nat /\ k \in 0 .. m OBVIOUS
    <2>2. F[k + 1] = F[k] \cup UNION {content[n] : n \in F[k]} BY <1>3, <2>1
    <2>3. S \subseteq F[k] /\ Full(k) BY <2>1
    <2>4. CASE \A n \in F[k] : content[n] \subseteq F[k]
      <3>1. F[k + 1] = F[k] BY <2>2, <2>4
      <3> QED BY <2>3, <2>4, <3>1
    <2>5. CASE \E n \in F[k] : ~(content[n] \subseteq F[k])
      <3>1. Cardinality(F[k]) >= k BY <2>3, <2>5
      <3>2. PICK x : x \in F[k + 1] /\ x \notin F[k] BY <2>2, <2>5
      <3>3. F[k] \cup {x} \subseteq F[k + 1] BY <2>2, <3>2
      <3>4. Cardinality(F[k] \cup {x}) = Cardinality(F[k]) + 1
        <4>1. PICK T : T = F[k] OBVIOUS
        <4>2. IsFiniteSet(T) /\ x \notin T BY <1>4, <2>1, <3>2, <4>1
        <4>3. Cardinality(T \cup {x}) = Cardinality(T) + 1 BY <4>2, FS_AddElement
        <4> QED BY <4>1, <4>3
      <3>5. Cardinality(F[k] \cup {x}) <= Cardinality(F[k + 1])
        BY <1>4, <3>3, FS_Subset
      <3>6. Cardinality(F[k]) \in Nat /\ Cardinality(F[k + 1]) \in Nat BY <1>4, <2>1
      <3>7. Cardinality(F[k + 1]) >= k + 1 BY <2>1, <3>1, <3>4, <3>5, <3>6
      <3> QED BY <2>2, <2>3, <3>7
    <2> QED BY <2>4, <2>5
  <1>7. P = Nat
    <2> HIDE DEF P
    <2>1. P \in SUBSET Nat BY DEF P
    <2> QED BY <1>5, <1>6, <2>1, Induct
  <1>8. m \in 0 .. m /\ m \in P BY <1>7
  <1>9. S \subseteq F[m] /\ Full(m) BY <1>8
  <1>10. F[m] \subseteq Node BY <1>3, <1>8
  <1>11. CASE Cardinality(F[m]) >= m
    <2>1. Cardinality(F[m]) <= m BY <1>2, <1>10, NodeFinite, FS_Subset
    <2>2. Cardinality(F[m]) = Cardinality(Node) BY <1>2, <1>4, <1>8, <1>11, <2>1
    <2>3. F[m] = Node BY <1>10, <2>2, NodeFinite, FS_Subset
    <2> QED BY <1>1, <1>2, <1>9, <1>10, <2>3
  <1>12. CASE \A n \in F[m] : content[n] \subseteq F[m]
    BY <1>1, <1>2, <1>9, <1>10, <1>12
  <1> QED BY <1>9, <1>11, <1>12

\* Between two statements, what is allocated is reached from the script, from the
\* buffer, or from what was given up on.
LEMMA GarbageFollows ==
  GcInv /\ KnownInv => NoLostGarbage
  <1> SUFFICES ASSUME GcInv, KnownInv, Running
               PROVE  {n \in Node : type[n] # "free"}
                        \subseteq From(Held \cup forgotten \cup {slots[s] : s \in Roots})
    BY DEF NoLostGarbage
  <1>1. stack = <<>> BY DEF Running
  <1>2. Calls = {} /\ Dying = {} /\ forgotten \subseteq Node BY <1>1, IdleSets
  <1>3. Live = Alive /\ Alive \subseteq Node BY <1>2 DEF Live, Alive
  <1>4. Hands = {} /\ Leaves = {} BY <1>2 DEF Hands, Leaves
  <1>5. PICK S : S = Held \cup forgotten \cup {slots[s] : s \in Roots} OBVIOUS
  <1>6. S \in SUBSET Node
    <2>1. Base BY DEF GcInv
    <2>2. \A s \in Roots : slots[s] \in Node BY <2>1, RootNode
    <2> QED BY <1>2, <1>5, <2>2 DEF Held, Node
  <1>7. Sources \subseteq S BY <1>4, <1>5 DEF Sources, Known, PurpleRoots, InSlots
  <1>8. content \in [Node -> SUBSET Node] BY DEF GcInv, Base, Types
  <1>9. PICK X : X = From(S) OBVIOUS
  <1>10. /\ S \subseteq X /\ X \subseteq Node /\ \A n \in X : content[n] \subseteq X
    BY <1>6, <1>8, <1>9, FromClosed
  <1>11. Covers(Sources, Live) BY <1>1 DEF KnownInv, KnownPhase, KnownQuiet
  <1>12. Live \subseteq X BY <1>7, <1>10, <1>11 DEF Covers, Reaches
  <1> QED BY <1>3, <1>5, <1>9, <1>12 DEF Alive
-----------------------------------------------------------------------------
\* Nothing is allocated to begin with.
LEMMA InitKnown ==
  ASSUME Init
  PROVE  KnownInv
  <1>1. GcInv BY InitInv
  <1>2. /\ type = [n \in Node |-> "free"] /\ addr = [n \in Node |-> 0]
        /\ stack = <<>> /\ forgotten = {}
    BY DEF Init
  <1>3. Alive = {} BY <1>2 DEF Alive
  <1>4. Live = {} BY <1>3 DEF Live
  <1>5. Calls = {} BY <1>1, <1>2, IdleSets
  <1>6. Words BY <1>2, <1>5 DEF Words, Node
  <1>7. KnownQuiet BY <1>4 DEF KnownQuiet, Noted, Covers, Reaches
  <1> QED BY <1>2, <1>6, <1>7 DEF KnownInv, KnownPhase

\* Every release keeps the second invariant.
LEMMA ReleaseKnown ==
  ASSUME Moving, Release
  PROVE  KnownInv'
  BY DtorKnown, TableKnown, DoneKnown DEF Release

\* So does every step of gc_zval_possible_root.
LEMMA PossibleRootKnown ==
  ASSUME Moving, PossibleRoot
  PROVE  KnownInv'
  BY RedirectKnown, CollectedKnown, RootKnownKnown, FullKnown DEF PossibleRoot

\* And every step of a collection.
LEMMA CollectingKnown ==
  ASSUME Moving, Collecting
  PROVE  KnownInv'
  <1>1. CASE \E s \in Slot : MarkRoot(s) \/ ScanRoot(s) \/ CollectRoot(s)
    BY <1>1, MarkRootKnown, ScanRootKnown, CollectRootKnown
  <1>2. CASE \E n \in Node : MarkGrey(n) \/ Scan(n) \/ ScanBlack(n) \/ CollectWhite(n)
    BY <1>2, MarkGreyKnown, ScanKnown, ScanBlackKnown, CollectWhiteKnown
  <1>3. CASE MarkDone \/ BlackDone \/ ScanDone \/ CollectDone
    BY <1>3, MarkDoneKnown, BlackDoneKnown, ScanDoneKnown, CollectDoneKnown
  <1>4. CASE (\E z \in Zval : Destroy(z)) \/ DestroyDone
    BY <1>4, DestroyKnown, DoneKnown
  <1> QED BY <1>1, <1>2, <1>3, <1>4 DEF Collecting

\* And every step of the engine.
LEMMA EngineKnown ==
  ASSUME GcInv, KnownInv, RootsLive, Engine
  PROVE  KnownInv'
  <1>1. forgotten' = Forgetting BY DEF Engine
  <1>2. Working BY <1>1 DEF Engine, Working, Forgetting
  <1>3. GcInv' BY EngineStep
  <1>4. Moving BY <1>1, <1>2, <1>3 DEF Moving
  <1>5. Release \/ PossibleRoot \/ Collecting BY DEF Engine
  <1> QED BY <1>4, <1>5, ReleaseKnown, PossibleRootKnown, CollectingKnown

\* And every statement of the script.
LEMMA ScriptKnown ==
  ASSUME GcInv, KnownInv, Script, UNCHANGED forgotten
  PROVE  KnownInv'
  <1>0. GcInv' BY ScriptStatement
  <1>1. CASE \E z \in Zval : NewArray(z) \/ Leave(z)
    <2>1. PICK z \in Zval : NewArray(z) \/ Leave(z) BY <1>1
    <2>2. stack = <<>> BY <2>1 DEF NewArray, Leave, Running
    <2>3. CASE NewArray(z)
      <3>1. Alloc(z, "array", {}) BY <2>3 DEF NewArray
      <3> QED BY <1>0, <2>2, <3>1, AllocKnown
    <2>4. CASE Leave(z) BY <1>0, <2>2, <2>4, LeaveKnown
    <2> QED BY <2>1, <2>3, <2>4
  <1>2. CASE \E z \in Zval, o \in Obj : NewObject(z, o)
    <2>1. PICK z \in Zval, o \in Obj : NewObject(z, o) BY <1>2
    <2>2. stack = <<>> /\ Alloc(z, "object", {o}) BY <2>1 DEF NewObject, Running
    <2> QED BY <1>0, <2>1, <2>2, AllocKnown
  <1>3. CASE \E y, z \in Zval : CopyHandle(z, y) \/ Fetch(y, z) \/ Assign(y, z) \/ Unset(y, z)
    <2>1. PICK y \in Zval, z \in Zval :
            CopyHandle(z, y) \/ Fetch(y, z) \/ Assign(y, z) \/ Unset(y, z)
      BY <1>3
    <2>2. stack = <<>> BY <2>1 DEF CopyHandle, Fetch, Assign, Unset, Running
    <2>3. CASE CopyHandle(z, y)
      <3>1. ext[y] > 0 /\ type[y] = "object" /\ Alloc(z, "object", content[y])
        BY <2>3 DEF CopyHandle
      <3>2. Holder(y) \in Obj /\ content[y] = {Holder(y)} BY <2>2, <3>1, HolderIs
      <3>3. content[y] \in SUBSET Obj BY <3>2
      <3> QED BY <1>0, <2>1, <2>2, <3>1, <3>3, AllocKnown
    <2>4. CASE Fetch(y, z) BY <1>0, <2>1, <2>2, <2>4, FetchKnown
    <2>5. CASE Assign(y, z) BY <1>0, <2>1, <2>2, <2>5, AssignKnown
    <2>6. CASE Unset(y, z) BY <1>0, <2>1, <2>2, <2>6, UnsetKnown
    <2> QED BY <2>1, <2>3, <2>4, <2>5, <2>6
  <1>4. CASE Collect
    <2>1. stack = <<>> BY <1>4 DEF Collect, Running
    <2> QED BY <1>0, <1>4, <2>1, CollectCallKnown
  <1> QED BY <1>1, <1>2, <1>3, <1>4 DEF Script

\* A step that changes nothing keeps the second invariant.
LEMMA StutterKnown ==
  ASSUME KnownInv, UNCHANGED vars
  PROVE  KnownInv'
  <1>1. /\ type' = type /\ content' = content /\ rc' = rc /\ color' = color /\ addr' = addr
        /\ slots' = slots /\ ext' = ext /\ stack' = stack /\ forgotten' = forgotten
    BY DEF vars, heapVars, gcVars
  <1>2. Words /\ KnownPhase BY DEF KnownInv
  <1>3. Calls' = Calls /\ Top' = Top BY <1>1 DEF Calls, Top
  <1>4. /\ Owned' = Owned /\ Moved' = Moved /\ Stale' = Stale
    BY <1>3 DEF Owned, Moved, Stale
  <1>5. Alive' = Alive /\ Roots' = Roots /\ Held' = Held /\ Trial' = Trial
    BY <1>1 DEF Alive, Roots, Held, Trial
  <1>6. Doomed' = Doomed BY <1>1, <1>4 DEF Doomed
  <1>7. Dying' = Dying BY <1>4, <1>6 DEF Dying
  <1>8. Live' = Live BY <1>5, <1>7 DEF Live
  <1>9. Gone' = Gone BY <1>1, <1>4 DEF Gone
  <1>10. Leaves' = Leaves BY <1>1, <1>7, <1>9 DEF Leaves
  <1>11. Hands' = Hands /\ Waits' = Waits BY <1>3 DEF Hands, Waits
  <1>12. Known' = Known BY <1>1, <1>5, <1>10, <1>11 DEF Known
  <1>13. \A S : InSlots(S)' = InSlots(S) BY <1>1 DEF InSlots
  <1>14. \A S : PurpleRoots(S)' = PurpleRoots(S) BY <1>1 DEF PurpleRoots, InSlots
  <1>15. Sources' = Sources BY <1>5, <1>12, <1>14 DEF Sources
  <1>16. Words'
    <2>1. \A c \in Calls : HandOK(c)' <=> HandOK(c) BY <1>1, <1>8 DEF HandOK
    <2> QED BY <1>1, <1>2, <1>3, <2>1 DEF Words
  <1>17. KnownPhase'
    <2>1. \A N : Noted(N)' <=> Noted(N) BY <1>1, <1>11 DEF Noted
    <2>2. \A A, B, D : Reaches(A, B, D)' <=> Reaches(A, B, D) BY <1>1 DEF Reaches
    <2>3. \A A, B : Covers(A, B)' <=> Covers(A, B) BY <2>2 DEF Covers
    <2>4. \A c : Painted(c)' = Painted(c) BY <1>1 DEF Painted
    <2>5. KnownQuiet' <=> KnownQuiet BY <1>1, <1>8, <1>15, <2>1, <2>3 DEF KnownQuiet
    <2>6. KnownMarking(Top)' <=> KnownMarking(Top)
      BY <1>1, <1>3, <1>5, <1>8, <1>12, <1>13, <1>14, <2>1, <2>3, <2>4 DEF KnownMarking
    <2>7. \A r : KnownScanning(r)' <=> KnownScanning(r)
      BY <1>1, <1>5, <1>8, <1>12, <2>1, <2>2 DEF KnownScanning
    <2>8. KnownScanning(Top.rest)' <=> KnownScanning(Top.rest)
      BY <1>1, <1>3, <1>5, <1>8, <1>12, <2>1, <2>2 DEF KnownScanning
    <2>9. KnownCollecting(Top)' <=> KnownCollecting(Top)
      <3>1. Lost(Top)' = Lost(Top) BY <1>1, <1>3 DEF Lost
      <3> QED BY <1>1, <1>3, <1>5, <1>8, <1>12, <2>1, <2>3, <2>4, <3>1 DEF KnownCollecting
    <2> QED BY <1>1, <1>2, <1>3, <2>5, <2>6, <2>7, <2>8, <2>9 DEF KnownPhase
  <1> QED BY <1>16, <1>17 DEF KnownInv

\* The second invariant holds too: everything that lives is reached from the script, from
\* what a call has in hand, from the buffer, or from what was given up on.
THEOREM KnownInvariance == Spec => [](GcInv /\ KnownInv)
  <1>1. Init => GcInv /\ KnownInv BY InitInv, InitKnown
  <1>2. GcInv /\ KnownInv /\ [Next]_vars => GcInv' /\ KnownInv'
    <2>1. ASSUME GcInv, KnownInv, Next PROVE GcInv' /\ KnownInv'
      BY <2>1, EngineStep, ScriptStatement, EngineKnown, ScriptKnown DEF Next
    <2> QED BY <2>1, Stutter, StutterKnown
  <1> QED BY <1>1, <1>2, PTL DEF Spec

\* Between two statements everything allocated is reached from the script, from the buffer
\* of possible roots, or from what gc_zval_possible_root gave up on: no collection drops a
\* root of garbage that it does not collect (zend_gc.c, gc_mark_roots to gc_collect_roots).
THEOREM GarbageTheorem == Spec => []NoLostGarbage
  BY KnownInvariance, GarbageFollows, PTL
=============================================================================
