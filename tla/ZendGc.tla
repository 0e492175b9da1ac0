------------------------------- MODULE ZendGc -------------------------------
(***************************************************************************)
(* Reference counting and the cycle collector of the Zend engine:          *)
(* zval_ptr_dtor and what it destroys, the object store's references, the  *)
(* buffer of possible roots and gc_collect_cycles (zend_gc.c).             *)
(*                                                                         *)
(* A zval is an array or the handle of an object; arrays and objects hold  *)
(* zvals.  The engine is sequential, but its calls nest: destroying a      *)
(* value releases others, a release may find the buffer full and collect,  *)
(* and destroying what was collected releases, and may collect, again.     *)
(* stack holds the calls that have not returned, the innermost first.      *)
(* zend.enable_gc is on, and no class has a destructor.                    *)
(***************************************************************************)
EXTENDS Integers, Sequences, FiniteSets

CONSTANTS
    Zval,           \* zvals the allocator hands out (reused once freed)
    Obj,            \* buckets of the object store (reused once freed)
    None,           \* no zval
    MaxEntries,     \* GC_ROOT_BUFFER_MAX_ENTRIES
    MaxRefs         \* bound: variables of the script that hold one zval

ASSUME GcAssumption ==
    /\ Zval \cap Obj = {} /\ None \notin Zval \cup Obj
    /\ IsFiniteSet(Zval) /\ IsFiniteSet(Obj)
    /\ MaxEntries \in Nat \ {0} /\ MaxRefs \in Nat \ {0}

Node == Zval \cup Obj
Slot == 1 .. MaxEntries

VARIABLES
    type,       \* "array", "object" or "null" for a zval, "store" for an object
                \* that is valid, "free" for what is not allocated
    content,    \* the elements of an array, the object of a handle, properties
    rc,         \* refcount__gc, and the refcount of an object
    color, addr,    \* the word `buffered': colour and slot of the buffer, or 0
    slots,      \* the buffer: slot -> possible root, or None
    ext,        \* variables of the script that hold the zval
    stack,
    forgotten   \* history: what gc_zval_possible_root gave up on, see below

heapVars == <<type, content, rc>>
gcVars == <<color, addr, slots>>
vars == <<heapVars, gcVars, ext, stack, forgotten>>

\* A call in progress: what it does, its zval and node, what it has still to
\* visit, and what it has listed or has yet to begin.
Call(op, z, n, rest, list) == [op |-> op, z |-> z, n |-> n, rest |-> rest, list |-> list]

Top == Head(stack)
Calls == {stack[i] : i \in DOMAIN stack}
Return == Tail(stack)
Goto(c) == <<c>> \o Return

Gc(op, rest, list) == Call(op, None, None, rest, list)
Roots == {s \in Slot : slots[s] # None}
gc_collect_cycles == Gc("mark", {}, Roots)

\* Zvals that a collection has listed and not freed yet: their word `buffered'
\* is the link of that list.
Listed == UNION {c.list : c \in {d \in Calls : d.op = "destroy"}}

Init ==
    /\ type = [n \in Node |-> "free"] /\ content = [n \in Node |-> {}]
    /\ rc = [n \in Node |-> 0] /\ color = [n \in Node |-> "black"]
    /\ addr = [n \in Node |-> 0] /\ slots = [s \in Slot |-> None]
    /\ ext = [z \in Zval |-> 0] /\ stack = <<>> /\ forgotten = {}

-----------------------------------------------------------------------------
(***************************************************************************)
(* The script, as the engine's opcodes use the heap.                       *)
(***************************************************************************)
Running == stack = <<>>

Holder(z) == IF type[z] = "object" THEN CHOOSE o \in content[z] : TRUE ELSE z

\* A zval fresh from ALLOC_ZVAL, held by one variable; its type and content.
Alloc(z, t, c) ==
    /\ type[z] = "free"
    /\ type' = [n \in Node |-> IF n = z THEN t ELSE IF n \in c THEN "store" ELSE type[n]]
    /\ content' = [content EXCEPT ![z] = c]
    /\ color' = [n \in Node |-> IF n = z \/ (n \in c /\ type[n] = "free") THEN "black"
                                ELSE color[n]]
    /\ addr' = [n \in Node |-> IF n = z \/ (n \in c /\ type[n] = "free") THEN 0
                               ELSE addr[n]]
    /\ rc' = [n \in Node |-> IF n = z \/ (n \in c /\ type[n] = "free") THEN 1
                             ELSE IF n \in c THEN rc[n] + 1 ELSE rc[n]]
    /\ ext' = [ext EXCEPT ![z] = 1]
    /\ UNCHANGED <<slots, stack>>

NewArray(z) == Running /\ Alloc(z, "array", {})

NewObject(z, o) == Running /\ type[o] = "free" /\ Alloc(z, "object", {o})

\* A second handle of y's object.
CopyHandle(z, y) ==
    /\ Running /\ ext[y] > 0 /\ type[y] = "object" /\ Alloc(z, "object", content[y])

\* One more variable for y's element z, or for y itself.
Fetch(y, z) ==
    /\ Running /\ ext[y] > 0 /\ z \in {y} \cup content[Holder(y)]
    /\ ext[z] < MaxRefs
    /\ ext' = [ext EXCEPT ![z] = @ + 1] /\ rc' = [rc EXCEPT ![z] = @ + 1]
    /\ UNCHANGED <<type, content, gcVars, stack>>

Assign(y, z) ==
    /\ Running /\ ext[y] > 0 /\ ext[z] > 0 /\ z \notin content[Holder(y)]
    /\ content' = [content EXCEPT ![Holder(y)] = @ \cup {z}]
    /\ rc' = [rc EXCEPT ![z] = @ + 1]
    /\ UNCHANGED <<type, gcVars, ext, stack>>

Unset(y, z) ==
    /\ Running /\ ext[y] > 0 /\ z \in content[Holder(y)]
    /\ content' = [content EXCEPT ![Holder(y)] = @ \ {z}]
    /\ stack' = <<Call("dtor", z, z, {}, {})>>
    /\ UNCHANGED <<type, rc, gcVars, ext>>

Leave(z) ==
    /\ Running /\ ext[z] > 0
    /\ ext' = [ext EXCEPT ![z] = @ - 1]
    /\ stack' = <<Call("dtor", z, z, {}, {})>>
    /\ UNCHANGED <<heapVars, gcVars>>

\* gc_collect_cycles(): the function of that name.
Collect ==
    /\ Running /\ Roots # {}
    /\ stack' = <<gc_collect_cycles>>
    /\ UNCHANGED <<heapVars, gcVars, ext>>

-----------------------------------------------------------------------------
(***************************************************************************)
(* zval_ptr_dtor, zval_dtor, and the object store.                         *)
(***************************************************************************)

\* The slot of n, and no other that may hold n, is given back.
Unbuffer(ns) ==
    /\ slots' = [s \in Slot |-> IF \E n \in ns : addr[n] = s THEN None ELSE slots[s]]
    /\ addr' = [n \in Node |-> IF n \in ns THEN 0 ELSE addr[n]]
    /\ color' = [n \in Node |-> IF n \in ns /\ addr[n] # 0 THEN "black" ELSE color[n]]

Free(ns) ==
    /\ type' = [n \in Node |-> IF n \in ns THEN "free" ELSE type[n]]
    /\ content' = [n \in Node |-> IF n \in ns THEN {} ELSE content[n]]

\* Mutant of DtorShared: the zval is not noted as a possible root.
DtorSharedForgets(z) ==
    /\ rc[z] > 1
    /\ rc' = [rc EXCEPT ![z] = @ - 1] /\ stack' = Return
    /\ UNCHANGED <<type, content, gcVars>>

\* References are left: z is a possible root.
DtorShared(z) ==
    /\ rc[z] > 1
    /\ rc' = [rc EXCEPT ![z] = @ - 1]
    /\ stack' = IF type[z] \in {"array", "object"}
                THEN Goto(Call("root", z, z, {}, {})) ELSE Return
    /\ UNCHANGED <<type, content, gcVars>>

\* The last reference to an array: "break possible cycles", then its elements (a
\* zval that was destroyed already has none).
DtorArray(z) ==
    /\ rc[z] = 1 /\ type[z] # "object"
    /\ rc' = [rc EXCEPT ![z] = 0]
    /\ Unbuffer({z})
    /\ type' = [type EXCEPT ![z] = "null"]
    /\ content' = [content EXCEPT ![z] = {}]
    /\ stack' = Goto(Call("elements", z, z, content[z], {}))

\* The last reference to a handle: zend_objects_store_del_ref.  The last handle
\* takes the object with it; z keeps a reference of its own until then.
DtorHandle(z) ==
    LET o == Holder(z)
    IN  /\ rc[z] = 1 /\ type[z] = "object"
        /\ \/ /\ type[o] = "store" /\ rc[o] = 1
              /\ Unbuffer({z, o})
              /\ stack' = Goto(Call("properties", z, o, content[o], {}))
              /\ UNCHANGED rc
           \/ /\ type[o] # "store" \/ rc[o] # 1
              /\ rc' = [rc EXCEPT ![o] = @ - 1, ![z] = 0]
              /\ Unbuffer({z})
              /\ stack' = (IF type[o] = "store" THEN <<Call("root", z, o, {}, {})>>
                           ELSE <<>>) \o Goto(Call("efree", z, z, {}, {}))
        /\ UNCHANGED <<type, content>>

zval_ptr_dtor ==
    /\ Top.op = "dtor"
    /\ DtorShared(Top.z) \/ DtorArray(Top.z) \/ DtorHandle(Top.z)

\* zend_hash_destroy releases one element, or property, after the other; the
\* table itself is not changed meanwhile.
zend_hash_destroy ==
    /\ Top.op \in {"elements", "properties"}
    /\ \E e \in Top.rest :
          stack' = <<Call("dtor", e, e, {}, {}), [Top EXCEPT !.rest = @ \ {e}]>> \o Return
    /\ UNCHANGED <<heapVars, gcVars>>

\* All elements are gone; the zval goes too unless the collector will free it.
ElementsDone ==
    /\ Top.op = "elements" /\ Top.rest = {}
    /\ Free({Top.z}) /\ stack' = Return
    /\ UNCHANGED <<rc, gcVars>>

\* The object's storage is gone: its bucket is put on the free list.
PropertiesDone ==
    /\ Top.op = "properties" /\ Top.rest = {}
    /\ Free({Top.n, Top.z}) /\ stack' = Return
    /\ rc' = [n \in Node |-> IF n \in {Top.n, Top.z} THEN rc[n] - 1 ELSE rc[n]]
    /\ UNCHANGED gcVars

efree ==
    /\ Top.op = "efree"
    /\ Free({Top.z}) /\ stack' = Return
    /\ UNCHANGED <<rc, gcVars>>

-----------------------------------------------------------------------------
(***************************************************************************)
(* gc_zval_possible_root and gc_zobj_possible_root: Top.n is z itself, or  *)
(* the object z is a handle of.                                            *)
(***************************************************************************)
Buffer(n) ==
    /\ Roots # Slot
    /\ LET s == CHOOSE s \in Slot \ Roots : TRUE
       IN  slots' = [slots EXCEPT ![s] = n] /\ addr' = [addr EXCEPT ![n] = s]
    /\ color' = [color EXCEPT ![n] = "purple"]

\* What the running collection will delete is not buffered; for a handle it is
\* the object that is, if it is still there.
RootRedirect ==
    /\ Top.op = "root" /\ Top.n = Top.z
    /\ \/ Top.z \in Listed /\ stack' = Return
       \/ /\ Top.z \notin Listed /\ type[Top.z] = "object"
          /\ stack' = IF type[Holder(Top.z)] = "store"
                      THEN Goto([Top EXCEPT !.n = Holder(Top.z)]) ELSE Return
    /\ UNCHANGED <<heapVars, gcVars>>

\* Mutant of AtRoot: what is going to be deleted is buffered like the rest.
AtRootListed(n) ==
    /\ Top.op = "root" /\ Top.n = n
    /\ n \in Obj \/ type[n] = "array"

\* The node itself is looked at.
AtRoot(n) ==
    /\ Top.op = "root" /\ Top.n = n
    /\ n \in Obj \/ (n \notin Listed /\ type[n] = "array")

RootKnown(n) ==
    /\ AtRoot(n) /\ (color[n] = "purple" \/ addr[n] # 0)
    /\ color' = [color EXCEPT ![n] = "purple"] /\ stack' = Return
    /\ UNCHANGED <<heapVars, addr, slots>>

RootBuffer(n) ==
    /\ AtRoot(n) /\ color[n] # "purple" /\ addr[n] = 0
    /\ Buffer(n) /\ stack' = Return
    /\ UNCHANGED heapVars

\* No slot is left: collect, holding on to the zval.
RootFull(n) ==
    /\ AtRoot(n) /\ color[n] # "purple" /\ addr[n] = 0 /\ Roots = Slot
    /\ color' = [color EXCEPT ![n] = "purple"]
    /\ rc' = [rc EXCEPT ![Top.z] = @ + 1]
    /\ stack' = <<gc_collect_cycles>> \o Goto([Top EXCEPT !.op = "collected"])
    /\ UNCHANGED <<type, content, addr, slots>>

\* Back from there: buffer the node now, unless the buffer is full once more.
RootCollected ==
    /\ Top.op = "collected"
    /\ rc' = [rc EXCEPT ![Top.z] = @ - 1]
    /\ \/ Buffer(Top.n)
       \/ Roots = Slot /\ UNCHANGED gcVars
    /\ stack' = Return
    /\ UNCHANGED <<type, content>>

-----------------------------------------------------------------------------
(***************************************************************************)
(* gc_collect_cycles.  The recursion over the graph is a set of nodes to   *)
(* visit, taken in any order.  gc_active is set while the innermost call   *)
(* marks, scans or collects: these phases call nothing.                    *)
(***************************************************************************)
Add(ns, d) == rc' = [n \in Node |-> IF n \in ns THEN rc[n] + d ELSE rc[n]]

Paint(n, c) == color' = [color EXCEPT ![n] = c]

\* gc_mark_roots: a root that is no longer purple leaves the buffer.
MarkRoot(s) ==
    /\ Top.op = "mark" /\ Top.rest = {} /\ s \in Top.list
    /\ LET n == slots[s]
       IN  IF color[n] = "purple"
           THEN /\ stack' = Goto(Gc("mark", {n}, Top.list \ {s}))
                /\ UNCHANGED <<addr, slots>>
           ELSE /\ stack' = Goto(Gc("mark", {}, Top.list \ {s}))
                /\ slots' = [slots EXCEPT ![s] = None]
                /\ addr' = [addr EXCEPT ![n] = 0]
    /\ UNCHANGED <<heapVars, color>>

\* Mutant of MarkGrey: a node that is grey already is visited again.
MarkGreyAgain(n) ==
    /\ Top.op = "mark" /\ n \in Top.rest
    /\ Paint(n, "grey") /\ Add(content[n], -1)
    /\ stack' = Goto([Top EXCEPT !.rest = (@ \ {n}) \cup content[n]])
    /\ UNCHANGED <<type, content, addr, slots>>

\* zval_mark_grey, zobj_mark_grey: take away what the node's references count.
MarkGrey(n) ==
    /\ Top.op = "mark" /\ n \in Top.rest
    /\ Paint(n, "grey") /\ Add(content[n], -1)
    /\ stack' = Goto([Top EXCEPT !.rest =
                        {m \in (@ \cup content[n]) \ {n} : color[m] # "grey"}])
    /\ UNCHANGED <<type, content, addr, slots>>

MarkDone ==
    /\ Top.op = "mark" /\ Top.rest = {} /\ Top.list = {}
    /\ stack' = Goto(Gc("scan", {}, Roots))
    /\ UNCHANGED <<heapVars, gcVars>>

\* gc_scan_roots
ScanRoot(s) ==
    /\ Top.op = "scan" /\ Top.rest = {} /\ s \in Top.list
    /\ stack' = Goto(Gc("scan", {slots[s]}, Top.list \ {s}))
    /\ UNCHANGED <<heapVars, gcVars>>

\* Mutant of Scan: the count that is left is not looked at.
ScanUncounted(n) ==
    /\ Top.op = "scan" /\ n \in Top.rest
    /\ IF color[n] = "grey"
       THEN /\ Paint(n, "white")
            /\ stack' = Goto([Top EXCEPT !.rest = (@ \cup content[n]) \ {n}])
       ELSE stack' = Goto([Top EXCEPT !.rest = @ \ {n}]) /\ UNCHANGED color
    /\ UNCHANGED <<heapVars, addr, slots>>

\* zval_scan, zobj_scan: what is still counted is held from outside.
Scan(n) ==
    /\ Top.op = "scan" /\ n \in Top.rest
    /\ LET left == Goto([Top EXCEPT !.rest = @ \ {n}])
       IN  \/ color[n] # "grey" /\ stack' = left /\ UNCHANGED color
          \/ /\ color[n] = "grey" /\ rc[n] > 0
             /\ stack' = <<Gc("black", {n}, {})>> \o left /\ UNCHANGED color
          \/ /\ color[n] = "grey" /\ rc[n] <= 0
             /\ Paint(n, "white")
             /\ stack' = Goto([Top EXCEPT !.rest = (@ \cup content[n]) \ {n}])
    /\ UNCHANGED <<heapVars, addr, slots>>

\* Mutant of ScanBlack: counts are given back only where the walk goes on.
ScanBlackUnvisited(n) ==
    /\ Top.op = "black" /\ n \in Top.rest
    /\ Paint(n, "black") /\ Add({m \in content[n] : color[m] # "black"}, 1)
    /\ stack' = Goto([Top EXCEPT !.rest =
                        {m \in (@ \cup content[n]) \ {n} : color[m] # "black"}])
    /\ UNCHANGED <<type, content, addr, slots>>

\* zval_scan_black, zobj_scan_black: give back what was taken away.
ScanBlack(n) ==
    /\ Top.op = "black" /\ n \in Top.rest
    /\ Paint(n, "black") /\ Add(content[n], 1)
    /\ stack' = Goto([Top EXCEPT !.rest =
                        {m \in (@ \cup content[n]) \ {n} : color[m] # "black"}])
    /\ UNCHANGED <<type, content, addr, slots>>

BlackDone ==
    /\ Top.op = "black" /\ Top.rest = {} /\ stack' = Return
    /\ UNCHANGED <<heapVars, gcVars>>

ScanDone ==
    /\ Top.op = "scan" /\ Top.rest = {} /\ Top.list = {}
    /\ stack' = Goto(Gc("collect", {}, {}))
    /\ UNCHANGED <<heapVars, gcVars>>

\* gc_collect_roots: every root leaves the buffer.
CollectRoot(s) ==
    /\ Top.op = "collect" /\ Top.rest = {} /\ s \in Roots
    /\ slots' = [slots EXCEPT ![s] = None] /\ addr' = [addr EXCEPT ![slots[s]] = 0]
    /\ stack' = Goto([Top EXCEPT !.rest = {slots[s]}])
    /\ UNCHANGED <<heapVars, color>>

\* Mutant of CollectWhite: the list takes no reference of its own.
CollectWhiteUnheld(n) ==
    /\ Top.op = "collect" /\ n \in Top.rest
    /\ IF color[n] = "white" /\ addr[n] = 0
       THEN /\ Paint(n, IF n \in Zval THEN "black" ELSE "purple")
            /\ Add(content[n] \cap Zval, 1)
            /\ stack' = Goto([Top EXCEPT !.rest = (@ \cup content[n]) \ {n},
                                         !.list = @ \cup ({n} \cap Zval)])
       ELSE stack' = Goto([Top EXCEPT !.rest = @ \ {n}]) /\ UNCHANGED <<color, rc>>
    /\ UNCHANGED <<type, content, addr, slots>>

\* zval_collect_white, zobj_collect_white: restore the counts of zvals, and list
\* the zval with a reference of the list's own.  An object keeps the count of
\* zero by which it will be known.
CollectWhite(n) ==
    /\ Top.op = "collect" /\ n \in Top.rest
    /\ IF color[n] = "white" /\ addr[n] = 0
       THEN /\ Paint(n, IF n \in Zval THEN "black" ELSE "purple")
            /\ rc' = [m \in Node |->
                        rc[m] + (IF m \in content[n] \cap Zval THEN 1 ELSE 0)
                              + (IF m = n /\ n \in Zval THEN 1 ELSE 0)]
            /\ stack' = Goto([Top EXCEPT !.rest = (@ \cup content[n]) \ {n},
                                         !.list = @ \cup ({n} \cap Zval)])
       ELSE stack' = Goto([Top EXCEPT !.rest = @ \ {n}]) /\ UNCHANGED <<color, rc>>
    /\ UNCHANGED <<type, content, addr, slots>>

CollectDone ==
    /\ Top.op = "collect" /\ Top.rest = {} /\ Roots = {}
    /\ stack' = Goto(Gc("destroy", Top.list, Top.list))
    /\ UNCHANGED <<heapVars, gcVars>>

\* "Destroy zvals": an array, or the object of a handle if nothing has destroyed
\* it yet.
DestroyArray(z) ==
    /\ type[z] = "array"
    /\ type' = [type EXCEPT ![z] = "null"] /\ content' = [content EXCEPT ![z] = {}]
    /\ stack' = <<Call("elements", None, z, content[z], {})>>
                \o Goto([Top EXCEPT !.rest = @ \ {z}])
    /\ UNCHANGED <<rc, gcVars>>

DestroyHandle(z) ==
    LET o == Holder(z)
    IN  /\ type[z] = "object" /\ type[o] = "store" /\ rc[o] <= 0
        /\ rc' = [rc EXCEPT ![o] = 1]
        /\ type' = [type EXCEPT ![z] = "null"]
        /\ content' = [content EXCEPT ![z] = {}]
        /\ Unbuffer({o})
        /\ stack' = <<Call("properties", None, o, content[o], {})>>
                    \o Goto([Top EXCEPT !.rest = @ \ {z}])

DestroySkip(z) ==
    /\ type[z] = "object" /\ (type[Holder(z)] # "store" \/ rc[Holder(z)] > 0)
    /\ stack' = Goto([Top EXCEPT !.rest = @ \ {z}])
    /\ UNCHANGED <<heapVars, gcVars>>

Destroy(z) ==
    /\ Top.op = "destroy" /\ z \in Top.rest
    /\ DestroyArray(z) \/ DestroyHandle(z) \/ DestroySkip(z)

\* "Free zvals"
DestroyDone ==
    /\ Top.op = "destroy" /\ Top.rest = {}
    /\ Free(Top.list) /\ stack' = Return
    /\ UNCHANGED <<rc, gcVars>>

-----------------------------------------------------------------------------
Script ==
    \/ \E z \in Zval : NewArray(z) \/ Leave(z)
    \/ \E z \in Zval, o \in Obj : NewObject(z, o)
    \/ \E y, z \in Zval : CopyHandle(z, y) \/ Fetch(y, z) \/ Assign(y, z) \/ Unset(y, z)
    \/ Collect

\* After a collection a possible root is given up on for good in two ways: it is
\* not buffered since the buffer is full once more, or the reference held on the
\* zval meanwhile was its last and is given back without freeing the zval.
Forgetting ==
    {n \in Node : type'[n] # "free" /\ addr'[n] = 0
                  /\ \/ n \in forgotten
                     \/ Top.op = "collected" /\ n = Top.n
                     \/ Top.op = "collected" /\ n = Top.z /\ rc'[n] = 0}

Release ==
    \/ zval_ptr_dtor \/ zend_hash_destroy \/ ElementsDone \/ PropertiesDone \/ efree

PossibleRoot ==
    \/ RootRedirect \/ RootCollected
    \/ \E n \in Node : RootKnown(n) \/ RootBuffer(n) \/ RootFull(n)

Collecting ==
    \/ \E s \in Slot : MarkRoot(s) \/ ScanRoot(s) \/ CollectRoot(s)
    \/ \E n \in Node : MarkGrey(n) \/ Scan(n) \/ ScanBlack(n) \/ CollectWhite(n)
    \/ MarkDone \/ BlackDone \/ ScanDone \/ CollectDone
    \/ \E z \in Zval : Destroy(z)
    \/ DestroyDone

Engine ==
    /\ stack # <<>> /\ (Release \/ PossibleRoot \/ Collecting)
    /\ UNCHANGED ext /\ forgotten' = Forgetting

\* Every zval in the buffer is allocated.  What the collector does with one that
\* is not is undefined: no execution is followed further.
RootsLive == \A s \in Roots : slots[s] \in Zval => type[slots[s]] # "free"

Next == RootsLive /\ ((Script /\ UNCHANGED forgotten) \/ Engine)

Spec == Init /\ [][Next]_vars

-----------------------------------------------------------------------------
Type == {"free", "null", "array", "object", "store"}
Op == {"dtor", "elements", "properties", "efree", "root", "collected",
       "mark", "scan", "black", "collect", "destroy"}

\* Every variable keeps its type, and no count of an allocated node goes below 0,
\* however often the collector takes counts away.
TypeOK ==
    /\ type \in [Node -> Type] /\ content \in [Node -> SUBSET Node]
    /\ rc \in [Node -> Int] /\ \A n \in Node : type[n] # "free" => rc[n] >= 0
    /\ color \in [Node -> {"black", "grey", "white", "purple"}]
    /\ addr \in [Node -> {0} \cup Slot] /\ slots \in [Slot -> Node \cup {None}]
    /\ ext \in [Zval -> 0 .. MaxRefs] /\ forgotten \subseteq Node
    /\ \A c \in Calls : /\ c.op \in Op /\ c.z \in Zval \cup {None}
                       /\ c.n \in Node \cup {None} /\ c.rest \subseteq Node

\* What can be reached from the nodes S.
From(S) ==
    LET R[k \in 0 .. Cardinality(Node)] ==
            IF k = 0 THEN S ELSE R[k - 1] \cup UNION {content[n] : n \in R[k - 1]}
    IN  R[Cardinality(Node)]

Held == {z \in Zval : ext[z] > 0}
InUse(n) == type[n] \in {"array", "object", "store"}

\* Nothing the script can reach is ever destroyed or freed, neither by a chain of
\* releases nor by a collection, nested ones included.
NoDangling == \A n \in From(Held) : InUse(n)

\* Between two statements of the script the counts are exact: what a collection
\* took away on trial has been given back.
CountsExact ==
    Running => \A n \in Node : InUse(n) =>
        rc[n] = (IF n \in Zval THEN ext[n] ELSE 0)
                + Cardinality({m \in Node : InUse(m) /\ n \in content[m]})

\* Garbage is lost by that alone: everything allocated is reached from the script,
\* from the buffer of possible roots, or from what was forgotten.
NoLostGarbage ==
    Running => {n \in Node : type[n] # "free"}
                 \subseteq From(Held \cup forgotten \cup {slots[s] : s \in Roots})

\* What has been listed is garbage and is kept by the list's own reference until
\* the list is freed: it is freed once.
ListedKept ==
    \A z \in Listed : type[z] # "free" /\ rc[z] >= 1 /\ z \notin From(Held)

\* A collection visits no zval that has been freed, and none that a collection it
\* is nested in has listed: it would overwrite the link of that list with a colour.
VisitsLive ==
    \A c \in Calls : c.op \in {"mark", "scan", "black", "collect"}
        => \A n \in c.rest \cap Zval : type[n] # "free" /\ n \notin Listed
=============================================================================
