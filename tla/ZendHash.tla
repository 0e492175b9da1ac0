------------------------------ MODULE ZendHash ------------------------------
(***************************************************************************)
(* The hash table of the Zend engine (zend_hash.c), at the level of its    *)
(* pointers: every bucket is in a chain of arBuckets and in one list of    *)
(* all buckets, both doubly linked, and pInternalPointer points into the   *)
(* list.                                                                   *)
(*                                                                         *)
(* The table is used by one thread, but a destructor of its elements or    *)
(* the comparison of two of them may run a script, and the script may use  *)
(* the same table: every call that destroys an element is split where it   *)
(* calls pDestructor, and zend_hash_sort where it calls sort_func.  stack  *)
(* holds the calls that wait for a script, the innermost first.            *)
(***************************************************************************)
EXTENDS Integers, Sequences, FiniteSets, SequencesExt

CONSTANTS
    Bucket,         \* memory for buckets, reused once freed
    NULL,
    StrKey,         \* string keys
    StrHash,        \* zend_inline_hash_func, as a function on StrKey
    LongMax,        \* LONG_MAX; an ulong has the values 0 .. 2 * LongMax + 1
    ScriptIndex,    \* bound: the numeric keys that scripts insert by name
    InitSize,       \* nTableSize of a new table (8)
    SizeLimit,      \* nTableSize << 1 is computed modulo this power of two
    MaxDepth        \* bound: calls that wait for a script, and loops, together

ASSUME HashAssumption ==
    /\ IsFiniteSet(Bucket) /\ LongMax \in Nat /\ LongMax >= Cardinality(Bucket)
    /\ StrHash \in [StrKey -> 0 .. 2 * LongMax + 1]
    /\ ScriptIndex \subseteq (-LongMax - 1) .. LongMax
    /\ NULL \notin Bucket \cup StrKey \cup (-LongMax - 1) .. LongMax
    /\ InitSize \in Nat \ {0} /\ SizeLimit \in Nat /\ SizeLimit > Cardinality(Bucket)
    /\ MaxDepth \in Nat \ {0}

Index == (-LongMax - 1) .. LongMax
Key == StrKey \cup Index
ScriptKey == StrKey \cup ScriptIndex

\* h of a bucket: a numeric key is its own hash, as an ulong.
Ulong(k) == IF k \in StrKey THEN StrHash[k] ELSE k % (2 * LongMax + 2)

VARIABLES
    ht,         \* the table and the memory of its buckets
    fe,         \* HashPointer: the place a foreach loop goes on from
    stack,
    owed,       \* history: the deletions that were waiting when the table was emptied
    torn        \* history: zend_hash_sort has made the list of other elements

vars == <<ht, fe, stack, owed, torn>>

_zend_hash_init ==
    LET none == [p \in Bucket |-> NULL]
    IN  [nTableSize |-> InitSize, nNumOfElements |-> 0, nNextFreeElement |-> 0,
         pInternalPointer |-> NULL, pListHead |-> NULL, pListTail |-> NULL,
         arBuckets |-> [s \in 0 .. InitSize - 1 |-> NULL],
         live |-> {}, key |-> none,
         pListNext |-> none, pListLast |-> none, pNext |-> none, pLast |-> none]

Init ==
    /\ ht = _zend_hash_init /\ fe = [pos |-> NULL, h |-> 0] /\ stack = <<>>
    /\ owed = 0 /\ torn = FALSE

-----------------------------------------------------------------------------
(***************************************************************************)
(* Pointers.                                                               *)
(***************************************************************************)

\* Assignment through a pointer that may be NULL.
Set(f, p, v) == IF p = NULL THEN f ELSE [f EXCEPT ![p] = v]

\* The buckets met from p on along the pointers f, one too many if they go round.
Path(f, p) ==
    LET P[n \in 0 .. Cardinality(Bucket) + 1] ==
            [q \in Bucket \cup {NULL} |->
                IF n = 0 \/ q = NULL THEN <<>> ELSE <<q>> \o P[n - 1][f[q]]]
    IN  P[Cardinality(Bucket) + 1][p]

List(t) == Path(t.pListNext, t.pListHead)

nIndex(t, k) == Ulong(k) % t.nTableSize

Chain(t, s) == Path(t.pNext, t.arBuckets[s])

\* The bucket of key k, looked for in its chain.
Find(t, k) ==
    LET chain == Chain(t, nIndex(t, k))
        found == {i \in DOMAIN chain : t.key[chain[i]] = k}
    IN  IF found = {} THEN NULL ELSE chain[CHOOSE i \in found : \A j \in found : i <= j]

CONNECT_TO_BUCKET_DLLIST(t, p) ==
    LET s == nIndex(t, t.key[p])
    IN  [t EXCEPT !.pNext[p] = t.arBuckets[s],
                  !.pLast = Set([@ EXCEPT ![p] = NULL], t.arBuckets[s], p),
                  !.arBuckets[s] = p]

CONNECT_TO_GLOBAL_DLLIST(t, p) ==
    [t EXCEPT !.pListLast[p] = t.pListTail,
              !.pListNext = Set([@ EXCEPT ![p] = NULL], t.pListTail, p),
              !.pListTail = p,
              !.pListHead = IF @ = NULL THEN p ELSE @,
              !.pInternalPointer = IF @ = NULL THEN p ELSE @]

Unchain(t, p, first) ==
    [t EXCEPT !.arBuckets[nIndex(t, t.key[p])] = IF first THEN t.pNext[p] ELSE @,
              !.pNext = IF first THEN @ ELSE Set(@, t.pLast[p], t.pNext[p]),
              !.pLast = Set(@, t.pNext[p], t.pLast[p])]

Unlist(t, p) ==
    [t EXCEPT !.pListNext = Set(@, t.pListLast[p], t.pListNext[p]),
              !.pListLast = Set(@, t.pListNext[p], t.pListLast[p]),
              !.pListHead = IF t.pListLast[p] = NULL THEN t.pListNext[p] ELSE @,
              !.pListTail = IF t.pListNext[p] = NULL THEN t.pListLast[p] ELSE @,
              !.pInternalPointer = IF @ = p THEN t.pListNext[p] ELSE @]

\* Of the buckets in gone only the memory is left, and pListNext.
Forget(t, gone) ==
    LET clear(f) == [p \in Bucket |-> IF p \in gone THEN NULL ELSE f[p]]
    IN  [t EXCEPT !.key = clear(@), !.pListLast = clear(@),
                  !.pNext = clear(@), !.pLast = clear(@)]

\* The element is out of the table, and its bucket still there.
Unlink(t, p) ==
    Forget(Unlist(Unchain(t, p, p = t.arBuckets[nIndex(t, t.key[p])]), p), {p})

pefree(t, p) == [Forget(t, {p}) EXCEPT !.live = @ \ {p}, !.pListNext[p] = NULL]

\* nNumOfElements is an unsigned word.
Count(t, d) == [t EXCEPT !.nNumOfElements = (@ + d) % SizeLimit]

\* The loop over the list: R[i] is the table once i buckets are in their chains.
zend_hash_rehash(t) ==
    LET l == List(t)
        R[i \in 0 .. Len(l)] ==
            IF i = 0 THEN [t EXCEPT !.arBuckets = [s \in 0 .. t.nTableSize - 1 |-> NULL]]
            ELSE CONNECT_TO_BUCKET_DLLIST(R[i - 1], l[i])
    IN  R[Len(l)]

\* A fault: the chains of the smaller table are left as they are.
ResizeNoRehash(t) ==
    LET size == (2 * t.nTableSize) % SizeLimit
    IN  IF t.nNumOfElements > t.nTableSize /\ size > 0
        THEN {t, [t EXCEPT !.nTableSize = size,
                           !.arBuckets = [s \in 0 .. size - 1 |->
                                              IF s \in DOMAIN @ THEN @[s] ELSE NULL]]}
        ELSE {t}

\* The table after an insertion: memory for a larger one may be refused.
ZEND_HASH_IF_FULL_DO_RESIZE(t) ==
    LET size == (2 * t.nTableSize) % SizeLimit
    IN  IF t.nNumOfElements > t.nTableSize /\ size > 0
        THEN {t, zend_hash_rehash([t EXCEPT !.nTableSize = size])}
        ELSE {t}

\* nNextFreeElement after key k was used.
NextFree(n, k) ==
    IF k \in Index THEN IF k >= n THEN IF k < LongMax THEN k + 1 ELSE LongMax ELSE n
    ELSE n

-----------------------------------------------------------------------------
(***************************************************************************)
(* Calls.  Frame: what the call does, the bucket it will go on with, the   *)
(* one it has taken out of the table, whose destructor runs, its key, and  *)
(* the buckets that it sorts.                                              *)
(***************************************************************************)
Frame(op, p, dead, k) == [op |-> op, p |-> p, dead |-> dead, k |-> k, arTmp |-> <<>>]

Top == Head(stack)
Return == Tail(stack)
Frames == {stack[i] : i \in DOMAIN stack}

Deleting == {i \in DOMAIN stack : stack[i].op = "del"}

\* The script runs, or a destructor or a comparison called from the innermost call.
Scripting ==
    IF stack = <<>> THEN TRUE
    ELSE /\ Len(stack) + Cardinality({fe.pos} \ {NULL}) < MaxDepth
         /\ Top.op = "update" \/ Top.dead # NULL \/ Len(Top.arTmp) > 1

Enter(f) == stack' = <<f>> \o stack

Insert(k) ==
    \E p \in Bucket \ ht.live :
        LET t == [ht EXCEPT !.live = @ \cup {p}, !.key[p] = k,
                            !.nNextFreeElement = NextFree(@, k)]
        IN  ht' \in ZEND_HASH_IF_FULL_DO_RESIZE(
                        Count(CONNECT_TO_GLOBAL_DLLIST(CONNECT_TO_BUCKET_DLLIST(t, p), p), 1))

\* _zend_hash_add_or_update, _zend_hash_quick_add_or_update and
\* _zend_hash_index_update_or_next_insert, for a key that is not there ...
zend_hash_add(k) ==
    /\ Scripting /\ Find(ht, k) = NULL
    /\ Insert(k)
    /\ UNCHANGED stack

zend_hash_next_index_insert == zend_hash_add(ht.nNextFreeElement)

\* ... and one that is: the old element is destroyed in place,
zend_hash_update(k) ==
    /\ Scripting /\ Find(ht, k) # NULL
    /\ Enter(Frame("update", Find(ht, k), NULL, k))
    /\ UNCHANGED ht

\* and the new one written where it was.
UpdateData ==
    /\ Top.op = "update"
    /\ ht' = [ht EXCEPT !.nNextFreeElement = NextFree(@, Top.k)]
    /\ stack' = Return

zend_hash_del_key_or_index(k) ==
    /\ Scripting /\ Find(ht, k) # NULL
    /\ LET p == Find(ht, k)
       IN  ht' = [Unlink(ht, p) EXCEPT !.pListNext[p] = NULL]
           /\ Enter(Frame("del", NULL, p, NULL))

Deleted ==
    /\ Top.op = "del"
    /\ ht' = Count(pefree(ht, Top.dead), -1)
    /\ stack' = Return

\* A fault: the internal pointer stays on an element that goes.
CleanKeepsPointer ==
    /\ Scripting
    /\ ht' = Forget([ht EXCEPT
                 !.arBuckets = [s \in DOMAIN @ |-> NULL],
                 !.pListHead = NULL, !.pListTail = NULL,
                 !.nNumOfElements = 0, !.nNextFreeElement = 0], ToSet(List(ht)))
    /\ Enter(Frame("clean", ht.pListHead, NULL, NULL))
    /\ owed' = Cardinality(Deleting)

\* The table is emptied first, then the elements it had are destroyed.  A call of
\* zend_hash_del that waits for its destructor has yet to count its element off.
zend_hash_clean ==
    /\ Scripting
    /\ ht' = Forget([ht EXCEPT
                 !.arBuckets = [s \in DOMAIN @ |-> NULL],
                 !.pListHead = NULL, !.pListTail = NULL, !.pInternalPointer = NULL,
                 !.nNumOfElements = 0, !.nNextFreeElement = 0], ToSet(List(ht)))
    /\ Enter(Frame("clean", ht.pListHead, NULL, NULL))
    /\ owed' = Cardinality(Deleting)

Clean ==
    /\ Top.op = "clean" /\ Top.p # NULL /\ Top.dead = NULL
    /\ stack' = <<[Top EXCEPT !.p = ht.pListNext[Top.p], !.dead = Top.p]>> \o Return
    /\ UNCHANGED ht

Cleaned ==
    /\ Top.op = "clean" /\ Top.dead # NULL
    /\ ht' = pefree(ht, Top.dead)
    /\ stack' = <<[Top EXCEPT !.dead = NULL]>> \o Return

CleanDone ==
    /\ Top.op = "clean" /\ Top.p = NULL /\ Top.dead = NULL
    /\ stack' = Return
    /\ UNCHANGED ht

\* zend_hash_apply, _with_argument, _with_arguments, and zend_hash_reverse_apply.
\* The function that is applied says what becomes of the element.
zend_hash_apply ==
    /\ Scripting /\ ht.pListHead # NULL
    /\ Enter(Frame("apply", ht.pListHead, NULL, NULL))
    /\ UNCHANGED ht

zend_hash_reverse_apply ==
    /\ Scripting /\ ht.pListTail # NULL
    /\ Enter(Frame("reverse_apply", ht.pListTail, NULL, NULL))
    /\ UNCHANGED ht

Applying == Top.op \in {"apply", "reverse_apply"}

ApplyKeep ==
    /\ Applying /\ Top.p # NULL /\ Top.dead = NULL
    /\ LET next == (IF Top.op = "apply" THEN ht.pListNext ELSE ht.pListLast)[Top.p]
       IN  stack' = <<[Top EXCEPT !.p = next]>> \o Return
    /\ UNCHANGED ht

\* A fault: the element is not counted off.
DeleteUncounted(p) == ht' = Forget(Unlist(Unchain(ht, p, ht.pLast[p] = NULL), p), {p})

\* zend_hash_apply_deleter, up to the destructor.
Delete(p) == ht' = Forget(Count(Unlist(Unchain(ht, p, ht.pLast[p] = NULL), p), -1), {p})

\* On the way back the next bucket is remembered before the destructor runs.
ApplyRemove ==
    /\ Applying /\ Top.p # NULL /\ Top.dead = NULL
    /\ Delete(Top.p)
    /\ LET next == IF Top.op = "apply" THEN NULL ELSE ht.pListLast[Top.p]
       IN  stack' = <<[Top EXCEPT !.p = next, !.dead = Top.p]>> \o Return

\* zend_hash_apply_deleter returns the successor that the dead bucket has now.
Removed ==
    /\ Applying /\ Top.dead # NULL
    /\ LET next == IF Top.op = "apply" THEN ht.pListNext[Top.dead] ELSE Top.p
       IN  stack' = <<[Top EXCEPT !.p = next, !.dead = NULL]>> \o Return
    /\ ht' = pefree(ht, Top.dead)

\* The end of the list, or ZEND_HASH_APPLY_STOP.
ApplyDone ==
    /\ Applying /\ Top.dead = NULL
    /\ stack' = Return
    /\ UNCHANGED ht

\* Elements are deleted from the tail until there is none, new ones included;
\* then the table is gone, and a new one made in its place.
zend_hash_graceful_reverse_destroy ==
    /\ stack = <<>>
    /\ Enter(Frame("destroy", NULL, NULL, NULL))
    /\ UNCHANGED ht

DestroyTail ==
    /\ Top.op = "destroy" /\ Top.dead = NULL /\ ht.pListTail # NULL
    /\ Delete(ht.pListTail)
    /\ stack' = <<[Top EXCEPT !.dead = ht.pListTail]>> \o Return

TailDestroyed ==
    /\ Top.op = "destroy" /\ Top.dead # NULL
    /\ ht' = pefree(ht, Top.dead)
    /\ stack' = <<[Top EXCEPT !.dead = NULL]>> \o Return

Destroyed ==
    /\ Top.op = "destroy" /\ Top.dead = NULL /\ ht.pListTail = NULL
    /\ ht' = _zend_hash_init
    /\ stack' = Return
    /\ owed' = 0

-----------------------------------------------------------------------------
(***************************************************************************)
(* zend_hash_update_current_key_ex: the element at the internal pointer    *)
(* gets the key k, and its place in the list stays.                        *)
(***************************************************************************)

\* Bucket b takes the place of p in the list.
Replace(t, p, b) ==
    pefree([t EXCEPT !.live = @ \cup {b},
                     !.pListNext = Set([@ EXCEPT ![b] = t.pListNext[p]], t.pListLast[p], b),
                     !.pListLast = Set([@ EXCEPT ![b] = t.pListLast[p]], t.pListNext[p], b),
                     !.pListTail = IF t.pListNext[p] = NULL THEN b ELSE @,
                     !.pListHead = IF t.pListLast[p] = NULL THEN b ELSE @,
                     !.pInternalPointer = IF @ = p THEN b ELSE @], p)

\* Keys of another length need another bucket; here all strings are equally long.
Rekey(t, p, k) ==
    LET u == Unchain(t, p, t.pLast[p] = NULL)
        v(b) == IF b = p THEN u ELSE Replace(u, p, b)
    IN  {CONNECT_TO_BUCKET_DLLIST([v(b) EXCEPT !.key[b] = k], b) :
            b \in IF (k \in StrKey) <=> (t.key[p] \in StrKey) THEN {p}
                  ELSE Bucket \ t.live}

Before(t, q, p) ==
    \E i, j \in DOMAIN List(t) : i < j /\ List(t)[i] = q /\ List(t)[j] = p

\* Another element may have the key k: mode says which of the two is deleted.
Mode == {"IF_NONE", "IF_BEFORE", "IF_AFTER", "ANYWAY"}

KeepsOther(mode, p, q) ==
    \/ mode = "IF_AFTER" /\ Before(ht, q, p)
    \/ mode = "IF_BEFORE" /\ ~Before(ht, q, p)

\* The tables it is used for (array constants and phar manifests) hold elements
\* whose destructor runs no script.
zend_hash_update_current_key_ex(k, mode) ==
    LET p == ht.pInternalPointer
        q == Find(ht, k)
        Without(b) == Count(pefree(Unlink(ht, b), b), -1)
    IN  /\ stack = <<>> /\ p # NULL /\ ht.key[p] # k
        /\ \/ q = NULL /\ ht' \in Rekey(ht, p, k)
           \/ q # NULL /\ KeepsOther(mode, p, q) /\ ht' = Without(p)
           \/ q # NULL /\ ~KeepsOther(mode, p, q) /\ ht' \in Rekey(Without(q), p, k)
        /\ UNCHANGED stack

-----------------------------------------------------------------------------
(***************************************************************************)
(* zend_hash_sort and the internal pointer.                                *)
(***************************************************************************)
Relink(t, s) ==
    LET n == Len(s)
        at(p) == CHOOSE i \in 1 .. n : s[i] = p
    IN  [t EXCEPT !.pListHead = s[1], !.pListTail = s[n],
                  !.pListNext = [p \in Bucket |-> IF p \notin ToSet(s) THEN @[p]
                                     ELSE IF at(p) = n THEN NULL ELSE s[at(p) + 1]],
                  !.pListLast = [p \in Bucket |-> IF p \notin ToSet(s) THEN @[p]
                                     ELSE IF at(p) = 1 THEN NULL ELSE s[at(p) - 1]]]

\* A fault: sorting leaves the internal pointer where it was.
SortedKeepsPointer(t, s) == Relink(t, s)

Sorted(t, s) == [Relink(t, s) EXCEPT !.pInternalPointer = s[1]]

Renumber(t, s) ==
    zend_hash_rehash([t EXCEPT !.nNextFreeElement = Len(s),
        !.key = [p \in Bucket |-> IF p \in ToSet(s)
                                  THEN (CHOOSE i \in DOMAIN s : s[i] = p) - 1 ELSE @[p]]])

\* arTmp has room for nNumOfElements buckets.  With more in the list, or with none,
\* memory is used that is not there, or was never written.
zend_hash_sort(renumber) ==
    /\ Scripting
    /\ ht.nNumOfElements > 1 \/ (renumber /\ ht.nNumOfElements > 0)
    /\ LET call == Frame(IF renumber THEN "sort" ELSE "asort", NULL, NULL, NULL)
       IN  Enter(IF Len(List(ht)) \in 1 .. ht.nNumOfElements
                 THEN [call EXCEPT !.arTmp = List(ht)]
                 ELSE Frame("overrun", NULL, NULL, NULL))
    /\ UNCHANGED ht

\* sort_func is done: the buckets that were in the list before it are linked.
SortDone ==
    /\ Top.op \in {"sort", "asort"}
    /\ \E s \in SetToSeqs(ToSet(Top.arTmp)) :
          ht' = IF Top.op = "sort" THEN Renumber(Sorted(ht, s), s) ELSE Sorted(ht, s)
    /\ stack' = Return
    /\ torn' = (ToSet(List(ht)) # ToSet(Top.arTmp))

Move(p) ==
    /\ Scripting /\ ht' = [ht EXCEPT !.pInternalPointer = p]
    /\ UNCHANGED stack

zend_hash_internal_pointer_reset == Move(ht.pListHead)
zend_hash_internal_pointer_end == Move(ht.pListTail)

zend_hash_move_forward ==
    ht.pInternalPointer # NULL /\ Move(ht.pListNext[ht.pInternalPointer])

zend_hash_move_backwards ==
    ht.pInternalPointer # NULL /\ Move(ht.pListLast[ht.pInternalPointer])

\* A loop saves the pointer, runs its body, and goes back to what it saved if the
\* bucket is still in its chain.
zend_hash_get_pointer ==
    LET p == ht.pInternalPointer
    IN  /\ Scripting
        /\ fe' = [pos |-> p, h |-> IF p = NULL THEN 0 ELSE Ulong(ht.key[p])]
        /\ UNCHANGED <<ht, stack, owed, torn>>

\* A fault: the chain is not searched for the saved bucket.
SetPointerUnchecked == Move(fe.pos)

zend_hash_set_pointer ==
    /\ fe.pos = NULL \/ fe.pos \in ToSet(Chain(ht, fe.h % ht.nTableSize))
    /\ Move(fe.pos)

-----------------------------------------------------------------------------
Script ==
    \/ \E k \in ScriptKey : zend_hash_add(k)
    \/ zend_hash_next_index_insert
    \/ \E k \in Key : zend_hash_update(k) \/ zend_hash_del_key_or_index(k)
    \/ \E k \in ScriptKey, mode \in Mode : zend_hash_update_current_key_ex(k, mode)
    \/ \E renumber \in BOOLEAN : zend_hash_sort(renumber)
    \/ zend_hash_apply \/ zend_hash_reverse_apply
    \/ zend_hash_graceful_reverse_destroy
    \/ zend_hash_internal_pointer_reset \/ zend_hash_internal_pointer_end
    \/ zend_hash_move_forward \/ zend_hash_move_backwards \/ zend_hash_set_pointer

Resume ==
    /\ stack # <<>>
    /\ \/ UpdateData \/ Deleted \/ Clean \/ Cleaned \/ CleanDone
       \/ ApplyKeep \/ ApplyRemove \/ Removed \/ ApplyDone
       \/ DestroyTail \/ TailDestroyed

\* The buckets that a call goes on with are still there.  What the call does if
\* they are not is undefined: no execution is followed further.
BucketsLive ==
    \A f \in Frames :
        f.op # "overrun" /\ f.p \in ht.live \cup {NULL} /\ ToSet(f.arTmp) \subseteq ht.live

\* Nor is one in which the list has been torn: the elements that are no longer in it
\* still point into it.
Next ==
    /\ BucketsLive /\ ~torn
    /\ \/ (Script \/ Resume) /\ UNCHANGED <<fe, owed, torn>>
       \/ zend_hash_clean /\ UNCHANGED <<fe, torn>>
       \/ stack # <<>> /\ Destroyed /\ UNCHANGED <<fe, torn>>
       \/ stack # <<>> /\ SortDone /\ UNCHANGED <<fe, owed>>
       \/ zend_hash_get_pointer

Spec == Init /\ [][Next]_vars

-----------------------------------------------------------------------------
\* Every variable keeps its type: no pointer of the table leads to freed memory,
\* and a bucket that a call has taken out of the table is not freed before its
\* destructor has returned.  (The bucket of an update stays in the table while its
\* element is destroyed, and may be freed by then: BucketsLive.)
TypeOK ==
    /\ ht.live \subseteq Bucket /\ ht.nNextFreeElement \in Index
    /\ ht.nNumOfElements \in 0 .. SizeLimit - 1
    /\ {ht.pListHead, ht.pListTail, ht.pInternalPointer} \subseteq ht.live \cup {NULL}
    /\ ht.arBuckets \in [0 .. ht.nTableSize - 1 -> ht.live \cup {NULL}]
    /\ ht.key \in [Bucket -> Key \cup {NULL}]
    /\ fe \in [pos : Bucket \cup {NULL}, h : 0 .. 2 * LongMax + 1]
    /\ \A f \in Frames : f.dead \in ht.live \cup {NULL}
    /\ owed \in 0 .. Cardinality(Bucket) /\ torn \in BOOLEAN

\* Buckets whose element is in the table.
Elements == ht.live \ ({f.dead : f \in Frames}
    \cup UNION {ToSet(Path(ht.pListNext, f.p)) : f \in {g \in Frames : g.op = "clean"}})

\* Until a comparison tears it, the list holds every element once and is the same in
\* both directions.
ListSound ==
    LET l == List(ht)
        e == Elements
    IN  torn \/ /\ Len(l) = Cardinality(e) /\ ToSet(l) = e
                /\ Path(ht.pListLast, ht.pListTail) = Reverse(l)
                /\ ht.pInternalPointer \in e \cup {NULL}

\* Until then, looking a key up finds the one element that has it, whatever the order
\* of insertions, deletions, resizes and renumberings was.
LookupExact ==
    LET e == Elements
    IN  torn \/ \A k \in Key : {p \in e : ht.key[p] = k} = {Find(ht, k)} \ {NULL}

\* The table as OrderedMap sees it: the keys in the order of the list.
FirstIndex(l, p) ==
    IF p \in ToSet(l) THEN CHOOSE i \in DOMAIN l : l[i] = p ELSE 0

AsMap(t, l) ==
    [keys |-> [i \in DOMAIN l |-> t.key[l[i]]],
     cur |-> FirstIndex(l, t.pInternalPointer)]

Map == INSTANCE OrderedMap WITH map <- AsMap(ht, List(ht))

\* Through all this the table is an ordered map, but for the sort that tears the list:
\* a call changes it once, and what it does after a destructor or a comparison has run
\* disturbs nothing that this did.
ImplementsMap ==
    Map!MapInit /\ [][torn' \/ Map!MapNext]_(AsMap(ht, List(ht)))

\* nNumOfElements counts the list and the elements that zend_hash_del has taken out and
\* not yet counted off; those that were waiting when the table was last emptied are
\* counted off all the same, and make it fall short, or wrap.
CountExact ==
    torn \/ ht.nNumOfElements =
                (Len(List(ht)) + Cardinality(Deleting) - owed) % SizeLimit

\* "Count the number of elements in a variable (usually an array)": when no call is
\* under way, nNumOfElements, which count() returns, is the length of the list.
CountAtRest == stack = <<>> /\ ~torn => ht.nNumOfElements = Len(List(ht))

\* asort: "Sort an array and maintain index association": the keys that the list has
\* when the comparisons are done are those that it has when it is sorted.
Listed == {ht.key[p] : p \in ToSet(List(ht))}
AssociationKept ==
    [][stack # <<>> /\ Top.op = "asort" /\ stack' = Return => Listed' = Listed]_vars

\* zend_hash_apply_deleter: "The hash *may* be altered during that time, the
\* returned value will still be valid."
ReturnedValid ==
    \A f \in Frames : f.op = "apply" /\ f.dead = NULL => f.p = NULL \/ f.p \in ht.live
=============================================================================
