----------------------------- MODULE OrderedMap -----------------------------
(***************************************************************************)
(* What a hash table promises to a PHP array: keys in the order in which   *)
(* they were inserted, no key twice, and one position among them.          *)
(***************************************************************************)
EXTENDS Integers, Sequences, SequencesExt

CONSTANT Key

\* keys, in order, and cur, the current position, 0 when there is none.
VARIABLE map

\* A current element that goes leaves the position to its successor.
Without(m, i) ==
    [keys |-> RemoveAt(m.keys, i),
     cur |-> IF m.cur > i THEN m.cur - 1
             ELSE IF m.cur = i /\ i = Len(m.keys) THEN 0 ELSE m.cur]

Added(m) ==
    {[keys |-> Append(m.keys, k),
      cur |-> IF m.cur = 0 THEN Len(m.keys) + 1 ELSE m.cur] : k \in Key \ ToSet(m.keys)}

Dropped(m) == {Without(m, i) : i \in DOMAIN m.keys}

\* The current element gets another key, and an element that has it goes.
Renamed(m) ==
    IF m.cur = 0 THEN {}
    ELSE LET to(k) == [m EXCEPT !.keys[m.cur] = k]
         IN  {to(k) : k \in Key \ ToSet(m.keys)}
             \cup {Without(to(m.keys[i]), i) : i \in DOMAIN m.keys \ {m.cur}}

\* Any order of the same keys, or as many indices counted from 0.
Reordered(m, n) ==
    /\ n.cur = 1 /\ Len(n.keys) = Len(m.keys) /\ m.keys # <<>>
    /\ \/ ToSet(n.keys) = ToSet(m.keys)
       \/ \A i \in DOMAIN n.keys : n.keys[i] = i - 1

Moved(m, n) == n.keys = m.keys /\ n.cur \in 0 .. Len(m.keys)

Cleared == [keys |-> <<>>, cur |-> 0]

Step(m, n) ==
    \/ n = Cleared
    \/ Moved(m, n) \/ Reordered(m, n)
    \/ n \in Added(m) \/ n \in Dropped(m) \/ n \in Renamed(m)

MapNext == \E m \in {map}, n \in {map'} : Step(m, n)

MapInit == map = Cleared

MapSpec == MapInit /\ [][MapNext]_map
=============================================================================
