------------------------------ MODULE HeapList ------------------------------
(***************************************************************************)
(* The binary heap of heap.h that keeps the sleeping micro threads and the *)
(* timers in the order of their HeapValue.  A heap is a record of the      *)
(* array _list (its length is _count) and of the _index every entry keeps  *)
(* of its own place, 0 outside the heap.  HeapValue is passed as a         *)
(* function, because it is the entries that hold it.                       *)
(***************************************************************************)
EXTENDS Integers, Sequences

CONSTANTS
    Entries,    \* the objects that can be HeapEntry
    HeapMax     \* _max

Heaps == [list: Seq(Entries), index: [Entries -> Nat]]
EmptyHeap == [list |-> <<>>, index |-> [e \in Entries |-> 0]]

HeapFull(h) == Len(h.list) >= HeapMax
HeapTop(h) == h.list[1]      \* of a heap that is not empty

\* exchange the entries at i and j, which keep track of it
Swap(h, i, j) ==
    LET x == h.list[i]
        y == h.list[j]
    IN  [list  |-> [h.list EXCEPT ![i] = y, ![j] = x],
         index |-> [h.index EXCEPT ![x] = j, ![y] = i]]

\* n rounds of a loop, from s on
Iterate(round, s, n) ==
    LET after[k \in Nat] == IF k = 0 THEN s ELSE round[after[k - 1]]
    IN  after[n]

\* where a loop is in the heap; it has stopped when a round changes nothing,
\* which is so after fewer rounds than the heap has entries
Positions == [pos: Nat, heap: Heaps]

\* the last entry rises while it is smaller than its parent
UpRound(HeapValue) ==
    [s \in Positions |->
        LET list == s.heap.list
            up == s.pos \div 2
        IN  IF up < 1 \/ HeapValue[list[s.pos]] >= HeapValue[list[up]] THEN s
            ELSE [pos |-> up, heap |-> Swap(s.heap, s.pos, up)]]

HeapUp(h, HeapValue) ==
    LET n == Len(h.list)
    IN  Iterate(UpRound(HeapValue), [pos |-> n, heap |-> h], n).heap

\* the entry at index sinks while the smaller of its sons is smaller
MinSon(list, pos, HeapValue) ==
    IF 2 * pos < Len(list) /\ HeapValue[list[2 * pos + 1]] < HeapValue[list[2 * pos]]
    THEN 2 * pos + 1 ELSE 2 * pos

DownRound(HeapValue) ==
    [s \in Positions |->
        LET list == s.heap.list
            son == MinSon(list, s.pos, HeapValue)
        IN  IF 2 * s.pos > Len(list) \/ HeapValue[list[s.pos]] <= HeapValue[list[son]] THEN s
            ELSE [pos |-> son, heap |-> Swap(s.heap, s.pos, son)]]

HeapDown(h, index, HeapValue) ==
    Iterate(DownRound(HeapValue), [pos |-> index, heap |-> h], Len(h.list)).heap

\* a full heap, or an entry that is in it already, is left as it is
HeapPush(h, e, HeapValue) ==
    IF HeapFull(h) \/ h.index[e] # 0 THEN h
    ELSE HeapUp([list  |-> Append(h.list, e),
                 index |-> [h.index EXCEPT ![e] = Len(h.list) + 1]], HeapValue)

\* the last entry takes the place of the deleted one and sinks
HeapDelete(h, e, HeapValue) ==
    LET p == h.index[e]
        n == Len(h.list)
        last == h.list[n]
    IN  IF p \notin 1 .. n THEN h
        ELSE LET g == HeapDown([list  |-> SubSeq([h.list EXCEPT ![p] = last], 1, n - 1),
                                index |-> [h.index EXCEPT ![last] = p]], p, HeapValue)
             IN  [g EXCEPT !.index[e] = 0]
=============================================================================
