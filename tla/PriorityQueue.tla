---------------------------- MODULE PriorityQueue ----------------------------
(***************************************************************************)
(* The two-ended priority queue that the concurrency schedulers keep their *)
(* instances in: src/go/pkg/common/faas_common/queue/priorityqueue.go.     *)
(* DeHeap is a max-min heap: even levels hold maxima, odd levels minima of *)
(* their subtrees.  An item is its priority; the position stands for the   *)
(* identity that getIndexAndItemByObjID looks up.  Indices count from 0,   *)
(* as in the code.                                                         *)
(***************************************************************************)
EXTENDS Integers, Sequences, SequencesExt, FiniteSetsExt

CONSTANTS MaxLen, MaxPriority       \* bounds: items in the queue, priorities

VARIABLE items

Priorities == 0..MaxPriority

-----------------------------------------------------------------------------
(* Indices and the heap h.                                                 *)

leftChild(i)   == 2 * i + 1
rightChild(i)  == 2 * i + 2
parent(i)      == IF i = 0 THEN 0 ELSE (i - 1) \div 2     \* Go rounds towards 0
grandparent(i) == ((i + 1) \div 4) - 1

\* the level of i is the bit length of i + 1, less one
isMaxLevel(i)  == \E k \in 0..MaxLen : i + 1 \in (4 ^ k)..(2 * 4 ^ k - 1)

At(h, i) == h[i + 1]
Compare(h, i, j) == i < Len(h) /\ j < Len(h) /\ At(h, i) > At(h, j)

Swap(h, i, j) == [h EXCEPT ![i + 1] = At(h, j), ![j + 1] = At(h, i)]

-----------------------------------------------------------------------------
(* shiftUp and shiftDown return the heap and where the item ended.         *)

RECURSIVE Climb(_, _, _)
Climb(h, i, isMax) ==
    LET g == grandparent(i) IN
    IF g < 0 \/ Compare(h, g, i) = isMax THEN [heap |-> h, at |-> i]
    ELSE Climb(Swap(h, g, i), g, isMax)

shiftUp(h, i) ==
    LET p == parent(i) IN
    IF Compare(h, p, i) = isMaxLevel(i) THEN Climb(Swap(h, p, i), p, ~isMaxLevel(i))
    ELSE Climb(h, i, isMaxLevel(i))

\* children, then grandchildren, in the order the code looks at them
Below(h, i) ==
    LET n == Len(h) IN
    SelectSeq(<<leftChild(i), rightChild(i)>> \o
              [k \in 1..4 |-> leftChild(leftChild(i)) + k - 1], LAMBDA c : c < n)

\* the descendant that should be where i is: the last of equal ones on a level
\* of minima, the first on a level of maxima, where i itself wins a tie
Best(h, i) ==
    FoldLeft(LAMBDA t, c : IF Compare(h, c, t) = isMaxLevel(i) THEN c ELSE t, i, Below(h, i))

RECURSIVE shiftDown(_, _)
shiftDown(h, i) ==
    LET t  == Best(h, i)
        p  == parent(t)
        h1 == Swap(h, i, t) IN
    IF i >= Len(h) \/ t = i THEN [heap |-> h, at |-> i]
    ELSE IF t \in {leftChild(i), rightChild(i)} THEN [heap |-> h1, at |-> t]
    ELSE IF Compare(h1, p, t) = isMaxLevel(i) THEN shiftDown(Swap(h1, p, t), p)
    ELSE shiftDown(h1, t)

-----------------------------------------------------------------------------
(* DeHeap's operations.                                                    *)

Push(h, x) == shiftUp(Append(h, x), Len(h)).heap

Fix(h, i) ==
    LET d == shiftDown(h, i) IN
    IF d.at > 0 THEN shiftUp(d.heap, d.at).heap ELSE d.heap

\* Remove, and the tail of PopMax and PopMin: the last item takes the place
DeHeapRemove(h, i) == shiftDown(Front(Swap(h, i, Len(h) - 1)), i).heap

minIndex(h) ==
    IF Len(h) = 1 THEN 0 ELSE IF Compare(h, 1, 2) THEN 2 ELSE 1

-----------------------------------------------------------------------------
(* PriorityQueue's operations.                                             *)

Init == items = <<>>

PushBack(x) ==
    /\ Len(items) < MaxLen
    /\ items' = Push(items, x)

PopFront == items # <<>> /\ items' = DeHeapRemove(items, 0)

PopBack == items # <<>> /\ items' = DeHeapRemove(items, minIndex(items))

DelByID(i) == items' = DeHeapRemove(items, i)

UpdateObjByID(i, x) == items' = Fix([items EXCEPT ![i + 1] = x], i)

Indices == 0..(Len(items) - 1)

Next ==
    \/ \E x \in Priorities : PushBack(x)
    \/ PopFront \/ PopBack
    \/ \E i \in Indices : DelByID(i) \/ \E x \in Priorities : UpdateObjByID(i, x)

Spec == Init /\ [][Next]_items

-----------------------------------------------------------------------------
(* Property.                                                               *)

\* "Front returns the item with max priority": after any sequence of pushes,
\* pops, updates and deletions by ID.  The schedulers take the front for an
\* acquire.
FrontIsMax == items # <<>> => At(items, 0) = Max(ToSet(items))
=============================================================================
