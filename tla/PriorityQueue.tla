--------------------------- MODULE PriorityQueue ---------------------------
(***************************************************************************)
(* containers::PriorityQueue (include/containers/PriorityQueue.hpp), a     *)
(* binary heap in a vector, as the scheduler uses it: elements that carry  *)
(* the time `when', the least of them in front.  A heap is a sequence; the *)
(* vector's index i is position i + 1.                                     *)
(*                                                                         *)
(* pop() shortens the vector first and then sifts down, and nil() lets one *)
(* index too many through: sifting reads the slot behind the last element, *)
(* which still holds what pop_back() left there.  SiftDown is therefore    *)
(* given the cells, that slot included.                                    *)
(***************************************************************************)
EXTENDS Integers, Sequences

Less(x, y) == x.when < y.when
Swap(cells, i, j) == [cells EXCEPT ![i] = cells[j], ![j] = cells[i]]

\* The arrangements of the elements of `heap', which sifting passes through.
Cells(heap) == [DOMAIN heap -> {heap[j] : j \in DOMAIN heap}]

\* What becomes of the cells when the element at k is to go up from there ...
SiftUp(heap, i) ==
    LET up[k \in DOMAIN heap] == [cells \in Cells(heap) |->
            IF k > 1 /\ Less(cells[k], cells[k \div 2])
            THEN up[k \div 2][Swap(cells, k, k \div 2)]
            ELSE cells]
    IN  up[i][heap]

Push(heap, x) == SiftUp(Append(heap, x), Len(heap) + 1)

\* A mistaken variant (see module BlockingQueue): the first child is taken,
\* whatever the second one weighs.
LighterChild_First(cells, i) == 2 * i

\* The lighter child of i, the second one if they are equal.
LighterChild(cells, i) ==
    IF 2 * i + 1 > Len(cells) \/ Less(cells[2 * i], cells[2 * i + 1]) THEN 2 * i ELSE 2 * i + 1

\* ... and when it is to go down.
SiftDown(heap, i) ==
    LET down[k \in DOMAIN heap] == [cells \in Cells(heap) |->
            IF 2 * k <= Len(heap) /\ Less(cells[LighterChild(cells, k)], cells[k])
            THEN down[LighterChild(cells, k)][Swap(cells, LighterChild(cells, k), k)]
            ELSE cells]
    IN  down[i][heap]

\* heap[0] = heap.back(), the stale slot at the end, and off with it.
Pop(heap) ==
    LET size == Len(heap)
    IN  SubSeq(SiftDown([heap EXCEPT ![1] = heap[size]], 1), 1, size - 1)
=============================================================================
