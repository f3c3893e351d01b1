----------------------------- MODULE Containers -----------------------------
(***************************************************************************)
(* The containers of utils/: RingBuffer, SmallVector, ReuseMap (and        *)
(* ReuseSet, a map without values) and ObjectPool.  Each is run beside the *)
(* sequence, function or set it stands for.  A behaviour exercises one.    *)
(***************************************************************************)
EXTENDS Integers, Sequences, FiniteSets, SequencesExt

CONSTANTS
    RingSizes,       \* capacities a RingBuffer is resized to
    InlineSize,      \* N of SmallVector<T, N>
    PoolSize,        \* PoolSize of ObjectPool
    MaxContainerOps  \* bound: operations

ASSUME ContainersAssumption ==
    /\ RingSizes \subseteq Nat /\ {InlineSize, PoolSize} \subseteq Nat \ {0}
    /\ MaxContainerOps \in Nat

Elements == {1, 2}
AnyElement == 9      \* an element resize() exposes without writing it

VARIABLES
    container,                             \* "ring", "vector", "map" or "pool"
    ring,                                  \* [buffer, capacity, head, tail, count]
    vector,                                \* [stack, heap, size, on_heap]
    slots,                                 \* of ReuseMap: [key, value, occupied]
    pool, free_stack, free_top,            \* of ObjectPool: object -> lent out
    lent,                                  \* how many users of the pool hold an object
    seq_ref, map_ref,                      \* what the others stand for
    nops

containerVars == <<container, ring, vector, slots, pool, free_stack, free_top, lent,
                   seq_ref, map_ref, nops>>
poolVars == <<pool, free_stack, free_top, lent>>

EmptyRing(n) == [buffer |-> [i \in 0..n - 1 |-> 0], capacity |-> n, head |-> 0, tail |-> 0, count |-> 0]
FullStack == [i \in 0..PoolSize - 1 |-> i]
Created == {PoolSize, PoolSize + 1}  \* objects created when the pool is empty
Objects == Created \cup 0..PoolSize - 1

ContainerInit ==
    /\ container \in {"ring", "vector", "map", "pool"}
    /\ ring = EmptyRing(2)
    /\ vector = [stack |-> [i \in 0..InlineSize - 1 |-> 0], heap |-> <<>>, size |-> 0, on_heap |-> FALSE]
    /\ slots = <<>>
    /\ pool = [i \in 0..PoolSize - 1 |-> FALSE]
    /\ free_stack = FullStack /\ free_top = PoolSize /\ lent = [o \in Objects |-> 0]
    /\ seq_ref = <<>> /\ map_ref = <<>> /\ nops = 0

ContainerOp(c) == container = c /\ nops < MaxContainerOps /\ nops' = nops + 1 /\ UNCHANGED container

------------------------------------------------------------------------------
(* RingBuffer.                                                               *)

Room(r) == r.capacity - r.count
WriteByte(r, x) == [r EXCEPT !.buffer[r.tail] = x, !.tail = (@ + 1) % r.capacity, !.count = @ + 1]

\* The loop of write: the first n bytes of data
WriteBytes(r, data, n) ==
    LET after[i \in 0..n] == IF i = 0 THEN r ELSE WriteByte(after[i - 1], data[i])
    IN  after[n]

\* peek: the contents from head on, around the end of the buffer.
Peek(r) == [i \in 1..r.count |-> r.buffer[(r.head + i - 1) % r.capacity]]

\* Mutant: the copy starts again at the old head, not at 0.
RingResizeKeepsHead(r, n) ==
    IF n = 0 THEN EmptyRing(0)
    ELSE LET kept == IF r.count < n THEN r.count ELSE n
         IN  WriteBytes([EmptyRing(n) EXCEPT !.head = r.head % n],
                        Peek(r), kept)

\* RingBuffer::resize: the contents are read out and the oldest of them,
\* as far as they fit, written to the new buffer.
RingResize(r, n) ==
    IF n = 0 THEN EmptyRing(0)
    ELSE LET kept == IF r.count < n THEN r.count ELSE n
         IN  WriteBytes(EmptyRing(n), Peek(r), kept)

\* write: as much as there is room for.
RingWrite(data) ==
    LET n == IF Len(data) < Room(ring) THEN Len(data) ELSE Room(ring)
    IN  /\ ContainerOp("ring")
        /\ ring' = WriteBytes(ring, data, n)
        /\ seq_ref' = seq_ref \o SubSeq(data, 1, n)
        /\ UNCHANGED <<vector, slots, poolVars, map_ref>>

RingRead(k) ==
    LET n == IF k < ring.count THEN k ELSE ring.count
    IN  /\ ContainerOp("ring") /\ n > 0
        /\ ring' = [ring EXCEPT !.head = (@ + n) % ring.capacity, !.count = @ - n]
        /\ seq_ref' = SubSeq(seq_ref, n + 1, Len(seq_ref))
        /\ UNCHANGED <<vector, slots, poolVars, map_ref>>

RingResizes(n) ==
    /\ ContainerOp("ring") /\ ring' = RingResize(ring, n)
    /\ seq_ref' = SubSeq(seq_ref, 1, IF Len(seq_ref) < n THEN Len(seq_ref) ELSE n)
    /\ UNCHANGED <<vector, slots, poolVars, map_ref>>

RingClear ==
    /\ ContainerOp("ring") /\ ring' = [ring EXCEPT !.head = 0, !.tail = 0, !.count = 0]
    /\ seq_ref' = <<>> /\ UNCHANGED <<vector, slots, poolVars, map_ref>>

------------------------------------------------------------------------------
(* SmallVector.                                                              *)

At(v, i) == IF v.on_heap THEN v.heap[i + 1] ELSE v.stack[i]
MigrateToHeap(v) == [v EXCEPT !.heap = @ \o [i \in 1..v.size |-> v.stack[i - 1]], !.on_heap = TRUE]

PushBack(x) ==
    /\ ContainerOp("vector")
    /\ LET v == IF ~vector.on_heap /\ vector.size = InlineSize THEN MigrateToHeap(vector) ELSE vector
       IN  vector' = IF v.on_heap THEN [v EXCEPT !.heap = Append(@, x), !.size = @ + 1]
                     ELSE [v EXCEPT !.stack[v.size] = x, !.size = @ + 1]
    /\ seq_ref' = Append(seq_ref, x) /\ UNCHANGED <<ring, slots, poolVars, map_ref>>

PopBack ==
    /\ ContainerOp("vector") /\ vector.size > 0
    /\ vector' = [vector EXCEPT !.heap = IF vector.on_heap THEN Front(@) ELSE @, !.size = @ - 1]
    /\ seq_ref' = Front(seq_ref) /\ UNCHANGED <<ring, slots, poolVars, map_ref>>

VectorClear ==
    /\ ContainerOp("vector")
    /\ vector' = [vector EXCEPT !.heap = IF vector.on_heap THEN <<>> ELSE @,
                                !.size = 0, !.on_heap = FALSE]
    /\ seq_ref' = <<>> /\ UNCHANGED <<ring, slots, poolVars, map_ref>>

\* resize: back to the stack when it fits there, moving what exists; elements
\* that are new keep whatever the stack holds, on the heap they are zero.
VectorResize(n) ==
    LET old == vector.size
        v == vector
        kept == IF old < n THEN old ELSE n
    IN  /\ ContainerOp("vector")
        /\ vector' =
             IF n <= InlineSize
             THEN [v EXCEPT !.stack = IF v.on_heap
                                      THEN [i \in DOMAIN @ |-> IF i < kept THEN v.heap[i + 1] ELSE @[i]]
                                      ELSE @,
                            !.heap = IF v.on_heap THEN <<>> ELSE @, !.on_heap = FALSE, !.size = n]
             ELSE LET h == IF v.on_heap THEN v ELSE MigrateToHeap(v)
                  IN  [h EXCEPT !.heap = [i \in 1..n |-> IF i <= old THEN @[i] ELSE 0], !.size = n]
        /\ seq_ref' = [i \in 1..n |-> IF i <= old THEN seq_ref[i]
                                      ELSE IF n <= InlineSize THEN AnyElement ELSE 0]
        /\ UNCHANGED <<ring, slots, poolVars, map_ref>>

------------------------------------------------------------------------------
(* ReuseMap and ReuseSet.                                                    *)

SlotOf(k) == {i \in DOMAIN slots : slots[i].occupied /\ slots[i].key = k}
FreeSlots == {i \in DOMAIN slots : ~slots[i].occupied}
FirstOf(S) == CHOOSE i \in S : \A j \in S : i <= j

\* insert: a key that is there keeps its value; else the first free slot.
MapInsert(k, x) ==
    LET slot == [key |-> k, value |-> x, occupied |-> TRUE]
    IN  /\ ContainerOp("map")
        /\ slots' = IF SlotOf(k) # {} THEN slots
                    ELSE IF FreeSlots # {} THEN [slots EXCEPT ![FirstOf(FreeSlots)] = slot]
                    ELSE Append(slots, slot)
        /\ map_ref' = IF k \in DOMAIN map_ref THEN map_ref
                      ELSE [j \in DOMAIN map_ref \cup {k} |-> IF j = k THEN x ELSE map_ref[j]]
        /\ UNCHANGED <<ring, vector, poolVars, seq_ref>>

MapErase(k) ==
    /\ ContainerOp("map")
    /\ slots' = IF SlotOf(k) = {} THEN slots ELSE [slots EXCEPT ![FirstOf(SlotOf(k))].occupied = FALSE]
    /\ map_ref' = [j \in DOMAIN map_ref \ {k} |-> map_ref[j]]
    /\ UNCHANGED <<ring, vector, poolVars, seq_ref>>

MapClear ==
    /\ ContainerOp("map") /\ slots' = [i \in DOMAIN slots |-> [slots[i] EXCEPT !.occupied = FALSE]]
    /\ map_ref' = <<>> /\ UNCHANGED <<ring, vector, poolVars, seq_ref>>

------------------------------------------------------------------------------
(* ObjectPool, used as LibusbTransferOperator does: an empty pool's user     *)
(* creates an object, one the pool refuses to take back is destroyed.        *)

PoolAlloc ==
    /\ ContainerOp("pool")
    /\ \/ /\ free_top > 0 /\ free_top' = free_top - 1
          /\ pool' = [pool EXCEPT ![free_stack[free_top - 1]] = TRUE]
          /\ lent' = [lent EXCEPT ![free_stack[free_top - 1]] = @ + 1]
       \/ /\ free_top = 0 /\ UNCHANGED <<pool, free_top>>
          /\ \E o \in Created : lent[o] = 0 /\ lent' = [lent EXCEPT ![o] = 1]
    /\ UNCHANGED <<free_stack, ring, vector, slots, seq_ref, map_ref>>

\* Mutant: an object is pushed without looking whether it is lent out.
PoolTakesAny(o) == o \in DOMAIN pool

\* free_impl: an object of this pool that is lent out.
PoolTakes(o) == o \in DOMAIN pool /\ pool[o]

PoolFree(o) ==
    /\ ContainerOp("pool") /\ (o \in DOMAIN pool \/ lent[o] > 0)
    /\ IF PoolTakes(o)
       THEN /\ pool' = [pool EXCEPT ![o] = FALSE] /\ free_top' = free_top + 1
            /\ free_stack' = [i \in DOMAIN free_stack \cup {free_top} |->
                                 IF i = free_top THEN o ELSE free_stack[i]]
       ELSE UNCHANGED <<pool, free_stack, free_top>>
    /\ lent' = [lent EXCEPT ![o] = IF @ > 0 THEN @ - 1 ELSE 0]
    /\ UNCHANGED <<ring, vector, slots, seq_ref, map_ref>>

\* reset: every object back in the pool; its users have given up theirs.
PoolReset ==
    /\ ContainerOp("pool")
    /\ pool' = [i \in DOMAIN pool |-> FALSE] /\ free_stack' = FullStack /\ free_top' = PoolSize
    /\ lent' = [o \in DOMAIN lent |-> 0] /\ UNCHANGED <<ring, vector, slots, seq_ref, map_ref>>

ContainerNext ==
    \/ \E data \in {<<1>>, <<1, 2>>} : RingWrite(data)
    \/ \E k \in 1..2 : RingRead(k)
    \/ \E n \in RingSizes : RingResizes(n)
    \/ RingClear
    \/ \E x \in Elements : PushBack(x)
    \/ PopBack \/ VectorClear
    \/ \E n \in 0..InlineSize + 1 : VectorResize(n)
    \/ \E k, x \in Elements : MapInsert(k, x)
    \/ \E k \in Elements : MapErase(k)
    \/ MapClear \/ PoolAlloc
    \/ \E o \in Objects : PoolFree(o)
    \/ PoolReset

ContainerSpec == ContainerInit /\ [][ContainerNext]_containerVars

------------------------------------------------------------------------------

\* Each container holds what the sequence, map or set it stands for holds:
\* a RingBuffer its bytes in order around the end of the buffer and across
\* resize; a SmallVector its elements across the moves between stack and
\* heap; a ReuseMap one slot for a key; an ObjectPool each object either once
\* on its free stack or lent to one user, also after a second free, and the
\* stack within its array.
ContainersAgree ==
    /\ container = "ring" => /\ Peek(ring) = seq_ref
                             /\ ring.capacity > 0 => ring.tail = (ring.head + ring.count) % ring.capacity
    /\ container = "vector" =>
         /\ vector.size = Len(seq_ref)
         /\ \A i \in DOMAIN seq_ref : seq_ref[i] # AnyElement => At(vector, i - 1) = seq_ref[i]
    /\ container = "map" =>
         /\ \A k \in Elements : Cardinality(SlotOf(k)) = IF k \in DOMAIN map_ref THEN 1 ELSE 0
         /\ \A k \in DOMAIN map_ref : slots[FirstOf(SlotOf(k))].value = map_ref[k]
    /\ container = "pool" =>
         /\ \A o \in Objects : lent[o] \in {0, 1}
         /\ \A o \in DOMAIN pool : Cardinality({i \in 0..free_top - 1 : free_stack[i] = o}) = 1 - lent[o]
         /\ DOMAIN free_stack = DOMAIN pool
==============================================================================
