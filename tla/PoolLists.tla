------------------------------ MODULE PoolLists ------------------------------
(***************************************************************************)
(* The chain of pools that the slab allocators of src/src/mem_pool share:  *)
(* every pool is a zone of memory cut into blocks of one size, with a free *)
(* and a used list threaded through the blocks' headers.  A heap is a      *)
(* record of the pools' heads and the headers' pointers.                   *)
(*                                                                         *)
(* A block is <<pool, slot>>; NULL is no block.                            *)
(***************************************************************************)
EXTENDS Integers, Sequences, FiniteSets

CONSTANTS
    Word,      \* 2^32, the range of u32
    PoolHead,  \* size of the pool's own header
    MaxPools,  \* bound: pools in a chain
    MaxSlots   \* bound: blocks in a pool

NULL == <<0, 0>>
Block == (1 .. MaxPools) \X (1 .. MaxSlots)

NoPools ==
    [length |-> <<>>, slots |-> <<>>, freehead |-> <<>>, usedhead |-> <<>>,
     pre |-> [b \in Block |-> NULL], next |-> [b \in Block |-> NULL]]

Pools(h) == DOMAIN h.slots
BlocksOf(h, p) == {p} \X (1 .. h.slots[p])

(* init_memblock's loop: how many blocks of size ul it lays out.  The      *)
(* bound length - ul is a u32.                                             *)
Laid(length, ul) ==
    LET last == (length + Word - ul) % Word
    IN  IF PoolHead > last THEN 0 ELSE (last - PoolHead) \div ul + 1

(* init_memblock: the new pool's blocks are linked in order.  freehead is  *)
(* set before the loop, whether a block fits or not.                       *)
init_memblock(h, length, ul) ==
    LET p == Len(h.slots) + 1
        n == IF Laid(length, ul) = 0 THEN 1 ELSE Laid(length, ul)
    IN  [length |-> Append(h.length, length),
         slots |-> Append(h.slots, n),
         freehead |-> Append(h.freehead, <<p, 1>>),
         usedhead |-> Append(h.usedhead, NULL),
         pre |-> [b \in Block |-> IF b[1] = p /\ b[2] \in 2 .. n THEN <<p, b[2] - 1>> ELSE h.pre[b]],
         next |-> [b \in Block |-> IF b[1] = p /\ b[2] \in 1 .. n - 1 THEN <<p, b[2] + 1>> ELSE h.next[b]]]

(* Point the header field of block b, if there is one, at c. *)
Set(f, b, c) == IF b = NULL THEN f ELSE [f EXCEPT ![b] = c]

(* mempool_alloc's last part: pool p's first free block becomes its first  *)
(* used one.                                                               *)
take(h, p) ==
    LET b == h.freehead[p]
        f == h.next[b]
        u == h.usedhead[p]
    IN  [h EXCEPT !.freehead[p] = f,
                  !.usedhead[p] = b,
                  !.next[b] = u,
                  !.pre = Set(Set(Set(@, f, NULL), u, b), b, NULL)]

(* Mutant: every block is freed as if it were the head of the used list. *)
give_head(h, b) ==
    LET p == b[1]
        n == h.next[b]
        f == h.freehead[p]
    IN  [h EXCEPT !.usedhead[p] = n,
                  !.freehead[p] = b,
                  !.next[b] = f,
                  !.pre = Set(Set(Set(@, n, NULL), f, b), b, NULL)]

(* slab_free: out of the used list, at its head or elsewhere, and to the   *)
(* head of the free list of the pool named in the header.                  *)
give(h, b) ==
    LET p == b[1]
        r == h.pre[b]
        n == h.next[b]
        f == h.freehead[p]
    IN  [h EXCEPT !.usedhead[p] = IF r = NULL THEN n ELSE @,
                  !.freehead[p] = b,
                  !.next = Set(Set(@, r, n), b, f),
                  !.pre = Set(Set(Set(@, n, r), f, b), b, NULL)]

(* The search of mempool_alloc: the first pool with a free block, or the   *)
(* last pool.                                                              *)
search(h) ==
    LET good == {p \in Pools(h) : h.freehead[p] # NULL \/ p = Len(h.slots)}
    IN  CHOOSE p \in good : \A q \in good : p <= q

-----------------------------------------------------------------------------
Closed(h, S) == \A c \in S : h.next[c] \in S \cup {NULL}

(* The list that begins at b is S: its blocks are followed by blocks of S, *)
(* no smaller set that begins at b is closed, and pre leads back.          *)
IsList(h, b, S) ==
    /\ b \in S \cup {NULL}
    /\ Closed(h, S)
    /\ \A T \in SUBSET S : b \in T \cup {NULL} /\ Closed(h, T) => T = S
    /\ b # NULL => h.pre[b] = NULL
    /\ \A c \in S : h.next[c] # NULL => h.pre[h.next[c]] = c

(* Every block of the callers lies in a pool, and in every pool the used   *)
(* list is made of those blocks and the free list of all the others.       *)
Exact(h, held) ==
    /\ held \subseteq UNION {BlocksOf(h, p) : p \in Pools(h)}
    /\ \A p \in Pools(h) :
          /\ IsList(h, h.usedhead[p], BlocksOf(h, p) \cap held)
          /\ IsList(h, h.freehead[p], BlocksOf(h, p) \ held)
=============================================================================
