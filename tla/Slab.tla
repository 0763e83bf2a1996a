--------------------------------- MODULE Slab ---------------------------------
(***************************************************************************)
(* The slab allocators.  For blocks of one size: pure_slab                 *)
(* (pure_slab.cpp), which has an optional limit, and the two forms of the  *)
(* template pure_slab_t (pure_slab_t.h), with a limit and without one.     *)
(* For blocks of lvl + 1 sizes, each twice the one before and each with a  *)
(* chain of pools of its own: pure_slab_pool (pure_slab_pool.cpp).  They   *)
(* are documented for one process; a call is one step.                     *)
(***************************************************************************)
EXTENDS PoolLists

CONSTANTS
    Kinds,        \* a subset of AllKinds
    Limits,       \* values of m_max_num, -1 for none
    MbSize,       \* m_mbsize of one size, header and block
    Lengths,      \* m_poolsize - off_t, for the alignments malloc may return
    AlignedSize,  \* smallest size of pure_slab_pool, rounded up
    lvl,          \* index of its largest size
    Header,       \* sizeof(MB)
    PoolShift,    \* its pools are 2^PoolShift blocks, rounded up; 6 in the code
    Requests,     \* arguments of Alloc
    MaxHeld,      \* bound: blocks of pure_slab_pool in use
    Faults        \* {"malloc"} if malloc may fail

AllKinds == {"slab", "slab_t", "slab_t0", "slab_pool"}
Levels == 0 .. lvl

mbsize(i) == AlignedSize * 2 ^ i + Header
poolsize(i) == ((mbsize(i) + 15) \div 16) * 16 * 2 ^ PoolShift

(* The size Alloc chooses: the highest bit of the number of smallest       *)
(* blocks, headers included, that the length fills.                        *)
bitp(l) ==
    LET i == (l + Header - 1) \div mbsize(0)
    IN  IF i = 0 THEN 0 ELSE CHOOSE k \in 0 .. i : 2 ^ k <= i /\ i < 2 ^ (k + 1)

ASSUME SlabAssumption ==
    /\ Kinds \subseteq AllKinds
    /\ Limits \subseteq Nat \cup {-1}
    /\ Word \in Nat /\ lvl \in Nat /\ Lengths \subseteq Nat
    /\ {MbSize, PoolHead, MaxPools, MaxSlots} \subseteq Nat \ {0}
    /\ \A l \in Lengths : l < Word /\ Laid(l, MbSize) <= MaxSlots
    /\ \A i \in Levels :
          /\ mbsize(i) \in Nat \ {0} /\ poolsize(i) \in Nat /\ poolsize(i) < Word
          /\ Laid(poolsize(i), mbsize(i)) \in 1 .. MaxSlots
    /\ \A l \in Requests : bitp(l) \in Nat

VARIABLES
    kind, m_max_num,  \* what was constructed
    pmpool,           \* the pools of each size; one size is level 0
    m_alloced_num,
    held,             \* the callers' blocks, with their level
    alive,            \* "up", "down" (not constructed, or exit) or "crashed"
    reply             \* what the last call returned: "block", "null" or "none"

vars == <<kind, m_max_num, pmpool, m_alloced_num, held, alive, reply>>

NoHeaps == [i \in Levels |-> NoPools]
HeldOf(i) == {h.blk : h \in {x \in held : x.lev = i}}

malloc_fails == "malloc" \in Faults

(* Blocks and pools of a level of what was constructed. *)
BlockSize(i) == IF kind = "slab_pool" THEN mbsize(i) ELSE MbSize
PoolLengths(i) == IF kind = "slab_pool" THEN {poolsize(i)} ELSE Lengths

(* The constructors of the one-size kinds: the first pool, which may fail  *)
(* and leaves mp_mpool NULL.                                               *)
construct(k, n) ==
    /\ alive # "up"
    /\ k # "slab_pool"
    /\ k = "slab_t" => n # -1
    /\ alive' = "up"
    /\ kind' = k
    /\ m_max_num' = n
    /\ m_alloced_num' = 0
    /\ held' = {}
    /\ reply' = "none"
    /\ \/ \E l \in Lengths : pmpool' = [NoHeaps EXCEPT ![0] = init_memblock(NoPools, l, MbSize)]
       \/ malloc_fails /\ pmpool' = NoHeaps

(* The constructor of pure_slab_pool: one pool of each size; when a malloc *)
(* fails it exits, and nothing has been constructed.                       *)
construct_pool ==
    /\ alive # "up"
    /\ "slab_pool" \in Kinds
    /\ alive' = "up"
    /\ kind' = "slab_pool"
    /\ pmpool' = [i \in Levels |-> init_memblock(NoPools, poolsize(i), mbsize(i))]
    /\ m_max_num' = -1
    /\ m_alloced_num' = 0
    /\ held' = {}
    /\ reply' = "none"

(* The call goes through a NULL mp_mpool. *)
slab_alloc_null ==
    /\ alive = "up"
    /\ pmpool = NoHeaps
    /\ alive' = "crashed"
    /\ held' = {}
    /\ UNCHANGED <<kind, m_max_num, pmpool, m_alloced_num, reply>>

Return(i, h, p) ==
    /\ pmpool' = [pmpool EXCEPT ![i] = take(h, p)]
    /\ held' = held \cup {[lev |-> i, blk |-> h.freehead[p]]}
    /\ reply' = "block"
    /\ m_alloced_num' = IF kind \in {"slab", "slab_t"} THEN m_alloced_num + 1 ELSE 0
    /\ UNCHANGED alive

Refuse == reply' = "null" /\ UNCHANGED <<pmpool, held, m_alloced_num, alive>>

(* CreatePool without memory: exit(0). *)
Exit ==
    /\ alive' = "down" /\ pmpool' = NoHeaps /\ held' = {} /\ m_alloced_num' = 0
    /\ reply' = "none"

(* Mutant: only the last pool is looked at. *)
FromPools_last(i) ==
    LET h == pmpool[i]
        p == Len(h.slots)
    IN
    /\ alive = "up" /\ h # NoPools
    /\ \/ h.freehead[p] # NULL /\ Return(i, h, p)
       \/ /\ h.freehead[p] = NULL /\ p < MaxPools
          /\ \E l \in PoolLengths(i) : Return(i, init_memblock(h, l, BlockSize(i)), p + 1)
    /\ UNCHANGED <<kind, m_max_num>>

(* A block from the first pool that has a free one, or from a new pool. *)
FromPools(i) ==
    LET h == pmpool[i]
        p == search(h)
    IN
    /\ alive = "up" /\ h # NoPools
    /\ \/ h.freehead[p] # NULL /\ Return(i, h, p)
       \/ /\ h.freehead[p] = NULL /\ p < MaxPools
          /\ \E l \in PoolLengths(i) : Return(i, init_memblock(h, l, BlockSize(i)), p + 1)
    /\ UNCHANGED <<kind, m_max_num>>

(* Every pool is used up and malloc fails. *)
NoMemory(i) ==
    /\ alive = "up" /\ pmpool[i] # NoPools
    /\ pmpool[i].freehead[search(pmpool[i])] = NULL
    /\ malloc_fails

mempool_alloc(i) ==
    \/ FromPools(i)
    \/ NoMemory(i) /\ Refuse /\ UNCHANGED <<kind, m_max_num>>

(* pure_slab_pool's exits instead. *)
MPAlloc(i) ==
    \/ FromPools(i)
    \/ NoMemory(i) /\ Exit /\ UNCHANGED <<kind, m_max_num>>

(* The limit is looked at before anything else. *)
Limited(refused) ==
    \/ /\ alive = "up" /\ pmpool # NoHeaps /\ refused
       /\ Refuse /\ UNCHANGED <<kind, m_max_num>>
    \/ ~refused /\ mempool_alloc(0)

(* Mutant: one block more than the limit. *)
AtLimit_late == m_max_num # -1 /\ m_max_num < m_alloced_num

(* Mutant: the limit is reached one block early. *)
AtLimit_early == m_max_num # -1 /\ m_max_num <= m_alloced_num + 1

AtLimit == m_max_num # -1 /\ m_max_num <= m_alloced_num

slab_alloc == kind = "slab" /\ Limited(AtLimit)

(* pure_slab_t with a limit *)
slab_t_alloc == kind = "slab_t" /\ Limited(m_alloced_num >= m_max_num)

(* pure_slab_t without a limit *)
slab_t0_alloc == kind = "slab_t0" /\ Limited(FALSE)

(* pure_slab_pool: a length above the largest size is refused. *)
Alloc(l) ==
    /\ kind = "slab_pool" /\ alive = "up"
    /\ Cardinality(held) < MaxHeld
    /\ \/ bitp(l) <= lvl /\ MPAlloc(bitp(l))
       \/ bitp(l) > lvl /\ Refuse /\ UNCHANGED <<kind, m_max_num>>

GiveBack(h) ==
    /\ alive = "up"
    /\ pmpool' = [pmpool EXCEPT ![h.lev] = give(@, h.blk)]
    /\ held' = held \ {h}
    /\ reply' = "none"
    /\ UNCHANGED <<kind, m_max_num, alive>>

(* pure_slab and pure_slab_t with a limit *)
slab_free(h) ==
    kind \in {"slab", "slab_t"} /\ GiveBack(h) /\ m_alloced_num' = m_alloced_num - 1

(* pure_slab_t without a limit *)
slab_t0_free(h) == kind = "slab_t0" /\ GiveBack(h) /\ UNCHANGED m_alloced_num

(* pure_slab_pool *)
Free(h) == kind = "slab_pool" /\ GiveBack(h) /\ UNCHANGED m_alloced_num

(* The destructors: every zone of every chain is freed. *)
destroy ==
    /\ alive = "up"
    /\ alive' = "down"
    /\ pmpool' = NoHeaps
    /\ held' = {}
    /\ reply' = "none"
    /\ m_alloced_num' = 0
    /\ UNCHANGED <<kind, m_max_num>>

-----------------------------------------------------------------------------
Init ==
    /\ kind = "slab"
    /\ m_max_num = -1
    /\ pmpool = NoHeaps
    /\ m_alloced_num = 0
    /\ held = {}
    /\ alive = "down"
    /\ reply = "none"

Next ==
    \/ \E k \in Kinds, n \in Limits : construct(k, n)
    \/ construct_pool
    \/ slab_alloc_null
    \/ slab_alloc \/ slab_t_alloc \/ slab_t0_alloc
    \/ \E l \in Requests : Alloc(l)
    \/ \E h \in held : slab_free(h) \/ slab_t0_free(h) \/ Free(h)
    \/ destroy

Spec == Init /\ [][Next]_vars

-----------------------------------------------------------------------------
(* After any sequence of calls the header pointers still describe two      *)
(* exact lists in every pool of every size: no block is lost, given out    *)
(* twice or freed into the wrong pool or size, and every block lies inside *)
(* its pool, wherever the alignment of malloc's zone makes the pool begin. *)
ListsExact ==
    \A i \in Levels :
        /\ Exact(pmpool[i], HeldOf(i))
        /\ \A p \in Pools(pmpool[i]) :
              PoolHead + pmpool[i].slots[p] * BlockSize(i) <= pmpool[i].length[p]

(* The counter of the kinds that have one is the number of blocks in use,  *)
(* and the limit is never passed.                                          *)
LimitKept ==
    alive = "up" /\ kind \in {"slab", "slab_t"} =>
        /\ m_alloced_num = Cardinality(held)
        /\ m_max_num # -1 => Cardinality(held) <= m_max_num

InUse(i) == \A p \in Pools(pmpool[i]) : BlocksOf(pmpool[i], p) \subseteq HeldOf(i)

(* An allocator of one size only answers NULL when as many blocks are in   *)
(* use as the limit allows, or malloc failed: freed blocks are found again *)
(* whichever pool they are in.                                             *)
NullOnlyAtLimit ==
    [][reply' = "null" /\ kind # "slab_pool" =>
        \/ kind # "slab_t0" /\ m_max_num # -1 /\ Cardinality(held) >= m_max_num
        \/ malloc_fails /\ InUse(0)]_vars

(* A size only gets another pool when every block it has is in use. *)
GrowsOnlyWhenFull ==
    [][\A i \in Levels :
        Len(pmpool'[i].slots) > Len(pmpool[i].slots) => InUse(i)]_vars
=============================================================================
