-------------------------------- MODULE MemBox --------------------------------
(***************************************************************************)
(* membox (src/src/mem_pool/p_membox.h): a fixed array of blocks that      *)
(* threads allocate and free without a lock.  A compare-and-swap on a      *)
(* block's seq decides who gets it; free_num is brought up to date in a    *)
(* step of its own, so it is only an estimate between the two.             *)
(*                                                                         *)
(* free_num is kept as an integer and reduced modulo Word where it is      *)
(* read, as a u32 is.                                                      *)
(***************************************************************************)
EXTENDS Integers, FiniteSets

CONSTANTS
    Threads,
    Length, MbSize, PoolHead,  \* sizes of the pool, a block and the pool's header
    Word                       \* 2^32, the range of u32

(* init_memblock: one block less than would fit, in u32 arithmetic. *)
block_num == ((Length + 2 * Word - MbSize - PoolHead) % Word) \div MbSize

ASSUME MemBoxAssumption ==
    /\ {Length, MbSize, PoolHead, Word} \subseteq Nat
    /\ MbSize > 1   \* a block begins with its header
    /\ MbSize + PoolHead <= Length /\ Length < Word
    /\ IsFiniteSet(Threads)

Blocks == 0 .. block_num - 1

VARIABLES
    seq,       \* 0 free, 1 used
    mp,        \* whether a block's header points at the pool
    free_num,
    held,      \* the blocks each thread was given and has not freed
    pc, loc,   \* loc: startpos, i, and the block of the call
    alone      \* history: no other call overlapped this one so far

vars == <<seq, mp, free_num, held, pc, loc, alone>>

Free == {b \in Blocks : seq[b] = 0}
Goto(t, label) == pc' = [pc EXCEPT ![t] = label]
Fresh == [start |-> 0, i |-> 0, blk |-> 0]

(* Thread t leaves its call. *)
Leave(t) ==
    /\ Goto(t, "idle")
    /\ loc' = [loc EXCEPT ![t] = Fresh]
    /\ alone' = [alone EXCEPT ![t] = FALSE]

Enter(t) ==
    alone' = [u \in Threads |-> u = t /\ \A v \in Threads \ {t} : pc[v] = "idle"]

-----------------------------------------------------------------------------
(* box_alloc -> mempool_alloc: "membox pool is full!" when free_num is 0. *)
box_alloc(t) ==
    /\ pc[t] = "idle"
    /\ Enter(t)
    /\ Goto(t, IF free_num % Word = 0 THEN "null" ELSE "start")
    /\ UNCHANGED <<seq, mp, free_num, held, loc>>

alloc_start(t) ==
    /\ pc[t] = "start"
    /\ loc' = [loc EXCEPT ![t] = [Fresh EXCEPT !.start = (block_num - free_num) % Word]]
    /\ Goto(t, "scan")
    /\ UNCHANGED <<seq, mp, free_num, held, alone>>

(* Mutant: the first block is not looked at again at the end of the scan. *)
Probe_clipped(t) ==
    IF loc[t].start + loc[t].i < block_num THEN loc[t].start + loc[t].i ELSE block_num - 1

Probe(t) == ((loc[t].start + loc[t].i) % Word) % block_num

(* Mutant: the block is taken with a plain store after the test. *)
alloc_scan_late(t) ==
    LET b == Probe(t) IN
    /\ pc[t] = "scan"
    /\ \/ /\ seq[b] = 0
          /\ loc' = [loc EXCEPT ![t] = [Fresh EXCEPT !.blk = b]]
          /\ Goto(t, "sub")
       \/ /\ seq[b] = 1
          /\ loc' = [loc EXCEPT ![t].i = @ + 1]
          /\ Goto(t, IF loc[t].i + 1 = block_num THEN "null" ELSE "scan")
    /\ UNCHANGED <<seq, mp, free_num, held, alone>>

(* Mutant: the loop makes one round too many. *)
alloc_scan_over(t) ==
    LET b == Probe(t) IN
    /\ pc[t] = "scan"
    /\ \/ /\ seq[b] = 0
          /\ seq' = [seq EXCEPT ![b] = 1]
          /\ loc' = [loc EXCEPT ![t] = [Fresh EXCEPT !.blk = b]]
          /\ Goto(t, "sub")
       \/ /\ seq[b] = 1
          /\ loc' = [loc EXCEPT ![t].i = @ + 1]
          /\ Goto(t, IF loc[t].i = block_num THEN "null" ELSE "scan")
          /\ UNCHANGED seq
    /\ UNCHANGED <<mp, free_num, held, alone>>

(* One round of the loop: a block seen as used, or whose compare-and-swap  *)
(* fails, is passed over.                                                  *)
alloc_scan(t) ==
    LET b == Probe(t) IN
    /\ pc[t] = "scan"
    /\ \/ /\ seq[b] = 0
          /\ seq' = [seq EXCEPT ![b] = 1]
          /\ loc' = [loc EXCEPT ![t] = [Fresh EXCEPT !.blk = b]]
          /\ Goto(t, "sub")
       \/ /\ seq[b] = 1
          /\ loc' = [loc EXCEPT ![t].i = @ + 1]
          /\ Goto(t, IF loc[t].i + 1 = block_num THEN "null" ELSE "scan")
          /\ UNCHANGED seq
    /\ UNCHANGED <<mp, free_num, held, alone>>

(* ATOMIC_SUB(&p->free_num, 1) *)
alloc_sub(t) ==
    /\ pc[t] = "sub"
    /\ free_num' = free_num - 1
    /\ Goto(t, "mp")
    /\ UNCHANGED <<seq, mp, held, loc, alone>>

(* Mutant: the header is left as it was. *)
alloc_return_no_mp(t) ==
    /\ pc[t] = "mp"
    /\ held' = [held EXCEPT ![t] = @ \cup {loc[t].blk}]
    /\ Leave(t)
    /\ UNCHANGED <<seq, mp, free_num>>

(* The header is completed and the block returned. *)
alloc_return(t) ==
    /\ pc[t] = "mp"
    /\ mp' = [mp EXCEPT ![loc[t].blk] = TRUE]
    /\ held' = [held EXCEPT ![t] = @ \cup {loc[t].blk}]
    /\ Leave(t)
    /\ UNCHANGED <<seq, free_num>>

(* NULL is returned. *)
alloc_null(t) ==
    /\ pc[t] = "null"
    /\ Leave(t)
    /\ UNCHANGED <<seq, mp, free_num, held>>

(* Mutant: the mark is not taken back. *)
box_free_marked(t, u, b) ==
    /\ pc[t] = "idle"
    /\ b \in held[u]
    /\ Enter(t)
    /\ held' = [held EXCEPT ![u] = @ \ {b}]
    /\ loc' = [loc EXCEPT ![t].blk = b]
    /\ Goto(t, IF seq[b] = 1 THEN "add" ELSE "idle")
    /\ UNCHANGED <<seq, mp, free_num>>

(* box_free of a block that thread u was given: CAS(seq, 1, 0), and "free  *)
(* error" if that fails.                                                   *)
box_free(t, u, b) ==
    /\ pc[t] = "idle"
    /\ b \in held[u]
    /\ Enter(t)
    /\ held' = [held EXCEPT ![u] = @ \ {b}]
    /\ seq' = [seq EXCEPT ![b] = 0]
    /\ loc' = [loc EXCEPT ![t].blk = b]
    /\ Goto(t, IF seq[b] = 1 THEN "add" ELSE "idle")
    /\ UNCHANGED <<mp, free_num>>

(* Mutant: the count is stored, not added to. *)
free_add_lost(t) ==
    /\ pc[t] = "add"
    /\ free_num' = Cardinality(Free)
    /\ Leave(t)
    /\ UNCHANGED <<seq, mp, held>>

(* ATOMIC_ADD(&pmb->mp->free_num, 1) *)
free_add(t) ==
    /\ pc[t] = "add"
    /\ free_num' = free_num + 1
    /\ Leave(t)
    /\ UNCHANGED <<seq, mp, held>>

-----------------------------------------------------------------------------
(* The constructor: the zone is zeroed. *)
Init ==
    /\ seq = [b \in Blocks |-> 0]
    /\ mp = [b \in Blocks |-> FALSE]
    /\ free_num = block_num
    /\ held = [t \in Threads |-> {}]
    /\ pc = [t \in Threads |-> "idle"]
    /\ loc = [t \in Threads |-> Fresh]
    /\ alone = [t \in Threads |-> FALSE]

Next ==
    \E t \in Threads :
        \/ box_alloc(t) \/ alloc_start(t) \/ alloc_scan(t) \/ alloc_sub(t)
        \/ alloc_return(t) \/ alloc_null(t) \/ free_add(t)
        \/ \E u \in Threads : \E b \in held[u] : box_free(t, u, b)

Spec == Init /\ [][Next]_vars

-----------------------------------------------------------------------------
PCs == {"idle", "start", "scan", "sub", "mp", "null", "add"}

(* Every variable keeps its shape. *)
TypeOK ==
    /\ seq \in [Blocks -> {0, 1}]
    /\ mp \in [Blocks -> BOOLEAN]
    /\ free_num \in Int
    /\ held \in [Threads -> SUBSET Blocks]
    /\ pc \in [Threads -> PCs]
    /\ loc \in [Threads -> [start : 0 .. Word - 1, i : 0 .. block_num, blk : Blocks \cup {0}]]
    /\ alone \in [Threads -> BOOLEAN]

Gets(t, b) == pc[t] \in {"sub", "mp"} /\ loc[t].blk = b

(* Thread t has block b: it was given it, or is about to be. *)
Has(t, b) == b \in held[t] \/ Gets(t, b)

(* No block is with two threads, or twice with one, and what a thread has  *)
(* is marked used, so that box_free's compare-and-swap never fails.        *)
Exclusive ==
    \A b \in Blocks :
        /\ \A t \in Threads : Has(t, b) => seq[b] = 1
        /\ \A t, u \in Threads : Has(t, b) /\ Has(u, b) => t = u
        /\ \A t \in Threads : ~(b \in held[t] /\ Gets(t, b))

(* A used block is with some thread: none is lost. *)
NoneLost ==
    \A b \in Blocks : seq[b] = 1 => \E t \in Threads : Has(t, b)

At(label) == {t \in Threads : pc[t] = label}

(* free_num is the number of free blocks but for the calls between their   *)
(* compare-and-swap and their update of it; when nobody is in a call it is *)
(* exact.  In between it can fall below zero, that is to 2^32 - 1.         *)
CountAccurate ==
    free_num = Cardinality(Free) + Cardinality(At("sub")) - Cardinality(At("add"))

(* box_free finds the pool in the header, also when the block is given out *)
(* again before it has counted it.                                         *)
HeaderComplete ==
    \A t \in Threads : pc[t] = "add" => mp[loc[t].blk]

(* A call that no other overlaps is only refused when every block is used. *)
NullWhenFull ==
    \A t \in Threads : pc[t] = "null" /\ alone[t] => Free = {}
=============================================================================
