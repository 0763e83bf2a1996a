---------------------------- MODULE MemBoxProofs ----------------------------
(***************************************************************************)
(* Proofs about the memory box, for any threads and any sizes.             *)
(*                                                                         *)
(* The compare-and-swap on seq makes a thread the only owner of a block    *)
(* before it is given out; Exclusive is inductive together with the types  *)
(* and with ScanInv, by which a call that scans has blocks to look at and  *)
(* a call between its compare-and-swap and its update of free_num has one. *)
(* CountAccurate then follows by moving one element at a time.  AloneInv   *)
(* is about the calls that no other overlaps: for those the count is exact *)
(* and the blocks passed over stay used, so that a whole round of the scan *)
(* has seen every block.                                                   *)
(***************************************************************************)
EXTENDS MemBox, FiniteSetTheorems, TLAPS

LEMMA ModFacts ==
  ASSUME NEW a \in Int, NEW n \in Nat \ {0}
  PROVE  a % n \in 0 .. n - 1
OBVIOUS

LEMMA DivFacts ==
  ASSUME NEW a \in Nat, NEW n \in Nat \ {0}
  PROVE  a \div n \in Nat
OBVIOUS

LEMMA ModUnique ==
  ASSUME NEW n \in Nat \ {0}, NEW q \in Int, NEW r \in 0 .. n - 1
  PROVE  (q * n + r) % n = r
OBVIOUS

LEMMA DivHalf ==
  ASSUME NEW a \in Nat, NEW n \in Nat, n >= 2
  PROVE  2 * (a \div n) <= a
OBVIOUS

LEMMA SizeFacts == Word \in Nat \ {0} /\ block_num \in Nat
<1>1. Word \in Nat \ {0} /\ MbSize \in Nat \ {0} /\ PoolHead \in Nat /\ Length \in Nat
  BY MemBoxAssumption
<1>2. Length + 2 * Word - MbSize - PoolHead \in Int
  BY <1>1
<1>3. (Length + 2 * Word - MbSize - PoolHead) % Word \in Nat
  BY <1>1, <1>2, ModFacts
<1> QED BY <1>1, <1>3, DivFacts DEF block_num

LEMMA BlockNumFacts == 2 * block_num <= Word /\ block_num < Word
<1>1. /\ Word \in Nat \ {0} /\ MbSize \in Nat /\ MbSize >= 2
      /\ PoolHead \in Nat /\ Length \in Nat /\ Length < Word /\ MbSize + PoolHead <= Length
  BY MemBoxAssumption
<1> DEFINE rest == Length - MbSize - PoolHead
<1>2. rest \in 0 .. Word - 1 /\ Length + 2 * Word - MbSize - PoolHead = 2 * Word + rest
  BY <1>1
<1>3. (2 * Word + rest) % Word = rest
  BY <1>1, <1>2, ModUnique
<1>4. block_num = rest \div MbSize
  BY <1>2, <1>3 DEF block_num
<1>5. 2 * (rest \div MbSize) <= rest
  BY <1>1, <1>2, DivHalf
<1> HIDE DEF rest
<1> QED BY <1>1, <1>2, <1>4, <1>5, SizeFacts

(* Where a call is, as far as its local variables depend on it. *)
ScanInv ==
  /\ Blocks = {} => free_num = 0
  /\ \A t \in Threads :
       /\ pc[t] \in {"start", "scan"} => Blocks # {}
       /\ pc[t] \in {"sub", "mp", "add"} => loc[t].blk \in Blocks
       /\ pc[t] = "scan" => loc[t].i < block_num
       /\ pc[t] # "scan" => loc[t].i = 0 \/ pc[t] = "null"

(* The header of a block that was ever given out is complete. *)
HeaderInv ==
  /\ \A t \in Threads : \A b \in held[t] : mp[b]
  /\ HeaderComplete

(* A call that no other overlaps: nobody else is in a call, the blocks it  *)
(* has passed over are used, and when it is refused all are.               *)
AloneInv ==
  \A t \in Threads : alone[t] =>
    /\ \A u \in Threads \ {t} : pc[u] = "idle"
    /\ pc[t] = "scan" =>
         /\ loc[t].start <= block_num
         /\ \A k \in 0 .. loc[t].i - 1 : seq[(loc[t].start + k) % block_num] = 1
    /\ pc[t] = "null" => Free = {}

IInv == TypeOK /\ ScanInv /\ Exclusive /\ NoneLost /\ HeaderInv /\ CountAccurate /\ AloneInv

LEMMA InitIInv == Init => IInv
<1> SUFFICES ASSUME Init PROVE IInv
  OBVIOUS
<1> USE SizeFacts DEF Init, Fresh
<1>1. TypeOK
  BY DEF TypeOK, PCs, Blocks
<1>2. ScanInv
  BY DEF ScanInv, Blocks
<1>3. Exclusive /\ NoneLost
  BY DEF Exclusive, NoneLost, Has, Gets
<1>4. HeaderInv
  BY DEF HeaderInv, HeaderComplete
<1>5. CountAccurate
  <2>1. Free = Blocks /\ At("sub") = {} /\ At("add") = {}
    BY DEF Free, At
  <2>2. Cardinality(Blocks) = block_num /\ Cardinality({}) = 0
    BY FS_Interval, FS_EmptySet DEF Blocks
  <2>3. /\ Cardinality(Free) = block_num
        /\ Cardinality(At("sub")) = 0
        /\ Cardinality(At("add")) = 0
    BY <2>1, <2>2, Zenon
  <2> QED BY <2>3 DEF CountAccurate
<1>6. AloneInv
  BY DEF AloneInv
<1> QED BY <1>1, <1>2, <1>3, <1>4, <1>5, <1>6 DEF IInv

(* The block a round of the scan looks at exists. *)
LEMMA ProbeFacts ==
  ASSUME TypeOK, ScanInv, NEW t \in Threads, pc[t] = "scan"
  PROVE  Probe(t) \in Blocks /\ block_num > 0
<1>1. block_num \in Nat \ {0}
  BY SizeFacts DEF ScanInv, Blocks
<1>2. loc[t].start + loc[t].i \in Int
  BY SizeFacts DEF TypeOK
<1>3. (loc[t].start + loc[t].i) % Word \in Int
  BY <1>2, SizeFacts, ModFacts
<1> QED BY <1>1, <1>3, ModFacts DEF Probe, Blocks

Locals == [start : 0 .. Word - 1, i : 0 .. block_num, blk : Blocks \cup {0}]

LEMMA LocalsFacts ==
  /\ Fresh \in Locals
  /\ \A l \in Locals : l.start \in 0 .. Word - 1 /\ l.i \in 0 .. block_num
                       /\ l.blk \in Blocks \cup {0}
  /\ \A l \in Locals, b \in Blocks : [l EXCEPT !.blk = b] \in Locals
  /\ \A l \in Locals, k \in 0 .. block_num : [l EXCEPT !.i = k] \in Locals
  /\ \A k \in 0 .. Word - 1 : [Fresh EXCEPT !.start = k] \in Locals
<1> USE SizeFacts DEF Locals, Fresh
<1>1. Fresh \in Locals
  OBVIOUS
<1> QED BY <1>1

(* Types are kept by every step. *)
LEMMA TypeStep ==
  ASSUME TypeOK, ScanInv, Exclusive, [Next]_vars
  PROVE  TypeOK'
<1>0. loc \in [Threads -> Locals]
  BY DEF TypeOK, Locals
<1> USE DEF PCs, Goto
<1>1. ASSUME NEW t \in Threads, box_alloc(t) PROVE TypeOK'
  <2>1. pc' \in [Threads -> PCs]
    BY <1>1 DEF box_alloc, TypeOK
  <2>2. alone' \in [Threads -> BOOLEAN]
    BY <1>1 DEF box_alloc, Enter
  <2> QED BY <1>1, <2>1, <2>2 DEF box_alloc, TypeOK
<1>2. ASSUME NEW t \in Threads, alloc_start(t) PROVE TypeOK'
  <2>1. pc' \in [Threads -> PCs]
    BY <1>2 DEF alloc_start, TypeOK
  <2>2. (block_num - free_num) % Word \in 0 .. Word - 1
    BY SizeFacts, ModFacts DEF TypeOK
  <2>3. loc' \in [Threads -> Locals]
    BY <1>0, <1>2, <2>2, LocalsFacts DEF alloc_start
  <2> QED BY <1>2, <2>1, <2>3 DEF alloc_start, TypeOK, Locals
<1>3. ASSUME NEW t \in Threads, alloc_scan(t) PROVE TypeOK'
  <2>1. pc' \in [Threads -> PCs]
    BY <1>3 DEF alloc_scan, TypeOK
  <2>2. Probe(t) \in Blocks
    BY <1>3, ProbeFacts DEF alloc_scan
  <2>3. seq' \in [Blocks -> {0, 1}]
    BY <1>3, <2>2 DEF alloc_scan, TypeOK
  <2>4. loc[t].i + 1 \in 0 .. block_num
    BY <1>0, <1>3, LocalsFacts, SizeFacts DEF alloc_scan, ScanInv
  <2>5. loc' \in [Threads -> Locals]
    <3>1. loc[t] \in Locals
      BY <1>0
    <3>2. [Fresh EXCEPT !.blk = Probe(t)] \in Locals /\ [loc[t] EXCEPT !.i = loc[t].i + 1] \in Locals
      BY <3>1, <2>2, <2>4, LocalsFacts
    <3> QED BY <1>0, <1>3, <3>2 DEF alloc_scan
  <2> QED BY <1>3, <2>1, <2>3, <2>5 DEF alloc_scan, TypeOK, Locals
<1>4. ASSUME NEW t \in Threads, alloc_sub(t) PROVE TypeOK'
  <2>1. pc' \in [Threads -> PCs] /\ free_num' \in Int
    BY <1>4 DEF alloc_sub, TypeOK
  <2> QED BY <1>4, <2>1 DEF alloc_sub, TypeOK
<1>5. ASSUME NEW t \in Threads, alloc_return(t) PROVE TypeOK'
  <2>1. loc[t].blk \in Blocks
    BY <1>5 DEF alloc_return, ScanInv
  <2>2. mp' \in [Blocks -> BOOLEAN] /\ alone' \in [Threads -> BOOLEAN]
    BY <1>5, Zenon DEF alloc_return, Leave, TypeOK
  <2>3. held' \in [Threads -> SUBSET Blocks] /\ pc' \in [Threads -> PCs]
    BY <1>5, <2>1 DEF alloc_return, Leave, TypeOK
  <2>4. loc' \in [Threads -> Locals]
    BY <1>0, <1>5, LocalsFacts DEF alloc_return, Leave
  <2> QED BY <1>5, <2>2, <2>3, <2>4 DEF alloc_return, TypeOK, Locals
<1>6. ASSUME NEW t \in Threads, alloc_null(t) PROVE TypeOK'
  <2>1. alone' \in [Threads -> BOOLEAN]
    BY <1>6, Zenon DEF alloc_null, Leave, TypeOK
  <2>2. pc' \in [Threads -> PCs]
    BY <1>6 DEF alloc_null, Leave, TypeOK
  <2>3. loc' \in [Threads -> Locals]
    BY <1>0, <1>6, LocalsFacts DEF alloc_null, Leave
  <2> QED BY <1>6, <2>1, <2>2, <2>3 DEF alloc_null, TypeOK, Locals
<1>7. ASSUME NEW t \in Threads, free_add(t) PROVE TypeOK'
  <2>1. alone' \in [Threads -> BOOLEAN]
    BY <1>7, Zenon DEF free_add, Leave, TypeOK
  <2>2. pc' \in [Threads -> PCs] /\ free_num' \in Int
    BY <1>7 DEF free_add, Leave, TypeOK
  <2>3. loc' \in [Threads -> Locals]
    BY <1>0, <1>7, LocalsFacts DEF free_add, Leave
  <2> QED BY <1>7, <2>1, <2>2, <2>3 DEF free_add, TypeOK, Locals
<1>8. ASSUME NEW t \in Threads, NEW u \in Threads, NEW b \in held[u], box_free(t, u, b)
      PROVE  TypeOK'
  <2>1. b \in Blocks
    BY <1>8 DEF TypeOK
  <2>2. alone' \in [Threads -> BOOLEAN]
    BY <1>8 DEF box_free, Enter
  <2>3. pc' \in [Threads -> PCs] /\ held' \in [Threads -> SUBSET Blocks] /\ seq' \in [Blocks -> {0, 1}]
    BY <1>8, <2>1 DEF box_free, TypeOK
  <2>4. loc' \in [Threads -> Locals]
    BY <1>0, <1>8, <2>1, LocalsFacts DEF box_free
  <2> QED BY <1>8, <2>2, <2>3, <2>4 DEF box_free, TypeOK, Locals
<1>9. CASE UNCHANGED vars
  BY <1>9 DEF vars, TypeOK
<1> QED BY <1>1, <1>2, <1>3, <1>4, <1>5, <1>6, <1>7, <1>8, <1>9 DEF Next

(* A call that scans has blocks to look at. *)
LEMMA ScanStep ==
  ASSUME TypeOK, ScanInv, [Next]_vars
  PROVE  ScanInv'
<1>0. loc \in [Threads -> Locals]
  BY DEF TypeOK, Locals
<1> USE SizeFacts DEF TypeOK, ScanInv, PCs, Goto, Leave, Fresh
<1>1. ASSUME NEW t \in Threads, box_alloc(t) PROVE ScanInv'
  <2>1. 0 % Word = 0
    OBVIOUS
  <2>2. free_num % Word # 0 => Blocks # {}
    BY <2>1
  <2> QED BY <1>0, <1>1, <2>2 DEF box_alloc
<1>2. ASSUME NEW t \in Threads, alloc_start(t) PROVE ScanInv'
  <2>1. block_num > 0
    BY <1>2 DEF alloc_start, Blocks
  <2>2. loc'[t].i = 0 /\ pc'[t] = "scan" /\ pc[t] = "start"
    BY <1>0, <1>2 DEF alloc_start
  <2>3. \A u \in Threads \ {t} : loc'[u] = loc[u] /\ pc'[u] = pc[u]
    BY <1>0, <1>2 DEF alloc_start
  <2> QED BY <1>2, <2>1, <2>2, <2>3 DEF alloc_start
<1>3. ASSUME NEW t \in Threads, alloc_scan(t) PROVE ScanInv'
  <2>1. Probe(t) \in Blocks /\ loc[t].i \in Nat /\ loc[t].i < block_num
    BY <1>3, ProbeFacts DEF alloc_scan
  <2>2. \A u \in Threads \ {t} : loc'[u] = loc[u] /\ pc'[u] = pc[u]
    BY <1>0, <1>3 DEF alloc_scan
  <2>3. \/ pc'[t] = "sub" /\ loc'[t].blk \in Blocks /\ loc'[t].i = 0
        \/ pc'[t] = "null"
        \/ pc'[t] = "scan" /\ loc'[t].i < block_num
    <3>1. CASE seq[Probe(t)] = 0
      BY <1>0, <1>3, <2>1, <3>1 DEF alloc_scan
    <3>2. CASE seq[Probe(t)] = 1
      BY <1>0, <1>3, <2>1, <3>2 DEF alloc_scan
    <3> QED BY <1>3, <3>1, <3>2 DEF alloc_scan
  <2> QED BY <1>3, <2>1, <2>2, <2>3 DEF alloc_scan
<1>4. ASSUME NEW t \in Threads, alloc_sub(t) PROVE ScanInv'
  BY <1>0, <1>4 DEF alloc_sub
<1>5. ASSUME NEW t \in Threads, alloc_return(t) PROVE ScanInv'
  BY <1>0, <1>5 DEF alloc_return
<1>6. ASSUME NEW t \in Threads, alloc_null(t) PROVE ScanInv'
  BY <1>0, <1>6 DEF alloc_null
<1>7. ASSUME NEW t \in Threads, free_add(t) PROVE ScanInv'
  BY <1>0, <1>7 DEF free_add
<1>8. ASSUME NEW t \in Threads, NEW u \in Threads, NEW b \in held[u], box_free(t, u, b)
      PROVE  ScanInv'
  BY <1>0, <1>8 DEF box_free
<1>9. CASE UNCHANGED vars
  BY <1>9 DEF vars
<1> QED BY <1>1, <1>2, <1>3, <1>4, <1>5, <1>6, <1>7, <1>8, <1>9 DEF Next

(* Only the compare-and-swaps change who has a block. *)
LEMMA OwnerStep ==
  ASSUME TypeOK, ScanInv, Exclusive, [Next]_vars
  PROVE  Exclusive'
<1>0. loc \in [Threads -> Locals]
  BY DEF TypeOK, Locals
<1> USE DEF TypeOK, ScanInv, Exclusive, Has, Gets, Goto, Leave, Fresh
<1>1. ASSUME NEW t \in Threads, box_alloc(t) PROVE Exclusive'
  BY <1>0, <1>1 DEF box_alloc
<1>2. ASSUME NEW t \in Threads, alloc_start(t) PROVE Exclusive'
  BY <1>0, <1>2 DEF alloc_start
<1>3. ASSUME NEW t \in Threads, alloc_scan(t) PROVE Exclusive'
  <2>1. Probe(t) \in Blocks
    BY <1>3, ProbeFacts DEF alloc_scan
  <2>2. \A u \in Threads \ {t} : loc'[u] = loc[u] /\ pc'[u] = pc[u]
    BY <1>0, <1>3 DEF alloc_scan
  <2>3. CASE seq[Probe(t)] = 0
    <3>1. pc'[t] = "sub" /\ loc'[t].blk = Probe(t) /\ seq' = [seq EXCEPT ![Probe(t)] = 1]
      BY <1>0, <1>3, <2>1, <2>3 DEF alloc_scan
    <3>2. held' = held /\ pc[t] = "scan"
      BY <1>3 DEF alloc_scan
    <3>3. \A u \in Threads : ~Has(u, Probe(t))
      BY <2>1, <2>3
    <3>4. \A b \in Blocks : \A u \in Threads : Has(u, b)' <=> Has(u, b) \/ (u = t /\ b = Probe(t))
      BY <2>2, <3>1, <3>2
    <3>5. \A b \in Blocks : \A u \in Threads : Gets(u, b)' <=> Gets(u, b) \/ (u = t /\ b = Probe(t))
      BY <2>2, <3>1, <3>2
    <3>6. \A b \in Blocks : seq'[b] = IF b = Probe(t) THEN 1 ELSE seq[b]
      BY <2>1, <3>1
    <3>7. \A b \in Blocks : \A u \in Threads : b \in held'[u] <=> b \in held[u]
      BY <3>2
    <3> HIDE DEF Has, Gets
    <3> QED BY <3>3, <3>4, <3>5, <3>6, <3>7 DEF Has
  <2>4. CASE seq[Probe(t)] = 1
    <3>1. pc'[t] \in {"null", "scan"} /\ seq' = seq
      BY <1>0, <1>3, <2>1, <2>4 DEF alloc_scan
    <3>2. held' = held /\ pc[t] = "scan"
      BY <1>3 DEF alloc_scan
    <3>3. \A b \in Blocks : \A u \in Threads : Gets(u, b)' <=> Gets(u, b)
      BY <2>2, <3>1, <3>2
    <3>4. \A b \in Blocks : \A u \in Threads : Has(u, b)' <=> Has(u, b)
      BY <3>2, <3>3
    <3> HIDE DEF Has, Gets
    <3> QED BY <3>1, <3>2, <3>3, <3>4
  <2> QED BY <1>3, <2>3, <2>4 DEF alloc_scan
<1>4. ASSUME NEW t \in Threads, alloc_sub(t) PROVE Exclusive'
  BY <1>0, <1>4 DEF alloc_sub
<1>5. ASSUME NEW t \in Threads, alloc_return(t) PROVE Exclusive'
  BY <1>0, <1>5 DEF alloc_return
<1>6. ASSUME NEW t \in Threads, alloc_null(t) PROVE Exclusive'
  BY <1>0, <1>6 DEF alloc_null
<1>7. ASSUME NEW t \in Threads, free_add(t) PROVE Exclusive'
  BY <1>0, <1>7 DEF free_add
<1>8. ASSUME NEW t \in Threads, NEW u \in Threads, NEW b \in held[u], box_free(t, u, b)
      PROVE  Exclusive'
  BY <1>0, <1>8 DEF box_free
<1>9. CASE UNCHANGED vars
  BY <1>9 DEF vars
<1> QED BY <1>1, <1>2, <1>3, <1>4, <1>5, <1>6, <1>7, <1>8, <1>9 DEF Next

(* A used block stays with the thread that has it until that frees it. *)
LEMMA LostStep ==
  ASSUME TypeOK, ScanInv, Exclusive, NoneLost, [Next]_vars
  PROVE  NoneLost'
<1>0. loc \in [Threads -> Locals]
  BY DEF TypeOK, Locals
<1> USE DEF TypeOK, ScanInv, Exclusive, NoneLost, Has, Gets, Goto, Leave, Fresh
<1>1. ASSUME NEW t \in Threads, box_alloc(t) PROVE NoneLost'
  BY <1>0, <1>1 DEF box_alloc
<1>2. ASSUME NEW t \in Threads, alloc_start(t) PROVE NoneLost'
  BY <1>0, <1>2 DEF alloc_start
<1>3. ASSUME NEW t \in Threads, alloc_scan(t) PROVE NoneLost'
  <2>1. Probe(t) \in Blocks
    BY <1>3, ProbeFacts DEF alloc_scan
  <2>2. \A u \in Threads \ {t} : loc'[u] = loc[u] /\ pc'[u] = pc[u]
    BY <1>0, <1>3 DEF alloc_scan
  <2>3. CASE seq[Probe(t)] = 0
    <3>1. pc'[t] = "sub" /\ loc'[t].blk = Probe(t) /\ seq' = [seq EXCEPT ![Probe(t)] = 1]
      BY <1>0, <1>3, <2>1, <2>3 DEF alloc_scan
    <3> QED BY <1>3, <2>1, <2>2, <2>3, <3>1 DEF alloc_scan
  <2>4. CASE seq[Probe(t)] = 1
    <3>1. pc'[t] \in {"null", "scan"} /\ seq' = seq
      BY <1>0, <1>3, <2>1, <2>4 DEF alloc_scan
    <3> QED BY <1>3, <2>2, <3>1 DEF alloc_scan
  <2> QED BY <1>3, <2>3, <2>4 DEF alloc_scan
<1>4. ASSUME NEW t \in Threads, alloc_sub(t) PROVE NoneLost'
  BY <1>0, <1>4 DEF alloc_sub
<1>5. ASSUME NEW t \in Threads, alloc_return(t) PROVE NoneLost'
  BY <1>0, <1>5 DEF alloc_return
<1>6. ASSUME NEW t \in Threads, alloc_null(t) PROVE NoneLost'
  BY <1>0, <1>6 DEF alloc_null
<1>7. ASSUME NEW t \in Threads, free_add(t) PROVE NoneLost'
  BY <1>0, <1>7 DEF free_add
<1>8. ASSUME NEW t \in Threads, NEW u \in Threads, NEW b \in held[u], box_free(t, u, b)
      PROVE  NoneLost'
  BY <1>0, <1>8 DEF box_free
<1>9. CASE UNCHANGED vars
  BY <1>9 DEF vars
<1> QED BY <1>1, <1>2, <1>3, <1>4, <1>5, <1>6, <1>7, <1>8, <1>9 DEF Next

(* A header, once complete, stays so. *)
LEMMA HeaderStep ==
  ASSUME TypeOK, ScanInv, HeaderInv, [Next]_vars
  PROVE  HeaderInv'
<1>0. loc \in [Threads -> Locals]
  BY DEF TypeOK, Locals
<1> USE DEF TypeOK, ScanInv, HeaderInv, HeaderComplete, Goto, Leave, Fresh
<1>1. ASSUME NEW t \in Threads, box_alloc(t) PROVE HeaderInv'
  BY <1>0, <1>1 DEF box_alloc
<1>2. ASSUME NEW t \in Threads, alloc_start(t) PROVE HeaderInv'
  BY <1>0, <1>2 DEF alloc_start
<1>3. ASSUME NEW t \in Threads, alloc_scan(t) PROVE HeaderInv'
  BY <1>0, <1>3 DEF alloc_scan
<1>4. ASSUME NEW t \in Threads, alloc_sub(t) PROVE HeaderInv'
  BY <1>0, <1>4 DEF alloc_sub
<1>5. ASSUME NEW t \in Threads, alloc_return(t) PROVE HeaderInv'
  BY <1>0, <1>5 DEF alloc_return
<1>6. ASSUME NEW t \in Threads, alloc_null(t) PROVE HeaderInv'
  BY <1>0, <1>6 DEF alloc_null
<1>7. ASSUME NEW t \in Threads, free_add(t) PROVE HeaderInv'
  BY <1>0, <1>7 DEF free_add
<1>8. ASSUME NEW t \in Threads, NEW u \in Threads, NEW b \in held[u], box_free(t, u, b)
      PROVE  HeaderInv'
  BY <1>0, <1>8 DEF box_free
<1>9. CASE UNCHANGED vars
  BY <1>9 DEF vars
<1> QED BY <1>1, <1>2, <1>3, <1>4, <1>5, <1>6, <1>7, <1>8, <1>9 DEF Next

LEMMA FiniteFacts ==
  /\ IsFiniteSet(Free) /\ Cardinality(Free) \in Nat
  /\ \A l \in PCs : IsFiniteSet(At(l)) /\ Cardinality(At(l)) \in Nat
<1>1. IsFiniteSet(Blocks)
  BY SizeFacts, FS_Interval DEF Blocks
<1>2. Free \subseteq Blocks
  BY DEF Free
<1>3. \A l \in PCs : At(l) \subseteq Threads
  BY DEF At
<1>4. IsFiniteSet(Threads)
  BY MemBoxAssumption
<1>5. IsFiniteSet(Free)
  BY <1>1, <1>2, FS_Subset
<1>6. \A l \in PCs : IsFiniteSet(At(l))
  BY <1>3, <1>4, FS_Subset
<1> QED BY <1>5, <1>6, FS_CardinalityType

(* A call that moves neither the marks nor the two counts keeps the sum. *)
LEMMA SameCount ==
  ASSUME CountAccurate, free_num' = free_num, seq' = seq,
         At("sub")' = At("sub"), At("add")' = At("add")
  PROVE  CountAccurate'
BY DEF CountAccurate, Free

(* The count and the marks part only between a compare-and-swap and the    *)
(* update that follows it, by one for every call that is there.            *)
LEMMA CountStep ==
  ASSUME TypeOK, ScanInv, Exclusive, CountAccurate, [Next]_vars
  PROVE  CountAccurate'
<1>0. pc \in [Threads -> PCs] /\ free_num \in Int /\ seq \in [Blocks -> {0, 1}]
  BY DEF TypeOK
<1>00. /\ IsFiniteSet(Free) /\ Cardinality(Free) \in Nat
       /\ IsFiniteSet(At("sub")) /\ Cardinality(At("sub")) \in Nat
       /\ IsFiniteSet(At("add")) /\ Cardinality(At("add")) \in Nat
  BY FiniteFacts DEF PCs
<1>000. CountAccurate' <=> free_num' = Cardinality(Free') + Cardinality(At("sub")') - Cardinality(At("add")')
  BY DEF CountAccurate
<1> USE DEF Goto, Leave
<1>1. ASSUME NEW t \in Threads, box_alloc(t) PROVE CountAccurate'
  <2>1. At("sub")' = At("sub") /\ At("add")' = At("add")
    BY <1>0, <1>1 DEF box_alloc, At
  <2> QED BY <1>1, <2>1, SameCount DEF box_alloc
<1>2. ASSUME NEW t \in Threads, alloc_start(t) PROVE CountAccurate'
  <2>1. At("sub")' = At("sub") /\ At("add")' = At("add")
    BY <1>0, <1>2 DEF alloc_start, At
  <2> QED BY <1>2, <2>1, SameCount DEF alloc_start
<1>3. ASSUME NEW t \in Threads, alloc_scan(t) PROVE CountAccurate'
  <2>1. Probe(t) \in Blocks
    BY <1>3, ProbeFacts DEF alloc_scan
  <2>2. CASE seq[Probe(t)] = 0
    <3>1. Free' = Free \ {Probe(t)} /\ Probe(t) \in Free
      BY <1>0, <1>3, <2>1, <2>2 DEF alloc_scan, Free
    <3>2. At("sub")' = At("sub") \cup {t} /\ t \notin At("sub") /\ At("add")' = At("add")
      BY <1>0, <1>3, <2>2 DEF alloc_scan, At
    <3>3. Cardinality(Free \ {Probe(t)}) = Cardinality(Free) - 1
      BY <1>00, <3>1, FS_RemoveElement
    <3>4. Cardinality(At("sub") \cup {t}) = Cardinality(At("sub")) + 1
      BY <1>00, <3>2, FS_AddElement
    <3>5. free_num' = free_num
      BY <1>3 DEF alloc_scan
    <3>6. /\ Cardinality(Free') = Cardinality(Free) - 1
          /\ Cardinality(At("sub")') = Cardinality(At("sub")) + 1
          /\ Cardinality(At("add")') = Cardinality(At("add"))
      BY <3>1, <3>2, <3>3, <3>4, Zenon
    <3> QED BY <1>0, <1>00, <1>000, <3>5, <3>6 DEF CountAccurate
  <2>3. CASE seq[Probe(t)] = 1
    <3>1. At("sub")' = At("sub") /\ At("add")' = At("add")
      BY <1>0, <1>3, <2>3 DEF alloc_scan, At
    <3> QED BY <1>3, <2>3, <3>1, SameCount DEF alloc_scan
  <2> QED BY <1>3, <2>2, <2>3 DEF alloc_scan
<1>4. ASSUME NEW t \in Threads, alloc_sub(t) PROVE CountAccurate'
  <2>1. At("sub")' = At("sub") \ {t} /\ t \in At("sub") /\ At("add")' = At("add")
    BY <1>0, <1>4 DEF alloc_sub, At
  <2>2. Cardinality(At("sub") \ {t}) = Cardinality(At("sub")) - 1
    BY <1>00, <2>1, FS_RemoveElement
  <2>3. Free' = Free /\ free_num' = free_num - 1
    BY <1>4 DEF alloc_sub, Free
  <2>4. /\ Cardinality(Free') = Cardinality(Free)
        /\ Cardinality(At("sub")') = Cardinality(At("sub")) - 1
        /\ Cardinality(At("add")') = Cardinality(At("add"))
    BY <2>1, <2>2, <2>3, Zenon
  <2> QED BY <1>0, <1>00, <1>000, <2>3, <2>4 DEF CountAccurate
<1>5. ASSUME NEW t \in Threads, alloc_return(t) PROVE CountAccurate'
  <2>1. At("sub")' = At("sub") /\ At("add")' = At("add")
    BY <1>0, <1>5 DEF alloc_return, At
  <2> QED BY <1>5, <2>1, SameCount DEF alloc_return
<1>6. ASSUME NEW t \in Threads, alloc_null(t) PROVE CountAccurate'
  <2>1. At("sub")' = At("sub") /\ At("add")' = At("add")
    BY <1>0, <1>6 DEF alloc_null, At
  <2> QED BY <1>6, <2>1, SameCount DEF alloc_null
<1>7. ASSUME NEW t \in Threads, free_add(t) PROVE CountAccurate'
  <2>1. At("add")' = At("add") \ {t} /\ t \in At("add") /\ At("sub")' = At("sub")
    BY <1>0, <1>7 DEF free_add, At
  <2>2. Cardinality(At("add") \ {t}) = Cardinality(At("add")) - 1
    BY <1>00, <2>1, FS_RemoveElement
  <2>3. Free' = Free /\ free_num' = free_num + 1
    BY <1>7 DEF free_add, Free
  <2>4. /\ Cardinality(Free') = Cardinality(Free)
        /\ Cardinality(At("sub")') = Cardinality(At("sub"))
        /\ Cardinality(At("add")') = Cardinality(At("add")) - 1
    BY <2>1, <2>2, <2>3, Zenon
  <2> QED BY <1>0, <1>00, <1>000, <2>3, <2>4 DEF CountAccurate
<1>8. ASSUME NEW t \in Threads, NEW u \in Threads, NEW b \in held[u], box_free(t, u, b)
      PROVE  CountAccurate'
  <2>1. b \in Blocks /\ seq[b] = 1
    BY DEF TypeOK, Exclusive, Has
  <2>2. Free' = Free \cup {b} /\ b \notin Free
    BY <1>0, <1>8, <2>1 DEF box_free, Free
  <2>3. At("add")' = At("add") \cup {t} /\ t \notin At("add") /\ At("sub")' = At("sub")
    BY <1>0, <1>8, <2>1 DEF box_free, At
  <2>4. Cardinality(Free \cup {b}) = Cardinality(Free) + 1
    BY <1>00, <2>2, FS_AddElement
  <2>5. Cardinality(At("add") \cup {t}) = Cardinality(At("add")) + 1
    BY <1>00, <2>3, FS_AddElement
  <2>6. free_num' = free_num
    BY <1>8 DEF box_free
  <2>7. /\ Cardinality(Free') = Cardinality(Free) + 1
        /\ Cardinality(At("sub")') = Cardinality(At("sub"))
        /\ Cardinality(At("add")') = Cardinality(At("add")) + 1
    BY <2>2, <2>3, <2>4, <2>5, Zenon
  <2> QED BY <1>0, <1>00, <1>000, <2>6, <2>7 DEF CountAccurate
<1>9. CASE UNCHANGED vars
  BY <1>9, SameCount DEF vars, At
<1> QED BY <1>1, <1>2, <1>3, <1>4, <1>5, <1>6, <1>7, <1>8, <1>9 DEF Next

(* When nobody is between a compare-and-swap and the update of the count,  *)
(* the count is the number of free blocks.                                 *)
LEMMA QuietCount ==
  ASSUME CountAccurate, At("sub") = {}, At("add") = {}
  PROVE  free_num = Cardinality(Free) /\ free_num \in 0 .. block_num
<1>1. Cardinality(At("sub")) = 0 /\ Cardinality(At("add")) = 0
  BY FS_EmptySet
<1>2. Cardinality(Free) \in Nat
  BY FiniteFacts
<1>3. Cardinality(Free) <= block_num
  <2>1. IsFiniteSet(Blocks) /\ Cardinality(Blocks) = block_num
    BY SizeFacts, FS_Interval DEF Blocks
  <2>2. Free \in SUBSET Blocks
    BY DEF Free
  <2>3. Cardinality(Free) <= Cardinality(Blocks)
    BY <2>1, <2>2, FS_Subset
  <2> QED BY <2>1, <2>3
<1> QED BY <1>1, <1>2, <1>3, SizeFacts DEF CountAccurate

(* block_num rounds of the scan look at every block. *)
LEMMA RoundCovers ==
  ASSUME NEW start \in 0 .. block_num, NEW b \in Blocks
  PROVE  \E k \in 0 .. block_num - 1 : (start + k) % block_num = b
<1>0. block_num \in Nat \ {0} /\ b \in 0 .. block_num - 1
  BY SizeFacts DEF Blocks
<1>1. CASE b >= start
  <2>1. b - start \in 0 .. block_num - 1 /\ start + (b - start) = 0 * block_num + b
    BY <1>0, <1>1
  <2>2. (0 * block_num + b) % block_num = b
    BY <1>0, ModUnique
  <2> QED BY <2>1, <2>2
<1>2. CASE b < start
  <2>1. b + block_num - start \in 0 .. block_num - 1
        /\ start + (b + block_num - start) = 1 * block_num + b
    BY <1>0, <1>2
  <2>2. (1 * block_num + b) % block_num = b
    BY <1>0, ModUnique
  <2> QED BY <2>1, <2>2
<1> QED BY <1>0, <1>1, <1>2

(* A call that another one joins is no longer alone. *)
LEMMA JoinedNotAlone ==
  ASSUME TypeOK, NEW t \in Threads, Enter(t), pc[t] = "idle"
  PROVE  \A u \in Threads : alone'[u] =>
           u = t /\ At("sub") = {} /\ At("add") = {} /\ \A v \in Threads \ {t} : pc[v] = "idle"
BY DEF Enter, At

(* The calls that no other overlaps. *)
LEMMA AloneStep ==
  ASSUME TypeOK, ScanInv, Exclusive, CountAccurate, AloneInv, [Next]_vars
  PROVE  AloneInv'
<1>0. loc \in [Threads -> Locals] /\ pc \in [Threads -> PCs] /\ alone \in [Threads -> BOOLEAN]
  BY DEF TypeOK, Locals
<1>01. \A u \in Threads : loc[u].start \in 0 .. Word - 1 /\ loc[u].i \in 0 .. block_num
  BY <1>0, LocalsFacts
<1>1. ASSUME NEW t \in Threads, box_alloc(t) PROVE AloneInv'
  <2>1. \A u \in Threads : alone'[u] => u = t
    BY <1>1, JoinedNotAlone DEF box_alloc
  <2>2. \A u \in Threads \ {t} : pc'[u] = pc[u]
    BY <1>0, <1>1 DEF box_alloc, Goto
  <2>3. pc'[t] = IF free_num % Word = 0 THEN "null" ELSE "start"
    BY <1>0, <1>1 DEF box_alloc, Goto
  <2>4. ASSUME alone'[t] PROVE \A u \in Threads \ {t} : pc'[u] = "idle"
    BY <1>1, <2>2, <2>4, JoinedNotAlone DEF box_alloc
  <2>5. ASSUME alone'[t], pc'[t] = "null" PROVE Free' = {}
    <3>1. At("sub") = {} /\ At("add") = {}
      BY <1>1, <2>5, JoinedNotAlone DEF box_alloc
    <3>2. free_num = Cardinality(Free) /\ free_num \in 0 .. block_num
      BY <3>1, QuietCount
    <3>3. free_num % Word = 0
      BY <2>3, <2>5
    <3>4. free_num = 0
      BY <3>2, <3>3, BlockNumFacts, SizeFacts
    <3>5. Free = {}
      BY <3>2, <3>4, FiniteFacts, FS_EmptySet
    <3> QED BY <1>1, <3>5 DEF box_alloc, Free
  <2> QED BY <2>1, <2>3, <2>4, <2>5 DEF AloneInv
<1>2. ASSUME NEW t \in Threads, alloc_start(t) PROVE AloneInv'
  <2>1. alone' = alone /\ seq' = seq /\ Free' = Free
    BY <1>2 DEF alloc_start, Free
  <2>2. \A u \in Threads \ {t} : pc'[u] = pc[u] /\ ~alone[u]
    BY <1>0, <1>2 DEF alloc_start, Goto, AloneInv
  <2>3. pc'[t] = "scan" /\ loc'[t].i = 0 /\ loc'[t].start = (block_num - free_num) % Word
    BY <1>0, <1>2 DEF alloc_start, Goto, Fresh
  <2>4. ASSUME alone[t] PROVE loc'[t].start <= block_num
    <3>1. At("sub") = {} /\ At("add") = {}
      BY <1>2, <2>4 DEF alloc_start, AloneInv, At
    <3>2. free_num \in 0 .. block_num
      BY <3>1, QuietCount
    <3>3. (0 * Word + (block_num - free_num)) % Word = block_num - free_num
      BY <3>2, BlockNumFacts, SizeFacts, ModUnique
    <3> QED BY <2>3, <3>2, <3>3, SizeFacts
  <2> QED BY <2>1, <2>2, <2>3, <2>4 DEF AloneInv
<1>3. ASSUME NEW t \in Threads, alloc_scan(t) PROVE AloneInv'
  <2>1. \A u \in Threads \ {t} : pc'[u] = pc[u] /\ ~alone[u]
    BY <1>0, <1>3 DEF alloc_scan, Goto, AloneInv
  <2>2. alone' = alone /\ pc[t] = "scan" /\ Probe(t) \in Blocks
    BY <1>3, ProbeFacts DEF alloc_scan
  <2>3. CASE seq[Probe(t)] = 0
    <3>1. pc'[t] = "sub"
      BY <1>0, <1>3, <2>3 DEF alloc_scan, Goto
    <3> QED BY <2>1, <2>2, <3>1 DEF AloneInv
  <2>4. CASE seq[Probe(t)] = 1
    <3>1. seq' = seq /\ loc'[t].start = loc[t].start /\ loc'[t].i = loc[t].i + 1
      BY <1>0, <1>3, <2>4 DEF alloc_scan, Locals
    <3>2. pc'[t] = IF loc[t].i + 1 = block_num THEN "null" ELSE "scan"
      BY <1>0, <1>3, <2>4 DEF alloc_scan, Goto
    <3>3. ASSUME alone[t]
          PROVE  \A k \in 0 .. loc'[t].i - 1 : seq'[(loc'[t].start + k) % block_num] = 1
      <4>1. loc[t].start + loc[t].i \in 0 .. Word - 1
        BY <1>01, <2>2, <3>3, BlockNumFacts, SizeFacts DEF AloneInv, ScanInv
      <4>2. (loc[t].start + loc[t].i) % Word = loc[t].start + loc[t].i
        BY <4>1, SizeFacts, ModUnique
      <4>3. Probe(t) = (loc[t].start + loc[t].i) % block_num
        BY <4>2 DEF Probe
      <4>4. \A k \in 0 .. loc[t].i - 1 : seq[(loc[t].start + k) % block_num] = 1
        BY <2>2, <3>3 DEF AloneInv
      <4>5. \A k \in 0 .. loc'[t].i - 1 : k \in 0 .. loc[t].i - 1 \/ k = loc[t].i
        BY <1>01, <3>1
      <4> QED BY <2>4, <3>1, <4>3, <4>4, <4>5
    <3>4. ASSUME alone[t], pc'[t] = "null" PROVE Free' = {}
      <4>1. loc[t].start \in 0 .. block_num /\ loc'[t].i = block_num
        BY <1>01, <2>2, <3>1, <3>2, <3>4 DEF AloneInv
      <4>2. \A b \in Blocks : seq[b] = 1
        BY <3>1, <3>3, <3>4, <4>1, RoundCovers
      <4> QED BY <3>1, <4>2 DEF Free
    <3>5. ASSUME alone[t] PROVE loc'[t].start <= block_num
      BY <2>2, <3>1, <3>5 DEF AloneInv
    <3>6. ASSUME alone[t] PROVE \A u \in Threads \ {t} : pc'[u] = "idle"
      BY <2>1, <3>6 DEF AloneInv
    <3> QED BY <2>1, <2>2, <3>3, <3>4, <3>5, <3>6 DEF AloneInv
  <2> QED BY <1>3, <2>3, <2>4 DEF alloc_scan
<1>4. ASSUME NEW t \in Threads, alloc_sub(t) PROVE AloneInv'
  BY <1>0, <1>4 DEF alloc_sub, Goto, AloneInv
<1>5. ASSUME NEW t \in Threads, alloc_return(t) PROVE AloneInv'
  BY <1>0, <1>5 DEF alloc_return, Leave, Goto, AloneInv
<1>6. ASSUME NEW t \in Threads, alloc_null(t) PROVE AloneInv'
  BY <1>0, <1>6 DEF alloc_null, Leave, Goto, AloneInv
<1>7. ASSUME NEW t \in Threads, free_add(t) PROVE AloneInv'
  BY <1>0, <1>7 DEF free_add, Leave, Goto, AloneInv
<1>8. ASSUME NEW t \in Threads, NEW u \in Threads, NEW b \in held[u], box_free(t, u, b)
      PROVE  AloneInv'
  <2>1. \A v \in Threads : alone'[v] => v = t
    BY <1>8, JoinedNotAlone DEF box_free
  <2>2. ASSUME alone'[t] PROVE \A v \in Threads \ {t} : pc'[v] = "idle"
    BY <1>0, <1>8, <2>2, JoinedNotAlone DEF box_free, Goto
  <2>3. pc'[t] \notin {"scan", "null"}
    BY <1>0, <1>8 DEF box_free, Goto
  <2> QED BY <2>1, <2>2, <2>3 DEF AloneInv
<1>9. CASE UNCHANGED vars
  BY <1>9 DEF vars, AloneInv, Free
<1> QED BY <1>1, <1>2, <1>3, <1>4, <1>5, <1>6, <1>7, <1>8, <1>9 DEF Next

LEMMA Inductive == IInv /\ [Next]_vars => IInv'
BY TypeStep, ScanStep, OwnerStep, LostStep, HeaderStep, CountStep, AloneStep DEF IInv

LEMMA AlwaysIInv == Spec => []IInv
BY InitIInv, Inductive, PTL DEF Spec

(* Every variable keeps its shape. *)
THEOREM MemBoxTypes == Spec => []TypeOK
<1>1. IInv => TypeOK
  BY DEF IInv
<1> QED BY <1>1, AlwaysIInv, PTL

(* However many threads allocate and free, no block is given out twice.    *)
THEOREM ExclusiveTheorem == Spec => []Exclusive
<1>1. IInv => Exclusive
  BY DEF IInv
<1> QED BY <1>1, AlwaysIInv, PTL

(* No block stays marked used without a thread that has it. *)
THEOREM NoneLostTheorem == Spec => []NoneLost
<1>1. IInv => NoneLost
  BY DEF IInv
<1> QED BY <1>1, AlwaysIInv, PTL

(* free_num is the number of free blocks, but for the calls between their  *)
(* compare-and-swap and their update of it.                                *)
THEOREM CountTheorem == Spec => []CountAccurate
<1>1. IInv => CountAccurate
  BY DEF IInv
<1> QED BY <1>1, AlwaysIInv, PTL

(* box_free finds the pool in the header of the block it counts. *)
THEOREM HeaderTheorem == Spec => []HeaderComplete
<1>1. IInv => HeaderComplete
  BY DEF IInv, HeaderInv
<1> QED BY <1>1, AlwaysIInv, PTL

(* A call that no other overlaps is only refused when every block is used. *)
THEOREM NullTheorem == Spec => []NullWhenFull
<1>1. IInv => NullWhenFull
  BY DEF IInv, AloneInv, NullWhenFull
<1> QED BY <1>1, AlwaysIInv, PTL
=============================================================================
