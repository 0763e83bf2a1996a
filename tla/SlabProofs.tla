------------------------------ MODULE SlabProofs ------------------------------
(***************************************************************************)
(* What the slab allocators keep, for any sizes, limits and sequences of   *)
(* calls.  A list is described by the set of its blocks (IsList); taking   *)
(* and giving a block back remove it from one list and put it at the head  *)
(* of the other.                                                           *)
(***************************************************************************)
EXTENDS Slab, FiniteSetTheorems, TLAPS

(* Every set of natural numbers has a least element: the intervals that    *)
(* begin at 0 are well-founded by inclusion.                               *)
LEMMA Least ==
    ASSUME NEW T \in SUBSET Nat, T # {}
    PROVE  \E k \in T : \A j \in T : k <= j
<1>1. PICK m \in T : TRUE
    OBVIOUS
<1> DEFINE W == {0 .. k : k \in T \cap 0 .. m}
           R == StrictSubsetOrdering(0 .. m)
<1>2. W \subseteq FiniteSubsetsOf(0 .. m) /\ W # {}
    <2>1. IsFiniteSet(0 .. m) /\ \A k \in T \cap 0 .. m : 0 .. k \subseteq 0 .. m
        BY FS_Interval
    <2>2. FiniteSubsetsOf(0 .. m) = SUBSET (0 .. m)
        BY Zenon, <2>1, FS_FiniteSubsetsOfFinite
    <2> QED BY <2>1, <2>2
<1>3. PICK A \in W : \A B \in W : <<B, A>> \notin R
    <2> HIDE DEF W, R
    <2>1. IsWellFoundedOn(R, FiniteSubsetsOf(0 .. m))
        BY Zenon, FS_StrictSubsetOrderingWellFounded DEF R
    <2> QED BY Zenon, <1>2, <2>1, WFMin
<1>4. PICK k \in T \cap 0 .. m : A = 0 .. k
    BY Zenon
<1>5. ASSUME NEW j \in T, j < k
      PROVE  FALSE
    <2>1. 0 .. j \in W
        BY <1>5
    <2>2. 0 .. j \subseteq 0 .. k /\ 0 .. j # 0 .. k /\ 0 .. j \subseteq 0 .. m /\ 0 .. k \subseteq 0 .. m
        BY <1>5
    <2>3. <<0 .. j, 0 .. k>> \in R
        BY Zenon, <2>2, <1>4 DEF StrictSubsetOrdering
    <2> QED BY <1>3, <1>4, <2>1, <2>3
<1> QED BY <1>5

LEMMA NullFact == NULL \notin Block /\ Block \cap {NULL} = {}
BY DEF NULL, Block

-----------------------------------------------------------------------------
(* Lists. *)

(* A list is kept by a change of headers that are not its blocks'. *)
LEMMA ListFrame ==
    ASSUME NEW h, NEW g, NEW S \in SUBSET Block, NEW a, IsList(h, a, S),
           \A c \in S : g.next[c] = h.next[c] /\ g.pre[c] = h.pre[c]
    PROVE  IsList(g, a, S)
<1>1. \A T \in SUBSET S : Closed(g, T) <=> Closed(h, T)
    BY Zenon DEF Closed
<1>2. a # NULL => g.pre[a] = NULL
    BY Zenon DEF IsList
<1>3. \A c \in S : g.next[c] # NULL => g.pre[g.next[c]] = c
    BY DEF IsList, Closed
<1> QED BY Zenon, <1>1, <1>2, <1>3 DEF IsList

(* Every block of a list but the first follows another one, its pre. *)
LEMMA Before ==
    ASSUME NEW h, NEW S \in SUBSET Block, NEW a, IsList(h, a, S), NEW c \in S, c # a
    PROVE  h.pre[c] \in S /\ h.pre[c] # c /\ h.next[h.pre[c]] = c
<1>1. \E d \in S \ {c} : h.next[d] = c
    <2>1. SUFFICES ASSUME \A d \in S \ {c} : h.next[d] # c
                   PROVE  FALSE
        BY Zenon
    <2>2. Closed(h, S \ {c})
        BY Zenon, <2>1 DEF IsList, Closed
    <2>3. a \in (S \ {c}) \cup {NULL}
        BY Zenon DEF IsList
    <2>4. S \ {c} = S
        BY Zenon, <2>2, <2>3 DEF IsList
    <2> QED BY Zenon, <2>4
<1>2. PICK d \in S \ {c} : h.next[d] = c
    BY Zenon, <1>1
<1>3. h.pre[c] = d
    BY Zenon, <1>2, NullFact DEF IsList
<1> QED BY Zenon, <1>2, <1>3

(* b is put in front. *)
LEMMA ListPush ==
    ASSUME NEW h, NEW g, NEW S \in SUBSET Block, NEW a, IsList(h, a, S),
           NEW b \in Block, b \notin S,
           g.next[b] = a, g.pre[b] = NULL, a # NULL => g.pre[a] = b,
           \A c \in S : g.next[c] = h.next[c] /\ (c # a => g.pre[c] = h.pre[c])
    PROVE  IsList(g, b, S \cup {b})
<1>1. Closed(g, S \cup {b})
    BY Zenon DEF IsList, Closed
<1>2. ASSUME NEW T \in SUBSET (S \cup {b}), b \in T, Closed(g, T)
      PROVE  T = S \cup {b}
    <2>1. Closed(h, T \cap S)
        BY Zenon, <1>2 DEF IsList, Closed
    <2>2. a \in (T \cap S) \cup {NULL}
        BY Zenon, <1>2 DEF IsList, Closed
    <2>3. T \cap S = S
        BY Zenon, <2>1, <2>2 DEF IsList
    <2> QED BY Zenon, <1>2, <2>3
<1>3. ASSUME NEW c \in S, h.next[c] # NULL
      PROVE  g.pre[g.next[c]] = c
    <2>1. h.next[c] \in S /\ h.pre[h.next[c]] = c
        BY Zenon, <1>3 DEF IsList, Closed
    <2>2. h.next[c] # a
        BY Zenon, <1>3, <2>1, NullFact DEF IsList
    <2> QED BY Zenon, <2>1, <2>2
<1> QED BY Zenon, <1>1, <1>2, <1>3, NullFact DEF IsList

(* b is taken out, wherever it is. *)
Unlinked(h, g, S, b) ==
    \A c \in S \ {b} : /\ g.next[c] = IF c = h.pre[b] THEN h.next[b] ELSE h.next[c]
                       /\ g.pre[c] = IF c = h.next[b] THEN h.pre[b] ELSE h.pre[c]

First(h, a, b) == IF h.pre[b] = NULL THEN h.next[b] ELSE a

LEMMA ListRemove ==
    ASSUME NEW h, NEW g, NEW S \in SUBSET Block, NEW a, IsList(h, a, S), NEW b \in S, Unlinked(h, g, S, b)
    PROVE  IsList(g, First(h, a, b), S \ {b})
<1> DEFINE r == h.pre[b]
           n == h.next[b]
           e == First(h, a, b)
<1> USE DEF Unlinked, First
<1>0. /\ n \in S \cup {NULL} /\ a \in S /\ h.pre[a] = NULL /\ NULL \notin S
      /\ \A c \in S : h.next[c] \in S \cup {NULL} /\ (h.next[c] # NULL => h.pre[h.next[c]] = c)
    BY NullFact DEF IsList, Closed
<1>1. (r = NULL <=> b = a) /\ (b # a => r \in S /\ r # b /\ h.next[r] = b)
    BY Zenon, <1>0, Before
<1>2. n # b
    BY <1>0, <1>1
<1>3. \A c \in S : h.next[c] = b => c = r
    BY <1>0
<1>4. e \in (S \ {b}) \cup {NULL}
    BY Zenon, <1>0, <1>1, <1>2
<1>5. Closed(g, S \ {b})
    BY Zenon, <1>0, <1>1, <1>2, <1>3 DEF Closed
<1>6. ASSUME NEW T \in SUBSET (S \ {b}), e \in T \cup {NULL}, Closed(g, T)
      PROVE  T = S \ {b}
    <2>1. CASE b = a
        <3>1. Closed(h, T \cup {b})
            BY <1>0, <1>1, <1>6, <2>1 DEF Closed
        <3>2. T \cup {b} = S
            BY Zenon, <2>1, <3>1 DEF IsList
        <3> QED BY Zenon, <3>2
    <2>2. CASE b # a
        <3>1. a \in T
            BY Zenon, <1>0, <1>1, <1>6, <2>2
        <3>2. r \in T
            <4>1. SUFFICES ASSUME r \notin T
                           PROVE  FALSE
                BY Zenon
            <4>2. Closed(h, T)
                BY Zenon, <1>6, <4>1 DEF Closed
            <4>3. T = S
                BY Zenon, <3>1, <4>2 DEF IsList
            <4> QED BY Zenon, <4>3
        <3>3. n \in T \cup {NULL}
            BY Zenon, <1>1, <1>6, <2>2, <3>2 DEF Closed
        <3>4. Closed(h, T \cup {b})
            BY Zenon, <1>1, <1>6, <2>2, <3>3 DEF Closed
        <3>5. T \cup {b} = S
            BY Zenon, <3>1, <3>4 DEF IsList
        <3> QED BY <3>5
    <2> QED BY Zenon, <2>1, <2>2
<1>7. e # NULL => g.pre[e] = NULL
    BY Zenon, <1>0, <1>1, <1>2, <1>4
<1>8. ASSUME NEW c \in S \ {b}, g.next[c] # NULL
      PROVE  g.pre[g.next[c]] = c
    <2>1. CASE c = r
        BY Zenon, <1>0, <1>1, <1>2, <1>8, <2>1
    <2>2. CASE c # r
        BY <1>0, <1>3, <1>8, <2>2
    <2> QED BY Zenon, <2>1, <2>2
<1> QED BY Zenon, <1>4, <1>5, <1>6, <1>7, <1>8 DEF IsList

-----------------------------------------------------------------------------
(* Heaps. *)

Heaps == [length : Seq(Nat), slots : Seq(1 .. MaxSlots),
          freehead : Seq(Block \cup {NULL}), usedhead : Seq(Block \cup {NULL}),
          pre : [Block -> Block \cup {NULL}], next : [Block -> Block \cup {NULL}]]

(* What is not in a pool yet is cleared. *)
HeapOK(h) ==
    /\ h \in Heaps
    /\ Len(h.slots) <= MaxPools
    /\ Len(h.length) = Len(h.slots) /\ Len(h.freehead) = Len(h.slots) /\ Len(h.usedhead) = Len(h.slots)
    /\ \A b \in Block : b[1] > Len(h.slots) => h.pre[b] = NULL /\ h.next[b] = NULL

LEMMA BlocksFacts ==
    ASSUME NEW h, HeapOK(h)
    PROVE  /\ Pools(h) = 1 .. Len(h.slots) /\ Pools(h) \subseteq 1 .. MaxPools
           /\ \A p \in Pools(h) : h.slots[p] \in 1 .. MaxSlots
           /\ \A p \in Pools(h) : BlocksOf(h, p) \in SUBSET Block
           /\ \A p \in Pools(h) : \A b \in BlocksOf(h, p) : b[1] = p
           /\ \A p, q \in Pools(h) : p # q => BlocksOf(h, p) \cap BlocksOf(h, q) = {}
<1>1. Pools(h) = 1 .. Len(h.slots) /\ Pools(h) \subseteq 1 .. MaxPools
    BY SlabAssumption DEF HeapOK, Heaps, Pools
<1>2. \A p \in Pools(h) : h.slots[p] \in 1 .. MaxSlots
    <2>1. h.slots \in Seq(1 .. MaxSlots)
        BY Zenon DEF HeapOK, Heaps
    <2> QED BY <1>1, <2>1, SlabAssumption
<1>3. \A p \in Pools(h) : BlocksOf(h, p) \in SUBSET Block
    BY <1>1, <1>2, SlabAssumption DEF BlocksOf, Block
<1> QED BY Zenon, <1>1, <1>2, <1>3 DEF BlocksOf

LEMMA SeqPut ==
    ASSUME NEW X, NEW s \in Seq(X), NEW i \in 1 .. Len(s), NEW x \in X
    PROVE  /\ [s EXCEPT ![i] = x] \in Seq(X) /\ Len([s EXCEPT ![i] = x]) = Len(s)
           /\ \A j \in 1 .. Len(s) : [s EXCEPT ![i] = x][j] = IF j = i THEN x ELSE s[j]
OBVIOUS

LEMMA SetFacts ==
    ASSUME NEW f \in [Block -> Block \cup {NULL}], NEW b \in Block \cup {NULL}, NEW c \in Block \cup {NULL}
    PROVE  /\ Set(f, b, c) \in [Block -> Block \cup {NULL}]
           /\ \A x \in Block : Set(f, b, c)[x] = IF x = b THEN c ELSE f[x]
BY Zenon, NullFact DEF Set

(* What a pool's heads and headers point to. *)
LEMMA HeapFacts ==
    ASSUME NEW h, HeapOK(h), NEW H, Exact(h, H), NEW p \in Pools(h)
    PROVE  /\ h.freehead[p] \in (BlocksOf(h, p) \ H) \cup {NULL}
           /\ h.usedhead[p] \in (BlocksOf(h, p) \cap H) \cup {NULL}
           /\ \A b \in BlocksOf(h, p) \ H : h.next[b] \in (BlocksOf(h, p) \ H) \cup {NULL}
           /\ \A b \in BlocksOf(h, p) \cap H : h.next[b] \in (BlocksOf(h, p) \cap H) \cup {NULL}
BY Zenon DEF Exact, IsList, Closed

(* The fields of the heap after a block has been taken. *)
LEMMA TakeFields ==
    ASSUME NEW h, HeapOK(h), NEW p \in Pools(h), NEW b \in Block, b = h.freehead[p],
           NEW f \in Block \cup {NULL}, f = h.next[b], NEW u \in Block \cup {NULL}, u = h.usedhead[p]
    PROVE  LET g == take(h, p) IN
           /\ g \in Heaps /\ g.length = h.length /\ g.slots = h.slots
           /\ Len(g.freehead) = Len(h.freehead) /\ Len(g.usedhead) = Len(h.usedhead)
           /\ \A q \in Pools(h) : /\ g.freehead[q] = IF q = p THEN f ELSE h.freehead[q]
                                  /\ g.usedhead[q] = IF q = p THEN b ELSE h.usedhead[q]
           /\ \A c \in Block : g.next[c] = IF c = b THEN u ELSE h.next[c]
           /\ \A c \in Block : g.pre[c] = IF c = b THEN NULL ELSE IF c = u THEN b
                                          ELSE IF c = f THEN NULL ELSE h.pre[c]
<1> DEFINE g == take(h, p)
           ff == [h.freehead EXCEPT ![p] = f]
           uu == [h.usedhead EXCEPT ![p] = b]
           nn == [h.next EXCEPT ![b] = u]
           s1 == Set(h.pre, f, NULL)
           s2 == Set(s1, u, b)
           s3 == Set(s2, b, NULL)
<1>0. /\ h \in Heaps /\ h.pre \in [Block -> Block \cup {NULL}] /\ h.next \in [Block -> Block \cup {NULL}]
      /\ h.freehead \in Seq(Block \cup {NULL}) /\ h.usedhead \in Seq(Block \cup {NULL})
      /\ p \in 1 .. Len(h.freehead) /\ p \in 1 .. Len(h.usedhead)
    BY BlocksFacts DEF HeapOK, Heaps
<1>1. g = [h EXCEPT !.freehead = ff, !.usedhead = uu, !.next = nn, !.pre = s3]
    BY Zenon, <1>0 DEF take, Heaps
<1>2. /\ s1 \in [Block -> Block \cup {NULL}] /\ \A x \in Block : s1[x] = IF x = f THEN NULL ELSE h.pre[x]
    BY Zenon, <1>0, NullFact DEF Set
<1> HIDE DEF s1
<1>3. /\ s2 \in [Block -> Block \cup {NULL}] /\ \A x \in Block : s2[x] = IF x = u THEN b ELSE s1[x]
    BY SMTT(30), <1>2, SetFacts
<1> HIDE DEF s2
<1>4. /\ s3 \in [Block -> Block \cup {NULL}] /\ \A x \in Block : s3[x] = IF x = b THEN NULL ELSE s2[x]
    BY Zenon, <1>3, NullFact DEF Set
<1> HIDE DEF s3
<1>5. /\ ff \in Seq(Block \cup {NULL}) /\ uu \in Seq(Block \cup {NULL})
      /\ nn \in [Block -> Block \cup {NULL}]
      /\ \A c \in Block : nn[c] = IF c = b THEN u ELSE h.next[c]
    BY Zenon, <1>0, SeqPut
<1>6. /\ Len(ff) = Len(h.freehead) /\ \A q \in 1 .. Len(h.freehead) : ff[q] = IF q = p THEN f ELSE h.freehead[q]
      /\ Len(uu) = Len(h.usedhead) /\ \A q \in 1 .. Len(h.usedhead) : uu[q] = IF q = p THEN b ELSE h.usedhead[q]
    BY <1>0, SeqPut
<1> HIDE DEF ff, uu, nn
<1>7. /\ g.length = h.length /\ g.slots = h.slots
      /\ g.freehead = ff /\ g.usedhead = uu /\ g.next = nn /\ g.pre = s3
    BY Zenon, <1>0, <1>1 DEF Heaps
<1>8. g \in Heaps
    BY <1>0, <1>1, <1>4, <1>5 DEF Heaps
<1> HIDE DEF g
<1>9. \A c \in Block : g.pre[c] = IF c = b THEN NULL ELSE IF c = u THEN b
                                  ELSE IF c = f THEN NULL ELSE h.pre[c]
    BY Zenon, <1>2, <1>3, <1>4, <1>7
<1>10. \A q \in Pools(h) : q \in 1 .. Len(h.freehead) /\ q \in 1 .. Len(h.usedhead)
    BY Zenon, BlocksFacts DEF HeapOK
<1> QED BY Zenon, <1>5, <1>6, <1>7, <1>8, <1>9, <1>10 DEF g

(* g has the pools of h, and differs from it in pool p at most. *)
OnlyAt(h, g, p) ==
    /\ g.slots = h.slots
    /\ \A c \in Block \ BlocksOf(h, p) : g.next[c] = h.next[c] /\ g.pre[c] = h.pre[c]
    /\ \A q \in Pools(h) \ {p} : g.usedhead[q] = h.usedhead[q] /\ g.freehead[q] = h.freehead[q]

(* A step on one pool leaves the lists of the others as they are. *)
LEMMA OnePool ==
    ASSUME NEW h, HeapOK(h), NEW H, Exact(h, H), NEW p \in Pools(h), NEW g, NEW K,
           OnlyAt(h, g, p), K \subseteq H \cup BlocksOf(h, p), H \subseteq K \cup BlocksOf(h, p),
           IsList(g, g.usedhead[p], BlocksOf(h, p) \cap K),
           IsList(g, g.freehead[p], BlocksOf(h, p) \ K)
    PROVE  Exact(g, K)
<1>1. Pools(g) = Pools(h) /\ \A q \in Pools(h) : BlocksOf(g, q) = BlocksOf(h, q)
    BY Zenon DEF OnlyAt, Pools, BlocksOf
<1>2. ASSUME NEW q \in Pools(h), q # p
      PROVE  /\ IsList(g, g.usedhead[q], BlocksOf(h, q) \cap K)
             /\ IsList(g, g.freehead[q], BlocksOf(h, q) \ K)
    <2>1. BlocksOf(h, q) \in SUBSET Block /\ BlocksOf(h, q) \cap BlocksOf(h, p) = {}
        BY Zenon, <1>2, BlocksFacts
    <2>2. \A c \in BlocksOf(h, q) : g.next[c] = h.next[c] /\ g.pre[c] = h.pre[c]
        BY Zenon, <2>1 DEF OnlyAt
    <2>3. BlocksOf(h, q) \cap K = BlocksOf(h, q) \cap H /\ BlocksOf(h, q) \ K = BlocksOf(h, q) \ H
        BY Zenon, <2>1
    <2>4. IsList(h, g.usedhead[q], BlocksOf(h, q) \cap H) /\ IsList(h, g.freehead[q], BlocksOf(h, q) \ H)
        BY <1>2 DEF Exact, OnlyAt
    <2>5. IsList(g, g.usedhead[q], BlocksOf(h, q) \cap H)
        BY Zenon, <2>1, <2>2, <2>4, ListFrame
    <2>6. IsList(g, g.freehead[q], BlocksOf(h, q) \ H)
        BY Zenon, <2>1, <2>2, <2>4, ListFrame
    <2> QED BY Zenon, <2>3, <2>5, <2>6
<1>3. \A q \in Pools(h) : /\ IsList(g, g.usedhead[q], BlocksOf(h, q) \cap K)
                          /\ IsList(g, g.freehead[q], BlocksOf(h, q) \ K)
    BY <1>2
<1>4. K \subseteq UNION {BlocksOf(h, q) : q \in Pools(h)}
    BY Zenon DEF Exact
<1>5. K \subseteq UNION {BlocksOf(g, q) : q \in Pools(g)}
    BY Zenon, <1>1, <1>4
<1> QED BY <1>1, <1>3, <1>5 DEF Exact

(* The first free block of a pool becomes a used one. *)
LEMMA TakeHeap ==
    ASSUME NEW h, HeapOK(h), NEW H, Exact(h, H), NEW p \in Pools(h), NEW b, b = h.freehead[p], b # NULL
    PROVE  LET g == take(h, p) IN
           /\ b \in BlocksOf(h, p) \ H
           /\ HeapOK(g) /\ Exact(g, H \cup {b})
           /\ g.slots = h.slots /\ g.length = h.length
<1> DEFINE g == take(h, p)
           B == BlocksOf(h, p)
           f == h.next[b]
           u == h.usedhead[p]
<1>0. /\ b \in B \ H /\ f \in (B \ H) \cup {NULL} /\ u \in (B \cap H) \cup {NULL}
      /\ B \in SUBSET Block /\ h.pre[b] = NULL /\ NULL \notin Block
      /\ IsList(h, u, B \cap H) /\ IsList(h, b, B \ H)
    <2>1. b \in B \ H
        BY Zenon, HeapFacts
    <2>2. IsList(h, u, B \cap H) /\ IsList(h, b, B \ H)
        BY Zenon DEF Exact
    <2>3. f \in (B \ H) \cup {NULL} /\ u \in (B \cap H) \cup {NULL} /\ h.pre[b] = NULL
        BY Zenon, <2>1, <2>2, HeapFacts DEF IsList
    <2> QED BY Zenon, <2>1, <2>2, <2>3, BlocksFacts, NullFact
<1>1. /\ g \in Heaps /\ g.length = h.length /\ g.slots = h.slots
      /\ Len(g.freehead) = Len(h.freehead) /\ Len(g.usedhead) = Len(h.usedhead)
      /\ \A q \in Pools(h) : /\ g.freehead[q] = IF q = p THEN f ELSE h.freehead[q]
                             /\ g.usedhead[q] = IF q = p THEN b ELSE h.usedhead[q]
      /\ \A c \in Block : g.next[c] = IF c = b THEN u ELSE h.next[c]
      /\ \A c \in Block : g.pre[c] = IF c = b THEN NULL ELSE IF c = u THEN b
                                     ELSE IF c = f THEN NULL ELSE h.pre[c]
    <2>1. b \in Block /\ f \in Block \cup {NULL} /\ u \in Block \cup {NULL}
        BY Zenon, <1>0
    <2> QED BY <2>1, TakeFields
<1> HIDE DEF g, f, u
<1>2. \A c \in Block : c[1] > Len(h.slots) => c # b /\ c # f /\ c # u
    BY <1>0, BlocksFacts
<1>3. HeapOK(g)
    BY Zenon, <1>1, <1>2 DEF HeapOK
<1>4. IsList(g, f, (B \ H) \ {b})
    <2> DEFINE S == B \ H
    <2>1. S \in SUBSET Block /\ b \in S /\ IsList(h, b, S)
        BY Zenon, <1>0
    <2>2. Unlinked(h, g, S, b)
        BY <1>0, <1>1 DEF Unlinked, f
    <2>3. First(h, b, b) = f
        BY Zenon, <1>0 DEF First, f
    <2> HIDE DEF S
    <2>4. IsList(g, First(h, b, b), S \ {b})
        BY Zenon, <2>1, <2>2, ListRemove
    <2> QED BY Zenon, <2>3, <2>4 DEF S
<1>5. IsList(g, b, (B \cap H) \cup {b})
    <2>1. g.next[b] = u /\ g.pre[b] = NULL /\ (u # NULL => g.pre[u] = b)
        BY Zenon, <1>0, <1>1
    <2>2. \A c \in B \cap H : g.next[c] = h.next[c] /\ (c # u => g.pre[c] = h.pre[c])
        BY Zenon, <1>0, <1>1
    <2>3. (B \cap H) \in SUBSET Block /\ b \in Block /\ b \notin B \cap H
        BY Zenon, <1>0
    <2> HIDE DEF B
    <2> QED BY <1>0, <2>1, <2>2, <2>3, ListPush
<1>6. B \cap (H \cup {b}) = (B \cap H) \cup {b} /\ B \ (H \cup {b}) = (B \ H) \ {b}
    BY Zenon, <1>0
<1>7. IsList(g, g.usedhead[p], B \cap (H \cup {b})) /\ IsList(g, g.freehead[p], B \ (H \cup {b}))
    BY <1>1, <1>4, <1>5, <1>6
<1>8. \A c \in Block \ B : g.next[c] = h.next[c] /\ g.pre[c] = h.pre[c]
    BY <1>0, <1>1
<1>9. \A q \in Pools(h) \ {p} : g.usedhead[q] = h.usedhead[q] /\ g.freehead[q] = h.freehead[q]
    BY Zenon, <1>1
<1>10. Exact(g, H \cup {b})
    <2> DEFINE K == H \cup {b}
    <2>1. K \subseteq H \cup B /\ H \subseteq K \cup B
        BY Zenon, <1>0
    <2>2. OnlyAt(h, g, p)
        BY Zenon, <1>1, <1>8, <1>9 DEF OnlyAt
    <2>3. IsList(g, g.usedhead[p], B \cap K) /\ IsList(g, g.freehead[p], B \ K)
        BY Zenon, <1>7
    <2> HIDE DEF K
    <2>4. Exact(g, K)
        BY SMTT(30), <2>1, <2>2, <2>3, OnePool
    <2> QED BY Zenon, <2>4 DEF K
<1> QED BY Zenon, <1>0, <1>1, <1>3, <1>10 DEF g

(* The fields of the heap after a block has been given back. *)
LEMMA GiveFields ==
    ASSUME NEW h, HeapOK(h), NEW b \in Block, NEW p \in Pools(h), p = b[1],
           NEW r \in Block \cup {NULL}, r = h.pre[b], NEW n \in Block \cup {NULL}, n = h.next[b],
           NEW f \in Block \cup {NULL}, f = h.freehead[p],
           NEW e \in Block \cup {NULL}, e = IF r = NULL THEN n ELSE h.usedhead[p]
    PROVE  LET g == give(h, b) IN
           /\ g \in Heaps /\ g.length = h.length /\ g.slots = h.slots
           /\ Len(g.freehead) = Len(h.freehead) /\ Len(g.usedhead) = Len(h.usedhead)
           /\ \A q \in Pools(h) : /\ g.freehead[q] = IF q = p THEN b ELSE h.freehead[q]
                                  /\ g.usedhead[q] = IF q = p THEN e ELSE h.usedhead[q]
           /\ \A c \in Block : g.next[c] = IF c = b THEN f ELSE IF c = r THEN n ELSE h.next[c]
           /\ \A c \in Block : g.pre[c] = IF c = b THEN NULL ELSE IF c = f THEN b
                                          ELSE IF c = n THEN r ELSE h.pre[c]
<1> DEFINE g == give(h, b)
           ff == [h.freehead EXCEPT ![p] = b]
           uu == [h.usedhead EXCEPT ![p] = e]
           n1 == Set(h.next, r, n)
           n2 == Set(n1, b, f)
           s1 == Set(h.pre, n, r)
           s2 == Set(s1, f, b)
           s3 == Set(s2, b, NULL)
<1>0. /\ h \in Heaps /\ h.pre \in [Block -> Block \cup {NULL}] /\ h.next \in [Block -> Block \cup {NULL}]
      /\ h.freehead \in Seq(Block \cup {NULL}) /\ h.usedhead \in Seq(Block \cup {NULL})
      /\ p \in 1 .. Len(h.freehead) /\ p \in 1 .. Len(h.usedhead)
    BY Zenon, BlocksFacts DEF HeapOK, Heaps
<1>1. g = [h EXCEPT !.usedhead = uu, !.freehead = ff, !.next = n2, !.pre = s3]
    BY Zenon, <1>0 DEF give, Heaps
<1>2. /\ s1 \in [Block -> Block \cup {NULL}] /\ \A x \in Block : s1[x] = IF x = n THEN r ELSE h.pre[x]
      /\ n1 \in [Block -> Block \cup {NULL}] /\ \A x \in Block : n1[x] = IF x = r THEN n ELSE h.next[x]
    BY Zenon, <1>0, NullFact DEF Set
<1> HIDE DEF s1, n1
<1>3. /\ s2 \in [Block -> Block \cup {NULL}] /\ \A x \in Block : s2[x] = IF x = f THEN b ELSE s1[x]
      /\ n2 \in [Block -> Block \cup {NULL}] /\ \A x \in Block : n2[x] = IF x = b THEN f ELSE n1[x]
    BY Zenon, <1>2, NullFact DEF Set
<1> HIDE DEF s2, n2
<1>4. /\ s3 \in [Block -> Block \cup {NULL}] /\ \A x \in Block : s3[x] = IF x = b THEN NULL ELSE s2[x]
    BY Zenon, <1>3, NullFact DEF Set
<1> HIDE DEF s3
<1>5. ff \in Seq(Block \cup {NULL}) /\ uu \in Seq(Block \cup {NULL})
    BY Zenon, <1>0, SeqPut
<1>6. /\ Len(ff) = Len(h.freehead) /\ \A q \in 1 .. Len(h.freehead) : ff[q] = IF q = p THEN b ELSE h.freehead[q]
      /\ Len(uu) = Len(h.usedhead) /\ \A q \in 1 .. Len(h.usedhead) : uu[q] = IF q = p THEN e ELSE h.usedhead[q]
    BY <1>0, SeqPut
<1> HIDE DEF ff, uu
<1>7. /\ g.length = h.length /\ g.slots = h.slots
      /\ g.freehead = ff /\ g.usedhead = uu /\ g.next = n2 /\ g.pre = s3
    BY Zenon, <1>0, <1>1 DEF Heaps
<1>8. g \in Heaps
    BY <1>0, <1>1, <1>3, <1>4, <1>5 DEF Heaps
<1> HIDE DEF g
<1>9. /\ \A c \in Block : g.next[c] = IF c = b THEN f ELSE IF c = r THEN n ELSE h.next[c]
      /\ \A c \in Block : g.pre[c] = IF c = b THEN NULL ELSE IF c = f THEN b
                                     ELSE IF c = n THEN r ELSE h.pre[c]
    BY <1>2, <1>3, <1>4, <1>7
<1>10. \A q \in Pools(h) : q \in 1 .. Len(h.freehead) /\ q \in 1 .. Len(h.usedhead)
    BY Zenon, BlocksFacts DEF HeapOK
<1> QED BY Zenon, <1>6, <1>7, <1>8, <1>9, <1>10 DEF g

(* A used block becomes the first free one of its pool. *)
LEMMA GiveHeap ==
    ASSUME NEW h, HeapOK(h), NEW H, Exact(h, H), NEW b \in H
    PROVE  LET g == give(h, b) IN
           /\ HeapOK(g) /\ Exact(g, H \ {b})
           /\ g.slots = h.slots /\ g.length = h.length
<1> DEFINE g == give(h, b)
           p == b[1]
           B == BlocksOf(h, p)
           r == h.pre[b]
           n == h.next[b]
           f == h.freehead[p]
           u == h.usedhead[p]
           e == First(h, u, b)
<1>0. p \in Pools(h) /\ b \in B
    BY BlocksFacts DEF Exact
<1>1. /\ n \in (B \cap H) \cup {NULL} /\ f \in (B \ H) \cup {NULL} /\ u \in (B \cap H) \cup {NULL}
      /\ B \in SUBSET Block /\ NULL \notin Block /\ IsList(h, u, B \cap H) /\ IsList(h, f, B \ H)
    BY <1>0, HeapFacts, BlocksFacts, NullFact DEF Exact
<1>2. r \in (B \cap H) \cup {NULL}
    <2>1. CASE b = u
        BY Zenon, <1>0, <1>1, <2>1 DEF IsList
    <2>2. CASE b # u
        <3> DEFINE S == B \cap H
        <3>1. S \in SUBSET Block /\ b \in S /\ IsList(h, u, S)
            BY Zenon, <1>0, <1>1
        <3> HIDE DEF S, u
        <3>2. h.pre[b] \in S
            BY Zenon, <2>2, <3>1, Before
        <3> QED BY Zenon, <3>2 DEF S
    <2> QED BY Zenon, <2>1, <2>2
<1>3. e \in (B \cap H) \cup {NULL}
    BY Zenon, <1>1, <1>2 DEF First
<1>4. /\ g \in Heaps /\ g.length = h.length /\ g.slots = h.slots
      /\ Len(g.freehead) = Len(h.freehead) /\ Len(g.usedhead) = Len(h.usedhead)
      /\ \A q \in Pools(h) : /\ g.freehead[q] = IF q = p THEN b ELSE h.freehead[q]
                             /\ g.usedhead[q] = IF q = p THEN e ELSE h.usedhead[q]
      /\ \A c \in Block : g.next[c] = IF c = b THEN f ELSE IF c = r THEN n ELSE h.next[c]
      /\ \A c \in Block : g.pre[c] = IF c = b THEN NULL ELSE IF c = f THEN b
                                     ELSE IF c = n THEN r ELSE h.pre[c]
    <2>1. /\ b \in Block /\ r \in Block \cup {NULL} /\ n \in Block \cup {NULL}
          /\ f \in Block \cup {NULL} /\ e \in Block \cup {NULL}
        BY Zenon, <1>0, <1>1, <1>2, <1>3
    <2>2. e = IF r = NULL THEN n ELSE h.usedhead[p]
        BY Zenon DEF First
    <2> HIDE DEF e
    <2> QED BY <1>0, <2>1, <2>2, GiveFields
<1> HIDE DEF g, e, p
<1>5. \A c \in Block : c[1] > Len(h.slots) => c # b /\ c # f /\ c # n /\ c # r
    BY <1>0, <1>1, <1>2, BlocksFacts
<1>6. HeapOK(g)
    BY Zenon, <1>4, <1>5 DEF HeapOK
<1>7. IsList(g, e, (B \cap H) \ {b})
    <2> DEFINE S == B \cap H
    <2>1. S \in SUBSET Block /\ b \in S /\ IsList(h, u, S)
        BY Zenon, <1>0, <1>1
    <2>2. Unlinked(h, g, S, b)
        BY Zenon, <1>0, <1>1, <1>4 DEF Unlinked
    <2> HIDE DEF S, u
    <2>3. IsList(g, First(h, u, b), S \ {b})
        BY Zenon, <2>1, <2>2, ListRemove
    <2> QED BY Zenon, <2>3 DEF S, e
<1>8. IsList(g, b, (B \ H) \cup {b})
    <2>1. g.next[b] = f /\ g.pre[b] = NULL /\ (f # NULL => g.pre[f] = b)
        BY Zenon, <1>0, <1>1, <1>4
    <2>2. \A c \in B \ H : g.next[c] = h.next[c] /\ (c # f => g.pre[c] = h.pre[c])
        BY <1>0, <1>1, <1>2, <1>4
    <2>3. (B \ H) \in SUBSET Block /\ b \in Block /\ b \notin B \ H
        BY Zenon, <1>0, <1>1
    <2> HIDE DEF B, f
    <2> QED BY <1>1, <2>1, <2>2, <2>3, ListPush
<1>9. B \cap (H \ {b}) = (B \cap H) \ {b} /\ B \ (H \ {b}) = (B \ H) \cup {b}
    BY Zenon, <1>0
<1>10. IsList(g, g.usedhead[p], B \cap (H \ {b})) /\ IsList(g, g.freehead[p], B \ (H \ {b}))
    BY <1>0, <1>4, <1>7, <1>8, <1>9
<1>11. \A c \in Block \ B : g.next[c] = h.next[c] /\ g.pre[c] = h.pre[c]
    BY <1>0, <1>1, <1>2, <1>4
<1>12. \A q \in Pools(h) \ {p} : g.usedhead[q] = h.usedhead[q] /\ g.freehead[q] = h.freehead[q]
    BY Zenon, <1>4
<1>13. Exact(g, H \ {b})
    <2> DEFINE K == H \ {b}
    <2>1. K \subseteq H \cup B /\ H \subseteq K \cup B
        BY Zenon, <1>0
    <2>2. OnlyAt(h, g, p)
        BY Zenon, <1>4, <1>11, <1>12 DEF OnlyAt
    <2>3. IsList(g, g.usedhead[p], B \cap K) /\ IsList(g, g.freehead[p], B \ K)
        BY Zenon, <1>10
    <2> HIDE DEF K
    <2>4. Exact(g, K)
        BY <1>0, <2>1, <2>2, <2>3, OnePool
    <2> QED BY Zenon, <2>4 DEF K
<1> QED BY Zenon, <1>4, <1>6, <1>13 DEF g

(* A sequence with one element more. *)
LEMMA SeqAdd ==
    ASSUME NEW X, NEW s \in Seq(X), NEW x \in X
    PROVE  /\ Append(s, x) \in Seq(X) /\ Len(Append(s, x)) = Len(s) + 1
           /\ Append(s, x)[Len(s) + 1] = x
           /\ \A j \in 1 .. Len(s) : Append(s, x)[j] = s[j]
OBVIOUS

(* The blocks of a new pool: one at least. *)
Slots(l, ul) == IF Laid(l, ul) = 0 THEN 1 ELSE Laid(l, ul)

(* The blocks of pool p are linked in order. *)
Chain(g, p, n) ==
    \A k \in 1 .. n : /\ k = n => g.next[<<p, k>>] = NULL
                      /\ k # n => g.next[<<p, k>>] = <<p, k + 1>>
                      /\ k = 1 => g.pre[<<p, k>>] = NULL
                      /\ k # 1 => g.pre[<<p, k>>] = <<p, k - 1>>

(* g is h with pool p, of length l and n blocks, added. *)
Added(h, g, p, l, n) ==
    /\ HeapOK(g) /\ Len(g.slots) = p
    /\ g.slots[p] = n /\ g.length[p] = l /\ g.freehead[p] = <<p, 1>> /\ g.usedhead[p] = NULL
    /\ \A q \in Pools(h) : /\ g.slots[q] = h.slots[q] /\ g.length[q] = h.length[q]
                           /\ g.freehead[q] = h.freehead[q] /\ g.usedhead[q] = h.usedhead[q]
    /\ \A c \in Block : c[1] # p => g.next[c] = h.next[c] /\ g.pre[c] = h.pre[c]
    /\ Chain(g, p, n)

(* The fields of the heap after a pool of n blocks has been added. *)
LEMMA InitFields ==
    ASSUME NEW h, HeapOK(h), NEW p \in 1 .. MaxPools, p = Len(h.slots) + 1,
           NEW l \in Nat, NEW ul, NEW n \in 1 .. MaxSlots, n = Slots(l, ul)
    PROVE  Added(h, init_memblock(h, l, ul), p, l, n)
<1> DEFINE g == init_memblock(h, l, ul)
           pp == [b \in Block |-> IF b[1] = p /\ b[2] \in 2 .. n THEN <<p, b[2] - 1>> ELSE h.pre[b]]
           nn == [b \in Block |-> IF b[1] = p /\ b[2] \in 1 .. n - 1 THEN <<p, b[2] + 1>> ELSE h.next[b]]
           ff == Append(h.freehead, <<p, 1>>)
           uu == Append(h.usedhead, NULL)
           ss == Append(h.slots, n)
           ll == Append(h.length, l)
<1>0. /\ h.pre \in [Block -> Block \cup {NULL}] /\ h.next \in [Block -> Block \cup {NULL}]
      /\ h.freehead \in Seq(Block \cup {NULL}) /\ h.usedhead \in Seq(Block \cup {NULL})
      /\ h.slots \in Seq(1 .. MaxSlots) /\ h.length \in Seq(Nat)
      /\ Len(h.length) = Len(h.slots) /\ Len(h.freehead) = Len(h.slots) /\ Len(h.usedhead) = Len(h.slots)
      /\ \A b \in Block : b[1] > Len(h.slots) => h.pre[b] = NULL /\ h.next[b] = NULL
    BY Zenon DEF HeapOK, Heaps
<1>1. g = [length |-> ll, slots |-> ss, freehead |-> ff, usedhead |-> uu, pre |-> pp, next |-> nn]
    BY Zenon DEF init_memblock, Slots
<1>2. /\ n \in Nat /\ <<p, 1>> \in Block /\ \A k \in 1 .. n : <<p, k>> \in Block
    BY SMTT(30), SlabAssumption DEF Block
<1>3. /\ ll \in Seq(Nat) /\ Len(ll) = p /\ ll[p] = l /\ \A q \in 1 .. Len(h.slots) : ll[q] = h.length[q]
      /\ ss \in Seq(1 .. MaxSlots) /\ Len(ss) = p /\ ss[p] = n /\ \A q \in 1 .. Len(h.slots) : ss[q] = h.slots[q]
    BY <1>0, SeqAdd
<1>4. /\ ff \in Seq(Block \cup {NULL}) /\ Len(ff) = p /\ ff[p] = <<p, 1>>
      /\ \A q \in 1 .. Len(h.slots) : ff[q] = h.freehead[q]
      /\ uu \in Seq(Block \cup {NULL}) /\ Len(uu) = p /\ uu[p] = NULL
      /\ \A q \in 1 .. Len(h.slots) : uu[q] = h.usedhead[q]
    <2> DEFINE X == Block \cup {NULL}
               b == <<p, 1>>
    <2>1. b \in X /\ NULL \in X /\ h.freehead \in Seq(X) /\ h.usedhead \in Seq(X)
        BY Zenon, <1>0, <1>2
    <2> HIDE DEF X, b
    <2>2. /\ ff \in Seq(X) /\ Len(ff) = Len(h.freehead) + 1 /\ ff[Len(h.freehead) + 1] = b
          /\ \A q \in 1 .. Len(h.freehead) : ff[q] = h.freehead[q]
        BY <2>1, SeqAdd DEF b
    <2>3. /\ uu \in Seq(X) /\ Len(uu) = Len(h.usedhead) + 1 /\ uu[Len(h.usedhead) + 1] = NULL
          /\ \A q \in 1 .. Len(h.usedhead) : uu[q] = h.usedhead[q]
        BY <2>1, SeqAdd
    <2> HIDE DEF ff, uu
    <2> QED BY Zenon, <1>0, <2>2, <2>3 DEF X, b
<1> HIDE DEF ll, ss, ff, uu
<1>5. \A b \in Block : b[1] \in 1 .. MaxPools /\ b[2] \in 1 .. MaxSlots /\ b = <<b[1], b[2]>>
    BY DEF Block
<1>6. pp \in [Block -> Block \cup {NULL}] /\ nn \in [Block -> Block \cup {NULL}]
    <2>1. ASSUME NEW b \in Block, b[2] \in 2 .. n
          PROVE  <<p, b[2] - 1>> \in Block
        <3>1. b[2] - 1 \in 1 .. n
            BY <1>2, <2>1
        <3> QED BY Zenon, <1>2, <3>1
    <2>2. ASSUME NEW b \in Block, b[2] \in 1 .. n - 1
          PROVE  <<p, b[2] + 1>> \in Block
        <3>1. b[2] + 1 \in 1 .. n
            BY <1>2, <2>2
        <3> QED BY Zenon, <1>2, <3>1
    <2> QED BY Zenon, <1>0, <2>1, <2>2
<1>7. \A c \in Block : c[1] # p => nn[c] = h.next[c] /\ pp[c] = h.pre[c]
    BY Zenon
<1>11. ASSUME NEW k \in 1 .. n
       PROVE  /\ k = n => nn[<<p, k>>] = NULL
              /\ k # n => nn[<<p, k>>] = <<p, k + 1>>
              /\ k = 1 => pp[<<p, k>>] = NULL
              /\ k # 1 => pp[<<p, k>>] = <<p, k - 1>>
    <2> DEFINE c == <<p, k>>
    <2>1. c \in Block /\ c[1] = p /\ c[2] = k
        BY Zenon, <1>2
    <2>2. h.pre[c] = NULL /\ h.next[c] = NULL
        <3>1. Len(h.slots) \in Nat /\ c[1] > Len(h.slots)
            BY <1>0, <2>1
        <3> QED BY Zenon, <1>0, <2>1, <3>1
    <2>3. /\ pp[c] = IF c[1] = p /\ c[2] \in 2 .. n THEN <<p, c[2] - 1>> ELSE h.pre[c]
          /\ nn[c] = IF c[1] = p /\ c[2] \in 1 .. n - 1 THEN <<p, c[2] + 1>> ELSE h.next[c]
        BY SMTT(30), <2>1
    <2>4. (k \in 2 .. n <=> k # 1) /\ (k \in 1 .. n - 1 <=> k # n)
        BY <1>2
    <2> HIDE DEF pp, nn, c
    <2>5. /\ k = n => nn[c] = NULL
          /\ k # n => nn[c] = <<p, k + 1>>
          /\ k = 1 => pp[c] = NULL
          /\ k # 1 => pp[c] = <<p, k - 1>>
        BY Zenon, <2>1, <2>2, <2>3, <2>4
    <2> QED BY Zenon, <2>5 DEF c
<1> HIDE DEF pp, nn
<1>8. /\ g.length = ll /\ g.slots = ss /\ g.freehead = ff /\ g.usedhead = uu
      /\ g.pre = pp /\ g.next = nn /\ g \in Heaps
    BY <1>1, <1>3, <1>4, <1>6 DEF Heaps
<1> HIDE DEF g
<1>9. \A b \in Block : b[1] > p => g.pre[b] = NULL /\ g.next[b] = NULL
    <2>1. ASSUME NEW b \in Block, b[1] > p
          PROVE  b[1] # p /\ b[1] > Len(h.slots)
        <3>1. b[1] \in Nat /\ Len(h.slots) \in Nat
            BY SMTT(30), <1>0, <1>5, SlabAssumption
        <3> QED BY <2>1, <3>1
    <2> QED BY Zenon, <1>0, <1>7, <1>8, <2>1
<1>10. HeapOK(g)
    <2>1. p <= MaxPools
        BY SlabAssumption
    <2>2. Len(g.slots) = p /\ Len(g.length) = p /\ Len(g.freehead) = p /\ Len(g.usedhead) = p
        BY Zenon, <1>3, <1>4, <1>8
    <2> QED BY Zenon, <1>8, <1>9, <2>1, <2>2 DEF HeapOK
<1>12. Pools(h) = 1 .. Len(h.slots)
    BY Zenon, BlocksFacts
<1>13. Chain(g, p, n)
    BY Zenon, <1>8, <1>11 DEF Chain
<1> QED BY <1>3, <1>4, <1>7, <1>8, <1>10, <1>12, <1>13 DEF Added, g

(* The blocks of a new pool, linked in order, are a list. *)
LEMMA NewList ==
    ASSUME NEW g, NEW p \in Nat \ {0}, NEW n \in Nat \ {0}, Chain(g, p, n)
    PROVE  IsList(g, <<p, 1>>, {p} \X (1 .. n))
<1> DEFINE S == {p} \X (1 .. n)
<1>1. \A c \in S : c[2] \in 1 .. n /\ c = <<p, c[2]>>
    OBVIOUS
<1>2. \A k \in 1 .. n : <<p, k>> \in S
    BY Zenon
<1>3. <<p, 1>> \in S /\ g.pre[<<p, 1>>] = NULL
    BY <1>2 DEF Chain
<1>4. Closed(g, S)
    <2>1. ASSUME NEW k \in 1 .. n
          PROVE  g.next[<<p, k>>] \in S \cup {NULL}
        <3>1. k # n => k + 1 \in 1 .. n
            OBVIOUS
        <3> HIDE DEF S
        <3> QED BY Zenon, <1>2, <3>1 DEF Chain
    <2> QED BY Zenon, <1>1, <2>1 DEF Closed
<1>5. \A c \in S : g.next[c] # NULL => g.pre[g.next[c]] = c
    <2>1. ASSUME NEW k \in 1 .. n, g.next[<<p, k>>] # NULL
          PROVE  g.pre[g.next[<<p, k>>]] = <<p, k>>
        <3>1. k # n /\ g.next[<<p, k>>] = <<p, k + 1>>
            BY Zenon, <2>1 DEF Chain
        <3>2. k + 1 \in 1 .. n /\ k + 1 # 1 /\ (k + 1) - 1 = k
            BY <3>1
        <3>3. g.pre[<<p, k + 1>>] = <<p, (k + 1) - 1>>
            BY Zenon, <3>2 DEF Chain
        <3> QED BY Zenon, <3>1, <3>2, <3>3
    <2> QED BY Zenon, <1>1, <2>1
<1>6. ASSUME NEW T \in SUBSET S, <<p, 1>> \in T \cup {NULL}, Closed(g, T)
      PROVE  T = S
    <2> DEFINE M == {k \in 1 .. n : <<p, k>> \notin T}
    <2>1. SUFFICES ASSUME M # {} PROVE FALSE
        BY Zenon, <1>1
    <2>2. PICK k \in M : \A j \in M : k <= j
        <3>1. M \in SUBSET Nat
            OBVIOUS
        <3> HIDE DEF M
        <3> QED BY Zenon, <2>1, <3>1, Least
    <2>3. k \in 1 .. n /\ <<p, k>> \notin T /\ <<p, k>> # NULL /\ <<p, 1>> # NULL
        BY Zenon DEF NULL
    <2>4. k # 1
        BY Zenon, <1>6, <2>3
    <2>5. k - 1 \in 1 .. n /\ k - 1 # n /\ (k - 1) + 1 = k /\ k - 1 \notin M
        BY <2>2, <2>3, <2>4
    <2>6. <<p, k - 1>> \in T /\ g.next[<<p, k - 1>>] = <<p, k>>
        <3>1. <<p, k - 1>> \in T
            BY Zenon, <2>5
        <3>2. g.next[<<p, k - 1>>] = <<p, (k - 1) + 1>>
            BY Zenon, <2>5 DEF Chain
        <3> QED BY Zenon, <2>5, <3>1, <3>2
    <2>7. <<p, k>> \in T \cup {NULL}
        BY Zenon, <1>6, <2>6 DEF Closed
    <2> QED BY Zenon, <2>3, <2>7
<1> QED BY Zenon, <1>3, <1>4, <1>5, <1>6 DEF IsList

(* g is h with pool p, of length l and n blocks, all of them free. *)
Extended(h, g, H, p, l, n) ==
    /\ HeapOK(g) /\ Exact(g, H) /\ p \in Pools(g) /\ Pools(g) = Pools(h) \cup {p}
    /\ g.freehead[p] # NULL /\ g.slots[p] = n /\ g.length[p] = l
    /\ \A q \in Pools(h) : g.slots[q] = h.slots[q] /\ g.length[q] = h.length[q]

(* A new pool has all its blocks free. *)
LEMMA InitHeap ==
    ASSUME NEW h, HeapOK(h), NEW H, Exact(h, H), NEW p \in 1 .. MaxPools, p = Len(h.slots) + 1,
           NEW l \in Nat, NEW ul, NEW n \in 1 .. MaxSlots, n = Slots(l, ul)
    PROVE  Extended(h, init_memblock(h, l, ul), H, p, l, n)
<1> DEFINE g == init_memblock(h, l, ul)
<1>0. Added(h, g, p, l, n)
    BY Zenon, InitFields
<1> HIDE DEF g
<1>1. /\ HeapOK(g) /\ Len(g.slots) = p
      /\ g.slots[p] = n /\ g.length[p] = l /\ g.freehead[p] = <<p, 1>> /\ g.usedhead[p] = NULL
      /\ \A q \in Pools(h) : /\ g.slots[q] = h.slots[q] /\ g.length[q] = h.length[q]
                             /\ g.freehead[q] = h.freehead[q] /\ g.usedhead[q] = h.usedhead[q]
      /\ \A c \in Block : c[1] # p => g.next[c] = h.next[c] /\ g.pre[c] = h.pre[c]
      /\ Chain(g, p, n)
    BY Zenon, <1>0 DEF Added
<1>2. /\ Pools(h) = 1 .. Len(h.slots) /\ Pools(g) = 1 .. p /\ p \notin Pools(h)
      /\ Pools(g) = Pools(h) \cup {p}
    <2>1. Pools(h) = 1 .. Len(h.slots) /\ Pools(g) = 1 .. p
        BY Zenon, <1>1, BlocksFacts
    <2>2. Len(h.slots) \in Nat
        BY DEF HeapOK, Heaps
    <2> QED BY <2>1, <2>2
<1>3. BlocksOf(g, p) = {p} \X (1 .. n) /\ \A q \in Pools(h) : BlocksOf(g, q) = BlocksOf(h, q)
    BY Zenon, <1>1 DEF BlocksOf
<1>4. H \cap BlocksOf(g, p) = {}
    <2>1. \A b \in H : \E q \in Pools(h) : b[1] = q
        BY BlocksFacts DEF Exact
    <2>2. \A b \in BlocksOf(g, p) : b[1] = p
        BY Zenon, <1>3
    <2> QED BY Zenon, <1>2, <2>1, <2>2
<1>5. IsList(g, g.freehead[p], BlocksOf(g, p) \ H)
    <2>1. BlocksOf(g, p) \ H = {p} \X (1 .. n)
        BY Zenon, <1>3, <1>4
    <2>2. IsList(g, <<p, 1>>, {p} \X (1 .. n))
        BY SMTT(30), <1>1, SlabAssumption, NewList
    <2> QED BY <1>1, <2>1, <2>2
<1>6. IsList(g, g.usedhead[p], BlocksOf(g, p) \cap H)
    <2>1. BlocksOf(g, p) \cap H = {}
        BY Zenon, <1>4
    <2>2. IsList(g, NULL, {})
        BY Zenon DEF IsList, Closed
    <2> QED BY <1>1, <2>1, <2>2
<1>7. ASSUME NEW q \in Pools(h)
      PROVE  /\ IsList(g, g.usedhead[q], BlocksOf(g, q) \cap H)
             /\ IsList(g, g.freehead[q], BlocksOf(g, q) \ H)
    <2>1. BlocksOf(h, q) \in SUBSET Block /\ \A c \in BlocksOf(h, q) : c[1] # p
        BY Zenon, <1>2, BlocksFacts
    <2>2. \A c \in BlocksOf(h, q) : g.next[c] = h.next[c] /\ g.pre[c] = h.pre[c]
        BY Zenon, <1>1, <2>1
    <2>3. IsList(h, g.usedhead[q], BlocksOf(h, q) \cap H) /\ IsList(h, g.freehead[q], BlocksOf(h, q) \ H)
        BY <1>1 DEF Exact
    <2>4. IsList(g, g.usedhead[q], BlocksOf(h, q) \cap H)
        BY <2>1, <2>2, <2>3, ListFrame
    <2>5. IsList(g, g.freehead[q], BlocksOf(h, q) \ H)
        BY <2>1, <2>2, <2>3, ListFrame
    <2> QED BY <1>3, <2>4, <2>5
<1>8. H \subseteq UNION {BlocksOf(g, q) : q \in Pools(g)}
    BY Zenon, <1>2, <1>3 DEF Exact
<1>9. Exact(g, H)
    BY <1>2, <1>5, <1>6, <1>7, <1>8 DEF Exact
<1>10. <<p, 1>> # NULL
    BY SlabAssumption DEF NULL
<1> QED BY Zenon, <1>1, <1>2, <1>9, <1>10 DEF Extended, g

(* A heap without pools is the empty one. *)
LEMMA EmptyHeap ==
    ASSUME NEW h, HeapOK(h), h # NoPools
    PROVE  Len(h.slots) \in Nat \ {0} /\ Len(h.slots) \in Pools(h)
<1>1. SUFFICES ASSUME Len(h.slots) = 0 PROVE FALSE
    <2>1. Len(h.slots) \in Nat
        BY DEF HeapOK, Heaps
    <2>2. Pools(h) = 1 .. Len(h.slots)
        BY Zenon, BlocksFacts
    <2> QED BY <2>1, <2>2
<1>2. h.slots = <<>> /\ h.length = <<>> /\ h.freehead = <<>> /\ h.usedhead = <<>>
    BY <1>1 DEF HeapOK, Heaps
<1>3. \A b \in Block : h.pre[b] = NULL /\ h.next[b] = NULL
    <2>1. \A b \in Block : b[1] > 0
        BY SlabAssumption DEF Block
    <2> QED BY Zenon, <1>1, <2>1 DEF HeapOK
<1>4. h.pre = [b \in Block |-> NULL] /\ h.next = [b \in Block |-> NULL]
    BY Zenon, <1>3 DEF HeapOK, Heaps
<1> QED BY Zenon, <1>2, <1>4 DEF HeapOK, Heaps, NoPools

(* The empty heap has no pool, and nothing is held of it. *)
LEMMA NoPoolsOK ==
    HeapOK(NoPools) /\ Exact(NoPools, {}) /\ Len(NoPools.slots) = 0 /\ Pools(NoPools) = {}
<1>1. NoPools \in Heaps
    BY DEF NoPools, Heaps
<1>2. Len(NoPools.slots) = 0 /\ Pools(NoPools) = {}
    BY DEF NoPools, Pools
<1>3. HeapOK(NoPools)
    BY <1>1, SlabAssumption DEF HeapOK, NoPools
<1> QED BY Zenon, <1>2, <1>3 DEF Exact

(* The search finds a free block when there is one in any pool. *)
LEMMA SearchFacts ==
    ASSUME NEW h, HeapOK(h), h # NoPools
    PROVE  /\ search(h) \in Pools(h)
           /\ h.freehead[search(h)] = NULL =>
                 search(h) = Len(h.slots) /\ \A q \in Pools(h) : h.freehead[q] = NULL
<1> DEFINE good == {p \in Pools(h) : h.freehead[p] # NULL \/ p = Len(h.slots)}
           s == search(h)
<1>1. Len(h.slots) \in Nat /\ Pools(h) = 1 .. Len(h.slots) /\ Len(h.slots) \in good
    BY Zenon, EmptyHeap, BlocksFacts
<1>2. s \in good /\ \A q \in good : s <= q
    <2>1. good \in SUBSET Nat /\ good # {}
        BY <1>1
    <2>2. s = CHOOSE p \in good : \A q \in good : p <= q
        BY Zenon DEF search
    <2> HIDE DEF good, s
    <2>3. \E p \in good : \A q \in good : p <= q
        BY Zenon, <2>1, Least
    <2> QED BY Zenon, <2>2, <2>3
<1> HIDE DEF s
<1>3. ASSUME h.freehead[s] = NULL
      PROVE  s = Len(h.slots) /\ \A q \in Pools(h) : h.freehead[q] = NULL
    <2>1. s = Len(h.slots)
        BY Zenon, <1>2, <1>3
    <2>2. ASSUME NEW q \in Pools(h), h.freehead[q] # NULL
          PROVE  FALSE
        <3>1. q \in good
            BY Zenon, <2>2
        <3>2. q = s
            BY <1>1, <1>2, <2>1, <3>1
        <3> QED BY Zenon, <1>3, <2>2, <3>2
    <2> QED BY Zenon, <2>1, <2>2
<1> QED BY Zenon, <1>2, <1>3 DEF s

(* A pool whose free list is empty is in use as a whole. *)
LEMMA NoneFree ==
    ASSUME NEW h, NEW H, Exact(h, H), NEW p \in Pools(h), h.freehead[p] = NULL
    PROVE  BlocksOf(h, p) \subseteq H
<1> DEFINE S == BlocksOf(h, p) \ H
<1>1. IsList(h, NULL, S)
    BY DEF Exact
<1>2. {} \in SUBSET S /\ Closed(h, {})
    BY Zenon DEF Closed
<1> HIDE DEF S
<1>3. {} = S
    BY Zenon, <1>1, <1>2 DEF IsList
<1> QED BY Zenon, <1>3 DEF S

-----------------------------------------------------------------------------
(* The arithmetic of init_memblock. *)

LEMMA ModUnique ==
    ASSUME NEW n \in Nat \ {0}, NEW q \in Int, NEW r \in 0 .. n - 1
    PROVE  (n * q + r) % n = r
OBVIOUS

LEMMA DivFacts ==
    ASSUME NEW a \in Nat, NEW n \in Nat \ {0}
    PROVE  a \div n \in Nat /\ (a \div n) * n <= a
<1>1. /\ a % n \in 0 .. n - 1 /\ a \div n \in Int
      /\ a = n * (a \div n) + (a % n)
    OBVIOUS
<1>2. a \div n >= 0
    OBVIOUS
<1>3. (a \div n) * n = n * (a \div n)
    BY <1>1
<1> QED BY <1>1, <1>2, <1>3

(* The blocks that are laid out end within the zone, if there is room for  *)
(* the pool's header and one block.                                        *)
LEMMA LaidFits ==
    ASSUME NEW l \in Nat, NEW ul \in Nat \ {0}, l < Word, PoolHead + ul <= l
    PROVE  Slots(l, ul) = Laid(l, ul) /\ PoolHead + Slots(l, ul) * ul <= l
<1> DEFINE a == l - ul - PoolHead
           d == a \div ul
<1>1. PoolHead \in Nat /\ Word \in Nat \ {0} /\ a \in Nat
    BY SlabAssumption
<1>2. (l + Word - ul) % Word = l - ul
    <2>1. l - ul \in 0 .. Word - 1 /\ l + Word - ul = Word * 1 + (l - ul)
        BY <1>1
    <2> QED BY <1>1, <2>1, ModUnique
<1>3. Laid(l, ul) = d + 1
    <2>1. ~(PoolHead > l - ul)
        BY <1>1
    <2>2. (l - ul) - PoolHead = a
        BY Zenon, <1>1
    <2> QED BY Zenon, <1>2, <2>1, <2>2 DEF Laid
<1>4. d \in Nat /\ d * ul <= a
    BY Zenon, <1>1, DivFacts
<1> HIDE DEF d
<1>5. Slots(l, ul) = d + 1
    BY <1>3, <1>4 DEF Slots
<1>6. (d + 1) * ul = d * ul + ul
    BY <1>4
<1>7. d * ul \in Nat
    BY <1>4
<1>8. PoolHead + (d + 1) * ul <= l
    BY <1>1, <1>4, <1>6, <1>7
<1> QED BY Zenon, <1>3, <1>5, <1>8

-----------------------------------------------------------------------------
(* The allocators. *)

Handles == [lev : Levels, blk : Block]

TypeInv ==
    /\ kind \in AllKinds /\ alive \in {"up", "down", "crashed"} /\ reply \in {"block", "null", "none"}
    /\ m_max_num \in Nat \cup {-1} /\ m_alloced_num \in Int
    /\ held \subseteq Handles /\ IsFiniteSet(held)
    /\ pmpool \in [Levels -> Heaps]

(* The chains of every level are well-formed and their lists exact. *)
ListsInv == \A i \in Levels : HeapOK(pmpool[i]) /\ Exact(pmpool[i], HeldOf(i))

(* The limit of pure_slab_t, and what holds of one that is not up or never *)
(* got its first pool.                                                     *)
StateInv ==
    /\ kind = "slab_t" => m_max_num # -1
    /\ alive # "up" => pmpool = NoHeaps /\ held = {}
    /\ alive = "up" /\ kind # "slab_pool" /\ reply = "null" => pmpool # NoHeaps

IInv == TypeInv /\ ListsInv /\ StateInv /\ LimitKept

(* There is room for the header of a pool and one block, which the         *)
(* constructors do not look at.                                            *)
Roomy ==
    /\ \A l \in Lengths : PoolHead + MbSize <= l
    /\ \A i \in Levels : PoolHead + mbsize(i) <= poolsize(i)

(* The blocks of a chain whose blocks have size ul end within its pools. *)
InPools(h, ul) == \A p \in Pools(h) : PoolHead + h.slots[p] * ul <= h.length[p]
FitsInv == \A i \in Levels : InPools(pmpool[i], BlockSize(i))

(* A zone is laid out in at least one block. *)
LEMMA LayFacts ==
    ASSUME NEW l \in Nat, NEW ul \in Nat \ {0}, l < Word, Laid(l, ul) <= MaxSlots
    PROVE  /\ Slots(l, ul) \in 1 .. MaxSlots
           /\ PoolHead + ul <= l => PoolHead + Slots(l, ul) * ul <= l
<1> DEFINE last == (l + Word - ul) % Word
<1>1. Word \in Nat \ {0} /\ PoolHead \in Nat \ {0} /\ MaxSlots \in Nat \ {0}
    BY SlabAssumption
<1>2. last \in Nat
    BY <1>1
<1>3. Laid(l, ul) \in Nat
    <2> HIDE DEF last
    <2>1. ASSUME ~(PoolHead > last)
          PROVE  (last - PoolHead) \div ul \in Nat
        BY <1>1, <1>2, <2>1, DivFacts
    <2>2. Laid(l, ul) = IF PoolHead > last THEN 0 ELSE (last - PoolHead) \div ul + 1
        BY Zenon DEF Laid, last
    <2> QED BY <2>1, <2>2
<1> QED BY <1>1, <1>3, LaidFits DEF Slots

LEMMA LengthFacts ==
    ASSUME NEW i \in Levels, NEW l \in PoolLengths(i)
    PROVE  /\ l \in Nat /\ Slots(l, BlockSize(i)) \in 1 .. MaxSlots
           /\ Roomy => PoolHead + Slots(l, BlockSize(i)) * BlockSize(i) <= l
<1>1. /\ l \in Nat /\ l < Word /\ BlockSize(i) \in Nat \ {0}
      /\ Laid(l, BlockSize(i)) <= MaxSlots /\ (Roomy => PoolHead + BlockSize(i) <= l)
    <2>1. CASE kind = "slab_pool"
        <3>1. l = poolsize(i) /\ BlockSize(i) = mbsize(i)
            BY Zenon, <2>1 DEF PoolLengths, BlockSize
        <3> QED BY <3>1, SlabAssumption DEF Roomy
    <2>2. CASE kind # "slab_pool"
        <3>1. l \in Lengths /\ BlockSize(i) = MbSize
            BY Zenon, <2>2 DEF PoolLengths, BlockSize
        <3> QED BY Zenon, <3>1, SlabAssumption DEF Roomy
    <2> QED BY Zenon, <2>1, <2>2
<1> QED BY Zenon, <1>1, LayFacts

(* HeldOf when one handle is added or removed. *)
LEMMA HeldFacts ==
    ASSUME TypeInv, NEW i \in Levels, NEW b \in Block
    PROVE  /\ HeldOf(i) \subseteq Block
           /\ \A a \in Handles : a \in held => a.blk \in HeldOf(a.lev) /\ a.lev \in Levels
           /\ b \notin HeldOf(i) => [lev |-> i, blk |-> b] \notin held
           /\ [lev |-> i, blk |-> b] \in Handles
BY DEF TypeInv, Handles, HeldOf

LEMMA HeldAdd ==
    ASSUME TypeInv, NEW i \in Levels, NEW b \in Block, held' = held \cup {[lev |-> i, blk |-> b]}
    PROVE  /\ HeldOf(i)' = HeldOf(i) \cup {b}
           /\ \A j \in Levels : j # i => HeldOf(j)' = HeldOf(j)
<1> DEFINE a == [lev |-> i, blk |-> b]
<1>1. a.lev = i /\ a.blk = b /\ held' = held \cup {a}
    BY Zenon
<1> HIDE DEF a
<1>2. HeldOf(i)' = HeldOf(i) \cup {b}
    BY Zenon, <1>1 DEF HeldOf
<1>3. \A j \in Levels : j # i => HeldOf(j)' = HeldOf(j)
    BY Zenon, <1>1 DEF HeldOf
<1> QED BY Zenon, <1>2, <1>3

LEMMA HeldRemove ==
    ASSUME TypeInv, NEW a \in held, held' = held \ {a}
    PROVE  /\ HeldOf(a.lev)' = HeldOf(a.lev) \ {a.blk}
           /\ \A j \in Levels : j # a.lev => HeldOf(j)' = HeldOf(j)
BY DEF TypeInv, Handles, HeldOf

(* The lists are exact again when one level has been replaced. *)
LEMMA OneLevel ==
    ASSUME TypeInv, ListsInv, NEW i \in Levels, NEW g, HeapOK(g), NEW H, Exact(g, H),
           pmpool' = [pmpool EXCEPT ![i] = g], HeldOf(i)' = H,
           \A j \in Levels : j # i => HeldOf(j)' = HeldOf(j)
    PROVE  ListsInv' /\ pmpool' \in [Levels -> Heaps]
<1>1. \A j \in Levels : pmpool'[j] = IF j = i THEN g ELSE pmpool[j]
    BY Zenon DEF TypeInv
<1>2. \A j \in Levels : HeapOK(pmpool'[j]) /\ Exact(pmpool'[j], HeldOf(j)')
    BY Zenon, <1>1 DEF ListsInv
<1>3. g \in Heaps
    BY Zenon DEF HeapOK
<1>4. pmpool' \in [Levels -> Heaps]
    BY Zenon, <1>3 DEF TypeInv
<1> QED BY Zenon, <1>2, <1>4 DEF ListsInv

(* A block of level i, whose heap was or became h, has been taken. *)
Returned(i, h) ==
    /\ ListsInv' /\ pmpool' \in [Levels -> Heaps]
    /\ held' \subseteq Handles /\ IsFiniteSet(held') /\ Cardinality(held') = Cardinality(held) + 1
    /\ pmpool'[i].slots = h.slots /\ pmpool'[i].length = h.length
    /\ \A j \in Levels \ {i} : pmpool'[j] = pmpool[j]

LEMMA ReturnStep ==
    ASSUME TypeInv, ListsInv, NEW i \in Levels, NEW h, HeapOK(h), Exact(h, HeldOf(i)),
           NEW p \in Pools(h), h.freehead[p] # NULL, Return(i, h, p)
    PROVE  Returned(i, h)
<1> DEFINE b == h.freehead[p]
           g == take(h, p)
           a == [lev |-> i, blk |-> b]
           H == HeldOf(i)
<1>1. /\ b \in BlocksOf(h, p) \ H /\ HeapOK(g) /\ Exact(g, H \cup {b})
      /\ g.slots = h.slots /\ g.length = h.length
    BY TakeHeap
<1>2. b \in Block
    BY Zenon, <1>1, BlocksFacts
<1> HIDE DEF g, b
<1>3. pmpool' = [pmpool EXCEPT ![i] = g] /\ held' = held \cup {a}
    BY Zenon DEF Return, g, b
<1>4. /\ HeldOf(i)' = H \cup {b}
      /\ \A j \in Levels : j # i => HeldOf(j)' = HeldOf(j)
    BY Zenon, <1>2, <1>3, HeldAdd
<1>5. ListsInv' /\ pmpool' \in [Levels -> Heaps]
    <2> DEFINE K == H \cup {b}
    <2>1. Exact(g, K) /\ HeldOf(i)' = K
        BY Zenon, <1>1, <1>4
    <2> HIDE DEF K
    <2> QED BY <1>1, <1>3, <1>4, <2>1, OneLevel
<1>6. a \in Handles /\ a \notin held
    BY Zenon, <1>1, <1>2, HeldFacts
<1> HIDE DEF a
<1>7. IsFiniteSet(held') /\ Cardinality(held') = Cardinality(held) + 1
    BY Zenon, <1>3, <1>6, FS_AddElement DEF TypeInv
<1>8. held' \subseteq Handles
    BY Zenon, <1>3, <1>6 DEF TypeInv
<1>9. pmpool'[i] = g /\ \A j \in Levels \ {i} : pmpool'[j] = pmpool[j]
    BY Zenon, <1>3 DEF TypeInv
<1> QED BY Zenon, <1>1, <1>5, <1>7, <1>8, <1>9 DEF Returned

(* A level that has no free block is in use. *)
LEMMA FullLevel ==
    ASSUME ListsInv, NEW i \in Levels, pmpool[i] # NoPools,
           pmpool[i].freehead[search(pmpool[i])] = NULL
    PROVE  InUse(i) /\ search(pmpool[i]) = Len(pmpool[i].slots)
<1> DEFINE h == pmpool[i]
           H == HeldOf(i)
<1>1. HeapOK(h) /\ Exact(h, H)
    BY Zenon DEF ListsInv
<1> HIDE DEF h, H
<1>2. search(h) = Len(h.slots) /\ \A q \in Pools(h) : h.freehead[q] = NULL
    BY Zenon, <1>1, SearchFacts DEF h
<1>3. \A q \in Pools(h) : BlocksOf(h, q) \subseteq H
    BY Zenon, <1>1, <1>2, NoneFree
<1> QED BY Zenon, <1>2, <1>3 DEF InUse, h, H

LEMMA FromStep ==
    ASSUME TypeInv, ListsInv, NEW i \in Levels, FromPools(i)
    PROVE  /\ ListsInv' /\ pmpool' \in [Levels -> Heaps]
           /\ held' \subseteq Handles /\ IsFiniteSet(held') /\ Cardinality(held') = Cardinality(held) + 1
           /\ Roomy /\ FitsInv => FitsInv'
           /\ \A j \in Levels : Len(pmpool'[j].slots) > Len(pmpool[j].slots) => InUse(j)
           /\ alive = "up" /\ alive' = "up" /\ reply' = "block" /\ kind' = kind /\ m_max_num' = m_max_num
           /\ m_alloced_num' = IF kind \in {"slab", "slab_t"} THEN m_alloced_num + 1 ELSE 0
<1> DEFINE h == pmpool[i]
           p == search(h)
           ul == BlockSize(i)
<1>1. HeapOK(h) /\ Exact(h, HeldOf(i)) /\ h # NoPools
    BY Zenon DEF FromPools, ListsInv
<1>2. p \in Pools(h) /\ Pools(h) = 1 .. Len(h.slots) /\ Len(h.slots) \in Nat /\ Len(h.slots) <= MaxPools
    <2>1. p \in Pools(h) /\ Pools(h) = 1 .. Len(h.slots)
        BY Zenon, <1>1, SearchFacts, BlocksFacts
    <2>2. Len(h.slots) \in Nat /\ Len(h.slots) <= MaxPools
        BY <1>1 DEF HeapOK, Heaps
    <2> QED BY Zenon, <2>1, <2>2
<1>3. alive = "up" /\ kind' = kind /\ m_max_num' = m_max_num
    BY Zenon DEF FromPools
<1>4. ASSUME NEW g, NEW q, Return(i, g, q), HeapOK(g), Exact(g, HeldOf(i)), q \in Pools(g),
             g.freehead[q] # NULL, Roomy /\ InPools(h, ul) => InPools(g, ul),
             Len(g.slots) > Len(h.slots) => InUse(i)
      PROVE  /\ ListsInv' /\ pmpool' \in [Levels -> Heaps]
             /\ held' \subseteq Handles /\ IsFiniteSet(held') /\ Cardinality(held') = Cardinality(held) + 1
             /\ Roomy /\ FitsInv => FitsInv'
             /\ \A j \in Levels : Len(pmpool'[j].slots) > Len(pmpool[j].slots) => InUse(j)
             /\ alive' = "up" /\ reply' = "block"
             /\ m_alloced_num' = IF kind \in {"slab", "slab_t"} THEN m_alloced_num + 1 ELSE 0
    <2>1. /\ ListsInv' /\ pmpool' \in [Levels -> Heaps]
          /\ held' \subseteq Handles /\ IsFiniteSet(held') /\ Cardinality(held') = Cardinality(held) + 1
          /\ pmpool'[i].slots = g.slots /\ pmpool'[i].length = g.length
          /\ \A j \in Levels \ {i} : pmpool'[j] = pmpool[j]
        <3>1. Returned(i, g)
            BY Zenon, <1>4, ReturnStep
        <3> QED BY Zenon, <3>1 DEF Returned
    <2>2. /\ alive' = "up" /\ reply' = "block"
          /\ m_alloced_num' = IF kind \in {"slab", "slab_t"} THEN m_alloced_num + 1 ELSE 0
        BY Zenon, <1>3, <1>4 DEF Return
    <2>3. \A j \in Levels : BlockSize(j)' = BlockSize(j)
        BY Zenon, <1>3 DEF BlockSize
    <2>4. ASSUME Roomy, FitsInv
          PROVE  FitsInv'
        <3>1. InPools(pmpool'[i], ul)
            BY Zenon, <1>4, <2>1, <2>4 DEF FitsInv, InPools, Pools
        <3>2. \A j \in Levels : InPools(pmpool'[j], BlockSize(j)')
            <4>1. ASSUME NEW j \in Levels PROVE InPools(pmpool'[j], BlockSize(j))
                <5>1. CASE j = i
                    BY Zenon, <3>1, <5>1
                <5>2. CASE j # i
                    BY Zenon, <2>1, <2>4, <5>2 DEF FitsInv
                <5> QED BY Zenon, <5>1, <5>2
            <4> QED BY Zenon, <2>3, <4>1
        <3> QED BY Zenon, <3>2 DEF FitsInv
    <2>5. \A j \in Levels : Len(pmpool'[j].slots) > Len(pmpool[j].slots) => InUse(j)
        <3>1. ASSUME NEW j \in Levels, j # i, Len(pmpool'[j].slots) > Len(pmpool[j].slots)
              PROVE  FALSE
            <4>1. pmpool'[j] = pmpool[j]
                BY Zenon, <2>1, <3>1
            <4>2. HeapOK(pmpool[j])
                BY Zenon DEF ListsInv
            <4>3. Len(pmpool[j].slots) \in Nat
                BY <4>2 DEF HeapOK, Heaps
            <4> QED BY <3>1, <4>1, <4>3
        <3>2. Len(pmpool'[i].slots) > Len(pmpool[i].slots) => InUse(i)
            BY Zenon, <1>4, <2>1
        <3> QED BY Zenon, <3>1, <3>2
    <2> QED BY Zenon, <2>1, <2>2, <2>4, <2>5
<1>5. CASE h.freehead[p] # NULL /\ Return(i, h, p)
    <2>1. ~(Len(h.slots) > Len(h.slots))
        BY <1>2
    <2> HIDE DEF h, p, ul
    <2> QED BY Zenon, <1>1, <1>2, <1>3, <1>4, <1>5, <2>1
<1>6. ASSUME h.freehead[p] = NULL, p < MaxPools, NEW l \in PoolLengths(i),
             Return(i, init_memblock(h, l, ul), p + 1)
      PROVE  /\ ListsInv' /\ pmpool' \in [Levels -> Heaps]
             /\ held' \subseteq Handles /\ IsFiniteSet(held') /\ Cardinality(held') = Cardinality(held) + 1
             /\ Roomy /\ FitsInv => FitsInv'
             /\ \A j \in Levels : Len(pmpool'[j].slots) > Len(pmpool[j].slots) => InUse(j)
             /\ alive' = "up" /\ reply' = "block"
             /\ m_alloced_num' = IF kind \in {"slab", "slab_t"} THEN m_alloced_num + 1 ELSE 0
    <2> DEFINE g == init_memblock(h, l, ul)
               n == Slots(l, ul)
               q == p + 1
    <2>1. InUse(i) /\ p = Len(h.slots)
        BY Zenon, <1>1, <1>6, FullLevel
    <2>2. q \in 1 .. MaxPools /\ q = Len(h.slots) + 1 /\ l \in Nat /\ n \in 1 .. MaxSlots
        <3>1. MaxPools \in Nat
            BY Zenon, SlabAssumption
        <3> QED BY <1>2, <1>6, <2>1, <3>1, LengthFacts
    <2>3. /\ HeapOK(g) /\ Exact(g, HeldOf(i)) /\ q \in Pools(g) /\ Pools(g) = Pools(h) \cup {q}
          /\ g.freehead[q] # NULL /\ g.slots[q] = n /\ g.length[q] = l
          /\ \A r \in Pools(h) : g.slots[r] = h.slots[r] /\ g.length[r] = h.length[r]
        <3> DEFINE H == HeldOf(i)
        <3>0. Exact(h, H)
            BY Zenon, <1>1
        <3> HIDE DEF h, q, n, ul, H
        <3>1. n = Slots(l, ul)
            BY Zenon DEF n
        <3>2. Extended(h, g, H, q, l, n)
            BY Zenon, <1>1, <2>2, <3>0, <3>1, InitHeap
        <3> HIDE DEF g
        <3> QED BY Zenon, <3>2 DEF Extended, H
    <2>4. Roomy => PoolHead + n * ul <= l
        BY Zenon, LengthFacts
    <2> HIDE DEF g, n, q, h, ul
    <2>5. Roomy /\ InPools(h, ul) => InPools(g, ul)
        BY Zenon, <2>3, <2>4 DEF InPools
    <2>6. Return(i, g, q)
        BY Zenon, <1>6 DEF g, q
    <2> QED BY Zenon, <1>4, <2>1, <2>3, <2>5, <2>6
<1>7. \/ h.freehead[p] # NULL /\ Return(i, h, p)
      \/ /\ h.freehead[p] = NULL /\ p < MaxPools
         /\ \E l \in PoolLengths(i) : Return(i, init_memblock(h, l, ul), p + 1)
    BY Zenon DEF FromPools
<1> HIDE DEF h, p, ul
<1> QED BY Zenon, <1>3, <1>5, <1>6, <1>7

LEMMA GiveStep ==
    ASSUME TypeInv, ListsInv, NEW a \in held, GiveBack(a)
    PROVE  /\ ListsInv' /\ pmpool' \in [Levels -> Heaps]
           /\ held' \subseteq Handles /\ IsFiniteSet(held') /\ Cardinality(held') = Cardinality(held) - 1
           /\ FitsInv => FitsInv'
           /\ \A j \in Levels : Len(pmpool'[j].slots) = Len(pmpool[j].slots)
           /\ alive = "up" /\ alive' = "up" /\ reply' = "none" /\ kind' = kind /\ m_max_num' = m_max_num
<1> DEFINE i == a.lev
           b == a.blk
           h == pmpool[i]
           g == give(h, b)
           H == HeldOf(i)
<1>1. i \in Levels /\ b \in H
    BY Zenon, HeldFacts DEF TypeInv, Handles
<1>2. HeapOK(h) /\ Exact(h, H)
    BY Zenon, <1>1 DEF ListsInv
<1>3. HeapOK(g) /\ Exact(g, H \ {b}) /\ g.slots = h.slots /\ g.length = h.length
    <2> HIDE DEF h, b, H
    <2> QED BY Zenon, <1>1, <1>2, GiveHeap
<1>4. /\ pmpool' = [pmpool EXCEPT ![i] = g] /\ held' = held \ {a}
      /\ alive = "up" /\ alive' = "up" /\ reply' = "none" /\ kind' = kind /\ m_max_num' = m_max_num
    BY Zenon DEF GiveBack
<1> HIDE DEF g
<1>5. HeldOf(i)' = H \ {b} /\ \A j \in Levels : j # i => HeldOf(j)' = HeldOf(j)
    BY Zenon, <1>4, HeldRemove
<1>6. ListsInv' /\ pmpool' \in [Levels -> Heaps]
    <2> DEFINE K == H \ {b}
    <2>1. Exact(g, K) /\ HeldOf(i)' = K
        BY Zenon, <1>3, <1>5
    <2> HIDE DEF K, i
    <2> QED BY <1>1, <1>3, <1>4, <1>5, <2>1, OneLevel
<1>7. IsFiniteSet(held') /\ Cardinality(held') = Cardinality(held) - 1 /\ held' \subseteq Handles
    BY Zenon, <1>4, FS_RemoveElement DEF TypeInv
<1>8. \A j \in Levels : pmpool'[j].slots = pmpool[j].slots /\ pmpool'[j].length = pmpool[j].length
    <2>1. \A j \in Levels : pmpool'[j] = IF j = i THEN g ELSE pmpool[j]
        BY Zenon, <1>4 DEF TypeInv
    <2> QED BY Zenon, <1>3, <2>1
<1>9. FitsInv => FitsInv'
    BY Zenon, <1>4, <1>8 DEF FitsInv, InPools, Pools, BlockSize
<1> QED BY Zenon, <1>4, <1>6, <1>7, <1>8, <1>9

(* A chain of one pool. *)
LEMMA FreshHeap ==
    ASSUME NEW l \in Nat, NEW ul \in Nat \ {0}, l < Word, Laid(l, ul) <= MaxSlots
    PROVE  LET g == init_memblock(NoPools, l, ul) IN
           HeapOK(g) /\ Exact(g, {}) /\ (PoolHead + ul <= l => InPools(g, ul))
<1> DEFINE g == init_memblock(NoPools, l, ul)
           n == Slots(l, ul)
           h == NoPools
<1>1. n \in 1 .. MaxSlots /\ (PoolHead + ul <= l => PoolHead + n * ul <= l)
    BY Zenon, LayFacts
<1>2. HeapOK(h) /\ Exact(h, {}) /\ Len(h.slots) = 0 /\ Pools(h) = {}
    BY Zenon, NoPoolsOK
<1>3. 1 \in 1 .. MaxPools /\ 1 = Len(h.slots) + 1
    BY <1>2, SlabAssumption
<1>4. HeapOK(g) /\ Exact(g, {}) /\ Pools(g) = Pools(h) \cup {1} /\ g.slots[1] = n /\ g.length[1] = l
    <2> DEFINE H == {}
    <2>0. Exact(h, H)
        BY Zenon, <1>2
    <2>1. n = Slots(l, ul) /\ g = init_memblock(h, l, ul)
        BY Zenon DEF n
    <2> HIDE DEF h, n, H, g
    <2>2. Extended(h, g, H, 1, l, n)
        BY Zenon, <1>1, <1>2, <1>3, <2>0, <2>1, InitHeap
    <2> QED BY Zenon, <2>2 DEF Extended, H
<1> HIDE DEF g, n
<1>5. PoolHead + ul <= l => InPools(g, ul)
    BY Zenon, <1>1, <1>2, <1>4 DEF InPools
<1> QED BY Zenon, <1>4, <1>5 DEF g

(* No block is held of chains that have just been made, or of none. *)
LEMMA Anew ==
    ASSUME held' = {}, pmpool' \in [Levels -> Heaps],
           \A i \in Levels : HeapOK(pmpool'[i]) /\ Exact(pmpool'[i], {})
    PROVE  ListsInv' /\ held' \subseteq Handles /\ IsFiniteSet(held') /\ Cardinality(held') = 0
<1>1. \A i \in Levels : HeldOf(i)' = {}
    BY Zenon DEF HeldOf
<1> QED BY Zenon, <1>1, FS_EmptySet DEF ListsInv

LEMMA NoHeapsOK ==
    /\ NoHeaps \in [Levels -> Heaps]
    /\ \A i \in Levels : /\ NoHeaps[i] = NoPools /\ HeapOK(NoHeaps[i]) /\ Exact(NoHeaps[i], {})
                         /\ Len(NoHeaps[i].slots) = 0 /\ Pools(NoHeaps[i]) = {}
<1>1. NoPools \in Heaps
    BY Zenon, NoPoolsOK DEF HeapOK
<1> QED BY Zenon, <1>1, NoPoolsOK DEF NoHeaps

(* The invariant survives; so does FitsInv where there is room. *)
Kept == IInv' /\ (Roomy /\ FitsInv => FitsInv')

LEMMA ConstructStep ==
    ASSUME IInv, NEW k \in Kinds, NEW n \in Limits, construct(k, n)
    PROVE  Kept
<1>1. /\ alive' = "up" /\ kind' = k /\ m_max_num' = n /\ m_alloced_num' = 0 /\ held' = {}
      /\ reply' = "none" /\ k \in AllKinds /\ k # "slab_pool" /\ n \in Nat \cup {-1}
      /\ (k = "slab_t" => n # -1)
    BY Zenon, SlabAssumption DEF construct
<1>2. /\ pmpool' \in [Levels -> Heaps]
      /\ \A i \in Levels : HeapOK(pmpool'[i]) /\ Exact(pmpool'[i], {})
      /\ Roomy => \A i \in Levels : InPools(pmpool'[i], MbSize)
    <2>1. CASE pmpool' = NoHeaps
        BY Zenon, <2>1, NoHeapsOK DEF InPools
    <2>2. ASSUME NEW l \in Lengths, pmpool' = [NoHeaps EXCEPT ![0] = init_memblock(NoPools, l, MbSize)]
          PROVE  /\ pmpool' \in [Levels -> Heaps]
                 /\ \A i \in Levels : HeapOK(pmpool'[i]) /\ Exact(pmpool'[i], {})
                 /\ Roomy => \A i \in Levels : InPools(pmpool'[i], MbSize)
        <3> DEFINE g == init_memblock(NoPools, l, MbSize)
        <3>1. l \in Nat /\ MbSize \in Nat \ {0} /\ l < Word /\ Laid(l, MbSize) <= MaxSlots
            BY Zenon, SlabAssumption
        <3>2. HeapOK(g) /\ Exact(g, {}) /\ (PoolHead + MbSize <= l => InPools(g, MbSize))
            BY Zenon, <3>1, FreshHeap
        <3> HIDE DEF g
        <3>3. g \in Heaps
            BY Zenon, <3>2 DEF HeapOK
        <3>4. pmpool' = [NoHeaps EXCEPT ![0] = g]
            BY Zenon, <2>2 DEF g
        <3>5. pmpool' \in [Levels -> Heaps] /\ \A i \in Levels : pmpool'[i] = IF i = 0 THEN g ELSE NoHeaps[i]
            BY <3>3, <3>4, NoHeapsOK
        <3>6. \A i \in Levels : HeapOK(pmpool'[i]) /\ Exact(pmpool'[i], {})
            BY Zenon, <3>2, <3>5, NoHeapsOK
        <3>7. \A i \in Levels : InPools(NoHeaps[i], MbSize)
            BY Zenon, NoHeapsOK DEF InPools
        <3>8. Roomy => InPools(g, MbSize)
            BY Zenon, <3>2 DEF Roomy
        <3> QED BY Zenon, <3>5, <3>6, <3>7, <3>8
    <2> QED BY Zenon, <2>1, <2>2 DEF construct
<1>3. ListsInv' /\ held' \subseteq Handles /\ IsFiniteSet(held') /\ Cardinality(held') = 0
    BY Zenon, <1>1, <1>2, Anew
<1>4. TypeInv'
    BY <1>1, <1>2, <1>3 DEF TypeInv
<1>5. StateInv'
    BY Zenon, <1>1 DEF StateInv
<1>6. LimitKept'
    BY <1>1, <1>3 DEF LimitKept
<1>7. Roomy => FitsInv'
    <2>1. \A i \in Levels : BlockSize(i)' = MbSize
        BY Zenon, <1>1 DEF BlockSize
    <2> QED BY Zenon, <1>2, <2>1 DEF FitsInv
<1> QED BY Zenon, <1>3, <1>4, <1>5, <1>6, <1>7 DEF IInv, Kept

LEMMA ConstructPoolStep ==
    ASSUME IInv, construct_pool
    PROVE  Kept
<1>1. /\ alive' = "up" /\ kind' = "slab_pool" /\ m_max_num' = -1 /\ m_alloced_num' = 0 /\ held' = {}
      /\ reply' = "none" /\ kind' \in AllKinds
      /\ pmpool' = [i \in Levels |-> init_memblock(NoPools, poolsize(i), mbsize(i))]
    BY Zenon DEF construct_pool, AllKinds
<1>2. ASSUME NEW i \in Levels
      PROVE  /\ pmpool'[i] \in Heaps /\ HeapOK(pmpool'[i]) /\ Exact(pmpool'[i], {})
             /\ Roomy => InPools(pmpool'[i], mbsize(i))
    <2> DEFINE l == poolsize(i)
               ul == mbsize(i)
               g == init_memblock(NoPools, l, ul)
    <2>1. l \in Nat /\ ul \in Nat \ {0} /\ l < Word /\ Laid(l, ul) <= MaxSlots
        BY SlabAssumption
    <2>2. Roomy => PoolHead + ul <= l
        BY Zenon DEF Roomy
    <2>3. pmpool'[i] = g
        BY Zenon, <1>1
    <2> HIDE DEF l, ul
    <2>4. HeapOK(g) /\ Exact(g, {}) /\ (PoolHead + ul <= l => InPools(g, ul))
        BY Zenon, <2>1, FreshHeap
    <2> HIDE DEF g
    <2>5. g \in Heaps
        BY Zenon, <2>4 DEF HeapOK
    <2> QED BY Zenon, <2>2, <2>3, <2>4, <2>5 DEF ul
<1>3. pmpool' \in [Levels -> Heaps]
    BY Zenon, <1>1, <1>2
<1>4. ListsInv' /\ held' \subseteq Handles /\ IsFiniteSet(held') /\ Cardinality(held') = 0
    BY Zenon, <1>1, <1>2, <1>3, Anew
<1>5. TypeInv'
    BY <1>1, <1>3, <1>4 DEF TypeInv
<1>6. StateInv' /\ LimitKept'
    BY Zenon, <1>1 DEF StateInv, LimitKept
<1>7. Roomy => FitsInv'
    <2>1. \A i \in Levels : BlockSize(i)' = mbsize(i)
        BY Zenon, <1>1 DEF BlockSize
    <2> QED BY Zenon, <1>2, <2>1 DEF FitsInv
<1> QED BY Zenon, <1>4, <1>5, <1>6, <1>7 DEF IInv, Kept

(* The end of an allocator: destroyed, exited or crashed. *)
LEMMA EndStep ==
    ASSUME IInv, alive' \in {"down", "crashed"}, pmpool' = NoHeaps, held' = {},
           m_alloced_num' \in Int, reply' \in {"block", "null", "none"}, UNCHANGED <<kind, m_max_num>>
    PROVE  Kept
<1>1. pmpool' \in [Levels -> Heaps] /\ \A i \in Levels : HeapOK(pmpool'[i]) /\ Exact(pmpool'[i], {})
    BY Zenon, NoHeapsOK
<1>2. ListsInv' /\ held' \subseteq Handles /\ IsFiniteSet(held') /\ Cardinality(held') = 0
    BY Zenon, <1>1, Anew
<1>3. TypeInv'
    BY Zenon, <1>1, <1>2 DEF IInv, TypeInv
<1>4. StateInv'
    BY Zenon DEF IInv, StateInv
<1>5. LimitKept'
    BY Zenon DEF LimitKept
<1>6. FitsInv'
    BY Zenon, NoHeapsOK DEF FitsInv, InPools
<1> QED BY Zenon, <1>2, <1>3, <1>4, <1>5, <1>6 DEF IInv, Kept

LEMMA RefuseStep ==
    ASSUME IInv, Refuse, UNCHANGED <<kind, m_max_num>>, kind # "slab_pool" => pmpool # NoHeaps
    PROVE  Kept
<1>1. /\ reply' = "null" /\ pmpool' = pmpool /\ held' = held /\ m_alloced_num' = m_alloced_num
      /\ alive' = alive /\ kind' = kind /\ m_max_num' = m_max_num
    BY Zenon DEF Refuse
<1>2. TypeInv'
    BY Zenon, <1>1 DEF IInv, TypeInv
<1>3. ListsInv'
    BY <1>1 DEF IInv, ListsInv, HeldOf
<1>4. StateInv' /\ LimitKept'
    BY Zenon, <1>1 DEF IInv, StateInv, LimitKept
<1>5. FitsInv => FitsInv'
    BY Zenon, <1>1 DEF FitsInv, BlockSize
<1> QED BY Zenon, <1>2, <1>3, <1>4, <1>5 DEF IInv, Kept

(* A block is only taken below the limit. *)
LEMMA TakeStep ==
    ASSUME IInv, NEW i \in Levels, FromPools(i),
           kind \in {"slab", "slab_t"} => m_max_num = -1 \/ m_alloced_num < m_max_num
    PROVE  Kept
<1>1. TypeInv /\ ListsInv /\ StateInv /\ LimitKept
    BY Zenon DEF IInv
<1>2. /\ ListsInv' /\ pmpool' \in [Levels -> Heaps]
      /\ held' \subseteq Handles /\ IsFiniteSet(held') /\ Cardinality(held') = Cardinality(held) + 1
      /\ Roomy /\ FitsInv => FitsInv'
      /\ alive = "up" /\ alive' = "up" /\ reply' = "block" /\ kind' = kind /\ m_max_num' = m_max_num
      /\ m_alloced_num' = IF kind \in {"slab", "slab_t"} THEN m_alloced_num + 1 ELSE 0
    BY Zenon, <1>1, FromStep
<1>3. TypeInv'
    BY <1>1, <1>2 DEF TypeInv
<1>4. StateInv'
    BY Zenon, <1>1, <1>2 DEF StateInv
<1>5. LimitKept'
    BY <1>1, <1>2 DEF LimitKept, TypeInv
<1> QED BY Zenon, <1>2, <1>3, <1>4, <1>5 DEF IInv, Kept

LEMMA FreeStep ==
    ASSUME IInv, NEW a \in held, GiveBack(a),
           m_alloced_num' = IF kind \in {"slab", "slab_t"} THEN m_alloced_num - 1 ELSE m_alloced_num
    PROVE  Kept
<1>1. TypeInv /\ ListsInv /\ StateInv /\ LimitKept
    BY Zenon DEF IInv
<1>2. /\ ListsInv' /\ pmpool' \in [Levels -> Heaps]
      /\ held' \subseteq Handles /\ IsFiniteSet(held') /\ Cardinality(held') = Cardinality(held) - 1
      /\ FitsInv => FitsInv'
      /\ alive = "up" /\ alive' = "up" /\ reply' = "none" /\ kind' = kind /\ m_max_num' = m_max_num
    BY Zenon, <1>1, GiveStep
<1>3. TypeInv'
    BY <1>1, <1>2 DEF TypeInv
<1>4. StateInv'
    BY Zenon, <1>1, <1>2 DEF StateInv
<1>5. LimitKept'
    <2>1. Cardinality(held) \in Nat
        BY Zenon, <1>1, FS_CardinalityType DEF TypeInv
    <2> QED BY <1>1, <1>2, <2>1 DEF LimitKept, TypeInv
<1> QED BY Zenon, <1>2, <1>3, <1>4, <1>5 DEF IInv, Kept

(* Alloc of an allocator of one size. *)
LEMMA OneSizeStep ==
    ASSUME IInv, mempool_alloc(0),
           kind \in {"slab", "slab_t"} => m_max_num = -1 \/ m_alloced_num < m_max_num
    PROVE  Kept
<1>1. 0 \in Levels
    BY SlabAssumption DEF Levels
<1>2. CASE FromPools(0)
    BY Zenon, <1>1, <1>2, TakeStep
<1>3. CASE NoMemory(0) /\ Refuse /\ UNCHANGED <<kind, m_max_num>>
    <2>1. pmpool # NoHeaps
        BY Zenon, <1>1, <1>3, NoHeapsOK DEF NoMemory
    <2> QED BY Zenon, <1>3, <2>1, RefuseStep
<1> QED BY Zenon, <1>2, <1>3 DEF mempool_alloc

LEMMA InitOK == Init => IInv /\ FitsInv
<1> SUFFICES ASSUME Init PROVE IInv /\ FitsInv
    BY Zenon
<1>1. TypeInv
    BY NoHeapsOK, FS_EmptySet DEF Init, TypeInv, AllKinds
<1>2. ListsInv
    <2>1. \A i \in Levels : HeldOf(i) = {}
        BY Zenon DEF Init, HeldOf
    <2> QED BY <2>1, NoHeapsOK DEF Init, ListsInv
<1>3. StateInv /\ LimitKept
    BY Zenon DEF Init, StateInv, LimitKept
<1>4. FitsInv
    BY Zenon, NoHeapsOK DEF Init, FitsInv, InPools
<1> QED BY Zenon, <1>1, <1>2, <1>3, <1>4 DEF IInv

LEMMA NextOK == IInv /\ [Next]_vars => Kept
<1> SUFFICES ASSUME IInv, [Next]_vars PROVE Kept
    BY Zenon
<1>0. TypeInv /\ ListsInv /\ StateInv /\ LimitKept
    BY Zenon DEF IInv
<1>1. ASSUME NEW k \in Kinds, NEW n \in Limits, construct(k, n)
      PROVE  Kept
    BY Zenon, <1>1, ConstructStep
<1>2. CASE construct_pool
    BY Zenon, <1>2, ConstructPoolStep
<1>3. CASE slab_alloc_null
    <2>1. /\ alive' \in {"down", "crashed"} /\ pmpool' = NoHeaps /\ held' = {}
          /\ m_alloced_num' \in Int /\ reply' \in {"block", "null", "none"} /\ UNCHANGED <<kind, m_max_num>>
        BY Zenon, <1>0, <1>3 DEF slab_alloc_null, TypeInv
    <2> QED BY Zenon, <2>1, EndStep
<1>4. CASE slab_alloc
    <2>1. CASE alive = "up" /\ pmpool # NoHeaps /\ AtLimit /\ Refuse /\ UNCHANGED <<kind, m_max_num>>
        BY Zenon, <2>1, RefuseStep
    <2>2. CASE ~AtLimit /\ mempool_alloc(0)
        <3>1. m_max_num = -1 \/ m_alloced_num < m_max_num
            BY <1>0, <2>2 DEF AtLimit, TypeInv
        <3> QED BY Zenon, <2>2, <3>1, OneSizeStep
    <2> QED BY Zenon, <1>4, <2>1, <2>2 DEF slab_alloc, Limited
<1>5. CASE slab_t_alloc
    <2>1. CASE alive = "up" /\ pmpool # NoHeaps /\ Refuse /\ UNCHANGED <<kind, m_max_num>>
        BY Zenon, <2>1, RefuseStep
    <2>2. CASE ~(m_alloced_num >= m_max_num) /\ mempool_alloc(0)
        <3>1. m_max_num = -1 \/ m_alloced_num < m_max_num
            BY <1>0, <2>2 DEF TypeInv
        <3> QED BY Zenon, <2>2, <3>1, OneSizeStep
    <2> QED BY Zenon, <1>5, <2>1, <2>2 DEF slab_t_alloc, Limited
<1>6. CASE slab_t0_alloc
    <2>1. mempool_alloc(0) /\ kind = "slab_t0"
        BY Zenon, <1>6 DEF slab_t0_alloc, Limited
    <2>2. kind \notin {"slab", "slab_t"}
        BY Zenon, <2>1
    <2> QED BY Zenon, <2>1, <2>2, OneSizeStep
<1>7. ASSUME NEW l \in Requests, Alloc(l)
      PROVE  Kept
    <2>1. kind = "slab_pool" /\ kind \notin {"slab", "slab_t"}
        BY Zenon, <1>7 DEF Alloc
    <2>2. CASE bitp(l) <= lvl /\ MPAlloc(bitp(l))
        <3>1. bitp(l) \in Levels
            BY <2>2, SlabAssumption DEF Levels
        <3>2. CASE FromPools(bitp(l))
            BY Zenon, <2>1, <3>1, <3>2, TakeStep
        <3>3. CASE Exit /\ UNCHANGED <<kind, m_max_num>>
            <4>1. /\ alive' \in {"down", "crashed"} /\ pmpool' = NoHeaps /\ held' = {}
                  /\ m_alloced_num' \in Int /\ reply' \in {"block", "null", "none"} /\ UNCHANGED <<kind, m_max_num>>
                BY <3>3 DEF Exit
            <4> QED BY Zenon, <4>1, EndStep
        <3> QED BY Zenon, <2>2, <3>2, <3>3 DEF MPAlloc
    <2>3. CASE Refuse /\ UNCHANGED <<kind, m_max_num>>
        BY Zenon, <2>1, <2>3, RefuseStep
    <2> QED BY Zenon, <1>7, <2>2, <2>3 DEF Alloc
<1>8. ASSUME NEW a \in held, slab_free(a) \/ slab_t0_free(a) \/ Free(a)
      PROVE  Kept
    <2>1. /\ GiveBack(a)
          /\ m_alloced_num' = IF kind \in {"slab", "slab_t"} THEN m_alloced_num - 1 ELSE m_alloced_num
        BY Zenon, <1>8 DEF slab_free, slab_t0_free, Free
    <2> QED BY Zenon, <2>1, FreeStep
<1>9. CASE destroy
    <2>1. /\ alive' \in {"down", "crashed"} /\ pmpool' = NoHeaps /\ held' = {}
          /\ m_alloced_num' \in Int /\ reply' \in {"block", "null", "none"} /\ UNCHANGED <<kind, m_max_num>>
        BY <1>9 DEF destroy
    <2> QED BY <2>1, EndStep
<1>10. CASE UNCHANGED vars
    <2>1. TypeInv' /\ StateInv' /\ LimitKept'
        BY Zenon, <1>0, <1>10 DEF vars, TypeInv, StateInv, LimitKept
    <2>2. ListsInv'
        BY <1>0, <1>10 DEF vars, ListsInv, HeldOf
    <2>3. FitsInv => FitsInv'
        BY Zenon, <1>10 DEF vars, FitsInv, BlockSize
    <2> QED BY Zenon, <2>1, <2>2, <2>3 DEF IInv, Kept
<1> QED BY Zenon, <1>1, <1>2, <1>3, <1>4, <1>5, <1>6, <1>7, <1>8, <1>9, <1>10 DEF Next

-----------------------------------------------------------------------------
(* The chains are well-formed and their lists exact after any sequence of  *)
(* calls, even where a constructor's pool is too small for one block.      *)
THEOREM Invariance == Spec => []IInv
<1>1. Init => IInv
    BY Zenon, InitOK
<1>2. IInv /\ [Next]_vars => IInv'
    BY Zenon, NextOK DEF Kept
<1> QED BY <1>1, <1>2, PTL DEF Spec

(* In every pool of every size the used list is made of the blocks that    *)
(* the callers hold and the free list of all the others, and every block   *)
(* lies inside its pool: slab_alloc, slab_free and init_memblock keep the  *)
(* header pointers so, if a pool has room for its header and one block.    *)
THEOREM ListsAreExact ==
    ASSUME Roomy
    PROVE  Spec => []ListsExact
<1>1. Init => IInv /\ FitsInv
    BY Zenon, InitOK
<1>2. (IInv /\ FitsInv) /\ [Next]_vars => (IInv /\ FitsInv)'
    BY Zenon, NextOK DEF Kept
<1>3. IInv /\ FitsInv => ListsExact
    BY Zenon DEF IInv, FitsInv, InPools, ListsInv, ListsExact
<1> QED BY <1>1, <1>2, <1>3, PTL DEF Spec

(* The counter m_alloced_num of pure_slab and pure_slab_t is the number of *)
(* blocks the callers hold, and their limit is never passed.               *)
THEOREM LimitIsKept == Spec => []LimitKept
<1>1. IInv => LimitKept
    BY Zenon DEF IInv
<1> QED BY <1>1, Invariance, PTL

(* A chain only gets another pool when every block of it is in use: the    *)
(* search of mempool_alloc passes by no free block.                        *)
THEOREM GrowthIsNeeded == Spec => GrowsOnlyWhenFull
<1>1. IInv /\ [Next]_vars =>
        [\A i \in Levels : Len(pmpool'[i].slots) > Len(pmpool[i].slots) => InUse(i)]_vars
    <2> SUFFICES ASSUME IInv, Next, NEW i \in Levels, Len(pmpool'[i].slots) > Len(pmpool[i].slots)
                 PROVE  InUse(i)
        BY Zenon
    <2>0. TypeInv /\ ListsInv /\ StateInv /\ 0 \in Levels
        BY SlabAssumption DEF IInv, Levels
    <2>1. ASSUME NEW j \in Levels, FromPools(j)
          PROVE  InUse(i)
        BY Zenon, <2>0, <2>1, FromStep
    <2>2. Len(pmpool[i].slots) \in Nat
        BY <2>0 DEF ListsInv, HeapOK, Heaps
    <2>3. pmpool' # pmpool
        BY <2>2
    <2>4. pmpool' # NoHeaps
        BY <2>2, NoHeapsOK
    <2>5. CASE alive # "up"
        <3>1. pmpool[i] = NoPools /\ Pools(pmpool[i]) = {}
            BY Zenon, <2>0, <2>5, NoHeapsOK DEF StateInv
        <3> QED BY Zenon, <3>1 DEF InUse
    <2>6. ASSUME NEW a \in held, GiveBack(a)
          PROVE  FALSE
        <3>1. Len(pmpool'[i].slots) = Len(pmpool[i].slots)
            BY Zenon, <2>0, <2>6, GiveStep
        <3> QED BY <2>2, <3>1
    <2>7. CASE slab_alloc \/ slab_t_alloc \/ slab_t0_alloc
        <3>1. FromPools(0)
            BY Zenon, <2>3, <2>7 DEF slab_alloc, slab_t_alloc, slab_t0_alloc, Limited, Refuse, mempool_alloc
        <3> QED BY Zenon, <2>0, <2>1, <3>1
    <2>8. ASSUME NEW l \in Requests, Alloc(l)
          PROVE  InUse(i)
        <3>1. bitp(l) <= lvl /\ FromPools(bitp(l))
            BY Zenon, <2>3, <2>4, <2>8 DEF Alloc, MPAlloc, Refuse, Exit
        <3>2. bitp(l) \in Levels
            BY <3>1, SlabAssumption DEF Levels
        <3> QED BY Zenon, <2>1, <3>1, <3>2
    <2>9. ASSUME NEW a \in held, slab_free(a) \/ slab_t0_free(a) \/ Free(a)
          PROVE  FALSE
        BY Zenon, <2>6, <2>9 DEF slab_free, slab_t0_free, Free
    <2>10. (\E k \in Kinds, n \in Limits : construct(k, n)) \/ construct_pool => alive # "up"
        BY Zenon DEF construct, construct_pool
    <2>11. ~slab_alloc_null /\ ~destroy
        BY Zenon, <2>3, <2>4 DEF slab_alloc_null, destroy
    <2> QED BY Zenon, <2>5, <2>7, <2>8, <2>9, <2>10, <2>11 DEF Next
<1> QED BY <1>1, Invariance, PTL DEF Spec, GrowsOnlyWhenFull

(* NULL is the answer of an allocator of one size only when as many blocks *)
(* are held as its limit allows, or when malloc failed and every block of  *)
(* every pool is held: a freed block is found again wherever it lies.      *)
THEOREM NullIsJustified == Spec => NullOnlyAtLimit
<1>1. IInv /\ [Next]_vars =>
        [reply' = "null" /\ kind # "slab_pool" =>
            \/ kind # "slab_t0" /\ m_max_num # -1 /\ Cardinality(held) >= m_max_num
            \/ malloc_fails /\ InUse(0)]_vars
    <2> SUFFICES ASSUME IInv, Next, reply' = "null", kind # "slab_pool"
                 PROVE  \/ kind # "slab_t0" /\ m_max_num # -1 /\ Cardinality(held) >= m_max_num
                        \/ malloc_fails /\ InUse(0)
        BY Zenon
    <2>0. TypeInv /\ ListsInv /\ StateInv /\ LimitKept /\ 0 \in Levels
        BY SlabAssumption DEF IInv, Levels
    <2>1. ASSUME NEW j \in Levels
          PROVE  ~FromPools(j)
        <3>1. FromPools(j) => reply' = "block"
            BY Zenon, <2>0, FromStep
        <3> QED BY Zenon, <3>1
    <2>2. ASSUME mempool_alloc(0)
          PROVE  malloc_fails /\ InUse(0)
        <3>1. NoMemory(0)
            BY Zenon, <2>0, <2>1, <2>2 DEF mempool_alloc
        <3> QED BY Zenon, <2>0, <3>1, FullLevel DEF NoMemory
    <2>3. CASE slab_alloc
        <3>1. CASE alive = "up" /\ AtLimit
            <4>1. kind = "slab" /\ m_max_num # -1 /\ m_max_num <= m_alloced_num
                BY Zenon, <2>3, <3>1 DEF slab_alloc, AtLimit
            <4>2. m_alloced_num = Cardinality(held)
                BY Zenon, <2>0, <3>1, <4>1 DEF LimitKept
            <4> QED BY Zenon, <2>0, <4>1, <4>2 DEF TypeInv
        <3> QED BY Zenon, <2>2, <2>3, <3>1 DEF slab_alloc, Limited
    <2>4. CASE slab_t_alloc
        <3>1. CASE alive = "up" /\ m_alloced_num >= m_max_num
            <4>1. kind = "slab_t" /\ m_max_num # -1
                BY Zenon, <2>0, <2>4 DEF slab_t_alloc, StateInv
            <4>2. m_alloced_num = Cardinality(held)
                BY Zenon, <2>0, <3>1, <4>1 DEF LimitKept
            <4> QED BY Zenon, <3>1, <4>1, <4>2
        <3> QED BY Zenon, <2>2, <2>4, <3>1 DEF slab_t_alloc, Limited
    <2>5. CASE slab_t0_alloc
        BY Zenon, <2>2, <2>5 DEF slab_t0_alloc, Limited
    <2>6. ~slab_alloc_null
        BY Zenon, <2>0 DEF slab_alloc_null, StateInv
    <2>7. \A l \in Requests : ~Alloc(l)
        BY Zenon DEF Alloc
    <2>8. ~construct_pool /\ ~destroy /\ \A k \in Kinds, n \in Limits : ~construct(k, n)
        BY Zenon DEF construct, construct_pool, destroy
    <2>9. \A a \in held : ~slab_free(a) /\ ~slab_t0_free(a) /\ ~Free(a)
        BY Zenon DEF slab_free, slab_t0_free, Free, GiveBack
    <2> QED BY Zenon, <2>3, <2>4, <2>5, <2>6, <2>7, <2>8, <2>9 DEF Next
<1> QED BY <1>1, Invariance, PTL DEF Spec, NullOnlyAtLimit
=============================================================================
