------------------------------ MODULE BuddyProof ------------------------------
(***************************************************************************)
(* Proofs about Buddy, for every region size, MAX_ORDER and managed_start. *)
(***************************************************************************)
EXTENDS Buddy, TLAPS

(* What the lock holder's locals satisfy between two steps of a loop.      *)
LocalInv ==
  /\ InHand => blk \in Pages
  /\ op = "split" => target <= ord
  /\ op = "init" => blk <= NumBlocks

IInv == TypeOK /\ FreeListsExact /\ Partition /\ LocalInv

-----------------------------------------------------------------------------
(* Sequences used as free lists                                            *)

(* push_free puts the block in front and keeps the others.                 *)
LEMMA PushFacts ==
  ASSUME NEW S, NEW s \in Seq(S), NEW b \in S
  PROVE  /\ <<b>> \o s \in Seq(S)
         /\ Len(<<b>> \o s) = Len(s) + 1
         /\ (<<b>> \o s)[1] = b
         /\ \A i \in 1 .. Len(s) : (<<b>> \o s)[i+1] = s[i]
OBVIOUS

(* pop_free leaves the rest of the list in order.                          *)
LEMMA PopFacts ==
  ASSUME NEW S, NEW s \in Seq(S), s # <<>>
  PROVE  /\ Tail(s) \in Seq(S)
         /\ Len(s) >= 1 /\ Head(s) = s[1] /\ s[1] \in S
         /\ Len(Tail(s)) = Len(s) - 1
         /\ \A i \in 1 .. Len(s) - 1 : Tail(s)[i] = s[i+1]
OBVIOUS

(* remove_from_freelist drops one place and keeps the others in order.     *)
LEMMA WithoutFacts ==
  ASSUME NEW S, NEW s \in Seq(S), NEW i \in 1 .. Len(s)
  PROVE  /\ without(s, i) \in Seq(S)
         /\ Len(without(s, i)) = Len(s) - 1
         /\ \A j \in 1 .. Len(s) - 1 : without(s, i)[j] = IF j < i THEN s[j] ELSE s[j+1]
BY DEF without

-----------------------------------------------------------------------------
(* Tilings                                                                 *)

(* buddy_init: a block at the frontier moves the frontier.                 *)
LEMMA TilesAppend ==
  ASSUME NEW size \in [Pages -> Nat], NEW c \in Pages, NEW h \in Nat \ {0}, Tiles(size, c)
  PROVE  /\ size[c] = 0
         /\ Tiles([size EXCEPT ![c] = h], c + h)
<1> DEFINE new == [size EXCEPT ![c] = h]
<1>1. c \in Nat /\ Pages \subseteq Nat
  BY SizeAssumption DEF Pages
<1>2. size[c] = 0
  BY <1>1 DEF Tiles, Inside
<1>3. new[c] = h /\ \A p \in Pages : p # c => new[p] = size[p]
  OBVIOUS
<1> HIDE DEF new
<1>4. Inside(new, c + h)
  BY <1>1, <1>3 DEF Tiles, Inside
<1>5. NoOverlap(new)
  BY <1>1, <1>3 DEF Tiles, Inside, NoOverlap
<1>6. ASSUME NEW x \in 0 .. c+h-1 PROVE \E p \in Pages : p <= x /\ x < p + new[p]
  <2>1. CASE x < c
    <3>1. PICK p \in Pages : p <= x /\ x < p + size[p]
      BY <2>1, <1>1 DEF Tiles, Covers
    <3> QED BY <3>1, <2>1, <1>1, <1>3
  <2>2. CASE x >= c
    BY <2>2, <1>1, <1>3
  <2> QED BY <2>1, <2>2, <1>1
<1>7. Covers(new, c + h)
  BY <1>1, <1>6 DEF Covers
<1>8. Tiles(new, c + h)
  BY <1>4, <1>5, <1>7 DEF Tiles
<1> QED BY <1>2, <1>8 DEF new

(* buddy_alloc: a block of size h + h becomes two of size h.               *)
LEMMA TilesSplit ==
  ASSUME NEW size \in [Pages -> Nat], NEW b \in Pages, NEW h \in Nat \ {0},
         size[b] = h + h, Tiles(size, NumBlocks)
  PROVE  /\ b + h \in Pages /\ size[b+h] = 0
         /\ Tiles([size EXCEPT ![b] = h, ![b+h] = h], NumBlocks)
<1> DEFINE new == [size EXCEPT ![b] = h, ![b+h] = h]
<1>1. b \in Nat /\ Pages \subseteq Nat /\ NumBlocks \in Nat /\ h \in Nat /\ h > 0
  BY SizeAssumption DEF Pages
<1>2. b + h + h <= NumBlocks
  BY <1>1 DEF Tiles, Inside
<1>3. b + h \in Pages
  BY <1>1, <1>2 DEF Pages
<1>4. ASSUME NEW p \in Pages, size[p] > 0, p > b PROVE p >= b + h + h
  BY <1>1, <1>4 DEF Tiles, NoOverlap
<1>5. size[b+h] = 0
  BY <1>1, <1>3, <1>4
<1>6. new[b] = h /\ new[b+h] = h /\ \A p \in Pages : p # b /\ p # b+h => new[p] = size[p]
  BY <1>1, <1>3
<1>7. new \in [Pages -> Nat]
  BY <1>1
<1> HIDE DEF new
<1>8. Inside(new, NumBlocks)
  BY <1>1, <1>2, <1>6 DEF Tiles, Inside
<1>9. ASSUME NEW p \in Pages, NEW q \in Pages, new[p] > 0, new[q] > 0, p < q
      PROVE  p + new[p] <= q
  <2>1. size[p] > 0 /\ size[q] > 0 /\ p < q => p + size[p] <= q
    BY DEF Tiles, NoOverlap
  <2>2. size[p] > 0 /\ p < b => p + size[p] <= b
    BY <1>1 DEF Tiles, NoOverlap
  <2>3. CASE p = b \/ p = b + h
    BY <2>3, <1>9, <1>1, <1>4, <1>6
  <2>4. CASE p # b /\ p # b + h
    BY <2>1, <2>2, <2>4, <1>9, <1>1, <1>4, <1>6
  <2> QED BY <2>3, <2>4
<1>10. ASSUME NEW x \in 0 .. NumBlocks-1 PROVE \E p \in Pages : p <= x /\ x < p + new[p]
  <2>1. PICK p \in Pages : p <= x /\ x < p + size[p]
    BY DEF Tiles, Covers
  <2>2. CASE p = b
    BY <2>1, <2>2, <1>1, <1>3, <1>6
  <2>3. CASE p # b
    BY <2>1, <2>3, <1>1, <1>5, <1>6
  <2> QED BY <2>2, <2>3
<1> QED BY <1>3, <1>5, <1>8, <1>9, <1>10 DEF Tiles, NoOverlap, Covers, new

(* buddy_free: two adjacent blocks of size h become one of size h + h.     *)
LEMMA TilesMerge ==
  ASSUME NEW size \in [Pages -> Nat], NEW b \in Pages, NEW h \in Nat \ {0},
         b + h \in Pages, size[b] = h, size[b+h] = h, Tiles(size, NumBlocks)
  PROVE  Tiles([size EXCEPT ![b] = h + h, ![b+h] = 0], NumBlocks)
<1> DEFINE new == [size EXCEPT ![b] = h + h, ![b+h] = 0]
<1>1. b \in Nat /\ Pages \subseteq Nat /\ NumBlocks \in Nat /\ h \in Nat /\ h > 0
  BY SizeAssumption DEF Pages
<1>2. b + h + h <= NumBlocks
  BY <1>1 DEF Tiles, Inside
<1>3. ASSUME NEW p \in Pages, size[p] > 0, p > b + h PROVE p >= b + h + h
  BY <1>1, <1>3 DEF Tiles, NoOverlap
<1>4. ASSUME NEW p \in Pages, size[p] > 0, p > b PROVE p >= b + h
  BY <1>1, <1>4 DEF Tiles, NoOverlap
<1>5. new[b] = h + h /\ new[b+h] = 0 /\ \A p \in Pages : p # b /\ p # b+h => new[p] = size[p]
  BY <1>1
<1>6. new \in [Pages -> Nat]
  BY <1>1
<1> HIDE DEF new
<1>7. Inside(new, NumBlocks)
  BY <1>1, <1>2, <1>5 DEF Tiles, Inside
<1>8. ASSUME NEW p \in Pages, NEW q \in Pages, new[p] > 0, new[q] > 0, p < q
      PROVE  p + new[p] <= q
  <2>1. size[p] > 0 /\ size[q] > 0 /\ p < q => p + size[p] <= q
    BY DEF Tiles, NoOverlap
  <2>2. CASE p = b
    BY <2>2, <1>8, <1>1, <1>3, <1>4, <1>5
  <2>3. CASE p # b
    BY <2>1, <2>3, <1>8, <1>1, <1>5
  <2> QED BY <2>2, <2>3
<1>9. ASSUME NEW x \in 0 .. NumBlocks-1 PROVE \E p \in Pages : p <= x /\ x < p + new[p]
  <2>1. PICK p \in Pages : p <= x /\ x < p + size[p]
    BY DEF Tiles, Covers
  <2>2. CASE p = b \/ p = b + h
    <3>1. b <= x /\ x < b + new[b]
      BY <2>1, <2>2, <1>1, <1>5
    <3> QED BY <3>1
  <2>3. CASE p # b /\ p # b + h
    BY <2>1, <2>3, <1>5
  <2> QED BY <2>2, <2>3
<1> QED BY <1>7, <1>8, <1>9 DEF Tiles, NoOverlap, Covers, new

-----------------------------------------------------------------------------
(* Free lists and block_meta                                               *)

(* Marking a block free and pushing it keeps lists and marks in step.      *)
LEMMA PushExact ==
  ASSUME TypeOK, FreeListsExact,
         NEW o \in Orders, NEW b \in Pages, ~is_head_of_free_block[b],
         push_free(o, b),
         is_head_of_free_block' = [is_head_of_free_block EXCEPT ![b] = TRUE],
         free_order' = [free_order EXCEPT ![b] = o]
  PROVE  FreeListsExact' /\ free_area' \in [Orders -> Seq(Pages)]
<1> DEFINE s == free_area[o]
           t == <<b>> \o s
<1>1. s \in Seq(Pages)
  BY DEF TypeOK
<1>2. /\ t \in Seq(Pages) /\ Len(t) = Len(s) + 1 /\ t[1] = b
      /\ \A i \in 1 .. Len(s) : t[i+1] = s[i]
  BY <1>1, PushFacts
<1>3. /\ free_area'[o] = t
      /\ \A u \in Orders : u # o => free_area'[u] = free_area[u]
      /\ free_area' \in [Orders -> Seq(Pages)]
  BY <1>2 DEF TypeOK, push_free
<1>4. \A u \in Orders : free_area[u] \in Seq(Pages) /\ \A i \in 1 .. Len(free_area[u]) : free_area[u][i] # b
  BY DEF TypeOK, FreeListsExact
<1>5. \A i \in 1 .. Len(t) : i = 1 \/ (i-1 \in 1 .. Len(s) /\ t[i] = s[i-1])
  BY <1>1, <1>2
<1>6. /\ is_head_of_free_block'[b] /\ free_order'[b] = o
      /\ \A p \in Pages : p # b => /\ is_head_of_free_block'[p] = is_head_of_free_block[p]
                                   /\ free_order'[p] = free_order[p]
  BY DEF TypeOK
<1> HIDE DEF s, t
<1>7. ASSUME NEW u \in Orders, NEW i \in 1 .. Len(free_area'[u])
      PROVE  LET c == free_area'[u][i]
             IN /\ is_head_of_free_block'[c] /\ free_order'[c] = u
                /\ \A j \in 1 .. Len(free_area'[u]) : free_area'[u][j] = c => i = j
  <2>1. CASE u # o
    <3>1. free_area'[u] = free_area[u] /\ free_area[u][i] \in Pages /\ free_area[u][i] # b
      BY <2>1, <1>3, <1>4
    <3> QED BY <3>1, <1>6 DEF FreeListsExact
  <2>2. CASE u = o
    <3>1. free_area'[u] = t /\ s = free_area[o]
      BY <2>2, <1>3 DEF s
    <3>2. \A j \in 1 .. Len(s) : s[j] \in Pages /\ s[j] # b /\ is_head_of_free_block[s[j]] /\ free_order[s[j]] = o
      BY <1>4, <1>1 DEF FreeListsExact, s
    <3>3. \A j, k \in 1 .. Len(s) : s[j] = s[k] => j = k
      BY DEF FreeListsExact, s
    <3>4. CASE i = 1
      <4>1. \A j \in 1 .. Len(t) : t[j] = b => j = 1
        BY <3>2, <1>5
      <4> QED BY <4>1, <3>1, <3>4, <2>2, <1>2, <1>6
    <3>5. CASE i # 1
      <4>1. i-1 \in 1 .. Len(s) /\ t[i] = s[i-1]
        BY <3>1, <3>5, <1>5
      <4>2. ASSUME NEW j \in 1 .. Len(t), t[j] = t[i]
            PROVE  i = j
        <5>1. CASE j = 1
          BY <5>1, <4>1, <4>2, <3>2, <1>2
        <5>2. CASE j # 1
          <6>1. j-1 \in 1 .. Len(s) /\ t[j] = s[j-1]
            BY <5>2, <1>5
          <6>2. j-1 = i-1
            BY <6>1, <4>1, <4>2, <3>3
          <6> QED BY <6>2, <3>1
        <5> QED BY <5>1, <5>2
      <4> QED BY <4>1, <4>2, <3>1, <3>2, <2>2, <1>6
    <3> QED BY <3>4, <3>5
  <2> QED BY <2>1, <2>2
<1>8. ASSUME NEW p \in Pages, is_head_of_free_block'[p]
      PROVE  \E i \in 1 .. Len(free_area'[free_order'[p]]) : free_area'[free_order'[p]][i] = p
  <2>1. CASE p = b
    <3>1. 1 \in 1 .. Len(t) /\ free_area'[free_order'[p]] = t
      BY <2>1, <1>1, <1>2, <1>3, <1>6
    <3> QED BY <3>1, <2>1, <1>2
  <2>2. CASE p # b
    <3>1. is_head_of_free_block[p] /\ free_order'[p] = free_order[p] /\ free_order[p] \in Orders
      BY <2>2, <1>6, <1>8 DEF TypeOK
    <3>2. PICK i \in 1 .. Len(free_area[free_order[p]]) : free_area[free_order[p]][i] = p
      BY <3>1 DEF FreeListsExact
    <3>3. CASE free_order[p] # o
      BY <3>1, <3>2, <3>3, <1>3
    <3>4. CASE free_order[p] = o
      <4>1. i \in 1 .. Len(s) /\ s[i] = p
        BY <3>2, <3>4 DEF s
      <4>2. i+1 \in 1 .. Len(t) /\ t[i+1] = p
        BY <4>1, <1>1, <1>2
      <4> QED BY <4>2, <3>1, <3>4, <1>3
    <3> QED BY <3>3, <3>4
  <2> QED BY <2>1, <2>2
<1> QED BY <1>3, <1>7, <1>8 DEF FreeListsExact

(* Taking a block off its list and unmarking it does, too: the list after  *)
(* pop_free or remove_from_freelist, with place i gone, is t.              *)
LEMMA RemoveExact ==
  ASSUME TypeOK, FreeListsExact,
         NEW o \in Orders, NEW i \in 1 .. Len(free_area[o]), NEW t \in Seq(Pages),
         Len(t) = Len(free_area[o]) - 1,
         \A j \in 1 .. Len(t) : t[j] = IF j < i THEN free_area[o][j] ELSE free_area[o][j+1],
         free_area' = [free_area EXCEPT ![o] = t],
         is_head_of_free_block' = [is_head_of_free_block EXCEPT ![free_area[o][i]] = FALSE],
         free_order' = free_order
  PROVE  FreeListsExact' /\ free_area' \in [Orders -> Seq(Pages)]
<1> DEFINE s == free_area[o]
           b == s[i]
<1>1. s \in Seq(Pages) /\ b \in Pages /\ Len(s) \in Nat /\ i \in 1 .. Len(s)
  BY DEF TypeOK
<1>2. /\ free_area'[o] = t
      /\ \A u \in Orders : u # o => free_area'[u] = free_area[u]
      /\ free_area' \in [Orders -> Seq(Pages)]
  BY DEF TypeOK
<1>3. ~is_head_of_free_block'[b] /\ \A p \in Pages : p # b => is_head_of_free_block'[p] = is_head_of_free_block[p]
  BY <1>1 DEF TypeOK
<1>4. is_head_of_free_block[b] /\ free_order[b] = o /\ \A j \in 1 .. Len(s) : s[j] = b => j = i
  BY DEF FreeListsExact
<1>5. /\ Len(t) = Len(s) - 1
      /\ \A j \in 1 .. Len(t) : t[j] = IF j < i THEN s[j] ELSE s[j+1]
  OBVIOUS
<1> HIDE DEF s, b
<1>6. ASSUME NEW u \in Orders, NEW m \in 1 .. Len(free_area'[u])
      PROVE  LET c == free_area'[u][m]
             IN /\ is_head_of_free_block'[c] /\ free_order'[c] = u
                /\ \A j \in 1 .. Len(free_area'[u]) : free_area'[u][j] = c => m = j
  <2>1. CASE u # o
    <3>1. free_area'[u] = free_area[u] /\ free_area[u] \in Seq(Pages) /\ free_area[u][m] \in Pages
      BY <2>1, <1>2 DEF TypeOK
    <3>2. free_order[free_area[u][m]] = u /\ is_head_of_free_block[free_area[u][m]]
      BY <3>1 DEF FreeListsExact
    <3> QED BY <3>1, <3>2, <2>1, <1>3, <1>4 DEF FreeListsExact
  <2>2. CASE u = o
    <3>1. free_area'[u] = t /\ m \in 1 .. Len(t)
      BY <2>2, <1>2
    <3>2. \A j, k \in 1 .. Len(s) : s[j] = s[k] => j = k
      BY DEF FreeListsExact, s
    <3>3. \A j \in 1 .. Len(s) : s[j] \in Pages /\ is_head_of_free_block[s[j]] /\ free_order[s[j]] = o
      BY <1>1 DEF FreeListsExact, s
    <3> DEFINE place == [j \in 1 .. Len(t) |-> IF j < i THEN j ELSE j + 1]
    <3>4. \A j \in 1 .. Len(t) : place[j] \in 1 .. Len(s) /\ t[j] = s[place[j]] /\ place[j] # i
      BY <1>1, <1>5
    <3>5. \A j, k \in 1 .. Len(t) : place[j] = place[k] => j = k
      BY <1>1, <1>5
    <3> HIDE DEF place
    <3>6. ASSUME NEW j \in 1 .. Len(t), t[j] = t[m] PROVE m = j
      <4>1. s[place[j]] = s[place[m]] /\ place[j] \in 1 .. Len(s) /\ place[m] \in 1 .. Len(s)
        BY <3>1, <3>4, <3>6
      <4>2. place[j] = place[m]
        BY <4>1, <3>2
      <4> QED BY <4>2, <3>1, <3>5
    <3>7. t[m] \in Pages /\ is_head_of_free_block[t[m]] /\ free_order[t[m]] = o /\ t[m] # b
      BY <3>1, <3>3, <3>4, <1>4
    <3> QED BY <3>1, <3>6, <3>7, <2>2, <1>3
  <2> QED BY <2>1, <2>2
<1>7. ASSUME NEW p \in Pages, is_head_of_free_block'[p]
      PROVE  \E m \in 1 .. Len(free_area'[free_order'[p]]) : free_area'[free_order'[p]][m] = p
  <2>1. p # b /\ is_head_of_free_block[p] /\ free_order[p] \in Orders
    BY <1>3, <1>7 DEF TypeOK
  <2>2. PICK m \in 1 .. Len(free_area[free_order[p]]) : free_area[free_order[p]][m] = p
    BY <2>1 DEF FreeListsExact
  <2>3. CASE free_order[p] # o
    BY <2>1, <2>2, <2>3, <1>2
  <2>4. CASE free_order[p] = o
    <3>1. m \in 1 .. Len(s) /\ s[m] = p /\ m # i
      BY <2>1, <2>2, <2>4 DEF s, b
    <3>2. CASE m < i
      <4>1. m \in 1 .. Len(t) /\ t[m] = p
        BY <3>1, <3>2, <1>1, <1>5
      <4> QED BY <4>1, <2>4, <1>2
    <3>3. CASE m > i
      <4>1. m-1 \in 1 .. Len(t) /\ t[m-1] = p
        BY <3>1, <3>3, <1>1, <1>5
      <4> QED BY <4>1, <2>4, <1>2
    <3> QED BY <3>1, <3>2, <3>3, <1>1
  <2> QED BY <2>3, <2>4
<1> QED BY <1>2, <1>6, <1>7 DEF FreeListsExact

-----------------------------------------------------------------------------
(* Every step keeps the invariant                                          *)

LEMMA BlockSizeType ==
  ASSUME TypeOK
  PROVE  /\ BlockSize \in [Pages -> Nat]
         /\ \A p \in Pages : is_head_of_free_block[p] => BlockSize[p] = 2^free_order[p] /\ BlockSize[p] > 0
         /\ \A p \in Pages : ~is_head_of_free_block[p] /\ is_head_of_alloc_block[p]
                               => BlockSize[p] = 2^alloc_order[p] /\ BlockSize[p] > 0
BY PowerAssumption DEF TypeOK, BlockSize, Orders

LEMMA InitIInv == Init => IInv
<1> SUFFICES ASSUME Init PROVE IInv
  OBVIOUS
<1> USE SizeAssumption, NullAssumption DEF Init, Pages, Orders
<1>1. TypeOK
  BY DEF TypeOK
<1>2. FreeListsExact
  BY DEF FreeListsExact
<1>3. OneBlockPerHead /\ LocalInv
  BY DEF OneBlockPerHead, LocalInv, InHand
<1>4. BlockSize = [p \in Pages |-> 0]
  BY DEF BlockSize, InHand
<1>5. Tiles(BlockSize, 0)
  BY <1>4 DEF Tiles, Inside, NoOverlap, Covers
<1> QED
  BY <1>1, <1>2, <1>3, <1>5 DEF IInv, Partition

LEMMA CarveIInv ==
  ASSUME IInv, NEW o \in Orders, buddy_init_carve(o)
  PROVE  IInv'
<1>1. /\ blk \in Pages /\ blk \in Nat /\ 2^o \in Nat \ {0} /\ blk + 2^o <= NumBlocks
      /\ op = "init" /\ op' = "init" /\ blk' = blk + 2^o
  <2>1. 2^o \in Nat \ {0} /\ 2^0 = 1
    BY PowerAssumption DEF Orders
  <2>2. /\ blk \in Nat /\ blk \in Pages /\ blk < NumBlocks /\ NumBlocks \in Nat
        /\ op = "init" /\ op' = "init" /\ blk' = blk + 2^o
    BY SizeAssumption DEF buddy_init_carve, IInv, TypeOK, Pages
  <2>3. 2^o = 1 \/ 2^o <= NumBlocks - blk
    BY <2>1 DEF buddy_init_carve, fits
  <2>4. blk + 2^o <= NumBlocks
    BY <2>1, <2>2, <2>3
  <2> QED BY <2>1, <2>2, <2>4
<1>2. BlockSize \in [Pages -> Nat] /\ Tiles(BlockSize, blk)
  BY <1>1, BlockSizeType DEF IInv, Partition
<1>3. BlockSize[blk] = 0 /\ Tiles([BlockSize EXCEPT ![blk] = 2^o], blk + 2^o)
  BY <1>1, <1>2, TilesAppend
<1>4. ~is_head_of_free_block[blk] /\ ~is_head_of_alloc_block[blk]
  BY <1>1, <1>3, BlockSizeType DEF IInv
<1>5. FreeListsExact' /\ free_area' \in [Orders -> Seq(Pages)]
  BY <1>1, <1>4, PushExact DEF buddy_init_carve, IInv
<1>6. TypeOK'
  <2>1. is_head_of_free_block' \in [Pages -> BOOLEAN]
    BY DEF buddy_init_carve, IInv, TypeOK
  <2>2. free_order' \in [Pages -> Orders] /\ blk' \in Nat
    BY <1>1 DEF buddy_init_carve, IInv, TypeOK
  <2> QED BY <2>1, <2>2, <1>5 DEF buddy_init_carve, IInv, TypeOK
<1>7. ASSUME NEW p \in Pages PROVE BlockSize'[p] = [BlockSize EXCEPT ![blk] = 2^o][p]
  BY <1>1, <1>2 DEF buddy_init_carve, IInv, TypeOK, BlockSize, InHand
<1>8. BlockSize' = [BlockSize EXCEPT ![blk] = 2^o]
  BY <1>2, <1>7 DEF BlockSize
<1>9. Partition'
  BY <1>1, <1>3, <1>4, <1>8 DEF buddy_init_carve, IInv, TypeOK, Partition, OneBlockPerHead, InHand
<1> QED BY <1>1, <1>5, <1>6, <1>9 DEF IInv, LocalInv, InHand

LEMMA InitDoneIInv ==
  ASSUME IInv, buddy_init_done
  PROVE  IInv'
<1> USE DEF buddy_init_done, IInv, meta
<1>1. blk = NumBlocks
  BY SizeAssumption DEF LocalInv, TypeOK
<1>2. BlockSize' = BlockSize
  BY DEF BlockSize, InHand
<1>3. Partition'
  BY <1>1, <1>2 DEF Partition, OneBlockPerHead, InHand
<1>4. TypeOK' /\ FreeListsExact' /\ LocalInv'
  BY DEF TypeOK, FreeListsExact, LocalInv, InHand
<1> QED BY <1>3, <1>4

(* buddy_alloc takes the head of a free list in hand: its size is kept.    *)
LEMMA AllocIInv ==
  ASSUME IInv, NEW n, NEW k \in Orders, buddy_alloc(n, k)
  PROVE  IInv'
<1> DEFINE s == free_area[k]
           b == s[1]
<1>1. /\ s \in Seq(Pages) /\ Tail(s) \in Seq(Pages) /\ Head(s) = b /\ b \in Pages
      /\ 1 \in 1 .. Len(s) /\ Len(Tail(s)) = Len(s) - 1
      /\ \A i \in 1 .. Len(s) - 1 : Tail(s)[i] = s[i+1]
  BY PopFacts DEF buddy_alloc, IInv, TypeOK
<1>2. is_head_of_free_block[b] /\ free_order[b] = k /\ ~is_head_of_alloc_block[b]
  BY <1>1 DEF IInv, FreeListsExact, Partition, OneBlockPerHead
<1>3. /\ op = "idle" /\ op' = "split" /\ blk' = b /\ ord' = k
      /\ target' \in Orders /\ target' <= ord'
      /\ is_head_of_free_block' = [is_head_of_free_block EXCEPT ![b] = FALSE]
      /\ free_area' = [free_area EXCEPT ![k] = Tail(s)]
      /\ UNCHANGED <<free_order, is_head_of_alloc_block, alloc_order, owner_slab>>
  BY <1>1 DEF buddy_alloc, Orders
<1> HIDE DEF s, b
<1>4. FreeListsExact' /\ free_area' \in [Orders -> Seq(Pages)]
  <2>1. \A j \in 1 .. Len(Tail(s)) : Tail(s)[j] = IF j < 1 THEN s[j] ELSE s[j+1]
    BY <1>1
  <2> QED BY <2>1, <1>1, <1>3, RemoveExact DEF IInv, s, b
<1>5. TypeOK'
  <2>1. is_head_of_free_block' \in [Pages -> BOOLEAN]
    BY <1>3 DEF IInv, TypeOK
  <2>2. blk' \in Nat
    BY <1>1, <1>3, SizeAssumption DEF Pages
  <2> QED BY <2>1, <2>2, <1>3, <1>4 DEF IInv, TypeOK
<1>6. ASSUME NEW p \in Pages PROVE BlockSize'[p] = BlockSize[p]
  BY <1>1, <1>2, <1>3 DEF IInv, TypeOK, BlockSize, InHand
<1>7. BlockSize' = BlockSize
  BY <1>6 DEF BlockSize
<1>8. OneBlockPerHead'
  BY <1>1, <1>2, <1>3 DEF IInv, TypeOK, Partition, OneBlockPerHead, InHand
<1>9. Partition' /\ LocalInv'
  BY <1>1, <1>3, <1>7, <1>8 DEF IInv, Partition, LocalInv
<1> QED BY <1>4, <1>5, <1>9 DEF IInv

(* A pass of the splitting loop halves the block in hand.                  *)
LEMMA SplitIInv ==
  ASSUME IInv, buddy_alloc_split
  PROVE  IInv'
<1> DEFINE k == ord - 1
           h == 2^k
           b == blk + h
<1>1. /\ op = "split" /\ op' = "split" /\ blk' = blk /\ ord' = k /\ target' = target /\ ord > target
      /\ is_head_of_free_block' = [is_head_of_free_block EXCEPT ![b] = TRUE]
      /\ free_order' = [free_order EXCEPT ![b] = k]
      /\ push_free(k, b)
      /\ UNCHANGED <<is_head_of_alloc_block, alloc_order, owner_slab>>
  BY DEF buddy_alloc_split
<1>2. /\ ord \in Orders /\ target \in Orders /\ k \in Orders /\ target <= k
      /\ h \in Nat \ {0} /\ 2^ord = h + h
  BY <1>1, SizeAssumption, PowerAssumption DEF IInv, TypeOK, Orders
<1>3. blk \in Pages /\ ~is_head_of_free_block[blk] /\ ~is_head_of_alloc_block[blk]
  BY <1>1 DEF IInv, LocalInv, Partition, OneBlockPerHead, InHand
<1>4. BlockSize \in [Pages -> Nat] /\ BlockSize[blk] = h + h /\ Tiles(BlockSize, NumBlocks)
  BY <1>1, <1>2, <1>3, BlockSizeType DEF IInv, Partition, BlockSize, InHand
<1> HIDE DEF k, h, b
<1>5. /\ b \in Pages /\ BlockSize[b] = 0
      /\ Tiles([BlockSize EXCEPT ![blk] = h, ![b] = h], NumBlocks)
  BY <1>2, <1>3, <1>4, TilesSplit DEF b
<1>6. ~is_head_of_free_block[b] /\ ~is_head_of_alloc_block[b] /\ b # blk
  BY <1>2, <1>4, <1>5, BlockSizeType DEF IInv
<1>7. FreeListsExact' /\ free_area' \in [Orders -> Seq(Pages)]
  BY <1>1, <1>2, <1>5, <1>6, PushExact DEF IInv
<1>8. TypeOK'
  <2>1. is_head_of_free_block' \in [Pages -> BOOLEAN]
    BY <1>1 DEF IInv, TypeOK
  <2>2. free_order' \in [Pages -> Orders]
    BY <1>1, <1>2 DEF IInv, TypeOK
  <2> QED BY <2>1, <2>2, <1>1, <1>2, <1>7 DEF IInv, TypeOK
<1>9. ASSUME NEW p \in Pages PROVE BlockSize'[p] = [BlockSize EXCEPT ![blk] = h, ![b] = h][p]
  <2>1. CASE p = b
    BY <2>1, <1>1, <1>4, <1>5 DEF IInv, TypeOK, BlockSize, h
  <2>2. CASE p = blk
    BY <2>2, <1>1, <1>3, <1>4, <1>6 DEF IInv, TypeOK, BlockSize, InHand, h
  <2>3. CASE p # b /\ p # blk
    BY <2>3, <1>1, <1>4 DEF IInv, TypeOK, BlockSize, InHand
  <2> QED BY <2>1, <2>2, <2>3
<1>10. BlockSize' = [BlockSize EXCEPT ![blk] = h, ![b] = h]
  BY <1>4, <1>9 DEF BlockSize
<1>11. OneBlockPerHead'
  BY <1>1, <1>5, <1>6 DEF IInv, TypeOK, Partition, OneBlockPerHead, InHand
<1>12. Partition' /\ LocalInv'
  BY <1>1, <1>2, <1>3, <1>5, <1>10, <1>11 DEF Partition, LocalInv
<1> QED BY <1>7, <1>8, <1>12 DEF IInv

(* The block in hand becomes an allocated block of the same size.          *)
LEMMA AllocDoneIInv ==
  ASSUME IInv, buddy_alloc_done
  PROVE  IInv'
<1> USE DEF buddy_alloc_done, IInv
<1>1. blk \in Pages /\ ~is_head_of_free_block[blk] /\ ~is_head_of_alloc_block[blk]
  BY DEF LocalInv, Partition, OneBlockPerHead, InHand
<1>2. is_head_of_free_block' = is_head_of_free_block
  BY <1>1 DEF TypeOK
<1>3. TypeOK'
  <2>1. is_head_of_alloc_block' \in [Pages -> BOOLEAN]
    BY DEF TypeOK
  <2>2. alloc_order' \in [Pages -> Orders]
    BY DEF TypeOK
  <2>3. 0 \in Orders
    BY SizeAssumption DEF Orders
  <2> QED BY <2>1, <2>2, <2>3, <1>2 DEF TypeOK
<1>4. ASSUME NEW p \in Pages PROVE BlockSize'[p] = BlockSize[p]
  BY <1>1, <1>2 DEF TypeOK, BlockSize, InHand
<1>5. BlockSize' = BlockSize
  BY <1>4 DEF BlockSize
<1>6. OneBlockPerHead'
  BY <1>1, <1>2 DEF TypeOK, Partition, OneBlockPerHead, InHand
<1>7. FreeListsExact'
  BY <1>2 DEF FreeListsExact
<1> QED BY <1>3, <1>5, <1>6, <1>7 DEF Partition, LocalInv, InHand

(* buddy_free takes an allocated block in hand.                            *)
LEMMA FreeIInv ==
  ASSUME IInv, NEW b \in Pages, buddy_free(b)
  PROVE  IInv'
<1> USE DEF buddy_free, IInv
<1>1. is_head_of_alloc_block[b] /\ ~is_head_of_free_block[b]
  BY DEF Partition, OneBlockPerHead
<1>2. TypeOK'
  <2>1. is_head_of_alloc_block' \in [Pages -> BOOLEAN]
    BY DEF TypeOK
  <2>2. blk' \in Nat
    BY SizeAssumption DEF Pages
  <2> QED BY <2>1, <2>2 DEF TypeOK
<1>3. ASSUME NEW p \in Pages PROVE BlockSize'[p] = BlockSize[p]
  BY <1>1 DEF TypeOK, BlockSize, InHand
<1>4. BlockSize' = BlockSize
  BY <1>3 DEF BlockSize
<1>5. OneBlockPerHead'
  BY <1>1 DEF TypeOK, Partition, OneBlockPerHead, InHand
<1>6. FreeListsExact'
  BY DEF FreeListsExact
<1> QED BY <1>2, <1>4, <1>5, <1>6 DEF Partition, LocalInv, InHand

(* A pass of the merging loop joins the block in hand with its buddy,      *)
(* which is next to it whatever managed_start is.                          *)
LEMMA MergeIInv ==
  ASSUME IInv, buddy_free_merge
  PROVE  IInv'
<1> DEFINE b == buddy_of(blk, ord)
           h == 2^ord
           low == IF b < blk THEN b ELSE blk
<1>1. /\ op = "merge" /\ op' = "merge" /\ ord' = ord + 1 /\ target' = target /\ blk' = low
      /\ is_head_of_free_block' = [is_head_of_free_block EXCEPT ![b] = FALSE]
      /\ UNCHANGED <<free_order, is_head_of_alloc_block, alloc_order, owner_slab>>
      /\ ord < MaxOrder /\ b \in Pages /\ is_head_of_free_block[b] /\ free_order[b] = ord
      /\ ~is_head_of_alloc_block[b]
  BY DEF buddy_free_merge, mergeable
<1>2. PICK i \in 1 .. Len(free_area[ord]) :
        free_area[ord][i] = b /\ free_area' = [free_area EXCEPT ![ord] = without(@, i)]
  BY DEF buddy_free_merge
<1>3. /\ ord \in Orders /\ ord + 1 \in Orders /\ h \in Nat \ {0} /\ 2^(ord+1) = h + h
      /\ free_area[ord] \in Seq(Pages)
  <2>1. ord \in Orders /\ ord + 1 \in Orders /\ free_area[ord] \in Seq(Pages)
    BY <1>1, SizeAssumption DEF IInv, TypeOK, Orders
  <2>2. (ord + 1) - 1 = ord /\ ord + 1 > 0
    BY <2>1, SizeAssumption DEF Orders
  <2> QED BY <2>1, <2>2, PowerAssumption DEF Orders
<1>4. blk \in Pages /\ ~is_head_of_free_block[blk] /\ ~is_head_of_alloc_block[blk] /\ b # blk
  BY <1>1 DEF IInv, LocalInv, Partition, OneBlockPerHead, InHand
<1>5. b = blk + h \/ b = blk - h
  BY DEF buddy_of
<1>6. /\ BlockSize \in [Pages -> Nat] /\ Tiles(BlockSize, NumBlocks)
      /\ BlockSize[blk] = h /\ BlockSize[b] = h
  BY <1>1, <1>4, BlockSizeType DEF IInv, Partition, BlockSize, InHand
<1> HIDE DEF b, h
<1>7. /\ low \in Pages /\ low + h \in Pages
      /\ {low, low + h} = {blk, b} /\ low # low + h
      /\ BlockSize[low] = h /\ BlockSize[low + h] = h
  <2>1. blk \in Nat /\ b \in Nat /\ h \in Nat /\ h > 0
    BY <1>1, <1>3, <1>4, SizeAssumption DEF Pages
  <2>2. CASE b = blk + h
    BY <2>1, <2>2, <1>1, <1>4, <1>6
  <2>3. CASE b = blk - h
    <3>1. low = b /\ low + h = blk
      BY <2>1, <2>3
    <3> QED BY <3>1, <2>1, <1>1, <1>4, <1>6
  <2> QED BY <2>2, <2>3, <1>5
<1> HIDE DEF low
<1> DEFINE high == low + h
           new == [BlockSize EXCEPT ![low] = h + h, ![high] = 0]
<1>8. Tiles(new, NumBlocks)
  BY <1>3, <1>6, <1>7, TilesMerge
<1>9. FreeListsExact' /\ free_area' \in [Orders -> Seq(Pages)]
  <2> DEFINE t == without(free_area[ord], i)
  <2>1. t \in Seq(Pages) /\ Len(t) = Len(free_area[ord]) - 1
    BY <1>2, <1>3, WithoutFacts
  <2>2. \A j \in 1 .. Len(t) : t[j] = IF j < i THEN free_area[ord][j] ELSE free_area[ord][j+1]
    BY <2>1, <1>2, <1>3, WithoutFacts
  <2>3. free_area' = [free_area EXCEPT ![ord] = t]
    BY <1>2
  <2>4. is_head_of_free_block' = [is_head_of_free_block EXCEPT ![free_area[ord][i]] = FALSE] /\ free_order' = free_order
    BY <1>1, <1>2
  <2> HIDE DEF t
  <2> QED BY <2>1, <2>2, <2>3, <2>4, <1>2, <1>3, RemoveExact DEF IInv
<1>10. TypeOK'
  <2>1. is_head_of_free_block' \in [Pages -> BOOLEAN]
    BY <1>1 DEF IInv, TypeOK
  <2>2. blk' \in Nat
    BY <1>1, <1>7, SizeAssumption DEF Pages
  <2> QED BY <2>1, <2>2, <1>1, <1>3, <1>9 DEF IInv, TypeOK
<1>11. ASSUME NEW p \in Pages PROVE BlockSize'[p] = new[p]
  <2>1. CASE p = low
    <3>1. ~is_head_of_free_block'[p] /\ ~is_head_of_alloc_block'[p]
      BY <2>1, <1>1, <1>4, <1>7 DEF IInv, TypeOK
    <3>2. BlockSize'[p] = 2^(ord + 1)
      BY <3>1, <2>1, <1>1 DEF BlockSize, InHand
    <3> QED BY <3>2, <2>1, <1>3, <1>6, <1>7
  <2>2. CASE p = high
    <3>1. ~is_head_of_free_block'[p] /\ ~is_head_of_alloc_block'[p] /\ p # blk'
      BY <2>2, <1>1, <1>4, <1>7 DEF IInv, TypeOK
    <3>2. BlockSize'[p] = 0
      BY <3>1 DEF BlockSize
    <3> QED BY <3>2, <2>2, <1>6, <1>7
  <2>3. CASE p # low /\ p # high
    <3>1. p # blk /\ p # b /\ p # blk'
      BY <2>3, <1>1, <1>7
    <3>2. is_head_of_free_block'[p] = is_head_of_free_block[p]
      BY <3>1, <1>1 DEF IInv, TypeOK
    <3> QED BY <3>1, <3>2, <2>3, <1>1, <1>6 DEF BlockSize
  <2> QED BY <2>1, <2>2, <2>3
<1>12. BlockSize' = new
  BY <1>6, <1>11 DEF BlockSize
<1>13. OneBlockPerHead'
  BY <1>1, <1>4, <1>7 DEF IInv, TypeOK, Partition, OneBlockPerHead, InHand
<1>14. Partition' /\ LocalInv'
  BY <1>1, <1>7, <1>8, <1>12, <1>13 DEF Partition, LocalInv
<1> QED BY <1>9, <1>10, <1>14 DEF IInv

(* The block in hand becomes a free block of the same size.                *)
LEMMA FreeDoneIInv ==
  ASSUME IInv, buddy_free_done
  PROVE  IInv'
<1> USE DEF buddy_free_done, IInv
<1>1. blk \in Pages /\ ~is_head_of_free_block[blk] /\ ~is_head_of_alloc_block[blk] /\ ord \in Orders
  BY DEF LocalInv, Partition, OneBlockPerHead, InHand, TypeOK
<1>2. FreeListsExact' /\ free_area' \in [Orders -> Seq(Pages)]
  BY <1>1, PushExact
<1>3. TypeOK'
  <2>1. is_head_of_free_block' \in [Pages -> BOOLEAN]
    BY DEF TypeOK
  <2>2. free_order' \in [Pages -> Orders]
    BY <1>1 DEF TypeOK
  <2>3. 0 \in Orders
    BY SizeAssumption DEF Orders
  <2> QED BY <2>1, <2>2, <2>3, <1>2 DEF TypeOK
<1>4. ASSUME NEW p \in Pages PROVE BlockSize'[p] = BlockSize[p]
  BY <1>1 DEF TypeOK, BlockSize, InHand
<1>5. BlockSize' = BlockSize
  BY <1>4 DEF BlockSize
<1>6. OneBlockPerHead'
  BY <1>1 DEF TypeOK, Partition, OneBlockPerHead, InHand
<1> QED BY <1>2, <1>3, <1>5, <1>6 DEF Partition, LocalInv, InHand

(* The slab layer only changes owner_slab.                                 *)
LEMMA SetOwnerIInv ==
  ASSUME IInv, NEW p \in Pages, NEW owner \in {p, NULL}, set_owner_slab(p, owner)
  PROVE  IInv'
<1> USE DEF set_owner_slab, IInv, local
<1>1. TypeOK'
  BY DEF TypeOK
<1>2. BlockSize' = BlockSize
  BY DEF BlockSize, InHand
<1>3. FreeListsExact' /\ LocalInv' /\ OneBlockPerHead'
  BY DEF FreeListsExact, LocalInv, Partition, OneBlockPerHead, InHand
<1> QED BY <1>1, <1>2, <1>3 DEF Partition

LEMMA StutterIInv ==
  ASSUME IInv, UNCHANGED vars
  PROVE  IInv'
<1> USE DEF vars, meta, local
<1>1. BlockSize' = BlockSize
  BY DEF BlockSize, InHand
<1> QED
  BY <1>1 DEF IInv, TypeOK, FreeListsExact, Partition, OneBlockPerHead, LocalInv, InHand

LEMMA NextIInv == IInv /\ [Next]_vars => IInv'
<1> SUFFICES ASSUME IInv, [Next]_vars PROVE IInv'
  OBVIOUS
<1>1. CASE Internal
  BY <1>1, CarveIInv, InitDoneIInv, SplitIInv, AllocDoneIInv, MergeIInv, FreeDoneIInv DEF Internal
<1>2. CASE \E n \in 0 .. MaxRequest, k \in Orders : buddy_alloc(n, k)
  BY <1>2, AllocIInv
<1>3. CASE \E n \in 0 .. MaxRequest : buddy_alloc_null(n)
  BY <1>3, StutterIInv DEF buddy_alloc_null
<1>4. CASE \E p \in Pages : buddy_free(p)
  BY <1>4, FreeIInv
<1>5. CASE \E p \in Pages \cup {-1} : buddy_free_ignored(p)
  BY <1>5, StutterIInv DEF buddy_free_ignored
<1>6. CASE \E p \in Pages : \E owner \in {p, NULL} : set_owner_slab(p, owner)
  BY <1>6, SetOwnerIInv
<1>7. CASE UNCHANGED vars
  BY <1>7, StutterIInv
<1> QED BY <1>1, <1>2, <1>3, <1>4, <1>5, <1>6, <1>7 DEF Next, Call

LEMMA SpecIInv == Spec => []IInv
BY InitIInv, NextIInv, PTL DEF Spec

(* The allocator's variables keep their types: in particular every block   *)
(* ever pushed on a free list is a page of the region.                     *)
THEOREM BuddyTypeOK == Spec => []TypeOK
BY SpecIInv, PTL DEF IInv

(* At every step of buddy_init, buddy_alloc and buddy_free the free,       *)
(* allocated and in-hand blocks partition the region: no page is lost and  *)
(* none is in two blocks.                                                  *)
THEOREM BuddyPartition == Spec => []Partition
BY SpecIInv, PTL DEF IInv

(* The free lists hold exactly the blocks marked free in block_meta, each  *)
(* once, in the list of its order.                                         *)
THEOREM BuddyFreeListsExact == Spec => []FreeListsExact
BY SpecIInv, PTL DEF IInv

-----------------------------------------------------------------------------
(* Buddy implements PageAllocator                                          *)

LEMMA InitRefines == Init => PA!Init
BY DEF Init, PA!Init, Held, PA!Pages, Pages

(* buddy_alloc hands out pages that are in no block already handed out.    *)
LEMMA AllocDoneRefines ==
  ASSUME IInv, buddy_alloc_done
  PROVE  PA!Next
<1> USE DEF buddy_alloc_done, IInv
<1>1. blk \in Pages /\ ~is_head_of_free_block[blk] /\ ~is_head_of_alloc_block[blk] /\ target \in Orders
  BY DEF LocalInv, Partition, OneBlockPerHead, InHand, TypeOK
<1>2. /\ BlockSize \in [Pages -> Nat] /\ Tiles(BlockSize, NumBlocks)
      /\ BlockSize[blk] = 2^target /\ BlockSize[blk] > 0
  BY <1>1, BlockSizeType, PowerAssumption DEF Partition, BlockSize, InHand, Orders
<1>3. blk + 2^target <= NumBlocks
  BY <1>1, <1>2 DEF Tiles, Inside
<1>4. ASSUME NEW b \in Held PROVE PA!Span(b[1], b[2]) \cap PA!Span(blk, target) = {}
  <2>1. PICK p \in Pages : is_head_of_alloc_block[p] /\ b = <<p, alloc_order[p]>>
    BY DEF Held
  <2>2. BlockSize[p] = 2^alloc_order[p] /\ BlockSize[p] > 0 /\ p # blk
    BY <2>1, <1>1, BlockSizeType DEF Partition, OneBlockPerHead
  <2>3. p + 2^alloc_order[p] <= blk \/ blk + 2^target <= p
    BY <2>2, <1>1, <1>2, SizeAssumption DEF Tiles, NoOverlap, Pages
  <2>4. p \in Int /\ blk \in Int /\ 2^alloc_order[p] \in Nat /\ 2^target \in Nat
    BY <2>2, <1>1, <1>2, SizeAssumption DEF Pages
  <2>5. b[1] = p /\ b[2] = alloc_order[p]
    BY <2>1
  <2> QED BY <2>3, <2>4, <2>5 DEF PA!Span
<1>5. Held' = Held \cup {<<blk, target>>}
  BY <1>1 DEF Held, TypeOK
<1> QED BY <1>1, <1>3, <1>4, <1>5 DEF PA!Next, PA!Alloc, PA!Pages, PA!Orders, Pages, Orders

LEMMA FreeRefines ==
  ASSUME IInv, NEW p \in Pages, buddy_free(p)
  PROVE  PA!Next
<1> USE DEF buddy_free, IInv
<1>1. alloc_order[p] \in Orders /\ <<p, alloc_order[p]>> \in Held
  BY DEF Held, TypeOK
<1>2. Held' = Held \ {<<p, alloc_order[p]>>}
  BY DEF Held, TypeOK
<1> QED BY <1>1, <1>2 DEF PA!Next, PA!Free, PA!Pages, PA!Orders, Pages, Orders

LEMMA SetOwnerRefines ==
  ASSUME IInv, NEW p \in Pages, NEW owner \in {p, NULL}, set_owner_slab(p, owner)
  PROVE  PA!Next
<1> USE DEF set_owner_slab, IInv
<1>1. alloc_order[p] \in Orders /\ <<p, alloc_order[p]>> \in Held
  BY DEF Held, TypeOK
<1>2. Held' = Held
  BY DEF Held
<1>3. PA!SetOwner(p, alloc_order[p], owner)
  BY <1>1, <1>2 DEF PA!SetOwner, PA!Pages, Pages, PA!Span, Span
<1> QED BY <1>1, <1>3 DEF PA!Next, PA!Pages, PA!Orders, Pages, Orders

LEMMA StepRefines == IInv /\ [Next]_vars => [PA!Next]_(PA!pageVars)
<1> SUFFICES ASSUME IInv, [Next]_vars PROVE PA!Next \/ UNCHANGED <<Held, owner_slab>>
  BY DEF PA!pageVars
<1>1. CASE Internal
  <2>1. ASSUME is_head_of_alloc_block' = is_head_of_alloc_block, alloc_order' = alloc_order, owner_slab' = owner_slab
        PROVE  UNCHANGED <<Held, owner_slab>>
    BY <2>1 DEF Held
  <2>2. CASE buddy_alloc_done
    BY <2>2, AllocDoneRefines
  <2> QED
    BY <1>1, <2>1, <2>2 DEF Internal, buddy_init_carve, buddy_init_done, buddy_alloc_split,
                            buddy_free_merge, buddy_free_done, meta
<1>2. CASE \E n \in 0 .. MaxRequest, k \in Orders : buddy_alloc(n, k)
  BY <1>2 DEF buddy_alloc, Held
<1>3. CASE \E p \in Pages : buddy_free(p)
  BY <1>3, FreeRefines
<1>4. CASE \E p \in Pages : \E owner \in {p, NULL} : set_owner_slab(p, owner)
  BY <1>4, SetOwnerRefines
<1>5. ASSUME UNCHANGED vars PROVE UNCHANGED <<Held, owner_slab>>
  BY <1>5 DEF vars, meta, Held
<1>6. CASE \E n \in 0 .. MaxRequest : buddy_alloc_null(n)
  BY <1>5, <1>6 DEF buddy_alloc_null
<1>7. CASE \E p \in Pages \cup {-1} : buddy_free_ignored(p)
  BY <1>5, <1>7 DEF buddy_free_ignored
<1> QED BY <1>1, <1>2, <1>3, <1>4, <1>5, <1>6, <1>7 DEF Next, Call

(* buddy.c keeps the page allocator's contract: whatever it does inside,   *)
(* a caller of buddy_alloc gets pages nobody else holds, and only a        *)
(* successful buddy_free takes them back.                                  *)
THEOREM BuddyRefines == Spec => PageAllocatorSpec
BY InitRefines, StepRefines, SpecIInv, PTL DEF Spec, PageAllocatorSpec, PA!Spec

=============================================================================
