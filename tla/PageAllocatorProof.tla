-------------------------- MODULE PageAllocatorProof --------------------------
(***************************************************************************)
(* What the page allocator's contract gives its callers.                   *)
(***************************************************************************)
EXTENDS PageAllocator, TLAPS

(* A block handed out lies in the region.                                  *)
HeldInside == \A b \in held : b[1] + 2^b[2] <= NumBlocks

PageInv == PageTypeOK /\ HeldInside /\ HeldDisjoint /\ OwnerIsHeld

LEMMA InitPageInv == Init => PageInv
BY DEF Init, PageInv, PageTypeOK, HeldInside, HeldDisjoint, OwnerIsHeld

LEMMA SpanType ==
  ASSUME NEW p \in Pages, NEW o \in Orders
  PROVE  p \in Span(p, o)
BY SizeAssumption, PowerAssumption DEF Span, Pages, Orders

LEMMA SpanInside ==
  ASSUME PageTypeOK, HeldInside, NEW b \in held
  PROVE  Span(b[1], b[2]) \subseteq Pages
<1>1. b[1] \in Pages /\ b[2] \in Orders
  BY DEF PageTypeOK
<1>2. 2^b[2] \in Nat /\ b[1] + 2^b[2] <= NumBlocks
  BY <1>1, PowerAssumption DEF HeldInside, Orders
<1> QED BY <1>1, <1>2, SizeAssumption DEF Span, Pages

LEMMA AllocPageInv ==
  ASSUME PageInv, NEW base \in Pages, NEW order \in Orders, Alloc(base, order)
  PROVE  PageInv'
<1>1. PageTypeOK' /\ HeldInside' /\ HeldDisjoint'
  BY DEF PageInv, Alloc, PageTypeOK, HeldInside, HeldDisjoint
<1>2. OwnerIsHeld'
  BY DEF PageInv, Alloc, OwnerIsHeld
<1> QED BY <1>1, <1>2 DEF PageInv

(* A block is only freed when its first page is not slab-owned, and then   *)
(* none of its pages is.                                                   *)
LEMMA FreePageInv ==
  ASSUME PageInv, NEW base \in Pages, NEW order \in Orders, Free(base, order)
  PROVE  PageInv'
<1>1. PageTypeOK' /\ HeldInside' /\ HeldDisjoint'
  BY DEF PageInv, Free, PageTypeOK, HeldInside, HeldDisjoint
<1>2. ASSUME NEW p \in Pages, owner_slab[p] # NULL,
             NEW b \in held, p \in Span(b[1], b[2]), \A q \in Span(b[1], b[2]) : owner_slab[q] = b[1]
      PROVE  b \in held'
  <2>1. CASE b = <<base, order>>
    <3>1. base \in Span(base, order) /\ base \in Int
      BY SpanType, SizeAssumption DEF Pages
    <3> QED BY <3>1, <2>1, <1>2, NullAssumption DEF Free
  <2>2. CASE b # <<base, order>>
    BY <2>2 DEF Free
  <2> QED BY <2>1, <2>2
<1>3. OwnerIsHeld'
  BY <1>2 DEF PageInv, Free, OwnerIsHeld
<1> QED BY <1>1, <1>3 DEF PageInv

LEMMA SetOwnerPageInv ==
  ASSUME PageInv, NEW base \in Pages, NEW order \in Orders, NEW owner \in {base, NULL},
         SetOwner(base, order, owner)
  PROVE  PageInv'
<1> DEFINE c == <<base, order>>
<1>1. PageTypeOK' /\ HeldInside' /\ HeldDisjoint'
  BY DEF PageInv, SetOwner, PageTypeOK, HeldInside, HeldDisjoint
<1>2. c \in held /\ c[1] = base /\ c[2] = order /\ held' = held
  BY DEF SetOwner
<1>3. \A p \in Pages : owner_slab'[p] = IF p \in Span(base, order) THEN owner ELSE owner_slab[p]
  BY DEF SetOwner
<1>4. ASSUME NEW p \in Pages, owner_slab'[p] # NULL
      PROVE  \E b \in held' : /\ owner_slab'[p] = b[1]
                              /\ p \in Span(b[1], b[2])
                              /\ \A q \in Span(b[1], b[2]) : owner_slab'[q] = b[1]
  <2>1. CASE p \in Span(base, order)
    <3>1. owner = base
      BY <2>1, <1>3, <1>4
    <3>2. \A q \in Span(base, order) : owner_slab'[q] = base
      BY <3>1, <1>2, <1>3, SpanInside DEF PageInv
    <3> QED BY <3>1, <3>2, <2>1, <1>2, <1>3
  <2>2. CASE p \notin Span(base, order)
    <3>1. PICK b \in held : /\ owner_slab[p] = b[1]
                            /\ p \in Span(b[1], b[2])
                            /\ \A q \in Span(b[1], b[2]) : owner_slab[q] = b[1]
      BY <2>2, <1>3, <1>4 DEF PageInv, OwnerIsHeld
    <3>2. Span(b[1], b[2]) \cap Span(base, order) = {}
      BY <3>1, <2>2, <1>2 DEF PageInv, HeldDisjoint
    <3>3. \A q \in Span(b[1], b[2]) : owner_slab'[q] = owner_slab[q]
      BY <3>2, <1>3, SpanInside DEF PageInv
    <3> QED BY <3>1, <3>3, <2>2, <1>2, <1>3
  <2> QED BY <2>1, <2>2
<1> QED BY <1>1, <1>4 DEF PageInv, OwnerIsHeld

LEMMA SpecPageInv == Spec => []PageInv
<1>1. PageInv /\ [Next]_pageVars => PageInv'
  <2>1. PageInv /\ UNCHANGED pageVars => PageInv'
    BY DEF PageInv, PageTypeOK, HeldInside, HeldDisjoint, OwnerIsHeld, pageVars
  <2>2. ASSUME PageInv, NEW b \in held
        PROVE  b[1] \in Pages /\ b[2] \in Orders
    BY <2>2 DEF PageInv, PageTypeOK
  <2> QED BY <2>1, <2>2, AllocPageInv, FreePageInv, SetOwnerPageInv DEF Next
<1> QED BY <1>1, InitPageInv, PTL DEF Spec

(* The owner_slab entry kmem_cache_free and k_free look up names the block *)
(* the page lies in, and that block has not been freed.                    *)
THEOREM PageAllocatorOwner == Spec => []OwnerIsHeld
BY SpecPageInv, PTL DEF PageInv

=============================================================================
