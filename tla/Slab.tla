-------------------------------- MODULE Slab --------------------------------
(***************************************************************************)
(* The slab allocator of kernel/slab.c for one kmem_state, with several    *)
(* threads inside it, above the page layer's contract (PageAllocator).     *)
(*                                                                         *)
(* Each section that runs under a spinlock is one step; code between the   *)
(* sections is where other threads get in.  frame[t] holds the locals of   *)
(* the operation thread t is in and pc[t] the section it comes to next.    *)
(* A cache is its place in cache_pool, a slab the base page it lives on,   *)
(* an object <<slab, index>>.  Slab lists are sequences, head first.  The  *)
(* error codes are left out: kmem_cache_error prints them, nothing reads   *)
(* them.                                                                   *)
(*                                                                         *)
(* What callers do is part of the model: they free what they were given,   *)
(* once, to the cache it came from, and destroy a cache no one else is     *)
(* using - except as the constant Clients says.                            *)
(***************************************************************************)
EXTENDS PageParams, Sequences, FiniteSets

CONSTANTS Threads,
          Creators, Destroyers,  \* the threads that create and destroy caches
          NumCaches,             \* bound: MAX_NUM_CACHES
          KmallocCaches,         \* the caches kmem_init made for kmalloc
          InitialCaches,         \* the caches there are to begin with
          LayoutOrder, LayoutObjs,  \* what kmem_cache_create computes
          NOFREE,                \* end of a slab's free list
          Clients                \* what callers do beyond their contract:
                                 \* a subset of ClientFaults

ClientFaults == {"overlap",      \* destroy a cache while others use it
                 "wrong_cache",  \* free to a cache the object is not of
                 "double_free"}  \* free an object of an empty slab again,
                                 \* while nobody else calls

Caches  == 1 .. NumCaches
Indices == 0 .. LayoutObjs - 1

ASSUME SlabAssumption ==
  /\ Creators \subseteq Threads /\ Destroyers \subseteq Threads
  /\ NumCaches \in Nat /\ KmallocCaches \subseteq InitialCaches /\ InitialCaches \subseteq Caches
  /\ LayoutOrder \in Orders /\ LayoutObjs \in Nat \ {0}
  /\ NOFREE \notin Nat /\ NULL \notin Threads /\ Clients \subseteq ClientFaults

VARIABLES held, owner_slab,   \* the page layer: see PageAllocator
          slab,               \* slab headers, by base page
          cache,              \* cache_pool
          cache_list,         \* head_of_cache_list
          pc, frame,          \* the threads
          handles,            \* caches that callers may use
          live,               \* objects callers have: <<cache, slab, index>>
          raw                 \* single pages callers have from kalloc

PA == INSTANCE PageAllocator

pages   == <<held, owner_slab>>
threads == <<pc, frame>>
callers == <<handles, live, raw>>
vars    == <<pages, slab, cache, cache_list, threads, callers>>

-----------------------------------------------------------------------------
NoHeader == [cache |-> NULL, first_free |-> NOFREE, next |-> [i \in Indices |-> NOFREE],
             inuse |-> 0, free_count |-> 0]

Unused == [is_used |-> FALSE, destroying |-> FALSE, lock |-> NULL, slab_order |-> 0,
           objs_per_slab |-> 0, full |-> <<>>, partial |-> <<>>, empty |-> <<>>]

(* The fields kmem_cache_create fills in.                                  *)
Created(C) == [C EXCEPT !.lock = NULL, !.slab_order = LayoutOrder, !.objs_per_slab = LayoutObjs,
                        !.full = <<>>, !.partial = <<>>, !.empty = <<>>]

NoFrame == [cache |-> NULL, slab |-> NULL, obj |-> NULL, again |-> FALSE, back |-> "idle"]

Init ==
  /\ PA!Init
  /\ slab = [p \in Pages |-> NoHeader]
  /\ cache = [c \in Caches |-> IF c \in InitialCaches THEN Created([Unused EXCEPT !.is_used = TRUE])
                               ELSE Unused]
  /\ cache_list \in {s \in [1 .. Cardinality(InitialCaches) -> InitialCaches] :
                       \A i, j \in DOMAIN s : i < j => s[i] > s[j]}
  /\ pc = [t \in Threads |-> "idle"]
  /\ frame = [t \in Threads |-> NoFrame]
  /\ handles = InitialCaches /\ live = {} /\ raw = {}

-----------------------------------------------------------------------------
(* Helpers                                                                 *)

remove_node(s, x) == SelectSeq(s, LAMBDA y : y # x)
push_front(s, x)  == <<x>> \o s

(* The page an object starts on; the objects are spread over the slab.     *)
obj_page(s, i) == s + ((i * 2^LayoutOrder) \div LayoutObjs)

slab_alloc_obj(h) ==
  [h EXCEPT !.first_free = h.next[h.first_free], !.free_count = @ - 1, !.inuse = @ + 1]

slab_free_obj(h, i) ==
  [h EXCEPT !.next[i] = h.first_free, !.first_free = i, !.free_count = @ + 1, !.inuse = @ - 1]

goto(t, label) == pc' = [pc EXCEPT ![t] = label]

return(t) == goto(t, "idle") /\ frame' = [frame EXCEPT ![t] = NoFrame]

Unlocked(c) == cache[c].lock = NULL

(* Faulty variant: only the first page is written.                         *)
Bug_owner_first_page(c, s, owner) ==
  /\ owner_slab' = [owner_slab EXCEPT ![s] = owner]
  /\ UNCHANGED held

(* Writes of owner_slab for the pages of a slab, as many as the cache's    *)
(* slab_order says when the loop runs.                                     *)
set_owner(c, s, owner) ==
  /\ owner_slab' = [p \in Pages |-> IF p \in Span(s, cache[c].slab_order) THEN owner ELSE owner_slab[p]]
  /\ UNCHANGED held

(* buddy_free(base); the freed pages no longer hold a slab header.         *)
give_back(base) ==
  IF \E b \in held : b[1] = base /\ owner_slab[base] = NULL
  THEN /\ \E o \in Orders : PA!Free(base, o)
       /\ slab' = [slab EXCEPT ![base] = NoHeader]
  ELSE UNCHANGED <<pages, slab>>

(* No thread but t is in an operation on cache c.                          *)
Quiet(t, c) == \A u \in Threads \ {t} : pc[u] = "idle" \/ frame[u].cache # c

-----------------------------------------------------------------------------
(* kmem_cache_create                                                       *)

kmem_cache_create_claim(t, c) ==
  /\ pc[t] = "idle" /\ t \in Creators
  /\ ~cache[c].is_used /\ \A d \in 1 .. c-1 : cache[d].is_used
  /\ cache' = [cache EXCEPT ![c].is_used = TRUE, ![c].destroying = FALSE]
  /\ goto(t, "create_fill") /\ frame' = [frame EXCEPT ![t].cache = c]
  /\ UNCHANGED <<pages, slab, cache_list, callers>>

kmem_cache_create_null(t) ==
  /\ pc[t] = "idle" /\ t \in Creators
  /\ \A c \in Caches : cache[c].is_used
  /\ UNCHANGED vars

kmem_cache_create_fill(t) ==
  LET c == frame[t].cache
  IN /\ pc[t] = "create_fill"
     /\ cache' = [cache EXCEPT ![c] = Created(@)]
     /\ goto(t, "create_list")
     /\ UNCHANGED <<pages, slab, cache_list, frame, callers>>

(* No order up to MAX_SLAB_ORDER holds enough objects of this size.        *)
kmem_cache_create_too_large(t) ==
  LET c == frame[t].cache
  IN /\ pc[t] = "create_fill"
     /\ cache' = [cache EXCEPT ![c].lock = NULL, ![c].slab_order = LayoutOrder + 1]
     /\ goto(t, "create_undo")
     /\ UNCHANGED <<pages, slab, cache_list, frame, callers>>

kmem_cache_create_undo(t) ==
  LET c == frame[t].cache
  IN /\ pc[t] = "create_undo"
     /\ cache' = [cache EXCEPT ![c].is_used = FALSE]
     /\ return(t)
     /\ UNCHANGED <<pages, slab, cache_list, callers>>

add_to_cache_list(t) ==
  LET c == frame[t].cache
  IN /\ pc[t] = "create_list"
     /\ cache_list' = push_front(cache_list, c)
     /\ handles' = handles \cup {c}
     /\ return(t)
     /\ UNCHANGED <<pages, slab, cache, live, raw>>

-----------------------------------------------------------------------------
(* kmem_cache_alloc; kmalloc is a call of it with one of KmallocCaches     *)

kmem_cache_alloc(t, c) ==
  /\ pc[t] = "idle" /\ c \in handles
  /\ goto(t, "alloc_fast") /\ frame' = [frame EXCEPT ![t].cache = c]
  /\ UNCHANGED <<pages, slab, cache, cache_list, callers>>

(* Take an object of slab s, which is in the partial list of C, the state  *)
(* of cache c so far; the slab moves to the full list with its last one.   *)
take_object(c, s, C) ==
  LET h == slab[s]
      n == slab_alloc_obj(h)
  IN IF h.first_free = NOFREE
     THEN cache' = [cache EXCEPT ![c] = C] /\ UNCHANGED <<slab, live>>
     ELSE /\ slab' = [slab EXCEPT ![s] = n]
          /\ cache' = [cache EXCEPT ![c] = IF n.inuse # C.objs_per_slab THEN C
                         ELSE [C EXCEPT !.partial = remove_node(@, s), !.full = push_front(@, s)]]
          /\ live' = live \cup {<<c, s, h.first_free>>}

(* The fast path: the first partial slab, or else the first empty one.     *)
kmem_cache_alloc_fast(t) ==
  LET c == frame[t].cache
      C == cache[c]
  IN /\ pc[t] = "alloc_fast" /\ Unlocked(c)
     /\ ~C.destroying
     /\ \/ /\ C.partial # <<>>
           /\ take_object(c, Head(C.partial), C)
        \/ /\ C.partial = <<>> /\ C.empty # <<>>
           /\ LET s == Head(C.empty)
              IN take_object(c, s, [C EXCEPT !.empty = Tail(@), !.partial = push_front(@, s)])
     /\ return(t)
     /\ UNCHANGED <<pages, cache_list, handles, raw>>

kmem_cache_alloc_refused(t) ==
  LET c == frame[t].cache
  IN /\ pc[t] = "alloc_fast" /\ Unlocked(c)
     /\ cache[c].destroying
     /\ return(t)
     /\ UNCHANGED <<pages, slab, cache, cache_list, callers>>

kmem_cache_alloc_no_slab(t) ==
  LET C == cache[frame[t].cache]
  IN /\ pc[t] = "alloc_fast" /\ C.lock = NULL
     /\ ~C.destroying /\ C.partial = <<>> /\ C.empty = <<>>
     /\ goto(t, "alloc_grow")
     /\ UNCHANGED <<pages, slab, cache, cache_list, frame, callers>>

(* buddy_alloc(1 << slab_order), with no lock of the cache held.           *)
kmem_cache_alloc_grow(t, base) ==
  /\ pc[t] = "alloc_grow"
  /\ PA!Alloc(base, cache[frame[t].cache].slab_order)
  /\ goto(t, "alloc_header") /\ frame' = [frame EXCEPT ![t].slab = base]
  /\ UNCHANGED <<slab, cache, cache_list, callers>>

kmem_cache_alloc_oom(t) ==
  /\ pc[t] = "alloc_grow"
  /\ goto(t, "alloc_oom")
  /\ UNCHANGED <<pages, slab, cache, cache_list, frame, callers>>

kmem_cache_alloc_oom_error(t) ==
  LET c == frame[t].cache
  IN /\ pc[t] = "alloc_oom" /\ Unlocked(c)
     /\ return(t)
     /\ UNCHANGED <<pages, slab, cache, cache_list, callers>>

(* Faulty variant: the last entry is not the end of the list.              *)
Bug_header_past_end(t) ==
  LET c == frame[t].cache
      n == cache[c].objs_per_slab
      h == [cache |-> c, first_free |-> 0, free_count |-> n, inuse |-> 0,
            next |-> [i \in Indices |-> IF i < n THEN i + 1 ELSE NOFREE]]
  IN /\ pc[t] = "alloc_header"
     /\ slab' = [slab EXCEPT ![frame[t].slab] = h]
     /\ goto(t, "alloc_publish")
     /\ UNCHANGED <<pages, cache, cache_list, frame, callers>>

(* The header and the free list of the new slab: 0, 1, ..., n-1, NOFREE.   *)
(* n is 0 when the cache has been destroyed meanwhile.                     *)
kmem_cache_alloc_header(t) ==
  LET c == frame[t].cache
      n == cache[c].objs_per_slab
      h == [cache |-> c, first_free |-> 0, free_count |-> n, inuse |-> 0,
            next |-> [i \in Indices |-> IF i + 1 < n THEN i + 1 ELSE NOFREE]]
  IN /\ pc[t] = "alloc_header"
     /\ slab' = [slab EXCEPT ![frame[t].slab] = h]
     /\ goto(t, "alloc_publish")
     /\ UNCHANGED <<pages, cache, cache_list, frame, callers>>

(* Faulty variant: the slab is attached without its pages naming it.       *)
Bug_not_published(t) ==
  /\ pc[t] = "alloc_publish"
  /\ goto(t, "alloc_attach")
  /\ UNCHANGED <<pages, slab, cache, cache_list, frame, callers>>

kmem_cache_alloc_publish(t) ==
  /\ pc[t] = "alloc_publish"
  /\ set_owner(frame[t].cache, frame[t].slab, frame[t].slab)
  /\ goto(t, "alloc_attach")
  /\ UNCHANGED <<slab, cache, cache_list, frame, callers>>

(* Faulty variant: destroying is not looked at again.                      *)
Bug_attach_destroying(t) ==
  LET c == frame[t].cache
      s == frame[t].slab
  IN /\ pc[t] = "alloc_attach" /\ Unlocked(c)
     /\ take_object(c, s, [cache[c] EXCEPT !.partial = push_front(@, s)])
     /\ return(t)
     /\ UNCHANGED <<pages, cache_list, handles, raw>>

kmem_cache_alloc_attach(t) ==
  LET c == frame[t].cache
      s == frame[t].slab
  IN /\ pc[t] = "alloc_attach" /\ Unlocked(c)
     /\ ~cache[c].destroying
     /\ take_object(c, s, [cache[c] EXCEPT !.partial = push_front(@, s)])
     /\ return(t)
     /\ UNCHANGED <<pages, cache_list, handles, raw>>

(* The cache is being destroyed: the new slab is not attached.             *)
kmem_cache_alloc_detach(t) ==
  LET c == frame[t].cache
  IN /\ pc[t] = "alloc_attach" /\ Unlocked(c)
     /\ cache[c].destroying
     /\ goto(t, "alloc_unpublish")
     /\ UNCHANGED <<pages, slab, cache, cache_list, frame, callers>>

kmem_cache_alloc_unpublish(t) ==
  /\ pc[t] = "alloc_unpublish"
  /\ set_owner(frame[t].cache, frame[t].slab, NULL)
  /\ goto(t, "alloc_give_back")
  /\ UNCHANGED <<slab, cache, cache_list, frame, callers>>

kmem_cache_alloc_give_back(t) ==
  /\ pc[t] = "alloc_give_back"
  /\ give_back(frame[t].slab)
  /\ return(t)
  /\ UNCHANGED <<cache, cache_list, callers>>

-----------------------------------------------------------------------------
(* kmem_cache_free and k_free                                              *)

(* frame[t].obj is the object, with the cache it came from; the caller no  *)
(* longer has it.                                                          *)
kmem_cache_free(t, c, obj) ==
  /\ pc[t] = "idle" /\ c \in handles
  /\ c # obj[1] => "wrong_cache" \in Clients
  /\ live' = live \ {obj}
  /\ goto(t, "free_lookup") /\ frame' = [frame EXCEPT ![t].cache = c, ![t].obj = obj]
  /\ UNCHANGED <<pages, slab, cache, cache_list, handles, raw>>

(* A second free of an object whose slab is empty by now, or gone.         *)
kmem_cache_free_again(t, c, s, i) ==
  /\ \A u \in Threads : pc[u] = "idle"
  /\ c \in handles /\ "double_free" \in Clients
  /\ s + 2^LayoutOrder <= NumBlocks
  /\ \/ owner_slab[obj_page(s, i)] = NULL
     \/ owner_slab[obj_page(s, i)] = s /\ \E k \in 1 .. Len(cache[c].empty) : cache[c].empty[k] = s
  /\ goto(t, "free_lookup")
  /\ frame' = [frame EXCEPT ![t].cache = c, ![t].obj = <<c, s, i>>, ![t].again = TRUE]
  /\ UNCHANGED <<pages, slab, cache, cache_list, callers>>

(* The call changed nothing: an object of another cache is still held.     *)
keep_object(t) ==
  /\ live' = IF frame[t].obj[1] # frame[t].cache THEN live \cup {frame[t].obj} ELSE live
  /\ return(t)

(* The slab that owns the object's page, read under buddy_lock.            *)
kmem_cache_free_lookup(t) ==
  LET s == owner_slab[obj_page(frame[t].obj[2], frame[t].obj[3])]
  IN /\ pc[t] = "free_lookup"
     /\ frame' = [frame EXCEPT ![t].slab = s]
     /\ goto(t, IF s = NULL THEN "free_mismatch" ELSE "free_cache")
     /\ UNCHANGED <<pages, slab, cache, cache_list, callers>>

kmem_cache_free_mismatch(t) ==
  LET c == frame[t].cache
  IN /\ pc[t] = "free_mismatch" /\ Unlocked(c)
     /\ keep_object(t)
     /\ UNCHANGED <<pages, slab, cache, cache_list, handles, raw>>

(* The early returns of the section under the cache lock.                  *)
kmem_cache_free_refused(t) ==
  LET c == frame[t].cache
      h == slab[frame[t].slab]
  IN /\ pc[t] = "free_cache" /\ Unlocked(c)
     /\ \/ cache[c].destroying
        \/ ~cache[c].destroying /\ h.cache # c
        \/ ~cache[c].destroying /\ h.cache = c /\ h.inuse = 0
     /\ keep_object(t)
     /\ UNCHANGED <<pages, slab, cache, cache_list, handles, raw>>

(* Faulty variant: a slab that was full stays in the full list.            *)
Bug_stays_full(C, s, was_full, inuse) ==
  IF inuse = 0 THEN [C EXCEPT !.partial = remove_node(@, s), !.empty = push_front(@, s)] ELSE C

(* List moves after an object came back: out of full, then into empty.     *)
after_free(C, s, was_full, inuse) ==
  LET D == IF was_full THEN [C EXCEPT !.full = remove_node(@, s), !.partial = push_front(@, s)]
           ELSE C
  IN IF inuse = 0 THEN [D EXCEPT !.partial = remove_node(@, s), !.empty = push_front(@, s)] ELSE D

kmem_cache_free_object(t) ==
  LET c == frame[t].cache
      s == frame[t].slab
      h == slab[s]
      n == slab_free_obj(h, frame[t].obj[3])
  IN /\ pc[t] = "free_cache" /\ Unlocked(c)
     /\ ~cache[c].destroying /\ h.cache = c /\ h.inuse # 0
     /\ slab' = [slab EXCEPT ![s] = n]
     /\ cache' = [cache EXCEPT ![c] = after_free(@, s, h.inuse = @.objs_per_slab, n.inuse)]
     /\ return(t)
     /\ UNCHANGED <<pages, cache_list, callers>>

k_free(t, obj) ==
  /\ pc[t] = "idle"
  /\ live' = live \ {obj}
  /\ goto(t, "kfree_lookup") /\ frame' = [frame EXCEPT ![t].obj = obj]
  /\ UNCHANGED <<pages, slab, cache, cache_list, handles, raw>>

(* k_free of a page that kalloc returned.                                  *)
k_free_page(t, p) ==
  /\ pc[t] = "idle"
  /\ raw' = raw \ {p}
  /\ goto(t, "kfree_lookup") /\ frame' = [frame EXCEPT ![t].obj = <<NULL, p, 0>>]
  /\ UNCHANGED <<pages, slab, cache, cache_list, handles, live>>

(* slab->cache is read after buddy_lock is released.                       *)
k_free_lookup(t) ==
  LET s == owner_slab[obj_page(frame[t].obj[2], frame[t].obj[3])]
  IN /\ pc[t] = "kfree_lookup"
     /\ \/ /\ s # NULL
           /\ frame' = [frame EXCEPT ![t].cache = slab[s].cache]
           /\ goto(t, "free_lookup")
        \/ /\ s = NULL
           /\ goto(t, "kfree_page")
           /\ UNCHANGED frame
     /\ UNCHANGED <<pages, slab, cache, cache_list, callers>>

k_free_buddy(t) ==
  /\ pc[t] = "kfree_page"
  /\ give_back(frame[t].obj[2])
  /\ return(t)
  /\ UNCHANGED <<cache, cache_list, callers>>

(* kalloc and kfree: single pages, beside the slabs.                       *)
kalloc(t, p) ==
  /\ pc[t] = "idle"
  /\ PA!Alloc(p, 0)
  /\ raw' = raw \cup {p}
  /\ UNCHANGED <<slab, cache, cache_list, threads, handles, live>>

kfree(t, p) ==
  /\ pc[t] = "idle"
  /\ raw' = raw \ {p}
  /\ give_back(p)
  /\ UNCHANGED <<cache, cache_list, threads, handles, live>>

-----------------------------------------------------------------------------
(* kmem_cache_shrink                                                       *)

kmem_cache_shrink(t, c) ==
  /\ pc[t] = "idle" /\ c \in handles
  /\ goto(t, "shrink_pop") /\ frame' = [frame EXCEPT ![t].cache = c]
  /\ UNCHANGED <<pages, slab, cache, cache_list, callers>>

kmem_cache_shrink_pop(t) ==
  LET c == frame[t].cache
  IN /\ pc[t] = "shrink_pop" /\ Unlocked(c) /\ cache[c].empty # <<>>
     /\ frame' = [frame EXCEPT ![t].slab = Head(cache[c].empty)]
     /\ cache' = [cache EXCEPT ![c].empty = Tail(@)]
     /\ goto(t, "shrink_clear")
     /\ UNCHANGED <<pages, slab, cache_list, callers>>

(* Faulty variant: the pages still name the slab when they are freed.      *)
Bug_shrink_no_clear(t) ==
  /\ pc[t] = "shrink_clear"
  /\ goto(t, "shrink_free")
  /\ UNCHANGED <<pages, slab, cache, cache_list, frame, callers>>

kmem_cache_shrink_clear(t) ==
  /\ pc[t] = "shrink_clear"
  /\ set_owner(frame[t].cache, frame[t].slab, NULL)
  /\ goto(t, "shrink_free")
  /\ UNCHANGED <<slab, cache, cache_list, frame, callers>>

kmem_cache_shrink_free(t) ==
  /\ pc[t] = "shrink_free"
  /\ give_back(frame[t].slab)
  /\ frame' = [frame EXCEPT ![t].slab = NULL]
  /\ goto(t, "shrink_pop")
  /\ UNCHANGED <<cache, cache_list, callers>>

(* Back to the caller, or to the rest of kmem_cache_destroy.               *)
kmem_cache_shrink_done(t) ==
  LET c == frame[t].cache
  IN /\ pc[t] = "shrink_pop" /\ Unlocked(c) /\ cache[c].empty = <<>>
     /\ goto(t, frame[t].back)
     /\ frame' = [frame EXCEPT ![t] = IF @.back = "idle" THEN NoFrame ELSE @]
     /\ UNCHANGED <<pages, slab, cache, cache_list, callers>>

-----------------------------------------------------------------------------
(* kmem_cache_destroy                                                      *)

kmem_cache_destroy_kmalloc(t, c) ==
  /\ pc[t] = "idle" /\ t \in Destroyers /\ c \in KmallocCaches
  /\ UNCHANGED vars

kmem_cache_destroy(t, c) ==
  /\ pc[t] = "idle" /\ t \in Destroyers /\ c \in handles \ KmallocCaches
  /\ "overlap" \in Clients \/ Quiet(t, c)
  /\ handles' = handles \ {c}
  /\ goto(t, "destroy_mark") /\ frame' = [frame EXCEPT ![t].cache = c]
  /\ UNCHANGED <<pages, slab, cache, cache_list, live, raw>>

(* Faulty variant: destroying stays set on the error path.                 *)
Bug_destroying_stays(t) ==
  LET c == frame[t].cache
  IN /\ pc[t] = "destroy_mark" /\ Unlocked(c)
     /\ cache[c].partial # <<>> \/ cache[c].full # <<>>
     /\ cache' = [cache EXCEPT ![c].destroying = TRUE]
     /\ handles' = handles \cup {c}
     /\ return(t)
     /\ UNCHANGED <<pages, slab, cache_list, live, raw>>

(* Faulty variant: the error path returns without releasing the lock.      *)
Bug_destroy_keeps_lock(t) ==
  LET c == frame[t].cache
  IN /\ pc[t] = "destroy_mark" /\ Unlocked(c)
     /\ cache[c].partial # <<>> \/ cache[c].full # <<>>
     /\ cache' = [cache EXCEPT ![c].destroying = FALSE, ![c].lock = t]
     /\ handles' = handles \cup {c}
     /\ return(t)
     /\ UNCHANGED <<pages, slab, cache_list, live, raw>>

(* Some object is in use: destroying is set and reset under the lock.      *)
kmem_cache_destroy_not_empty(t) ==
  LET c == frame[t].cache
  IN /\ pc[t] = "destroy_mark" /\ Unlocked(c)
     /\ cache[c].partial # <<>> \/ cache[c].full # <<>>
     /\ cache' = [cache EXCEPT ![c].destroying = FALSE]
     /\ handles' = handles \cup {c}
     /\ return(t)
     /\ UNCHANGED <<pages, slab, cache_list, live, raw>>

kmem_cache_destroy_mark(t) ==
  LET c == frame[t].cache
  IN /\ pc[t] = "destroy_mark" /\ Unlocked(c)
     /\ cache[c].partial = <<>> /\ cache[c].full = <<>>
     /\ cache' = [cache EXCEPT ![c].destroying = TRUE]
     /\ frame' = [frame EXCEPT ![t].back = "destroy_unlist"]
     /\ goto(t, "shrink_pop")
     /\ UNCHANGED <<pages, slab, cache_list, callers>>

remove_from_cache_list(t) ==
  /\ pc[t] = "destroy_unlist"
  /\ cache_list' = remove_node(cache_list, frame[t].cache)
  /\ goto(t, "destroy_unuse")
  /\ UNCHANGED <<pages, slab, cache, frame, callers>>

(* The cache lock is taken here and held for two more steps.               *)
kmem_cache_destroy_unuse(t) ==
  LET c == frame[t].cache
  IN /\ pc[t] = "destroy_unuse" /\ Unlocked(c)
     /\ cache' = [cache EXCEPT ![c].lock = t, ![c].is_used = FALSE]
     /\ goto(t, "destroy_zero")
     /\ UNCHANGED <<pages, slab, cache_list, frame, callers>>

kmem_cache_destroy_zero(t) ==
  LET c == frame[t].cache
  IN /\ pc[t] = "destroy_zero"
     /\ cache' = [cache EXCEPT ![c].objs_per_slab = 0, ![c].slab_order = 0,
                               ![c].partial = <<>>, ![c].full = <<>>, ![c].empty = <<>>]
     /\ goto(t, "destroy_unlock")
     /\ UNCHANGED <<pages, slab, cache_list, frame, callers>>

(* release panics when the lock is not held by the caller.                 *)
kmem_cache_destroy_unlock(t) ==
  LET c == frame[t].cache
  IN /\ pc[t] = "destroy_unlock"
     /\ cache' = [cache EXCEPT ![c].lock = NULL]
     /\ goto(t, IF cache[c].lock = t THEN "idle" ELSE "panic")
     /\ frame' = [frame EXCEPT ![t] = NoFrame]
     /\ UNCHANGED <<pages, slab, cache_list, callers>>

-----------------------------------------------------------------------------
Call(t) ==
  \/ \E c \in Caches :
       \/ kmem_cache_create_claim(t, c)
       \/ kmem_cache_alloc(t, c)
       \/ kmem_cache_shrink(t, c)
       \/ kmem_cache_destroy_kmalloc(t, c)
       \/ kmem_cache_destroy(t, c)
       \/ \E obj \in live : kmem_cache_free(t, c, obj)
       \/ \E s \in Pages, i \in Indices : kmem_cache_free_again(t, c, s, i)
  \/ kmem_cache_create_null(t)
  \/ \E obj \in live : k_free(t, obj)
  \/ \E p \in raw : k_free_page(t, p) \/ kfree(t, p)
  \/ \E p \in Pages : kalloc(t, p)

Step(t) ==
  \/ kmem_cache_create_fill(t) \/ kmem_cache_create_too_large(t)
  \/ kmem_cache_create_undo(t) \/ add_to_cache_list(t)
  \/ kmem_cache_alloc_fast(t) \/ kmem_cache_alloc_refused(t) \/ kmem_cache_alloc_no_slab(t)
  \/ \E base \in Pages : kmem_cache_alloc_grow(t, base)
  \/ kmem_cache_alloc_oom(t) \/ kmem_cache_alloc_oom_error(t)
  \/ kmem_cache_alloc_header(t) \/ kmem_cache_alloc_publish(t) \/ kmem_cache_alloc_attach(t)
  \/ kmem_cache_alloc_detach(t) \/ kmem_cache_alloc_unpublish(t) \/ kmem_cache_alloc_give_back(t)
  \/ kmem_cache_free_lookup(t) \/ kmem_cache_free_mismatch(t)
  \/ kmem_cache_free_refused(t) \/ kmem_cache_free_object(t)
  \/ k_free_lookup(t) \/ k_free_buddy(t)
  \/ kmem_cache_shrink_pop(t) \/ kmem_cache_shrink_clear(t)
  \/ kmem_cache_shrink_free(t) \/ kmem_cache_shrink_done(t)
  \/ kmem_cache_destroy_not_empty(t) \/ kmem_cache_destroy_mark(t)
  \/ remove_from_cache_list(t) \/ kmem_cache_destroy_unuse(t)
  \/ kmem_cache_destroy_zero(t) \/ kmem_cache_destroy_unlock(t)

Next == \E t \in Threads : (Call(t) /\ \A u \in Threads : ~frame[u].again) \/ Step(t)

Spec == Init /\ [][Next]_vars

(* A thread inside the allocator is not descheduled for ever, and a        *)
(* spinlock it waits for is free again after the holder's next steps.      *)
FairSpec == Spec /\ \A t \in Threads : WF_vars(Step(t))

-----------------------------------------------------------------------------
(* Properties                                                              *)

Headers == [cache : Caches \cup {NULL}, first_free : Indices \cup {NOFREE},
            next : [Indices -> Indices \cup {NOFREE}], inuse : 0 .. LayoutObjs,
            free_count : 0 .. LayoutObjs]

TypeOK ==
  /\ PA!PageTypeOK
  /\ slab \in [Pages -> Headers]
  /\ \A c \in Caches :
       /\ cache[c].lock \in Threads \cup {NULL}
       /\ cache[c].slab_order \in 0 .. LayoutOrder + 1
       /\ cache[c].objs_per_slab \in {0, LayoutObjs}
       /\ {cache[c].full, cache[c].partial, cache[c].empty} \subseteq Seq(Pages)
  /\ cache_list \in Seq(Caches)
  /\ handles \subseteq Caches /\ raw \subseteq Pages
  /\ live \subseteq Caches \X Pages \X Indices

Elements(seq) == {seq[k] : k \in 1 .. Len(seq)}

SlabsOf(c) == LET C == cache[c] IN Elements(C.full) \cup Elements(C.partial) \cup Elements(C.empty)

(* The objects in use: held by callers, or in the hands of a free that has *)
(* not reached the slab yet.                                               *)
InUse == live \cup {frame[t].obj : t \in {u \in Threads : frame[u].obj # NULL /\ ~frame[u].again}}

InUseOf(s) == {i \in Indices : \E c \in Caches : <<c, s, i>> \in InUse}

(* The k-th entry of a slab's free list, NOFREE past its end.              *)
FreeChain(h) ==
  LET chain[k \in 0 .. LayoutObjs] ==
        IF k = 0 THEN h.first_free
        ELSE IF chain[k-1] = NOFREE THEN NOFREE ELSE h.next[chain[k-1]]
  IN chain

(* A slab's own books are right: its index free list runs through exactly  *)
(* the objects nobody has, each once, and ends; free_count is its length   *)
(* and inuse the number of the others.  So slab_alloc_obj never hands out  *)
(* an object that is in use, and no object is lost to a slab.              *)
SlabExact ==
  \A c \in Caches : \A s \in SlabsOf(c) :
    LET h == slab[s]
    IN /\ h.cache = c
       /\ h.inuse = Cardinality(InUseOf(s))
       /\ h.free_count = LayoutObjs - h.inuse
       /\ {FreeChain(h)[k] : k \in 0 .. h.free_count - 1} = Indices \ InUseOf(s)
       /\ FreeChain(h)[h.free_count] = NOFREE

(* A slab is in one list of one cache, once, and in the list its inuse     *)
(* count calls for: kmem_cache_alloc takes from the head of partial        *)
(* without looking, kmem_cache_shrink gives back what is in empty and      *)
(* kmem_cache_destroy takes empty partial and full lists to mean that no   *)
(* object is in use.                                                       *)
ListsExact ==
  \A c \in Caches :
    LET C == cache[c]
    IN /\ \A s \in Elements(C.full) : slab[s].inuse = C.objs_per_slab
       /\ \A s \in Elements(C.partial) : slab[s].inuse \in 1 .. C.objs_per_slab - 1
       /\ \A s \in Elements(C.empty) : slab[s].inuse = 0
       /\ Cardinality(SlabsOf(c)) = Len(C.full) + Len(C.partial) + Len(C.empty)
       /\ \A d \in Caches \ {c} : SlabsOf(c) \cap SlabsOf(d) = {}

(* Whatever object a caller has, the lookup kmem_cache_free and k_free     *)
(* start from, owner_slab of the object's page, leads to its slab, and the *)
(* slab is attached to a cache in use: a free can always be carried out.   *)
InUseFindable ==
  \A o \in InUse : o[1] # NULL =>
    /\ cache[o[1]].is_used
    /\ o[2] \in SlabsOf(o[1])
    /\ owner_slab[obj_page(o[2], o[3])] = o[2]

(* The block a thread has in hand: a slab not yet attached or already      *)
(* taken off the empty list, or a page k_free is about to give back.       *)
InHand(t) ==
  IF pc[t] \in {"alloc_header", "alloc_publish", "alloc_attach", "alloc_unpublish",
                "alloc_give_back", "shrink_clear", "shrink_free"}
  THEN {frame[t].slab}
  ELSE IF frame[t].obj # NULL /\ frame[t].obj[1] = NULL THEN {frame[t].obj[2]} ELSE {}

(* No page is lost and none has two users: every block the page layer has  *)
(* handed out is a slab of one cache in use, one page of a caller, or in   *)
(* the hands of one thread - through growth, shrinking and destruction.    *)
NoPageLost ==
  LET attached == UNION {SlabsOf(c) : c \in {d \in Caches : cache[d].is_used}}
      inHand   == UNION {InHand(t) : t \in Threads}
  IN /\ {b[1] : b \in held} = attached \cup inHand \cup raw
     /\ attached \cap (inHand \cup raw) = {} /\ inHand \cap raw = {}
     /\ \A t, u \in Threads : t # u => InHand(t) \cap InHand(u) = {}

(* A cache that kmem_cache_create has returned, and nobody has destroyed,  *)
(* keeps its layout and its slot, and is in the cache list once.           *)
CreatedCacheIntact ==
  \A c \in handles :
    /\ cache[c].is_used /\ ~cache[c].destroying
    /\ cache[c].slab_order = LayoutOrder /\ cache[c].objs_per_slab = LayoutObjs
    /\ Cardinality({k \in 1 .. Len(cache_list) : cache_list[k] = c}) = 1

(* get_objects_in_use, what kmem_cache_info prints.                        *)
get_objects_in_use(c) ==
  LET sum[k \in 0 .. Len(cache[c].partial)] ==
        IF k = 0 THEN 0 ELSE sum[k-1] + slab[cache[c].partial[k]].inuse
  IN Len(cache[c].full) * cache[c].objs_per_slab + sum[Len(cache[c].partial)]

(* The count kmem_cache_info computes from the lists is the number of      *)
(* objects of the cache in use.                                            *)
InfoExact ==
  \A c \in handles : get_objects_in_use(c) = Cardinality({o \in InUse : o[1] = c})

(* All of that: a slab, the lists it is on and the counts made from them   *)
(* agree.                                                                  *)
SlabsExact == SlabExact /\ ListsExact /\ InfoExact

(* The slab layer uses the page layer as PageAllocator asks: it makes      *)
(* slabs only of blocks it holds, always whole, and gives back blocks no   *)
(* page of which is still marked as a slab.                                *)
PageContract == PA!Spec

(* A page that has been given back does not name a slab: what an           *)
(* allocation does with its new slab when it finds the cache being         *)
(* destroyed undoes all that it had published.                             *)
GivenBackUnowned ==
  \A p \in Pages : (\A b \in held : p \notin Span(b[1], b[2])) => owner_slab[p] = NULL

(* kmem_cache_destroy comes to its end: once destroying is set no new slab *)
(* appears, so its shrink loop runs dry.                                   *)
DestroyReturns ==
  \A t \in Threads : pc[t] = "destroy_mark" ~> pc[t] = "idle"

=============================================================================
