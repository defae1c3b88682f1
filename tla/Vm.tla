--------------------------------- MODULE Vm ---------------------------------
(***************************************************************************)
(* User address spaces (kernel/vm.c): page tables, sbrk, page faults, the  *)
(* copy of fork and the new image of exec (kernel/exec.c), with every way  *)
(* they run out of memory.                                                 *)
(*                                                                         *)
(* An address space belongs to one process; processes meet only in kalloc. *)
(* So a call is one step, in which any kalloc may fail: others may hold    *)
(* the rest of the free frames for a moment.  Frames are counted (that     *)
(* kalloc gives out distinct ones is the subject of Buddy).  A page has    *)
(* PageBytes bytes and a page of a page table PTES entries.                *)
(***************************************************************************)
EXTENDS Naturals, Integers, Sequences, FiniteSets, SequencesExt

CONSTANTS VmProc, VmFirst,   \* processes, and the one that exists at first
          PageBytes, PTES,
          USERSTACK,
          VmFrames,          \* frames of memory
          SbrkSizes,         \* arguments of sbrk
          VmAddrs,           \* addresses of faults and of copies (bound)
          Programs           \* program headers of the ELF files

ASSUME VmAssumption ==
  /\ VmFirst \in VmProc /\ {PageBytes, PTES, USERSTACK, VmFrames} \subseteq Nat \ {0}
  /\ PTES >= 2 /\ SbrkSizes \subseteq Int
  /\ VmAddrs \subseteq 0 .. (PTES * PTES * PTES - 1) * PageBytes - 1
  /\ \A ph \in Programs : ph \in Seq([vaddr : Nat, filesz : Nat, memsz : Nat])

VARIABLES vm,         \* each process: its page table and p->sz
          vm_free,    \* free frames
          vm_failed,  \* the last call failed
          vm_panic    \* a panic of vm.c or exec.c was reached

vmVars == <<vm, vm_free, vm_failed, vm_panic>>

TRAMPOLINE == PTES * PTES * PTES - 1
TRAPFRAME  == TRAMPOLINE - 1
Page       == 0 .. TRAMPOLINE

PGROUNDDOWN(a) == a \div PageBytes
PGROUNDUP(a)   == (a + PageBytes - 1) \div PageBytes

pages(from, to) == [k \in 1 .. (IF to > from THEN to - from ELSE 0) |-> from + k - 1]

(* A page table: its pages below the root, the valid PTEs with their       *)
(* flags ({} for an invalid one), the frames kalloc may still give out,    *)
(* and whether the call has been successful so far, or has panicked.       *)
no_space   == [root |-> FALSE, tables |-> {}, pte |-> [a \in Page |-> {}], sz |-> 0]
work(s, k) == [s |-> s, k |-> k, ok |-> TRUE, panic |-> FALSE]
fail(m)    == [m EXCEPT !.ok = FALSE]

(* What follows a step that may fail, and how a failure is undone.         *)
then(m, Step(_)) == IF m.ok THEN Step(m) ELSE m
undo(m, Back(_)) == IF m.ok THEN m ELSE Back(m)

kalloc(m)   == IF m.ok /\ m.k > 0 THEN [m EXCEPT !.k = @ - 1] ELSE fail(m)
kfree(m, n) == [m EXCEPT !.k = @ + n]

-----------------------------------------------------------------------------
(* walk(a, alloc = 1): the tables of levels 1 and 0 on the way to page a.  *)
walk(m, a) ==
  FoldLeft(LAMBDA w, t : IF t \in w.s.tables THEN w
                         ELSE then(kalloc(w), LAMBDA got : [got EXCEPT !.s.tables = @ \cup {t}]),
           m, << <<1, a \div (PTES * PTES)>>, <<0, a \div PTES>> >>)

mappages(m, a, perm) ==
  then(walk(m, a), LAMBDA w : [w EXCEPT !.panic = @ \/ w.s.pte[a] # {}, !.s.pte[a] = perm])

(* uvmunmap of the pages from .. to - 1, which are freed if do_free.       *)
uvmunmap(m, from, to, do_free) ==
  LET found == {a \in Page : from <= a /\ a < to /\ m.s.pte[a] # {}}
  IN [kfree(m, IF do_free THEN Cardinality(found) ELSE 0) EXCEPT
        !.s.pte = [a \in Page |-> IF a \in found THEN {} ELSE m.s.pte[a]]]

uvmdealloc(m, oldsz, newsz) ==
  IF newsz >= oldsz THEN m ELSE uvmunmap(m, PGROUNDUP(newsz), PGROUNDUP(oldsz), TRUE)

(* A frame for page a, given back when a has no place in the table.        *)
map_new(m, a, perm) ==
  then(kalloc(m), LAMBDA got : undo(mappages(got, a, perm), LAMBDA put : kfree(put, 1)))

(* Faulty variant: the pages below the one that failed stay.               *)
Bug_uvmalloc_no_undo(m, oldsz, newsz, xperm) ==
  FoldLeft(LAMBDA w, a : map_new(w, a, {"R", "U"} \cup xperm),
           m, pages(PGROUNDUP(oldsz), PGROUNDUP(newsz)))

uvmalloc(m, oldsz, newsz, xperm) ==
  FoldLeft(LAMBDA w, a :
             then(w, LAMBDA x : undo(map_new(x, a, {"R", "U"} \cup xperm), LAMBDA put :
                                  uvmdealloc(put, a * PageBytes, PGROUNDUP(oldsz) * PageBytes))),
           m, pages(PGROUNDUP(oldsz), PGROUNDUP(newsz)))

(* freewalk and uvmfree: every table goes back; a PTE that is still valid  *)
(* is a panic.                                                             *)
freewalk(m) ==
  [kfree(m, Cardinality(m.s.tables) + 1) EXCEPT
     !.panic = @ \/ \E a \in Page : m.s.pte[a] # {}, !.s = no_space]

uvmfree(m, sz) == freewalk(uvmunmap(m, 0, PGROUNDUP(sz), TRUE))

(* Faulty variant: the copies made before the failure are not unmapped.    *)
Bug_uvmcopy_no_undo(old, m) ==
  FoldLeft(LAMBDA w, a : IF old.pte[a] = {} THEN w ELSE map_new(w, a, old.pte[a]),
           m, pages(0, PGROUNDUP(old.sz)))

uvmcopy(old, m) ==
  FoldLeft(LAMBDA w, a :
             IF ~w.ok \/ old.pte[a] = {} THEN w
             ELSE undo(map_new(w, a, old.pte[a]), LAMBDA put : uvmunmap(put, 0, a, TRUE)),
           m, pages(0, PGROUNDUP(old.sz)))

vmfault(m, addr) ==
  LET a == PGROUNDDOWN(addr)
  IN IF addr >= m.s.sz \/ m.s.pte[a] # {} THEN fail(m)
     ELSE map_new(m, a, {"W", "U", "R"})

(* Whether walkaddr finds page a, mapped and for the user.                 *)
walkaddr(m, a) == "U" \in m.s.pte[a]

(* The guard page, hidden from the user.                                   *)
uvmclear(m, a) == [m EXCEPT !.s.pte[a] = @ \ {"U"}]

(* copyin, or copyout when write, of the bytes addr .. addr + len - 1.     *)
copy(m, addr, len, write) ==
  FoldLeft(LAMBDA w, a :
             then(IF ~w.ok \/ walkaddr(w, a) THEN w ELSE vmfault(w, a * PageBytes),
                  LAMBDA there : [there EXCEPT !.ok = write => "W" \in there.s.pte[a]]),
           m, pages(PGROUNDDOWN(addr), PGROUNDUP(addr + len)))

-----------------------------------------------------------------------------
(* proc_pagetable: TRAMPOLINE and TRAPFRAME, or all is freed again.        *)
proc_pagetable(m) ==
  LET uvmcreate  == then(kalloc(m), LAMBDA g : [g EXCEPT !.s = [no_space EXCEPT !.root = TRUE]])
      trampoline == then(uvmcreate, LAMBDA r :
                      undo(mappages(r, TRAMPOLINE, {"R", "X"}), LAMBDA t : uvmfree(t, 0)))
  IN then(trampoline, LAMBDA t :
       undo(mappages(t, TRAPFRAME, {"R", "W"}),
            LAMBDA f : uvmfree(uvmunmap(f, TRAMPOLINE, TRAMPOLINE + 1, FALSE), 0)))

proc_freepagetable(m, sz) == uvmfree(uvmunmap(m, TRAPFRAME, TRAMPOLINE + 1, FALSE), sz)

(* growproc; a size that would go below 0 wraps, and nothing changes.      *)
growproc(m, n) ==
  LET sz == m.s.sz
  IN CASE n > 0 /\ sz + n > TRAPFRAME * PageBytes  -> fail(m)
       [] n > 0 /\ sz + n <= TRAPFRAME * PageBytes ->
            then(uvmalloc(m, sz, sz + n, {"W"}), LAMBDA up : [up EXCEPT !.s.sz = sz + n])
       [] n <= 0 /\ sz + n >= 0 -> [uvmdealloc(m, sz, sz + n) EXCEPT !.s.sz = sz + n]
       [] n <= 0 /\ sz + n < 0  -> m

(* The lazy branch of sys_sbrk: only the size grows.                       *)
sbrk_lazy(m, n) ==
  IF m.s.sz + n > TRAPFRAME * PageBytes THEN fail(m) ELSE [m EXCEPT !.s.sz = @ + n]

(* allocproc's trapframe and page table, and uvmcopy; freeproc if it fails.*)
fork(old, m) ==
  LET allocproc == then(kalloc(m), LAMBDA tf :
                     undo(proc_pagetable(tf), LAMBDA pt : kfree(pt, 1)))
      copied    == then(allocproc, LAMBDA np :
                     undo(uvmcopy(old, np), LAMBDA c : kfree(proc_freepagetable(c, 0), 1)))
  IN then(copied, LAMBDA np : [np EXCEPT !.s.sz = old.sz])

-----------------------------------------------------------------------------
(* loadseg: the pages of the segment must be there; readi may come short.  *)
loadseg(m, ph, short) ==
  [m EXCEPT !.ok = ~short,
            !.panic = @ \/ \E a \in PGROUNDDOWN(ph.vaddr) .. PGROUNDUP(ph.vaddr + ph.filesz) - 1 :
                             ~walkaddr(m, a)]

(* kexec: one program header, of a file whose segment may be cut short.    *)
load(m, ph, short) ==
  LET end == ph.vaddr + ph.memsz
      sz1 == IF end < m.s.sz THEN m.s.sz ELSE end
  IN IF ph.memsz < ph.filesz \/ ph.vaddr % PageBytes # 0 THEN fail(m)
     ELSE then(uvmalloc(m, m.s.sz, end, {"X", "W"}), LAMBDA up :
            IF sz1 = 0 THEN fail(up) ELSE loadseg([up EXCEPT !.s.sz = sz1], ph, short))

(* The stack, and below it the guard page.                                 *)
stack(m) ==
  LET base == PGROUNDUP(m.s.sz) * PageBytes
      top  == base + (USERSTACK + 1) * PageBytes
  IN then(uvmalloc(m, base, top, {"W"}), LAMBDA up :
       uvmclear([up EXCEPT !.s.sz = top], PGROUNDDOWN(base)))

(* kexec of the headers ph, the segment at cut being short, and arguments  *)
(* that do not fit on the stack if long.  The old image is freed only when *)
(* the new one is complete; otherwise the new one is.                      *)
kexec(m, ph, cut, long) ==
  LET image(e) == then(FoldLeft(LAMBDA w, j : then(w, LAMBDA x : load(x, ph[j], j = cut)),
                                e, [j \in 1 .. Len(ph) |-> j]), stack)
      argv(e)  == [e EXCEPT !.ok = @ /\ ~long]
      bad(e)   == [proc_freepagetable(e, e.s.sz) EXCEPT !.s = m.s]
      commit(e) == [proc_freepagetable([e EXCEPT !.s = m.s], m.s.sz) EXCEPT !.s = e.s]
  IN then(undo(proc_pagetable(m), LAMBDA e : [e EXCEPT !.s = m.s]),
          LAMBDA e : then(undo(argv(image(e)), bad), commit))

(* sys_exec: a page for each of the n arguments, freed on every way out.   *)
sys_exec(m, n, ph, cut, long) ==
  IF m.k < n THEN fail(m) ELSE kfree(kexec([m EXCEPT !.k = @ - n], ph, cut, long), n)

-----------------------------------------------------------------------------
live == {p \in VmProc : vm[p].root}

(* The step of a call that had k frames at its disposal, and ended as m.   *)
vm_step(call, p, k, m) ==
  /\ vm' = [vm EXCEPT ![p] = m.s]
  /\ vm_free' = vm_free - k + m.k
  /\ vm_failed' = IF m.ok THEN "none" ELSE call
  /\ vm_panic' = (vm_panic \/ m.panic)

vm_sbrk(p, n, k) ==
  /\ p \in live /\ n \in SbrkSizes
  /\ vm_step("sbrk", p, k, growproc(work(vm[p], k), n))

vm_sbrk_lazy(p, n) ==
  /\ p \in live /\ n \in SbrkSizes /\ n >= 0
  /\ vm_step("sbrk", p, 0, sbrk_lazy(work(vm[p], 0), n))

(* usertrap's page fault.                                                  *)
vm_usertrap(p, addr, k) ==
  /\ p \in live
  /\ vm_step("fault", p, k, vmfault(work(vm[p], k), addr))

vm_copy(p, addr, len, write, k) ==
  /\ p \in live
  /\ vm_step("copy", p, k, copy(work(vm[p], k), addr, len, write))

vm_fork(p, q, k) ==
  /\ p \in live /\ q \notin live
  /\ vm_step("fork", q, k, fork(vm[p], work(vm[q], k)))

vm_exec(p, n, ph, cut, long, k) ==
  /\ p \in live
  /\ vm_step("exec", p, k, sys_exec(work(vm[p], k), n, ph, cut, long))

(* freeproc, for a process that has exited (the first one never does).     *)
vm_freeproc(p) ==
  /\ p \in live \ {VmFirst}
  /\ vm_step("none", p, 0, kfree(proc_freepagetable(work(vm[p], 0), vm[p].sz), 1))

VmInit ==
  LET boot == fork(no_space, work(no_space, VmFrames))
  IN /\ vm = [p \in VmProc |-> IF p = VmFirst THEN boot.s ELSE no_space]
     /\ vm_free = boot.k
     /\ vm_failed = "none" /\ vm_panic = FALSE

(* What kalloc may have left for a call that needs at most n pages, each   *)
(* with two pages of the page table; having more makes no difference.      *)
frames_for(n) == 0 .. (IF 3 * n < vm_free THEN 3 * n ELSE vm_free)

(* Bound: exec meets a bad file, arguments too long or a lack of memory,   *)
(* not two of them in one call.                                            *)
VmNext ==
  \E p \in VmProc :
    \/ \E n \in SbrkSizes : vm_sbrk_lazy(p, n)
    \/ vm_freeproc(p)
    \/ \E ph \in Programs :
         \/ \E cut \in 1 .. Len(ph) : vm_exec(p, 1, ph, cut, FALSE, vm_free)
         \/ vm_exec(p, 1, ph, 0, TRUE, vm_free)
    \/ \E n \in SbrkSizes :
         \E k \in frames_for(IF n > 0 THEN PGROUNDUP(n) ELSE 0) : vm_sbrk(p, n, k)
    \/ \E addr \in VmAddrs :
         \/ \E k \in frames_for(1) : vm_usertrap(p, addr, k)
         \/ \E write \in BOOLEAN, k \in frames_for(2) : vm_copy(p, addr, PageBytes, write, k)
    \/ \E k \in 0 .. vm_free :
         \/ \E q \in VmProc : vm_fork(p, q, k)
         \/ \E ph \in Programs : vm_exec(p, 1, ph, 0, FALSE, k)

VmSpec == VmInit /\ [][VmNext]_vmVars

-----------------------------------------------------------------------------
VmTypeOK ==
  /\ vm \in [VmProc -> [root : BOOLEAN, tables : SUBSET ({0, 1} \X Nat),
                        pte : [Page -> SUBSET {"R", "W", "X", "U"}], sz : Nat]]
  /\ vm_free \in 0 .. VmFrames
  /\ vm_failed \in {"none", "sbrk", "fault", "copy", "fork", "exec"} /\ vm_panic \in BOOLEAN

(* Every frame is free or belongs to one process, as its trapframe, a page *)
(* of its page table or a page of user memory: no way out of fork, exec,   *)
(* sbrk or a page fault loses a frame or frees one twice.                  *)
FramesExact ==
  vm_free + MapThenSumSet(LAMBDA p : 2 + Cardinality(vm[p].tables)
                                     + Cardinality({a \in 0 .. TRAPFRAME - 1 : vm[p].pte[a] # {}}), live)
    = VmFrames

(* The panics "mappages: remap", "freewalk: leaf" and "loadseg: address    *)
(* should exist" are never reached.                                        *)
NoVmPanic == ~vm_panic

(* p->sz covers what is mapped: user pages are below it, the trampoline    *)
(* and the trapframe, above it, are out of reach of user mode.  So uvmfree *)
(* finds every page.                                                       *)
PagesBelowSize ==
  \A p \in live :
    /\ vm[p].sz <= TRAPFRAME * PageBytes
    /\ \A a \in {TRAMPOLINE, TRAPFRAME} : vm[p].pte[a] # {} /\ "U" \notin vm[p].pte[a]
    /\ \A a \in 0 .. TRAPFRAME - 1 : vm[p].pte[a] # {} => a < PGROUNDUP(vm[p].sz)

(* All of that: frames and page tables are right after every call.         *)
PagesExact == FramesExact /\ NoVmPanic /\ PagesBelowSize

(* A fork, exec or sbrk that fails leaves every process the memory it had. *)
FailedCallsUndone ==
  [][vm_failed' \in {"fork", "exec", "sbrk"} =>
       \A p \in VmProc : vm'[p].pte = vm[p].pte /\ vm'[p].sz = vm[p].sz]_vmVars

=============================================================================
