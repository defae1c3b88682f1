----------------------------- MODULE VirtioDisk -----------------------------
(***************************************************************************)
(* The disk driver (kernel/virtio_disk.c): descriptors, the avail and used *)
(* rings shared with the device, the completion interrupt, and processes   *)
(* asleep for descriptors (&free[0]) or for their request (b).             *)
(*                                                                         *)
(* A step is a stretch under vdisk_lock that ends in a sleep or a release; *)
(* the device works on at any time and completes requests in any order.    *)
(* A buffer is locked by the process that reads or writes it, so a process *)
(* stands for its buffer.  A ring slot is emptied when it has been read:   *)
(* what is left in it is not looked at again.                              *)
(***************************************************************************)
EXTENDS Naturals, FiniteSets

CONSTANTS DiskProc, NUM,
          UINT16,        \* the modulus of the ring indices, 2^16 in the code
          Nil

ASSUME VirtioAssumption ==
  /\ NUM \in Nat \ {0} /\ NUM >= 3
  /\ UINT16 \in Nat /\ UINT16 > NUM /\ UINT16 % NUM = 0
  /\ Nil \notin DiskProc \cup Nat

VARIABLES vd,          \* struct disk, with b->disk of each buffer
          vd_ring,     \* the avail and used rings
          vd_dev,      \* the device: how far it has read, what it works on
          vd_irq,      \* the interrupt is pending; the handler is running
          vd_op        \* each process: where it is, and its descriptors

diskVars == <<vd, vd_ring, vd_dev, vd_irq, vd_op>>

Desc == 0 .. NUM - 1

(* The end of virtio_disk_init: queue memory zeroed, descriptors free.     *)
virtio_disk_init ==
  /\ vd = [free |-> [i \in Desc |-> TRUE], next |-> [i \in Desc |-> Nil],
           b |-> [i \in Desc |-> Nil], ok |-> [i \in Desc |-> FALSE],
           used_idx |-> 0, pending |-> [p \in DiskProc |-> FALSE]]
  /\ vd_ring = [avail |-> [i \in Desc |-> Nil], avail_idx |-> 0,
                used |-> [i \in Desc |-> Nil], used_idx |-> 0]

VirtioInit ==
  /\ virtio_disk_init
  /\ vd_dev = [seen |-> 0, busy |-> {}]
  /\ vd_irq = [pending |-> FALSE, running |-> FALSE]
  /\ vd_op = [p \in DiskProc |-> [at |-> "none", idx |-> <<>>]]

vd_at(p) == vd_op[p].at

(* wakeup(&free[0]): the processes asleep for descriptors try again.       *)
wake_free(op) ==
  [q \in DiskProc |-> IF op[q].at = "sleep_free" THEN [op[q] EXCEPT !.at = "alloc"] ELSE op[q]]

-----------------------------------------------------------------------------
virtio_disk_call(p) ==
  /\ vd_at(p) = "none"
  /\ vd_op' = [vd_op EXCEPT ![p].at = "alloc"]
  /\ UNCHANGED <<vd, vd_ring, vd_dev, vd_irq>>

(* alloc3_desc takes the three lowest free descriptors.                    *)
free_descs == {i \in Desc : vd.free[i]}
lowest(S)  == CHOOSE i \in S : \A j \in S : i <= j
alloc3_desc ==
  LET a == lowest(free_descs)
      b == lowest(free_descs \ {a})
  IN <<a, b, lowest(free_descs \ {a, b})>>

(* Faulty variant: the head goes into the slot after the next one.         *)
Bug_submit_slot(p) ==
  /\ vd_at(p) = "alloc" /\ ~vd_irq.running /\ Cardinality(free_descs) >= 3
  /\ LET idx == alloc3_desc IN
       /\ vd' = [vd EXCEPT !.free = [i \in Desc |-> @[i] /\ i \notin {idx[1], idx[2], idx[3]}],
                           !.next[idx[1]] = idx[2], !.next[idx[2]] = idx[3], !.next[idx[3]] = Nil,
                           !.b[idx[1]] = p, !.ok[idx[1]] = FALSE, !.pending[p] = TRUE]
       /\ vd_ring' = [vd_ring EXCEPT !.avail[(vd_ring.avail_idx + 1) % NUM] = idx[1],
                                     !.avail_idx = (@ + 1) % UINT16]
       /\ vd_op' = [vd_op EXCEPT ![p] = [at |-> "sleep_b", idx |-> idx]]
  /\ UNCHANGED <<vd_dev, vd_irq>>

(* The descriptors are there: chain them, hand the head to the device and  *)
(* sleep until the request is done.                                        *)
virtio_disk_submit(p) ==
  /\ vd_at(p) = "alloc" /\ ~vd_irq.running /\ Cardinality(free_descs) >= 3
  /\ LET idx == alloc3_desc IN
       /\ vd' = [vd EXCEPT !.free = [i \in Desc |-> @[i] /\ i \notin {idx[1], idx[2], idx[3]}],
                           !.next[idx[1]] = idx[2], !.next[idx[2]] = idx[3], !.next[idx[3]] = Nil,
                           !.b[idx[1]] = p, !.ok[idx[1]] = FALSE, !.pending[p] = TRUE]
       /\ vd_ring' = [vd_ring EXCEPT !.avail[vd_ring.avail_idx % NUM] = idx[1],
                                     !.avail_idx = (@ + 1) % UINT16]
       /\ vd_op' = [vd_op EXCEPT ![p] = [at |-> "sleep_b", idx |-> idx]]
  /\ UNCHANGED <<vd_dev, vd_irq>>

(* They are not: alloc3_desc gives back the one or two it got, and free_desc *)
(* wakes the others that wait, although nothing has become free.           *)
virtio_disk_no_desc(p) ==
  /\ vd_at(p) = "alloc" /\ ~vd_irq.running /\ Cardinality(free_descs) < 3
  /\ vd_op' = [IF free_descs = {} THEN vd_op ELSE wake_free(vd_op)
                 EXCEPT ![p].at = "sleep_free"]
  /\ UNCHANGED <<vd, vd_ring, vd_dev, vd_irq>>

(* Woken, but not by the completion: sleep again.                          *)
virtio_disk_again(p) ==
  /\ vd_at(p) = "woken" /\ ~vd_irq.running /\ vd.pending[p]
  /\ vd_op' = [vd_op EXCEPT ![p].at = "sleep_b"]
  /\ UNCHANGED <<vd, vd_ring, vd_dev, vd_irq>>

(* The chain that starts at i.                                             *)
chain(i) ==
  LET j == vd.next[i] IN
  IF j = Nil THEN {i} ELSE IF vd.next[j] = Nil THEN {i, j} ELSE {i, j, vd.next[j]}

(* Faulty variant: no wakeup for the processes that wait for descriptors.  *)
Bug_free_no_wakeup(p) ==
  /\ vd_at(p) = "woken" /\ ~vd_irq.running /\ ~vd.pending[p]
  /\ LET freed == chain(vd_op[p].idx[1]) IN
       /\ vd' = [vd EXCEPT !.b[vd_op[p].idx[1]] = Nil,
                           !.free = [i \in Desc |-> @[i] \/ i \in freed],
                           !.next = [i \in Desc |-> IF i \in freed THEN Nil ELSE @[i]]]
       /\ vd_op' = [vd_op EXCEPT ![p] = [at |-> "none", idx |-> <<>>]]
  /\ UNCHANGED <<vd_ring, vd_dev, vd_irq>>

(* The request is done: free_chain.                                        *)
virtio_disk_done(p) ==
  /\ vd_at(p) = "woken" /\ ~vd_irq.running /\ ~vd.pending[p]
  /\ LET freed == chain(vd_op[p].idx[1]) IN
       /\ vd' = [vd EXCEPT !.b[vd_op[p].idx[1]] = Nil,
                           !.free = [i \in Desc |-> @[i] \/ i \in freed],
                           !.next = [i \in Desc |-> IF i \in freed THEN Nil ELSE @[i]]]
       /\ vd_op' = [wake_free(vd_op) EXCEPT ![p] = [at |-> "none", idx |-> <<>>]]
  /\ UNCHANGED <<vd_ring, vd_dev, vd_irq>>

(* kkill makes any sleeper runnable; its loop tests the condition again.   *)
virtio_kkill(p) ==
  /\ \/ vd_at(p) = "sleep_b" /\ vd_op' = [vd_op EXCEPT ![p].at = "woken"]
     \/ vd_at(p) = "sleep_free" /\ vd_op' = [vd_op EXCEPT ![p].at = "alloc"]
  /\ UNCHANGED <<vd, vd_ring, vd_dev, vd_irq>>

-----------------------------------------------------------------------------
(* The device (external): it takes the heads in the order of the ring,     *)
(* and reports each on the used ring when it has carried it out.           *)
device_take ==
  /\ vd_dev.seen # vd_ring.avail_idx
  /\ vd_dev' = [seen |-> (vd_dev.seen + 1) % UINT16,
                busy |-> vd_dev.busy \cup {vd_ring.avail[vd_dev.seen % NUM]}]
  /\ vd_ring' = [vd_ring EXCEPT !.avail[vd_dev.seen % NUM] = Nil]
  /\ UNCHANGED <<vd, vd_irq, vd_op>>

device_done(i) ==
  /\ i \in vd_dev.busy
  /\ vd_dev' = [vd_dev EXCEPT !.busy = @ \ {i}]
  /\ vd' = [vd EXCEPT !.ok[i] = TRUE]
  /\ vd_ring' = [vd_ring EXCEPT !.used[vd_ring.used_idx % NUM] = i,
                                !.used_idx = (@ + 1) % UINT16]
  /\ vd_irq' = [vd_irq EXCEPT !.pending = TRUE]
  /\ UNCHANGED vd_op

(* virtio_disk_intr: acknowledge first ...                                 *)
intr_ack ==
  /\ vd_irq.pending /\ ~vd_irq.running
  /\ vd_irq' = [pending |-> FALSE, running |-> TRUE]
  /\ UNCHANGED <<vd, vd_ring, vd_dev, vd_op>>

(* ... then one pass of the loop for each entry of the used ring ...       *)
intr_entry ==
  /\ vd_irq.running /\ vd.used_idx # vd_ring.used_idx
  /\ LET id == vd_ring.used[vd.used_idx % NUM]
         p  == vd.b[id]
     IN /\ vd.ok[id]                            \* or else a panic
        /\ vd' = [vd EXCEPT !.pending[p] = FALSE, !.used_idx = (@ + 1) % UINT16]
        /\ vd_op' = IF vd_at(p) = "sleep_b" THEN [vd_op EXCEPT ![p].at = "woken"] ELSE vd_op
  /\ vd_ring' = [vd_ring EXCEPT !.used[vd.used_idx % NUM] = Nil]
  /\ UNCHANGED <<vd_dev, vd_irq>>

(* Faulty variant: the interrupt is acknowledged on the way out, when the  *)
(* device may have added to the ring since.                                *)
Bug_intr_ack_last ==
  /\ vd_irq.running
  /\ vd_irq' = [pending |-> FALSE, running |-> FALSE]
  /\ UNCHANGED <<vd, vd_ring, vd_dev, vd_op>>

(* ... and out when there is none.                                         *)
intr_done ==
  /\ vd_irq.running /\ vd.used_idx = vd_ring.used_idx
  /\ vd_irq' = [vd_irq EXCEPT !.running = FALSE]
  /\ UNCHANGED <<vd, vd_ring, vd_dev, vd_op>>

intr_step == intr_ack \/ intr_entry \/ intr_done

VirtioNext ==
  \/ \E p \in DiskProc : \/ virtio_disk_call(p) \/ virtio_disk_submit(p) \/ virtio_disk_no_desc(p)
                         \/ virtio_disk_again(p) \/ virtio_disk_done(p) \/ virtio_kkill(p)
  \/ device_take \/ (\E i \in Desc : device_done(i)) \/ intr_step

VirtioSpec == VirtioInit /\ [][VirtioNext]_diskVars

-----------------------------------------------------------------------------
VirtioTypeOK ==
  /\ vd.free \in [Desc -> BOOLEAN] /\ vd.next \in [Desc -> Desc \cup {Nil}]
  /\ vd.b \in [Desc -> DiskProc \cup {Nil}] /\ vd.ok \in [Desc -> BOOLEAN]
  /\ vd.used_idx \in 0 .. UINT16 - 1 /\ vd.pending \in [DiskProc -> BOOLEAN]
  /\ vd_ring.avail \in [Desc -> Desc \cup {Nil}] /\ vd_ring.avail_idx \in 0 .. UINT16 - 1
  /\ vd_ring.used \in [Desc -> Desc \cup {Nil}] /\ vd_ring.used_idx \in 0 .. UINT16 - 1
  /\ vd_dev.seen \in 0 .. UINT16 - 1 /\ vd_dev.busy \subseteq Desc
  /\ \A p \in DiskProc : vd_at(p) \in {"none", "alloc", "sleep_free", "sleep_b", "woken"}

in_flight == {p \in DiskProc : vd_at(p) \in {"sleep_b", "woken"}}

(* Every descriptor is free or belongs to the chain of one request, and    *)
(* the chain the device and free_chain follow is the one that was          *)
(* allocated: neither a leak nor free_desc's panic for freeing twice.      *)
DescriptorsExact ==
  /\ \A p \in in_flight : chain(vd_op[p].idx[1]) = {vd_op[p].idx[k] : k \in 1 .. 3}
  /\ \A i \in Desc : Cardinality({p \in in_flight : i \in chain(vd_op[p].idx[1])})
                       = IF vd.free[i] THEN 0 ELSE 1

(* A request is where it should be, and once: on the avail ring, with the  *)
(* device, or on the used ring while its buffer is marked as owned by the  *)
(* disk, and nowhere afterwards; so no ring slot is overwritten before it  *)
(* is read, and the handler finds the buffer it must wake.                 *)
RequestsAccounted ==
  \A p \in in_flight :
    LET id == vd_op[p].idx[1]
        places == {<<"avail", k>> : k \in {k \in Desc : vd_ring.avail[k] = id}}
             \cup {<<"used", k>> : k \in {k \in Desc : vd_ring.used[k] = id}}
             \cup {<<"device", k>> : k \in {k \in vd_dev.busy : k = id}}
    IN /\ vd.b[id] = p
       /\ Cardinality(places) = IF vd.pending[p] THEN 1 ELSE 0
       /\ ~vd.pending[p] => vd.ok[id]

(* The acknowledgement before the loop loses no completion: an entry that  *)
(* nobody has looked at comes with an interrupt pending or running.        *)
NoCompletionMissed ==
  vd.used_idx # vd_ring.used_idx => vd_irq.pending \/ vd_irq.running

(* All of that: descriptors, requests and interrupts are accounted for,    *)
(* however the driver, the device and the handler interleave.              *)
RingsExact == DescriptorsExact /\ RequestsAccounted /\ NoCompletionMissed

(* No lost wakeup: a process is asleep for descriptors only while fewer    *)
(* than three are free, and for its request only while the disk has it.    *)
DiskWaitsExact ==
  \A p \in DiskProc :
    /\ vd_at(p) = "sleep_free" => Cardinality(free_descs) < 3
    /\ vd_at(p) = "sleep_b" => vd.pending[p]

(* A request that was given to the device comes back to its buffer.        *)
RequestFinishes(p) == vd.pending[p] ~> ~vd.pending[p]

=============================================================================
