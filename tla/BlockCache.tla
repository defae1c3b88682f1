----------------------------- MODULE BlockCache -----------------------------
(***************************************************************************)
(* What the buffer cache (kernel/bio.c) promises the log and the file      *)
(* system: one copy of a block in memory, one process at a time using it,  *)
(* and no change forgotten: a copy is dropped only when nobody holds or    *)
(* pins it and it is the same as the block on the disk.                    *)
(***************************************************************************)
EXTENDS Naturals

CONSTANTS Proc, Block, Value, InitValue, NoBuf

VARIABLES home,     \* the blocks on the disk
          copy,     \* the copy in memory, or NoBuf
          pins,     \* how often it is pinned
          holder    \* the process using it, or NoBuf

cacheVars == <<home, copy, pins, holder>>

CacheInit ==
  /\ home = [b \in Block |-> InitValue] /\ copy = [b \in Block |-> NoBuf]
  /\ pins = [b \in Block |-> 0] /\ holder = [b \in Block |-> NoBuf]

Acquire(p, b) ==
  /\ holder[b] = NoBuf /\ holder' = [holder EXCEPT ![b] = p]
  /\ copy' = [copy EXCEPT ![b] = IF @ = NoBuf THEN home[b] ELSE @]
  /\ UNCHANGED <<home, pins>>

Change(p, b, v) ==
  /\ holder[b] = p /\ copy' = [copy EXCEPT ![b] = v]
  /\ UNCHANGED <<home, pins, holder>>

Pin(p, b) ==
  /\ holder[b] = p /\ pins' = [pins EXCEPT ![b] = @ + 1]
  /\ UNCHANGED <<home, copy, holder>>

Unpin(p, b) ==
  /\ holder[b] = p /\ pins[b] > 0 /\ pins' = [pins EXCEPT ![b] = @ - 1]
  /\ UNCHANGED <<home, copy, holder>>

WriteHome(p, b) ==
  /\ holder[b] = p /\ home' = [home EXCEPT ![b] = copy[b]]
  /\ UNCHANGED <<copy, pins, holder>>

Release(p, b) ==
  /\ holder[b] = p /\ holder' = [holder EXCEPT ![b] = NoBuf]
  /\ UNCHANGED <<home, copy, pins>>

Drop(b) ==
  /\ holder[b] = NoBuf /\ pins[b] = 0 /\ copy[b] = home[b]
  /\ copy' = [copy EXCEPT ![b] = NoBuf]
  /\ UNCHANGED <<home, pins, holder>>

CacheNext ==
  \E b \in Block :
    \/ Drop(b)
    \/ \E p \in Proc : \/ Acquire(p, b) \/ Pin(p, b) \/ Unpin(p, b)
                       \/ WriteHome(p, b) \/ Release(p, b)
                       \/ \E v \in Value : Change(p, b, v)

CacheSpec == CacheInit /\ [][CacheNext]_cacheVars

=============================================================================
