------------------------------ MODULE MCKernel ------------------------------
(* Five parts of the kernel: the computations at startup, the buddy        *)
(* allocator, the file table, the file system calls, and address spaces.   *)
(* Their modules share no state, so a behaviour is one of a single part,   *)
(* the others staying as they are at first.                                *)
EXTENDS MCStartup, Buddy, FileTable, Inode, Vm, TLC

CONSTANTS p1, p2

(* Two processes at work on the same two names: directories made, entered, *)
(* filled and removed while the other one does the same.                   *)
Path(c, absolute, path) == [call |-> c, abs |-> absolute, path |-> path, new |-> <<>>]
Link(path, new) == [call |-> "link", abs |-> TRUE, path |-> path, new |-> new]

MCFsCalls ==
  (p1 :> {Path("mkdir", TRUE, <<"a">>), Path("chdir", TRUE, <<"a">>),
          Path("create", FALSE, <<"b">>), Path("open", FALSE, <<"b">>),
          Link(<<"b">>, <<"a", "b">>)})
  @@ (p2 :> {Path("unlink", TRUE, <<"a">>), Path("unlink", TRUE, <<"a", "b">>),
             Path("mknod", TRUE, <<"a">>), Link(<<"a">>, <<"b">>)})

(* A program with a segment of one page read from the file, and one of     *)
(* zeroes that ends inside a page.                                         *)
Segment(v, f, m) == [vaddr |-> v, filesz |-> f, memsz |-> m]
MCPrograms  == {<<Segment(0, 2, 2), Segment(2, 0, 1)>>}
MCSbrkSizes == {3, -3}

VARIABLE which

startupVars == <<layoutVars, regionVars>>
kernelVars  == <<which, startupVars, vars, ftVars, fsVars, vmVars>>

MCInit ==
  /\ StartupInit /\ Init /\ FileTableInit /\ InodeInit /\ VmInit
  /\ which \in {"startup", "blocks", "files", "inodes", "memory"}
  /\ which # "blocks" => managed_start = Min(Starts)

MCNext ==
  \/ which = "startup" /\ StartupNext /\ UNCHANGED <<which, vars, ftVars, fsVars, vmVars>>
  \/ which = "blocks" /\ Next /\ UNCHANGED <<which, startupVars, ftVars, fsVars, vmVars>>
  \/ which = "files" /\ FileTableNext /\ UNCHANGED <<which, startupVars, vars, fsVars, vmVars>>
  \/ which = "inodes" /\ InodeNext /\ UNCHANGED <<which, startupVars, vars, ftVars, vmVars>>
  \/ which = "memory" /\ VmNext /\ UNCHANGED <<which, startupVars, vars, ftVars, fsVars>>

(* The holder of buddy_lock has interrupts off and does not sleep, so it   *)
(* goes on to the end of the operation.                                    *)
MCSpec == MCInit /\ [][MCNext]_kernelVars /\ WF_vars(which = "blocks" /\ Internal)

KernelTypeOK ==
  /\ which = "startup" => LayoutTypeOK /\ RegionTypeOK
  /\ which = "blocks" => TypeOK
  /\ which = "files" => FileTableTypeOK
  /\ which = "inodes" => InodeTypeOK
  /\ which = "memory" => VmTypeOK

(* Every operation of the buddy allocator ends: the carving, splitting and *)
(* merging loops stop and buddy_lock is released.                          *)
BuddyLockReleased == []<>(which = "blocks" => op = "idle")

=============================================================================
