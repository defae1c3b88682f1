----------------------------- MODULE FileTable -----------------------------
(***************************************************************************)
(* Open files (kernel/file.c, and the calls of kernel/sysfile.c and        *)
(* kernel/pipe.c that open, share and close them): the descriptors of each *)
(* process, the reference counts of the file structures, the count nfiles  *)
(* that limits them, and the objects of file_cache they are made of.       *)
(*                                                                         *)
(* A step is a stretch under ftable.lock, or one between two of them.      *)
(* There is one inode, of which only the references held by open files     *)
(* matter here (Inode has the rest), and a pipe is the set of its open     *)
(* ends (Pipe has the rest).                                               *)
(***************************************************************************)
EXTENDS Naturals, Sequences, FiniteSets, FiniteSetsExt, Functions

CONSTANTS FtProc, FtFirst,   \* the processes, and the one that exists at first
          NOFILE, NFILE,
          FileObjects,       \* bound: objects file_cache has memory for
          pipe_cache,        \* whether pipe_cache has been assigned
          NoFile

ASSUME FileTableAssumption ==
  /\ FtFirst \in FtProc /\ NOFILE \in Nat \ {0} /\ NFILE \in Nat \ {0}
  /\ FileObjects \in Nat \ {0} /\ pipe_cache \in BOOLEAN /\ NoFile \notin Nat

VARIABLES file,        \* the objects of file_cache in use, with ref and type
          nfiles,      \* ftable.nfiles
          ofile,       \* the descriptors of each process
          ft_op,       \* where each process is
          inode_ref,   \* references to the inode
          pipe_open    \* the pipes that are allocated, with their open ends

ftVars == <<file, nfiles, ofile, ft_op, inode_ref, pipe_open>>

FileNo == 1 .. FileObjects
Fd     == 0 .. NOFILE - 1

(* The type of a file; that of a pipe says which pipe and which end.       *)
FD_NONE  == <<0, "none">>
FD_INODE == <<0, "inode">>
FD_PIPE(k, end) == <<k, end>>

(* Where a process is; the files its call has made, those it has still to  *)
(* close, and what the last file closed has to release.                    *)
ft_user   == [at |-> "user", call |-> "none", made |-> <<>>, close |-> <<>>, last |-> FD_NONE]
ft_unused == [ft_user EXCEPT !.at = "unused"]

no_object == [type |-> FD_NONE, ref |-> 0]

FileTableInit ==
  /\ file = <<>> /\ nfiles = 0
  /\ ofile = [p \in FtProc |-> [fd \in Fd |-> NoFile]]
  /\ ft_op = [p \in FtProc |-> IF p = FtFirst THEN ft_user ELSE ft_unused]
  /\ inode_ref = 0 /\ pipe_open = <<>>

ft_at(p, l)     == ft_op[p].at = l
ft_goto(p, l)   == ft_op' = [ft_op EXCEPT ![p].at = l]
fds_free(p)     == {fd \in Fd : ofile[p][fd] = NoFile}
fds_open(p)     == Fd \ fds_free(p)

(* The files of a call are closed again, one after the other.              *)
ft_close(p, fs) == ft_op' = [ft_op EXCEPT ![p].at = "closing", ![p].close = fs]

-----------------------------------------------------------------------------
(* sys_open has found its inode; it and sys_pipe begin to make files.      *)
sys_open(p) ==
  /\ ft_at(p, "user")
  /\ ft_op' = [ft_op EXCEPT ![p].at = "filealloc", ![p].call = "open"]
  /\ inode_ref' = inode_ref + 1
  /\ UNCHANGED <<file, nfiles, ofile, pipe_open>>

sys_pipe(p) ==
  /\ ft_at(p, "user")
  /\ ft_op' = [ft_op EXCEPT ![p].at = "filealloc", ![p].call = "pipe"]
  /\ UNCHANGED <<file, nfiles, ofile, inode_ref, pipe_open>>

(* filealloc: the table is full; or the file is counted, and then made of  *)
(* an object of file_cache, or counted out again when there is no memory.  *)
filealloc_full(p) ==
  /\ ft_at(p, "filealloc") /\ nfiles >= NFILE
  /\ ft_close(p, ft_op[p].made)
  /\ UNCHANGED <<file, nfiles, ofile, inode_ref, pipe_open>>

(* Faulty variant: one file more than the table has room for.              *)
Bug_filealloc_limit(p) ==
  /\ ft_at(p, "filealloc") /\ nfiles <= NFILE
  /\ nfiles' = nfiles + 1
  /\ ft_goto(p, "object")
  /\ UNCHANGED <<file, ofile, inode_ref, pipe_open>>

filealloc_count(p) ==
  /\ ft_at(p, "filealloc") /\ nfiles < NFILE
  /\ nfiles' = nfiles + 1
  /\ ft_goto(p, "object")
  /\ UNCHANGED <<file, ofile, inode_ref, pipe_open>>

filealloc_object(p) ==
  /\ ft_at(p, "object") /\ Len(file) < FileObjects
  /\ file' = Append(file, [no_object EXCEPT !.ref = 1])
  /\ ft_op' = [ft_op EXCEPT ![p].made = Append(@, Len(file) + 1),
       ![p].at = IF ft_op[p].call = "pipe" /\ ft_op[p].made = <<>> THEN "filealloc" ELSE "install"]
  /\ UNCHANGED <<nfiles, ofile, inode_ref, pipe_open>>

filealloc_undo(p) ==
  /\ ft_at(p, "object")
  /\ nfiles' = nfiles - 1
  /\ ft_close(p, ft_op[p].made)
  /\ UNCHANGED <<file, ofile, inode_ref, pipe_open>>

-----------------------------------------------------------------------------
(* fdalloc for the new file of sys_open, which then owns the reference to  *)
(* the inode; or no descriptor is free.                                    *)
open_install(p) ==
  /\ ft_at(p, "install") /\ ft_op[p].call = "open" /\ fds_free(p) # {}
  /\ LET f == ft_op[p].made[1]
     IN /\ file' = [file EXCEPT ![f].type = FD_INODE]
        /\ ofile' = [ofile EXCEPT ![p][Min(fds_free(p))] = f]
  /\ ft_op' = [ft_op EXCEPT ![p] = ft_user]
  /\ UNCHANGED <<nfiles, inode_ref, pipe_open>>

open_no_fd(p) ==
  /\ ft_at(p, "install") /\ ft_op[p].call = "open" /\ fds_free(p) = {}
  /\ ft_close(p, ft_op[p].made)
  /\ UNCHANGED <<file, nfiles, ofile, inode_ref, pipe_open>>

(* pipealloc gets no memory for the pipe, and while pipe_cache is null it  *)
(* never does.                                                             *)
pipealloc_no_pipe(p) ==
  /\ ft_at(p, "install") /\ ft_op[p].call = "pipe"
  /\ ft_close(p, ft_op[p].made)
  /\ UNCHANGED <<file, nfiles, ofile, inode_ref, pipe_open>>

pipealloc_ends(p) ==
  /\ ft_at(p, "install") /\ ft_op[p].call = "pipe" /\ pipe_cache
  /\ LET r == ft_op[p].made[1]
         w == ft_op[p].made[2]
         k == Len(pipe_open) + 1
     IN /\ pipe_open' = Append(pipe_open, {"r", "w"})
        /\ file' = [file EXCEPT ![r].type = FD_PIPE(k, "r"), ![w].type = FD_PIPE(k, "w")]
  /\ ft_goto(p, "pipe_fds")
  /\ UNCHANGED <<nfiles, ofile, inode_ref>>

(* The rest of sys_pipe: two descriptors, and copyout of their numbers.    *)
pipe_install(p) ==
  /\ ft_at(p, "pipe_fds") /\ Cardinality(fds_free(p)) >= 2
  /\ LET fd0 == Min(fds_free(p))
         fd1 == Min(fds_free(p) \ {fd0})
     IN ofile' = [ofile EXCEPT ![p][fd0] = ft_op[p].made[1], ![p][fd1] = ft_op[p].made[2]]
  /\ ft_op' = [ft_op EXCEPT ![p] = ft_user]
  /\ UNCHANGED <<file, nfiles, inode_ref, pipe_open>>

(* Faulty variant: the first descriptor stays set when there is no second. *)
Bug_pipe_keeps_fd(p) ==
  /\ ft_at(p, "pipe_fds")
  /\ ofile' = IF Cardinality(fds_free(p)) = 1
              THEN [ofile EXCEPT ![p][Min(fds_free(p))] = ft_op[p].made[1]] ELSE ofile
  /\ ft_close(p, ft_op[p].made)
  /\ UNCHANGED <<file, nfiles, inode_ref, pipe_open>>

(* There are not two descriptors, or copyout fails: the descriptors are    *)
(* cleared again and both files closed.                                    *)
pipe_undo(p) ==
  /\ ft_at(p, "pipe_fds")
  /\ ft_close(p, ft_op[p].made)
  /\ UNCHANGED <<file, nfiles, ofile, inode_ref, pipe_open>>

-----------------------------------------------------------------------------
filedup(f) == [file EXCEPT ![f].ref = @ + 1]

(* sys_dup: fdalloc, and then filedup.                                     *)
sys_dup(p, fd) ==
  /\ ft_at(p, "user") /\ fd \in fds_open(p) /\ fds_free(p) # {}
  /\ ofile' = [ofile EXCEPT ![p][Min(fds_free(p))] = ofile[p][fd]]
  /\ file' = filedup(ofile[p][fd])
  /\ UNCHANGED <<nfiles, ft_op, inode_ref, pipe_open>>

sys_close(p, fd) ==
  /\ ft_at(p, "user") /\ fd \in fds_open(p)
  /\ ofile' = [ofile EXCEPT ![p][fd] = NoFile]
  /\ ft_close(p, <<ofile[p][fd]>>)
  /\ UNCHANGED <<file, nfiles, inode_ref, pipe_open>>

(* The descriptors in kfork and kexit: the child gets a reference for each *)
(* descriptor of its parent, and a process that exits (init never does)    *)
(* closes all it has.                                                      *)
fork_files(p, q) ==
  /\ ft_at(p, "user") /\ ft_at(q, "unused")
  /\ ofile' = [ofile EXCEPT ![q] = ofile[p]]
  /\ file' = [f \in DOMAIN file |->
       [file[f] EXCEPT !.ref = @ + Cardinality({fd \in Fd : ofile[p][fd] = f})]]
  /\ ft_op' = [ft_op EXCEPT ![q] = ft_user]
  /\ UNCHANGED <<nfiles, inode_ref, pipe_open>>

exit_files(p) ==
  /\ ft_at(p, "user") /\ p # FtFirst
  /\ ofile' = [ofile EXCEPT ![p] = [fd \in Fd |-> NoFile]]
  /\ ft_op' = [ft_op EXCEPT ![p].at = "closing", ![p].call = "exit",
       ![p].close = SelectSeq([k \in 1 .. NOFILE |-> ofile[p][k - 1]], LAMBDA f : f # NoFile)]
  /\ UNCHANGED <<file, nfiles, inode_ref, pipe_open>>

(* fileclose of the next file in line: not the last reference, or the last *)
(* one.  filefree then counts the file out, but is given the address of    *)
(* the copy on the stack, so the object stays allocated.                   *)
fileclose_shared(p) ==
  /\ ft_at(p, "closing") /\ ft_op[p].close # <<>>
  /\ LET f == Head(ft_op[p].close)
     IN file[f].ref > 1 /\ file' = [file EXCEPT ![f].ref = @ - 1]
  /\ ft_op' = [ft_op EXCEPT ![p].close = Tail(@)]
  /\ UNCHANGED <<nfiles, ofile, inode_ref, pipe_open>>

fileclose_last(p) ==
  /\ ft_at(p, "closing") /\ ft_op[p].close # <<>>
  /\ LET f == Head(ft_op[p].close)
     IN /\ file[f].ref = 1
        /\ file' = [file EXCEPT ![f] = no_object]
        /\ ft_op' = [ft_op EXCEPT ![p].close = Tail(@), ![p].last = file[f].type, ![p].at = "release"]
  /\ nfiles' = nfiles - 1
  /\ UNCHANGED <<ofile, inode_ref, pipe_open>>

(* The rest of fileclose, without ftable.lock: iput or pipeclose.          *)
fileclose_release(p) ==
  /\ ft_at(p, "release")
  /\ inode_ref' = inode_ref - (IF ft_op[p].last = FD_INODE THEN 1 ELSE 0)
  /\ pipe_open' = IF ft_op[p].last \in {FD_INODE, FD_NONE} THEN pipe_open
                  ELSE [pipe_open EXCEPT ![ft_op[p].last[1]] = @ \ {ft_op[p].last[2]}]
  /\ ft_op' = [ft_op EXCEPT ![p].at = "closing", ![p].last = FD_NONE]
  /\ UNCHANGED <<file, nfiles, ofile>>

(* A call that closed all it had to returns; a failed sys_open also drops  *)
(* its reference to the inode (iunlockput).                                *)
close_done(p) ==
  /\ ft_at(p, "closing") /\ ft_op[p].close = <<>>
  /\ inode_ref' = inode_ref - (IF ft_op[p].call = "open" THEN 1 ELSE 0)
  /\ ft_op' = [ft_op EXCEPT ![p] = IF ft_op[p].call = "exit" THEN ft_unused ELSE ft_user]
  /\ UNCHANGED <<file, nfiles, ofile, pipe_open>>

FileTableNext ==
  \E p \in FtProc :
    \/ sys_open(p) \/ sys_pipe(p)
    \/ filealloc_full(p) \/ filealloc_count(p) \/ filealloc_object(p) \/ filealloc_undo(p)
    \/ open_install(p) \/ open_no_fd(p)
    \/ pipealloc_no_pipe(p) \/ pipealloc_ends(p) \/ pipe_install(p) \/ pipe_undo(p)
    \/ \E fd \in Fd : sys_dup(p, fd) \/ sys_close(p, fd)
    \/ \E q \in FtProc : fork_files(p, q)
    \/ exit_files(p)
    \/ fileclose_shared(p) \/ fileclose_last(p) \/ fileclose_release(p) \/ close_done(p)

FileTableSpec == FileTableInit /\ [][FileTableNext]_ftVars

-----------------------------------------------------------------------------
FileTableTypeOK ==
  /\ file \in Seq([type : Nat \X {"none", "inode", "r", "w"}, ref : Nat])
  /\ Len(file) <= FileObjects /\ nfiles \in 0 .. NFILE
  /\ ofile \in [FtProc -> [Fd -> FileNo \cup {NoFile}]]
  /\ inode_ref \in Nat /\ pipe_open \in Seq(SUBSET {"r", "w"})

(* The files a process owns besides its descriptors: those its call has    *)
(* made and not installed, or has still to close.                          *)
held(p) == IF ft_at(p, "closing") \/ ft_at(p, "release") THEN ft_op[p].close ELSE ft_op[p].made

(* f->ref is the number of descriptors and calls that own f, through dup,  *)
(* fork, exit and every failure of open and pipe: a file is never closed   *)
(* under a descriptor, and none stays open without one.                    *)
FileRefsExact ==
  \A f \in DOMAIN file :
    file[f].ref = Cardinality({<<p, fd>> \in FtProc \X Fd : ofile[p][fd] = f})
                  + Cardinality({<<p, k>> \in FtProc \X (1 .. NOFILE + 1) :
                                   k \in DOMAIN held(p) /\ held(p)[k] = f})

(* nfiles, which is changed apart from the allocation, is the number of    *)
(* open files and of files about to get their object.                      *)
FileCountExact ==
  nfiles = Cardinality({f \in DOMAIN file : file[f].ref > 0})
           + Cardinality({p \in FtProc : ft_at(p, "object")})

(* The reference to an inode that open takes is put exactly once: by the   *)
(* fileclose that closes the file, or by the open that fails.              *)
InodePutOnce ==
  inode_ref = Cardinality({f \in DOMAIN file : file[f].type = FD_INODE})
              + Cardinality({p \in FtProc : ft_op[p].call = "open"})
              + Cardinality({p \in FtProc : ft_op[p].last = FD_INODE})

(* pipeclose is called once for each end, after the last descriptor of     *)
(* that end is closed.                                                     *)
PipeEndsExact ==
  \A k \in DOMAIN pipe_open : \A e \in {"r", "w"} :
    e \in pipe_open[k] <=>
      \/ \E f \in DOMAIN file : file[f].type = FD_PIPE(k, e)
      \/ \E p \in FtProc : ft_op[p].last = FD_PIPE(k, e)

(* All of that: every count is right at every step.                        *)
FilesExact == FileRefsExact /\ FileCountExact /\ InodePutOnce /\ PipeEndsExact

(* file.c:72 and :78, "when ref drops to 0:" filefree, "close when reaches *)
(* 0": the objects of file_cache in use are those of open files.           *)
FileObjectsReturned == \A f \in DOMAIN file : file[f].ref > 0

=============================================================================
