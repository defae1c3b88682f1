------------------------------- MODULE Inode -------------------------------
(***************************************************************************)
(* Inodes, directories and path lookup (kernel/fs.c), with the calls of    *)
(* kernel/sysfile.c that create, link, open and remove names: on-disk      *)
(* inodes with their link counts and blocks, the bitmap, and the inode     *)
(* table with its reference counts, valid flags and sleep-locks.           *)
(*                                                                         *)
(* Each call is one transaction of Log, so a crash leaves the disk as it   *)
(* was at a moment when no call was running.  A step is a stretch under    *)
(* the locks of one or two inodes; iput is a step of its own, and two when *)
(* it frees the inode.  The table has an entry for every inode number      *)
(* (NINODE is large enough, as fs.c demands with its panic), and a         *)
(* directory has one block.                                                *)
(***************************************************************************)
EXTENDS Integers, Sequences, FiniteSets, FiniteSetsExt

CONSTANTS FsProc, NINODES,
          FsBlock,     \* data blocks
          RootBlock,   \* the block mkfs gives the root directory
          FsName,      \* names, among them ".." ("." is in no count)
          FsCalls,     \* bound: the calls of each process, with their paths
          MaxNlink,    \* bound: no link or mkdir when a link count is above this
          NoProc

ASSUME InodeAssumption ==
  /\ NINODES \in Nat \ {0} /\ MaxNlink \in Nat /\ RootBlock \in FsBlock /\ NoProc \notin FsProc
  /\ \A p \in FsProc : \A c \in FsCalls[p] :
       /\ c.call \in {"create", "mknod", "mkdir", "open", "chdir", "link", "unlink"}
       /\ c.abs \in BOOLEAN /\ c.path \in Seq(FsName) /\ c.new \in Seq(FsName)

VARIABLES fs,      \* dinode, bitmap and itable
          fs_op,   \* where the call of each process is
          fs_fd,   \* the inode each process has open (0: none)
          fs_cwd   \* its current directory

fsVars == <<fs, fs_op, fs_fd, fs_cwd>>

Inum    == 1 .. NINODES
ROOTINO == 1

no_entries  == [n \in FsName |-> 0]
free_dinode == [type |-> "free", nlink |-> 0, addrs |-> {}, entry |-> no_entries]
empty_slot  == [ref |-> 0, valid |-> FALSE, lock |-> NoProc]

fs_idle == [at |-> "user", call |-> "none", path |-> <<>>, new |-> <<>>, w |-> 0, ip |-> 0,
            put |-> <<>>, freed |-> FALSE]

(* The file system mkfs makes, and the first processes in the root.        *)
InodeInit ==
  /\ fs = [dinode |-> [i \in Inum |-> IF i = ROOTINO
             THEN [type |-> "dir", nlink |-> 1, addrs |-> {RootBlock}, entry |-> [no_entries EXCEPT ![".."] = ROOTINO]]
             ELSE free_dinode],
           bitmap |-> {RootBlock},
           itable |-> [i \in Inum |-> IF i = ROOTINO
             THEN [ref |-> Cardinality(FsProc), valid |-> FALSE, lock |-> NoProc] ELSE empty_slot]]
  /\ fs_op = [p \in FsProc |-> fs_idle]
  /\ fs_fd = [p \in FsProc |-> 0]
  /\ fs_cwd = [p \in FsProc |-> ROOTINO]

-----------------------------------------------------------------------------
(* The state after iget (and idup), ilock and iunlock.                     *)
iget(s, i) ==
  [s EXCEPT !.itable[i] = IF s.itable[i].ref = 0 THEN [empty_slot EXCEPT !.ref = 1]
                          ELSE [s.itable[i] EXCEPT !.ref = @ + 1]]

ilock(s, i, p) == [s EXCEPT !.itable[i].valid = TRUE, !.itable[i].lock = p]
iunlock(s, i)  == [s EXCEPT !.itable[i].lock = NoProc]

(* ilock(i) goes ahead: no other process has the lock, and the inode is    *)
(* allocated (it panics otherwise).                                        *)
can_lock(i) == fs.itable[i].lock = NoProc /\ fs.dinode[i].type # "free"

(* A stretch ilock(i) ... iunlock(i) leaves the entry valid.               *)
locked(s, i) == [s EXCEPT !.itable[i].valid = TRUE]

balloc(s)   == Min(FsBlock \ s.bitmap)
has_block   == FsBlock \ fs.bitmap # {}
bfree(s, bs) == [s EXCEPT !.bitmap = @ \ bs]

itrunc(s, i) ==
  [bfree(s, s.dinode[i].addrs) EXCEPT !.dinode[i].addrs = {}, !.dinode[i].entry = no_entries]

(* The first write to an inode, for which bmap allocates its block.        *)
bmap(s, i)   == [s EXCEPT !.bitmap = @ \cup {balloc(s)}, !.dinode[i].addrs = {balloc(s)}]
writei(s, i) == IF s.dinode[i].addrs = {} THEN bmap(s, i) ELSE s

(* ialloc and create give a new inode its type and its link count.         *)
ialloc(s, i, type) ==
  [s EXCEPT !.dinode[i] = [free_dinode EXCEPT !.type = type, !.nlink = 1]]

dirlookup(i, n) == fs.dinode[i].entry[n]
(* The entry of n in directory d is written.                               *)
dirlink(s, d, n, i) == [writei(s, d) EXCEPT !.dinode[d].entry[n] = i]

isdirempty(i)   == \A n \in FsName \ {".."} : dirlookup(i, n) = 0

fs_at(p, l) == fs_op[p].at = l /\ fs_op[p].put = <<>>
fs_w(p)     == fs_op[p].w
fs_ip(p)    == fs_op[p].ip
fs_name(p)  == fs_op[p].path[1]

(* The call ends, after an iput of each inode of puts.                     *)
fs_return(p, puts) == fs_op' = [fs_op EXCEPT ![p] = [fs_idle EXCEPT !.put = puts]]

-----------------------------------------------------------------------------
(* iput: the reference is dropped; or it is the last one to an inode       *)
(* without links, which is then freed on disk, itable.lock released and    *)
(* taken again, before the reference goes without a second look.           *)
last_put(i) == fs.itable[i].ref = 1 /\ fs.itable[i].valid /\ fs.dinode[i].nlink = 0

iput_drop(p) ==
  /\ fs_op[p].put # <<>>
  /\ LET i == Head(fs_op[p].put)
     IN (fs_op[p].freed \/ ~last_put(i)) /\ fs' = [fs EXCEPT !.itable[i].ref = @ - 1]
  /\ fs_op' = [fs_op EXCEPT ![p].put = Tail(@), ![p].freed = FALSE]
  /\ UNCHANGED <<fs_fd, fs_cwd>>

(* Faulty variant: the blocks of the inode stay marked in the bitmap.      *)
Bug_iput_no_trunc(p) ==
  /\ fs_op[p].put # <<>> /\ ~fs_op[p].freed
  /\ LET i == Head(fs_op[p].put)
     IN last_put(i) /\ fs' = [fs EXCEPT !.dinode[i] = free_dinode, !.itable[i].valid = FALSE]
  /\ fs_op' = [fs_op EXCEPT ![p].freed = TRUE]
  /\ UNCHANGED <<fs_fd, fs_cwd>>

iput_free(p) ==
  /\ fs_op[p].put # <<>> /\ ~fs_op[p].freed
  /\ LET i == Head(fs_op[p].put)
     IN last_put(i) /\ fs' = [itrunc(fs, i) EXCEPT !.dinode[i].type = "free", !.itable[i].valid = FALSE]
  /\ fs_op' = [fs_op EXCEPT ![p].freed = TRUE]
  /\ UNCHANGED <<fs_fd, fs_cwd>>

-----------------------------------------------------------------------------
(* A call begins at the root or at the current directory.                  *)
parent_call(c) == c \in {"create", "mknod", "mkdir", "unlink", "linkat"}

fs_call(p, c) ==
  /\ fs_at(p, "user")
  /\ c.call \in {"link", "mkdir"} => \A i \in Inum : fs.dinode[i].nlink <= MaxNlink
  /\ LET i == IF c.abs THEN ROOTINO ELSE fs_cwd[p]
     IN /\ fs' = iget(fs, i)
        /\ fs_op' = [fs_op EXCEPT ![p] = [fs_idle EXCEPT !.at = "namex", !.call = c.call,
                       !.path = c.path, !.new = c.new, !.w = i]]
  /\ UNCHANGED <<fs_fd, fs_cwd>>

(* One element of namex, all under the lock of the directory at hand: the  *)
(* last element is left to the caller when it wants the parent.            *)
fs_fail(p, puts) ==
  IF fs_op[p].call = "linkat"
  THEN fs_op' = [fs_op EXCEPT ![p].at = "link_bad", ![p].put = puts]
  ELSE fs_return(p, puts)

namex_parent(p) ==
  /\ fs_at(p, "namex") /\ can_lock(fs_w(p))
  /\ fs.dinode[fs_w(p)].type = "dir"
  /\ parent_call(fs_op[p].call) /\ Len(fs_op[p].path) = 1
  /\ fs' = locked(fs, fs_w(p))
  /\ fs_op' = [fs_op EXCEPT ![p].at = fs_op[p].call]
  /\ UNCHANGED <<fs_fd, fs_cwd>>

namex_next(p) ==
  /\ fs_at(p, "namex") /\ can_lock(fs_w(p))
  /\ fs.dinode[fs_w(p)].type = "dir"
  /\ ~(parent_call(fs_op[p].call) /\ Len(fs_op[p].path) = 1)
  /\ LET next == dirlookup(fs_w(p), fs_name(p))
     IN /\ next # 0
        /\ fs' = iget(locked(fs, fs_w(p)), next)
        /\ fs_op' = [fs_op EXCEPT ![p].w = next, ![p].path = Tail(@), ![p].put = <<fs_w(p)>>,
             ![p].at = IF Len(fs_op[p].path) = 1 THEN fs_op[p].call ELSE "namex"]
  /\ UNCHANGED <<fs_fd, fs_cwd>>

namex_fail(p) ==
  /\ fs_at(p, "namex") /\ can_lock(fs_w(p))
  /\ \/ fs.dinode[fs_w(p)].type # "dir"
     \/ /\ ~(parent_call(fs_op[p].call) /\ Len(fs_op[p].path) = 1)
        /\ dirlookup(fs_w(p), fs_name(p)) = 0
  /\ fs' = locked(fs, fs_w(p))
  /\ fs_fail(p, <<fs_w(p)>>)
  /\ UNCHANGED <<fs_fd, fs_cwd>>

-----------------------------------------------------------------------------
(* create, under the lock of the directory: the name exists already;       *)
(* there is no inode; the new inode is made and entered; or there is no    *)
(* block for a new directory, and the inode is given up.                   *)
create_ready(p) == fs_op[p].at \in {"create", "mknod", "mkdir"} /\ fs_op[p].put = <<>> /\ can_lock(fs_w(p))
free_inums      == {i \in Inum : fs.dinode[i].type = "free"}

create_exists(p) ==
  /\ create_ready(p)
  /\ LET i == dirlookup(fs_w(p), fs_name(p))
     IN /\ i # 0
        /\ fs' = iget(locked(fs, fs_w(p)), i)
        /\ fs_op' = [fs_op EXCEPT ![p].w = i, ![p].put = <<fs_w(p)>>,
             ![p].at = IF fs_op[p].call = "create" THEN "create_open" ELSE "create_exists"]
  /\ UNCHANGED <<fs_fd, fs_cwd>>

create_no_inode(p) ==
  /\ create_ready(p) /\ dirlookup(fs_w(p), fs_name(p)) = 0 /\ free_inums = {}
  /\ fs' = locked(fs, fs_w(p))
  /\ fs_return(p, <<fs_w(p)>>)
  /\ UNCHANGED <<fs_fd, fs_cwd>>

(* The new file is open in p, unless filealloc or fdalloc fail; mknod does *)
(* not open the device it makes.                                           *)
create_file(p) ==
  /\ create_ready(p) /\ fs_op[p].call # "mkdir"
  /\ dirlookup(fs_w(p), fs_name(p)) = 0 /\ free_inums # {}
  /\ LET i == Min(free_inums)
         made == ialloc(fs, i, IF fs_op[p].call = "create" THEN "file" ELSE "device")
     IN /\ fs' = dirlink(locked(locked(iget(made, i), i), fs_w(p)), fs_w(p), fs_name(p), i)
        /\ \/ /\ fs_op[p].call = "create" /\ fs_fd[p] = 0
              /\ fs_fd' = [fs_fd EXCEPT ![p] = i] /\ fs_return(p, <<fs_w(p)>>)
           \/ UNCHANGED fs_fd /\ fs_return(p, <<fs_w(p), i>>)
  /\ UNCHANGED fs_cwd

create_dir(p) ==
  /\ create_ready(p) /\ fs_op[p].call = "mkdir"
  /\ dirlookup(fs_w(p), fs_name(p)) = 0 /\ free_inums # {} /\ has_block
  /\ LET i == Min(free_inums)
         made == dirlink(locked(iget(ialloc(fs, i, "dir"), i), i), i, "..", fs_w(p))
     IN fs' = [dirlink(locked(made, fs_w(p)), fs_w(p), fs_name(p), i) EXCEPT
                 !.dinode[fs_w(p)].nlink = @ + 1]
  /\ fs_return(p, <<fs_w(p), Min(free_inums)>>)
  /\ UNCHANGED <<fs_fd, fs_cwd>>

create_undo(p) ==
  /\ create_ready(p) /\ fs_op[p].call = "mkdir"
  /\ dirlookup(fs_w(p), fs_name(p)) = 0 /\ free_inums # {} /\ ~has_block
  /\ LET i == Min(free_inums)
     IN fs' = [locked(locked(iget(ialloc(fs, i, "dir"), i), i), fs_w(p)) EXCEPT !.dinode[i].nlink = 0]
  /\ fs_return(p, <<Min(free_inums), fs_w(p)>>)
  /\ UNCHANGED <<fs_fd, fs_cwd>>

(* sys_open with the inode at hand: p opens it, and a file is emptied if   *)
(* O_TRUNC is given.                                                       *)
open_inode(p, i) ==
  /\ fs_fd[p] = 0 /\ fs_fd' = [fs_fd EXCEPT ![p] = i]
  /\ \/ fs' = locked(fs, i)
     \/ fs.dinode[i].type = "file" /\ fs' = locked(itrunc(fs, i), i)
  /\ fs_return(p, <<>>)
  /\ UNCHANGED fs_cwd

(* The second half of create for a name that exists: sys_open opens a file *)
(* or device, all else fails.                                              *)
create_open(p) ==
  /\ fs_at(p, "create_open") /\ can_lock(fs_w(p))
  /\ fs.dinode[fs_w(p)].type # "dir"
  /\ open_inode(p, fs_w(p))

create_fail(p) ==
  /\ fs_op[p].at \in {"create_open", "create_exists"} /\ fs_op[p].put = <<>> /\ can_lock(fs_w(p))
  /\ fs' = locked(fs, fs_w(p))
  /\ fs_return(p, <<fs_w(p)>>)
  /\ UNCHANGED <<fs_fd, fs_cwd>>

(* sys_open of an existing name: a directory only with O_RDONLY, and no    *)
(* file or descriptor may be left.                                         *)
sys_open_found(p) ==
  /\ fs_at(p, "open") /\ can_lock(fs_w(p))
  /\ open_inode(p, fs_w(p))

sys_open_fail(p) ==
  /\ fs_at(p, "open") /\ can_lock(fs_w(p))
  /\ fs' = locked(fs, fs_w(p))
  /\ fs_return(p, <<fs_w(p)>>)
  /\ UNCHANGED <<fs_fd, fs_cwd>>

sys_chdir_found(p) ==
  /\ fs_at(p, "chdir") /\ can_lock(fs_w(p))
  /\ fs' = locked(fs, fs_w(p))
  /\ IF fs.dinode[fs_w(p)].type = "dir"
     THEN fs_cwd' = [fs_cwd EXCEPT ![p] = fs_w(p)] /\ fs_return(p, <<fs_cwd[p]>>)
     ELSE UNCHANGED fs_cwd /\ fs_return(p, <<fs_w(p)>>)
  /\ UNCHANGED fs_fd

-----------------------------------------------------------------------------
(* sys_unlink: the directory stays locked while the inode is.              *)
unlink_find(p) ==
  /\ fs_at(p, "unlink") /\ can_lock(fs_w(p))
  /\ LET i == dirlookup(fs_w(p), fs_name(p))
     IN IF i = 0 \/ fs_name(p) = ".."
        THEN fs' = locked(fs, fs_w(p)) /\ fs_return(p, <<fs_w(p)>>)
        ELSE /\ fs' = iget(ilock(fs, fs_w(p), p), i)
             /\ fs_op' = [fs_op EXCEPT ![p].at = "unlink_ip", ![p].ip = i]
  /\ UNCHANGED <<fs_fd, fs_cwd>>

unlink_full_dir(p) ==
  /\ fs_at(p, "unlink_ip") /\ can_lock(fs_ip(p))
  /\ fs.dinode[fs_ip(p)].type = "dir" /\ ~isdirempty(fs_ip(p))
  /\ fs' = locked(iunlock(fs, fs_w(p)), fs_ip(p))
  /\ fs_return(p, <<fs_ip(p), fs_w(p)>>)
  /\ UNCHANGED <<fs_fd, fs_cwd>>

unlink_erase(p) ==
  /\ fs_at(p, "unlink_ip") /\ can_lock(fs_ip(p))
  /\ fs.dinode[fs_ip(p)].type = "dir" => isdirempty(fs_ip(p))
  /\ fs' = [ilock(iunlock(fs, fs_w(p)), fs_ip(p), p) EXCEPT
              !.dinode[fs_w(p)].entry[fs_name(p)] = 0,
              !.dinode[fs_w(p)].nlink = @ - (IF fs.dinode[fs_ip(p)].type = "dir" THEN 1 ELSE 0)]
  /\ fs_op' = [fs_op EXCEPT ![p].at = "unlink_done", ![p].put = <<fs_w(p)>>]
  /\ UNCHANGED <<fs_fd, fs_cwd>>

unlink_done(p) ==
  /\ fs_at(p, "unlink_done")
  /\ fs' = [iunlock(fs, fs_ip(p)) EXCEPT !.dinode[fs_ip(p)].nlink = @ - 1]
  /\ fs_return(p, <<fs_ip(p)>>)
  /\ UNCHANGED <<fs_fd, fs_cwd>>

(* sys_link: the count goes up first, the new name follows, from the root  *)
(* or from the current directory, and the count goes down again when the   *)
(* name cannot be entered.                                                 *)
link_dir(p) ==
  /\ fs_at(p, "link") /\ can_lock(fs_w(p)) /\ fs.dinode[fs_w(p)].type = "dir"
  /\ fs' = locked(fs, fs_w(p))
  /\ fs_return(p, <<fs_w(p)>>)
  /\ UNCHANGED <<fs_fd, fs_cwd>>

link_count(p) ==
  /\ fs_at(p, "link") /\ can_lock(fs_w(p)) /\ fs.dinode[fs_w(p)].type # "dir"
  /\ \E dp \in {ROOTINO, fs_cwd[p]} :
       /\ fs' = [iget(locked(fs, fs_w(p)), dp) EXCEPT !.dinode[fs_w(p)].nlink = @ + 1]
       /\ fs_op' = [fs_op EXCEPT ![p].at = "namex", ![p].call = "linkat", ![p].path = fs_op[p].new,
                                 ![p].ip = fs_w(p), ![p].w = dp]
  /\ UNCHANGED <<fs_fd, fs_cwd>>

link_enter(p) ==
  /\ fs_at(p, "linkat") /\ can_lock(fs_w(p))
  /\ IF dirlookup(fs_w(p), fs_name(p)) = 0
     THEN /\ fs' = dirlink(locked(fs, fs_w(p)), fs_w(p), fs_name(p), fs_ip(p))
          /\ fs_return(p, <<fs_w(p), fs_ip(p)>>)
     ELSE fs' = locked(fs, fs_w(p)) /\ fs_fail(p, <<fs_w(p)>>)
  /\ UNCHANGED <<fs_fd, fs_cwd>>

(* Faulty variant: the count stays up.                                     *)
Bug_link_bad_keeps(p) ==
  /\ fs_at(p, "link_bad") /\ can_lock(fs_ip(p))
  /\ fs' = locked(fs, fs_ip(p))
  /\ fs_return(p, <<fs_ip(p)>>)
  /\ UNCHANGED <<fs_fd, fs_cwd>>

link_bad(p) ==
  /\ fs_at(p, "link_bad") /\ can_lock(fs_ip(p))
  /\ fs' = [locked(fs, fs_ip(p)) EXCEPT !.dinode[fs_ip(p)].nlink = @ - 1]
  /\ fs_return(p, <<fs_ip(p)>>)
  /\ UNCHANGED <<fs_fd, fs_cwd>>

-----------------------------------------------------------------------------
(* filewrite of a first block (bmap), and fileclose.                       *)
fs_write(p) ==
  /\ fs_at(p, "user") /\ fs_fd[p] # 0 /\ fs.itable[fs_fd[p]].lock = NoProc
  /\ fs.dinode[fs_fd[p]].type = "file" /\ fs.dinode[fs_fd[p]].addrs = {} /\ has_block
  /\ fs' = writei(fs, fs_fd[p])
  /\ UNCHANGED <<fs_op, fs_fd, fs_cwd>>

fs_close(p) ==
  /\ fs_at(p, "user") /\ fs_fd[p] # 0
  /\ fs_return(p, <<fs_fd[p]>>)
  /\ fs_fd' = [fs_fd EXCEPT ![p] = 0]
  /\ UNCHANGED <<fs, fs_cwd>>

(* ireclaim frees each allocated inode without links.                      *)
ireclaim(s) ==
  [i \in Inum |-> IF s.dinode[i].type # "free" /\ s.dinode[i].nlink = 0 THEN free_dinode ELSE s.dinode[i]]

(* A crash and the boot after it: fsinit, and processes in the root.       *)
fs_reboot ==
  /\ \A p \in FsProc : fs_at(p, "user")
  /\ \E p \in FsProc : fs_fd[p] # 0 \/ fs_cwd[p] # ROOTINO
  /\ LET found == ireclaim(fs)
     IN fs' = [dinode |-> found,
               bitmap |-> fs.bitmap \ UNION {fs.dinode[i].addrs : i \in {j \in Inum : found[j] # fs.dinode[j]}},
               itable |-> [i \in Inum |-> IF i = ROOTINO
                 THEN [ref |-> Cardinality(FsProc), valid |-> FALSE, lock |-> NoProc] ELSE empty_slot]]
  /\ fs_fd' = [p \in FsProc |-> 0] /\ fs_cwd' = [p \in FsProc |-> ROOTINO]
  /\ UNCHANGED fs_op

InodeNext ==
  \/ \E p \in FsProc :
       \/ \E c \in FsCalls[p] : fs_call(p, c)
       \/ iput_drop(p) \/ iput_free(p)
       \/ namex_parent(p) \/ namex_next(p) \/ namex_fail(p)
       \/ create_exists(p) \/ create_no_inode(p) \/ create_file(p) \/ create_dir(p) \/ create_undo(p)
       \/ create_open(p) \/ create_fail(p) \/ sys_open_found(p) \/ sys_open_fail(p) \/ sys_chdir_found(p)
       \/ unlink_find(p) \/ unlink_full_dir(p) \/ unlink_erase(p) \/ unlink_done(p)
       \/ link_dir(p) \/ link_count(p) \/ link_enter(p) \/ link_bad(p)
       \/ fs_write(p) \/ fs_close(p)
  \/ fs_reboot

InodeSpec == InodeInit /\ [][InodeNext]_fsVars

-----------------------------------------------------------------------------
InodeTypeOK ==
  /\ fs.dinode \in [Inum -> [type : {"free", "dir", "file", "device"}, nlink : Nat, addrs : SUBSET FsBlock,
                             entry : [FsName -> Inum \cup {0}]]]
  /\ fs.bitmap \subseteq FsBlock
  /\ fs.itable \in [Inum -> [ref : Nat, valid : BOOLEAN, lock : FsProc \cup {NoProc}]]
  /\ fs_fd \in [FsProc -> Inum \cup {0}] /\ fs_cwd \in [FsProc -> Inum]

allocated(i) == fs.dinode[i].type # "free"

(* ip->ref is the number of pointers to the entry: open files, current     *)
(* directories, and what the running calls hold or have still to put.      *)
InodeRefsExact ==
  \A i \in Inum : fs.itable[i].ref =
      Cardinality({p \in FsProc : fs_fd[p] = i}) + Cardinality({p \in FsProc : fs_cwd[p] = i})
    + Cardinality({p \in FsProc : fs_op[p].at \notin {"user", "link_bad", "unlink_done"} /\ fs_w(p) = i})
    + Cardinality({p \in FsProc : fs_op[p].at # "user" /\ fs_ip(p) = i})
    + Cardinality({<<p, k>> \in FsProc \X (1 .. 2) :
                     k \in DOMAIN fs_op[p].put /\ fs_op[p].put[k] = i})

(* The bitmap marks exactly the blocks of the inodes, and no two inodes    *)
(* share one.                                                              *)
BlocksExact ==
  /\ fs.bitmap = UNION {fs.dinode[i].addrs : i \in Inum}
  /\ \A i, j \in Inum : i # j => fs.dinode[i].addrs \cap fs.dinode[j].addrs = {}

(* The names an inode has, those in removed directories included, and the  *)
(* directories in it, whose ".." refers to it.                             *)
names(i)   == {<<d, n>> \in Inum \X (FsName \ {".."}) : allocated(d) /\ fs.dinode[d].entry[n] = i}
subdirs(i) == {n \in FsName \ {".."} : dirlookup(i, n) # 0 /\ fs.dinode[dirlookup(i, n)].type = "dir"}

(* No dangling name: an inode in a directory is allocated, and its nlink   *)
(* is never below the number of its names and subdirectories, also while   *)
(* link and unlink of one file, or create and unlink of its directory,     *)
(* overlap.                                                                *)
NamesCounted ==
  \A i \in Inum :
    /\ names(i) # {} => allocated(i)
    /\ allocated(i) => fs.dinode[i].nlink >= Cardinality(names(i)) + Cardinality(subdirs(i))

(* What nlink has beyond the names, the subdirectories, and what running   *)
(* calls are about to settle: link has counted a name it has not entered,  *)
(* unlink has erased one it has not counted off.                           *)
unsettled(i) == {p \in FsProc : fs_ip(p) = i /\ (fs_op[p].call = "linkat" \/ fs_op[p].at = "unlink_done")}
excess(i)    == fs.dinode[i].nlink - Cardinality(names(i)) - Cardinality(subdirs(i)) - Cardinality(unsettled(i))

(* Nor do counts stay too high, so that a file could never be freed: the   *)
(* excess of an inode grows in no step of any call, failed ones included.  *)
(* The one exception is the freeing of a removed directory in which a name *)
(* was entered after its removal: itrunc drops the name uncounted.         *)
LinksSettled ==
  [][fsVars' # fsVars => \A i \in Inum : excess(i)' > excess(i) =>
       \E d \in Inum : /\ allocated(d) /\ ~allocated(d)'
                      /\ \E n \in FsName \ {".."} : dirlookup(d, n) = i]_fsVars

(* panic("ilock: no type"): the inode a call is about to lock is allocated,*)
(* and no other call frees it while it is locked.                          *)
IlockFindsInode ==
  \A p \in FsProc :
    /\ fs_op[p].at \notin {"user", "link_bad", "unlink_done"} => allocated(fs_w(p))
    /\ fs_op[p].at # "user" /\ fs_ip(p) # 0 => allocated(fs_ip(p))

(* All of that: references, blocks and names are right at every step.      *)
InodesExact == InodeRefsExact /\ BlocksExact /\ NamesCounted /\ IlockFindsInode

=============================================================================
