------------------------------- MODULE Files -------------------------------
(***************************************************************************)
(* Names, nodes and descriptors: the file system calls (sysfile.c) on the  *)
(* names (vfs.c), inodes and directories and the node cache of cofs        *)
(* (cofs.c).  One process calls; each call is one step.  Paths are full    *)
(* and cleaned (module Paths): sequences of names, <<>> being the root.    *)
(* What is in a file, and where a program reads and writes it, is left to  *)
(* CofsBlocks and FileOffsets; directories are only read by programs.      *)
(*                                                                         *)
(* Operations on inodes and nodes take a state s and give a new one, often *)
(* with a result: n, the node they found (0: NULL), or ok.                 *)
(***************************************************************************)
EXTENDS Naturals, Integers, Sequences, FiniteSets, SequencesExt, FiniteSetsExt

CONSTANTS
    Names,
    NUM_INODES,         \* superb.num_inodes: inodes are 1..NUM_INODES - 1
    MAX_CACHED_NODES,
    TASK_INITIAL_NUM_FILES, MAX_OPEN_FILES,
    Modes,              \* permissions that programs give to files
    FilePaths,          \* paths that programs use
    FileCwds,           \* current directories of programs
    MaxLeaks,           \* bound of the references that are never given back
    MaxLinks            \* bound of num_links

ASSUME FilesAssumption ==
    /\ NUM_INODES \in Nat \ {0, 1} /\ MAX_CACHED_NODES \in Nat \ {0}
    /\ MAX_OPEN_FILES \in Nat /\ TASK_INITIAL_NUM_FILES \in 1..MAX_OPEN_FILES
    /\ Modes \subseteq Nat /\ "" \notin Names
    /\ FileCwds \subseteq FilePaths
    /\ FilePaths \subseteq Seq(Names) /\ \A p \in FilePaths \ {<<>>} : Front(p) \in FilePaths

VARIABLES
    cofs,       \* disk inodes, cached nodes, inodes whose link failed, and
                \* whether the kernel stopped
    fdTable,    \* current_task->files: numbers of open files, 0 for NULL
    openFiles,  \* struct file: [node, inode, dup_cnt]; node 0 when freed
    fileMode    \* the permissions that programs give in this behaviour

fileVars == <<cofs, fdTable, openFiles, fileMode>>

ROOT == 1
Inodes == 1..(NUM_INODES - 1)
FileIds == 1..(MAX_OPEN_FILES + 1)

(* An inode on disk; a hole in a directory is an entry with inode 0.  Entries
   "." and ".." are left out: their places do not change.                   *)
FreeInode == [type |-> "none", mask |-> 0, links |-> 0, ents |-> <<>>]
Hole == [name |-> "", inode |-> 0]
NoFile == [node |-> 0, inode |-> 0, dup_cnt |-> 0]

(* leak counts the references that a call took and did not give back.       *)
CofsNode == [inode : Inodes, ref : Nat, type : {"none", "file", "dir"}, mask : Nat, leak : Nat]

FilesTypeOK ==
    /\ \A i \in Inodes :
           LET d == cofs.disk[i] IN
           /\ d.type \in {"none", "file", "dir"} /\ d.links \in Nat
           /\ \A k \in 1..Len(d.ents) : d.ents[k].inode \in {0} \cup Inodes
    /\ cofs.cache \in Seq(CofsNode) /\ Len(cofs.cache) <= MAX_CACHED_NODES
    /\ cofs.halt \in {"no", "panic", "hang", "wild"}
    /\ Len(fdTable) <= MAX_OPEN_FILES /\ Range(fdTable) \subseteq {0} \cup FileIds
    /\ \A f \in FileIds : openFiles[f].dup_cnt \in Nat
    /\ fileMode \in Modes

(* cofs_init.  The kernel stops by a panic, in a spin lock, or with a variable
   that is not initialised or a table that is overrun.                      *)
CofsInit ==
    [disk |-> [i \in Inodes |-> IF i = ROOT THEN [FreeInode EXCEPT !.type = "dir", !.links = 1]
                                ELSE FreeInode],
     cache |-> <<[inode |-> ROOT, ref |-> 1, type |-> "dir", mask |-> 0, leak |-> 0]>>,
     failed |-> {},
     halt |-> "no"]

(* A task without open files.                                               *)
FilesInit ==
    /\ cofs = CofsInit
    /\ fdTable = [k \in 1..TASK_INITIAL_NUM_FILES |-> 0]
    /\ openFiles = [f \in FileIds |-> NoFile]
    /\ fileMode \in Modes

Stopped(s) == s.halt # "no"
Stop(s, how) == IF s.halt = "no" THEN [s EXCEPT !.halt = how] ELSE s
InodeOf(s, n) == s.disk[s.cache[n].inode]

-----------------------------------------------------------------------------
(* Nodes (cofs.c).                                                          *)

FreeNodes(s) == {n \in 1..Len(s.cache) : s.cache[n].ref = 0}

(* cofs_get_node, and cofs_lock, which reads a node that has no type.  Without a
   free node NULL is returned, and locked.                                  *)
Loaded(s, n) ==
    LET c == s.cache[n] IN
    IF c.type # "none" THEN s
    ELSE IF s.disk[c.inode].type = "none" THEN Stop(s, "panic")
    ELSE [s EXCEPT !.cache[n].type = s.disk[c.inode].type, !.cache[n].mask = s.disk[c.inode].mask]

CofsGetNode(s, i) ==
    LET hits == {n \in 1..Len(s.cache) : s.cache[n].inode = i}
        fresh == [inode |-> i, ref |-> 1, type |-> "none", mask |-> 0, leak |-> 0]
    IN IF hits # {}
       THEN [s |-> Loaded([s EXCEPT !.cache[Min(hits)].ref = @ + 1], Min(hits)), n |-> Min(hits)]
       ELSE IF FreeNodes(s) # {}
       THEN LET n == Max(FreeNodes(s)) IN [s |-> Loaded([s EXCEPT !.cache[n] = fresh], n), n |-> n]
       ELSE IF Len(s.cache) >= MAX_CACHED_NODES THEN [s |-> Stop(s, "panic"), n |-> 0]
       ELSE [s |-> Loaded([s EXCEPT !.cache = Append(@, fresh)], Len(s.cache) + 1),
             n |-> Len(s.cache) + 1]

(* cofs_update_node: type and permissions; the rest is kept up to date.     *)
CofsUpdateNode(s, n) ==
    LET c == s.cache[n] IN
    [s EXCEPT !.disk[c.inode].type = c.type, !.disk[c.inode].mask = c.mask]

(* Faulty variant: an unlinked inode is freed though it is in use.          *)
LastUseEarly(s, n) == s.cache[n].ref >= 1 /\ s.cache[n].type # "none" /\ InodeOf(s, n).links = 0

LastUse(s, n) == s.cache[n].ref = 1 /\ s.cache[n].type # "none" /\ InodeOf(s, n).links = 0

(* cofs_put_node: an inode without names is truncated and loses its type, but
   not its permissions.                                                     *)
Freed(s, n) ==
    CofsUpdateNode([s EXCEPT !.disk[s.cache[n].inode].ents = <<>>, !.cache[n].type = "none"], n)

Dropped(s, n) ==
    IF s.cache[n].inode = ROOT /\ s.cache[n].ref = 1 THEN s ELSE [s EXCEPT !.cache[n].ref = @ - 1]

CofsPutNode(s, n) ==
    IF Stopped(s) THEN s
    ELSE IF s.cache[n].ref = 0 THEN Stop(s, "panic")
    ELSE Dropped(IF LastUse(s, n) THEN Freed(s, n) ELSE s, n)

(* A reference that nobody gives back; those of the root do not count.      *)
Leak(s, n) == IF s.cache[n].inode = ROOT THEN s ELSE [s EXCEPT !.cache[n].leak = @ + 1]

-----------------------------------------------------------------------------
(* Directories (cofs.c).                                                    *)

IsDir(s, n) == s.cache[n].type = "dir"
EntsNamed(s, n, name) == {k \in 1..Len(InodeOf(s, n).ents) : InodeOf(s, n).ents[k].name = name}

(* fs_finddir and cofs_finddir.                                             *)
FindDir(s, n, name) ==
    IF Stopped(s) \/ ~IsDir(s, n) \/ EntsNamed(s, n, name) = {} THEN [s |-> s, n |-> 0]
    ELSE CofsGetNode(s, InodeOf(s, n).ents[Min(EntsNamed(s, n, name))].inode)

NameTaken(s, n, name) == EntsNamed(s, n, name) # {}

(* cofs_dirlink: in the first hole, else at the end, where the directory grows
   and is written.  A name that exists is an error.                         *)
CofsDirlink(s, n, name, i) ==
    LET d == s.cache[n].inode
        holes == {k \in 1..Len(s.disk[d].ents) : s.disk[d].ents[k].inode = 0}
        e == [name |-> name, inode |-> i]
        f == FindDir(s, n, name)
    IN IF ~IsDir(s, n) THEN [s |-> Stop(s, "panic"), ok |-> FALSE]
       ELSE IF NameTaken(s, n, name)
       THEN [s |-> CofsPutNode([f.s EXCEPT !.failed = @ \cup {i}], f.n), ok |-> FALSE]
       ELSE [s |-> IF holes # {} THEN [s EXCEPT !.disk[d].ents[Min(holes)] = e]
                   ELSE CofsUpdateNode([s EXCEPT !.disk[d].ents = Append(@, e)], n),
             ok |-> TRUE]

(* cofs_link locks the node and the directory, and the search for the name locks
   what has it: for ever if that is the node itself.  The count of names goes
   up even when the name exists.  There is no node to lock when n is 0.     *)
LocksTwice(s, dir, n, name) ==
    \/ dir = n
    \/ \E k \in EntsNamed(s, dir, name) : InodeOf(s, dir).ents[k].inode = s.cache[n].inode

CofsLink(s, dir, n, name) ==
    IF Stopped(s) THEN [s |-> s, ok |-> FALSE]
    ELSE IF n = 0 THEN [s |-> Stop(s, "panic"), ok |-> FALSE]
    ELSE IF LocksTwice(s, dir, n, name) THEN [s |-> Stop(s, "hang"), ok |-> FALSE]
    ELSE LET i == s.cache[n].inode IN
         CofsDirlink(CofsUpdateNode([s EXCEPT !.disk[i].links = @ + 1], n), dir, name, i)

(* inode_alloc: the first inode whose type field, permissions included, is 0. *)
UnusedInodes(s) == {i \in Inodes : s.disk[i].type = "none" /\ s.disk[i].mask = 0}

InodeAlloc(s, type) ==
    IF UnusedInodes(s) = {} THEN [s |-> Stop(s, "panic"), n |-> 0]
    ELSE LET i == Min(UnusedInodes(s)) IN
         CofsGetNode([s EXCEPT !.disk[i] = [FreeInode EXCEPT !.type = type]], i)

(* cofs_creat and cofs_mkdir: the new inode, written with its first link, then
   its name.                                                                *)
FirstName(a, dir, name, mode) ==
    IF Stopped(a.s) THEN a
    ELSE LET i == a.s.cache[a.n].inode
             t == CofsUpdateNode([a.s EXCEPT !.disk[i].links = 1, !.cache[a.n].mask = mode], a.n)
         IN [s |-> CofsDirlink(t, dir, name, i).s, n |-> a.n]

CofsCreat(s, dir, name, mode, type) == FirstName(InodeAlloc(s, type), dir, name, mode)

(* cofs_unlink: the entry becomes a hole and the count goes down; both nodes are
   put.  A name that is not there is an error, which keeps the directory.  *)
NameRemoved(f, dir, name) ==
    LET d == f.s.cache[dir].inode
        k == Min(EntsNamed(f.s, dir, name))
        t == [f.s EXCEPT !.disk[d].ents[k] = Hole, !.disk[f.s.cache[f.n].inode].links = @ - 1]
    IN IF Stopped(f.s) THEN f.s
       ELSE IF f.n = 0 THEN Leak(f.s, dir)
       ELSE CofsPutNode(CofsPutNode(CofsUpdateNode(CofsUpdateNode(t, dir), f.n), f.n), dir)

CofsUnlink(s, dir, name) == NameRemoved(FindDir(s, dir, name), dir, name)

-----------------------------------------------------------------------------
(* Names (vfs.c).                                                           *)

(* fs_namei: each directory on the way loses its reference again, the root has
   none.                                                                    *)
NameiStep(f, name) ==
    IF f.n = 0 THEN f
    ELSE FindDir(IF f.s.cache[f.n].inode = ROOT THEN f.s ELSE [f.s EXCEPT !.cache[f.n].ref = @ - 1],
                 f.n, name)

FsNamei(s, path) ==
    LET walk[k \in 0..Len(path)] ==
            IF k = 0 THEN [s |-> s, n |-> 1] ELSE NameiStep(walk[k - 1], path[k])
    IN walk[Len(path)]

(* fs_creat: the reference to the directory is kept.  Its creat asserts that it
   is one.                                                                  *)
CreatIn(d, name, mode) ==
    IF d.n = 0 THEN d
    ELSE IF ~IsDir(d.s, d.n) THEN [s |-> Stop(d.s, "panic"), n |-> 0]
    ELSE LET m == CofsCreat(d.s, d.n, name, mode, "file") IN [s |-> Leak(m.s, d.n), n |-> m.n]

FsCreat(s, path, mode) ==
    IF path = <<>> THEN [s |-> s, n |-> 0] ELSE CreatIn(FsNamei(s, Front(path)), Last(path), mode)

EmptyDir(s, n) == \A k \in 1..Len(InodeOf(s, n).ents) : InodeOf(s, n).ents[k].inode = 0

(* fs_unlink: a failure keeps both references.  The directory is searched before
   it is looked at whether there is one.                                    *)
UnlinkFound(f, dir, name) ==
    IF Stopped(f.s) THEN f.s
    ELSE IF f.n = 0 THEN Leak(f.s, dir)
    ELSE IF IsDir(f.s, f.n) /\ ~EmptyDir(f.s, f.n) THEN Leak(Leak(f.s, f.n), dir)
    ELSE CofsUnlink(CofsPutNode(f.s, f.n), dir, name)

UnlinkIn(d, name) ==
    IF d.n = 0 THEN Stop(d.s, "wild") ELSE UnlinkFound(FindDir(d.s, d.n, name), d.n, name)

FsUnlink(s, path) == IF path = <<>> THEN s ELSE UnlinkIn(FsNamei(s, Front(path)), Last(path))

(* fs_open_namei without flags.                                             *)
FsOpen(s, path) == FsNamei(s, path)

-----------------------------------------------------------------------------
(* Descriptors (sysfile.c).                                                 *)

Alive == cofs.halt = "no"
Leaks(s) == FoldSet(LAMBDA n, sum : sum + s.cache[n].leak, 0, 1..Len(s.cache))

(* The end of a call: the new state.  Of a kernel that stopped nothing else
   matters; the bounds of the model stop it as well.                        *)
Returns(s, table, files) ==
    /\ Leaks(s) <= MaxLeaks /\ \A i \in Inodes : s.disk[i].links <= MaxLinks
    /\ cofs' = IF Stopped(s) THEN [CofsInit EXCEPT !.halt = s.halt] ELSE s
    /\ fdTable' = IF Stopped(s) THEN <<>> ELSE table
    /\ openFiles' = IF Stopped(s) THEN [f \in FileIds |-> NoFile] ELSE files
    /\ UNCHANGED fileMode

Grown(n) == IF n * 2 >= MAX_OPEN_FILES THEN MAX_OPEN_FILES ELSE n * 2

(* fd_alloc: a free place, else the table grows to at most MAX_OPEN_FILES; with
   all of these in use it returns the place behind the table.               *)
FdAlloc ==
    LET free == {k \in 1..Len(fdTable) : fdTable[k] = 0}
        n == Len(fdTable)
    IN IF free # {} THEN [fd |-> Min(free), table |-> fdTable]
       ELSE [fd |-> n + 1, table |-> fdTable \o [k \in 1..(Grown(n) - n) |-> 0]]

FreeFile == Min({f \in FileIds : openFiles[f].node = 0})
FileAt(fd) == openFiles[fdTable[fd]]
Fds == {k \in 1..Len(fdTable) : fdTable[k] # 0}

(* fd_is_valid lets the place behind the table through as well.  What is there is
   0, when the call fails, or anything, which is taken for a struct file: here by
   close and dup, and in the same way by the calls that only read and write. *)
Behind == Len(fdTable) + 1
ValidFds == Fds \cup {Behind}

(* sys_open, for reading or with O_TRUNC, which asserts that there is a file.
   A failed one leaves no trace but what the names cost.                    *)
OpenOrCreat(a, path, creat) ==
    IF a.n = 0 /\ creat /\ ~Stopped(a.s) THEN FsCreat(a.s, path, fileMode) ELSE a

OpenedAt(o, d, trunc) ==
    IF o.n = 0 /\ trunc THEN Returns(Stop(o.s, "panic"), fdTable, openFiles)
    ELSE IF d.fd > Len(d.table) THEN Returns(Stop(o.s, "wild"), fdTable, openFiles)
    ELSE IF o.n = 0 THEN Returns(o.s, d.table, openFiles)
    ELSE /\ trunc => ~IsDir(o.s, o.n)
         /\ Returns(IF trunc THEN CofsUpdateNode(o.s, o.n) ELSE o.s,
                    [d.table EXCEPT ![d.fd] = FreeFile],
                    [openFiles EXCEPT ![FreeFile] =
                        [node |-> o.n, inode |-> o.s.cache[o.n].inode, dup_cnt |-> 0]])

SysOpen(path, creat, trunc) ==
    Alive /\ OpenedAt(OpenOrCreat(FsNamei(cofs, path), path, creat), FdAlloc, trunc)

CloseStruct(file) == IF file.dup_cnt = 0 THEN NoFile ELSE [file EXCEPT !.dup_cnt = @ - 1]

SysClose(fd) ==
    /\ Alive /\ fd \in ValidFds
    /\ IF fd = Behind THEN Returns(Stop(cofs, "wild"), fdTable, openFiles)
       ELSE Returns(CofsPutNode(cofs, FileAt(fd).node), [fdTable EXCEPT ![fd] = 0],
                    [openFiles EXCEPT ![fdTable[fd]] = CloseStruct(@)])

FsDup(s, n) == [s EXCEPT !.cache[n].ref = @ + 1]

SysDup(fd) ==
    /\ Alive /\ fd \in ValidFds
    /\ LET d == FdAlloc IN
       IF fd = Behind \/ d.fd > Len(d.table) THEN Returns(Stop(cofs, "wild"), fdTable, openFiles)
       ELSE Returns(FsDup(cofs, FileAt(fd).node), [d.table EXCEPT ![d.fd] = fdTable[fd]],
                    [openFiles EXCEPT ![fdTable[fd]].dup_cnt = @ + 1])

-----------------------------------------------------------------------------
(* Calls on names (sysfile.c).                                              *)

ReturnsCofs(s) == Returns(s, fdTable, openFiles)

(* sys_stat and sys_lstat: the path is opened and closed again.             *)
Visited(s, path) == LET a == FsOpen(s, path) IN IF a.n = 0 THEN a.s ELSE CofsPutNode(a.s, a.n)

SysStat(path) == Alive /\ ReturnsCofs(Visited(cofs, path))

(* sys_chdir: a directory or not, the node is closed.  The text of the path is
   the new current directory (cwd of SysMkdir, any of FileCwds).            *)
SysChdir(path) == Alive /\ ReturnsCofs(Visited(cofs, path))

(* sys_chroot: a directory keeps its reference, and the one before is not given
   back; nothing looks at root_dir.                                         *)
SysChroot(path) ==
    /\ Alive
    /\ LET a == FsOpen(cofs, path) IN
       ReturnsCofs(IF a.n = 0 \/ Stopped(a.s) THEN a.s
                   ELSE IF IsDir(a.s, a.n) THEN Leak(a.s, a.n) ELSE CofsPutNode(a.s, a.n))

(* sys_chmod: only the cached node gets the permissions.                    *)
SysChmod(path) ==
    /\ Alive
    /\ LET a == FsOpen(cofs, path) IN
       ReturnsCofs(IF a.n = 0 \/ Stopped(a.s) THEN a.s
                   ELSE CofsPutNode([a.s EXCEPT !.cache[a.n].mask = fileMode], a.n))

(* The directory that sys_mkdir opens: the path of one name has an empty one,
   which fs_open_namei takes for the current directory.                     *)
MkdirParent(path, cwd) == IF Len(path) = 1 THEN cwd ELSE Front(path)

MkdirFound(f, dir, name, mode) ==
    IF Stopped(f.s) THEN f.s
    ELSE IF f.n # 0 THEN CofsPutNode(CofsPutNode(f.s, dir), f.n)
    ELSE IF ~IsDir(f.s, dir) THEN CofsPutNode(f.s, dir)
    ELSE LET m == CofsCreat(f.s, dir, name, mode, "dir")
         IN CofsPutNode(CofsPutNode(m.s, m.n), dir)

MkdirIn(d, name, mode) ==
    IF d.n = 0 \/ Stopped(d.s) THEN d.s ELSE MkdirFound(FindDir(d.s, d.n, name), d.n, name, mode)

MkdirResult(s, path, cwd, mode) == MkdirIn(FsOpen(s, MkdirParent(path, cwd)), Last(path), mode)

(* The current directory is any path: what it named may be gone.            *)
SysMkdir(path, cwd) ==
    /\ Alive /\ path # <<>>
    /\ ReturnsCofs(MkdirResult(cofs, path, cwd, fileMode))

SysUnlink(path) ==
    /\ Alive
    /\ LET a == FsOpen(cofs, path) IN
       ReturnsCofs(IF a.n = 0 THEN a.s ELSE FsUnlink(CofsPutNode(a.s, a.n), path))

(* sys_link.  Of a new name, parent is not initialised, and into a directory,
   file is not: when there is something to link, uninit is set.             *)
LinkInto(c, n, name) ==
    IF c.n = 0 THEN CofsPutNode(c.s, n)
    ELSE IF ~IsDir(c.s, c.n) THEN CofsPutNode(CofsPutNode(c.s, c.n), n)
    ELSE CofsPutNode(CofsPutNode(CofsLink(c.s, c.n, n, name).s, c.n), n)

LinkOld(b, intoDir, dir, old, new) ==
    [s |-> IF b.n = 0 THEN (IF intoDir THEN Leak(b.s, dir) ELSE b.s)
           ELSE LinkInto(IF intoDir THEN [s |-> b.s, n |-> dir] ELSE FsOpen(b.s, Front(new)),
                         b.n, IF intoDir THEN Last(old) ELSE Last(new)),
     uninit |-> ~Stopped(b.s) /\ b.n # 0]

LinkNew(a, old, new) ==
    IF Stopped(a.s) THEN [s |-> a.s, uninit |-> FALSE]
    ELSE IF a.n # 0 /\ ~IsDir(a.s, a.n) THEN [s |-> CofsPutNode(a.s, a.n), uninit |-> FALSE]
    ELSE LinkOld(FsOpen(a.s, old), a.n # 0, a.n, old, new)

LinkResult(s, old, new) == LinkNew(FsOpen(s, new), old, new)

(* What is not initialised is NULL and empty, as meant, or wild.            *)
SysLink(old, new) ==
    /\ Alive /\ old # <<>>
    /\ LET r == LinkResult(cofs, old, new) IN
       \/ ReturnsCofs(r.s)
       \/ r.uninit /\ ReturnsCofs(Stop(cofs, "wild"))

(* Faulty variant: the node keeps its last name, as if moved.               *)
RenameStepsOld(t, p, n, old, new) == CofsLink(FsUnlink(t, new), p, n, Last(old))

(* sys_rename, in the middle: what has the new name loses it, the node gets it. *)
RenameSteps(t, p, n, old, new) == CofsLink(FsUnlink(t, new), p, n, Last(new))

(* sys_rename.  When the new name stays taken, by a directory that is not empty,
   linking fails, and so does, in a lock, the attempt to link that directory
   again; the two directories would not be closed.                          *)
Repaired(s, n, p, t) == IF Stopped(s) THEN s ELSE CofsPutNode(Leak(Leak(s, p), t), n)

RenameEnd(l, n, p, t, old, new) ==
    IF Stopped(l.s) THEN l.s
    ELSE IF ~l.ok THEN Repaired(CofsLink(l.s, p, t, Last(new)).s, n, p, t)
    ELSE LET u == FsUnlink(l.s, old)
         IN CofsPutNode(CofsPutNode(IF t # 0 THEN CofsPutNode(u, t) ELSE u, p), n)

RenameLink(t, n, p, old, new) ==
    RenameEnd(IF t.n = 0 THEN CofsLink(t.s, p, n, Last(new)) ELSE RenameSteps(t.s, p, n, old, new),
              n, p, t.n, old, new)

RenameIn(p, n, old, new) ==
    IF p.n = 0 THEN CofsPutNode(p.s, n) ELSE RenameLink(FsOpen(p.s, new), n, p.n, old, new)

RenameFrom(a, old, new) ==
    IF a.n = 0 THEN a.s ELSE RenameIn(FsOpen(a.s, Front(new)), a.n, old, new)

RenameResult(s, old, new) == RenameFrom(FsOpen(s, old), old, new)

SysRename(old, new) ==
    /\ Alive /\ old # new /\ old # <<>> /\ new # <<>>
    /\ ReturnsCofs(RenameResult(cofs, old, new))

FilesNext ==
    \/ \E path \in FilePaths :
           \/ \E creat, trunc \in BOOLEAN : SysOpen(path, creat, trunc)
           \/ SysStat(path) \/ SysChdir(path) \/ SysChroot(path) \/ SysChmod(path)
           \/ SysUnlink(path) \/ \E cwd \in FileCwds : SysMkdir(path, cwd)
           \/ \E new \in FilePaths : SysLink(path, new) \/ SysRename(path, new)
    \/ \E fd \in ValidFds : SysClose(fd) \/ SysDup(fd)

FilesSpec == FilesInit /\ [][FilesNext]_fileVars

-----------------------------------------------------------------------------
NamesOf(i) ==
    {p \in Inodes \X (1..Cardinality(Names)) :
        LET d == cofs.disk[p[1]] IN
        d.type = "dir" /\ p[2] <= Len(d.ents) /\ d.ents[p[2]].inode = i}
FdsOn(n) == {fd \in Fds : FileAt(fd).node = n}
NodesOf(i) == {n \in 1..Len(cofs.cache) : cofs.cache[n].inode = i}

(* What a path names, for comparison: an inode, or 0.                       *)
Lookup(s, path) ==
    FoldLeft(LAMBDA i, name :
                 LET S == {e \in IF i = 0 THEN {} ELSE Range(s.disk[i].ents) : e.name = name}
                 IN IF S = {} THEN 0 ELSE (CHOOSE e \in S : TRUE).inode,
             ROOT, path)

(* A node's count is the number of descriptors that use it: every call gives
   back what it took, whatever path it leaves by; the exceptions, counted in
   leak, are the directory of a created file, and failed unlinks and links. *)
FileRefsExact ==
    Alive => \A n \in 2..Len(cofs.cache) :
                 cofs.cache[n].ref = Cardinality(FdsOn(n)) + cofs.cache[n].leak

(* An open descriptor leads to the inode it was opened on for as long as it is
   open, unlinked or not: its node is not reused, its inode not freed, and no
   inode has two nodes.                                                     *)
FileNodesRight ==
    Alive =>
        /\ \A fd \in Fds : LET f == FileAt(fd) IN
               /\ cofs.cache[f.node].inode = f.inode
               /\ cofs.disk[f.inode].type # "none"
               /\ cofs.cache[f.node].type = cofs.disk[f.inode].type
        /\ \A i \in Inodes : Cardinality(NodesOf(i)) <= 1

(* num_links counts the names: no name leads to a freed inode, and an inode
   without names is freed unless somebody uses it.  The exceptions are inodes
   whose link failed.                                                       *)
NamesRight ==
    Alive => \A i \in Inodes \ {ROOT} :
        IF cofs.disk[i].type = "none" THEN NamesOf(i) = {}
        ELSE /\ \/ cofs.disk[i].links = Cardinality(NamesOf(i))
                \/ i \in cofs.failed /\ cofs.disk[i].links > Cardinality(NamesOf(i))
             /\ cofs.disk[i].links = 0 => \E n \in NodesOf(i) : cofs.cache[n].ref > 0

(* No directory has a name twice.                                           *)
DirNamesUnique ==
    \A i \in Inodes : \A k, m \in 1..Len(cofs.disk[i].ents) :
        cofs.disk[i].ents[k] # Hole /\ cofs.disk[i].ents[k].name = cofs.disk[i].ents[m].name => k = m

(* A struct file lives exactly as long as descriptors refer to it.          *)
FileStructsRight ==
    Alive => \A f \in FileIds :
        LET n == Cardinality({fd \in Fds : fdTable[fd] = f}) IN
        n = IF openFiles[f].node = 0 THEN 0 ELSE openFiles[f].dup_cnt + 1

Unchanged(s, paths) == \A q \in paths : Lookup(s, q) = Lookup(cofs, q)

(* From every state, mkdir changes no name but that of its path, unless the kernel
   stops; the exceptions are the path of one name outside the root directory, and
   a directory with several names, one of which another path may lead through. *)
MkdirRight ==
    Alive => \A path \in FilePaths \ {<<>>}, cwd \in FileCwds :
        LET s == MkdirResult(cofs, path, cwd, fileMode)
            d == Lookup(cofs, Front(path))
        IN
        \/ s.halt # "no" \/ (Len(path) = 1 /\ cwd # <<>>)
        \/ d # 0 /\ cofs.disk[d].links > 1
        \/ Unchanged(s, FilePaths \ {path})

MovedTo(s, i, old, new) ==
    LET emptied == \A e \in Range(cofs.disk[i].ents) : e.inode = 0 IN
    \/ s.halt # "no"
    \/ Lookup(s, new) = i /\ Lookup(s, old) = (IF emptied THEN 0 ELSE i)
    \/ Lookup(s, old) = i /\ Lookup(cofs, Front(new)) = 0

(* From every state, a rename that returns has moved the inode to its new name,
   or left it at the old one when the new directory does not exist; the old
   name stays as well when it is that of a directory with entries.  Left out
   is a name that two paths lead to, by a directory with two names.         *)
RenameRight ==
    Alive => \A old, new \in FilePaths \ {<<>>} :
        LET i == Lookup(cofs, old) IN
        old # new /\ i # 0
        /\ ~(Front(old) # Front(new) /\ Lookup(cofs, Front(old)) = Lookup(cofs, Front(new))) =>
              MovedTo(RenameResult(cofs, old, new), i, old, new)

(* Whatever is opened, dupped, unlinked, renamed and closed, in whatever order: a
   node has as many references as are held, and lives as long as they do; until
   the kernel stops: by a panic, as when the node cache is full, in a lock, or by
   a descriptor behind the table, which open may give out (MAX_OPEN_FILES) and
   every call takes (sysfile.c:95).                                         *)
ReferencesSafety ==
    /\ FilesTypeOK
    /\ FileRefsExact
    /\ FileNodesRight
    /\ FileStructsRight

(* Directories after any sequence of creat, link, unlink, mkdir and rename: a name
   stands for one file, links are counted, and calls end at the name meant. *)
NamesSafety ==
    /\ NamesRight
    /\ DirNamesUnique
    /\ MkdirRight
    /\ RenameRight
=============================================================================
