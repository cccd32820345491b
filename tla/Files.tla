------------------------------- MODULE Files -------------------------------
(***************************************************************************)
(* Inodes, directories and path names (fs.c) under the file system calls   *)
(* of sysfile.c, with concurrent processes.                                *)
(*                                                                         *)
(* One action is the code from one ilock() to the iunlock(), or to the     *)
(* next lock it has to wait for; iput() is two actions, because it gives   *)
(* the sleep lock up before it takes icache.lock to drop the reference.    *)
(* Blocks and offsets are modelled in FileData, begin_op() and end_op() in *)
(* Log, the sharing of a struct file by processes in Pipe.                 *)
(***************************************************************************)
EXTENDS Integers, Sequences, FiniteSets

CONSTANTS
  Proc,     \* the processes
  NINODES,  \* sb.ninodes - 1: inodes 1..NINODES, the first is the root
  NINODE,   \* the size of the inode cache
  NOFILE,   \* descriptors of a process
  Alias,    \* names of more than DIRSIZ characters: what is left of them
  Calls     \* the system calls a process may make

Root == 1
Ino == 1..NINODES
Slot == 1..NINODE
Fd == 1..NOFILE
Nobody == "nobody"    \* an open lock

\* With an entry of the cache for every inode, iget() always finds one.
ASSUME FilesAssumption ==
  /\ {NINODES, NINODE, NOFILE} \subseteq Nat \ {0}
  /\ NINODE >= NINODES /\ Nobody \notin Proc

VARIABLES
  disk,     \* struct dinode and the entries, or the bytes, it leads to
  ic,       \* icache
  cwd,      \* p->cwd
  ofile,    \* p->ofile: the open inode, f->off and f->writable
  th,       \* where each process is in its call
  panicked  \* the argument of panic()
vars == <<disk, ic, cwd, ofile, th, panicked>>

Dots == {".", ".."}
NoEnts == [n \in {} |-> 0]
FreeInode == [type |-> "free", nlink |-> 0, ents |-> NoEnts, data |-> <<>>]
FreeSlot == [inum |-> 0, ref |-> 0, valid |-> FALSE, lock |-> Nobody, type |-> "free", nlink |-> 0]
NoFile == [ip |-> 0, off |-> 0, w |-> FALSE]
NoCall == [op |-> "none"]
Idle == [pc |-> "user", call |-> NoCall, path |-> <<>>, par |-> FALSE, w |-> 0, ip |-> 0,
         name |-> ".", puts |-> <<>>, after |-> "user", fail |-> "user", res |-> 0]

\* What mkfs leaves: a root directory; every process is in it.
Init ==
  /\ disk = [i \in Ino |-> IF i = Root
               THEN [type |-> "dir", nlink |-> 1, data |-> <<>>,
                     ents |-> [n \in Dots |-> Root]]
               ELSE FreeInode]
  /\ ic = [s \in Slot |-> IF s = 1 THEN [FreeSlot EXCEPT !.inum = Root, !.ref = Cardinality(Proc)]
                                   ELSE FreeSlot]
  /\ cwd = [p \in Proc |-> 1]
  /\ ofile = [p \in Proc |-> [fd \in Fd |-> NoFile]]
  /\ th = [p \in Proc |-> Idle]
  /\ panicked = "no"

-----------------------------------------------------------------------------
\* The inode cache.

\* iget(): the entry that holds inode i, or the first empty one, or 0.
iget_NoScan(c, i) ==
  LET empty == {s \in Slot : c[s].ref = 0}
  IN  IF empty = {} THEN 0 ELSE CHOOSE s \in empty : \A t \in empty : s <= t
iget(c, i) ==
  LET found == {s \in Slot : c[s].ref > 0 /\ c[s].inum = i}
      empty == {s \in Slot : c[s].ref = 0}
      use   == IF found # {} THEN found ELSE empty
  IN  IF use = {} THEN 0 ELSE CHOOSE s \in use : \A t \in use : s <= t
Referenced(c, s, i) ==
  [c EXCEPT ![s] = IF c[s].ref > 0 THEN [@ EXCEPT !.ref = @ + 1]
                                   ELSE [FreeSlot EXCEPT !.inum = i, !.ref = 1, !.lock = c[s].lock]]

idup(c, s) == [c EXCEPT ![s].ref = @ + 1]

\* ilock(): it waits for the lock, and reads the inode if it is not valid.
Unlocked(s) == ic[s].lock = Nobody
NoType(s) == ~ic[s].valid /\ disk[ic[s].inum].type = "free"
ilock_Stale(c, s, p) == [c EXCEPT ![s].lock = p]
ilock(c, s, p) ==
  [c EXCEPT ![s] = [@ EXCEPT !.lock = p, !.valid = TRUE,
                    !.type = IF c[s].valid THEN @ ELSE disk[c[s].inum].type,
                    !.nlink = IF c[s].valid THEN @ ELSE disk[c[s].inum].nlink]]
iunlock(c, s) == [c EXCEPT ![s].lock = Nobody]

\* A change of nlink with the iupdate() that follows it.
AddLinkC(c, s, k) == [c EXCEPT ![s].nlink = @ + k]
iupdate(d, c, s) == [d EXCEPT ![c[s].inum].nlink = c[s].nlink, ![c[s].inum].type = c[s].type]

\* Entries.
dirlookup(d, n) == IF n \in DOMAIN disk[d].ents THEN disk[d].ents[n] ELSE 0
isdirempty(d) == DOMAIN disk[d].ents \subseteq Dots
dirlink(dk, d, n, i) ==
  [dk EXCEPT ![d].ents = [m \in DOMAIN @ \cup {n} |-> IF m = n THEN i ELSE @[m]]]
Cleared(dk, d, n) == [dk EXCEPT ![d].ents = [m \in DOMAIN @ \ {n} |-> @[m]]]

FreeInodes == {i \in Ino : disk[i].type = "free"}
ialloc == CHOOSE i \in FreeInodes : \A j \in FreeInodes : i <= j

-----------------------------------------------------------------------------
Ready(p, pc) == panicked = "no" /\ th[p].pc = pc
Goes(p, r) == th' = [th EXCEPT ![p] = IF r.pc = "user" THEN [Idle EXCEPT !.res = r.res] ELSE r]

\* Gives references up, one after the other, then goes on at pc.
Puts(r, slots, pc) == [r EXCEPT !.pc = "put", !.puts = slots, !.after = pc]
Fails(r, slots) == [Puts(r, slots, "user") EXCEPT !.res = -1, !.w = 0, !.ip = 0]
Done(r, slots) == [Puts(r, slots, "user") EXCEPT !.res = 0, !.w = 0, !.ip = 0]

Panic(p, why) ==
  /\ panicked' = why
  /\ UNCHANGED <<disk, ic, cwd, ofile, th>>

\* namex(): the start of the walk.  The walk goes on at pc "name", ends at
\* then, or at fail.
Walk(c, r, p, path, par, then, fail) ==
  LET s  == IF path.abs THEN iget(c, Root) ELSE cwd[p]
      c1 == IF path.abs THEN Referenced(c, s, Root) ELSE idup(c, s)
      r1 == [r EXCEPT !.path = path.elems, !.par = par, !.after = then, !.fail = fail]
  IN  /\ ic' = c1
      /\ Goes(p, IF path.elems # <<>> THEN [r1 EXCEPT !.pc = "name", !.w = s]
                 ELSE IF ~par THEN [r1 EXCEPT !.pc = then, !.w = s]
                 ELSE [Puts(r1, <<s>>, fail) EXCEPT !.res = -1])

\* skipelem() cuts a name at DIRSIZ characters.
skipelem(path) == IF Head(path) \in DOMAIN Alias THEN Alias[Head(path)] ELSE Head(path)

\* One round of the loop of namex().
namex(p) ==
  LET r == th[p]
      s == r.w
      n == skipelem(r.path)
      last == Len(r.path) = 1
      c == iunlock(ilock(ic, s, p), s)
      i == dirlookup(ic[s].inum, n)
      x == iget(c, i)
      lost == [Puts(r, <<s>>, r.fail) EXCEPT !.w = 0, !.res = -1]
  IN  /\ Ready(p, "name") /\ Unlocked(s)
      /\ \/ NoType(s) /\ Panic(p, "ilock: no type")
         \/ /\ ~NoType(s)
            /\ \/ /\ c[s].type # "dir"
                  /\ ic' = c /\ Goes(p, lost)
               \/ /\ c[s].type = "dir" /\ r.par /\ last
                  /\ ic' = c /\ Goes(p, [r EXCEPT !.pc = r.after, !.name = n, !.path = <<>>])
               \/ /\ c[s].type = "dir" /\ ~(r.par /\ last) /\ i = 0
                  /\ ic' = c /\ Goes(p, lost)
               \/ /\ c[s].type = "dir" /\ ~(r.par /\ last) /\ i # 0
                  /\ ic' = Referenced(c, x, i)
                  /\ Goes(p, [r EXCEPT !.pc = "hop", !.puts = <<s>>, !.w = x, !.path = Tail(@)])
            /\ UNCHANGED <<disk, cwd, ofile, panicked>>

\* iput(): what it does with the sleep lock, then the reference.
LastUse_AnyRef(s) == ic[s].valid /\ ic[s].nlink = 0
LastUse(s) == ic[s].valid /\ ic[s].nlink = 0 /\ ic[s].ref = 1
iput(p) ==
  LET r == th[p]
      s == Head(r.puts)
  IN  /\ panicked = "no" /\ r.pc \in {"put", "hop"} /\ Unlocked(s)
      /\ \/ /\ LastUse(s)                                   \* itrunc(), type 0
            /\ disk' = [disk EXCEPT ![ic[s].inum] = FreeInode]
            /\ ic' = [ic EXCEPT ![s].valid = FALSE, ![s].type = "free"]
         \/ /\ ~LastUse(s)
            /\ UNCHANGED <<disk, ic>>
      /\ Goes(p, [r EXCEPT !.pc = IF @ = "put" THEN "drop" ELSE "hopped"])
      /\ UNCHANGED <<cwd, ofile, panicked>>

Drop(p) ==
  LET r == th[p]
      rest == Tail(r.puts)
      r1 == [r EXCEPT !.puts = rest]
      next == CASE r.pc = "hopped" -> IF r.path = <<>> THEN r.after ELSE "name"
                [] r.pc = "drop" /\ rest # <<>> -> "put"
                [] OTHER -> r.after
  IN  /\ panicked = "no" /\ r.pc \in {"drop", "hopped"}
      /\ ic' = [ic EXCEPT ![Head(r.puts)].ref = @ - 1]
      /\ Goes(p, [r1 EXCEPT !.pc = next])
      /\ UNCHANGED <<disk, cwd, ofile, panicked>>

-----------------------------------------------------------------------------
\* A system call starts: up to the first lock.
Start(p, c) ==
  LET r == [Idle EXCEPT !.call = c]
  IN  /\ Ready(p, "user") /\ UNCHANGED <<disk, panicked>>
      /\ cwd' = IF c.op = "exit" THEN [cwd EXCEPT ![p] = 0] ELSE cwd
      /\ \/ /\ c.op \in {"create", "mkdir", "mknod"}
            /\ Walk(ic, r, p, c.path, TRUE, "create", "user") /\ UNCHANGED ofile
         \/ /\ c.op = "unlink"
            /\ Walk(ic, r, p, c.path, TRUE, "unlink", "user") /\ UNCHANGED ofile
         \/ /\ c.op \in {"open", "chdir"}
            /\ Walk(ic, r, p, c.path, FALSE, c.op, "user") /\ UNCHANGED ofile
         \/ /\ c.op = "link"
            /\ Walk(ic, r, p, c.path, FALSE, "link", "user") /\ UNCHANGED ofile
         \/ /\ c.op = "close" /\ ofile[p][c.fd].ip # 0
            /\ ofile' = [ofile EXCEPT ![p][c.fd] = NoFile]
            /\ Goes(p, Done(r, <<ofile[p][c.fd].ip>>)) /\ UNCHANGED ic
         \/ /\ c.op = "exit"                          \* exit() closes everything
            /\ ofile' = [ofile EXCEPT ![p] = [fd \in Fd |-> NoFile]]
            /\ Goes(p, [Puts(r, Append(SelectSeq([fd \in Fd |-> ofile[p][fd].ip], LAMBDA s : s # 0), cwd[p]),
                             "gone") EXCEPT !.res = 0])
            /\ UNCHANGED ic
         \/ /\ c.op \in {"read", "write"} /\ ofile[p][c.fd].ip # 0
            /\ Goes(p, [r EXCEPT !.pc = c.op]) /\ UNCHANGED <<ic, ofile>>

\* fdalloc(), and the fields of the struct file.
FdFree(p) == {fd \in Fd : ofile[p][fd].ip = 0}
fdalloc(p) == CHOOSE fd \in FdFree(p) : \A g \in FdFree(p) : fd <= g

\* The end of sys_open(), with ip locked in c.
Opened(p, c, s, writable) ==
  LET r == th[p]
  IN  /\ ic' = iunlock(c, s)
      /\ \/ /\ FdFree(p) # {}
            /\ ofile' = [ofile EXCEPT ![p][fdalloc(p)] = [ip |-> s, off |-> 0, w |-> writable]]
            /\ Goes(p, [r EXCEPT !.pc = "user", !.w = 0, !.ip = 0, !.res = fdalloc(p)])
         \/ /\ FdFree(p) = {}
            /\ UNCHANGED ofile
            /\ Goes(p, Fails(r, <<s>>))
      /\ UNCHANGED <<disk, cwd, panicked>>

\* sys_open() without O_CREATE, after namei().
sys_open(p) ==
  LET s == th[p].w
      c == ilock(ic, s, p)
      w == th[p].call.w
  IN  /\ Ready(p, "open") /\ Unlocked(s)
      /\ \/ NoType(s) /\ Panic(p, "ilock: no type")
         \/ ~NoType(s) /\ ~(c[s].type = "dir" /\ w) /\ Opened(p, c, s, w)
         \/ /\ ~NoType(s) /\ c[s].type = "dir" /\ w
            /\ ic' = iunlock(c, s) /\ Goes(p, Fails(th[p], <<s>>))
            /\ UNCHANGED <<disk, cwd, ofile, panicked>>

\* sys_chdir() after namei().
sys_chdir(p) ==
  LET s == th[p].w
      c == iunlock(ilock(ic, s, p), s)
  IN  /\ Ready(p, "chdir") /\ Unlocked(s)
      /\ \/ NoType(s) /\ Panic(p, "ilock: no type")
         \/ /\ ~NoType(s) /\ ic' = c
            /\ \/ /\ c[s].type # "dir"
                  /\ Goes(p, Fails(th[p], <<s>>)) /\ UNCHANGED cwd
               \/ /\ c[s].type = "dir"
                  /\ Goes(p, Done(th[p], <<cwd[p]>>))
                  /\ cwd' = [cwd EXCEPT ![p] = s]
            /\ UNCHANGED <<disk, ofile, panicked>>

\* create() after nameiparent(): the name is there, or a new inode is taken
\* while dp stays locked.
TypeOf(op) == CASE op = "create" -> "file" [] op = "mkdir" -> "dir" [] op = "mknod" -> "dev"
create(p) ==
  LET r == th[p]
      dp == r.w
      c == ilock(ic, dp, p)
      i == dirlookup(ic[dp].inum, r.name)
      j == ialloc
  IN  /\ Ready(p, "create") /\ Unlocked(dp)
      /\ \/ /\ i # 0
            /\ LET x == iget(c, i)
               IN  /\ ic' = iunlock(Referenced(c, x, i), dp)
                   /\ Goes(p, [Puts(r, <<dp>>, "exists") EXCEPT !.ip = x, !.w = 0])
            /\ UNCHANGED <<disk, cwd, ofile, panicked>>
         \/ /\ i = 0 /\ FreeInodes = {}
            /\ Panic(p, "ialloc: no inodes")
         \/ /\ i = 0 /\ FreeInodes # {}
            /\ disk' = [disk EXCEPT ![j] = [FreeInode EXCEPT !.type = TypeOf(r.call.op)]]
            /\ LET x == iget(c, j)
               IN  /\ ic' = Referenced(c, x, j)
                   /\ Goes(p, [r EXCEPT !.pc = "make", !.ip = x])
            /\ UNCHANGED <<cwd, ofile, panicked>>

\* create() of a name that is there.
CreateExists(p) ==
  LET s == th[p].ip
      c == ilock(ic, s, p)
      wanted == th[p].call.op = "create" /\ c[s].type = "file"
  IN  /\ Ready(p, "exists") /\ Unlocked(s)
      /\ \/ NoType(s) /\ Panic(p, "ilock: no type")
         \/ ~NoType(s) /\ wanted /\ Opened(p, c, s, th[p].call.w)
         \/ /\ ~NoType(s) /\ ~wanted
            /\ ic' = iunlock(c, s) /\ Goes(p, Fails(th[p], <<s>>))
            /\ UNCHANGED <<disk, cwd, ofile, panicked>>

\* create(): the new inode gets its link count, a directory its dots, and dp
\* the entry.  ip stays locked while dp is put.
CreateMake(p) ==
  LET r == th[p]
      dp == r.w
      ip == r.ip
      isdir == r.call.op = "mkdir"
      c == AddLinkC([ilock(ic, ip, p) EXCEPT ![ip].nlink = 1], dp, IF isdir THEN 1 ELSE 0)
      d == ic[dp].inum
      i == ic[ip].inum
      dots == IF isdir THEN dirlink(dirlink(disk, i, ".", i), i, "..", d) ELSE disk
  IN  /\ Ready(p, "make") /\ Unlocked(ip)
      /\ disk' = dirlink(iupdate(iupdate(dots, c, ip), c, dp), d, r.name, i)
      /\ ic' = iunlock(c, dp)
      /\ Goes(p, [Puts(r, <<dp>>, "made") EXCEPT !.w = 0])
      /\ UNCHANGED <<cwd, ofile, panicked>>

\* create() has returned the locked inode to sys_open(), sys_mkdir(), sys_mknod().
CreateMade(p) ==
  LET s == th[p].ip
  IN  /\ Ready(p, "made")
      /\ \/ /\ th[p].call.op = "create"
            /\ Opened(p, ic, s, th[p].call.w)
         \/ /\ th[p].call.op # "create"
            /\ ic' = iunlock(ic, s) /\ Goes(p, Done(th[p], <<s>>))
            /\ UNCHANGED <<disk, cwd, ofile, panicked>>

-----------------------------------------------------------------------------
\* sys_unlink() after nameiparent(): dp is locked, and ip if the name is there.
sys_unlink(p) ==
  LET r == th[p]
      dp == r.w
      c == ilock(ic, dp, p)
      i == dirlookup(ic[dp].inum, r.name)
      found == r.name \notin Dots /\ i # 0
      x == iget(c, i)
  IN  /\ Ready(p, "unlink") /\ Unlocked(dp)
      /\ \/ /\ ~found
            /\ ic' = iunlock(c, dp) /\ Goes(p, Fails(r, <<dp>>))
         \/ /\ found
            /\ ic' = Referenced(c, x, i)
            /\ Goes(p, [r EXCEPT !.pc = "unlink2", !.ip = x])
      /\ UNCHANGED <<disk, cwd, ofile, panicked>>

\* sys_unlink() takes ip's lock: it refuses a directory with entries, or
\* clears the entry and gives dp up.
NotEmptyDir(c, s) == c[s].type = "dir" /\ ~isdirempty(c[s].inum)
UnlinkEntry(p) ==
  LET r == th[p]
      dp == r.w
      ip == r.ip
      c == ilock(ic, ip, p)
      c1 == AddLinkC(c, dp, IF c[ip].type = "dir" THEN -1 ELSE 0)
  IN  /\ Ready(p, "unlink2") /\ Unlocked(ip)
      /\ \/ c[ip].nlink < 1 /\ Panic(p, "unlink: nlink < 1")
         \/ /\ c[ip].nlink >= 1 /\ NotEmptyDir(c, ip)
            /\ ic' = iunlock(c, ip)
            /\ Goes(p, [Puts(r, <<ip>>, "unlinkbad") EXCEPT !.ip = 0])
            /\ UNCHANGED <<disk, cwd, ofile, panicked>>
         \/ /\ c[ip].nlink >= 1 /\ ~NotEmptyDir(c, ip)
            /\ disk' = iupdate(Cleared(disk, ic[dp].inum, r.name), c1, dp)
            /\ ic' = iunlock(c1, dp)
            /\ Goes(p, [Puts(r, <<dp>>, "unlink3") EXCEPT !.w = 0])
            /\ UNCHANGED <<cwd, ofile, panicked>>

UnlinkCount(p) ==
  LET s == th[p].ip
      c == AddLinkC(ic, s, -1)
  IN  /\ Ready(p, "unlink3")
      /\ disk' = iupdate(disk, c, s)
      /\ ic' = iunlock(c, s)
      /\ Goes(p, Done(th[p], <<s>>))
      /\ UNCHANGED <<cwd, ofile, panicked>>

UnlinkBad(p) ==
  /\ Ready(p, "unlinkbad")
  /\ ic' = iunlock(ic, th[p].w)
  /\ Goes(p, Fails(th[p], <<th[p].w>>))
  /\ UNCHANGED <<disk, cwd, ofile, panicked>>

\* sys_link() after namei(old): the count first, then the walk to new.
sys_link(p) ==
  LET r == th[p]
      s == r.w
      c == ilock(ic, s, p)
      c1 == AddLinkC(c, s, 1)
  IN  /\ Ready(p, "link") /\ Unlocked(s)
      /\ \/ NoType(s) /\ Panic(p, "ilock: no type")
         \/ /\ ~NoType(s) /\ c[s].type = "dir"
            /\ ic' = iunlock(c, s) /\ Goes(p, Fails(r, <<s>>))
            /\ UNCHANGED <<disk, cwd, ofile, panicked>>
         \/ /\ ~NoType(s) /\ c[s].type # "dir"
            /\ disk' = iupdate(disk, c1, s)
            /\ Walk(iunlock(c1, s), [r EXCEPT !.ip = s], p, r.call.new, TRUE, "link2", "linkbad")
            /\ UNCHANGED <<cwd, ofile, panicked>>

\* sys_link() after nameiparent(new): dirlink() puts the inode of a name that
\* is there while dp is locked.
Taken(i) == i # 0
LinkEntry(p) ==
  LET r == th[p]
      dp == r.w
      c == ilock(ic, dp, p)
      i == dirlookup(ic[dp].inum, r.name)
      x == iget(c, i)
  IN  /\ Ready(p, "link2") /\ Unlocked(dp)
      /\ \/ /\ Taken(i)
            /\ ic' = Referenced(c, x, i)
            /\ Goes(p, Puts(r, <<x>>, "linktaken"))
            /\ UNCHANGED disk
         \/ /\ ~Taken(i)
            /\ disk' = dirlink(disk, ic[dp].inum, r.name, ic[r.ip].inum)
            /\ ic' = iunlock(c, dp)
            /\ Goes(p, Done(r, <<dp, r.ip>>))
      /\ UNCHANGED <<cwd, ofile, panicked>>

LinkTaken(p) ==
  /\ Ready(p, "linktaken")
  /\ ic' = iunlock(ic, th[p].w)
  /\ Goes(p, [Puts(th[p], <<th[p].w>>, "linkbad") EXCEPT !.w = 0])
  /\ UNCHANGED <<disk, cwd, ofile, panicked>>

\* bad: takes the count back.
LinkBack == -1
LinkBad(p) ==
  LET s == th[p].ip
      c == AddLinkC(ilock(ic, s, p), s, LinkBack)
  IN  /\ Ready(p, "linkbad") /\ Unlocked(s)
      /\ disk' = iupdate(disk, c, s)
      /\ ic' = iunlock(c, s)
      /\ Goes(p, Fails(th[p], <<s>>))
      /\ UNCHANGED <<cwd, ofile, panicked>>

-----------------------------------------------------------------------------
\* fileread(): everything from f->off on.  filewrite(): one chunk at f->off.
fileread(p) ==
  LET fd == th[p].call.fd
      f == ofile[p][fd]
      data == disk[ic[f.ip].inum].data
  IN  /\ Ready(p, "read") /\ Unlocked(f.ip)
      /\ ofile' = [ofile EXCEPT ![p][fd].off = Len(data)]
      /\ Goes(p, [th[p] EXCEPT !.pc = "user",
                    !.res = SubSeq(data, f.off + 1, Len(data))])
      /\ UNCHANGED <<disk, ic, cwd, panicked>>

filewrite(p) ==
  LET fd == th[p].call.fd
      f == ofile[p][fd]
      i == ic[f.ip].inum
      old == disk[i].data
      new == IF f.off < Len(old) THEN [old EXCEPT ![f.off + 1] = th[p].call.val]
                                 ELSE Append(old, th[p].call.val)
  IN  /\ Ready(p, "write")
      /\ \/ /\ ~f.w
            /\ Goes(p, [th[p] EXCEPT !.pc = "user", !.res = -1])
            /\ UNCHANGED <<disk, ofile>>
         \/ /\ f.w /\ Unlocked(f.ip)
            /\ disk' = [disk EXCEPT ![i].data = new]
            /\ ofile' = [ofile EXCEPT ![p][fd].off = @ + 1]
            /\ Goes(p, [th[p] EXCEPT !.pc = "user", !.res = 1])
      /\ UNCHANGED <<ic, cwd, panicked>>

-----------------------------------------------------------------------------
Step(p) ==
  \/ namex(p) \/ iput(p) \/ Drop(p)
  \/ sys_open(p) \/ sys_chdir(p)
  \/ create(p) \/ CreateExists(p) \/ CreateMake(p) \/ CreateMade(p)
  \/ sys_unlink(p) \/ UnlinkEntry(p) \/ UnlinkCount(p) \/ UnlinkBad(p)
  \/ sys_link(p) \/ LinkEntry(p) \/ LinkTaken(p) \/ LinkBad(p)
  \/ fileread(p) \/ filewrite(p)
Next == \E p \in Proc : Step(p) \/ \E c \in Calls : Start(p, c)
Spec == Init /\ [][Next]_vars

-----------------------------------------------------------------------------
\* Type correctness of the disk, the cache and the calls.
TypeOK ==
  /\ \A i \in Ino : /\ disk[i].type \in {"free", "file", "dir", "dev"}
                    /\ disk[i].nlink \in Nat
                    /\ \A n \in DOMAIN disk[i].ents : disk[i].ents[n] \in Ino
  /\ \A s \in Slot : ic[s].inum \in 0..NINODES /\ ic[s].ref \in Nat /\ ic[s].lock \in Proc \cup {Nobody}
  /\ cwd \in [Proc -> 0..NINODE]
  /\ \A p \in Proc : th[p].w \in 0..NINODE /\ th[p].ip \in 0..NINODE

\* What process p points to: its directory, its open files, its call's inodes.
Held(p) == <<cwd[p], th[p].w, th[p].ip>> \o [fd \in Fd |-> ofile[p][fd].ip] \o th[p].puts

\* fs.c: "ip->ref tracks the number of in-memory pointers to the entry".  No
\* path of a call forgets a reference or drops one twice, and no inode has two
\* entries: else two processes would lock different copies of it.
RefsExact ==
  \A s \in Slot :
    /\ ic[s].ref = Cardinality({x \in Proc \X (1..(2 * NOFILE + 4)) :
                                  x[2] <= Len(Held(x[1])) /\ Held(x[1])[x[2]] = s})
    /\ \A t \in Slot : s # t /\ ic[s].ref > 0 /\ ic[t].ref > 0 => ic[s].inum # ic[t].inum

\* What a locked or valid entry of the cache says is what the disk says: nobody
\* decides on a stale type or link count.
CacheFresh ==
  \A s \in Slot : ic[s].ref > 0 /\ ic[s].valid =>
    ic[s].type = disk[ic[s].inum].type /\ ic[s].nlink = disk[ic[s].inum].nlink

\* The entries that name inode i, and the directories that i names.
Names(i) == {e \in UNION {{d} \X (DOMAIN disk[d].ents \ Dots) : d \in Ino} : disk[e[1]].ents[e[2]] = i}
Subdirs(i) == {n \in DOMAIN disk[i].ents \ Dots : disk[disk[i].ents[n]].type = "dir"}
Links(i) == Cardinality(Names(i)) + Cardinality(Subdirs(i)) + (IF i = Root THEN 1 ELSE 0)

\* A name never leads to a free inode, and the link count is never lower than
\* the number of links: an inode with a name is not freed, whatever link(),
\* unlink() and create() of other processes are doing.
NamedAlive ==
  \A i \in Ino : /\ Names(i) # {} => disk[i].type # "free"
                 /\ disk[i].nlink >= Links(i)

\* fs.c: nlink is "the number of links referring to it", when no call is in
\* progress.
AtRest == \A p \in Proc : th[p].pc = "user"
LinksExact == AtRest => \A i \in Ino : disk[i].nlink = Links(i)

\* fs.c: "iput() frees if the reference and link counts have fallen to zero".
NoOrphan ==
  \A i \in Ino : disk[i].type # "free" /\ disk[i].nlink = 0 =>
    \E s \in Slot : ic[s].ref > 0 /\ ic[s].inum = i

\* The sleep lock a process waits for.
Wants(p) ==
  CASE th[p].pc \in {"name", "open", "chdir", "create", "unlink", "link", "link2"} -> th[p].w
    [] th[p].pc \in {"exists", "make", "unlink2", "linkbad"} -> th[p].ip
    [] th[p].pc \in {"put", "hop"} -> Head(th[p].puts)
    [] th[p].pc \in {"read", "write"} -> ofile[p][th[p].call.fd].ip
    [] OTHER -> 0
WaitsFor(p) == IF Wants(p) = 0 THEN Nobody ELSE ic[Wants(p)].lock

Circle(S) == S # {} /\ \A p \in S : WaitsFor(p) \in S

\* usertests.c runs linkunlink() "to look for deadlocks": no processes wait for
\* each other's inode locks in a circle.
NoLockCycle == \A S \in SUBSET Proc : ~Circle(S)

\* The order in which ilock() is called, a directory before what it names, never
\* closes a circle: in each there is a process that waits in an iput() it has
\* called with an inode locked.
OnlyIputCloses == \A S \in SUBSET Proc : Circle(S) => \E p \in S : th[p].pc = "put"

\* The panics that are reached: no inode is left, or a walk goes through the ".."
\* of a directory that was removed, to a parent that was removed after it.
PanicsKnown ==
  /\ panicked \in {"no", "ialloc: no inodes", "ilock: no type"}
  /\ panicked = "ilock: no type" =>
       \E i \in Ino : /\ disk[i].type = "dir" /\ disk[i].nlink = 0
                      /\ disk[disk[i].ents[".."]].type = "free"

\* What the calls promise of names: see NameSpace.
NameSpec == INSTANCE NameSpace WITH
  kind <- [i \in Ino |-> disk[i].type],
  names <- [d \in Ino |-> [n \in DOMAIN disk[d].ents \ Dots |-> disk[d].ents[n]]],
  held <- {ic[s].inum : s \in {t \in Slot : \E p \in Proc : cwd[p] = t \/ \E fd \in Fd : ofile[p][fd].ip = t}}
ImplementsNameSpace == NameSpec!Init /\ [][UNCHANGED vars \/ NameSpec!Next]_(NameSpec!vars)
=============================================================================
