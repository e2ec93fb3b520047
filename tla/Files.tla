------------------------------- MODULE Files -------------------------------
(***************************************************************************)
(* The upper half of the file system: the inode cache (fs.c iget .. iput), *)
(* directories and paths (dirlookup, dirlink, namex), the system calls on  *)
(* names (sysfile.c) and the open file table (file.c), over transactions   *)
(* as AtomicDisk describes them.  A step runs from one wait for an inode's *)
(* sleep lock to the next, or between two critical sections of             *)
(* icache.lock; what a process does alone under a lock is one step.        *)
(***************************************************************************)
EXTENDS Integers, SequencesExt

CONSTANTS Procs, Inums, Names, NFILE,
          Paths,       \* the arguments user programs pass: sequences of elements
          Links,       \* ... and those of link(): pairs of paths
          Trees,       \* the file systems found at boot
          MaxCalls     \* bound on the calls on paths and the crashes together

ASSUME FilesConstants ==
  /\ Procs \subseteq Nat \ {0} /\ 1 \in Procs
  /\ Inums \subseteq Nat \ {0} /\ 1 \in Inums
  /\ NFILE \in Nat \ {0} /\ MaxCalls \in Nat
  /\ LET Path == Seq(Names \cup {"..", "/"}) \ {<<>>}
     IN  Paths \subseteq Path /\ Links \subseteq Path \X Path
  /\ {"..", "/"} \cap Names = {}

ROOTINO == 1
Fds == 1..NFILE
Dots == Names \cup {".."}

VARIABLES
  dino,    \* the inodes on disk as the running transactions see them
  stable,  \* what a crash leaves of them
  tx,      \* processes between begin_op and end_op
  icache,  \* per inum: ref, valid, the holder of the sleep lock, type, nlink
  ftable,  \* struct file: ref, and ip (0: FD_NONE)
  ofile, cwd,      \* per process; ofile is its one descriptor, cwd 0: no process
  pc, r,           \* per process: where it is, and its local variables
  calls, crashed,  \* system calls on paths and crashes so far; ghost: a crash
  strayed  \* ghost: somebody walked, or wrote, in a directory already removed

vars == <<dino, stable, tx, icache, ftable, ofile, cwd, pc, r, calls, crashed, strayed>>

Free == [type |-> "free", nlink |-> 0, ents |-> [n \in Dots |-> 0]]
Uncached == [ref |-> 0, valid |-> FALSE, lock |-> 0, type |-> "free", nlink |-> 0]

\* Locals: op, path left to walk, parent = nameiparent, ip = the inode at hand
\* (the directory, once a path's parent is found), tgt = the other one, new =
\* link's second path, put = references iput is to drop, then = where to go on.
NoLocals == [op |-> "none", path |-> <<>>, parent |-> FALSE, ip |-> 0, tgt |-> 0,
             new |-> <<>>, put |-> <<>>, then |-> "end"]

\* All of memory after a boot: init, with nothing open, in the root directory.
Booted(p) == p = 1
BootCache == [i \in Inums |-> IF i = ROOTINO THEN [Uncached EXCEPT !.ref = 1] ELSE Uncached]
BootFiles == [f \in Fds |-> [ref |-> 0, ip |-> 0]]
BootCwd == [p \in Procs |-> IF Booted(p) THEN ROOTINO ELSE 0]

Init ==
  /\ dino \in Trees /\ stable = dino
  /\ tx = {} /\ icache = BootCache /\ ftable = BootFiles
  /\ ofile = [p \in Procs |-> 0] /\ cwd = BootCwd
  /\ pc = [p \in Procs |-> "user"] /\ r = [p \in Procs |-> NoLocals]
  /\ calls = 0 /\ crashed = FALSE /\ strayed = FALSE

-----------------------------------------------------------------------------
Lowest(S) == CHOOSE x \in S : \A y \in S : x <= y
Goto(p, at, locals) == pc' = [pc EXCEPT ![p] = at] /\ r' = [r EXCEPT ![p] = locals]

\* iget and idup count the reference; a slot that nobody used is recycled.
Iget(c, i) == [c EXCEPT ![i] = IF @.ref = 0 THEN [Uncached EXCEPT !.ref = 1]
                               ELSE [@ EXCEPT !.ref = c[i].ref + 1]]

\* What ilock makes of a cached inode: read from the disk unless valid.
Loaded(i) == IF icache[i].valid THEN icache[i]
             ELSE [icache[i] EXCEPT !.valid = TRUE, !.type = dino[i].type, !.nlink = dino[i].nlink]

\* The inode that a process at each point is about to lock with ilock.
Wanted(p) ==
  CASE pc[p] \in {"walk", "open", "unlink", "create", "chdir", "link", "linkentry"} -> r[p].ip
    [] pc[p] \in {"unlinkip", "exists", "created", "linkbad"} -> r[p].tgt
    [] OTHER -> 0

\* ilock looks at the type of an inode only when it loads it.
LoadPanics(i) == ~icache[i].valid /\ dino[i].type = "free"

\* ilock by p at the point at, when the lock is free.  When a panic would follow
\* instead, here or below, p takes no step.
Ilock(p, at) == pc[p] = at /\ icache[Wanted(p)].lock = 0 /\ ~LoadPanics(Wanted(p))

\* Continue with iput on each of s, then at the point then; at the end of a call
\* its other locals are dead.
Put(p, s, then) ==
  Goto(p, "iput", [(IF then = "end" THEN [NoLocals EXCEPT !.op = r[p].op] ELSE r[p])
                   EXCEPT !.put = s, !.then = then])

FSame == UNCHANGED <<stable, tx, ftable, ofile, cwd, calls, crashed>>

-----------------------------------------------------------------------------
\* iput, first half: lock, and look whether the inode is to be freed.  A process
\* that frees keeps the lock until it has; one that does not gives it up.
\* Faulty variant of LastRef: other references do not matter.
LastRef_Any(i) == TRUE
LastRef(i) == icache[i].ref = 1

IputLook(p) == LET i == Head(r[p].put) IN
  /\ pc[p] = "iput" /\ icache[i].lock = 0
  /\ IF icache[i].valid /\ icache[i].nlink = 0 /\ LastRef(i)
     THEN icache' = [icache EXCEPT ![i].lock = p] /\ Goto(p, "free", r[p])
     ELSE UNCHANGED icache /\ Goto(p, "drop", r[p])
  /\ UNCHANGED <<dino, strayed>> /\ FSame

\* Faulty variant: iput leaves the entry it freed valid.
Freed_Valid(c) == [c EXCEPT !.type = "free", !.lock = 0]
Freed(c) == [c EXCEPT !.type = "free", !.valid = FALSE, !.lock = 0]

\* itrunc, type = 0, iupdate, valid = 0, releasesleep.
IputFree(p) == LET i == Head(r[p].put) IN
  /\ pc[p] = "free"
  /\ dino' = [dino EXCEPT ![i] = Free]
  /\ icache' = [icache EXCEPT ![i] = Freed(@)]
  /\ Goto(p, "drop", r[p])
  /\ UNCHANGED strayed /\ FSame

\* iput, second half: ref--, under icache.lock again.
IputDrop(p) == LET i == Head(r[p].put) rest == Tail(r[p].put) IN
  /\ pc[p] = "drop"
  /\ icache' = [icache EXCEPT ![i].ref = @ - 1]
  /\ IF rest = <<>> THEN Goto(p, r[p].then, [r[p] EXCEPT !.put = rest])
     ELSE Goto(p, "iput", [r[p] EXCEPT !.put = rest])
  /\ UNCHANGED <<dino, strayed>> /\ FSame

-----------------------------------------------------------------------------
\* namex: begin at the root or at the current directory.
Absolute(path) == Head(path) = "/"
Start(p, path) == IF Absolute(path) THEN ROOTINO ELSE cwd[p]
Elements(path) == IF Absolute(path) THEN Tail(path) ELSE path
WalkFrom(p, locals, path, parent) ==
  Goto(p, "walk", [locals EXCEPT !.path = Elements(path), !.parent = parent, !.ip = Start(p, path)])

\* Where the walk hands over to its caller, and where when it fails.
Arrived(q) == CASE q.op = "link" -> IF q.parent THEN "linkentry" ELSE "link"
                [] q.op = "mkdir" -> "create"
                [] q.op = "creat" -> "create"
                [] OTHER -> q.op
Missed(q) == IF q.op = "link" /\ q.parent THEN "linkbad" ELSE "end"

WalkEnd(p) == LET q == r[p] IN
  /\ pc[p] = "walk" /\ q.path = <<>>
  /\ IF q.parent THEN Put(p, <<q.ip>>, Missed(q)) ELSE Goto(p, Arrived(q), q)
  /\ UNCHANGED <<dino, icache, strayed>> /\ FSame

Walk(p) == LET q == r[p] dp == q.ip IN
  /\ Ilock(p, "walk") /\ q.path # <<>>
  /\ LET c == [icache EXCEPT ![dp] = Loaded(dp)]
         next == dino[dp].ents[Head(q.path)]
     IN  \/ /\ Loaded(dp).type # "dir"
            /\ icache' = c /\ Put(p, <<dp>>, Missed(q)) /\ UNCHANGED strayed
         \/ /\ Loaded(dp).type = "dir" /\ q.parent /\ Len(q.path) = 1
            /\ icache' = c /\ Goto(p, Arrived(q), q) /\ UNCHANGED strayed
         \/ /\ Loaded(dp).type = "dir" /\ ~(q.parent /\ Len(q.path) = 1)
            /\ IF next = 0
               THEN icache' = c /\ Put(p, <<dp>>, Missed(q)) /\ UNCHANGED strayed
               ELSE /\ icache' = Iget(c, next)
                    /\ Goto(p, "iput", [q EXCEPT !.path = Tail(q.path), !.ip = next,
                                                 !.put = <<dp>>, !.then = "walk"])
                    /\ strayed' = (strayed \/ Loaded(dp).nlink = 0)
  /\ UNCHANGED dino /\ FSame

-----------------------------------------------------------------------------
\* sys_open without O_CREATE locks what namei found, for writing or not.
OpenFound(p) == LET q == r[p] IN \E writing \in BOOLEAN :
  /\ Ilock(p, "open")
  /\ IF Loaded(q.ip).type = "dir" /\ writing
     THEN icache' = [icache EXCEPT ![q.ip] = Loaded(q.ip)] /\ Put(p, <<q.ip>>, "end")
     ELSE /\ icache' = [icache EXCEPT ![q.ip] = [Loaded(q.ip) EXCEPT !.lock = p]]
          /\ Goto(p, "openfile", [q EXCEPT !.tgt = q.ip])
  /\ UNCHANGED <<dino, strayed>> /\ FSame

\* filealloc and fdalloc, with the inode locked.  Without a slot or a descriptor
\* the reference is dropped, else the file keeps it.
OpenFile(p) == LET ip == r[p].tgt slots == {f \in Fds : ftable[f].ref = 0} IN
  /\ pc[p] = "openfile"
  /\ icache' = [icache EXCEPT ![ip].lock = 0]
  /\ IF slots = {} \/ ofile[p] # 0
     THEN Put(p, <<ip>>, "end") /\ UNCHANGED <<ftable, ofile>>
     ELSE /\ ftable' = [ftable EXCEPT ![Lowest(slots)] = [ref |-> 1, ip |-> ip]]
          /\ ofile' = [ofile EXCEPT ![p] = Lowest(slots)]
          /\ Goto(p, "end", r[p])
  /\ UNCHANGED <<dino, stable, tx, cwd, calls, crashed, strayed>>

\* create: with the directory locked, an existing entry is looked up, a new
\* inode allocated.  ialloc reads one block of inodes after another, so it may pass
\* by one that is freed meanwhile, and take a later one.
Create(p) == LET q == r[p] dp == q.ip name == Head(q.path)
                 found == dino[dp].ents[name]
                 unused == {i \in Inums : dino[i].type = "free"}
                 c == [icache EXCEPT ![dp] = Loaded(dp)]
  IN
  /\ Ilock(p, "create")
  /\ \/ /\ found # 0
        /\ icache' = Iget(c, found)
        /\ Goto(p, "iput", [q EXCEPT !.tgt = found, !.put = <<dp>>, !.then = "exists"])
        /\ strayed' = (strayed \/ Loaded(dp).nlink = 0)
        /\ UNCHANGED dino
     \/ /\ found = 0
        /\ \E ip \in unused :
           /\ dino' = [dino EXCEPT ![ip] = [Free EXCEPT !.type = IF q.op = "mkdir" THEN "dir" ELSE "file"]]
           /\ icache' = Iget([c EXCEPT ![dp].lock = p], ip)
           /\ Goto(p, "created", [q EXCEPT !.tgt = ip])
        /\ strayed' = (strayed \/ Loaded(dp).nlink = 0)
  /\ FSame

\* The name existed: open takes a file, anything else fails.
CreateExists(p) == LET q == r[p] ip == q.tgt IN
  /\ Ilock(p, "exists")
  /\ IF q.op = "creat" /\ Loaded(ip).type = "file"
     THEN icache' = [icache EXCEPT ![ip] = [Loaded(ip) EXCEPT !.lock = p]] /\ Goto(p, "openfile", q)
     ELSE icache' = [icache EXCEPT ![ip] = Loaded(ip)] /\ Put(p, <<ip>>, "end")
  /\ UNCHANGED <<dino, strayed>> /\ FSame

\* An inode with n links more, or less, as iunlock leaves it.
Unlocked(c, n) == [c EXCEPT !.nlink = c.nlink + n, !.lock = 0]

\* The new inode is locked inside the directory's lock, gets its link, "..", and
\* its entry; the directory is unlocked and put while the inode is still locked.
CreateEntry(p) == LET q == r[p] dp == q.ip ip == q.tgt dir == q.op = "mkdir" IN
  /\ Ilock(p, "created")
  /\ dino' = [dino EXCEPT ![ip] = [type |-> Loaded(ip).type, nlink |-> 1,
                                   ents |-> [dino[ip].ents EXCEPT ![".."] = IF dir THEN dp ELSE 0]],
                          ![dp].nlink = IF dir THEN icache[dp].nlink + 1 ELSE dino[dp].nlink,
                          ![dp].ents[Head(q.path)] = ip]
  /\ icache' = [icache EXCEPT ![ip] = [Loaded(ip) EXCEPT !.nlink = 1, !.lock = p],
                              ![dp] = Unlocked(icache[dp], IF dir THEN 1 ELSE 0)]
  /\ Put(p, <<dp>>, IF dir THEN "made" ELSE "openfile")
  /\ UNCHANGED strayed /\ FSame

\* sys_mkdir: iunlockput of the new directory.
Made(p) ==
  /\ pc[p] = "made"
  /\ icache' = [icache EXCEPT ![r[p].tgt].lock = 0]
  /\ Put(p, <<r[p].tgt>>, "end")
  /\ UNCHANGED <<dino, strayed>> /\ FSame

-----------------------------------------------------------------------------
\* sys_unlink: lock the directory, find the entry.
Unlink(p) == LET q == r[p] dp == q.ip name == Head(q.path) ip == dino[dp].ents[name] IN
  /\ Ilock(p, "unlink")
  /\ IF name = ".." \/ ip = 0
     THEN icache' = [icache EXCEPT ![dp] = Loaded(dp)] /\ Put(p, <<dp>>, "end")
     ELSE /\ icache' = Iget([icache EXCEPT ![dp] = [Loaded(dp) EXCEPT !.lock = p]], ip)
          /\ Goto(p, "unlinkip", [q EXCEPT !.tgt = ip])
  /\ UNCHANGED <<dino, strayed>> /\ FSame

Empty(i) == \A n \in Names : dino[i].ents[n] = 0

\* ... lock the inode inside the directory's lock.  A directory in use is put
\* while its parent is still locked; otherwise the entry goes, a directory's
\* ".." gives its link back, and the parent is unlocked.
UnlinkEntry(p) == LET q == r[p] dp == q.ip ip == q.tgt dir == Loaded(ip).type = "dir" IN
  /\ Ilock(p, "unlinkip")
  /\ \/ /\ Loaded(ip).nlink > 0 /\ dir /\ ~Empty(ip)
        /\ icache' = [icache EXCEPT ![ip] = Loaded(ip)]
        /\ Put(p, <<ip>>, "bad") /\ UNCHANGED dino
     \/ /\ Loaded(ip).nlink > 0 /\ ~(dir /\ ~Empty(ip))
        /\ dino' = [dino EXCEPT ![dp].ents[Head(q.path)] = 0,
                                ![dp].nlink = IF dir THEN icache[dp].nlink - 1 ELSE dino[dp].nlink]
        /\ icache' = [icache EXCEPT ![ip] = [Loaded(ip) EXCEPT !.lock = p],
                                    ![dp] = Unlocked(icache[dp], IF dir THEN -1 ELSE 0)]
        /\ Put(p, <<dp>>, "nlink")
  /\ UNCHANGED strayed /\ FSame

\* ... one link less, with the inode still locked.
UnlinkInode(p) == LET ip == r[p].tgt IN
  /\ pc[p] = "nlink"
  /\ icache' = [icache EXCEPT ![ip] = Unlocked(icache[ip], -1)]
  /\ dino' = [dino EXCEPT ![ip].nlink = icache[ip].nlink - 1]
  /\ Put(p, <<ip>>, "end")
  /\ UNCHANGED strayed /\ FSame

\* A call that failed with the directory locked: iunlockput(dp).
Bad(p) ==
  /\ pc[p] = "bad"
  /\ icache' = [icache EXCEPT ![r[p].ip].lock = 0]
  /\ Put(p, <<r[p].ip>>, Missed(r[p]))
  /\ UNCHANGED <<dino, strayed>> /\ FSame

-----------------------------------------------------------------------------
\* sys_link: one link more, before the entry exists.
Link(p) == LET q == r[p] ip == q.ip IN
  /\ Ilock(p, "link")
  /\ IF Loaded(ip).type = "dir"
     THEN icache' = [icache EXCEPT ![ip] = Loaded(ip)] /\ Put(p, <<ip>>, "end") /\ UNCHANGED dino
     ELSE /\ icache' = Iget([icache EXCEPT ![ip] = [Loaded(ip) EXCEPT !.nlink = Loaded(ip).nlink + 1]],
                            Start(p, q.new))
          /\ dino' = [dino EXCEPT ![ip].nlink = Loaded(ip).nlink + 1]
          /\ WalkFrom(p, [q EXCEPT !.tgt = ip], q.new, TRUE)
  /\ UNCHANGED strayed /\ FSame

\* ... then the entry; dirlink drops the inode it finds under the name while the
\* directory is locked.
LinkEntry(p) == LET q == r[p] dp == q.ip found == dino[dp].ents[Head(q.path)] IN
  /\ Ilock(p, "linkentry")
  /\ IF found # 0
     THEN /\ icache' = Iget([icache EXCEPT ![dp] = [Loaded(dp) EXCEPT !.lock = p]], found)
          /\ Put(p, <<found>>, "bad") /\ UNCHANGED dino
     ELSE /\ icache' = [icache EXCEPT ![dp] = Loaded(dp)]
          /\ dino' = [dino EXCEPT ![dp].ents[Head(q.path)] = q.tgt]
          /\ Put(p, <<dp, q.tgt>>, "end")
  /\ strayed' = (strayed \/ Loaded(dp).nlink = 0)
  /\ FSame

\* ... or the link is taken back.
LinkBad(p) == LET ip == r[p].tgt n == Loaded(ip).nlink - 1 IN
  /\ Ilock(p, "linkbad")
  /\ icache' = [icache EXCEPT ![ip] = [Loaded(ip) EXCEPT !.nlink = n]]
  /\ dino' = [dino EXCEPT ![ip].nlink = n]
  /\ Put(p, <<ip>>, "end")
  /\ UNCHANGED strayed /\ FSame

\* sys_chdir: the new directory replaces the old, which is put.
Chdir(p) == LET ip == r[p].ip IN
  /\ Ilock(p, "chdir")
  /\ icache' = [icache EXCEPT ![ip] = Loaded(ip)]
  /\ IF Loaded(ip).type = "dir"
     THEN Put(p, <<cwd[p]>>, "end") /\ cwd' = [cwd EXCEPT ![p] = ip]
     ELSE Put(p, <<ip>>, "end") /\ UNCHANGED cwd
  /\ UNCHANGED <<dino, stable, tx, ftable, ofile, calls, crashed, strayed>>

-----------------------------------------------------------------------------
\* Faulty variant of LastFd: fileclose takes every close for the last.
LastFd_Any(f) == TRUE
LastFd(f) == ftable[f].ref = 1

\* fileclose under ftable.lock: the last close copies the struct file and frees
\* the slot; what it referred to is put afterwards, in a transaction.
Fileclose(p, locals) == LET f == ofile[p] IN
  /\ ofile' = [ofile EXCEPT ![p] = 0]
  /\ IF LastFd(f)
     THEN /\ ftable' = [ftable EXCEPT ![f] = [ref |-> 0, ip |-> 0]]
          /\ Goto(p, "closing", [locals EXCEPT !.put = <<ftable[f].ip>>])
     ELSE /\ ftable' = [ftable EXCEPT ![f].ref = @ - 1]
          /\ Goto(p, IF locals.op = "exit" THEN "exit" ELSE "user", locals)

Close(p) ==
  /\ pc[p] = "user" /\ ofile[p] # 0
  /\ Fileclose(p, NoLocals)
  /\ UNCHANGED <<dino, stable, tx, icache, cwd, calls, crashed, strayed>>

\* begin_op, then iput(ff.ip).
Closing(p) ==
  /\ pc[p] = "closing" /\ tx' = tx \cup {p}
  /\ Goto(p, "iput", r[p])
  /\ UNCHANGED <<dino, stable, icache, ftable, ofile, cwd, calls, crashed, strayed>>

\* exit() closes the file, then puts the current directory in a transaction.
Exit(p) ==
  /\ pc[p] = "user" /\ cwd[p] # 0 /\ p # 1
  /\ Goto(p, "exit", [NoLocals EXCEPT !.op = "exit"])
  /\ UNCHANGED <<dino, stable, tx, icache, ftable, ofile, cwd, calls, crashed, strayed>>

ExitFile(p) ==
  /\ pc[p] = "exit" /\ ofile[p] # 0
  /\ Fileclose(p, r[p])
  /\ UNCHANGED <<dino, stable, tx, icache, cwd, calls, crashed, strayed>>

ExitCwd(p) ==
  /\ pc[p] = "exit" /\ ofile[p] = 0
  /\ tx' = tx \cup {p}
  /\ cwd' = [cwd EXCEPT ![p] = 0]
  /\ Put(p, <<cwd[p]>>, "end")
  /\ UNCHANGED <<dino, stable, icache, ftable, ofile, calls, crashed, strayed>>

\* fork(): the child shares the open file and the current directory.
Fork(p, q) ==
  /\ pc[p] = "user" /\ cwd[p] # 0
  /\ pc[q] = "user" /\ cwd[q] = 0
  /\ ofile' = [ofile EXCEPT ![q] = ofile[p]]
  /\ ftable' = [f \in Fds |-> IF f = ofile[p] THEN [ftable[f] EXCEPT !.ref = @ + 1] ELSE ftable[f]]
  /\ cwd' = [cwd EXCEPT ![q] = cwd[p]]
  /\ icache' = Iget(icache, cwd[p])
  /\ UNCHANGED <<dino, stable, tx, pc, r, calls, crashed, strayed>>

-----------------------------------------------------------------------------
\* A system call on a path, new being link's second: begin_op and the start of
\* the walk.
Call(p, op, path, new) ==
  /\ pc[p] = "user" /\ cwd[p] # 0 /\ calls < MaxCalls
  /\ calls' = calls + 1
  /\ tx' = tx \cup {p}
  /\ icache' = Iget(icache, Start(p, path))
  /\ WalkFrom(p, [NoLocals EXCEPT !.op = op, !.new = new], path, op \notin {"open", "chdir", "link"})
  /\ UNCHANGED <<dino, stable, ftable, ofile, cwd, crashed, strayed>>

\* Faulty variant of Commits: every end_op commits.
Commits_Always(rest) == TRUE
\* end_op commits when nobody else is in a transaction.
Commits(rest) == rest = {}

EndOp(p) ==
  /\ pc[p] = "end"
  /\ tx' = tx \ {p}
  /\ stable' = IF Commits(tx') THEN dino ELSE stable
  /\ IF r[p].op = "exit" /\ cwd[p] # 0 THEN Goto(p, "exit", [NoLocals EXCEPT !.op = "exit"])
     ELSE Goto(p, "user", NoLocals)
  /\ UNCHANGED <<dino, icache, ftable, ofile, cwd, calls, crashed, strayed>>

\* Power fails and the machine boots: memory is gone, the log is recovered.
Crash ==
  /\ calls < MaxCalls /\ calls' = calls + 1
  /\ crashed' = TRUE
  /\ dino' = stable
  /\ tx' = {} /\ icache' = BootCache /\ ftable' = BootFiles
  /\ ofile' = [p \in Procs |-> 0] /\ cwd' = BootCwd
  /\ pc' = [p \in Procs |-> "user"] /\ r' = [p \in Procs |-> NoLocals]
  /\ UNCHANGED <<stable, strayed>>

Iput(p) == IputLook(p) \/ IputFree(p) \/ IputDrop(p)
Creation(p) == Create(p) \/ CreateExists(p) \/ CreateEntry(p) \/ Made(p)
Unlinking(p) == Unlink(p) \/ UnlinkEntry(p) \/ UnlinkInode(p)
Linking(p) == Link(p) \/ LinkEntry(p) \/ LinkBad(p)
Leaving(p) == Close(p) \/ Closing(p) \/ Exit(p) \/ ExitFile(p) \/ ExitCwd(p)

Step(p) == \/ Iput(p) \/ Walk(p) \/ WalkEnd(p)
           \/ OpenFound(p) \/ OpenFile(p) \/ Creation(p)
           \/ Unlinking(p) \/ Bad(p) \/ Linking(p) \/ Chdir(p) \/ Leaving(p) \/ EndOp(p)
           \/ \E q \in Procs : Fork(p, q)
           \/ \E op \in {"open", "creat", "mkdir", "unlink", "chdir"}, path \in Paths :
                Call(p, op, path, <<>>)
           \/ \E l \in Links : Call(p, "link", l[1], l[2])

Next == Crash \/ \E p \in Procs : Step(p)

Spec == Init /\ [][Next]_vars

-----------------------------------------------------------------------------
\* The entries of directories that name inode i.
Entries(d, i) == {e \in Inums \X Names : d[e[1]].ents[e[2]] = i}
Subdirs(d, i) == {c \in Inums \ {ROOTINO} : d[c].type = "dir" /\ d[c].nlink > 0 /\ d[c].ents[".."] = i}

\* What a crash leaves at any moment is a file system: every link count is the
\* number of entries and of ".." that name the inode, no entry names a free
\* inode, and a directory has one parent.  (Removed inodes still in use, of
\* count 0, may be left; a directory that somebody used after it was removed
\* may break it.)
LinksMatchEntries == ~strayed => \A i \in Inums :
  /\ stable[i].nlink = Cardinality(Entries(stable, i)) + Cardinality(Subdirs(stable, i))
                          + IF i = ROOTINO THEN 1 ELSE 0
  /\ stable[i].type = "free" => stable[i].nlink = 0
  /\ stable[i].type = "dir" => Cardinality(Entries(stable, i)) <= 1

\* The references in the local variables of a process: those iput is to drop,
\* and those that the point it is at, or will go on from, has a use for.
InIput(p) == pc[p] \in {"iput", "free", "drop"}
Held(p) == LET q == r[p]
               at == IF InIput(p) THEN q.then ELSE pc[p]
  IN q.put \o (IF at \in {"walk", "open", "create", "created", "unlink", "unlinkip", "link",
                          "linkentry", "chdir", "bad"} THEN <<q.ip>> ELSE <<>>)
           \o (IF \/ at \in {"created", "unlinkip", "exists", "openfile", "made", "nlink", "linkbad"}
                  \/ q.op = "link" /\ q.parent /\ at # "end"
               THEN <<q.tgt>> ELSE <<>>)

\* ip->ref "tracks the number of in-memory pointers to the entry" (fs.c:123), and
\* f->ref the descriptors: none is lost or counted twice on any way through the
\* system calls, their failures included.
RefsArePointers ==
  /\ \A i \in Inums :
       icache[i].ref = Cardinality({p \in Procs : cwd[p] = i})
                       + Cardinality({f \in Fds : ftable[f].ip = i})
                       + Cardinality(UNION {{<<p, k>> : k \in {k \in DOMAIN Held(p) : Held(p)[k] = i}} : p \in Procs})
  /\ \A f \in Fds : ftable[f].ref = Cardinality({p \in Procs : ofile[p] = f})

\* iput frees only what nobody else refers to: the inode of an open file, of a
\* current directory and of whoever is on the way to one stays allocated.
InUseIsAllocated == ~strayed =>
  /\ \A p \in Procs : cwd[p] # 0 => dino[cwd[p]].type = "dir"
  /\ \A f \in Fds : ftable[f].ip # 0 => dino[ftable[f].ip].type # "free"
  /\ \A p \in Procs : LET q == r[p] gone == IF pc[p] = "drop" THEN Tail(q.put) ELSE Held(p) IN
       \A k \in DOMAIN gone : dino[gone[k]].type # "free"

\* panic("ilock: no type") and panic("unlink: nlink < 1") are not reached, unless
\* a removed directory was used.
NoPanic == ~strayed => \A p \in Procs :
  Wanted(p) # 0 /\ icache[Wanted(p)].lock = 0 =>
     /\ ~LoadPanics(Wanted(p))
     /\ pc[p] = "unlinkip" => Loaded(Wanted(p)).nlink > 0

\* "If that was the last reference and the inode has no links to it, free the
\* inode (and its content) on disk" (fs.c:327).
UnlinkedIsFreed == \A i \in Inums :
  dino[i].type # "free" /\ dino[i].nlink = 0 => icache[i].ref > 0 \/ strayed \/ crashed

\* No processes wait for inode locks that only they hold; usertests.c:855 runs
\* link, unlink and create of one name in two processes "to look for deadlocks".
Waits(p) == IF pc[p] = "iput" THEN Head(r[p].put) ELSE Wanted(p)
NoDeadlock == \A D \in SUBSET Procs \ {{}} :
  \E p \in D : Waits(p) = 0 \/ icache[Waits(p)].lock \notin D
=============================================================================
