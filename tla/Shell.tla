-------------------------------- MODULE Shell --------------------------------
(***************************************************************************)
(* The shell (sh.c): how a line of tokens becomes a tree of commands, and  *)
(* how runcmd carries the tree out with fork, pipe, dup, close and wait.   *)
(*                                                                         *)
(* A process runs the node of the tree that its path leads to.  An open    *)
(* file is the console <<"con">>, a file <<"file", word>>, or an end of    *)
(* the pipe of the PIPE node at a path: <<"r", path>>, <<"w", path>>.      *)
(* A descriptor that is closed is <<>>.                                    *)
(***************************************************************************)
EXTENDS Integers, SequencesExt

CONSTANTS Words, MAXARGS,
          Lines,       \* the lines typed
          NPROC, NOFILE,
          MaxFails     \* bound on the calls of fork() and pipe() that fail

VARIABLES
  line,
  mode,    \* "drain": programs read a pipe to its end; "fill": they write
           \* into a pipe until nobody can read it
  tree,    \* what parsecmd returned
  proc,    \* of each process where it is, its path, descriptors and parent
  fails

vars == <<line, mode, tree, proc, fails>>

Users == 1..NPROC

-----------------------------------------------------------------------------
\* The parser.  A parse is a tree and the position after it, 0 for a panic.
Fail == [cmd |-> [type |-> "SYNTAX"], at |-> 0]
Exec(argv) == [type |-> "EXEC", argv |-> argv]
Redir(c, r) == [type |-> "REDIR", left |-> c, fd |-> r.fd, file |-> r.file]
Back(c) == [type |-> "BACK", left |-> c]
Both(t, c, d) == [type |-> t, left |-> c, right |-> d]

Peek(s, i, toks) == i \in DOMAIN s /\ s[i] \in toks
Join(t, c, d) == IF d.at = 0 THEN Fail ELSE [cmd |-> Both(t, c.cmd, d.cmd), at |-> d.at]

\* Faulty variant of Redirected: the first redirection outermost.
Redirected_Reversed(c, rs) == FoldRight(LAMBDA r, d : Redir(d, r), rs, c)

\* Each redirection is put around the ones before it.
Redirected(c, rs) == FoldLeft(LAMBDA d, r : Redir(d, r), c, rs)

RECURSIVE ParseRedirs(_, _), ParseArgs(_, _, _, _), ParseBacks(_, _)
RECURSIVE ParseLine(_, _), ParsePipe(_, _)

ParseRedirs(s, i) ==
  IF ~Peek(s, i, {"<", ">"}) THEN [rs |-> <<>>, at |-> i]
  ELSE IF ~Peek(s, i + 1, Words) THEN [rs |-> <<>>, at |-> 0]
  ELSE LET more == ParseRedirs(s, i + 2)
       IN  [rs |-> <<[fd |-> IF s[i] = "<" THEN 0 ELSE 1, file |-> s[i + 1]]>> \o more.rs, at |-> more.at]

\* The loop of parseexec.
ParseArgs(s, i, argv, rs) ==
  IF i = 0 \/ Len(argv) >= MAXARGS THEN Fail
  ELSE IF i > Len(s) \/ Peek(s, i, {"|", ")", "&", ";"})
    THEN [cmd |-> Redirected(Exec(argv), rs), at |-> i]
  ELSE IF s[i] \notin Words THEN Fail
  ELSE LET r == ParseRedirs(s, i + 1) IN ParseArgs(s, r.at, Append(argv, s[i]), rs \o r.rs)

ParseBlock(s, i) ==
  LET c == ParseLine(s, i + 1)
      r == ParseRedirs(s, c.at + 1)
  IN  IF Peek(s, c.at, {")"}) /\ r.at # 0 THEN [cmd |-> Redirected(c.cmd, r.rs), at |-> r.at] ELSE Fail

ParseExec(s, i) ==
  IF Peek(s, i, {"("}) THEN ParseBlock(s, i)
  ELSE LET r == ParseRedirs(s, i) IN ParseArgs(s, r.at, <<>>, r.rs)

ParsePipe(s, i) ==
  LET c == ParseExec(s, i) IN
  IF Peek(s, c.at, {"|"}) THEN Join("PIPE", c, ParsePipe(s, c.at + 1)) ELSE c

ParseBacks(s, c) ==
  IF Peek(s, c.at, {"&"}) THEN ParseBacks(s, [cmd |-> Back(c.cmd), at |-> c.at + 1]) ELSE c

ParseLine(s, i) ==
  LET c == ParseBacks(s, ParsePipe(s, i)) IN
  IF Peek(s, c.at, {";"}) THEN Join("LIST", c, ParseLine(s, c.at + 1)) ELSE c

ParseCmd(s) == LET c == ParseLine(s, 1) IN IF c.at = Len(s) + 1 THEN c.cmd ELSE Fail.cmd

-----------------------------------------------------------------------------
RECURSIVE Node(_, _)
Node(c, path) ==
  IF path = <<>> THEN c ELSE Node(IF Head(path) = "L" THEN c.left ELSE c.right, Tail(path))

Init ==
  /\ line \in Lines /\ mode \in {"drain", "fill"}
  /\ tree = Fail.cmd /\ fails = 0
  /\ proc = [p \in Users |->
       [at |-> IF p = 1 THEN "prompt" ELSE "free", path |-> <<>>, parent |-> 0,
        fds |-> [d \in 0..NOFILE-1 |-> IF p = 1 /\ d < 3 THEN <<"con">> ELSE <<>>]]]

Gone == {"free", "zombie", "done"}
Live == {p \in Users : proc[p].at \notin Gone}
Zombies(p) == {q \in Users : proc[q].parent = p /\ proc[q].at = "zombie"}
Cmd(p) == Node(tree, proc[p].path)
Runs(p, t) == proc[p].at = "run" /\ Cmd(p).type = t
Holds(x) == \E p \in Live : x \in {proc[p].fds[d] : d \in DOMAIN proc[p].fds}

\* open() and dup() take the lowest descriptor that is closed.
Lowest(fds) == CHOOSE d \in DOMAIN fds : fds[d] = <<>> /\ \A e \in 0..d-1 : fds[e] # <<>>
Open(fds, x) == [fds EXCEPT ![Lowest(fds)] = x]
Close(fds, S) == [d \in DOMAIN fds |-> IF d \in S THEN <<>> ELSE fds[d]]
Ends(p) == {d \in DOMAIN proc[p].fds : proc[p].fds[d] \in {<<"r", proc[p].path>>, <<"w", proc[p].path>>}}

\* exit() of p in the table t: descriptors are closed, children go to init,
\* which reaps its own.
Exited(t, p) ==
  [q \in Users |->
     IF q = p THEN [t[p] EXCEPT !.at = IF t[p].parent = 0 THEN "free" ELSE "zombie",
                                !.path = <<>>, !.fds = Close(@, DOMAIN @)]
     ELSE IF t[q].parent # p THEN t[q]
     ELSE [t[q] EXCEPT !.parent = 0, !.at = IF @ = "zombie" THEN "free" ELSE @]]

\* fork1(): a child at path, with descriptors fds, and the parent goes on as
\* self; or the panic, which is an exit.
Fork(p, path, fds, self) ==
  \/ /\ \E q \in Users :
          /\ proc[q].at = "free" /\ \A o \in 1..q-1 : proc[o].at # "free"
          /\ proc' = [proc EXCEPT ![p] = self,
                        ![q] = [at |-> "run", path |-> path, parent |-> p, fds |-> fds]]
     /\ UNCHANGED fails
  \/ /\ fails < MaxFails /\ fails' = fails + 1
     /\ proc' = Exited(proc, p)

\* wait() of p, which has a child wherever the shell calls it.
Reaped(p, self) ==
  \E q \in Zombies(p) : proc' = [proc EXCEPT ![p] = self, ![q].at = "free", ![q].parent = 0]

Me(p, at) == [proc[p] EXCEPT !.at = at]
Go(p, side) == [proc[p] EXCEPT !.at = "run", !.path = Append(@, side)]

-----------------------------------------------------------------------------
\* main(): a child parses and runs the line.
Prompt ==
  /\ proc[1].at = "prompt"
  /\ tree' = ParseCmd(line)
  /\ Fork(1, <<>>, proc[1].fds, Me(1, "wait"))
  /\ UNCHANGED <<line, mode>>

\* The next prompt.
Again ==
  /\ proc[1].at = "wait" /\ Reaped(1, Me(1, "done"))
  /\ UNCHANGED <<line, mode, tree, fails>>

\* A syntax error, or no command at all.
Nothing(p) ==
  /\ Runs(p, "SYNTAX") \/ (Runs(p, "EXEC") /\ Cmd(p).argv = <<>>)
  /\ proc' = Exited(proc, p)
  /\ UNCHANGED <<line, mode, tree, fails>>

\* exec(), which may find no such program.
RunExec(p) ==
  /\ Runs(p, "EXEC") /\ Cmd(p).argv # <<>>
  /\ proc' \in {[proc EXCEPT ![p] = Me(p, "prog")], Exited(proc, p)}
  /\ UNCHANGED <<line, mode, tree, fails>>

\* close(fd), then open(file), which may fail.
RunRedir(p) ==
  /\ Runs(p, "REDIR")
  /\ LET c == Cmd(p)
         me == [Go(p, "L") EXCEPT !.fds = Open(Close(@, {c.fd}), <<"file", c.file>>)]
     IN  proc' \in {[proc EXCEPT ![p] = me], Exited(proc, p)}
  /\ UNCHANGED <<line, mode, tree, fails>>

RunList(p) ==
  /\ Runs(p, "LIST")
  /\ Fork(p, Append(proc[p].path, "L"), proc[p].fds, Me(p, "list"))
  /\ UNCHANGED <<line, mode, tree>>

ListRight(p) ==
  /\ proc[p].at = "list" /\ Reaped(p, Go(p, "R"))
  /\ UNCHANGED <<line, mode, tree, fails>>

RunBack(p) ==
  /\ Runs(p, "BACK")
  /\ Fork(p, Append(proc[p].path, "L"), proc[p].fds, Me(p, "exit"))
  /\ UNCHANGED <<line, mode, tree>>

\* pipe(), which may fail.
RunPipe(p) ==
  /\ Runs(p, "PIPE")
  /\ \/ /\ LET path == proc[p].path
           IN  proc' = [proc EXCEPT ![p] =
                 [Me(p, "left") EXCEPT !.fds = Open(Open(@, <<"r", path>>), <<"w", path>>)]]
        /\ UNCHANGED fails
     \/ fails < MaxFails /\ fails' = fails + 1 /\ proc' = Exited(proc, p)
  /\ UNCHANGED <<line, mode, tree>>

\* Faulty variant of Plumbed: dup before close.
Plumbed_DupFirst(p, fd, end) ==
  Close(Open(proc[p].fds, <<end, proc[p].path>>), Ends(p) \cup {fd})

\* The child's close(fd), dup(end), and close of both ends.
Plumbed(p, fd, end) ==
  Close(Open(Close(proc[p].fds, {fd}), <<end, proc[p].path>>), Ends(p))

PipeLeft(p) ==
  /\ proc[p].at = "left"
  /\ Fork(p, Append(proc[p].path, "L"), Plumbed(p, 1, "w"), Me(p, "right"))
  /\ UNCHANGED <<line, mode, tree>>

\* Faulty variant of PipeRight: the parent keeps its ends.
PipeRight_KeepsEnds(p) ==
  /\ proc[p].at = "right"
  /\ Fork(p, Append(proc[p].path, "R"), Plumbed(p, 0, "r"), Me(p, "wait2"))
  /\ UNCHANGED <<line, mode, tree>>

\* The second child, then the parent closes both ends.
PipeRight(p) ==
  /\ proc[p].at = "right"
  /\ Fork(p, Append(proc[p].path, "R"), Plumbed(p, 0, "r"),
          [Me(p, "wait2") EXCEPT !.fds = Close(@, Ends(p))])
  /\ UNCHANGED <<line, mode, tree>>

\* wait(); wait().
PipeWait(p) ==
  /\ \/ proc[p].at = "wait2" /\ Reaped(p, Me(p, "wait1"))
     \/ proc[p].at = "wait1" /\ Reaped(p, Me(p, "exit"))
  /\ UNCHANGED <<line, mode, tree, fails>>

\* A program waits for the end of the pipe it reads, or is let go when nobody
\* can read what it writes.
Unblocked(p) == LET fds == proc[p].fds IN
  /\ mode = "drain" /\ fds[0] # <<>> /\ Head(fds[0]) = "r" => ~Holds(<<"w", fds[0][2]>>)
  /\ mode = "fill" /\ fds[1] # <<>> /\ Head(fds[1]) = "w" => ~Holds(<<"r", fds[1][2]>>)

Exit(p) ==
  /\ proc[p].at = "exit" \/ (proc[p].at = "prog" /\ Unblocked(p))
  /\ proc' = Exited(proc, p)
  /\ UNCHANGED <<line, mode, tree, fails>>

-----------------------------------------------------------------------------
Next ==
  \/ Prompt \/ Again
  \/ \E p \in Users : \/ Nothing(p) \/ RunExec(p) \/ RunRedir(p) \/ RunBack(p)
                      \/ RunList(p) \/ ListRight(p)
                      \/ RunPipe(p) \/ PipeLeft(p) \/ PipeRight(p) \/ PipeWait(p)
                      \/ Exit(p)

Spec == Init /\ [][Next]_vars

-----------------------------------------------------------------------------
\* The grammar by splitting: a ";" outside parentheses first, then a "&" at
\* the end, then the first "|", then the last redirection, then a block or words.
Depth(s, i) == Cardinality({j \in 1..i : s[j] = "("}) - Cardinality({j \in 1..i : s[j] = ")"})
Top(s, toks) == {i \in DOMAIN s : s[i] \in toks /\ Depth(s, i) = IF s[i] = "(" THEN 1 ELSE 0}

RECURSIVE Grammar(_)
Grammar(s) ==
  LET syntax == Fail.cmd
      before(i) == SubSeq(s, 1, i - 1)
      after(i) == SubSeq(s, i + 1, Len(s))
      both(t, i) == LET c == Grammar(before(i))
                        d == Grammar(after(i))
                    IN  IF syntax \in {c, d} THEN syntax ELSE Both(t, c, d)
      semis == Top(s, {";"})
      backs == Top(s, {"&"})
      pipes == Top(s, {"|"})
      redirs == Top(s, {"<", ">"})
      block == "(" \in Range(s)
  IN  CASE semis # {} -> both("LIST", Min(semis))
        [] semis = {} /\ backs # {} ->
             LET c == Grammar(before(Len(s)))
             IN  IF Max(backs) < Len(s) \/ c = syntax THEN syntax ELSE Back(c)
        [] semis \cup backs = {} /\ pipes # {} -> both("PIPE", Min(pipes))
        [] semis \cup backs \cup pipes = {} /\ redirs # {} ->
             LET i == Max(redirs)
                 c == Grammar(before(i) \o after(i + 1))
             IN  IF ~Peek(s, i + 1, Words) \/ Peek(s, i - 1, {"<", ">"})
                   \/ (block /\ s[1] # "(") \/ c = syntax THEN syntax
                 ELSE Redir(c, [fd |-> IF s[i] = "<" THEN 0 ELSE 1, file |-> s[i + 1]])
        [] OTHER ->
             IF block
               THEN IF s[1] = "(" /\ Top(s, {")"}) = {Len(s)} THEN Grammar(SubSeq(s, 2, Len(s) - 1)) ELSE syntax
               ELSE IF Range(s) \subseteq Words /\ Len(s) < MAXARGS THEN Exec(s) ELSE syntax

\* parsecmd builds what the grammar says: ";" binds weakest, then "&", "|" and
\* redirections, "|" and ";" group to the right, and what is left over is an error.
ParsesAsGrammar == proc[1].at = "prompt" => ParseCmd(line) = Grammar(line)

\* The descriptors a program at path should have, from those of the shell.
RECURSIVE Wanted(_, _, _)
Wanted(path, k, fds) ==
  IF k = Len(path) THEN fds
  ELSE LET here == SubSeq(path, 1, k)
           c == Node(tree, here)
       IN  Wanted(path, k + 1,
             CASE c.type = "REDIR" -> [fds EXCEPT ![c.fd] = <<"file", c.file>>]
               [] c.type = "PIPE" /\ path[k + 1] = "L" -> [fds EXCEPT ![1] = <<"w", here>>]
               [] c.type = "PIPE" /\ path[k + 1] = "R" -> [fds EXCEPT ![0] = <<"r", here>>]
               [] OTHER -> fds)

\* A program finds its standard input and output where the line says, and
\* no other descriptor: an end of a pipe left open would keep a reader waiting.
Plumbing == \A p \in Users : proc[p].at = "prog" =>
  proc[p].fds = Wanted(proc[p].path, 0, [d \in 0..NOFILE-1 |-> IF d < 3 THEN <<"con">> ELSE <<>>])

\* The nodes under n, but for what was put in the background there.
Foreground(n) == {p \in Live \ {1} :
  /\ IsPrefix(n, proc[p].path)
  /\ \A k \in Len(n)..Len(proc[p].path)-1 : Node(tree, SubSeq(proc[p].path, 1, k)).type # "BACK"}

\* The right side of ";" starts, and the prompt comes back, when the left side
\* has ended, pipelines with all of their programs; unless a fork or pipe failed.
InSequence == fails = 0 =>
  /\ proc[1].at = "done" => Foreground(<<>>) = {}
  /\ \A p \in Live : \A k \in 1..Len(proc[p].path) : LET n == SubSeq(proc[p].path, 1, k - 1) IN
       Node(tree, n).type = "LIST" /\ proc[p].path[k] = "R" => Foreground(Append(n, "L")) = {}

Waiting(p) == proc[p].at \in {"wait", "list", "wait2", "wait1"} /\ Zombies(p) = {}

\* Not everybody is left waiting for everybody.
NobodyHangs == Live # {} => \E p \in Live : ~Waiting(p) /\ (proc[p].at = "prog" => Unblocked(p))

\* The shell carries out a line to its end and in its order.
RunsToTheEnd == InSequence /\ NobodyHangs
=============================================================================
