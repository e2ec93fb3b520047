------------------------------ MODULE Console ------------------------------
(***************************************************************************)
(* The console: keys arrive in consoleintr, which edits the current line   *)
(* in a ring buffer; consoleread takes finished lines out of it.  The      *)
(* kernel of OS-Lab-4 has the plain editor; that of OS-Lab-1 adds a cursor *)
(* (^B, ^F) and a history (the arrow keys), and changes Backspace.         *)
(*                                                                         *)
(* Both run under cons.lock, so a key is a step, and so is consoleread up  *)
(* to its return or its sleep.  The screen is left out.                    *)
(***************************************************************************)
EXTENDS Integers, SequencesExt

CONSTANTS ConsoleReaders,    \* processes that read the console
          Letters,    \* what is typed besides the control keys
          MaxRead,    \* the longest request of consoleread
          INPUT_BUF,  \* bytes of input.buf (128)
          ConsoleWrap,       \* 2^32 in the code
          NCMD,       \* rows of prevcmd (10)
          MaxKeys     \* bound on the keys pressed in OS-Lab-1

Newline == "\n"
EOF == "^D"
Nul == "\\0"
Junk == "?"  \* memory outside input.buf

VARIABLES
  clab,                   \* whose kernel runs, 1 or 4
  buf, r, w, e,          \* input
  back,                  \* backStepCounter
  cmd,                   \* prevcmd: the rows one after another, as in memory
  first, last, current,  \* first_cmd, last_cmd, current_cmd
  cpc,                    \* "out", "asleep", "ready", "killed" of each reader
  want, got,             \* what its consoleread still wants, and has
  line, due,             \* ghost: the line as edited; the finished text
  erased, recalled,      \* ghost: Backspace, or an arrow, was used in OS-Lab-1
  strayed,               \* ghost: something was typed with the cursor off the line
  wild,                  \* an access outside prevcmd: nothing is known any more
  keys                   \* keys pressed in OS-Lab-1

input == <<buf, r, w, e>>
history == <<cmd, first, last, current>>
ghosts == <<line, due, erased, recalled, strayed>>
readers == <<cpc, want, got>>
consoleVars == <<clab, input, back, history, readers, ghosts, wild, keys>>

Ring(i) == i % INPUT_BUF
Distance(i, j) == (j - i) % ConsoleWrap
Known == ~(erased \/ recalled \/ strayed)

ConsoleInit ==
  /\ clab \in {1, 4}
  /\ buf = [i \in 0..INPUT_BUF-1 |-> Nul] /\ r = 0 /\ w = 0 /\ e = 0
  /\ back = 0
  /\ cmd = [i \in 0..NCMD*INPUT_BUF-1 |-> Nul]
  /\ first = 0 /\ last = 0 /\ current = 0
  /\ cpc = [p \in ConsoleReaders |-> "out"]
  /\ want = [p \in ConsoleReaders |-> 0] /\ got = [p \in ConsoleReaders |-> 0]
  /\ line = <<>> /\ due = <<>>
  /\ erased = FALSE /\ recalled = FALSE /\ strayed = FALSE
  /\ wild = FALSE /\ keys = 0

-----------------------------------------------------------------------------
\* sync_cmd, before every key of OS-Lab-1: the line so far into its row of the
\* history.  It reads input.buf without the modulus.
Row == current * INPUT_BUF
Unfinished == Distance(w, e)
Saved ==
  IF clab = 4 \/ w = e THEN cmd
  ELSE [i \in DOMAIN cmd |->
         IF i \in Row..Row + Unfinished - 1
         THEN IF w + i - Row < INPUT_BUF THEN buf[w + i - Row] ELSE Junk
         ELSE IF i = Row + Unfinished THEN Newline ELSE cmd[i]]
SavedOutside == clab = 1 /\ Row + Unfinished \notin DOMAIN cmd

Press ==
  /\ ~wild
  /\ keys' = IF clab = 1 THEN keys + 1 ELSE keys
  /\ clab = 1 => keys < MaxKeys
  /\ UNCHANGED clab

\* wakeup(&input.r)
WakeConsole == cpc' = [p \in ConsoleReaders |-> IF cpc[p] = "asleep" THEN "ready" ELSE cpc[p]]

\* Faulty variant: it goes on into finished text.
LineStart_Read == r

\* Where the erasing loop stops: at w, or behind a newline in the line.
LineStart ==
  LET nl == {k \in 1..Unfinished : buf[Ring(w + k - 1)] = Newline}
  IN  (w + IF nl = {} THEN 0 ELSE Max(nl)) % ConsoleWrap

\* ^U.  backStepCounter stays.
KillLine ==
  /\ Press
  /\ e' = LineStart
  /\ line' = <<>>
  /\ cmd' = Saved /\ wild' = SavedOutside
  /\ UNCHANGED <<buf, r, w, back, first, last, current, readers, due, erased, recalled, strayed>>

\* Backspace takes the last character back; in OS-Lab-1 it moves w instead.
Backspace ==
  /\ Press /\ e # w
  /\ IF clab = 4
     THEN /\ e' = (e - 1) % ConsoleWrap /\ line' = Front(line)
          /\ UNCHANGED <<w, due, erased>>
     ELSE /\ w' = (w - 1) % ConsoleWrap /\ erased' = TRUE
          /\ line' = <<>> /\ due' = <<>> /\ UNCHANGED e
  /\ cmd' = Saved /\ wild' = SavedOutside
  /\ UNCHANGED <<buf, r, back, first, last, current, readers, recalled, strayed>>

\* ^B and ^F move the cursor, without looking where the line begins and ends.
MoveCursor(d) ==
  /\ Press /\ clab = 1
  /\ back' = back + d
  /\ cmd' = Saved /\ wild' = SavedOutside
  /\ UNCHANGED <<input, first, last, current, readers, ghosts>>

\* Writing s into the ring from index i on.
PutText(i, s) ==
  [j \in DOMAIN buf |->
    LET ks == {k \in 1..Len(s) : Ring(i + k - 1) = j}
    IN  IF ks = {} THEN buf[j] ELSE s[Max(ks)]]

\* addCharAtIndex(input.buf, e % INPUT_BUF, e - back, c)
Inserted(c) ==
  LET i == e - back IN
  IF i \notin 0..Ring(e) THEN buf
  ELSE [j \in DOMAIN buf |->
         IF j = i THEN c ELSE IF j \in i+1..Ring(e) THEN buf[j-1] ELSE buf[j]]

AtEnd(c) == clab = 4 \/ back = 0 \/ c = Newline
OnLine == 0 < back /\ back <= Len(line) /\ w <= e /\ e < INPUT_BUF

\* The row after the last, and the oldest forgotten when the ring is full.
NewRow == IF (last + 1) % NCMD = first THEN (last + 1) % NCMD ELSE last + 1

\* Faulty variant: a full buffer is not handed over.
LineDone_NotWhenFull(c, end) == c \in {Newline, EOF}

LineDone(c, end) == c \in {Newline, EOF} \/ end = (r + INPUT_BUF) % ConsoleWrap

\* The default case: a letter, Newline or ^D.
Type(c) ==
  /\ Press /\ Distance(r, e) < INPUT_BUF
  /\ buf' = IF AtEnd(c) THEN PutText(e, <<c>>) ELSE IF back > 0 THEN Inserted(c) ELSE buf
  /\ e' = IF AtEnd(c) \/ back > 0 THEN (e + 1) % ConsoleWrap ELSE e
  /\ back' = IF AtEnd(c) THEN 0 ELSE back
  /\ strayed' = (strayed \/ (~AtEnd(c) /\ ~OnLine))
  /\ LET edited == IF ~Known \/ strayed' THEN <<>>
                   ELSE IF AtEnd(c) THEN Append(line, c)
                   ELSE InsertAt(line, Len(line) - back + 1, c)
     IN  IF LineDone(c, e')
         THEN /\ w' = e' /\ WakeConsole
              /\ line' = <<>> /\ due' = (IF strayed' THEN <<>> ELSE due \o edited)
              /\ IF clab = 1
                 THEN /\ first' = IF NewRow = first THEN (first + 1) % NCMD ELSE first
                      /\ last' = NewRow /\ current' = NewRow
                      /\ cmd' = [Saved EXCEPT ![NewRow * INPUT_BUF] = Newline]
                 ELSE UNCHANGED history
         ELSE /\ line' = edited /\ due' = (IF strayed' THEN <<>> ELSE due)
              /\ cmd' = Saved /\ UNCHANGED <<w, cpc, first, last, current>>
  /\ wild' = SavedOutside
  /\ UNCHANGED <<r, want, got, erased, recalled>>

\* Faulty variant of Older: no look at the oldest row.
Older_NoFirst == IF current = 0 THEN NCMD - 1 ELSE current - 1

\* The row that an arrow shows next; the current one when there is none.
Older ==
  IF current > first /\ last > first THEN current - 1
  ELSE IF current < first /\ last < first THEN IF current = 0 THEN NCMD - 1 ELSE current - 1
  ELSE current

Newer ==
  IF current < last /\ first < last THEN current + 1
  ELSE IF current > last /\ first > last THEN (current + 1) % NCMD
  ELSE current

\* The arrow keys: the line is erased and the row copied into the buffer, up
\* to the first newline in memory and without looking for room.
Recall(next) ==
  /\ Press /\ clab = 1
  /\ current' = next
  /\ cmd' = Saved
  /\ IF next = current
     THEN wild' = SavedOutside /\ UNCHANGED <<buf, e, line, due, recalled>>
     ELSE LET ends == {n \in 0..NCMD*INPUT_BUF - 1 - next*INPUT_BUF :
                          Saved[next*INPUT_BUF + n] = Newline}
              n == IF ends = {} THEN 0 ELSE Min(ends)
              text == [i \in 1..n |-> Saved[next*INPUT_BUF + i - 1]]
          IN  /\ buf' = PutText(LineStart, text) /\ e' = (LineStart + n) % ConsoleWrap
              /\ wild' = (SavedOutside \/ ends = {} \/ Junk \in ToSet(text))
              /\ recalled' = TRUE /\ line' = <<>> /\ due' = <<>>
  /\ UNCHANGED <<r, w, back, first, last, readers, erased, strayed>>

ArrowUp == Recall(Older)
ArrowDown == Recall(Newer)

-----------------------------------------------------------------------------
\* consoleread from its loop on, with n bytes still to go and g delivered: it
\* returns at n bytes, behind a newline or at ^D, which stays in the buffer
\* for the next call unless it comes first; else it sleeps.
ReadOn(p, n, g) ==
  LET ready == Distance(r, w)
      most == IF n < ready THEN n ELSE ready
      ends == {k \in 1..most : buf[Ring(r + k - 1)] \in {Newline, EOF}}
      k == IF ends = {} THEN most ELSE Min(ends)
      taken == IF ends # {} /\ buf[Ring(r + k - 1)] = EOF /\ g + k > 1 THEN k - 1 ELSE k
  IN  /\ r' = (r + taken) % ConsoleWrap
      /\ due' = IF Known THEN SubSeq(due, taken + 1, Len(due)) ELSE due
      /\ IF ends # {} \/ most = n
         THEN /\ cpc' = [cpc EXCEPT ![p] = "out"]
              /\ want' = [want EXCEPT ![p] = 0] /\ got' = [got EXCEPT ![p] = 0]
         ELSE /\ cpc' = [cpc EXCEPT ![p] = IF cpc[p] = "killed" THEN "out" ELSE "asleep"]
              /\ want' = [want EXCEPT ![p] = IF cpc[p] = "killed" THEN 0 ELSE n - taken]
              /\ got' = [got EXCEPT ![p] = IF cpc[p] = "killed" THEN 0 ELSE g + taken]
  /\ UNCHANGED <<clab, buf, w, e, back, history, line, erased, recalled, strayed, wild, keys>>

ConsoleRead(p, n) == cpc[p] = "out" /\ ReadOn(p, n, 0)

ReadResume(p) == cpc[p] \in {"ready", "killed"} /\ ReadOn(p, want[p], got[p])

\* kill() of a process asleep in consoleread.
KillReader(p) ==
  /\ cpc[p] = "asleep" /\ cpc' = [cpc EXCEPT ![p] = "killed"]
  /\ UNCHANGED <<clab, input, back, history, want, got, ghosts, wild, keys>>

ConsoleNext ==
  /\ ~wild
  /\ \/ KillLine \/ Backspace \/ ArrowUp \/ ArrowDown
     \/ \E d \in {1, -1} : MoveCursor(d)
     \/ \E c \in Letters \cup {Newline, EOF} : Type(c)
     \/ \E p \in ConsoleReaders : ReadResume(p) \/ KillReader(p) \/ \E n \in 1..MaxRead : ConsoleRead(p, n)

ConsoleSpec == ConsoleInit /\ [][ConsoleNext]_consoleVars

-----------------------------------------------------------------------------
Text(i, j) == [k \in 1..Distance(i, j) |-> buf[Ring(i + k - 1)]]

\* What was typed is what is read: the finished text waits in the buffer as it
\* was edited, and the line under way behind it, whatever the readers take
\* meanwhile and however the indices wrap.  In OS-Lab-1 this lasts until the
\* first Backspace or arrow, or a key with the cursor off the line; one wrap of
\* the buffer is enough to put it off, since addCharAtIndex knows of none.
LinesIntact == Known => Text(r, w) = due /\ Text(w, e) = line

\* Nobody sleeps while there is something to read.  Backspace of OS-Lab-1
\* moves w and wakes nobody.
SleepsOnEmpty == ~erased => \A p \in ConsoleReaders : cpc[p] = "asleep" => r = w

\* A full buffer can be read, so the console never refuses keys for ever.
FullIsReadable == ~erased /\ ~recalled => (Distance(r, e) >= INPUT_BUF => r # w)

\* Between the interrupt and the readers neither waits for the other.
ReaderServed == SleepsOnEmpty /\ FullIsReadable

\* The arrows stay on rows between the oldest and the newest command, through
\* the wrap of the ring; and until a recall or a Backspace lengthens the line
\* nothing is written or read outside prevcmd.
HistoryInRange ==
  /\ {first, last, current} \subseteq 0..NCMD-1
  /\ (current - first) % NCMD <= (last - first) % NCMD
  /\ wild => erased \/ recalled
=============================================================================
