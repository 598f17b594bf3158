----------------------------- MODULE LocalLogTailer -----------------------------
(***************************************************************************)
(* LocalLogTailer: in the connection mode "local" the panel reads the game  *)
(* server's log file and posts its new lines to its own /api/events/raw.    *)
(*                                                                         *)
(* The game server appends to the file, a byte of a line at a time, and     *)
(* starts a new file when it restarts; the tailer's thread looks at the     *)
(* size of the file and then reads it, with other writes in between.  The   *)
(* panel restarts, and its HTTP server may not answer.                      *)
(***************************************************************************)
EXTENDS Integers, Sequences, FiniteSets, FiniteSetsExt, SequencesExt

CONSTANTS
    Width,       \* bits of lastFilePos_ (64 in the code)
    PostFails,   \* can a POST fail?
    MaxLines,    \* bound: lines the game server writes
    MaxRotations,\* bound: restarts of the game server
    MaxTailerStarts \* bound: starts of the panel

ASSUME TailerAssumption ==
    /\ Width \in Nat \ {0}
    /\ PostFails \in BOOLEAN
    /\ MaxLines \in Nat /\ MaxRotations \in Nat /\ MaxTailerStarts \in Nat
    /\ 3 * MaxLines < 2^Width - 1     \* no file is as long as that

VARIABLES
    file,         \* the bytes of the log: 2n-1 and 2n for line n, then NL
    written,      \* lines the game server has begun to write
    lastFilePos,  \* lastFilePos_, an unsigned integer
    pc,           \* the tailer's thread: "off", "size", "read" or "post"
    lines,        \* the lines read and not yet posted
    posted,       \* what the panel has received: the lines of every POST
    rotations, tailerStarts

tailerVars == <<file, written, lastFilePos, pc, lines, posted, rotations, tailerStarts>>

NL == 0
npos == 2^Width - 1      \* (uint64_t)-1

TailerInit ==
    /\ file = <<>> /\ written = 0
    /\ lastFilePos = 0
    /\ pc = "off"
    /\ lines = <<>> /\ posted = <<>>
    /\ rotations = 0 /\ tailerStarts = 0

--------------------------------------------------------------------------------
(* The game server.                                                         *)

MidLine == file # <<>> /\ Last(file) # NL

\* The first half of a new line, the second half, or the end of the line.
WriteByte ==
    /\ \/ /\ ~MidLine /\ written < MaxLines
          /\ written' = written + 1
          /\ file' = Append(file, 2 * written + 1)
       \/ /\ MidLine
          /\ file' = Append(file, IF Last(file) % 2 = 1 THEN Last(file) + 1 ELSE NL)
          /\ UNCHANGED written
    /\ UNCHANGED <<lastFilePos, pc, lines, posted, rotations, tailerStarts>>

Rotate ==
    /\ rotations < MaxRotations
    /\ ~MidLine
    /\ rotations' = rotations + 1
    /\ file' = <<>>
    /\ UNCHANGED <<written, lastFilePos, pc, lines, posted, tailerStarts>>

--------------------------------------------------------------------------------
(* The tailer.                                                              *)

\* Mutant of TailerStart: the tailer reads the file from its beginning.
StartFromBeginning ==
    /\ pc = "off" /\ tailerStarts < MaxTailerStarts
    /\ tailerStarts' = tailerStarts + 1
    /\ lastFilePos' = 0
    /\ pc' = "size"
    /\ UNCHANGED <<file, written, lines, posted, rotations>>

\* startAll, start and the beginning of tailLoop: only new lines are wanted.
TailerStart ==
    /\ pc = "off" /\ tailerStarts < MaxTailerStarts
    /\ tailerStarts' = tailerStarts + 1
    /\ lastFilePos' = Len(file)
    /\ pc' = "size"
    /\ UNCHANGED <<file, written, lines, posted, rotations>>

\* stop: the loop ends before its next turn, or the process is killed.
TailerStop ==
    /\ pc # "off"
    /\ pc' = "off"
    /\ lines' = <<>>
    /\ UNCHANGED <<file, written, lastFilePos, posted, rotations, tailerStarts>>

\* readNewLines, up to file_size: is there more than was read?
CheckSize ==
    /\ pc = "size"
    /\ Len(file) > lastFilePos
    /\ pc' = "read"
    /\ UNCHANGED <<file, written, lastFilePos, lines, posted, rotations, tailerStarts>>

\* A line begins after the end of another, and goes as far as no end comes.
Begins(bytes) == {i \in DOMAIN bytes : bytes[i] # NL /\ (i > 1 => bytes[i - 1] = NL)}
Ends(bytes, i) == Max({j \in i..Len(bytes) : \A k \in i..j : bytes[k] # NL})

InOrder(S) == CHOOSE f \in [1..Cardinality(S) -> S] : \A i, j \in DOMAIN f : i < j => f[i] < f[j]

\* The lines getline makes of these bytes, the last of them possibly unfinished;
\* empty ones are left out.
Split(bytes) ==
    LET begin == InOrder(Begins(bytes))
    IN  [n \in DOMAIN begin |-> SubSeq(bytes, begin[n], Ends(bytes, begin[n]))]

\* getline stops only when it fails: tellg() is -1, then and again after
\* the seekg(), which does nothing on a failed stream.
PositionAfterRead == (-1) % 2^Width

\* readNewLines: from the old position to the end of the file as it now is.
ReadLines ==
    LET new == Split(SubSeq(file, lastFilePos + 1, Len(file))) IN
    /\ pc = "read"
    /\ lines' = new
    /\ lastFilePos' = PositionAfterRead
    /\ pc' = IF new = <<>> THEN "size" ELSE "post"
    /\ UNCHANGED <<file, written, posted, rotations, tailerStarts>>

\* postRawLines: a POST that fails is logged, and its lines are gone.
Post ==
    /\ pc = "post"
    /\ \/ posted' = posted \o lines
       \/ PostFails /\ UNCHANGED posted
    /\ lines' = <<>>
    /\ pc' = "size"
    /\ UNCHANGED <<file, written, lastFilePos, rotations, tailerStarts>>

Tailing == CheckSize \/ ReadLines \/ Post

TailerNext == WriteByte \/ Rotate \/ TailerStart \/ TailerStop \/ Tailing

TailerSpec == TailerInit /\ [][TailerNext]_tailerVars

--------------------------------------------------------------------------------
TailerTypeOK ==
    /\ file \in Seq(0..2 * MaxLines)
    /\ written \in 0..MaxLines
    /\ lastFilePos \in 0..npos
    /\ pc \in {"off", "size", "read", "post"}
    /\ lines \in Seq(Seq(1..2 * MaxLines)) /\ posted \in Seq(Seq(1..2 * MaxLines))
    /\ (lines # <<>>) = (pc = "post")

\* A line reaches the panel once: nothing the panel counts (kills, points) is
\* counted twice because the tailer or the game server was restarted.
PostedOnce ==
    \A i, j \in DOMAIN posted : i # j => ToSet(posted[i]) \cap ToSet(posted[j]) = {}

\* The lines reach the panel in the order in which the game server wrote them.
PostedInOrder ==
    \A i, j \in DOMAIN posted : i < j => Last(posted[i]) < Head(posted[j])

\* What is posted is a subsequence of the file.
PostedOnceInOrder == TailerTypeOK /\ PostedOnce /\ PostedInOrder
================================================================================
