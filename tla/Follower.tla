------------------------------ MODULE Follower -------------------------------
(***************************************************************************)
(* The loop that follows a log file, in its two versions: follow_file of   *)
(* agent.py, and follow_file of the older log_shipper.py, which also looks *)
(* whether the file was truncated.  The file is a sequence of pieces: a    *)
(* line is its beginning and its end, and the end has the newline.  A      *)
(* writer may write a line in two goes, truncate the file under the        *)
(* reader, or rename it and go on with a new one, all while the reader is  *)
(* between two system calls.                                               *)
(***************************************************************************)
EXTENDS Integers, Sequences, FiniteSets

CONSTANTS MaxLines,  \* bound: lines the writer writes
          MaxTurns,  \* bound: truncations and renames
          MaxRewinds,\* bound: how often the shipper goes back to the beginning
          Chunk,     \* pieces one read of the reader's buffer returns
          Blank      \* the lines with nothing but white space

ASSUME FollowerConstants ==
  /\ MaxLines \in Nat /\ MaxTurns \in Nat /\ MaxRewinds \in Nat
  /\ Chunk \in Nat \ {0} /\ Blank \subseteq Nat

VARIABLES
  program,   \* which of the two follows the file
  whence,    \* FROM_START, --from-start
  habits,    \* what the writer of the file is given to
  begun,     \* lines begun, numbered from 1
  ended,     \* lines ended
  file,      \* what the file holds that the reader opens or has open
  other,     \* what the file holds that was created at its path after a rename
  path,      \* what the path names
  turns,     \* truncations and renames so far
  pc,        \* where the reader is
  start,     \* where it began
  offset,    \* up to where the system has read the file
  buffer,    \* what was read and not yet returned by readline
  passed,    \* what was put on the queue or posted
  rewinds,   \* history: how often the shipper went back
  returned,  \* history: all that readline returned
  overtaken  \* history: the truncated file has outgrown the offset unnoticed

rigid == <<program, whence, habits>>
disk == <<begun, ended, file, other, path, turns>>
reader == <<pc, start, offset, buffer, passed, rewinds, returned>>
vars == <<rigid, disk, reader, overtaken>>

Opening(n) == [line |-> n, part |-> "opening"]
Ending(n) == [line |-> n, part |-> "ending"]
Line(n) == <<Opening(n), Ending(n)>>

Init ==
  /\ program \in {"agent", "shipper"} /\ whence \in {"start", "end"}
  /\ habits \in SUBSET {"pauses", "truncates", "renames"}
  /\ begun = 0 /\ ended = 0 /\ file = <<>> /\ other = <<>>
  /\ path \in {"same", "absent"} /\ turns = 0
  /\ pc = "opening" /\ start = 0 /\ offset = 0 /\ buffer = <<>>
  /\ passed = <<>> /\ rewinds = 0 /\ returned = <<>>
  /\ overtaken = {}

----------------------------------------------------------------------------
(* The application that writes the log, and whoever rotates it. *)

\* History: the file was truncated and is now as long as what was read of it.
Outgrows(text) == Len(file) < offset /\ Len(text) >= offset

\* Appends to the file at the path.
Write(text) ==
  \/ /\ path = "same"
     /\ file' = file \o text /\ UNCHANGED other
     /\ overtaken' = IF Outgrows(file') THEN {"yes"} ELSE overtaken
  \/ /\ path = "other"
     /\ other' = other \o text /\ UNCHANGED <<file, overtaken>>

WriteLine ==
  /\ begun = ended /\ begun < MaxLines
  /\ begun' = begun + 1 /\ ended' = ended + 1
  /\ Write(Line(begun'))
  /\ UNCHANGED <<rigid, path, turns, reader>>

WriteOpening ==
  /\ "pauses" \in habits
  /\ begun = ended /\ begun < MaxLines
  /\ begun' = begun + 1
  /\ Write(<<Opening(begun')>>)
  /\ UNCHANGED <<rigid, ended, path, turns, reader>>

WriteEnding ==
  /\ ended < begun
  /\ ended' = ended + 1
  /\ Write(<<Ending(ended')>>)
  /\ UNCHANGED <<rigid, begun, path, turns, reader>>

\* copytruncate.
Truncate ==
  /\ "truncates" \in habits /\ turns < MaxTurns
  /\ path = "same" /\ file # <<>>
  /\ file' = <<>> /\ turns' = turns + 1
  /\ UNCHANGED <<rigid, begun, ended, other, path, reader, overtaken>>

BeforeOpen == pc \in {"opening", "found"}

\* A rotation by the writer, which is between two lines: rename, then create.
\* A reader that has not opened the file will open the new one.
Rename ==
  /\ "renames" \in habits /\ turns < MaxTurns
  /\ path # "absent" /\ begun = ended
  /\ path' = "absent" /\ turns' = turns + 1
  /\ file' = IF BeforeOpen THEN <<>> ELSE file
  /\ UNCHANGED <<rigid, begun, ended, other, reader, overtaken>>
Create ==
  /\ path = "absent"
  /\ path' = IF BeforeOpen THEN "same" ELSE "other"
  /\ other' = <<>>
  /\ UNCHANGED <<rigid, begun, ended, file, turns, reader, overtaken>>

----------------------------------------------------------------------------
(* The reader. *)

\* The agent waits until the path exists.  The shipper does not.
Exists ==
  /\ program = "agent" /\ pc = "opening" /\ path = "same"
  /\ pc' = "found"
  /\ UNCHANGED <<rigid, disk, start, offset, buffer, passed, rewinds, returned, overtaken>>

CallsOpen == pc = IF program = "agent" THEN "found" ELSE "opening"

\* Mutant: the last piece is read again.
OpenBeforeEnd ==
  /\ CallsOpen /\ path = "same"
  /\ pc' = "reading"
  /\ start' = IF whence = "start" THEN 0 ELSE Len(file) - 1
  /\ offset' = start'
  /\ UNCHANGED <<rigid, disk, buffer, passed, rewinds, returned, overtaken>>

Open ==
  /\ CallsOpen /\ path = "same"
  /\ pc' = "reading"
  /\ start' = IF whence = "start" THEN 0 ELSE Len(file)
  /\ offset' = start'
  /\ UNCHANGED <<rigid, disk, buffer, passed, rewinds, returned, overtaken>>

\* FileNotFoundError ends the reader: the agent's, too, if the file is renamed
\* between its exists and its open.
OpenFails ==
  /\ CallsOpen /\ path = "absent"
  /\ pc' = "dead"
  /\ UNCHANGED <<rigid, disk, start, offset, buffer, passed, rewinds, returned, overtaken>>

EndsOf(text) == {i \in DOMAIN text : text[i].part = "ending"}
HasLine(text) == EndsOf(text) # {}
FirstEnds(text) == {i \in EndsOf(text) : \A j \in EndsOf(text) : i <= j}
IsBlank(text) == \A i \in DOMAIN text : text[i].line \in Blank
Until(position) == IF position < Len(file) THEN position ELSE Len(file)

\* if line: put it on the queue, or post it; a post that fails is printed and
\* forgotten.  In any case readline is done with the text.
Return(text) ==
  /\ returned' = returned \o text
  /\ passed' = IF IsBlank(text) THEN passed ELSE Append(passed, text)

\* readline fills its buffer as long as it holds no newline.
ReadChunk ==
  /\ pc = "reading" /\ ~HasLine(buffer) /\ offset < Len(file)
  /\ buffer' = buffer \o SubSeq(file, offset + 1, Until(offset + Chunk))
  /\ offset' = Until(offset + Chunk)
  /\ UNCHANGED <<rigid, disk, pc, start, passed, rewinds, returned, overtaken>>

\* Mutant: what else was read is thrown away.
TakeOnlyLine ==
  /\ pc = "reading"
  /\ \E end \in FirstEnds(buffer) : Return(SubSeq(buffer, 1, end))
  /\ buffer' = <<>>
  /\ UNCHANGED <<rigid, disk, pc, start, offset, rewinds, overtaken>>

\* Mutant: read, and not readline.
TakeBuffer ==
  /\ pc = "reading" /\ HasLine(buffer)
  /\ Return(buffer)
  /\ buffer' = <<>>
  /\ UNCHANGED <<rigid, disk, pc, start, offset, rewinds, overtaken>>

\* It returns the first line of it.
TakeLine ==
  /\ pc = "reading"
  /\ \E end \in FirstEnds(buffer) :
       /\ Return(SubSeq(buffer, 1, end))
       /\ buffer' = SubSeq(buffer, end + 1, Len(buffer))
  /\ UNCHANGED <<rigid, disk, pc, start, offset, rewinds, overtaken>>

\* At the end of the file it returns what there is.
TakeRest ==
  /\ pc = "reading" /\ ~HasLine(buffer) /\ offset >= Len(file) /\ buffer # <<>>
  /\ Return(buffer)
  /\ buffer' = <<>>
  /\ UNCHANGED <<rigid, disk, pc, start, offset, rewinds, overtaken>>

\* Nothing at all: the agent sleeps and goes on, the shipper looks at the size.
AtEnd ==
  /\ program = "shipper"
  /\ pc = "reading" /\ offset >= Len(file) /\ buffer = <<>>
  /\ pc' = "checking"
  /\ UNCHANGED <<rigid, disk, start, offset, buffer, passed, rewinds, returned, overtaken>>

\* getsize looks at the path and not at the open file.
SizeAtPath == IF path = "same" THEN Len(file) ELSE Len(other)
IsAtOrPast(position, size) == position >= size   \* mutant: off by one
IsNever(position, size) == FALSE                 \* mutant: as in the agent
IsPast(position, size) == position > size

Check ==
  /\ pc = "checking" /\ path # "absent"
  /\ pc' = "reading"
  /\ \/ /\ IsPast(offset, SizeAtPath) /\ rewinds < MaxRewinds
        /\ offset' = 0 /\ rewinds' = rewinds + 1
     \/ /\ ~IsPast(offset, SizeAtPath)
        /\ UNCHANGED <<offset, rewinds>>
  /\ UNCHANGED <<rigid, disk, start, buffer, passed, returned, overtaken>>

\* FileNotFoundError again.
CheckFails ==
  /\ pc = "checking" /\ path = "absent"
  /\ pc' = "dead"
  /\ UNCHANGED <<rigid, disk, start, offset, buffer, passed, rewinds, returned, overtaken>>

Writer == WriteLine \/ WriteOpening \/ WriteEnding \/ Truncate \/ Rename \/ Create
Reading ==
  Exists \/ Open \/ OpenFails \/ ReadChunk \/ TakeLine \/ TakeRest \/ AtEnd \/ Check \/ CheckFails
Next == Writer \/ Reading

Spec == Init /\ [][Next]_vars

\* The loop of the reader runs.
FairSpec == Spec /\ WF_vars(Reading)

----------------------------------------------------------------------------
(* Properties. *)

Pieces == {Opening(n) : n \in 1 .. begun} \cup {Ending(n) : n \in 1 .. ended}

TypeOK ==
  /\ program \in {"agent", "shipper"} /\ whence \in {"start", "end"}
  /\ habits \subseteq {"pauses", "truncates", "renames"}
  /\ begun \in 0 .. MaxLines /\ ended \in {begun, begun - 1} /\ ended >= 0
  /\ file \in Seq(Pieces) /\ other \in Seq(Pieces)
  /\ path \in {"same", "absent", "other"} /\ turns \in 0 .. MaxTurns
  /\ pc \in {"opening", "found", "reading", "checking", "dead"}
  /\ start \in 0 .. begun + ended /\ offset \in 0 .. begun + ended
  /\ rewinds \in 0 .. MaxRewinds
  /\ buffer \in Seq(Pieces) /\ returned \in Seq(Pieces)
  /\ passed \in Seq(Seq(Pieces)) /\ overtaken \subseteq {"yes"}

\* Unless the file is truncated under it, or the shipper compares its position
\* with the size of another file, the reader skips nothing and repeats nothing:
\* what readline returned and has still in its buffer is the file from where
\* it began, wherever a read or a pause of the writer cut the lines.
OnOneFile == "truncates" \notin habits /\ (program = "agent" \/ "renames" \notin habits)
NothingSkipped == OnOneFile => returned \o buffer = SubSeq(file, start + 1, offset)

\* A text that is not one whole line has a writer behind it that paused in the
\* line, or a truncation: no race of the reader with the writer or a rotation,
\* and no size of its buffer, makes one.
TextsAreLines ==
  habits \cap {"pauses", "truncates"} = {} =>
    \A i \in DOMAIN passed : \E n \in 1 .. ended \ Blank : passed[i] = Line(n)

\* A line is handed on twice only by the shipper and only after a rename: not
\* after a truncation, however it falls between two reads of the reader.
Includes(text, n) == \E k \in DOMAIN text : text[k] = Ending(n)
PassedOnce ==
  program = "agent" \/ "renames" \notin habits =>
    \A i, j \in DOMAIN passed, n \in 1 .. ended :
      Includes(passed[i], n) /\ Includes(passed[j], n) => i = j

\* With a writer that only appends whole lines, both loops are LineFollowing.
Pairs(text) == Len(text) \div 2
Lines == INSTANCE LineFollowing WITH
  lines <- IF habits = {} THEN Pairs(file) ELSE 0,
  cursor <- IF habits = {} /\ pc \notin {"opening", "found", "dead"} THEN Pairs(returned) + Pairs(SubSeq(file, 1, start)) ELSE -1,
  passed <- IF habits = {} THEN [i \in DOMAIN passed |-> passed[i][1].line] ELSE <<>>
FollowsLines == Lines!Spec

\* A line of the open file is handed on in the end, unless it is truncated
\* away, or the shipper looked while the path named nothing, or the reader is
\* past the end of a truncated file and does not look (the agent), looks at
\* another file, or the file outgrew its position before it looked.
InFile(n) == \E i \in DOMAIN file : file[i] = Ending(n)
Due(n) ==
  /\ pc \in {"reading", "checking"} /\ n \notin Blank
  /\ \E i \in DOMAIN file : file[i] = Ending(n) /\ (i > offset \/ offset > Len(file))
Lost(n) ==
  \/ ~InFile(n) \/ overtaken # {} \/ pc = "dead"
  \/ offset > Len(file) /\ (program = "agent" \/ path # "same")
LinesArePassed ==
  \A n \in 1 .. MaxLines :
    Due(n) ~> (Lost(n) \/ \E i \in DOMAIN passed : Includes(passed[i], n))

=============================================================================
