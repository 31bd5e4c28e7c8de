--------------------------- MODULE FollowerProofs ----------------------------
(***************************************************************************)
(* Safety of Follower for any number of lines, turns and rewinds, any size *)
(* of the reader's buffer and any blank lines: both loops skip nothing on  *)
(* one growing file, hand on whole lines when lines are written whole, and *)
(* hand on no line twice unless the file at the path is another one.       *)
(***************************************************************************)
EXTENDS Follower, SequenceTheorems, TLAPS

----------------------------------------------------------------------------
(* The inductive invariant. *)

\* Types, and where the reader can be when.
Basics ==
  /\ TypeOK
  /\ Len(file) <= begun + ended
  /\ pc \in {"opening", "found"} =>
       start = 0 /\ offset = 0 /\ buffer = <<>> /\ passed = <<>> /\ returned = <<>>
  /\ pc = "checking" => program = "shipper" /\ buffer = <<>>
  /\ pc \in {"reading", "checking"} /\ "renames" \notin habits => path = "same"

\* On one file that only grows, the reader has a part of it behind it.
Contiguous ==
  OnOneFile =>
    start <= offset /\ offset <= Len(file) /\ returned \o buffer = SubSeq(file, start + 1, offset)

\* What the reader has not read yet: all of it, once it sees the truncation.
Unread == {i \in 1 .. Len(file) : i > offset \/ offset > Len(file)}
OneTurnsOther == program = "agent" \/ "renames" \notin habits
\* An ending is in the unread part of the file, in the buffer or passed on, and
\* only once in it.
EndingsOnce ==
  OneTurnsOther =>
    /\ \A i, j \in 1 .. Len(file) : file[i] = file[j] => i = j
    /\ \A i \in Unread : (\A k \in 1 .. Len(buffer) : buffer[k] # file[i])
    /\ \A i, j \in 1 .. Len(buffer) : buffer[i] = buffer[j] => i = j
    /\ \A p \in 1 .. Len(passed) : \A k \in 1 .. Len(passed[p]) :
         /\ \A i \in Unread : passed[p][k] # file[i]
         /\ \A i \in 1 .. Len(buffer) : passed[p][k] # buffer[i]
         /\ \A q \in 1 .. Len(passed) : \A l \in 1 .. Len(passed[q]) :
              passed[p][k] = passed[q][l] => p = q

\* With a writer of whole lines that never truncates, everything is cut between
\* two lines but the end of the buffer.
Calm == habits \cap {"pauses", "truncates"} = {}
Even(n) == \E k \in Nat : n = 2 * k
OfLines(text) ==
  \A k \in Nat : 2 * k + 2 <= Len(text) =>
    \E n \in 1 .. ended : text[2 * k + 1] = Opening(n) /\ text[2 * k + 2] = Ending(n)
Aligned ==
  Calm =>
    /\ begun = ended
    /\ Even(Len(file)) /\ OfLines(file)
    /\ offset <= Len(file) /\ Len(buffer) <= offset
    /\ Even(offset - Len(buffer))
    /\ \A i \in 1 .. Len(buffer) : buffer[i] = file[offset - Len(buffer) + i]
    /\ TextsAreLines

FollowerInv == Basics /\ Contiguous /\ EndingsOnce /\ Aligned

----------------------------------------------------------------------------
(* Sequences. *)

LEMMA RangeGrows ==
  ASSUME NEW a \in Nat, NEW b \in Nat, NEW c \in Nat, NEW d \in Nat, a <= c, b <= d,
         NEW x \in 0 .. a + b
  PROVE  x \in 0 .. c + d
OBVIOUS

LEMMA NothingBetween ==
  ASSUME NEW s, NEW n \in Nat
  PROVE  SubSeq(s, n + 1, n) = <<>>
<1>1. n + 1 \in Int /\ n \in Int /\ n < n + 1
  OBVIOUS
<1> QED  BY <1>1, SubSeqEmpty

\* Sequences that agree on a part have it in common.
LEMMA SubSeqAgrees ==
  ASSUME NEW S, NEW s, NEW t, NEW a \in Nat, NEW b \in Nat,
         \A i \in a + 1 .. b : s[i] = t[i] /\ t[i] \in S
  PROVE  SubSeq(s, a + 1, b) = SubSeq(t, a + 1, b)
<1> DEFINE u == SubSeq(s, a + 1, b)
           v == SubSeq(t, a + 1, b)
<1>1. a + 1 \in Int /\ b \in Int
  OBVIOUS
<1>2. /\ u \in Seq(S) /\ Len(u) = IF a + 1 <= b THEN b - (a + 1) + 1 ELSE 0
      /\ \A i \in 1 .. b - (a + 1) + 1 : u[i] = s[(a + 1) + i - 1]
  BY <1>1, SubSeqProperties
<1>3. /\ v \in Seq(S) /\ Len(v) = IF a + 1 <= b THEN b - (a + 1) + 1 ELSE 0
      /\ \A i \in 1 .. b - (a + 1) + 1 : v[i] = t[(a + 1) + i - 1]
  BY <1>1, SubSeqProperties
<1> HIDE DEF u, v
<1>4. ASSUME NEW i \in 1 .. Len(u) PROVE u[i] = v[i]
  <2>1. i \in 1 .. b - (a + 1) + 1 /\ (a + 1) + i - 1 \in a + 1 .. b
    BY <1>2
  <2> QED  BY <1>2, <1>3, <2>1
<1>5. u = v
  BY <1>2, <1>3, <1>4, SeqEqual
<1> QED  BY <1>5 DEF u, v

----------------------------------------------------------------------------
(* What the steps do. *)

\* Pieces are told apart by their line and their part.
LEMMA PiecesDiffer ==
  ASSUME NEW m, NEW n
  PROVE  /\ Opening(m) # Ending(n)
         /\ Opening(m) = Opening(n) => m = n
         /\ Ending(m) = Ending(n) => m = n
<1>1. Opening(m).line = m /\ Opening(n).line = n /\ Ending(m).line = m /\ Ending(n).line = n
  BY DEF Opening, Ending
<1>2. Opening(m).part = "opening" /\ Ending(n).part = "ending"
  BY DEF Opening, Ending
<1> QED  BY <1>1, <1>2

LEMMA InPieces ==
  ASSUME NEW n
  PROVE  /\ Opening(n) \in Pieces <=> n \in 1 .. begun
         /\ Ending(n) \in Pieces <=> n \in 1 .. ended
BY PiecesDiffer DEF Pieces

LEMMA PiecesGrow ==
  ASSUME begun \in Nat, ended \in Nat, begun' \in Nat, ended' \in Nat,
         begun <= begun', ended <= ended'
  PROVE  Pieces \subseteq Pieces'
<1>1. 1 .. begun \subseteq 1 .. begun' /\ 1 .. ended \subseteq 1 .. ended'
  OBVIOUS
<1> QED  BY <1>1 DEF Pieces

LEMMA SeqOfSeq ==
  ASSUME NEW S, NEW T, S \subseteq T, NEW s \in Seq(Seq(S))
  PROVE  s \in Seq(Seq(T))
<1>1. Seq(S) \subseteq Seq(T)
  BY SeqMonotonic
<1> QED  BY <1>1, SeqMonotonic

\* A write appends new pieces to the file at the path.
Appends(text) ==
  /\ text \in Seq(Pieces') /\ Len(text) = (begun' + ended') - (begun + ended)
  /\ begun' \in 0 .. MaxLines /\ ended' \in {begun', begun' - 1} /\ ended' >= 0
  /\ begun <= begun' /\ ended <= ended'
  /\ \A i \in 1 .. Len(text) : text[i] \notin Pieces
  /\ \A i, j \in 1 .. Len(text) : text[i] = text[j] => i = j
  /\ Write(text)
  /\ UNCHANGED <<rigid, path, turns, reader>>

LEMMA WriteLineAppends ==
  ASSUME TypeOK, WriteLine
  PROVE  Appends(Line(begun + 1)) /\ begun' = begun + 1 /\ ended' = ended + 1 /\ begun = ended
<1> DEFINE n == begun + 1
<1>0. begun \in Nat /\ ended \in Nat /\ MaxLines \in Nat
  BY FollowerConstants DEF TypeOK
<1>1. n \in Nat /\ begun' = n /\ ended' = n /\ begun = ended /\ n <= MaxLines
  BY <1>0 DEF WriteLine
<1>2. Opening(n) \in Pieces' /\ Ending(n) \in Pieces'
  <2>1. n \in 1 .. begun' /\ n \in 1 .. ended'
    BY <1>0, <1>1
  <2> QED  BY <2>1 DEF Pieces
<1>3. Opening(n) \notin Pieces /\ Ending(n) \notin Pieces /\ Opening(n) # Ending(n)
  <2>1. n \notin 1 .. begun /\ n \notin 1 .. ended
    BY <1>0, <1>1
  <2> QED  BY <2>1, InPieces, PiecesDiffer
<1>4. Line(n) \in Seq(Pieces') /\ Len(Line(n)) = 2 /\ Line(n)[1] = Opening(n) /\ Line(n)[2] = Ending(n)
  BY <1>2 DEF Line
<1>5. Write(Line(n)) /\ UNCHANGED <<rigid, path, turns, reader>>
  BY <1>1 DEF WriteLine
<1>7. \A i, j \in 1 .. 2 : Line(n)[i] = Line(n)[j] => i = j
  BY <1>3, <1>4
<1>8. \A i \in 1 .. 2 : Line(n)[i] \notin Pieces
  BY <1>3, <1>4
<1>9. Len(Line(n)) = (begun' + ended') - (begun + ended)
  <2>1. 2 = (begun' + ended') - (begun + ended)
    BY <1>0, <1>1
  <2> QED  BY <1>4, <2>1
<1>10. begun' \in 0 .. MaxLines /\ ended' \in {begun', begun' - 1} /\ ended' >= 0 /\ begun <= begun' /\ ended <= ended'
  BY <1>0, <1>1
<1> QED  BY <1>1, <1>4, <1>5, <1>7, <1>8, <1>9, <1>10 DEF Appends

LEMMA WriteOpeningAppends ==
  ASSUME TypeOK, WriteOpening
  PROVE  Appends(<<Opening(begun + 1)>>)
<1> DEFINE n == begun + 1
<1>0. begun \in Nat /\ ended \in Nat /\ MaxLines \in Nat
  BY FollowerConstants DEF TypeOK
<1>1. n \in Nat /\ begun' = n /\ ended' = ended /\ begun = ended /\ n <= MaxLines
  BY <1>0 DEF WriteOpening
<1>2. Opening(n) \in Pieces' /\ Opening(n) \notin Pieces
  <2>1. n \in 1 .. begun' /\ n \notin 1 .. begun
    BY <1>0, <1>1
  <2>2. Opening(n) \in Pieces'
    BY <2>1 DEF Pieces
  <2> QED  BY <2>1, <2>2, InPieces
<1>3. Write(<<Opening(n)>>) /\ UNCHANGED <<rigid, path, turns, reader>>
  BY <1>1 DEF WriteOpening
<1>4. <<Opening(n)>> \in Seq(Pieces') /\ Len(<<Opening(n)>>) = 1 /\ <<Opening(n)>>[1] = Opening(n)
  BY <1>2
<1>5. 1 = (begun' + ended') - (begun + ended)
  BY <1>0, <1>1
<1>6. begun' \in 0 .. MaxLines /\ ended' \in {begun', begun' - 1} /\ ended' >= 0 /\ begun <= begun' /\ ended <= ended'
  BY <1>0, <1>1
<1> QED  BY <1>1, <1>2, <1>3, <1>4, <1>5, <1>6 DEF Appends

LEMMA WriteEndingAppends ==
  ASSUME TypeOK, WriteEnding
  PROVE  Appends(<<Ending(ended + 1)>>)
<1> DEFINE n == ended + 1
<1>0. begun \in Nat /\ ended \in Nat /\ MaxLines \in Nat
  BY FollowerConstants DEF TypeOK
<1>1. n \in Nat /\ ended' = n /\ begun' = begun /\ begun = n /\ n <= MaxLines
  BY <1>0 DEF WriteEnding, TypeOK
<1>2. Ending(n) \in Pieces' /\ Ending(n) \notin Pieces
  <2>1. n \in 1 .. ended' /\ n \notin 1 .. ended
    BY <1>0, <1>1
  <2>2. Ending(n) \in Pieces'
    BY <2>1 DEF Pieces
  <2> QED  BY <2>1, <2>2, InPieces
<1>3. Write(<<Ending(n)>>) /\ UNCHANGED <<rigid, path, turns, reader>>
  BY <1>1 DEF WriteEnding
<1>4. <<Ending(n)>> \in Seq(Pieces') /\ Len(<<Ending(n)>>) = 1 /\ <<Ending(n)>>[1] = Ending(n)
  BY <1>2
<1>5. 1 = (begun' + ended') - (begun + ended)
  BY <1>0, <1>1
<1>6. begun' \in 0 .. MaxLines /\ ended' \in {begun', begun' - 1} /\ ended' >= 0 /\ begun <= begun' /\ ended <= ended'
  BY <1>0, <1>1
<1> QED  BY <1>1, <1>2, <1>3, <1>4, <1>5, <1>6 DEF Appends

\* What a write does to the file that is open.
LEMMA AppendsToFile ==
  ASSUME Basics, NEW text, Appends(text)
  PROVE  /\ Pieces \subseteq Pieces'
         /\ file \in Seq(Pieces')
         /\ file' = file \/ file' = file \o text
         /\ file' \in Seq(Pieces') /\ Len(file) <= Len(file') /\ Len(file') <= begun' + ended'
         /\ Len(file') \in Nat /\ Len(file) \in Nat
         /\ \A i \in 1 .. Len(file) : file'[i] = file[i]
         /\ \A i \in Len(file) + 1 .. Len(file') : file'[i] \notin Pieces
         /\ \A i, j \in Len(file) + 1 .. Len(file') : file'[i] = file'[j] => i = j
         /\ other' \in Seq(Pieces')
         /\ overtaken' \subseteq {"yes"}
<1>1. Pieces \subseteq Pieces'
  BY PiecesGrow DEF Appends, Basics, TypeOK
<1>2. file \in Seq(Pieces') /\ other \in Seq(Pieces') /\ text \in Seq(Pieces')
  BY <1>1, SeqMonotonic DEF Basics, TypeOK, Appends
<1>3. /\ file \o text \in Seq(Pieces') /\ Len(file \o text) = Len(file) + Len(text)
      /\ \A i \in 1 .. Len(file) + Len(text) :
           (file \o text)[i] = IF i <= Len(file) THEN file[i] ELSE text[i - Len(file)]
      /\ other \o text \in Seq(Pieces')
  BY <1>2, ConcatProperties
<1>4. Len(file) \in Nat /\ Len(text) \in Nat
  BY <1>2, LenProperties
<1>5. file' = file \/ file' = file \o text
  BY DEF Appends, Write
<1>6. other' \in Seq(Pieces') /\ overtaken' \subseteq {"yes"}
  BY <1>2, <1>3 DEF Appends, Write, Basics, TypeOK
<1>7. /\ begun \in Nat /\ ended \in Nat /\ begun' \in Nat /\ ended' \in Nat
      /\ Len(file) <= begun + ended /\ begun <= begun' /\ ended <= ended'
      /\ Len(text) = (begun' + ended') - (begun + ended)
  BY FollowerConstants DEF Appends, Basics, TypeOK
<1>8. CASE file' = file
  <2>1. Len(file) <= begun' + ended'
    BY <1>4, <1>7
  <2> QED  BY <1>1, <1>2, <1>4, <1>6, <1>8, <2>1
<1>9. CASE file' = file \o text
  <2>1. Len(file') <= begun' + ended' /\ Len(file) <= Len(file') /\ Len(file') \in Nat
    <3>1. Len(file') = Len(file) + Len(text)
      BY <1>3, <1>9
    <3> HIDE <1>9
    <3> QED  BY <1>4, <1>7, <3>1
  <2>2. \A i \in 1 .. Len(file) : file'[i] = file[i]
    BY <1>3, <1>4, <1>9
  <2>3. ASSUME NEW i \in Len(file) + 1 .. Len(file')
        PROVE  file'[i] \notin Pieces
    <3>1. i - Len(file) \in 1 .. Len(text) /\ file'[i] = text[i - Len(file)]
      BY <1>3, <1>4, <1>9, <2>3
    <3> QED  BY <3>1 DEF Appends
  <2>4. ASSUME NEW i \in Len(file) + 1 .. Len(file'), NEW j \in Len(file) + 1 .. Len(file'),
               file'[i] = file'[j]
        PROVE  i = j
    <3>1. i - Len(file) \in 1 .. Len(text) /\ file'[i] = text[i - Len(file)]
      BY <1>3, <1>4, <1>9
    <3>2. j - Len(file) \in 1 .. Len(text) /\ file'[j] = text[j - Len(file)]
      BY <1>3, <1>4, <1>9
    <3>3. i - Len(file) = j - Len(file)
      BY <2>4, <3>1, <3>2 DEF Appends
    <3> QED  BY <1>4, <3>3
  <2> QED  BY <1>1, <1>2, <1>3, <1>4, <1>6, <1>9, <2>1, <2>2, <2>3, <2>4
<1> QED  BY <1>5, <1>8, <1>9

\* readline returns a beginning of the buffer.
Takes(text, rest) ==
  /\ pc = "reading"
  /\ text \in Seq(Pieces) /\ rest \in Seq(Pieces) /\ buffer = text \o rest
  /\ Return(text) /\ buffer' = rest
  /\ UNCHANGED <<rigid, disk, pc, start, offset, rewinds, overtaken>>

LEMMA TakeLineTakes ==
  ASSUME TypeOK, TakeLine
  PROVE  \E end \in FirstEnds(buffer) :
           end \in 1 .. Len(buffer) /\ Takes(SubSeq(buffer, 1, end), SubSeq(buffer, end + 1, Len(buffer)))
<1>1. PICK end \in FirstEnds(buffer) :
        /\ Return(SubSeq(buffer, 1, end))
        /\ buffer' = SubSeq(buffer, end + 1, Len(buffer))
  BY DEF TakeLine
<1>2. buffer \in Seq(Pieces) /\ Len(buffer) \in Nat /\ DOMAIN buffer = 1 .. Len(buffer)
      /\ \A i \in 1 .. Len(buffer) : buffer[i] \in Pieces
  BY LenProperties, ElementOfSeq DEF TypeOK
<1>3. end \in 1 .. Len(buffer)
  BY <1>2 DEF FirstEnds, EndsOf
<1>4. SubSeq(buffer, 1, end) \in Seq(Pieces)
  BY <1>2, <1>3, SubSeqProperties
<1>5. SubSeq(buffer, end + 1, Len(buffer)) \in Seq(Pieces)
  BY <1>2, <1>3, SubSeqProperties
<1>6. SubSeq(buffer, 1, end) \o SubSeq(buffer, end + 1, Len(buffer)) = SubSeq(buffer, 1, Len(buffer))
  <2>1. /\ 1 \in 1 .. Len(buffer) + 1 /\ end \in 1 - 1 .. Len(buffer)
        /\ Len(buffer) \in end .. Len(buffer)
    BY <1>2, <1>3
  <2> QED  BY <1>2, <2>1, ConcatAdjacentSubSeq
<1>7. SubSeq(buffer, 1, Len(buffer)) = buffer
  BY <1>2, SubSeqFull
<1> QED  BY <1>1, <1>3, <1>4, <1>5, <1>6, <1>7 DEF TakeLine, Takes

LEMMA TakeRestTakes ==
  ASSUME TypeOK, TakeRest
  PROVE  Takes(buffer, <<>>)
BY ConcatEmptySeq, EmptySeq DEF TakeRest, Takes, TypeOK

\* A read that fills the buffer.
Fills(more, upto) ==
  /\ pc = "reading" /\ offset \in Nat /\ Len(file) \in Nat
  /\ upto \in offset + 1 .. Len(file)
  /\ more \in Seq(Pieces) /\ more = SubSeq(file, offset + 1, upto)
  /\ Len(more) = upto - offset
  /\ \A i \in 1 .. upto - offset : more[i] = file[offset + i]
  /\ buffer' = buffer \o more /\ offset' = upto
  /\ UNCHANGED <<rigid, disk, pc, start, passed, rewinds, returned, overtaken>>

LEMMA ReadChunkFills ==
  ASSUME TypeOK, ReadChunk
  PROVE  LET upto == Until(offset + Chunk) IN Fills(SubSeq(file, offset + 1, upto), upto)
<1> DEFINE upto == Until(offset + Chunk)
<1>1. file \in Seq(Pieces) /\ Len(file) \in Nat /\ \A i \in 1 .. Len(file) : file[i] \in Pieces
  BY LenProperties, ElementOfSeq DEF TypeOK
<1>2. offset \in Nat /\ offset < Len(file)
  BY DEF TypeOK, ReadChunk
<1>3. upto \in offset + 1 .. Len(file)
  BY <1>1, <1>2, FollowerConstants DEF Until
<1> HIDE DEF upto
<1>4. \A i \in offset + 1 .. upto : file[i] \in Pieces
  BY <1>1, <1>2, <1>3
<1>5. /\ SubSeq(file, offset + 1, upto) \in Seq(Pieces)
      /\ Len(SubSeq(file, offset + 1, upto)) = IF offset + 1 <= upto THEN upto - (offset + 1) + 1 ELSE 0
      /\ \A i \in 1 .. upto - (offset + 1) + 1 : SubSeq(file, offset + 1, upto)[i] = file[(offset + 1) + i - 1]
  BY <1>2, <1>3, <1>4, SubSeqProperties
<1>6. Len(SubSeq(file, offset + 1, upto)) = upto - offset
  BY <1>1, <1>2, <1>3, <1>5
<1>7. ASSUME NEW i \in 1 .. upto - offset
      PROVE  SubSeq(file, offset + 1, upto)[i] = file[offset + i]
  <2>1. i \in 1 .. upto - (offset + 1) + 1 /\ (offset + 1) + i - 1 = offset + i
    BY <1>1, <1>2, <1>3
  <2> QED  BY <1>5, <2>1
<1>8. /\ pc = "reading" /\ buffer' = buffer \o SubSeq(file, offset + 1, upto) /\ offset' = upto
      /\ UNCHANGED <<rigid, disk, pc, start, passed, rewinds, returned, overtaken>>
  BY DEF ReadChunk, upto
<1>9. Fills(SubSeq(file, offset + 1, upto), upto)
  BY <1>1, <1>2, <1>3, <1>5, <1>6, <1>7, <1>8 DEF Fills
<1> QED  BY <1>9 DEF upto

\* The steps there are, by what they do.
LEMMA Steps ==
  ASSUME Basics, Next
  PROVE  \/ \E text : Appends(text)
         \/ Truncate \/ Rename \/ Create
         \/ Exists \/ Open \/ OpenFails \/ AtEnd \/ Check \/ CheckFails
         \/ \E more, upto : Fills(more, upto)
         \/ \E text, rest : Takes(text, rest)
<1>1. TypeOK
  BY DEF Basics
<1>2. WriteLine \/ WriteOpening \/ WriteEnding => \E text : Appends(text)
  BY <1>1, WriteLineAppends, WriteOpeningAppends, WriteEndingAppends
<1>3. TakeLine \/ TakeRest => \E text, rest : Takes(text, rest)
  BY <1>1, TakeLineTakes, TakeRestTakes
<1>4. ReadChunk => \E more, upto : Fills(more, upto)
  BY <1>1, ReadChunkFills
<1> QED  BY <1>2, <1>3, <1>4 DEF Next, Writer, Reading

----------------------------------------------------------------------------
(* The invariant, part by part. *)

LEMMA BasicsInit == Init => Basics
<1> SUFFICES ASSUME Init PROVE Basics
  OBVIOUS
<1>1. /\ <<>> \in Seq(Pieces) /\ <<>> \in Seq(Seq(Pieces)) /\ Len(<<>>) = 0
  BY EmptySeq
<1>2. TypeOK
  BY <1>1, FollowerConstants DEF Init, TypeOK
<1> QED  BY <1>1, <1>2 DEF Init, Basics

LEMMA BasicsStep ==
  ASSUME Basics, [Next]_vars
  PROVE  Basics'
<1> USE FollowerConstants DEF rigid, disk, reader
<1>1. ASSUME NEW text, Appends(text) PROVE Basics'
  <2>1. /\ Pieces \subseteq Pieces' /\ file' \in Seq(Pieces') /\ other' \in Seq(Pieces')
        /\ Len(file') <= begun' + ended' /\ overtaken' \subseteq {"yes"}
    BY <1>1, AppendsToFile
  <2>2. /\ begun' \in 0 .. MaxLines /\ ended' \in {begun', begun' - 1} /\ ended' >= 0
        /\ begun <= begun' /\ ended <= ended' /\ begun \in Nat /\ ended \in Nat
        /\ UNCHANGED <<program, whence, habits, path, turns, pc, start, offset, buffer, passed, rewinds, returned>>
    <3>1. UNCHANGED <<rigid, path, turns, reader>>
      BY <1>1 DEF Appends
    <3>2. begun \in Nat /\ ended \in Nat
      BY DEF Basics, TypeOK
    <3>3. /\ begun' \in 0 .. MaxLines /\ ended' \in {begun', begun' - 1} /\ ended' >= 0
          /\ begun <= begun' /\ ended <= ended'
      BY <1>1 DEF Appends
    <3> QED  BY <3>1, <3>2, <3>3
  <2>3. buffer' \in Seq(Pieces') /\ returned' \in Seq(Pieces') /\ passed' \in Seq(Seq(Pieces'))
    BY <2>1, <2>2, SeqMonotonic, SeqOfSeq DEF Basics, TypeOK
  <2>4. start' \in 0 .. begun' + ended' /\ offset' \in 0 .. begun' + ended'
    <3>1. start \in 0 .. begun + ended /\ offset \in 0 .. begun + ended
      BY DEF Basics, TypeOK
    <3>2. begun' \in Nat /\ ended' \in Nat
      BY <2>2, FollowerConstants
    <3>3. UNCHANGED <<start, offset>> /\ begun <= begun' /\ ended <= ended' /\ begun \in Nat /\ ended \in Nat
      BY <2>2
    <3> QED  BY <3>1, <3>2, <3>3, RangeGrows
  <2>5. TypeOK'
    BY <2>1, <2>2, <2>3, <2>4 DEF Basics, TypeOK
  <2> QED  BY <2>1, <2>2, <2>5 DEF Basics
\* Lines as they were: the pieces are the same.
<1>2. UNCHANGED <<begun, ended>> => Pieces' = Pieces
  BY DEF Pieces
<1>3. /\ file \in Seq(Pieces) /\ Len(file) \in Nat /\ begun \in Nat /\ ended \in Nat
      /\ <<>> \in Seq(Pieces) /\ Len(<<>>) = 0
  BY LenProperties, EmptySeq DEF Basics, TypeOK
<1>t. turns + 1 \in Int /\ (turns < MaxTurns => turns + 1 \in 0 .. MaxTurns)
  BY DEF Basics, TypeOK
<1>r. rewinds < MaxRewinds => rewinds + 1 \in 0 .. MaxRewinds
  BY DEF Basics, TypeOK
<1>4. CASE Truncate
  <2>1. Pieces' = Pieces /\ file' = <<>> /\ turns' \in 0 .. MaxTurns
    BY <1>2, <1>4, <1>t DEF Truncate
  <2>2. TypeOK'
    BY <1>3, <1>4, <2>1 DEF Truncate, Basics, TypeOK
  <2> QED  BY <1>3, <1>4, <2>1, <2>2 DEF Truncate, Basics
<1>5. CASE Rename
  <2>1. Pieces' = Pieces /\ turns' \in 0 .. MaxTurns /\ file' \in {file, <<>>}
    BY <1>2, <1>5, <1>t DEF Rename
  <2>2. TypeOK'
    BY <1>3, <1>5, <2>1 DEF Rename, Basics, TypeOK
  <2> QED  BY <1>3, <1>5, <2>1, <2>2 DEF Rename, Basics
<1>6. CASE Create
  <2>1. Pieces' = Pieces
    BY <1>2, <1>6 DEF Create
  <2>2. TypeOK'
    BY <1>3, <1>6, <2>1 DEF Create, Basics, TypeOK
  <2> QED  BY <1>6, <2>2 DEF Create, Basics
<1>7. CASE Open
  <2>1. Pieces' = Pieces /\ start' \in 0 .. begun + ended
    BY <1>2, <1>3, <1>7 DEF Open, CallsOpen, Basics
  <2>2. TypeOK'
    BY <1>7, <2>1 DEF Open, CallsOpen, Basics, TypeOK
  <2> QED  BY <1>7, <2>2 DEF Open, CallsOpen, Basics
<1>8. CASE Exists \/ OpenFails \/ CheckFails
  <2>1. Pieces' = Pieces
    BY <1>2, <1>8 DEF Exists, OpenFails, CheckFails
  <2>2. TypeOK'
    BY <1>8, <2>1 DEF Exists, OpenFails, CheckFails, Basics, TypeOK
  <2> QED  BY <1>8, <2>2 DEF Exists, OpenFails, CheckFails, Basics
<1>9. CASE AtEnd
  <2>1. Pieces' = Pieces
    BY <1>2, <1>9 DEF AtEnd
  <2>2. TypeOK'
    BY <1>9, <2>1 DEF AtEnd, Basics, TypeOK
  <2> QED  BY <1>9, <2>2 DEF AtEnd, Basics
<1>10. CASE Check
  <2>1. Pieces' = Pieces /\ rewinds' \in 0 .. MaxRewinds /\ offset' \in 0 .. begun + ended
    BY <1>2, <1>3, <1>10, <1>r DEF Check, Basics, TypeOK
  <2>2. TypeOK'
    BY <1>10, <2>1 DEF Check, Basics, TypeOK
  <2> QED  BY <1>10, <2>2 DEF Check, Basics
<1>11. ASSUME NEW more, NEW upto, Fills(more, upto) PROVE Basics'
  <2>1. Pieces' = Pieces /\ offset' \in 0 .. begun + ended
    BY <1>2, <1>3, <1>11 DEF Fills, Basics
  <2>2. buffer' \in Seq(Pieces)
    BY <1>11, ConcatProperties DEF Fills, Basics, TypeOK
  <2>3. TypeOK'
    BY <1>11, <2>1, <2>2 DEF Fills, Basics, TypeOK
  <2> QED  BY <1>11, <2>3 DEF Fills, Basics
<1>12. ASSUME NEW text, NEW rest, Takes(text, rest) PROVE Basics'
  <2>1. Pieces' = Pieces
    BY <1>2, <1>12 DEF Takes
  <2>2. returned' \in Seq(Pieces) /\ passed' \in Seq(Seq(Pieces)) /\ buffer' \in Seq(Pieces)
    BY <1>12, ConcatProperties, AppendProperties DEF Takes, Return, Basics, TypeOK
  <2>3. TypeOK'
    BY <1>12, <2>1, <2>2 DEF Takes, Basics, TypeOK
  <2> QED  BY <1>12, <2>3 DEF Takes, Basics
<1>13. CASE UNCHANGED vars
  <2>1. Pieces' = Pieces
    BY <1>2, <1>13 DEF vars
  <2> QED  BY <1>13, <2>1 DEF vars, Basics, TypeOK
<1> QED
  BY <1>1, <1>4, <1>5, <1>6, <1>7, <1>8, <1>9, <1>10, <1>11, <1>12, <1>13, Steps

LEMMA ContiguousInit == Init => Contiguous
<1> SUFFICES ASSUME Init PROVE Contiguous
  OBVIOUS
<1>1. <<>> \o <<>> = <<>> /\ SubSeq(<<>>, 1, 0) = <<>> /\ Len(<<>>) = 0
  BY ConcatEmptySeq, EmptySeq, SubSeqEmpty
<1> QED  BY <1>1 DEF Init, Contiguous

LEMMA ContiguousStep ==
  ASSUME Basics, Contiguous, [Next]_vars
  PROVE  Contiguous'
<1> USE DEF rigid, disk, reader
<1>0. /\ file \in Seq(Pieces) /\ Len(file) \in Nat /\ start \in Nat /\ offset \in Nat
      /\ buffer \in Seq(Pieces) /\ returned \in Seq(Pieces)
  BY LenProperties DEF Basics, TypeOK
<1>1. OnOneFile' => OnOneFile
  BY Steps DEF vars, Appends, Truncate, Rename, Create, Exists, Open, OpenFails, AtEnd, Check,
     CheckFails, Fills, Takes, OnOneFile
<1> SUFFICES ASSUME OnOneFile
             PROVE  /\ start' <= offset' /\ offset' <= Len(file')
                    /\ returned' \o buffer' = SubSeq(file', start' + 1, offset')
  BY <1>1 DEF Contiguous
<1>2. start <= offset /\ offset <= Len(file) /\ returned \o buffer = SubSeq(file, start + 1, offset)
  BY DEF Contiguous
<1> DEFINE Goal == /\ start' <= offset' /\ offset' <= Len(file')
                   /\ returned' \o buffer' = SubSeq(file', start' + 1, offset')
<1>3. ASSUME NEW text, Appends(text) PROVE Goal
  <2>1. /\ file' \in Seq(Pieces') /\ file \in Seq(Pieces') /\ Len(file) <= Len(file') /\ Len(file') \in Nat
        /\ \A i \in 1 .. Len(file) : file'[i] = file[i]
    BY <1>3, AppendsToFile
  <2>2. UNCHANGED <<start, offset, buffer, returned>>
    BY <1>3 DEF Appends
  <2>3. \A i \in start + 1 .. offset : file'[i] = file[i] /\ file[i] \in Pieces'
    BY <1>0, <1>2, <2>1, ElementOfSeq
  <2>4. SubSeq(file', start + 1, offset) = SubSeq(file, start + 1, offset)
    BY <1>0, <2>3, SubSeqAgrees
  <2>5. offset <= Len(file')
    BY <1>0, <1>2, <2>1
  <2> QED  BY <1>2, <2>2, <2>4, <2>5
<1>4. CASE Truncate
  BY <1>4 DEF Truncate, OnOneFile
<1>5. CASE Create \/ Exists \/ OpenFails \/ AtEnd \/ CheckFails \/ UNCHANGED vars
  BY <1>2, <1>5 DEF Create, Exists, OpenFails, AtEnd, CheckFails, vars
<1>r. CASE Rename
  <2>1. UNCHANGED <<start, offset, buffer, returned>> /\ (BeforeOpen \/ file' = file)
    BY <1>r DEF Rename
  <2>2. CASE BeforeOpen
    <3>1. file' = <<>> /\ start = 0 /\ offset = 0 /\ buffer = <<>> /\ returned = <<>>
      BY <1>r, <2>2 DEF Rename, BeforeOpen, Basics
    <3>2. <<>> \o <<>> = <<>> /\ SubSeq(<<>>, 1, 0) = <<>> /\ Len(<<>>) = 0
      BY ConcatEmptySeq, EmptySeq, SubSeqEmpty
    <3> QED  BY <2>1, <3>1, <3>2
  <2> QED  BY <1>2, <2>1, <2>2
<1>6. CASE Open
  <2>1. /\ buffer' = <<>> /\ returned' = <<>> /\ file' = file
        /\ start' = offset' /\ start' \in {0, Len(file)}
    BY <1>6 DEF Open, CallsOpen, Basics
  <2>2. <<>> \o <<>> = <<>>
    BY ConcatEmptySeq, EmptySeq
  <2>3. start' \in Nat /\ offset' = start' /\ offset' <= Len(file)
    BY <1>0, <2>1
  <2>4. SubSeq(file, start' + 1, offset') = <<>>
    BY <2>3, NothingBetween
  <2> QED  BY <2>1, <2>2, <2>3, <2>4
<1>7. CASE Check
  <2>1. path = "same" /\ SizeAtPath = Len(file)
    BY <1>7 DEF Check, Basics, OnOneFile, SizeAtPath
  <2>2. ~IsPast(offset, SizeAtPath)
    BY <1>0, <1>2, <2>1 DEF IsPast
  <2> QED  BY <1>2, <1>7, <2>2 DEF Check
<1>8. ASSUME NEW more, NEW upto, Fills(more, upto) PROVE Goal
  <2>1. /\ upto \in offset + 1 .. Len(file) /\ more \in Seq(Pieces)
        /\ more = SubSeq(file, offset + 1, upto)
        /\ buffer' = buffer \o more /\ offset' = upto
        /\ UNCHANGED <<file, start, returned>>
    BY <1>8 DEF Fills
  <2>2. (returned \o buffer) \o more = returned \o (buffer \o more)
    <3>1. returned \in Seq(Pieces) /\ buffer \in Seq(Pieces) /\ more \in Seq(Pieces)
      BY <1>0, <2>1
    <3> QED  BY <3>1, ConcatAssociative
  <2>3. SubSeq(file, start + 1, offset) \o SubSeq(file, offset + 1, upto) = SubSeq(file, start + 1, upto)
    <3>1. /\ start + 1 \in 1 .. Len(file) + 1 /\ offset \in (start + 1) - 1 .. Len(file)
          /\ upto \in offset .. Len(file)
      BY <1>0, <1>2, <2>1
    <3> QED  BY <1>0, <3>1, ConcatAdjacentSubSeq
  <2>4. start' <= offset' /\ offset' <= Len(file')
    BY <1>0, <1>2, <2>1
  <2>5. returned' \o buffer' = SubSeq(file', start' + 1, offset')
    BY <1>2, <2>1, <2>2, <2>3
  <2> QED  BY <2>4, <2>5
<1>9. ASSUME NEW text, NEW rest, Takes(text, rest) PROVE Goal
  <2>1. /\ text \in Seq(Pieces) /\ rest \in Seq(Pieces) /\ buffer = text \o rest
        /\ returned' = returned \o text /\ buffer' = rest
        /\ UNCHANGED <<file, start, offset>>
    BY <1>9 DEF Takes, Return
  <2>2. (returned \o text) \o rest = returned \o (text \o rest)
    BY <1>0, <2>1, ConcatAssociative
  <2> QED  BY <1>2, <2>1, <2>2
<1> QED  BY <1>3, <1>4, <1>5, <1>6, <1>7, <1>8, <1>9, <1>r, Steps

LEMMA EndingsInit == Init => EndingsOnce
<1> SUFFICES ASSUME Init PROVE EndingsOnce
  OBVIOUS
<1>1. Len(<<>>) = 0
  BY EmptySeq
<1> QED  BY <1>1 DEF Init, EndingsOnce, Unread

\* Nothing but pieces is held anywhere.
LEMMA Elements ==
  ASSUME Basics
  PROVE  /\ Len(file) \in Nat /\ Len(buffer) \in Nat /\ Len(passed) \in Nat /\ offset \in Nat
         /\ \A i \in 1 .. Len(file) : file[i] \in Pieces
         /\ \A k \in 1 .. Len(buffer) : buffer[k] \in Pieces
         /\ \A p \in 1 .. Len(passed) : \A k \in 1 .. Len(passed[p]) : passed[p][k] \in Pieces
<1>1. file \in Seq(Pieces) /\ buffer \in Seq(Pieces) /\ passed \in Seq(Seq(Pieces)) /\ offset \in Nat
  BY DEF Basics, TypeOK
<1>2. \A p \in 1 .. Len(passed) : passed[p] \in Seq(Pieces)
  BY <1>1, ElementOfSeq
<1> QED  BY <1>1, <1>2, ElementOfSeq, LenProperties

LEMMA EndingsStep ==
  ASSUME Basics, EndingsOnce, [Next]_vars
  PROVE  EndingsOnce'
<1> USE DEF rigid, disk, reader
<1>0. OneTurnsOther' => OneTurnsOther
  BY Steps DEF vars, Appends, Truncate, Rename, Create, Exists, Open, OpenFails, AtEnd, Check,
     CheckFails, Fills, Takes, OneTurnsOther
<1> DEFINE FileOnce == \A i, j \in 1 .. Len(file) : file[i] = file[j] => i = j
           UnreadNew == \A i \in Unread : \A k \in 1 .. Len(buffer) : buffer[k] # file[i]
           BufferOnce == \A i, j \in 1 .. Len(buffer) : buffer[i] = buffer[j] => i = j
           PassedNew == \A p \in 1 .. Len(passed) : \A k \in 1 .. Len(passed[p]) :
                          /\ \A i \in Unread : passed[p][k] # file[i]
                          /\ \A i \in 1 .. Len(buffer) : passed[p][k] # buffer[i]
           PassedOnceOnly ==
             \A p, q \in 1 .. Len(passed) :
               \A k \in 1 .. Len(passed[p]) : \A l \in 1 .. Len(passed[q]) :
                 passed[p][k] = passed[q][l] => p = q
           All == FileOnce /\ UnreadNew /\ BufferOnce /\ PassedNew /\ PassedOnceOnly
<1> SUFFICES ASSUME OneTurnsOther PROVE All'
  BY <1>0 DEF EndingsOnce
<1>1. FileOnce /\ UnreadNew /\ BufferOnce /\ PassedNew /\ PassedOnceOnly
  BY DEF EndingsOnce
<1>2. /\ Len(file) \in Nat /\ Len(buffer) \in Nat /\ Len(passed) \in Nat /\ offset \in Nat
      /\ \A i \in 1 .. Len(file) : file[i] \in Pieces
      /\ \A k \in 1 .. Len(buffer) : buffer[k] \in Pieces
      /\ \A p \in 1 .. Len(passed) : \A k \in 1 .. Len(passed[p]) : passed[p][k] \in Pieces
  BY Elements
\* Nothing is handed on and the unread part of the file shrinks.
<1>3. ASSUME UNCHANGED <<file, buffer, passed>>, Unread' \subseteq Unread
      PROVE  All'
  <2>1. FileOnce'
    BY <1>1, <1>3
  <2>2. UnreadNew'
    BY <1>1, <1>3
  <2>3. BufferOnce'
    BY <1>1, <1>3
  <2>4. PassedNew'
    BY <1>1, <1>3
  <2>5. PassedOnceOnly'
    BY <1>1, <1>3
  <2> QED  BY <2>1, <2>2, <2>3, <2>4, <2>5
<1>4. ASSUME NEW text, Appends(text) PROVE All'
  <2>1. /\ Len(file) <= Len(file') /\ Len(file') \in Nat
        /\ \A i \in 1 .. Len(file) : file'[i] = file[i]
        /\ \A i \in Len(file) + 1 .. Len(file') : file'[i] \notin Pieces
        /\ \A i, j \in Len(file) + 1 .. Len(file') : file'[i] = file'[j] => i = j
    BY <1>4, AppendsToFile
  <2>2. UNCHANGED <<offset, buffer, passed>>
    BY <1>4 DEF Appends
  <2>3. ASSUME NEW i \in 1 .. Len(file')
        PROVE  i \in 1 .. Len(file) \/ i \in Len(file) + 1 .. Len(file')
    BY <1>2, <2>1
  <2>4. FileOnce'
    BY <1>1, <1>2, <2>1, <2>3
  <2>5. ASSUME NEW i \in Unread'
        PROVE  (i \in Unread /\ file'[i] = file[i]) \/ file'[i] \notin Pieces
    BY <1>2, <2>1, <2>2, <2>3 DEF Unread
  <2> HIDE DEF Unread
  <2>6. UnreadNew'
    BY <1>1, <1>2, <2>2, <2>5
  <2>7. PassedNew'
    <3> SUFFICES ASSUME NEW p \in 1 .. Len(passed), NEW k \in 1 .. Len(passed[p])
                 PROVE  /\ \A i \in Unread' : passed[p][k] # file'[i]
                        /\ \A i \in 1 .. Len(buffer) : passed[p][k] # buffer[i]
      BY <2>2
    <3>1. passed[p][k] \in Pieces
      BY <1>2
    <3> QED  BY <1>1, <2>5, <3>1
  <2>8. BufferOnce' /\ PassedOnceOnly'
    BY <1>1, <2>2
  <2> QED  BY <2>4, <2>6, <2>7, <2>8
<1>5. CASE Truncate
  <2>1. Len(file') = 0 /\ UNCHANGED <<buffer, passed>>
    BY <1>5, EmptySeq DEF Truncate
  <2>2. Unread' = {}
    BY <2>1 DEF Unread
  <2> QED  BY <1>1, <2>1, <2>2
<1>6. CASE Create \/ Exists \/ OpenFails \/ AtEnd \/ CheckFails \/ UNCHANGED vars
  BY <1>3, <1>6 DEF Create, Exists, OpenFails, AtEnd, CheckFails, vars, Unread
<1>r. CASE Rename
  <2>1. UNCHANGED <<offset, buffer, passed>> /\ (file' = <<>> \/ file' = file)
    BY <1>r DEF Rename
  <2>2. CASE file' = <<>>
    <3>1. Len(file') = 0
      BY <2>2, EmptySeq
    <3>2. Unread' = {}
      BY <3>1 DEF Unread
    <3> QED  BY <1>1, <2>1, <3>1, <3>2
  <2>3. CASE file' = file
    BY <1>3, <2>1, <2>3 DEF Unread
  <2> QED  BY <2>1, <2>2, <2>3
<1>7. CASE Open
  <2>1. buffer' = <<>> /\ passed' = <<>> /\ file' = file /\ Len(<<>>) = 0
    BY <1>7, EmptySeq DEF Open, CallsOpen, Basics
  <2> QED  BY <1>1, <2>1
<1>8. CASE Check
  <2>1. SizeAtPath = Len(file)
    BY <1>8 DEF Check, Basics, OneTurnsOther, SizeAtPath
  <2>2. offset' = offset \/ offset > Len(file)
    BY <1>8, <2>1 DEF Check, IsPast
  <2>3. UNCHANGED <<file, buffer, passed>>
    BY <1>8 DEF Check
  <2>4. Unread' \subseteq Unread
    BY <2>2, <2>3 DEF Unread
  <2> QED  BY <1>3, <2>3, <2>4
<1>9. ASSUME NEW more, NEW upto, Fills(more, upto) PROVE All'
  <2>1. /\ upto \in offset + 1 .. Len(file) /\ more \in Seq(Pieces) /\ Len(more) = upto - offset
        /\ \A i \in 1 .. upto - offset : more[i] = file[offset + i]
        /\ buffer' = buffer \o more /\ offset' = upto /\ UNCHANGED <<file, passed>>
    BY <1>9 DEF Fills
  <2>2. /\ Len(buffer') = Len(buffer) + Len(more)
        /\ \A i \in 1 .. Len(buffer) + Len(more) :
             buffer'[i] = IF i <= Len(buffer) THEN buffer[i] ELSE more[i - Len(buffer)]
    <3>1. buffer \in Seq(Pieces)
      BY DEF Basics, TypeOK
    <3> QED  BY <2>1, <3>1, ConcatProperties
  <2>3. Unread' \subseteq Unread
    BY <1>2, <2>1 DEF Unread
  \* A piece of the new buffer is of the old one, or was unread.
  <2>4. ASSUME NEW i \in 1 .. Len(buffer')
        PROVE  \/ i \in 1 .. Len(buffer) /\ buffer'[i] = buffer[i]
               \/ /\ i > Len(buffer) /\ buffer'[i] = file[offset + (i - Len(buffer))]
                  /\ offset + (i - Len(buffer)) \in Unread
                  /\ offset + (i - Len(buffer)) \notin Unread'
    <3>1. CASE i <= Len(buffer)
      BY <1>2, <2>1, <2>2, <3>1
    <3>2. CASE i > Len(buffer)
      <4> DEFINE at == i - Len(buffer)
      <4>1. at \in 1 .. upto - offset /\ i \in 1 .. Len(buffer) + Len(more)
        BY <1>2, <2>1, <2>2, <3>2
      <4>2. buffer'[i] = more[at]
        BY <1>2, <2>2, <3>2, <4>1
      <4>3. offset + at \in 1 .. Len(file) /\ offset + at > offset /\ offset + at <= upto /\ upto <= Len(file)
        BY <1>2, <2>1, <4>1
      <4>4. offset + at \in Unread /\ offset + at \notin Unread'
        BY <1>2, <2>1, <4>3 DEF Unread
      <4> QED  BY <2>1, <3>2, <4>1, <4>2, <4>4
    <3> QED  BY <1>2, <2>2, <3>1, <3>2
  <2>5. UnreadNew'
    <3>1. Unread \subseteq 1 .. Len(file)
      BY DEF Unread
    <3> SUFFICES ASSUME NEW i \in Unread', NEW k \in 1 .. Len(buffer'), buffer'[k] = file[i]
                 PROVE  FALSE
      BY <2>1
    <3>2. i \in Unread /\ i \in 1 .. Len(file)
      BY <2>3, <3>1
    <3>3. CASE k \in 1 .. Len(buffer) /\ buffer'[k] = buffer[k]
      BY <1>1, <3>2, <3>3
    <3>4. CASE /\ buffer'[k] = file[offset + (k - Len(buffer))]
               /\ offset + (k - Len(buffer)) \in Unread
               /\ offset + (k - Len(buffer)) \notin Unread'
      <4>1. i = offset + (k - Len(buffer))
        BY <1>1, <3>1, <3>2, <3>4
      <4> QED  BY <3>4, <4>1
    <3> QED  BY <2>4, <3>3, <3>4
  <2>6. BufferOnce'
    <3> SUFFICES ASSUME NEW i \in 1 .. Len(buffer'), NEW j \in 1 .. Len(buffer'), buffer'[i] = buffer'[j]
                 PROVE  i = j
      OBVIOUS
    <3>1. Unread \subseteq 1 .. Len(file)
      BY DEF Unread
    <3>2. CASE i \in 1 .. Len(buffer) /\ j \in 1 .. Len(buffer)
      BY <1>1, <1>2, <2>4, <3>2
    <3>3. CASE i > Len(buffer) /\ j > Len(buffer)
      <4>1. offset + (i - Len(buffer)) = offset + (j - Len(buffer))
        BY <1>1, <1>2, <2>4, <3>1, <3>3
      <4> QED  BY <1>2, <4>1
    <3>4. CASE i \in 1 .. Len(buffer) /\ j > Len(buffer)
      BY <1>1, <1>2, <2>4, <3>4
    <3>5. CASE i > Len(buffer) /\ j \in 1 .. Len(buffer)
      BY <1>1, <1>2, <2>4, <3>5
    <3> QED  BY <1>2, <3>2, <3>3, <3>4, <3>5
  <2>7. PassedNew'
    <3> SUFFICES ASSUME NEW p \in 1 .. Len(passed), NEW k \in 1 .. Len(passed[p])
                 PROVE  /\ \A i \in Unread' : passed[p][k] # file[i]
                        /\ \A i \in 1 .. Len(buffer') : passed[p][k] # buffer'[i]
      BY <2>1
    <3>1. /\ \A i \in Unread : passed[p][k] # file[i]
          /\ \A i \in 1 .. Len(buffer) : passed[p][k] # buffer[i]
      BY <1>1
    <3> HIDE <1>1
    <3> QED  BY <2>3, <2>4, <3>1
  <2>8. FileOnce' /\ PassedOnceOnly'
    BY <1>1, <2>1
  <2> QED  BY <2>5, <2>6, <2>7, <2>8
<1>10. ASSUME NEW text, NEW rest, Takes(text, rest) PROVE All'
  <2>1. /\ text \in Seq(Pieces) /\ rest \in Seq(Pieces) /\ buffer = text \o rest
        /\ passed' \in {passed, Append(passed, text)} /\ buffer' = rest
        /\ UNCHANGED <<file, offset>>
    BY <1>10 DEF Takes, Return
  <2>2. /\ Len(text) \in Nat /\ Len(rest) \in Nat /\ Len(buffer) = Len(text) + Len(rest)
        /\ \A i \in 1 .. Len(buffer) : buffer[i] = IF i <= Len(text) THEN text[i] ELSE rest[i - Len(text)]
    BY <2>1, ConcatProperties, LenProperties
  <2>3. ASSUME NEW i \in 1 .. Len(text)
        PROVE  i \in 1 .. Len(buffer) /\ text[i] = buffer[i]
    BY <2>2
  <2>4. ASSUME NEW i \in 1 .. Len(rest)
        PROVE  Len(text) + i \in 1 .. Len(buffer) /\ rest[i] = buffer[Len(text) + i]
    <3>1. Len(text) + i \in 1 .. Len(buffer) /\ ~(Len(text) + i <= Len(text)) /\ (Len(text) + i) - Len(text) = i
      BY <2>2
    <3> QED  BY <2>2, <3>1
  <2>5. Unread' = Unread /\ FileOnce'
    BY <1>1, <2>1 DEF Unread
  <2>6. UnreadNew'
    BY <1>1, <2>1, <2>4, <2>5
  <2>7. BufferOnce'
    <3> SUFFICES ASSUME NEW i \in 1 .. Len(rest), NEW j \in 1 .. Len(rest), rest[i] = rest[j]
                 PROVE  i = j
      BY <2>1
    <3>1. Len(text) + i = Len(text) + j
      BY <1>1, <2>4
    <3> QED  BY <2>2, <3>1
  \* A text is an old one, or the last and the one that was taken.
  <2>8. ASSUME NEW p \in 1 .. Len(passed')
        PROVE  (p \in 1 .. Len(passed) /\ passed'[p] = passed[p]) \/ (p = Len(passed) + 1 /\ passed'[p] = text)
    <3>1. CASE passed' = passed
      BY <3>1
    <3>2. CASE passed' = Append(passed, text)
      <4>1. passed \in Seq(Seq(Pieces))
        BY DEF Basics, TypeOK
      <4>2. /\ Len(passed') = Len(passed) + 1
            /\ \A i \in 1 .. Len(passed) : passed'[i] = passed[i]
            /\ passed'[Len(passed) + 1] = text
        BY <2>1, <3>2, <4>1, AppendProperties
      <4> QED  BY <1>2, <4>2
    <3> QED  BY <2>1, <3>1, <3>2
  <2>9. ASSUME NEW k \in 1 .. Len(text)
        PROVE  /\ \A i \in Unread : text[k] # file[i]
               /\ \A i \in 1 .. Len(rest) : text[k] # rest[i]
    <3>1. \A i \in Unread : text[k] # file[i]
      BY <1>1, <2>3
    <3>2. ASSUME NEW i \in 1 .. Len(rest) PROVE text[k] # rest[i]
      <4>1. k # Len(text) + i
        BY <2>2
      <4> QED  BY <1>1, <2>3, <2>4, <4>1
    <3> QED  BY <3>1, <3>2
  <2>10. PassedNew'
    <3> SUFFICES ASSUME NEW p \in 1 .. Len(passed'), NEW k \in 1 .. Len(passed'[p])
                 PROVE  /\ \A i \in Unread : passed'[p][k] # file[i]
                        /\ \A i \in 1 .. Len(rest) : passed'[p][k] # rest[i]
      BY <2>1, <2>5
    <3>1. CASE p \in 1 .. Len(passed) /\ passed'[p] = passed[p]
      <4>1. /\ \A i \in Unread : passed[p][k] # file[i]
            /\ \A i \in 1 .. Len(buffer) : passed[p][k] # buffer[i]
        BY <1>1, <3>1
      <4> QED  BY <2>4, <3>1, <4>1
    <3>2. CASE passed'[p] = text
      BY <2>9, <3>2
    <3> QED  BY <2>8, <3>1, <3>2
  <2>11. PassedOnceOnly'
    <3> SUFFICES ASSUME NEW p \in 1 .. Len(passed'), NEW q \in 1 .. Len(passed'),
                        NEW k \in 1 .. Len(passed'[p]), NEW l \in 1 .. Len(passed'[q]),
                        passed'[p][k] = passed'[q][l]
                 PROVE  p = q
      OBVIOUS
    <3>0. Len(passed) + 1 \notin 1 .. Len(passed)
      BY <1>2
    <3>1. CASE p \in 1 .. Len(passed) /\ q \in 1 .. Len(passed)
      <4>1. passed'[p] = passed[p] /\ passed'[q] = passed[q]
        BY <2>8, <3>0, <3>1
      <4> QED  BY <1>1, <3>1, <4>1
    <3>2. CASE p = Len(passed) + 1 /\ q = Len(passed) + 1
      BY <3>2
    <3>3. CASE p \in 1 .. Len(passed) /\ q = Len(passed) + 1
      <4>1. passed'[p] = passed[p] /\ passed'[q] = text
        BY <2>8, <3>0, <3>3
      <4> QED  BY <1>1, <2>3, <3>3, <4>1
    <3>4. CASE q \in 1 .. Len(passed) /\ p = Len(passed) + 1
      <4>1. passed'[q] = passed[q] /\ passed'[p] = text
        BY <2>8, <3>0, <3>4
      <4> QED  BY <1>1, <2>3, <3>4, <4>1
    <3> QED  BY <2>8, <3>1, <3>2, <3>3, <3>4
  <2> QED  BY <2>5, <2>6, <2>7, <2>10, <2>11
<1> QED  BY <1>4, <1>5, <1>6, <1>7, <1>8, <1>9, <1>10, <1>r, Steps

LEMMA AlignedInit == Init => Aligned
<1> SUFFICES ASSUME Init PROVE Aligned
  OBVIOUS
<1>1. Len(<<>>) = 0 /\ DOMAIN <<>> = {}
  BY EmptySeq
<1>2. Even(0)
  <2>1. 0 \in Nat /\ 0 = 2 * 0
    OBVIOUS
  <2> QED  BY <2>1 DEF Even
<1> QED  BY <1>1, <1>2 DEF Init, Aligned, OfLines, TextsAreLines

\* What is handed on stays a line.
LEMMA TextsStay ==
  ASSUME TextsAreLines, Calm, ended \in Nat, ended' \in Nat, ended <= ended', UNCHANGED passed
  PROVE  TextsAreLines'
<1>1. 1 .. ended \subseteq 1 .. ended'
  OBVIOUS
<1>2. \A i \in DOMAIN passed : \E n \in 1 .. ended \ Blank : passed[i] = Line(n)
  BY DEF TextsAreLines, Calm
<1> QED  BY <1>1, <1>2 DEF TextsAreLines

\* A reader of lines finds a line at the beginning of its buffer.
LEMMA BufferBeginsLine ==
  ASSUME Basics, Aligned, Calm, Len(buffer) >= 1
  PROVE  \E n \in 1 .. ended :
           /\ buffer[1] = Opening(n)
           /\ Len(buffer) >= 2 => buffer[2] = Ending(n)
<1>1. /\ Len(file) \in Nat /\ Len(buffer) \in Nat /\ offset \in Nat
  BY Elements
<1>2. PICK m \in Nat : offset - Len(buffer) = 2 * m
  BY DEF Aligned, Even
<1>3. PICK l \in Nat : Len(file) = 2 * l
  BY DEF Aligned, Even
<1>4. offset <= Len(file) /\ \A i \in 1 .. Len(buffer) : buffer[i] = file[offset - Len(buffer) + i]
  BY DEF Aligned
<1>5. 2 * m + 2 <= Len(file)
  BY <1>1, <1>2, <1>3, <1>4
<1>6. PICK n \in 1 .. ended : file[2 * m + 1] = Opening(n) /\ file[2 * m + 2] = Ending(n)
  BY <1>5 DEF Aligned, OfLines
<1>7. buffer[1] = file[2 * m + 1]
  <2>1. 1 \in 1 .. Len(buffer)
    BY <1>1
  <2> QED  BY <1>2, <1>4, <2>1
<1>8. Len(buffer) >= 2 => buffer[2] = file[2 * m + 2]
  <2>1. Len(buffer) >= 2 => 2 \in 1 .. Len(buffer)
    BY <1>1
  <2> QED  BY <1>2, <1>4, <2>1
<1> QED  BY <1>6, <1>7, <1>8

\* At the end of the file it ends with a line.
LEMMA BufferEndsLine ==
  ASSUME Basics, Aligned, Calm, Len(buffer) >= 1, offset >= Len(file)
  PROVE  HasLine(buffer)
<1>1. /\ Len(file) \in Nat /\ Len(buffer) \in Nat /\ offset \in Nat
      /\ buffer \in Seq(Pieces) /\ DOMAIN buffer = 1 .. Len(buffer)
  BY Elements, LenProperties DEF Basics, TypeOK
<1>2. PICK l \in Nat : Len(file) = 2 * l
  BY DEF Aligned, Even
<1>3. /\ offset = Len(file) /\ Len(buffer) <= offset
      /\ \A i \in 1 .. Len(buffer) : buffer[i] = file[offset - Len(buffer) + i]
  BY <1>1 DEF Aligned
<1>4. PICK k \in Nat : 2 * k + 2 = Len(file)
  <2>1. l - 1 \in Nat /\ 2 * (l - 1) + 2 = Len(file)
    BY <1>1, <1>2, <1>3
  <2> QED  BY <2>1
<1>5. PICK n \in 1 .. ended : file[2 * k + 2] = Ending(n)
  <2>1. 2 * k + 2 <= Len(file)
    BY <1>1, <1>4
  <2> QED  BY <2>1 DEF Aligned, OfLines
<1>6. buffer[Len(buffer)] = file[Len(file)]
  <2>1. Len(buffer) \in 1 .. Len(buffer) /\ offset - Len(buffer) + Len(buffer) = Len(file)
    BY <1>1, <1>3
  <2> QED  BY <1>3, <2>1
<1>7. buffer[Len(buffer)].part = "ending"
  BY <1>4, <1>5, <1>6 DEF Ending
<1>8. Len(buffer) \in 1 .. Len(buffer)
  BY <1>1
<1> QED  BY <1>1, <1>7, <1>8 DEF HasLine, EndsOf

\* readline returns one line.
LEMMA TakesALine ==
  ASSUME Basics, Aligned, Calm, TakeLine
  PROVE  \E n \in 1 .. ended :
           /\ buffer[1] = Opening(n) /\ returned' = returned \o Line(n)
           /\ passed' = IF n \in Blank THEN passed ELSE Append(passed, Line(n))
           /\ buffer' = SubSeq(buffer, 3, Len(buffer)) /\ Len(buffer) >= 2
<1>1. /\ Len(buffer) \in Nat /\ buffer \in Seq(Pieces) /\ DOMAIN buffer = 1 .. Len(buffer)
      /\ \A i \in 1 .. Len(buffer) : buffer[i] \in Pieces
  BY Elements, LenProperties DEF Basics, TypeOK
<1>2. PICK end \in FirstEnds(buffer) :
        Return(SubSeq(buffer, 1, end)) /\ buffer' = SubSeq(buffer, end + 1, Len(buffer))
  BY DEF TakeLine
<1>3. /\ end \in 1 .. Len(buffer) /\ buffer[end].part = "ending"
      /\ \A i \in 1 .. Len(buffer) : buffer[i].part = "ending" => end <= i
  BY <1>1, <1>2 DEF FirstEnds, EndsOf
<1>4. PICK n \in 1 .. ended : buffer[1] = Opening(n) /\ (Len(buffer) >= 2 => buffer[2] = Ending(n))
  BY <1>1, <1>3, BufferBeginsLine
<1>5. end # 1
  BY <1>3, <1>4 DEF Opening
<1>6. Len(buffer) >= 2 /\ buffer[2] = Ending(n) /\ 2 \in 1 .. Len(buffer) /\ end \in Int /\ end >= 2
  BY <1>1, <1>3, <1>4, <1>5
<1>7. end = 2
  <2>1. buffer[2].part = "ending"
    BY <1>6 DEF Ending
  <2>2. end <= 2
    BY <1>3, <1>6, <2>1
  <2> QED  BY <1>6, <2>2
<1>8. SubSeq(buffer, 1, 2) = Line(n)
  <2>1. \A i \in 1 .. 2 : buffer[i] \in Pieces
    BY <1>1, <1>6
  <2>2. /\ SubSeq(buffer, 1, 2) \in Seq(Pieces)
        /\ Len(SubSeq(buffer, 1, 2)) = IF 1 <= 2 THEN 2 - 1 + 1 ELSE 0
        /\ \A i \in 1 .. 2 - 1 + 1 : SubSeq(buffer, 1, 2)[i] = buffer[1 + i - 1]
    BY <2>1, SubSeqProperties
  <2>3. /\ Len(SubSeq(buffer, 1, 2)) = 2
        /\ SubSeq(buffer, 1, 2)[1] = buffer[1] /\ SubSeq(buffer, 1, 2)[2] = buffer[2]
    BY <2>2
  <2>4. Opening(n) \in Pieces /\ Ending(n) \in Pieces
    BY <1>1, <1>4, <1>6
  <2>5. /\ Line(n) \in Seq(Pieces) /\ Len(Line(n)) = 2
        /\ Line(n)[1] = Opening(n) /\ Line(n)[2] = Ending(n)
    BY <2>4 DEF Line
  <2>6. \A i \in 1 .. 2 : SubSeq(buffer, 1, 2)[i] = Line(n)[i]
    BY <1>4, <1>6, <2>3, <2>5
  <2> QED  BY <2>2, <2>3, <2>5, <2>6, SeqEqual
<1>9. IsBlank(Line(n)) <=> n \in Blank
  <2>1. DOMAIN Line(n) = 1 .. 2 /\ Line(n)[1].line = n /\ Line(n)[2].line = n
    BY DEF Line, Opening, Ending
  <2>2. \A i \in 1 .. 2 : i = 1 \/ i = 2
    OBVIOUS
  <2>3. 1 \in 1 .. 2
    OBVIOUS
  <2> QED  BY <2>1, <2>2, <2>3 DEF IsBlank
<1>10. Return(Line(n)) /\ buffer' = SubSeq(buffer, 3, Len(buffer))
  <2>1. SubSeq(buffer, 1, end) = Line(n)
    BY <1>7, <1>8
  <2>2. end + 1 = 3
    BY <1>7
  <2> QED  BY <1>2, <2>1, <2>2
<1>11. /\ passed' = IF n \in Blank THEN passed ELSE Append(passed, Line(n))
       /\ returned' = returned \o Line(n)
  BY <1>9, <1>10 DEF Return
<1> QED  BY <1>4, <1>6, <1>10, <1>11

LEMMA AlignedStep ==
  ASSUME Basics, Aligned, Basics', [Next]_vars
  PROVE  Aligned'
<1> USE DEF rigid, disk, reader
<1>0. Calm' => Calm
  BY Steps DEF vars, Appends, Truncate, Rename, Create, Exists, Open, OpenFails, AtEnd, Check,
     CheckFails, Fills, Takes, Calm
<1> SUFFICES ASSUME Calm PROVE Aligned'
  BY <1>0 DEF Aligned
<1>1. /\ begun = ended /\ Even(Len(file)) /\ OfLines(file)
      /\ offset <= Len(file) /\ Len(buffer) <= offset /\ Even(offset - Len(buffer))
      /\ \A i \in 1 .. Len(buffer) : buffer[i] = file[offset - Len(buffer) + i]
      /\ TextsAreLines
  BY DEF Aligned
<1>2. /\ Len(file) \in Nat /\ Len(buffer) \in Nat /\ offset \in Nat
      /\ ended \in Nat /\ ended' \in Nat
      /\ file \in Seq(Pieces) /\ buffer \in Seq(Pieces)
  <2>1. ended \in Nat /\ file \in Seq(Pieces) /\ buffer \in Seq(Pieces)
    BY FollowerConstants DEF Basics, TypeOK
  <2>2. ended' \in Nat
    BY FollowerConstants DEF Basics, TypeOK
  <2> QED  BY <2>1, <2>2, Elements
<1>3. Even(0)
  <2>1. 0 \in Nat /\ 0 = 2 * 0
    OBVIOUS
  <2> QED  BY <2>1 DEF Even
\* The reader alone moves: what is left to show.
<1>4. ASSUME UNCHANGED <<begun, ended, file>>,
             offset' <= Len(file), Len(buffer') <= offset', Even(offset' - Len(buffer')),
             \A i \in 1 .. Len(buffer') : buffer'[i] = file[offset' - Len(buffer') + i],
             TextsAreLines'
      PROVE  Aligned'
  BY <1>1, <1>4 DEF Aligned, OfLines
<1>5. UNCHANGED <<ended, passed>> => TextsAreLines'
  BY <1>1, <1>2, TextsStay
<1>6. CASE WriteLine
  <2> DEFINE n == ended + 1
  <2>1. Appends(Line(n)) /\ begun' = n /\ ended' = n
    BY <1>1, <1>6, WriteLineAppends DEF Basics
  <2>2. /\ Len(file) <= Len(file') /\ Len(file') \in Nat
        /\ file' = file \/ file' = file \o Line(n)
        /\ \A i \in 1 .. Len(file) : file'[i] = file[i]
        /\ file \in Seq(Pieces')
    BY <2>1, AppendsToFile
  <2>3. UNCHANGED <<offset, buffer, passed>>
    BY <2>1 DEF Appends
  <2>4. n \in 1 .. ended' /\ 1 .. ended \subseteq 1 .. ended'
    BY <1>2, <2>1
  <2>5. PICK l \in Nat : Len(file) = 2 * l
    BY <1>1 DEF Even
  <2>6. Even(Len(file')) /\ OfLines(file)' 
    <3>1. CASE file' = file
      BY <1>1, <2>4, <3>1 DEF OfLines
    <3>2. CASE file' = file \o Line(n)
      <4>1. /\ Line(n) \in Seq(Pieces') /\ Len(Line(n)) = 2
            /\ Line(n)[1] = Opening(n) /\ Line(n)[2] = Ending(n)
        BY <2>1 DEF Appends, Line
      <4>2. /\ Len(file') = Len(file) + 2
            /\ \A i \in 1 .. Len(file) + 2 :
                 file'[i] = IF i <= Len(file) THEN file[i] ELSE Line(n)[i - Len(file)]
        <5>1. /\ Len(file \o Line(n)) = Len(file) + Len(Line(n))
              /\ \A i \in 1 .. Len(file) + Len(Line(n)) :
                   (file \o Line(n))[i] = IF i <= Len(file) THEN file[i] ELSE Line(n)[i - Len(file)]
          BY <2>2, <4>1, ConcatProperties
        <5> QED  BY <3>2, <4>1, <5>1
      <4>3. Even(Len(file'))
        <5>1. l + 1 \in Nat /\ Len(file') = 2 * (l + 1)
          BY <2>5, <4>2
        <5> QED  BY <5>1 DEF Even
      <4>4. ASSUME NEW k \in Nat, 2 * k + 2 <= Len(file')
            PROVE  \E m \in 1 .. ended' : file'[2 * k + 1] = Opening(m) /\ file'[2 * k + 2] = Ending(m)
        <5>1. CASE 2 * k + 2 <= Len(file)
          <6>1. 2 * k + 1 \in 1 .. Len(file) /\ 2 * k + 2 \in 1 .. Len(file)
            BY <1>2, <5>1
          <6>2. file'[2 * k + 1] = file[2 * k + 1] /\ file'[2 * k + 2] = file[2 * k + 2]
            BY <2>2, <6>1
          <6>3. PICK m \in 1 .. ended : file[2 * k + 1] = Opening(m) /\ file[2 * k + 2] = Ending(m)
            BY <1>1, <5>1 DEF OfLines
          <6> QED  BY <2>4, <6>2, <6>3
        <5>2. CASE ~(2 * k + 2 <= Len(file))
          <6>1. 2 * k = Len(file)
            BY <2>5, <4>2, <4>4, <5>2
          <6>2. /\ 2 * k + 1 \in 1 .. Len(file) + 2 /\ 2 * k + 2 \in 1 .. Len(file) + 2
                /\ ~(2 * k + 1 <= Len(file)) /\ ~(2 * k + 2 <= Len(file))
                /\ (2 * k + 1) - Len(file) = 1 /\ (2 * k + 2) - Len(file) = 2
            BY <1>2, <6>1
          <6>3. file'[2 * k + 1] = Line(n)[1] /\ file'[2 * k + 2] = Line(n)[2]
            BY <4>2, <6>2
          <6> QED  BY <2>4, <4>1, <6>3
        <5> QED  BY <5>1, <5>2
      <4> QED  BY <4>3, <4>4 DEF OfLines
    <3> QED  BY <2>2, <3>1, <3>2
  <2>7. offset' <= Len(file') /\ Len(buffer') <= offset' /\ Even(offset' - Len(buffer'))
    BY <1>1, <1>2, <2>2, <2>3
  <2>8. \A i \in 1 .. Len(buffer') : buffer'[i] = file'[offset' - Len(buffer') + i]
    <3>1. ASSUME NEW i \in 1 .. Len(buffer)
          PROVE  buffer[i] = file'[offset - Len(buffer) + i]
      <4>1. offset - Len(buffer) + i \in 1 .. Len(file)
        BY <1>1, <1>2
      <4> QED  BY <1>1, <2>2, <4>1
    <3> QED  BY <2>3, <3>1
  <2>9. TextsAreLines'
    <3>1. ended <= ended'
      BY <1>2, <2>1
    <3> QED  BY <1>1, <1>2, <2>3, <3>1, TextsStay
  <2> QED  BY <2>1, <2>6, <2>7, <2>8, <2>9 DEF Aligned
<1>7. ~WriteOpening /\ ~WriteEnding /\ ~Truncate
  BY <1>1, <1>2 DEF WriteOpening, WriteEnding, Truncate, Calm
<1>8. CASE Create \/ Exists \/ OpenFails \/ AtEnd \/ CheckFails \/ (Rename /\ ~BeforeOpen)
           \/ UNCHANGED vars
  <2>1. UNCHANGED <<begun, ended, file, offset, buffer, passed>>
    BY <1>8 DEF Rename, Create, Exists, OpenFails, AtEnd, CheckFails, vars
  <2> QED  BY <1>1, <1>4, <1>5, <2>1
<1>r. CASE Rename /\ BeforeOpen
  <2>1. /\ file' = <<>> /\ Len(<<>>) = 0 /\ offset = 0 /\ buffer = <<>>
        /\ UNCHANGED <<begun, ended, offset, buffer, passed>>
    BY <1>r, EmptySeq DEF Rename, BeforeOpen, Basics
  <2>2. Even(0) /\ 0 - 0 = 0
    <3>1. 0 \in Nat /\ 0 = 2 * 0
      OBVIOUS
    <3> QED  BY <3>1 DEF Even
  <2>3. /\ OfLines(file)' /\ begun' = ended' /\ Even(Len(file)')
        /\ offset' = 0 /\ buffer' = <<>> /\ Even(offset' - Len(buffer'))
    BY <1>1, <2>1, <2>2 DEF OfLines
  <2>4. TextsAreLines'
    BY <1>5, <2>1
  <2> QED  BY <2>1, <2>3, <2>4 DEF Aligned
<1>9. CASE Open
  <2>1. /\ UNCHANGED <<begun, ended, file, passed>> /\ buffer' = <<>> /\ Len(<<>>) = 0
        /\ offset' \in {0, Len(file)}
    BY <1>9, EmptySeq DEF Open, CallsOpen, Basics
  <2>2. Even(offset' - Len(buffer')) /\ offset' <= Len(file) /\ Len(buffer') <= offset'
    BY <1>1, <1>2, <1>3, <2>1
  <2>3. \A i \in 1 .. Len(buffer') : buffer'[i] = file[offset' - Len(buffer') + i]
    BY <2>1
  <2> QED  BY <1>4, <1>5, <2>1, <2>2, <2>3
<1>10. CASE Check
  <2>1. /\ UNCHANGED <<begun, ended, file, buffer, passed>> /\ buffer = <<>> /\ Len(<<>>) = 0
        /\ offset' \in {0, offset}
    BY <1>10, EmptySeq DEF Check, Basics
  <2>2. Even(offset' - Len(buffer')) /\ offset' <= Len(file) /\ Len(buffer') <= offset'
    BY <1>1, <1>2, <1>3, <2>1
  <2>3. \A i \in 1 .. Len(buffer') : buffer'[i] = file[offset' - Len(buffer') + i]
    BY <2>1
  <2> QED  BY <1>4, <1>5, <2>1, <2>2, <2>3
<1>11. CASE ReadChunk
  <2>1. PICK more, upto : Fills(more, upto)
    BY <1>11, ReadChunkFills DEF Basics
  <2>2. /\ upto \in offset + 1 .. Len(file) /\ more \in Seq(Pieces) /\ Len(more) = upto - offset
        /\ \A i \in 1 .. upto - offset : more[i] = file[offset + i]
        /\ buffer' = buffer \o more /\ offset' = upto /\ UNCHANGED <<begun, ended, file, passed>>
    BY <2>1 DEF Fills
  <2>3. /\ Len(buffer') = Len(buffer) + Len(more)
        /\ \A i \in 1 .. Len(buffer) + Len(more) :
             buffer'[i] = IF i <= Len(buffer) THEN buffer[i] ELSE more[i - Len(buffer)]
    BY <1>2, <2>2, ConcatProperties
  <2>4. offset' - Len(buffer') = offset - Len(buffer) /\ offset' <= Len(file) /\ Len(buffer') <= offset'
    BY <1>1, <1>2, <2>2, <2>3
  <2>5. ASSUME NEW i \in 1 .. Len(buffer')
        PROVE  buffer'[i] = file[offset' - Len(buffer') + i]
    <3>1. CASE i <= Len(buffer)
      <4>1. i \in 1 .. Len(buffer) /\ i \in 1 .. Len(buffer) + Len(more)
        BY <1>2, <2>3, <3>1
      <4> QED  BY <1>1, <2>3, <2>4, <3>1, <4>1
    <3>2. CASE ~(i <= Len(buffer))
      <4>1. /\ i - Len(buffer) \in 1 .. upto - offset /\ i \in 1 .. Len(buffer) + Len(more)
            /\ offset + (i - Len(buffer)) = offset - Len(buffer) + i
        BY <1>2, <2>2, <2>3, <3>2
      <4>2. buffer'[i] = more[i - Len(buffer)]
        BY <2>3, <3>2, <4>1
      <4>3. more[i - Len(buffer)] = file[offset + (i - Len(buffer))]
        BY <2>2, <4>1
      <4> QED  BY <2>4, <4>1, <4>2, <4>3
    <3> QED  BY <3>1, <3>2
  <2> QED  BY <1>1, <1>4, <1>5, <2>2, <2>4, <2>5
<1>12. CASE TakeLine
  <2>1. UNCHANGED <<begun, ended, file, offset>>
    BY <1>12 DEF TakeLine
  <2>2. PICK n \in 1 .. ended :
          /\ passed' = IF n \in Blank THEN passed ELSE Append(passed, Line(n))
          /\ buffer' = SubSeq(buffer, 3, Len(buffer)) /\ Len(buffer) >= 2
    BY <1>12, TakesALine
  <2>3. /\ Len(buffer') = Len(buffer) - 2
        /\ \A i \in 1 .. Len(buffer) - 2 : buffer'[i] = buffer[i + 2]
    <3>1. \A i \in 3 .. Len(buffer) : buffer[i] \in Pieces
      BY <1>2, ElementOfSeq
    <3>2. /\ Len(buffer') = IF 3 <= Len(buffer) THEN Len(buffer) - 3 + 1 ELSE 0
          /\ \A i \in 1 .. Len(buffer) - 3 + 1 : buffer'[i] = buffer[3 + i - 1]
      BY <1>2, <2>2, <3>1, SubSeqProperties
    <3>3. ASSUME NEW i \in 1 .. Len(buffer) - 2 PROVE buffer'[i] = buffer[i + 2]
      <4>1. i \in 1 .. Len(buffer) - 3 + 1 /\ 3 + i - 1 = i + 2
        BY <1>2
      <4> QED  BY <3>2, <4>1
    <3>4. Len(buffer') = Len(buffer) - 2
      <4>1. Len(buffer) \in Nat /\ Len(buffer) >= 2
        BY <1>2, <2>2
      <4>2. CASE 3 <= Len(buffer)
        <5>1. Len(buffer) - 3 + 1 = Len(buffer) - 2
          BY <4>1
        <5> QED  BY <3>2, <4>2, <5>1
      <4>3. CASE ~(3 <= Len(buffer))
        <5>0. \A m \in Nat : m >= 2 /\ ~(3 <= m) => m - 2 = 0
          OBVIOUS
        <5>1. Len(buffer) - 2 = 0
          BY <4>1, <4>3, <5>0
        <5> QED  BY <3>2, <4>3, <5>1
      <4> QED  BY <4>2, <4>3
    <3> QED  BY <3>3, <3>4
  <2>4. Even(offset' - Len(buffer'))
    <3>1. PICK m \in Nat : offset - Len(buffer) = 2 * m
      BY <1>1 DEF Even
    <3>2. m + 1 \in Nat /\ offset' - Len(buffer') = 2 * (m + 1)
      BY <1>2, <2>1, <2>3, <3>1
    <3> QED  BY <3>2 DEF Even
  <2>5. ASSUME NEW i \in 1 .. Len(buffer')
        PROVE  buffer'[i] = file[offset' - Len(buffer') + i]
    <3>1. /\ i + 2 \in 1 .. Len(buffer) /\ i \in 1 .. Len(buffer) - 2
          /\ offset' - Len(buffer') + i = offset - Len(buffer) + (i + 2)
      BY <1>2, <2>1, <2>3
    <3> QED  BY <1>1, <2>3, <3>1
  <2>6. TextsAreLines'
    <3>1. CASE passed' = passed
      BY <1>5, <2>1, <3>1
    <3>2. CASE passed' = Append(passed, Line(n)) /\ n \notin Blank
      <4>1. passed \in Seq(Seq(Pieces)) /\ Line(n) \in Seq(Pieces)
        <5>1. Opening(n) \in Pieces /\ Ending(n) \in Pieces
          BY <1>1, InPieces
        <5> QED  BY <5>1 DEF Line, Basics, TypeOK
      <4>2. /\ Append(passed, Line(n)) \in Seq(Seq(Pieces)) /\ Len(passed') = Len(passed) + 1
            /\ \A i \in 1 .. Len(passed) : passed'[i] = passed[i]
            /\ passed'[Len(passed) + 1] = Line(n)
        BY <3>2, <4>1, AppendProperties
      <4>3. /\ DOMAIN passed = 1 .. Len(passed) /\ DOMAIN passed' = 1 .. Len(passed')
            /\ Len(passed) \in Nat
        BY <3>2, <4>1, <4>2, LenProperties
      <4>4. \A i \in DOMAIN passed : \E m \in 1 .. ended \ Blank : passed[i] = Line(m)
        BY <1>1 DEF TextsAreLines, Calm
      <4>5. ASSUME NEW i \in DOMAIN passed'
            PROVE  \E m \in 1 .. ended' \ Blank : passed'[i] = Line(m)
        <5>1. i \in 1 .. Len(passed) \/ i = Len(passed) + 1
          BY <4>2, <4>3
        <5> QED  BY <2>1, <3>2, <4>2, <4>3, <4>4, <5>1
      <4> QED  BY <4>5 DEF TextsAreLines
    <3> QED  BY <2>2, <3>1, <3>2
  <2>7. offset' <= Len(file) /\ Len(buffer') <= offset'
    BY <1>1, <1>2, <2>1, <2>3
  <2> QED  BY <1>4, <2>1, <2>4, <2>5, <2>6, <2>7
<1>13. CASE TakeRest
  <2>1. Len(buffer) >= 1 /\ offset >= Len(file) /\ ~HasLine(buffer)
    BY <1>2, <1>13, EmptySeq DEF TakeRest
  <2> QED  BY <2>1, BufferEndsLine
<1> QED
  BY <1>6, <1>7, <1>8, <1>9, <1>10, <1>11, <1>12, <1>13, <1>r DEF Next, Writer, Reading

----------------------------------------------------------------------------
(* The theorems. *)

LEMMA FollowerInvariance == Spec => []FollowerInv
<1>1. Init => FollowerInv
  BY BasicsInit, ContiguousInit, EndingsInit, AlignedInit DEF FollowerInv
<1>2. FollowerInv /\ [Next]_vars => FollowerInv'
  BY BasicsStep, ContiguousStep, EndingsStep, AlignedStep DEF FollowerInv
<1> QED  BY <1>1, <1>2, PTL DEF Spec

\* The values of the variables are of their types; no loop is past what was
\* ever written.
THEOREM TypeCorrect == Spec => []TypeOK
<1>1. FollowerInv => TypeOK
  BY DEF FollowerInv, Basics
<1> QED  BY <1>1, FollowerInvariance, PTL

\* follow_file: on one growing file the reader skips nothing, repeats nothing.
THEOREM NoPieceSkipped == Spec => []NothingSkipped
<1>1. FollowerInv => NothingSkipped
  BY DEF FollowerInv, Contiguous, NothingSkipped
<1> QED  BY <1>1, FollowerInvariance, PTL

\* follow_file: lines written whole are handed on whole, whatever the size of
\* the buffer, a rename of the file and the rewinds of log_shipper.py included.
THEOREM WholeLines == Spec => []TextsAreLines
<1>1. FollowerInv => TextsAreLines
  BY DEF FollowerInv, Aligned, TextsAreLines, Calm
<1> QED  BY <1>1, FollowerInvariance, PTL

\* follow_file: truncations and torn lines included, no line is handed on twice.
THEOREM NoLineTwice == Spec => []PassedOnce
<1>1. ASSUME FollowerInv PROVE PassedOnce
  <2> SUFFICES ASSUME OneTurnsOther, NEW i \in DOMAIN passed, NEW j \in DOMAIN passed,
                      NEW n \in 1 .. ended, Includes(passed[i], n), Includes(passed[j], n)
               PROVE  i = j
    BY DEF PassedOnce, OneTurnsOther
  <2>1. /\ passed \in Seq(Seq(Pieces)) /\ i \in 1 .. Len(passed) /\ j \in 1 .. Len(passed)
    BY <1>1, LenProperties DEF FollowerInv, Basics, TypeOK
  <2>2. passed[i] \in Seq(Pieces) /\ passed[j] \in Seq(Pieces)
    BY <2>1, ElementOfSeq
  <2>3. PICK k \in 1 .. Len(passed[i]) : passed[i][k] = Ending(n)
    BY <2>2, LenProperties DEF Includes
  <2>4. PICK l \in 1 .. Len(passed[j]) : passed[j][l] = Ending(n)
    BY <2>2, LenProperties DEF Includes
  <2> QED  BY <1>1, <2>1, <2>3, <2>4 DEF FollowerInv, EndingsOnce
<1> QED  BY <1>1, FollowerInvariance, PTL

----------------------------------------------------------------------------
(* LineFollowing, but for its fairness. *)

\* A writer that only appends whole lines numbers the lines of the file.
Numbered ==
  habits = {} =>
    /\ pc # "dead" => path \in {"same", "absent"} /\ Len(file) = 2 * ended
    /\ pc = "dead" => path # "same"
    /\ Even(start)
    /\ \A k \in Nat : 2 * k + 2 <= Len(file) => file[2 * k + 1] = Opening(k + 1)

LEMMA NumberedInit == Init => Numbered
<1>1. Len(<<>>) = 0 /\ 0 = 2 * 0 /\ 0 \in Nat
  BY EmptySeq
<1> QED  BY <1>1 DEF Init, Numbered, Even

\* What WriteLine does to the file.
LEMMA LineAppended ==
  ASSUME FollowerInv, habits = {}, WriteLine, path = "same"
  PROVE  /\ begun = ended /\ ended' = ended + 1 /\ ended \in Nat
         /\ file \in Seq(Pieces') /\ file' \in Seq(Pieces')
         /\ Len(file) \in Nat /\ Len(file') = Len(file) + 2
         /\ \A i \in 1 .. Len(file) : file'[i] = file[i]
         /\ file'[Len(file) + 1] = Opening(ended + 1)
<1>1. /\ Appends(Line(begun + 1)) /\ begun = ended /\ ended' = ended + 1 /\ ended \in Nat
  BY WriteLineAppends, FollowerConstants DEF FollowerInv, Basics, TypeOK
<1>2. /\ file \in Seq(Pieces') /\ file' \in Seq(Pieces') /\ Len(file) \in Nat
      /\ \A i \in 1 .. Len(file) : file'[i] = file[i]
  BY <1>1, AppendsToFile DEF FollowerInv
<1>3. /\ Line(ended + 1) \in Seq(Pieces') /\ Len(Line(ended + 1)) = 2
      /\ Line(ended + 1)[1] = Opening(ended + 1)
  BY <1>1 DEF Appends, Line
<1>4. file' = file \o Line(ended + 1)
  BY <1>1 DEF Appends, Write
<1>5. /\ Len(file \o Line(ended + 1)) = Len(file) + Len(Line(ended + 1))
      /\ \A i \in 1 .. Len(file) + Len(Line(ended + 1)) :
           (file \o Line(ended + 1))[i] =
             IF i <= Len(file) THEN file[i] ELSE Line(ended + 1)[i - Len(file)]
  BY <1>2, <1>3, ConcatProperties
<1>6. file'[Len(file) + 1] = Opening(ended + 1)
  <2>1. Len(file) + 1 \in 1 .. Len(file) + 2 /\ ~(Len(file) + 1 <= Len(file))
        /\ (Len(file) + 1) - Len(file) = 1
    BY <1>2
  <2> QED  BY <1>3, <1>4, <1>5, <2>1
<1> QED  BY <1>1, <1>2, <1>3, <1>4, <1>5, <1>6

LEMMA NumberedStep ==
  ASSUME FollowerInv, Numbered, [Next]_vars
  PROVE  Numbered'
<1> USE DEF rigid, disk, reader
<1>0. habits' = habits
  BY Steps DEF FollowerInv, vars, Appends, Truncate, Rename, Create, Exists, Open, OpenFails, AtEnd, Check,
     CheckFails, Fills, Takes
<1> SUFFICES ASSUME habits = {} PROVE Numbered'
  BY <1>0 DEF Numbered
<1>1. /\ pc # "dead" => path \in {"same", "absent"} /\ Len(file) = 2 * ended
      /\ pc = "dead" => path # "same"
      /\ Even(start)
      /\ \A k \in Nat : 2 * k + 2 <= Len(file) => file[2 * k + 1] = Opening(k + 1)
  BY DEF Numbered
<1>2. /\ begun = ended /\ ended \in Nat /\ Len(file) \in Nat
      /\ pc \in {"reading", "checking"} => path = "same"
      /\ pc \in {"opening", "found", "reading", "checking", "dead"}
  BY Elements, FollowerConstants DEF FollowerInv, Basics, TypeOK, Aligned, Calm
<1>3. ASSUME UNCHANGED <<ended, file, path>>, Even(start)', pc' = "dead" => path # "same",
             pc # "dead"
      PROVE  Numbered'
  BY <1>1, <1>3 DEF Numbered, Even
<1>4. CASE WriteLine
  <2>1. UNCHANGED <<path, pc, start>>
    BY <1>4 DEF WriteLine
  <2>2. CASE path = "same"
    <3>1. /\ ended' = ended + 1 /\ Len(file') = Len(file) + 2
          /\ \A i \in 1 .. Len(file) : file'[i] = file[i]
          /\ file'[Len(file) + 1] = Opening(ended + 1)
      BY <1>4, <2>2, LineAppended
    <3>2. pc # "dead" /\ Len(file) = 2 * ended
      BY <1>1, <2>2
    <3>3. ASSUME NEW k \in Nat, 2 * k + 2 <= Len(file')
          PROVE  file'[2 * k + 1] = Opening(k + 1)
      <4>1. CASE 2 * k + 2 <= Len(file)
        <5>1. 2 * k + 1 \in 1 .. Len(file)
          BY <1>2, <4>1
        <5> QED  BY <1>1, <3>1, <4>1, <5>1
      <4>2. CASE ~(2 * k + 2 <= Len(file))
        <5>1. k = ended /\ 2 * k + 1 = Len(file) + 1
          BY <1>2, <3>1, <3>2, <3>3, <4>2
        <5> QED  BY <3>1, <5>1
      <4> QED  BY <4>1, <4>2
    <3>4. Len(file') = 2 * ended'
      BY <1>2, <3>1, <3>2
    <3> QED  BY <1>1, <2>1, <2>2, <3>2, <3>3, <3>4 DEF Numbered, Even
  <2>3. CASE path # "same"
    <3>1. path = "other" /\ file' = file
      BY <1>4, <2>3 DEF WriteLine, Write
    <3>2. pc = "dead"
      BY <1>1, <3>1
    <3> QED  BY <1>1, <2>1, <2>3, <3>1, <3>2 DEF Numbered, Even
  <2> QED  BY <2>2, <2>3
<1>5. ~WriteOpening /\ ~WriteEnding /\ ~Truncate /\ ~Rename
  BY <1>2 DEF WriteOpening, WriteEnding, Truncate, Rename
<1>6. CASE Create
  <2>1. pc \in {"opening", "found", "dead"} /\ UNCHANGED <<ended, file, pc, start>>
    BY <1>2, <1>6 DEF Create
  <2>2. path' = IF pc \in {"opening", "found"} THEN "same" ELSE "other"
    BY <1>6 DEF Create, BeforeOpen
  <2> QED  BY <1>1, <2>1, <2>2 DEF Numbered, Even
<1>x. CASE Exists
  BY <1>1, <1>3, <1>x DEF Exists, Even
<1>7. CASE Open
  <2>1. Even(Len(file)) /\ Even(0)
    <3>1. 0 \in Nat /\ 0 = 2 * 0
      OBVIOUS
    <3> QED  BY <1>1, <1>2, <1>7, <3>1 DEF Even, Open, CallsOpen
  <2>2. Even(start)'
    BY <1>7, <2>1 DEF Open, Even
  <2> QED  BY <1>3, <1>7, <2>2 DEF Open, CallsOpen
<1>8. CASE OpenFails
  BY <1>1, <1>3, <1>8 DEF OpenFails, CallsOpen, Even
<1>9. CASE ReadChunk \/ TakeLine \/ TakeRest \/ AtEnd \/ Check
  <2>1. UNCHANGED <<ended, file, path, start>> /\ pc # "dead" /\ pc' # "dead"
    BY <1>9 DEF ReadChunk, TakeLine, TakeRest, AtEnd, Check
  <2> QED  BY <1>1, <1>3, <2>1 DEF Even
<1>10. ~CheckFails
  BY <1>2 DEF CheckFails
<1>11. CASE UNCHANGED vars
  BY <1>1, <1>11 DEF vars, Numbered, Even
<1> QED
  BY <1>4, <1>5, <1>6, <1>x, <1>7, <1>8, <1>9, <1>10, <1>11 DEF Next, Writer, Reading

LEMMA NumberedInvariance == Spec => [](FollowerInv /\ Numbered)
<1>1. FollowerInv /\ Numbered /\ [Next]_vars => Numbered'
  BY NumberedStep
<1> QED  BY <1>1, NumberedInit, FollowerInvariance, PTL DEF Spec

LEMMA Halves == ASSUME NEW n \in Nat PROVE (2 * n) \div 2 = n /\ (2 * n + 2) \div 2 = n + 1
OBVIOUS

LEMMA BeginningLength ==
  ASSUME NEW S, NEW s \in Seq(S), NEW n \in 0 .. Len(s)
  PROVE  Len(SubSeq(s, 1, n)) = n
<1>1. Len(s) \in Nat /\ \A i \in 1 .. n : s[i] \in S
  BY LenProperties, ElementOfSeq
<1>2. 1 \in Int /\ n \in Int
  BY <1>1
<1>3. Len(SubSeq(s, 1, n)) = IF 1 <= n THEN n - 1 + 1 ELSE 0
  BY <1>1, <1>2, SubSeqProperties
<1> QED  BY <1>1, <1>3

\* The variables of LineFollowing.
Cursor == Pairs(returned) + Pairs(SubSeq(file, 1, start))
Numbers(texts) == [i \in DOMAIN texts |-> texts[i][1].line]

LEMMA NumbersOfAppend ==
  ASSUME NEW S, NEW texts \in Seq(S), NEW n, Line(n) \in S
  PROVE  Numbers(Append(texts, Line(n))) = Append(Numbers(texts), n)
<1> DEFINE more == Append(texts, Line(n))
           T == {texts[i][1].line : i \in DOMAIN texts} \cup {n}
<1>1. /\ Len(texts) \in Nat /\ DOMAIN texts = 1 .. Len(texts)
      /\ more \in Seq(S) /\ Len(more) = Len(texts) + 1
      /\ \A i \in 1 .. Len(texts) : more[i] = texts[i]
      /\ more[Len(texts) + 1] = Line(n)
  BY LenProperties, AppendProperties
<1>2. DOMAIN more = 1 .. Len(texts) + 1
  BY <1>1, LenProperties
<1> HIDE DEF more
<1>3. Line(n)[1].line = n
  BY DEF Line, Opening
<1>4. /\ Numbers(texts) \in Seq(T) /\ Len(Numbers(texts)) = Len(texts)
      /\ \A i \in 1 .. Len(texts) : Numbers(texts)[i] = texts[i][1].line
  BY <1>1 DEF Numbers
<1>5. /\ Append(Numbers(texts), n) \in Seq(T) /\ Len(Append(Numbers(texts), n)) = Len(texts) + 1
      /\ \A i \in 1 .. Len(texts) : Append(Numbers(texts), n)[i] = Numbers(texts)[i]
      /\ Append(Numbers(texts), n)[Len(texts) + 1] = n
  <2>1. n \in T
    OBVIOUS
  <2> QED  BY <1>4, <2>1, AppendProperties
<1>6. \A i \in 1 .. Len(texts) + 1 : more[i][1].line = Append(Numbers(texts), n)[i]
  <2> TAKE i \in 1 .. Len(texts) + 1
  <2>1. i \in 1 .. Len(texts) \/ i = Len(texts) + 1
    BY <1>1
  <2> QED  BY <1>1, <1>3, <1>4, <1>5, <2>1
<1>7. Numbers(more) = [i \in 1 .. Len(texts) + 1 |-> Append(Numbers(texts), n)[i]]
  BY <1>2, <1>6 DEF Numbers
<1>8. Append(Numbers(texts), n) = [i \in 1 .. Len(texts) + 1 |-> Append(Numbers(texts), n)[i]]
  BY <1>5, LenProperties
<1> QED  BY <1>7, <1>8 DEF more

LEMMA ConcatLength ==
  ASSUME NEW S, NEW s \in Seq(S), NEW t \in Seq(S)
  PROVE  Len(s \o t) = Len(s) + Len(t)
BY ConcatProperties

LEMMA PartLength ==
  ASSUME NEW a \in Nat, NEW b \in Nat, a <= b
  PROVE  (IF a + 1 <= b THEN b - (a + 1) + 1 ELSE 0) = b - a
OBVIOUS

LEMMA ReadSoFar ==
  ASSUME NEW read \in Nat, NEW held \in Nat, NEW from \in Nat, NEW upto \in Nat, NEW m \in Nat,
         NEW size \in Nat, read + held = upto - from, upto - held = 2 * m, from <= upto,
         upto <= size
  PROVE  read = 2 * m - from /\ 2 * m <= size /\ from \in 0 .. size
OBVIOUS

\* Where the reader is, in lines.
LEMMA CursorIsOffset ==
  ASSUME FollowerInv, Numbered, habits = {}, pc \in {"reading", "checking"}
  PROVE  \E m \in Nat : /\ offset - Len(buffer) = 2 * m /\ 2 * m <= Len(file)
                        /\ Cursor = m
                        /\ Len(returned) = 2 * m - start /\ Pairs(returned) \in Nat
                        /\ start \in 0 .. Len(file)
<1>1. PICK m \in Nat : offset - Len(buffer) = 2 * m
  BY DEF FollowerInv, Aligned, Calm, Even
<1>2. PICK s \in Nat : start = 2 * s
  BY DEF Numbered, Even
<1>3. /\ file \in Seq(Pieces) /\ returned \in Seq(Pieces) /\ buffer \in Seq(Pieces)
      /\ Len(file) \in Nat /\ Len(returned) \in Nat /\ Len(buffer) \in Nat /\ offset \in Nat
      /\ \A i \in 1 .. Len(file) : file[i] \in Pieces
  BY Elements, LenProperties, ElementOfSeq DEF FollowerInv, Basics, TypeOK
<1>4. /\ start <= offset /\ offset <= Len(file)
      /\ returned \o buffer = SubSeq(file, start + 1, offset)
  BY DEF FollowerInv, Contiguous, OnOneFile
<1>5. Len(returned) + Len(buffer) = offset - start
  <2>1. Len(returned \o buffer) = Len(returned) + Len(buffer)
    BY <1>3, ConcatProperties
  <2>2. start + 1 \in Int /\ offset \in Int /\ \A i \in start + 1 .. offset : file[i] \in Pieces
    <3>1. start \in Nat /\ start + 1 .. offset \subseteq 1 .. Len(file)
      BY <1>2, <1>3, <1>4
    <3> QED  BY <1>3, <3>1
  <2>3. Len(SubSeq(file, start + 1, offset)) =
          IF start + 1 <= offset THEN offset - (start + 1) + 1 ELSE 0
    BY <2>2, SubSeqProperties
  <2>4. start \in Nat /\ offset \in Nat /\ start <= offset
    BY <1>2, <1>3, <1>4
  <2>5. Len(SubSeq(file, start + 1, offset)) = offset - start
    BY <2>3, <2>4, PartLength
  <2> QED  BY <1>4, <2>1, <2>5
<1>6. Len(returned) = 2 * m - start /\ 2 * m <= Len(file) /\ start \in 0 .. Len(file)
  <2>1. start \in Nat
    BY <1>2
  <2>2. /\ Len(returned) \in Nat /\ Len(buffer) \in Nat /\ offset \in Nat /\ Len(file) \in Nat
    BY <1>3
  <2>3. start <= offset /\ offset <= Len(file)
    BY <1>4
  <2> QED  BY ONLY <1>1, <1>5, <2>1, <2>2, <2>3, ReadSoFar
<1>7. m - s \in Nat /\ Len(returned) = 2 * (m - s)
  BY <1>2, <1>3, <1>6
<1>8. Pairs(returned) = m - s
  BY <1>7, Halves DEF Pairs
<1>9. Pairs(SubSeq(file, 1, start)) = s
  BY <1>2, <1>3, <1>6, BeginningLength, Halves DEF Pairs
<1> QED  BY <1>1, <1>6, <1>7, <1>8, <1>9 DEF Cursor

LEMMA LinesInit == Init => Lines!Init
<1> SUFFICES ASSUME Init PROVE Lines!Init
  OBVIOUS
<1>1. Len(<<>>) = 0 /\ DOMAIN <<>> = {} /\ Pairs(<<>>) = 0
  BY EmptySeq, Halves DEF Pairs
<1>2. [i \in DOMAIN passed |-> passed[i][1].line] = <<>>
  BY <1>1 DEF Init
<1> QED
  BY <1>1, <1>2 DEF Init, Lines!Init

\* The reader is at the beginning of the line whose number comes next.
LEMMA TakesNext ==
  ASSUME FollowerInv, Numbered, habits = {}, TakeLine, pc = "reading",
         NEW m \in Nat, offset - Len(buffer) = 2 * m, 2 * m <= Len(file)
  PROVE  /\ m < Pairs(file)
         /\ passed' = IF m + 1 \in Blank THEN passed ELSE Append(passed, Line(m + 1))
         /\ Pairs(returned') = Pairs(returned) + 1
         /\ Line(m + 1) \in Seq(Pieces)
<1>1. PICK n \in 1 .. ended :
        /\ buffer[1] = Opening(n) /\ returned' = returned \o Line(n)
        /\ passed' = IF n \in Blank THEN passed ELSE Append(passed, Line(n))
        /\ Len(buffer) >= 2
  BY TakesALine DEF FollowerInv, Calm
<1>2. /\ Len(buffer) \in Nat /\ Len(file) \in Nat /\ offset \in Nat /\ ended \in Nat
      /\ begun = ended /\ offset <= Len(file)
      /\ \A i \in 1 .. Len(buffer) : buffer[i] = file[offset - Len(buffer) + i]
  BY Elements, FollowerConstants DEF FollowerInv, Basics, TypeOK, Aligned, Calm
<1>3. 2 * m + 2 <= Len(file)
  BY <1>1, <1>2
<1>4. n = m + 1
  <2>1. buffer[1] = file[2 * m + 1]
    <3>1. 1 \in 1 .. Len(buffer)
      BY <1>1, <1>2
    <3> QED  BY <1>2, <3>1
  <2>2. file[2 * m + 1] = Opening(m + 1)
    BY <1>3 DEF Numbered
  <2> QED  BY <1>1, <2>1, <2>2, PiecesDiffer
<1>5. m < Pairs(file)
  <2>1. PICK l \in Nat : Len(file) = 2 * l
    BY DEF FollowerInv, Aligned, Calm, Even
  <2>2. Pairs(file) = l
    BY <2>1, Halves DEF Pairs
  <2> QED  BY <1>3, <2>1, <2>2
<1>6. Line(n) \in Seq(Pieces) /\ Len(Line(n)) = 2
  <2>1. Opening(n) \in Pieces /\ Ending(n) \in Pieces
    BY <1>2, InPieces
  <2> QED  BY <2>1 DEF Line
<1>7. Len(returned') = Len(returned) + 2 /\ Len(returned) \in Nat
  <2>1. returned \in Seq(Pieces)
    BY DEF FollowerInv, Basics, TypeOK
  <2>2. Len(returned \o Line(n)) = Len(returned) + Len(Line(n))
    BY <1>6, <2>1, ConcatLength
  <2> QED  BY <1>1, <1>6, <2>1, <2>2, LenProperties
<1>8. Pairs(returned') = Pairs(returned) + 1
  BY <1>7 DEF Pairs
<1> QED  BY <1>1, <1>4, <1>5, <1>6, <1>8

LEMMA LinesStep ==
  ASSUME FollowerInv, Numbered, [Next]_vars
  PROVE  [Lines!Next]_(Lines!vars)
<1> USE DEF rigid, disk, reader
<1>0. habits' = habits
  BY Steps DEF FollowerInv, vars, Appends, Truncate, Rename, Create, Exists, Open, OpenFails, AtEnd, Check,
     CheckFails, Fills, Takes
<1>1. CASE habits # {}
  BY <1>0, <1>1 DEF Lines!vars
<1>2. CASE habits = {}
  <2> DEFINE cursor == IF pc \notin {"opening", "found", "dead"} THEN Cursor ELSE -1
  <2>1. /\ UNCHANGED <<Pairs(file), cursor, passed>> => UNCHANGED Lines!vars
    BY <1>0, <1>2 DEF Lines!vars, Cursor
  <2>2. /\ begun = ended /\ ended \in Nat /\ Len(file) \in Nat /\ file \in Seq(Pieces)
        /\ pc \in {"reading", "checking"} => path = "same" /\ start \in 0 .. Len(file)
        /\ pc \in {"opening", "found", "reading", "checking", "dead"}
        /\ pc = "dead" => path # "same"
        /\ pc # "dead" => path \in {"same", "absent"}
    <3>1. pc \in {"reading", "checking"} => start \in 0 .. Len(file)
      BY <1>2, CursorIsOffset
    <3> QED
      BY <1>2, <3>1, Elements, FollowerConstants
         DEF FollowerInv, Basics, TypeOK, Aligned, Calm, Numbered
  <2>3. CASE WriteLine
    <3>1. UNCHANGED <<pc, start, returned, passed, path>>
      BY <2>3 DEF WriteLine
    <3>2. CASE path = "same"
      <4>1. /\ file' \in Seq(Pieces') /\ Len(file') = Len(file) + 2
        BY <1>2, <2>3, <3>2, LineAppended
      <4>2. Pairs(file') = Pairs(file) + 1
        BY <2>2, <4>1 DEF Pairs
      <4>3. pc \in {"reading", "checking"} =>
              Len(SubSeq(file', 1, start)) = start /\ Len(SubSeq(file, 1, start)) = start
        <5> SUFFICES ASSUME pc \in {"reading", "checking"}
                     PROVE  Len(SubSeq(file', 1, start)) = start /\ Len(SubSeq(file, 1, start)) = start
          OBVIOUS
        <5>1. start \in 0 .. Len(file) /\ start \in 0 .. Len(file')
          <6>1. start \in 0 .. Len(file) /\ Len(file) \in Nat
            BY <2>2
          <6> QED  BY <4>1, <6>1
        <5> QED  BY <2>2, <4>1, <5>1, BeginningLength
      <4>4. cursor' = cursor
        BY <2>2, <3>1, <4>3 DEF Cursor, Pairs
      <4>5. Lines!Write
        BY <1>0, <1>2, <3>1, <4>2, <4>4 DEF Lines!Write, Cursor
      <4> QED  BY <4>5 DEF Lines!Next
    <3>3. CASE path # "same"
      <4>1. file' = file
        BY <2>3, <3>3 DEF WriteLine, Write
      <4> QED  BY <2>1, <3>1, <4>1 DEF Cursor
    <3> QED  BY <3>2, <3>3
  <2>4. ~WriteOpening /\ ~WriteEnding /\ ~Truncate /\ ~Rename /\ ~CheckFails
    BY <1>2, <2>2 DEF WriteOpening, WriteEnding, Truncate, Rename, CheckFails
  <2>5. CASE Open
    <3>1. /\ pc \in {"opening", "found"} /\ pc' = "reading" /\ UNCHANGED <<file, returned, passed>>
          /\ start' \in {0, Len(file)} /\ returned = <<>>
      BY <2>5 DEF Open, CallsOpen, FollowerInv, Basics
    <3>2. Pairs(returned') = 0
      BY <3>1, EmptySeq, Halves DEF Pairs
    <3>3. Pairs(SubSeq(file', 1, start')) \in {0, Pairs(file)}
      <4>1. 0 \in 0 .. Len(file) /\ Len(file) \in 0 .. Len(file)
        BY <2>2
      <4>2. Len(SubSeq(file, 1, start')) = start'
        BY <2>2, <3>1, <4>1, BeginningLength
      <4> QED  BY <3>1, <4>2, Halves DEF Pairs
    <3>4. cursor = -1 /\ cursor' \in {0, Pairs(file)}
      <4>1. Pairs(file) \in Int
        BY <2>2 DEF Pairs
      <4> QED  BY <3>1, <3>2, <3>3, <4>1 DEF Cursor
    <3>5. Lines!Begin
      BY <1>0, <1>2, <3>1, <3>4 DEF Lines!Begin, Cursor
    <3> QED  BY <3>5 DEF Lines!Next
  <2>6. CASE TakeLine
    <3>1. pc = "reading" /\ UNCHANGED <<pc, file, start>>
      BY <2>6 DEF TakeLine
    <3>2. PICK m \in Nat : /\ offset - Len(buffer) = 2 * m /\ 2 * m <= Len(file)
                          /\ Cursor = m /\ Pairs(returned) \in Nat /\ start \in 0 .. Len(file)
      BY <1>2, <3>1, CursorIsOffset
    <3>3. /\ m < Pairs(file)
          /\ passed' = IF m + 1 \in Blank THEN passed ELSE Append(passed, Line(m + 1))
          /\ Pairs(returned') = Pairs(returned) + 1
          /\ Line(m + 1) \in Seq(Pieces)
      BY <1>2, <2>6, <3>1, <3>2, TakesNext
    <3>4. cursor = m /\ cursor' = m + 1
      <4>1. Pairs(SubSeq(file, 1, start)) \in Int
        <5>1. Len(SubSeq(file, 1, start)) = start /\ start \in Nat
          BY <2>2, <3>2, BeginningLength
        <5> QED  BY <5>1 DEF Pairs
      <4> QED  BY <3>1, <3>2, <3>3, <4>1 DEF Cursor
    <3>5. Numbers(passed)' = IF m + 1 \in Blank THEN Numbers(passed)
                                                ELSE Append(Numbers(passed), m + 1)
      <4>1. passed \in Seq(Seq(Pieces))
        BY DEF FollowerInv, Basics, TypeOK
      <4>2. Numbers(passed)' = Numbers(passed')
        BY DEF Numbers
      <4> QED  BY <3>3, <4>1, <4>2, NumbersOfAppend
    <3>6. Lines!Pass
      <4>1. 0 <= m /\ m < Pairs(file) /\ UNCHANGED file /\ pc = "reading" /\ pc' = pc
        BY <3>1, <3>2, <3>3
      <4>2. Cursor = m /\ Cursor' = m + 1
        BY <3>1, <3>4
      <4>3. [i \in DOMAIN passed |-> passed[i][1].line]'
              = IF m + 1 \in Blank THEN [i \in DOMAIN passed |-> passed[i][1].line]
                ELSE Append([i \in DOMAIN passed |-> passed[i][1].line], m + 1)
        BY <3>5 DEF Numbers
      <4> QED
        BY <1>0, <1>2, <4>1, <4>2, <4>3 DEF Lines!Pass, Cursor
    <3> QED  BY <3>6 DEF Lines!Next
  <2>7. ~TakeRest
    <3> SUFFICES ASSUME TakeRest PROVE FALSE
      OBVIOUS
    <3>1. Len(buffer) >= 1 /\ offset >= Len(file) /\ ~HasLine(buffer)
      <4>1. buffer \in Seq(Pieces) /\ buffer # <<>>
        BY DEF TakeRest, FollowerInv, Basics, TypeOK
      <4> QED  BY <4>1, EmptySeq, LenProperties DEF TakeRest
    <3> QED  BY <1>2, <3>1, BufferEndsLine DEF FollowerInv, Calm
  <2>8. CASE Create \/ Exists \/ OpenFails \/ ReadChunk \/ AtEnd \/ Check \/ UNCHANGED vars
    <3>1. UNCHANGED <<file, start, returned, passed>>
          /\ (pc \in {"opening", "found", "dead"} <=> pc' \in {"opening", "found", "dead"})
      BY <2>8 DEF Create, Exists, OpenFails, CallsOpen, ReadChunk, AtEnd, Check, vars
    <3> QED  BY <2>1, <3>1 DEF Cursor
  <2> QED
    BY <2>3, <2>4, <2>5, <2>6, <2>7, <2>8 DEF Next, Writer, Reading
<1> QED
  BY <1>1, <1>2

\* follow_file, in both programs: with a writer that only appends whole lines, every
\* line from where the reader began is handed on once, whole, in order and without
\* the blank ones; that it is handed on in the end is left to TLC.
THEOREM FollowerIsInOrder == Spec => Lines!InOrder
<1>1. FollowerInv /\ Numbered /\ [Next]_vars => [Lines!Next]_(Lines!vars)
  BY LinesStep
<1> QED  BY <1>1, LinesInit, NumberedInvariance, PTL DEF Spec, Lines!InOrder

----------------------------------------------------------------------------
(* What that comes to for the lines.                                       *)

\* A reader that began after line s and is done with line c has handed on the lines
\* between them and no others, in order, but for the blank ones.
Handed(s, c) ==
  /\ \A i \in 1 .. Len(passed) : \E n \in s + 1 .. c : n \notin Blank /\ passed[i] = Line(n)
  /\ \A n \in s + 1 .. c : n \notin Blank => \E i \in 1 .. Len(passed) : passed[i] = Line(n)
  /\ \A i, j \in 1 .. Len(passed) : \A m, n \in Nat :
       i < j /\ passed[i] = Line(m) /\ passed[j] = Line(n) => m < n
EachLineOnce ==
  habits = {} =>
    \A s, c \in Nat : start = 2 * s /\ offset - Len(buffer) = 2 * c => Handed(s, c)

LEMMA LinesDiffer == ASSUME NEW m, NEW n, Line(m) = Line(n) PROVE m = n
BY PiecesDiffer DEF Line

LEMMA NothingHanded == ASSUME NEW s \in Nat, passed = <<>> PROVE Handed(s, s)
<1>1. Len(<<>>) = 0
  BY EmptySeq
<1> QED  BY <1>1 DEF Handed

LEMMA WithoutLine ==
  ASSUME NEW S, NEW s \in Seq(S), Len(s) >= 2
  PROVE  Len(SubSeq(s, 3, Len(s))) = Len(s) - 2
<1>1. Len(s) \in Nat /\ \A i \in 3 .. Len(s) : s[i] \in S
  BY LenProperties, ElementOfSeq
<1>2. Len(SubSeq(s, 3, Len(s))) = IF 3 <= Len(s) THEN Len(s) - 3 + 1 ELSE 0
  BY <1>1, SubSeqProperties
<1>3. \A n \in Nat : n >= 2 => (IF 3 <= n THEN n - 3 + 1 ELSE 0) = n - 2
  OBVIOUS
<1> QED  BY <1>1, <1>2, <1>3

\* One more line.
LEMMA HandedGrows ==
  ASSUME passed \in Seq(Seq(Pieces)), NEW s \in Nat, NEW c \in Nat, s <= c, Handed(s, c),
         Line(c + 1) \in Seq(Pieces),
         passed' = IF c + 1 \in Blank THEN passed ELSE Append(passed, Line(c + 1))
  PROVE  Handed(s, c + 1)'
<1>1. \A n : n \in s + 1 .. c + 1 <=> n \in s + 1 .. c \/ n = c + 1
  OBVIOUS
<1>2. CASE c + 1 \in Blank
  BY <1>1, <1>2 DEF Handed
<1>3. CASE c + 1 \notin Blank
  <2>1. /\ Len(passed) \in Nat /\ Len(passed') = Len(passed) + 1
        /\ \A i \in 1 .. Len(passed) : passed'[i] = passed[i]
        /\ passed'[Len(passed) + 1] = Line(c + 1)
    BY <1>3, AppendProperties, LenProperties
  <2>2. \A i : i \in 1 .. Len(passed') <=> i \in 1 .. Len(passed) \/ i = Len(passed) + 1
    BY <2>1
  <2>3. \A i \in 1 .. Len(passed') : \E n \in s + 1 .. c + 1 : n \notin Blank /\ passed'[i] = Line(n)
    BY <1>1, <1>3, <2>1, <2>2 DEF Handed
  <2>4. \A n \in s + 1 .. c + 1 : n \notin Blank => \E i \in 1 .. Len(passed') : passed'[i] = Line(n)
    BY <1>1, <2>1, <2>2 DEF Handed
  <2>5. ASSUME NEW i \in 1 .. Len(passed'), NEW j \in 1 .. Len(passed'), NEW m \in Nat, NEW n \in Nat,
               i < j, passed'[i] = Line(m), passed'[j] = Line(n)
        PROVE  m < n
    <3>1. i \in 1 .. Len(passed)
      BY <2>1, <2>5
    <3>2. CASE j \in 1 .. Len(passed)
      BY <2>1, <2>5, <3>1, <3>2 DEF Handed
    <3>3. CASE j = Len(passed) + 1
      <4>1. n = c + 1
        BY <2>1, <2>5, <3>3, LinesDiffer
      <4>2. PICK k \in s + 1 .. c : passed[i] = Line(k)
        BY <3>1 DEF Handed
      <4>3. m = k
        BY <2>1, <2>5, <3>1, <4>2, LinesDiffer
      <4> QED  BY <4>1, <4>2, <4>3
    <3> QED  BY <2>2, <3>2, <3>3
  <2> QED  BY <2>3, <2>4, <2>5 DEF Handed
<1> QED  BY <1>2, <1>3

LEMMA EachLineInit == Init => EachLineOnce
<1> SUFFICES ASSUME Init, NEW s \in Nat, NEW c \in Nat, start = 2 * s, offset - Len(buffer) = 2 * c
             PROVE  Handed(s, c)
  BY DEF EachLineOnce
<1>1. s = 0 /\ c = 0
  <2>1. 2 * s = 0 /\ 2 * c = 0
    BY EmptySeq DEF Init
  <2> QED  BY <2>1
<1> QED  BY <1>1, NothingHanded DEF Init

LEMMA EachLineStep ==
  ASSUME FollowerInv, Numbered, EachLineOnce, [Next]_vars
  PROVE  EachLineOnce'
<1> USE DEF rigid, disk, reader
<1>0. habits' = habits
  BY Steps DEF FollowerInv, vars, Appends, Truncate, Rename, Create, Exists, Open, OpenFails, AtEnd, Check,
     CheckFails, Fills, Takes
<1> SUFFICES ASSUME habits = {}, NEW s \in Nat, NEW c \in Nat, start' = 2 * s,
                    offset' - Len(buffer') = 2 * c
             PROVE  Handed(s, c)'
  BY <1>0 DEF EachLineOnce
<1>1. /\ Len(buffer) \in Nat /\ Len(file) \in Nat /\ offset \in Nat /\ buffer \in Seq(Pieces)
      /\ offset <= Len(file) /\ Len(buffer) <= offset
      /\ begun = ended /\ ended \in Nat /\ passed \in Seq(Seq(Pieces))
      /\ start \in Nat /\ start <= offset
  BY Elements, FollowerConstants
     DEF FollowerInv, Basics, TypeOK, Aligned, Calm, Contiguous, OnOneFile
<1>2. ASSUME UNCHANGED <<start, passed>>, offset' - Len(buffer') = offset - Len(buffer)
      PROVE  Handed(s, c)'
  <2>1. start = 2 * s /\ offset - Len(buffer) = 2 * c
    BY <1>2
  <2>2. Handed(s, c)
    BY <2>1 DEF EachLineOnce
  <2> QED  BY <1>2, <2>2 DEF Handed
<1>3. CASE WriteLine \/ Create \/ Exists \/ OpenFails \/ AtEnd \/ CheckFails \/ UNCHANGED vars
  BY <1>2, <1>3 DEF WriteLine, Create, Exists, OpenFails, AtEnd, CheckFails, vars
<1>4. ~WriteOpening /\ ~WriteEnding /\ ~Truncate /\ ~Rename
  BY <1>1 DEF WriteOpening, WriteEnding, Truncate, Rename
<1>5. CASE Open
  <2>1. passed' = <<>> /\ buffer' = <<>> /\ offset' = start'
    BY <1>5 DEF Open, CallsOpen, FollowerInv, Basics
  <2>2. c = s
    BY <2>1, EmptySeq
  <2>3. passed = <<>>
    BY <1>5 DEF Open, CallsOpen, FollowerInv, Basics
  <2>4. Handed(s, s) /\ passed' = passed
    BY <2>1, <2>3, NothingHanded
  <2> QED  BY <2>2, <2>4 DEF Handed
<1>6. CASE Check
  <2>1. path = "same" /\ ~IsPast(offset, SizeAtPath)
    BY <1>1, <1>6 DEF Check, IsPast, SizeAtPath, FollowerInv, Basics
  <2> QED  BY <1>2, <1>6, <2>1 DEF Check
<1>7. CASE ReadChunk
  <2>1. PICK more, upto : Fills(more, upto)
    BY <1>7, ReadChunkFills DEF FollowerInv, Basics
  <2>2. /\ upto \in offset + 1 .. Len(file) /\ more \in Seq(Pieces) /\ Len(more) = upto - offset
        /\ buffer' = buffer \o more /\ offset' = upto /\ UNCHANGED <<start, passed>>
    BY <2>1 DEF Fills
  <2>3. Len(buffer \o more) = Len(buffer) + Len(more)
    BY <1>1, <2>2, ConcatLength
  <2> QED  BY <1>1, <1>2, <2>2, <2>3
<1>8. CASE TakeLine
  <2>1. pc = "reading" /\ UNCHANGED <<start, offset>>
    BY <1>8 DEF TakeLine
  <2>2. Len(buffer') = Len(buffer) - 2 /\ Len(buffer) >= 2
    <3>1. buffer' = SubSeq(buffer, 3, Len(buffer)) /\ Len(buffer) >= 2
      BY <1>8, TakesALine DEF FollowerInv, Calm
    <3> QED  BY <1>1, <3>1, WithoutLine
  <2>3. PICK m \in Nat : offset - Len(buffer) = 2 * m /\ 2 * m <= Len(file) /\ start <= 2 * m
    <3>1. PICK m \in Nat : /\ offset - Len(buffer) = 2 * m /\ 2 * m <= Len(file)
                          /\ Len(returned) = 2 * m - start
      BY <2>1, CursorIsOffset
    <3>2. Len(returned) \in Nat
      BY LenProperties DEF FollowerInv, Basics, TypeOK
    <3> QED  BY <1>1, <3>1, <3>2
  <2>4. c = m + 1 /\ s <= m
    BY <1>1, <2>1, <2>2, <2>3
  <2>5. Handed(s, m)
    BY <2>1, <2>3 DEF EachLineOnce
  <2>6. /\ passed' = IF m + 1 \in Blank THEN passed ELSE Append(passed, Line(m + 1))
        /\ Line(m + 1) \in Seq(Pieces)
    BY <1>8, <2>1, <2>3, TakesNext
  <2> QED  BY <1>1, <2>4, <2>5, <2>6, HandedGrows
<1>9. ~TakeRest
  <2> SUFFICES ASSUME TakeRest PROVE FALSE
    OBVIOUS
  <2>1. Len(buffer) >= 1 /\ offset >= Len(file) /\ ~HasLine(buffer)
    BY <1>1, EmptySeq DEF TakeRest
  <2> QED  BY <2>1, BufferEndsLine DEF FollowerInv, Calm
<1> QED
  BY <1>3, <1>4, <1>5, <1>6, <1>7, <1>8, <1>9 DEF Next, Writer, Reading

\* follow_file, in both programs: of a file to which whole lines are appended, the lines
\* handed on are those from where the reader began to where it is, each of them once
\* and none in between left out but the blank ones.
THEOREM NoGaps ==
  Spec => [](habits = {} =>
               \E s, c \in Nat :
                 start = 2 * s /\ offset - Len(buffer) = 2 * c /\ Handed(s, c))
<1>1. FollowerInv /\ Numbered /\ EachLineOnce /\ [Next]_vars => EachLineOnce'
  BY EachLineStep
<1>2. FollowerInv /\ Numbered /\ EachLineOnce =>
        (habits = {} =>
           \E s, c \in Nat :
             start = 2 * s /\ offset - Len(buffer) = 2 * c /\ Handed(s, c))
  BY DEF FollowerInv, Aligned, Calm, Numbered, Even, EachLineOnce
<1> QED  BY <1>1, <1>2, EachLineInit, NumberedInvariance, PTL DEF Spec

=============================================================================
