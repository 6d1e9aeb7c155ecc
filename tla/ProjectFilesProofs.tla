------------------------- MODULE ProjectFilesProofs -------------------------
(***************************************************************************)
(* Theorems about ProjectFiles for files of every length, every size of a  *)
(* block and every limit for arcs.  The inductive invariant ties the       *)
(* counter of each loop to Row, the number of records up to a line:        *)
(* countRecords and readDataBlock leave out the header, parseFile does     *)
(* not, and the block under construction holds the records past the ones   *)
(* that have been sent.                                                    *)
(***************************************************************************)
EXTENDS ProjectFiles, FiniteSetTheorems, SequenceTheorems, TLAPS

Command == [record : Nat, line : 1..MaxLines, type : Motion, radius : Nat]
Sendable == {FlattenArcLine(l, t) : l \in Lines, t \in Thresholds}

Shapes ==
  /\ file \in Seq(Lines) /\ Len(file) <= MaxLines
  /\ size \in BlockSizes /\ threshold \in Thresholds
  /\ phase \in {"count", "parse", "block", "done"}
  /\ pos \in 0..Len(file) /\ rec \in Nat /\ count \in Nat /\ failed \in BOOLEAN
  /\ commands \in Seq(Command)
  /\ block \in Seq(Lines) /\ sent \in Seq(Seq(Sendable))

\* What each loop has counted.
Counting ==
  /\ phase # "parse" => rec = Row(pos)
  /\ phase = "parse" => rec = Row(pos) + (IF pos > 0 THEN Shift ELSE 0)
  /\ count = IF phase = "count" THEN 0 ELSE Row(Len(file))
  /\ phase = "count" => commands = <<>>
  /\ phase \in {"count", "parse"} => block = <<>> /\ sent = <<>>

\* A command is a line with a motion, and its number follows from the line's row.
Numbered ==
  \A c \in DOMAIN commands :
    LET i == commands[c].line IN
    /\ i \in 1..Len(file) /\ ~file[i].blank
    /\ commands[c].record + 1 = Row(i) + Shift
    /\ commands[c].type = CommandType(file[i]) /\ commands[c].radius = file[i].radius

\* A line with a motion that parseFile has been past is a command or an error.
Past == IF phase = "parse" THEN pos ELSE Len(file)
Seen(i) == \/ \E c \in DOMAIN commands : commands[c].line = i
           \/ Unreadable(file[i]) /\ failed
Noted ==
  phase # "count" => \A i \in 1..Past : CommandType(file[i]) # "none" => Seen(i)

Base == Len(sent) * size

\* The block under construction.
Cutting ==
  phase \in {"block", "done"} =>
    /\ rec <= Base + size
    /\ Len(block) = IF rec > Base THEN rec - Base ELSE 0
    /\ \A i \in 1..pos : IsRecord(i) /\ Row(i) > Base => block[Row(i) - Base] = file[i]

\* The blocks that have been sent.
Delivered ==
  /\ \A b \in DOMAIN sent :
       /\ Before(b) < count
       /\ Len(sent[b]) = IF size <= count - Before(b) THEN size ELSE count - Before(b)
       /\ \A i \in 1..Len(file) : IsRecord(i) /\ Row(i) - Before(b) \in 1..size =>
            sent[b][Row(i) - Before(b)] = FlattenArcLine(file[i], threshold)
  /\ \A i \in 1..Len(file) : IsRecord(i) /\ Row(i) <= Base =>
       \E b \in DOMAIN sent : Row(i) - Before(b) \in 1..size
  /\ phase = "done" => count <= Base

IInv == Shapes /\ Counting /\ Numbered /\ Noted /\ Cutting /\ Delivered

----------------------------------------------------------------------------
(* Rows and blocks as numbers.                                             *)

\* The records up to a line are finitely many, none of them is the header.
LEMMA RowBound ==
  ASSUME NEW i \in Nat
  PROVE  /\ IsFiniteSet({j \in 2..i : IsRecord(j)})
         /\ Row(i) \in Nat /\ Row(i) <= i /\ (i > 0 => Row(i) <= i - 1)
<1> DEFINE S == {j \in 2..i : IsRecord(j)}
<1>1. IsFiniteSet(2..i) /\ Cardinality(2..i) = IF 2 > i THEN 0 ELSE i - 2 + 1
  BY FS_Interval
<1>2. IsFiniteSet(S) /\ Cardinality(S) <= Cardinality(2..i)
  BY <1>1, FS_Subset
<1>3. Cardinality(S) \in Nat
  BY <1>2, FS_CardinalityType
<1> QED BY <1>1, <1>2, <1>3 DEF Row

LEMMA RowNat == \A i \in Nat : Row(i) \in Nat
<1> SUFFICES ASSUME NEW i \in Nat PROVE Row(i) \in Nat OBVIOUS
<1> QED BY RowBound

\* One line more is one row more if it is a record.
LEMMA RowStep ==
  ASSUME NEW i \in Nat
  PROVE  Row(i + 1) = IF IsRecord(i + 1) THEN Row(i) + 1 ELSE Row(i)
<1> DEFINE S == {j \in 2..i : IsRecord(j)}
           T == {j \in 2..(i + 1) : IsRecord(j)}
<1>1. IsFiniteSet(S) /\ i + 1 \notin S
  BY RowBound
<1>2. CASE IsRecord(i + 1)
  <2>1. T = S \cup {i + 1}
    BY <1>2 DEF IsRecord
  <2>2. Cardinality(S \cup {i + 1}) = Cardinality(S) + 1
    BY <1>1, FS_AddElement
  <2> QED BY <1>2, <2>1, <2>2 DEF Row
<1>3. CASE ~IsRecord(i + 1)
  <2>1. T = S
    BY <1>3
  <2> QED BY <1>3, <2>1 DEF Row
<1> QED BY <1>2, <1>3

LEMMA RowZero == Row(0) = 0
<1>1. 0 \in Nat
  OBVIOUS
<1>2. Row(0) \in Nat /\ Row(0) <= 0
  BY <1>1, RowBound
<1> QED BY <1>2

\* Later lines have no smaller rows, later records greater ones.
LEMMA RowOrder ==
  ASSUME NEW i \in Nat, NEW k \in Nat, i <= k
  PROVE  /\ Row(i) <= Row(k)
         /\ i < k /\ IsRecord(k) => Row(i) < Row(k)
<1>1. \A m \in Nat : i <= m => Row(i) <= Row(m)
  <2> SUFFICES ASSUME NEW m \in Nat, i <= m PROVE Row(i) <= Row(m) OBVIOUS
  <2> DEFINE S == {j \in 2..i : IsRecord(j)}
             T == {j \in 2..m : IsRecord(j)}
  <2>1. S \subseteq T /\ IsFiniteSet(T)
    BY RowBound
  <2>2. Cardinality(S) <= Cardinality(T)
    BY <2>1, FS_Subset
  <2> QED BY <2>2 DEF Row
<1>2. ASSUME i < k, IsRecord(k) PROVE Row(i) < Row(k)
  <2>1. k - 1 \in Nat /\ i <= k - 1 /\ (k - 1) + 1 = k
    BY <1>2
  <2>2. Row((k - 1) + 1) = IF IsRecord((k - 1) + 1) THEN Row(k - 1) + 1 ELSE Row(k - 1)
    BY <2>1, RowStep
  <2>3. Row(i) <= Row(k - 1) /\ Row(i) \in Nat /\ Row(k - 1) \in Nat
    BY <1>1, <2>1, RowBound
  <2> QED BY <1>2, <2>1, <2>2, <2>3
<1> QED BY <1>1, <1>2

\* Where blocks begin.
LEMMA BlockStarts ==
  ASSUME NEW k \in Nat, size \in Nat
  PROVE  /\ k * size \in Nat /\ (k + 1) * size = k * size + size
         /\ Before(k + 1) = k * size
         /\ k > 0 => Before(k) + size = k * size /\ Before(k) \in Nat
<1>1. k * size \in Nat /\ (k + 1) * size = k * size + size
  OBVIOUS
<1>2. Before(k + 1) = k * size
  BY DEF Before
<1>3. k > 0 => Before(k) + size = k * size /\ Before(k) \in Nat
  <2> SUFFICES ASSUME k > 0 PROVE Before(k) + size = k * size /\ Before(k) \in Nat OBVIOUS
  <2>1. k - 1 \in Nat
    OBVIOUS
  <2>2. (k - 1) * size \in Nat /\ ((k - 1) + 1) * size = (k - 1) * size + size
    BY <2>1
  <2> QED BY <2>2 DEF Before
<1> QED BY <1>1, <1>2, <1>3

\* Rows and records are those of the input, which nothing changes.
LEMMA RowStays ==
  ASSUME UNCHANGED input
  PROVE  /\ \A i : IsRecord(i)' <=> IsRecord(i)
         /\ \A i : Row(i)' = Row(i)
         /\ \A b : Before(b)' = Before(b)
         /\ Shift' = Shift
BY DEF input, IsRecord, Row, Before, Shift

----------------------------------------------------------------------------
(* What is drawn and what is sent.                                         *)

\* Among at most one place there is a first.
LEMMA FirstIsOne ==
  ASSUME NEW S \in SUBSET Nat, S # {}, \A i, j \in S : i = j
  PROVE  FirstOf(S) \in S
<1>1. PICK i \in S : TRUE
  OBVIOUS
<1>2. \A j \in S : i <= j
  <2>1. i \in Nat /\ i <= i
    OBVIOUS
  <2> QED BY <1>1, <2>1
<1> QED BY <1>2 DEF FirstOf

\* The type of a line is its one motion.
LEMMA TypeIsMotion ==
  ASSUME NEW line \in Lines, CommandType(line) # "none"
  PROVE  \E k \in DOMAIN line.g :
           /\ k = FirstOf(Motions(line))
           /\ CommandType(line) = line.g[k] /\ line.g[k] \in Motion
           /\ \A i \in DOMAIN line.g : line.g[i] \in Motion => i = k
           /\ ~line.comment /\ ~line.blank
<1>1. /\ line.g \in Seq(STRING)
      /\ \A i, j \in DOMAIN line.g : line.g[i] \in Motion /\ line.g[j] \in Motion => i = j
      /\ line.blank => ~line.comment /\ line.g = <<>>
  BY FileAssumption
<1>2. ~line.comment /\ Motions(line) # {}
  BY DEF CommandType
<1>3. DOMAIN line.g \subseteq Nat
  BY <1>1
<1>4. FirstOf(Motions(line)) \in Motions(line)
  BY <1>1, <1>2, <1>3, FirstIsOne DEF Motions
<1>5. ~line.blank
  BY <1>1, <1>2 DEF Motions
<1> QED BY <1>1, <1>2, <1>4, <1>5 DEF Motions, CommandType

\* flattenArcLine and renderCommand decide alike about a line of a given type.
LEMMA FlattenedAsDrawn ==
  ASSUME NEW line \in Lines, NEW limit \in Thresholds, NEW command,
         command.type = CommandType(line), command.radius = line.radius,
         CommandType(line) # "none"
  PROVE  CommandType(FlattenArcLine(line, limit)) = Drawn(command, limit)
<1> DEFINE small == ShouldFlatten(line.radius, limit)
<1>1. PICK k \in DOMAIN line.g :
        /\ k = FirstOf(Motions(line))
        /\ CommandType(line) = line.g[k] /\ line.g[k] \in Motion
        /\ \A i \in DOMAIN line.g : line.g[i] \in Motion => i = k
        /\ ~line.comment /\ ~line.blank
  BY TypeIsMotion
<1>2. (\E i \in DOMAIN line.g : line.g[i] \in Arcs) <=> line.g[k] \in Arcs
  BY <1>1 DEF Arcs, Motion
<1>3. CASE line.g[k] \in Arcs /\ small
  <2> DEFINE flat == [line EXCEPT !.g = [i \in DOMAIN @ |-> IF @[i] \in Arcs THEN "1" ELSE @[i]],
                                  !.radius = 0]
  <2>1. FlattenArcLine(line, limit) = flat
    BY <1>2, <1>3 DEF FlattenArcLine
  <2>2. line \in [blank : BOOLEAN, comment : BOOLEAN, bad : BOOLEAN,
                  g : Seq(STRING), radius : Nat]
    BY FileAssumption
  <2>3. /\ flat.g = [i \in DOMAIN line.g |-> IF line.g[i] \in Arcs THEN "1" ELSE line.g[i]]
        /\ flat.comment = line.comment
    BY <2>2
  <2>4. Motions(flat) = Motions(line)
    BY <2>3 DEF Motions, Motion, Arcs
  <2>5. flat.g[k] = "1" /\ k \in Motions(line)
    BY <1>1, <1>3, <2>3 DEF Motions
  <2>6. CommandType(flat) = "1"
    BY <1>1, <2>3, <2>4, <2>5 DEF CommandType
  <2>7. Drawn(command, limit) = "1"
    BY <1>1, <1>3 DEF Drawn
  <2> QED BY <2>1, <2>6, <2>7
<1>4. CASE ~(line.g[k] \in Arcs /\ small)
  <2>1. FlattenArcLine(line, limit) = line
    BY <1>2, <1>4 DEF FlattenArcLine
  <2>2. Drawn(command, limit) = CommandType(line)
    BY <1>1, <1>4 DEF Drawn
  <2> QED BY <2>1, <2>2
<1> QED BY <1>3, <1>4

----------------------------------------------------------------------------
(* The loops.                                                              *)

LEMMA InitEstablishes == Init => IInv
<1> SUFFICES ASSUME Init PROVE IInv OBVIOUS
<1>1. PICK n \in 0..MaxLines : file \in [1..n -> Lines]
  BY DEF Init
<1>2. file \in Seq(Lines) /\ Len(file) = n
  BY <1>1, FileAssumption
<1>3. Shapes
  <2>1. /\ size \in BlockSizes /\ threshold \in Thresholds
        /\ phase = "count" /\ pos = 0 /\ rec = 0 /\ count = 0 /\ failed = FALSE
        /\ commands = <<>> /\ block = <<>> /\ sent = <<>>
    BY DEF Init
  <2>2. n \in Nat /\ n <= MaxLines
    BY <1>1, FileAssumption
  <2>3. commands \in Seq(Command) /\ block \in Seq(Lines) /\ sent \in Seq(Seq(Sendable))
    BY <2>1
  <2>4. file \in Seq(Lines) /\ Len(file) <= MaxLines /\ pos \in 0..Len(file)
    BY <1>2, <2>1, <2>2
  <2> QED BY <2>1, <2>3, <2>4 DEF Shapes
<1>4. Counting
  BY RowZero DEF Init, Counting
<1>5. Numbered /\ Noted /\ Cutting
  BY DEF Init, Numbered, Noted, Cutting
<1>6. Delivered
  <2>1. sent = <<>> /\ Base = 0 /\ phase = "count"
    BY FileAssumption DEF Init, Base
  <2>2. \A i \in 1..Len(file) : IsRecord(i) => Row(i) > 0
    <3> SUFFICES ASSUME NEW i \in 1..Len(file), IsRecord(i) PROVE Row(i) > 0 OBVIOUS
    <3>1. 0 \in Nat /\ i \in Nat /\ 0 <= i /\ 0 < i
      BY <1>2
    <3> QED BY <3>1, RowOrder, RowZero
  <2>3. \A i \in 1..Len(file) : Row(i) \in Nat
    <3> SUFFICES ASSUME NEW i \in 1..Len(file) PROVE Row(i) \in Nat OBVIOUS
    <3>1. i \in Nat
      BY <1>2
    <3> QED BY <3>1, RowNat
  <2> QED BY <2>1, <2>2, <2>3 DEF Delivered
<1> QED BY <1>3, <1>4, <1>5, <1>6 DEF IInv

\* The line a loop reads next.
LEMMA NextLine ==
  ASSUME Shapes, ~AtEnd
  PROVE  /\ pos \in Nat /\ pos + 1 \in 1..Len(file) /\ Line \in Lines
         /\ IsRecord(pos + 1) <=> ~Header /\ ~Line.blank
         /\ Row(pos) \in Nat /\ Row(pos + 1) \in Nat
         /\ Row(pos + 1) = IF Header \/ Line.blank THEN Row(pos) ELSE Row(pos) + 1
<1>1. pos \in Nat /\ pos + 1 \in 1..Len(file) /\ Line \in Lines /\ Len(file) \in Nat
  BY DEF Shapes, AtEnd, Line
<1>2. IsRecord(pos + 1) <=> ~Header /\ ~Line.blank
  BY <1>1 DEF IsRecord, Header, Line
<1>3. Row(pos) \in Nat /\ Row(pos + 1) \in Nat
  <2>1. pos + 1 \in Nat
    BY <1>1
  <2> QED BY <1>1, <2>1, RowNat
<1>4. Row(pos + 1) = IF IsRecord(pos + 1) THEN Row(pos) + 1 ELSE Row(pos)
  BY <1>1, RowStep
<1> QED BY <1>1, <1>2, <1>3, <1>4

\* As long as no block is begun or sent, and the input stays.
LEMMA NothingSent ==
  ASSUME IInv, UNCHANGED input, sent = <<>>, UNCHANGED sent, phase' # "done"
  PROVE  Delivered'
<1>1. \A i \in 1..Len(file) : IsRecord(i) => Row(i) > 0 /\ Row(i) \in Nat
  <2> SUFFICES ASSUME NEW i \in 1..Len(file), IsRecord(i) PROVE Row(i) > 0 /\ Row(i) \in Nat OBVIOUS
  <2>1. 0 \in Nat /\ i \in Nat /\ 0 <= i /\ 0 < i
    BY DEF IInv, Shapes
  <2> QED BY <2>1, RowOrder, RowZero, RowBound
<1>2. sent' = <<>> /\ Base' = 0 /\ file' = file
  BY FileAssumption DEF IInv, Shapes, Base, input
<1> QED BY <1>1, <1>2, RowStays DEF Delivered

\* Once parseFile is through, what it has noted stays.
LEMMA NotedStays ==
  ASSUME IInv, UNCHANGED <<file, commands, failed>>, phase' \in {"block", "done"},
         phase \in {"block", "done"} \/ (phase = "parse" /\ AtEnd)
  PROVE  Noted'
<1>1. Past = Len(file) /\ Past' = Len(file)
  BY DEF Past, AtEnd
<1>2. \A i : (Seen(i)' <=> Seen(i)) /\ CommandType(file'[i]) = CommandType(file[i])
  BY DEF Seen
<1> QED BY <1>1, <1>2 DEF IInv, Noted

\* countRecords counts the records up to where it has read.
LEMMA CountPreserves ==
  ASSUME IInv, CountLine
  PROVE  IInv'
<1> USE DEF IInv
<1>1. /\ phase = "count" /\ UNCHANGED <<file, size, threshold, commands, failed, block, sent>>
      /\ commands = <<>> /\ block = <<>> /\ sent = <<>> /\ UNCHANGED input
  BY DEF CountLine, Counting, input
<1>2. Numbered'
  BY <1>1 DEF Numbered
<1>3. CASE ~AtEnd /\ pos' = pos + 1 /\ rec' = (IF Header \/ Line.blank THEN rec ELSE rec + 1)
           /\ UNCHANGED <<phase, count>>
  <2>1. Shapes'
    BY <1>1, <1>3, NextLine DEF Shapes
  <2>2. rec' = Row(pos') 
    BY <1>1, <1>3, NextLine DEF Counting
  <2>3. Counting'
    BY <1>1, <1>3, <2>2, RowStays DEF Counting
  <2>4. Noted' /\ Cutting'
    BY <1>1, <1>3 DEF Noted, Cutting
  <2> QED BY <1>1, <1>2, <1>3, <2>1, <2>3, <2>4, NothingSent
<1>4. CASE AtEnd /\ count' = rec /\ NextLoop("parse")
  <2>1. Shapes'
    BY <1>1, <1>4 DEF Shapes, NextLoop
  <2>2. count' = Row(Len(file)) /\ phase' = "parse" /\ pos' = 0 /\ rec' = 0
    BY <1>1, <1>4 DEF Counting, NextLoop, AtEnd
  <2>3. Counting'
    BY <1>1, <2>2, RowStays, RowZero DEF Counting
  <2>4. Noted' /\ Cutting'
    BY <2>2 DEF Noted, Past, Cutting
  <2> QED BY <1>1, <1>2, <2>1, <2>2, <2>3, <2>4, NothingSent
<1> QED BY <1>3, <1>4 DEF CountLine

\* parseFile counts the header as well and notes commands with their numbers.
LEMMA ParsePreserves ==
  ASSUME IInv, ParseLine
  PROVE  IInv'
<1> USE DEF IInv
<1>1. /\ phase = "parse" /\ UNCHANGED <<file, size, threshold, count, block, sent>>
      /\ block = <<>> /\ sent = <<>> /\ UNCHANGED input
  BY DEF ParseLine, Counting, input
<1>2. CASE /\ ~AtEnd /\ pos' = pos + 1 /\ rec' = (IF Line.blank THEN rec ELSE rec + 1)
           /\ failed' = (failed \/ Unreadable(Line))
           /\ commands' = (IF CommandType(Line) = "none" \/ Unreadable(Line) THEN commands
                           ELSE Append(commands, [record |-> rec, line |-> pos + 1,
                                  type |-> CommandType(Line), radius |-> Line.radius]))
           /\ UNCHANGED phase
  <2> DEFINE command == [record |-> rec, line |-> pos + 1,
                         type |-> CommandType(Line), radius |-> Line.radius]
  <2> DEFINE Told(i) == \/ \E c \in DOMAIN commands' : commands'[c].line = i
                        \/ Unreadable(file[i]) /\ failed'
  <2>1. rec = Row(pos) + (IF pos > 0 THEN Shift ELSE 0)
    BY <1>1 DEF Counting
  <2>2. rec' = Row(pos + 1) + Shift /\ (~Line.blank => rec' = rec + 1)
    <3>1. CASE pos = 0
      <4>1. Shift = IF Line.blank THEN 0 ELSE 1
        BY <1>2, <3>1, NextLine DEF Shift, Line, AtEnd, Shapes
      <4>2. Row(pos + 1) = Row(pos) /\ rec = Row(pos)
        BY <1>2, <2>1, <3>1, NextLine DEF Header
      <4> QED BY <1>2, <4>1, <4>2, NextLine DEF Shapes
    <3>2. CASE pos # 0
      <4>1. pos > 0 /\ Shift \in 0..1
        BY <3>2 DEF Shapes, Shift
      <4>2. Row(pos + 1) = IF Line.blank THEN Row(pos) ELSE Row(pos) + 1
        BY <1>2, <3>2, NextLine DEF Header
      <4> QED BY <1>2, <2>1, <4>1, <4>2, NextLine DEF Shapes
    <3> QED BY <3>1, <3>2
  <2>3. Counting'
    BY <1>1, <1>2, <2>2, NextLine, RowStays DEF Counting
  <2>4. /\ DOMAIN commands \in SUBSET Nat /\ pos \in Nat /\ phase' = "parse" /\ file' = file
        /\ failed => failed'
    BY <1>1, <1>2 DEF Shapes
  <2>5. ASSUME DOMAIN commands \subseteq DOMAIN commands',
               \A c \in DOMAIN commands : commands'[c] = commands[c],
               CommandType(Line) # "none" => Told(pos + 1)
        PROVE  Noted'
    <3>1. ASSUME NEW i \in 1..pos, CommandType(file[i]) # "none" PROVE Told(i)
      <4>1. Seen(i)
        BY <1>1, <3>1 DEF Noted, Past
      <4> QED BY <2>4, <2>5, <4>1 DEF Seen
    <3>2. ASSUME NEW i \in 1..(pos + 1), CommandType(file[i]) # "none" PROVE Told(i)
      <4>1. CASE i = pos + 1
        BY <2>5, <3>2, <4>1 DEF Line
      <4>2. CASE i # pos + 1
        <5>1. i \in 1..pos
          BY <2>4, <4>2
        <5> QED BY <3>1, <3>2, <5>1
      <4> QED BY <4>1, <4>2
    <3>3. Past' = pos + 1
      BY <1>2, <2>4 DEF Past
    <3>4. \A i \in 1..(pos + 1) : CommandType(file[i]) # "none" => Seen(i)'
      BY <2>4, <3>2 DEF Seen
    <3>5. \A i \in 1..Past' : CommandType(file'[i]) # "none" => Seen(i)'
      BY <2>4, <3>3, <3>4
    <3> QED BY <3>5 DEF Noted
  <2>6. CASE CommandType(Line) = "none" \/ Unreadable(Line)
    <3>1. commands' = commands
      BY <1>2, <2>6
    <3>2. Shapes'
      BY <1>1, <1>2, <3>1, NextLine DEF Shapes
    <3>3. Numbered'
      BY <1>1, <3>1, RowStays DEF Numbered
    <3>4. CommandType(Line) # "none" => Told(pos + 1)
      BY <1>2, <2>6 DEF Line
    <3>5. Noted'
      BY <2>5, <3>1, <3>4
    <3> QED BY <1>1, <1>2, <2>3, <3>2, <3>3, <3>5, NothingSent DEF Cutting
  <2>7. CASE ~(CommandType(Line) = "none" \/ Unreadable(Line))
    <3>1. Line \in Lines /\ commands' = Append(commands, command)
      BY <1>2, <2>7, NextLine
    <3>2. ~Line.blank /\ CommandType(Line) \in Motion
      BY <2>7, <3>1, TypeIsMotion
    <3>3. Line.radius \in Nat
      BY <3>1, FileAssumption
    <3>4. command \in Command
      BY <1>2, <3>2, <3>3, NextLine, FileAssumption DEF Command, Shapes
    <3>5. commands' \in Seq(Command) /\ Len(commands') = Len(commands) + 1
          /\ commands'[Len(commands) + 1] = command
          /\ \A c \in 1..Len(commands) : commands'[c] = commands[c]
      BY <3>1, <3>4 DEF Shapes
    <3>6. Shapes'
      BY <1>1, <1>2, <3>5, NextLine DEF Shapes
    <3>7. command.record + 1 = Row(command.line) + Shift /\ ~file[command.line].blank
          /\ command.line \in 1..Len(file) /\ command.type = CommandType(file[command.line])
          /\ command.radius = file[command.line].radius
      BY <1>2, <2>2, <3>2, NextLine DEF Line
    <3>8. DOMAIN commands = 1..Len(commands) /\ DOMAIN commands' = 1..(Len(commands) + 1)
          /\ Len(commands) \in Nat
      BY <3>5 DEF Shapes
    <3>9. ASSUME NEW c \in DOMAIN commands'
          PROVE  LET i == commands'[c].line IN
                 /\ i \in 1..Len(file) /\ ~file[i].blank
                 /\ commands'[c].record + 1 = Row(i) + Shift
                 /\ commands'[c].type = CommandType(file[i])
                 /\ commands'[c].radius = file[i].radius
      <4>1. CASE c = Len(commands) + 1
        BY <3>5, <3>7, <4>1
      <4>2. CASE c \in DOMAIN commands
        BY <3>5, <3>8, <4>2 DEF Numbered
      <4> QED BY <3>8, <4>1, <4>2
    <3>10. Numbered'
      BY <1>1, <3>9, RowStays DEF Numbered
    <3>11. Told(pos + 1)
      BY <3>5, <3>8
    <3>12. Noted'
      BY <2>5, <3>5, <3>8, <3>11
    <3> QED BY <1>1, <1>2, <2>3, <3>6, <3>10, <3>12, NothingSent DEF Cutting
  <2> QED BY <2>6, <2>7
<1>3. CASE AtEnd /\ NextLoop("block") /\ UNCHANGED <<commands, failed>>
  <2>1. phase' = "block" /\ pos' = 0 /\ rec' = 0
    BY <1>3 DEF NextLoop
  <2>2. Shapes'
    BY <1>1, <1>3, <2>1 DEF Shapes
  <2>3. Counting'
    BY <1>1, <2>1, RowStays, RowZero DEF Counting
  <2>4. Numbered'
    BY <1>1, <1>3, RowStays DEF Numbered
  <2>5. Cutting'
    BY <1>1, <2>1, FileAssumption DEF Cutting, Base, Shapes
  <2>6. Noted'
    BY <1>1, <1>3, <2>1, NotedStays
  <2> QED BY <1>1, <2>1, <2>2, <2>3, <2>4, <2>5, <2>6, NothingSent
<1> QED BY <1>2, <1>3 DEF ParseLine

\* Where the present block begins and ends.
LEMMA BlockPlace ==
  ASSUME IInv
  PROVE  /\ size \in Nat /\ size > 0 /\ Len(sent) \in Nat /\ Base \in Nat
         /\ (Len(sent) + 1) * size = Base + size /\ Before(Len(sent) + 1) = Base
<1>1. size \in Nat /\ size > 0 /\ Len(sent) \in Nat
  BY FileAssumption DEF IInv, Shapes
<1>2. /\ Len(sent) * size \in Nat /\ (Len(sent) + 1) * size = Len(sent) * size + size
      /\ Before(Len(sent) + 1) = Len(sent) * size
  BY <1>1, BlockStarts
<1> QED BY <1>1, <1>2 DEF Base

\* readDataBlock skips the rows of the blocks before and collects up to a full block.
LEMMA ReadPreserves ==
  ASSUME IInv, phase = "block", ~AtEnd, rec < Base + size,
         pos' = pos + 1,
         rec' = (IF Header \/ Line.blank THEN rec ELSE rec + 1),
         block' = (IF ~Header /\ ~Line.blank /\ rec >= Base THEN Append(block, Line) ELSE block),
         UNCHANGED <<file, size, threshold, count, commands, failed, phase, sent>>
  PROVE  IInv'
<1> DEFINE take == ~Header /\ ~Line.blank /\ rec >= Base
<1> USE DEF IInv
<1>1. Base \in Nat /\ size \in Nat /\ Base' = Base /\ UNCHANGED input
  BY BlockPlace DEF Base, input
<1>2. /\ pos \in Nat /\ pos + 1 \in 1..Len(file) /\ Line \in Lines
      /\ IsRecord(pos + 1) <=> ~Header /\ ~Line.blank
      /\ Row(pos + 1) = IF Header \/ Line.blank THEN Row(pos) ELSE Row(pos) + 1
  BY NextLine
<1>3. rec = Row(pos) /\ rec' = Row(pos + 1) /\ rec \in Nat
  BY <1>2 DEF Counting, Shapes
<1>4. block \in Seq(Lines) /\ Len(block) = IF rec > Base THEN rec - Base ELSE 0
  BY DEF Shapes, Cutting
<1>5. /\ block' \in Seq(Lines)
      /\ Len(block') = IF take THEN Len(block) + 1 ELSE Len(block)
      /\ \A j \in 1..Len(block) : block'[j] = block[j]
      /\ take => block'[Len(block) + 1] = Line
  <2>1. CASE take
    BY <1>2, <1>4, <2>1
  <2>2. CASE ~take
    <3>1. block' = block
      BY <2>2
    <3> QED BY <1>4, <2>2, <3>1
  <2> QED BY <2>1, <2>2
<1>6. Shapes'
  <2>1. rec' \in Nat /\ pos' \in 0..Len(file)
    BY <1>2, <1>3 DEF Shapes
  <2> QED BY <1>5, <2>1 DEF Shapes
<1>7. Counting'
  BY <1>1, <1>3, RowStays DEF Counting
<1>8. Numbered' /\ Noted'
  BY <1>1, RowStays, NotedStays DEF Numbered
<1>9. Cutting'
  <2>1. rec' <= Base + size /\ Len(block') = IF rec' > Base THEN rec' - Base ELSE 0
    BY <1>1, <1>3, <1>4, <1>5
  <2>2. ASSUME NEW i \in 1..(pos + 1), IsRecord(i), Row(i) > Base
        PROVE  block'[Row(i) - Base] = file[i]
    <3>1. CASE i = pos + 1
      <4>1. take /\ Row(i) = rec + 1
        BY <1>1, <1>2, <1>3, <2>2, <3>1
      <4>2. Len(block) + 1 = Row(i) - Base
        BY <1>1, <1>3, <1>4, <4>1
      <4> QED BY <1>5, <3>1, <4>1, <4>2 DEF Line
    <3>2. CASE i # pos + 1
      <4>1. i \in Nat /\ i \in 1..pos /\ i <= pos
        BY <1>2, <3>2
      <4>2. Row(i) <= rec /\ Row(i) \in Nat
        BY <1>2, <1>3, <4>1, RowOrder, RowNat
      <4>3. Row(i) - Base \in 1..Len(block)
        BY <1>1, <1>3, <1>4, <2>2, <4>2
      <4>4. block[Row(i) - Base] = file[i]
        BY <2>2, <4>1 DEF Cutting
      <4> QED BY <1>5, <4>3, <4>4
    <3> QED BY <3>1, <3>2
  <2> QED BY <1>1, <2>1, <2>2, RowStays DEF Cutting
<1>10. Delivered'
  BY <1>1, RowStays DEF Delivered
<1> QED BY <1>6, <1>7, <1>8, <1>9, <1>10

\* A block that is complete, or the last one, has the rows that are its own.
LEMMA SendPreserves ==
  ASSUME IInv, phase = "block", Base < count, AtEnd \/ rec >= Base + size,
         sent' = Append(sent, [i \in DOMAIN block |-> FlattenArcLine(block[i], threshold)]),
         block' = <<>>, phase' = "block", pos' = 0, rec' = 0,
         UNCHANGED <<file, size, threshold, count, commands, failed>>
  PROVE  IInv'
<1> DEFINE k == Len(sent) + 1
           rows == [i \in DOMAIN block |-> FlattenArcLine(block[i], threshold)]
<1> USE DEF IInv
<1>1. /\ Base \in Nat /\ size \in Nat /\ size > 0 /\ Len(sent) \in Nat
      /\ k * size = Base + size /\ Before(k) = Base /\ UNCHANGED input
  BY BlockPlace DEF input
<1>2. /\ file \in Seq(Lines) /\ Len(file) \in Nat /\ pos \in 0..Len(file) /\ pos \in Nat
      /\ threshold \in Thresholds /\ block \in Seq(Lines) /\ count \in Nat /\ rec \in Nat
      /\ sent \in Seq(Seq(Sendable))
  BY DEF Shapes
<1>3. rec = Row(pos) /\ count = Row(Len(file))
  BY DEF Counting
<1>4. rec <= count /\ (AtEnd => rec = count) /\ (~AtEnd => rec = Base + size)
  <2>1. Row(pos) <= Row(Len(file))
    BY <1>2, RowOrder
  <2>2. AtEnd => rec = count
    BY <1>3 DEF AtEnd
  <2>3. rec <= Base + size
    BY DEF Cutting
  <2>4. Base + size \in Nat
    BY <1>1
  <2> QED BY <1>2, <1>3, <2>1, <2>2, <2>3, <2>4
<1>5. rec > Base /\ rec <= Base + size /\ Len(block) = rec - Base
  BY <1>1, <1>2, <1>4 DEF Cutting
<1>6. DOMAIN block = 1..Len(block) /\ Len(block) \in Nat
  BY <1>2
<1>7. rows \in Seq(Sendable) /\ Len(rows) = Len(block)
  <2>1. \A i \in DOMAIN block : FlattenArcLine(block[i], threshold) \in Sendable
    BY <1>2, <1>6 DEF Sendable
  <2>2. rows \in [1..Len(block) -> Sendable]
    BY <1>6, <2>1
  <2> QED BY <1>6, <2>2
<1>8. /\ sent' \in Seq(Seq(Sendable)) /\ Len(sent') = k /\ sent'[k] = rows
      /\ DOMAIN sent = 1..Len(sent) /\ DOMAIN sent' = 1..k
      /\ \A b \in 1..Len(sent) : sent'[b] = sent[b]
  <2>1. sent' = Append(sent, rows)
    OBVIOUS
  <2> HIDE DEF rows
  <2> QED BY <1>1, <1>2, <1>7, <2>1
<1> HIDE DEF rows
<1>9. Base' = Base + size
  <2>1. Base' = Len(sent') * size
    BY DEF Base
  <2> QED BY <1>1, <1>8, <2>1
<1>10. Shapes'
  BY <1>2, <1>8 DEF Shapes
<1>11. Counting'
  BY <1>1, RowStays, RowZero DEF Counting
<1>12. Numbered' /\ Noted'
  BY <1>1, RowStays, NotedStays DEF Numbered
<1>13. Cutting'
  BY <1>1, <1>9 DEF Cutting
<1>14. /\ Before(k) < count
       /\ Len(sent'[k]) = IF size <= count - Before(k) THEN size ELSE count - Before(k)
  BY <1>1, <1>2, <1>4, <1>5, <1>7, <1>8
<1>15. ASSUME NEW i \in 1..Len(file), IsRecord(i), Row(i) - Before(k) \in 1..size
       PROVE  sent'[k][Row(i) - Before(k)] = FlattenArcLine(file[i], threshold)
  <2>1. i \in Nat /\ Row(i) \in Nat
    BY <1>2, RowNat
  <2>2. i <= pos
    <3> SUFFICES ASSUME ~(i <= pos) PROVE FALSE OBVIOUS
    <3>1. pos < i /\ pos <= i
      BY <1>2, <2>1
    <3>2. Row(pos) < Row(i)
      BY <1>2, <1>15, <2>1, <3>1, RowOrder
    <3>3. ~AtEnd
      BY <1>2, <3>1 DEF AtEnd
    <3> QED BY <1>1, <1>3, <1>4, <1>15, <2>1, <3>2, <3>3
  <2>3. i \in 1..pos /\ Row(i) <= rec
    BY <1>2, <1>3, <2>1, <2>2, RowOrder
  <2>4. Row(i) > Base /\ Row(i) - Base \in 1..Len(block)
    BY <1>1, <1>2, <1>5, <1>15, <2>1, <2>3
  <2>5. block[Row(i) - Base] = file[i]
    BY <1>15, <2>3, <2>4 DEF Cutting
  <2>6. rows[Row(i) - Base] = FlattenArcLine(block[Row(i) - Base], threshold)
    BY <1>6, <2>4 DEF rows
  <2> QED BY <1>1, <1>8, <2>5, <2>6
<1>16. ASSUME NEW b \in 1..k
       PROVE  /\ Before(b) < count
              /\ Len(sent'[b]) = IF size <= count - Before(b) THEN size ELSE count - Before(b)
              /\ \A i \in 1..Len(file) : IsRecord(i) /\ Row(i) - Before(b) \in 1..size =>
                   sent'[b][Row(i) - Before(b)] = FlattenArcLine(file[i], threshold)
  <2>1. CASE b = k
    BY <1>14, <1>15, <2>1
  <2>2. CASE b # k
    <3>1. b \in DOMAIN sent /\ sent'[b] = sent[b]
      BY <1>1, <1>8, <2>2
    <3> QED BY <3>1 DEF Delivered
  <2> QED BY <2>1, <2>2
<1>17. ASSUME NEW i \in 1..Len(file), IsRecord(i), Row(i) <= Base + size
       PROVE  \E b \in 1..k : Row(i) - Before(b) \in 1..size
  <2>1. Row(i) \in Nat
    BY <1>2, RowNat
  <2>2. CASE Row(i) <= Base
    <3>1. PICK b \in DOMAIN sent : Row(i) - Before(b) \in 1..size
      BY <1>17, <2>2 DEF Delivered
    <3> QED BY <1>1, <1>8, <3>1
  <2>3. CASE Row(i) > Base
    <3>1. Row(i) - Before(k) \in 1..size
      BY <1>1, <1>17, <2>1, <2>3
    <3> QED BY <1>1, <3>1
  <2> QED BY <1>1, <2>1, <2>2, <2>3
<1>18. Delivered'
  <2>1. file' = file /\ size' = size /\ threshold' = threshold /\ count' = count
        /\ phase' # "done" /\ DOMAIN sent' = 1..k /\ Base' = Base + size
    BY <1>8, <1>9
  <2>2. \A b \in DOMAIN sent' :
          /\ Before(b)' < count'
          /\ Len(sent'[b]) = IF size' <= count' - Before(b)' THEN size' ELSE count' - Before(b)'
          /\ \A i \in 1..Len(file') : IsRecord(i)' /\ Row(i)' - Before(b)' \in 1..size' =>
               sent'[b][Row(i)' - Before(b)'] = FlattenArcLine(file'[i], threshold')
    <3> TAKE b \in DOMAIN sent'
    <3>1. b \in 1..k
      BY <2>1
    <3>2. /\ Before(b)' = Before(b) /\ \A i : IsRecord(i)' <=> IsRecord(i)
          /\ \A i : Row(i)' = Row(i)
      BY <1>1, RowStays
    <3>3. Before(b)' < count'
      BY <1>16, <2>1, <3>1, <3>2
    <3>4. Len(sent'[b]) = IF size' <= count' - Before(b)' THEN size' ELSE count' - Before(b)'
      BY <1>16, <2>1, <3>1, <3>2
    <3>5. ASSUME NEW i \in 1..Len(file'), IsRecord(i)', Row(i)' - Before(b)' \in 1..size'
          PROVE  sent'[b][Row(i)' - Before(b)'] = FlattenArcLine(file'[i], threshold')
      <4>1. i \in 1..Len(file) /\ IsRecord(i) /\ Row(i) - Before(b) \in 1..size
        BY <2>1, <3>2, <3>5
      <4>2. sent'[b][Row(i) - Before(b)] = FlattenArcLine(file[i], threshold)
        BY <1>16, <3>1, <4>1
      <4> QED BY <2>1, <3>2, <4>2
    <3> QED BY <3>3, <3>4, <3>5
  <2>3. \A i \in 1..Len(file') : IsRecord(i)' /\ Row(i)' <= Base' =>
          \E b \in DOMAIN sent' : Row(i)' - Before(b)' \in 1..size'
    BY <1>1, <1>17, <2>1, RowStays
  <2> QED BY <2>1, <2>2, <2>3 DEF Delivered
<1> QED BY <1>10, <1>11, <1>12, <1>13, <1>18

LEMMA BlockPreserves ==
  ASSUME IInv, BlockLine
  PROVE  IInv'
<1>1. (Len(sent) + 1) * size = Base + size /\ Len(sent) * size = Base
  BY BlockPlace DEF Base
<1>2. phase = "block" /\ Base < count /\ UNCHANGED <<file, size, threshold, count, commands, failed>>
  BY <1>1 DEF BlockLine, input
<1>3. CASE /\ ~AtEnd /\ rec < (Len(sent) + 1) * size
           /\ pos' = pos + 1
           /\ rec' = (IF Header \/ Line.blank THEN rec ELSE rec + 1)
           /\ block' = (IF ~Header /\ ~Line.blank /\ rec >= Len(sent) * size
                        THEN Append(block, Line) ELSE block)
           /\ UNCHANGED <<phase, sent>>
  BY <1>1, <1>2, <1>3, ReadPreserves
<1>4. CASE /\ AtEnd \/ rec >= (Len(sent) + 1) * size
           /\ sent' = Append(sent, [i \in DOMAIN block |-> FlattenArcLine(block[i], threshold)])
           /\ block' = <<>> /\ NextLoop("block")
  <2>1. phase' = "block" /\ pos' = 0 /\ rec' = 0
    BY <1>4 DEF NextLoop
  <2> QED BY <1>1, <1>2, <1>4, <2>1, SendPreserves
<1> QED BY <1>3, <1>4 DEF BlockLine

LEMMA FinishPreserves ==
  ASSUME IInv, Finish
  PROVE  IInv'
<1> USE DEF IInv
<1>1. /\ phase = "block" /\ phase' = "done" /\ Base >= count
      /\ UNCHANGED <<file, size, threshold, pos, rec, count, commands, failed, block, sent>>
      /\ UNCHANGED input /\ Base' = Base
  BY DEF Finish, Base, input
<1>2. Shapes' /\ Counting'
  BY <1>1, RowStays DEF Shapes, Counting
<1>3. Numbered' /\ Noted' /\ Cutting'
  BY <1>1, RowStays, NotedStays DEF Numbered, Cutting
<1>4. Delivered'
  <2>1. count <= Base
    BY <1>1, BlockPlace DEF Shapes
  <2> QED BY <1>1, <2>1, RowStays DEF Delivered
<1> QED BY <1>2, <1>3, <1>4

\* The inductive invariant.
THEOREM IInvHolds == Spec => []IInv
<1>1. IInv /\ [Next]_vars => IInv'
  <2> SUFFICES ASSUME IInv, [Next]_vars PROVE IInv' OBVIOUS
  <2>1. CASE UNCHANGED vars
    <3>1. UNCHANGED <<file, size, threshold, phase, pos, rec, count, commands, failed, block, sent>>
          /\ UNCHANGED input /\ Base' = Base
      BY <2>1 DEF vars, input, Base
    <3> QED BY <3>1, RowStays DEF IInv, Shapes, Counting, Numbered, Noted, Past, Seen,
         Cutting, Delivered
  <2> QED BY <2>1, CountPreserves, ParsePreserves, BlockPreserves, FinishPreserves DEF Next
<1> QED BY InitEstablishes, <1>1, PTL DEF Spec

----------------------------------------------------------------------------
(* What follows from it.                                                   *)

\* The counters stay within the file, a block within its size.
THEOREM TypeHolds == Spec => []TypeOK
<1>1. IInv => TypeOK
  <2> SUFFICES ASSUME IInv PROVE TypeOK OBVIOUS
  <2> USE DEF IInv
  <2>1. /\ file \in Seq(Lines) /\ Len(file) \in Nat /\ Len(file) <= MaxLines /\ MaxLines \in Nat
        /\ pos \in 0..Len(file) /\ pos \in Nat /\ rec \in Nat
    BY FileAssumption DEF Shapes
  <2>2. /\ Row(pos) <= pos /\ (pos > 0 => Row(pos) <= pos - 1) /\ Row(pos) \in Nat
        /\ Row(Len(file)) \in Nat /\ Row(Len(file)) <= Len(file)
    BY <2>1, RowBound
  <2>3. rec \in 0..pos
    <3>1. Shift \in 0..1
      BY DEF Shift
    <3> QED BY <2>1, <2>2, <3>1 DEF Counting
  <2>4. count \in 0..MaxLines
    BY <2>1, <2>2 DEF Counting
  <2>5. commands \in Seq([record : 0..MaxLines, line : 1..MaxLines, type : Motion, radius : Nat])
    <3> DEFINE Numb == [record : 0..MaxLines, line : 1..MaxLines, type : Motion, radius : Nat]
    <3>1. /\ commands \in [1..Len(commands) -> Command] /\ Len(commands) \in Nat
          /\ DOMAIN commands = 1..Len(commands)
      BY DEF Shapes
    <3>2. ASSUME NEW c \in 1..Len(commands) PROVE commands[c] \in Numb
      <4> DEFINE i == commands[c].line
      <4>1. commands[c] \in Command
        BY <3>1
      <4>2. i \in 1..Len(file) /\ commands[c].record + 1 = Row(i) + Shift
        BY <3>1 DEF Numbered
      <4>3. i \in Nat /\ i > 0 /\ i <= MaxLines
        BY <2>1, <4>2
      <4>4. Row(i) \in Nat /\ Row(i) <= i - 1
        BY <4>3, RowBound
      <4>5. Shift \in 0..1
        BY DEF Shift
      <4>6. commands[c].record \in Nat
        BY <4>1 DEF Command
      <4>7. commands[c].record \in 0..MaxLines
        BY <2>1, <4>2, <4>3, <4>4, <4>5, <4>6
      <4> QED BY <4>1, <4>7 DEF Command
    <3>3. commands \in [1..Len(commands) -> Numb]
      BY <3>1, <3>2
    <3>4. commands \in Seq(Numb)
      <4> HIDE DEF Numb
      <4> QED BY <3>1, <3>3
    <3> QED BY <3>4
  <2>6. block \in Seq(Lines) /\ Len(block) <= size
    <3>1. phase \in {"count", "parse"} => Len(block) = 0
      BY DEF Counting
    <3>2. phase \in {"block", "done"} => Len(block) <= size
      BY BlockPlace, <2>1 DEF Cutting
    <3> QED BY <3>1, <3>2, BlockPlace DEF Shapes
  <2>7. ASSUME NEW b \in DOMAIN sent PROVE Len(sent[b]) \in 1..size
    <3>1. b \in 1..Len(sent) /\ b \in Nat /\ b > 0
      BY DEF Shapes
    <3>2. Before(b) \in Nat
      BY <3>1, BlockStarts, BlockPlace
    <3>3. count \in Nat /\ size \in Nat /\ size > 0
      BY BlockPlace DEF Shapes
    <3>4. Before(b) < count /\ Len(sent[b]) = IF size <= count - Before(b) THEN size
                                              ELSE count - Before(b)
      BY DEF Delivered
    <3> QED BY <3>2, <3>3, <3>4
  <2> QED BY <2>1, <2>3, <2>4, <2>5, <2>6, <2>7 DEF TypeOK, Shapes
<1> QED BY IInvHolds, <1>1, PTL

\* A row of a block, and the record it holds.
LEMMA RowInBlock ==
  ASSUME IInv, phase = "done", NEW i \in 2..Len(file), IsRecord(i)
  PROVE  \E b \in DOMAIN sent :
           InBlock(Row(i), b) /\ sent[b][Row(i) - Before(b)] = FlattenArcLine(file[i], threshold)
<1> USE DEF IInv
<1>1. /\ Len(file) \in Nat /\ i \in Nat /\ i \in 1..Len(file) /\ count = Row(Len(file))
      /\ count \in Nat /\ Base \in Nat /\ size \in Nat
  BY BlockPlace DEF Shapes, Counting
<1>2. Row(i) \in Nat /\ Row(i) <= count
  <2>1. i <= Len(file)
    BY <1>1
  <2> QED BY <1>1, <2>1, RowOrder, RowNat
<1>3. Row(i) <= Base
  <2>1. count <= Base
    BY DEF Delivered
  <2> QED BY <1>1, <1>2, <2>1
<1>4. PICK b \in DOMAIN sent : Row(i) - Before(b) \in 1..size
  BY <1>1, <1>3 DEF Delivered
<1>5. /\ Len(sent[b]) = IF size <= count - Before(b) THEN size ELSE count - Before(b)
      /\ sent[b][Row(i) - Before(b)] = FlattenArcLine(file[i], threshold)
  BY <1>1, <1>4 DEF Delivered
<1>6. Before(b) \in Nat /\ DOMAIN sent[b] = 1..Len(sent[b])
  <2>1. b \in Nat /\ b > 0 /\ sent[b] \in Seq(Sendable)
    BY DEF Shapes
  <2>2. Before(b) \in Nat
    BY <1>1, <2>1, BlockStarts
  <2> QED BY <2>1, <2>2
<1>7. Row(i) - Before(b) \in DOMAIN sent[b]
  BY <1>1, <1>2, <1>4, <1>5, <1>6
<1> QED BY <1>5, <1>7 DEF InBlock

\* For files of every length and every size of a block, the blocks put together
\* are the records that countRecords has announced.
THEOREM BlocksCoverHolds == Spec => []BlocksCover
<1>1. IInv => BlocksCover
  <2> SUFFICES ASSUME IInv, phase = "done" PROVE
        /\ count = Row(Len(file))
        /\ \A b \in DOMAIN sent : Len(sent[b]) = IF b < Len(sent) THEN size ELSE count - Before(b)
        /\ \A i \in 2..Len(file) : IsRecord(i) =>
             \E b \in DOMAIN sent :
               InBlock(Row(i), b) /\ sent[b][Row(i) - Before(b)] = FlattenArcLine(file[i], threshold)
    BY DEF BlocksCover
  <2>1. count = Row(Len(file))
    BY DEF IInv, Counting
  <2>2. ASSUME NEW b \in DOMAIN sent
        PROVE  Len(sent[b]) = IF b < Len(sent) THEN size ELSE count - Before(b)
    <3>1. /\ DOMAIN sent = 1..Len(sent) /\ Len(sent) \in Nat /\ b \in Nat /\ b > 0
          /\ count \in Nat /\ b <= Len(sent)
      BY DEF IInv, Shapes
    <3>2. size \in Nat /\ size > 0 /\ Base \in Nat
      BY BlockPlace
    <3>3. Len(sent[b]) = IF size <= count - Before(b) THEN size ELSE count - Before(b)
      BY DEF IInv, Delivered
    <3>4. Before(b) \in Nat /\ Before(b) + size = b * size /\ Before(b + 1) = b * size
      BY <3>1, <3>2, BlockStarts
    <3>5. CASE b < Len(sent)
      <4>1. b + 1 \in DOMAIN sent
        BY <3>1, <3>5
      <4>2. Before(b + 1) < count
        BY <4>1 DEF IInv, Delivered
      <4>3. Before(b + 1) = Before(b) + size
        BY <3>4
      <4>4. size <= count - Before(b)
        BY <3>1, <3>2, <3>4, <4>2, <4>3
      <4> QED BY <3>3, <3>5, <4>4
    <3>6. CASE ~(b < Len(sent))
      <4>1. b = Len(sent)
        BY <3>1, <3>6
      <4>2. count <= Base /\ Base = Before(b) + size
        BY <3>4, <4>1 DEF IInv, Delivered, Base
      <4>3. size <= count - Before(b) => size = count - Before(b)
        BY <3>1, <3>2, <3>4, <4>2
      <4> QED BY <3>3, <3>6, <4>3
    <3> QED BY <3>5, <3>6
  <2> QED BY <2>1, <2>2, RowInBlock
<1> QED BY IInvHolds, <1>1, PTL

\* The number of a command and the row of its record.
LEMMA NumberIsRow ==
  ASSUME IInv, NEW c \in DOMAIN commands, commands[c].line > 1
  PROVE  /\ commands[c].line \in 2..Len(file) /\ IsRecord(commands[c].line)
         /\ commands[c].record - Shift + 1 = Row(commands[c].line)
<1> DEFINE i == commands[c].line
<1>1. i \in 1..Len(file) /\ ~file[i].blank /\ commands[c].record + 1 = Row(i) + Shift
  BY DEF IInv, Numbered
<1>2. commands[c].record \in Nat /\ Len(file) \in Nat
  <2>1. commands[c] \in Command /\ file \in Seq(Lines)
    BY DEF IInv, Shapes
  <2> QED BY <2>1 DEF Command
<1>3. i \in 2..Len(file) /\ i \in Nat
  BY <1>1, <1>2
<1>4. Shift \in 0..1 /\ Row(i) \in Nat
  <2>1. Shift \in 0..1
    BY DEF Shift
  <2>2. Row(i) \in Nat
    <3> HIDE DEF i
    <3> QED BY <1>3, RowNat
  <2> QED BY <2>1, <2>2
<1>5. commands[c].record - Shift + 1 = Row(i)
  BY <1>1, <1>2, <1>4
<1> QED BY <1>1, <1>3, <1>5 DEF IsRecord

\* For every file the numbers of the preview and the rows of the transfer differ
\* by one number.
THEOREM SteadyShiftHolds == Spec => []SteadyShift
<1>1. IInv => SteadyShift
  BY NumberIsRow DEF SteadyShift
<1> QED BY IInvHolds, <1>1, PTL

\* For every file and every limit: past the first line, the PLC gets for a command
\* that is drawn the motion that is drawn, and a motion is drawn or reported.
THEOREM DrawnAsSentHolds == Spec => []DrawnAsSent
<1>1. ASSUME IInv, phase = "done", NEW c \in DOMAIN commands, ~OfHeader(c)
      PROVE  \E b \in DOMAIN sent :
               LET r == commands[c].record - Shift + 1 IN
               /\ InBlock(r, b)
               /\ CommandType(sent[b][r - Before(b)]) = Drawn(commands[c], threshold)
  <2> DEFINE i == commands[c].line
  <2>0. i > 1
    BY <1>1 DEF IInv, Numbered, Shapes, OfHeader
  <2>1. i \in 2..Len(file) /\ IsRecord(i) /\ commands[c].record - Shift + 1 = Row(i)
    BY <1>1, <2>0, NumberIsRow
  <2>2. PICK b \in DOMAIN sent :
          InBlock(Row(i), b) /\ sent[b][Row(i) - Before(b)] = FlattenArcLine(file[i], threshold)
    BY <1>1, <2>1, RowInBlock
  <2>3. file[i] \in Lines /\ threshold \in Thresholds /\ commands[c] \in Command
    BY <1>1, <2>1 DEF IInv, Shapes
  <2>4. commands[c].type = CommandType(file[i]) /\ commands[c].radius = file[i].radius
    BY <1>1 DEF IInv, Numbered
  <2>5. CommandType(file[i]) # "none"
    BY <2>3, <2>4 DEF Command, Motion
  <2>6. CommandType(FlattenArcLine(file[i], threshold)) = Drawn(commands[c], threshold)
    BY <2>3, <2>4, <2>5, FlattenedAsDrawn
  <2> QED BY <2>1, <2>2, <2>6
<1>2. ASSUME IInv, phase = "done", NEW i \in 2..Len(file), CommandType(file[i]) # "none"
      PROVE  (\E c \in DOMAIN commands : commands[c].line = i) \/ (Unreadable(file[i]) /\ failed)
  <2>1. i \in 1..Past
    BY <1>2 DEF Past, IInv, Shapes
  <2> QED BY <1>2, <2>1 DEF IInv, Noted, Seen
<1>3. IInv => DrawnAsSent
  BY <1>1, <1>2 DEF DrawnAsSent
<1> QED BY IInvHolds, <1>3, PTL

============================================================================
