---------------------------- MODULE ProjectFiles ----------------------------
(***************************************************************************)
(* How a project file is read, three times and each time in a loop of its  *)
(* own: countRecords announces the number of records, parseFile numbers    *)
(* the commands the preview draws, readDataBlock cuts the records into     *)
(* blocks, whose small arcs are then turned into lines.  The three have to *)
(* agree about what a record is, and preview and PLC about what an arc is. *)
(*                                                                         *)
(* A line is reduced to what the loops look at: whether it is blank, a     *)
(* comment or has a number that cannot be read, its G numbers in order,    *)
(* and the radius of its I and J.  One action is one turn of a loop.       *)
(***************************************************************************)
EXTENDS Integers, Sequences, FiniteSets

CONSTANTS
  Lines,        \* the lines files are made of
  MaxLines,     \* bound: lines of a file
  BlockSizes,   \* values of lenDataArray
  Thresholds    \* values of minArcRadius, 0 = leave arcs alone

Motion == {"0", "1", "2", "3"}
Arcs == {"2", "3"}

\* At most one motion per line, as G-code has it.
ASSUME FileAssumption ==
  /\ MaxLines \in Nat /\ BlockSizes \subseteq Nat \ {0} /\ Thresholds \subseteq Nat
  /\ \A l \in Lines :
       /\ l \in [blank : BOOLEAN, comment : BOOLEAN, bad : BOOLEAN,
                 g : Seq(STRING), radius : Nat]
       /\ \A i, j \in DOMAIN l.g : l.g[i] \in Motion /\ l.g[j] \in Motion => i = j
       /\ l.blank => ~l.comment /\ ~l.bad /\ l.g = <<>>

VARIABLES
  file, size, threshold,   \* the input
  phase,      \* "count", "parse", "block", "done"
  pos,        \* lines the present loop has read
  rec,        \* records it has counted
  count,      \* result of countRecords
  commands,   \* result of parseFile
  failed,     \* parseFile has met a number it cannot read
  block,      \* rows of the present block
  sent        \* blocks sent

vars == <<file, size, threshold, phase, pos, rec, count, commands, failed, block, sent>>
input == <<file, size, threshold>>

----------------------------------------------------------------------------
Line == file[pos + 1]
AtEnd == pos = Len(file)

\* The first line is a header, whatever it holds.
Header == pos = 0

\* detectCommandType: the first motion word of a line.
Motions(line) == {i \in DOMAIN line.g : line.g[i] \in Motion}
FirstOf(places) == CHOOSE i \in places : \A j \in places : i <= j

CommandType(line) ==
  IF line.comment \/ Motions(line) = {} THEN "none"
  ELSE line.g[FirstOf(Motions(line))]

\* parseCoordinates: a command one of whose numbers cannot be read is an error.
Unreadable(line) == CommandType(line) # "none" /\ line.bad

\* 0 < radius < threshold; a threshold of 0 switches it off.
ShouldFlatten(radius, limit) == limit > 0 /\ radius > 0 /\ radius < limit

\* Faulty: the limit itself counts as small in the data, not in the picture.
FlattenUpTo(line, limit) ==
  IF limit = 0 \/ line.radius = 0 \/ line.radius > limit THEN line
  ELSE [line EXCEPT !.g = [i \in DOMAIN @ |-> IF @[i] \in Arcs THEN "1" ELSE @[i]],
                    !.radius = 0]

\* flattenArcLine works on words: it does not ask whether the line is a comment.
FlattenArcLine(line, limit) ==
  IF (\A i \in DOMAIN line.g : line.g[i] \notin Arcs) \/ ~ShouldFlatten(line.radius, limit)
  THEN line
  ELSE [line EXCEPT !.g = [i \in DOMAIN @ |-> IF @[i] \in Arcs THEN "1" ELSE @[i]],
                    !.radius = 0]

\* renderCommand: an arc with a small radius is drawn as a line.
Drawn(command, limit) ==
  IF command.type \in Arcs /\ ShouldFlatten(command.radius, limit) THEN "1" ELSE command.type

NextLoop(next) == phase' = next /\ pos' = 0 /\ rec' = 0

----------------------------------------------------------------------------
\* countRecords
CountLine ==
  /\ phase = "count"
  /\ \/ /\ ~AtEnd
        /\ pos' = pos + 1
        /\ rec' = IF Header \/ Line.blank THEN rec ELSE rec + 1
        /\ UNCHANGED <<phase, count>>
     \/ AtEnd /\ count' = rec /\ NextLoop("parse")
  /\ UNCHANGED <<input, commands, failed, block, sent>>

\* Faulty: blank lines have numbers, too.
ParseEvery ==
  /\ phase = "parse"
  /\ \/ /\ ~AtEnd
        /\ pos' = pos + 1 /\ rec' = rec + 1
        /\ commands' = IF CommandType(Line) = "none" THEN commands
                       ELSE Append(commands, [record |-> rec, line |-> pos + 1,
                              type |-> CommandType(Line), radius |-> Line.radius])
        /\ UNCHANGED <<phase, failed>>
     \/ AtEnd /\ NextLoop("block") /\ UNCHANGED <<commands, failed>>
  /\ UNCHANGED <<input, count, block, sent>>

\* parseFile: the header is a record like any other here.
ParseLine ==
  /\ phase = "parse"
  /\ \/ /\ ~AtEnd
        /\ pos' = pos + 1
        /\ rec' = IF Line.blank THEN rec ELSE rec + 1
        /\ LET type == CommandType(Line) IN
           /\ failed' = (failed \/ Unreadable(Line))
           /\ commands' = IF type = "none" \/ Unreadable(Line) THEN commands
                          ELSE Append(commands, [record |-> rec, line |-> pos + 1,
                                                 type |-> type, radius |-> Line.radius])
        /\ UNCHANGED phase
     \/ AtEnd /\ NextLoop("block") /\ UNCHANGED <<commands, failed>>
  /\ UNCHANGED <<input, count, block, sent>>

\* Faulty: the header counts as the first row.
BlockWithHeader ==
  /\ phase = "block" /\ Len(sent) * size < count
  /\ \/ /\ ~AtEnd /\ rec < (Len(sent) + 1) * size
        /\ pos' = pos + 1
        /\ rec' = IF Line.blank THEN rec ELSE rec + 1
        /\ block' = IF ~Line.blank /\ rec >= Len(sent) * size THEN Append(block, Line) ELSE block
        /\ UNCHANGED <<phase, sent>>
     \/ /\ AtEnd \/ rec >= (Len(sent) + 1) * size
        /\ sent' = Append(sent, [i \in DOMAIN block |-> FlattenArcLine(block[i], threshold)])
        /\ block' = <<>> /\ NextLoop("block")
  /\ UNCHANGED <<input, count, commands, failed>>

\* readDataBlock for the next block, from the top of the file; then its rows go
\* through flattenArcLine and to the PLC.
BlockLine ==
  /\ phase = "block" /\ Len(sent) * size < count
  /\ \/ /\ ~AtEnd /\ rec < (Len(sent) + 1) * size
        /\ pos' = pos + 1
        /\ rec' = IF Header \/ Line.blank THEN rec ELSE rec + 1
        /\ block' = IF ~Header /\ ~Line.blank /\ rec >= Len(sent) * size
                    THEN Append(block, Line) ELSE block
        /\ UNCHANGED <<phase, sent>>
     \/ /\ AtEnd \/ rec >= (Len(sent) + 1) * size
        /\ sent' = Append(sent, [i \in DOMAIN block |-> FlattenArcLine(block[i], threshold)])
        /\ block' = <<>> /\ NextLoop("block")
  /\ UNCHANGED <<input, count, commands, failed>>

\* anzBlocke = ceil(count / size) blocks have been written.
Finish ==
  /\ phase = "block" /\ Len(sent) * size >= count
  /\ phase' = "done"
  /\ UNCHANGED <<input, pos, rec, count, commands, failed, block, sent>>

----------------------------------------------------------------------------
Init ==
  /\ file \in UNION {[1..n -> Lines] : n \in 0..MaxLines}
  /\ size \in BlockSizes /\ threshold \in Thresholds
  /\ phase = "count" /\ pos = 0 /\ rec = 0
  /\ count = 0 /\ commands = <<>> /\ failed = FALSE
  /\ block = <<>> /\ sent = <<>>

Next == CountLine \/ ParseLine \/ BlockLine \/ Finish

Spec == Init /\ [][Next]_vars

----------------------------------------------------------------------------
TypeOK ==
  /\ phase \in {"count", "parse", "block", "done"}
  /\ pos \in 0..Len(file) /\ rec \in 0..pos
  /\ count \in 0..MaxLines /\ failed \in BOOLEAN
  /\ commands \in Seq([record : 0..MaxLines, line : 1..MaxLines, type : Motion, radius : Nat])
  /\ block \in Seq(Lines) /\ Len(block) <= size
  /\ \A b \in DOMAIN sent : Len(sent[b]) \in 1..size

\* The records of the file, said without a loop: the lines after the first that
\* are not blank.  A record's row in the transfer is the number of records up to it.
IsRecord(i) == i \in 2..Len(file) /\ ~file[i].blank
Row(i) == Cardinality({j \in 2..i : IsRecord(j)})

\* Row r is row r - Before(b) of block b, if it is one of the rows of that block.
Before(b) == (b - 1) * size
InBlock(r, b) == b \in DOMAIN sent /\ r - Before(b) \in DOMAIN sent[b]

\* The blocks put together are the records of the file, each once and in order:
\* readDataBlock "must match countRecords(), otherwise every block is shifted by
\* one line" (project_file_reader.cpp).
BlocksCover ==
  phase = "done" =>
    /\ count = Row(Len(file))
    /\ \A b \in DOMAIN sent : Len(sent[b]) = IF b < Len(sent) THEN size ELSE count - Before(b)
    /\ \A i \in 2..Len(file) : IsRecord(i) =>
         \E b \in DOMAIN sent :
           InBlock(Row(i), b) /\ sent[b][Row(i) - Before(b)] = FlattenArcLine(file[i], threshold)

\* The shift between the two numberings is the same for the whole file: a
\* command numbered n by the parser is in row n of the transfer, counted from 1
\* if the first line is not blank and from 0 if it is.
Shift == IF Len(file) > 0 /\ ~file[1].blank THEN 1 ELSE 0

SteadyShift ==
  \A c \in DOMAIN commands :
    LET i == commands[c].line IN
    i > 1 => IsRecord(i) /\ commands[c].record - Shift + 1 = Row(i)

\* parseFile draws a motion in the first line, readDataBlock never sends that line.
OfHeader(c) == commands[c].line = 1

\* "damit sich die Visualisierung und die zur SPS gesendeten Daten garantiert
\* identisch verhalten" (arc_flatten.h): the PLC gets a row for every command
\* that is drawn, and in it an arc exactly if an arc is drawn; and every line
\* past the first that moves the tool is drawn, unless its numbers cannot be
\* read, which parseFile reports.  "Identical" stops at the header: a motion in
\* the first line is drawn and not sent.
DrawnAsSent ==
  phase = "done" =>
    /\ \A c \in DOMAIN commands : ~OfHeader(c) =>
         \E b \in DOMAIN sent :
           LET r == commands[c].record - Shift + 1 IN
           /\ InBlock(r, b)
           /\ CommandType(sent[b][r - Before(b)]) = Drawn(commands[c], threshold)
    /\ \A i \in 2..Len(file) : CommandType(file[i]) # "none" =>
         \/ \E c \in DOMAIN commands : commands[c].line = i
         \/ Unreadable(file[i]) /\ failed
=============================================================================
