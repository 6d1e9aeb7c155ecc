------------------------------ MODULE PlcNodes ------------------------------
(***************************************************************************)
(* The OPC UA client of the service (src/src/interfaces/OPC_UA.cpp and     *)
(* OPC_UA_Arrays.cpp) as operators on the nodes of a PLC: registering a    *)
(* variable, reading and writing scalars, reading and patching a window of *)
(* an array.                                                               *)
(*                                                                         *)
(* A node holds a variant: its element type, whether it is an array, the   *)
(* dimensions it states (none, one or two of them are understood) and its  *)
(* elements in one sequence, row by row.  A scalar is a variant of one     *)
(* element.  Rows and columns are counted from 0, as in the code.          *)
(***************************************************************************)
EXTENDS Integers, Sequences, FiniteSets

CONSTANT SizeMod        \* size_t arithmetic is modulo this (2^64 in the build)

\* The end of a window of a few cells is within size_t.
ASSUME SizeAssumption == SizeMod \in Nat \ 0..4

Elems == {"Boolean", "Int16", "Int32", "Float", "Double", "String", "ByteString"}

\* A registered type (DataType): its element and whether it is an array.
Scalar(e)  == [elem |-> e, array |-> FALSE]
ArrayOf(e) == [elem |-> e, array |-> TRUE]

SizeMax == SizeMod - 1              \* the default row and column count
Plus(a, b) == (a + b) % SizeMod     \* size_t addition
Least(a, b) == IF a <= b THEN a ELSE b

-----------------------------------------------------------------------------
(* The server's side: a value can be read from a node that is there and    *)
(* readable, and written to one that is there, writable and of the         *)
(* variant's type and form.  "up" is the link.                             *)

Readable(nd, up) == up /\ nd.there /\ nd.rd

Writable(nd, e, array, up) ==
  up /\ nd.there /\ nd.wr /\ nd.elem = e /\ nd.array = array

\* Server and decoder let no variant through whose dimensions do not fit.
WellFormed(nd) ==
  CASE Len(nd.dims) = 0 -> TRUE
    [] Len(nd.dims) = 1 -> nd.dims[1] = Len(nd.data)
    [] OTHER            -> nd.dims[1] * nd.dims[2] = Len(nd.data)

-----------------------------------------------------------------------------
(* registerVariable reads the node once and compares type and form.        *)

\* Faulty: the form is compared, the element type is not.
RegisterAnyType(nd, t, up) == Readable(nd, up) /\ nd.array = t.array

RegisterVariable(nd, t, up) ==
  Readable(nd, up) /\ nd.elem = t.elem /\ nd.array = t.array

-----------------------------------------------------------------------------
(* Scalars.  Every read checks the type again.                             *)

Failed(c) == [ok |-> FALSE, code |-> c]

ReadScalar(nd, e, up) ==
  IF ~Readable(nd, up) THEN Failed(3)
  ELSE IF nd.elem # e \/ nd.array THEN Failed(5)
  ELSE [ok |-> TRUE, code |-> 0, value |-> nd.data[1]]

ReadInt16(nd, up)   == ReadScalar(nd, "Int16", up)
ReadFloat(nd, up)   == ReadScalar(nd, "Float", up)
ReadBool(nd, up)    == ReadScalar(nd, "Boolean", up)
ReadDouble(nd, up)  == ReadScalar(nd, "Double", up)
ReadInt32(nd, up)   == ReadScalar(nd, "Int32", up)
ReadString(nd, up)  == ReadScalar(nd, "String", up)

\* A successful write leaves the value in the node, a failed one nothing.
WriteScalar(nd, e, v, up) ==
  IF Writable(nd, e, FALSE, up)
    THEN [ok |-> TRUE, code |-> 0, node |-> [nd EXCEPT !.data = <<v>>]]
    ELSE [ok |-> FALSE, code |-> 2, node |-> nd]

WriteInt16(nd, v, up) == WriteScalar(nd, "Int16", v, up)
WriteBool(nd, v, up)  == WriteScalar(nd, "Boolean", v, up)
WriteChars(nd, v, up) == WriteScalar(nd, "String", v, up)

-----------------------------------------------------------------------------
(* Arrays.  The shape is two numbers: rows and columns; an array of no or  *)
(* of one dimension is a single row.                                       *)

Rows(nd) == IF Len(nd.dims) = 2 THEN nd.dims[1] ELSE 1
Cols(nd) == CASE Len(nd.dims) = 0 -> Len(nd.data)
              [] Len(nd.dims) = 1 -> nd.dims[1]
              [] Len(nd.dims) = 2 -> nd.dims[2]
              [] OTHER            -> Len(nd.data)

\* Element (row, col), both from 0.
At(nd, r, c) == nd.data[r * Cols(nd) + c + 1]

\* A window: its first row and column and how many of each are wanted.
Window(r, rs, c, cs) == [row |-> r, rows |-> rs, col |-> c, cols |-> cs]
Whole == Window(0, SizeMax, 0, SizeMax)

\* The rows of a window.  Its end is computed with size_t: a sum beyond
\* SizeMax starts again at 0 and the window is empty.
ReadWindow(nd, w, up) ==
  IF ~Readable(nd, up) THEN Failed(2)
  ELSE IF ~nd.array \/ Len(nd.data) = 0 THEN Failed(3)
  ELSE IF Len(nd.dims) > 2 THEN Failed(4)
  ELSE IF w.row >= Rows(nd) \/ w.col >= Cols(nd) THEN Failed(5)
  ELSE LET endRow == Least(Rows(nd), Plus(w.row, w.rows))
           endCol == Least(Cols(nd), Plus(w.col, w.cols))
           rows   == IF endRow > w.row THEN endRow - w.row ELSE 0
           cols   == IF endCol > w.col THEN endCol - w.col ELSE 0
       IN  [ok    |-> TRUE, code |-> 0,
            value |-> [i \in 1..rows |->
                        [j \in 1..cols |-> At(nd, w.row + i - 1, w.col + j - 1)]]]

\* No reader asks for the element type: bytes of another type are taken for
\* values of its own.
ReadBoolArray(nd, w, up)    == ReadWindow(nd, w, up)
ReadStringArray(nd, w, up)  == ReadWindow(nd, w, up)
ReadInt16Array(nd, w, up)   == ReadWindow(nd, w, up)
ReadInt32Array(nd, w, up)   == ReadWindow(nd, w, up)
ReadFloatArray(nd, w, up)   == ReadWindow(nd, w, up)
ReadDoubleArray(nd, w, up)  == ReadWindow(nd, w, up)
ReadWStringArray(nd, w, up) == ReadWindow(nd, w, up)

ReadArray(e, nd, w, up) ==
  CASE e = "Boolean" -> ReadBoolArray(nd, w, up)
    [] e = "String"  -> ReadStringArray(nd, w, up)
    [] e = "Int16"   -> ReadInt16Array(nd, w, up)
    [] e = "Int32"   -> ReadInt32Array(nd, w, up)
    [] e = "Float"   -> ReadFloatArray(nd, w, up)
    [] e = "Double"  -> ReadDoubleArray(nd, w, up)
    [] OTHER         -> ReadWStringArray(nd, w, up)

\* A write reads the array (type checked), patches rows x cols of "data"
\* into it at (r, c) and writes all of it back.  Fetch is the first call,
\* Patch what the client does with its answer.
\* Faulty: the columns are not looked at.
FitsRows(nd, data, r, c) == Plus(r, Len(data)) <= Rows(nd)

Fits(nd, data, r, c) ==
  /\ Plus(r, Len(data)) <= Rows(nd)
  /\ Plus(c, IF data = <<>> THEN 0 ELSE Len(data[1])) <= Cols(nd)

\* Faulty: the row stride is the width of the data, not of the array.
PatchNarrow(nd, data, r, c) ==
  [k \in 1..Len(nd.data) |->
     LET row == (k - 1) \div Len(data[1])
         col == (k - 1) % Len(data[1])
     IN  IF row - r + 1 \in 1..Len(data) /\ col - c + 1 \in 1..Len(data[1])
           THEN data[row - r + 1][col - c + 1]
           ELSE nd.data[k]]

Patch(nd, data, r, c) ==
  [k \in 1..Len(nd.data) |->
     LET row == (k - 1) \div Cols(nd)
         col == (k - 1) % Cols(nd)
     IN  IF row - r + 1 \in 1..Len(data) /\ col - c + 1 \in 1..Len(data[1])
           THEN data[row - r + 1][col - c + 1]
           ELSE nd.data[k]]

FetchForWrite(e, nd, data, r, c, up) ==
  IF ~Readable(nd, up) \/ nd.elem # e \/ ~nd.array \/ Len(nd.data) = 0
    THEN Failed(2)
  ELSE IF ~Fits(nd, data, r, c) THEN Failed(3)
  ELSE [ok |-> TRUE, code |-> 0, value |-> Patch(nd, data, r, c)]

\* The second call: the patched copy replaces whatever the node holds now.
StoreArray(e, nd, values, up) ==
  IF Writable(nd, e, TRUE, up) /\ Len(nd.data) = Len(values)
    THEN [ok |-> TRUE, code |-> 0, node |-> [nd EXCEPT !.data = values]]
    ELSE [ok |-> FALSE, code |-> 5, node |-> nd]

FetchInt16Array(nd, d, r, c, up)   == FetchForWrite("Int16", nd, d, r, c, up)
FetchInt32Array(nd, d, r, c, up)   == FetchForWrite("Int32", nd, d, r, c, up)
FetchFloatArray(nd, d, r, c, up)   == FetchForWrite("Float", nd, d, r, c, up)
FetchDoubleArray(nd, d, r, c, up)  == FetchForWrite("Double", nd, d, r, c, up)
FetchStringArray(nd, d, r, c, up)  == FetchForWrite("String", nd, d, r, c, up)
FetchWStringArray(nd, d, r, c, up) == FetchForWrite("ByteString", nd, d, r, c, up)
FetchBoolArray(nd, d, r, c, up)    == Failed(-100)      \* not implemented

FetchArray(e, nd, d, r, c, up) ==
  CASE e = "Boolean" -> FetchBoolArray(nd, d, r, c, up)
    [] e = "Int16"   -> FetchInt16Array(nd, d, r, c, up)
    [] e = "Int32"   -> FetchInt32Array(nd, d, r, c, up)
    [] e = "Float"   -> FetchFloatArray(nd, d, r, c, up)
    [] e = "Double"  -> FetchDoubleArray(nd, d, r, c, up)
    [] e = "String"  -> FetchStringArray(nd, d, r, c, up)
    [] OTHER         -> FetchWStringArray(nd, d, r, c, up)
=============================================================================
