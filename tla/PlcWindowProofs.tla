--------------------------- MODULE PlcWindowProofs ---------------------------
(***************************************************************************)
(* The array calls of the OPC UA client for every array, every window and  *)
(* every rectangle of values (OPC_UA_Arrays.cpp, the offsets of row and     *)
(* column in the elements of a variant).  A run tries a few windows on the *)
(* arrays it meets; here an array is any sequence of elements that its one *)
(* or two dimensions make up, as WellFormed asks.                          *)
(***************************************************************************)
EXTENDS PlcSession, SequenceTheorems, TLAPS

\* Division of a number below the divisor.
LEMMA Quotient ==
  ASSUME NEW x \in Nat, NEW y \in Nat, x < y
  PROVE  x \div y = 0 /\ x % y = x
<1>1. x % y = x
  OBVIOUS
<1>2. x \div y \in Int /\ (x \div y) * y <= x /\ x < ((x \div y) + 1) * y
  OBVIOUS
<1> DEFINE q == x \div y
<1> HIDE DEF q
<1>3. q \in Int /\ q * y <= x /\ x < (q + 1) * y
  BY <1>2 DEF q
<1>4. ~(q >= 1)
  <2>1. SUFFICES ASSUME q >= 1 PROVE FALSE
    OBVIOUS
  <2>2. q * y >= y
    BY <1>3, <2>1
  <2>3. QED BY <1>3, <2>2
<1>5. ~(q + 1 <= 0)
  <2>1. SUFFICES ASSUME q + 1 <= 0 PROVE FALSE
    OBVIOUS
  <2>2. (q + 1) * y <= 0
    BY <1>3, <2>1
  <2>3. QED BY <1>3, <2>2
<1>6. QED BY <1>1, <1>3, <1>4, <1>5 DEF q

\* A node with an array of at most two dimensions.
Fields == {"there", "rd", "wr", "elem", "array", "dims", "data"}

Matrix(nd) == /\ DOMAIN nd = Fields
              /\ nd.dims \in Seq(Nat) /\ Len(nd.dims) \in 0..2 /\ WellFormed(nd)
              /\ nd.there /\ nd.rd /\ nd.array
              /\ \E V : nd.data \in Seq(V)

\* Rows and columns of such an array make up its elements.
LEMMA Shape ==
  ASSUME NEW nd, Matrix(nd)
  PROVE  /\ Rows(nd) \in Nat /\ Cols(nd) \in Nat /\ Len(nd.data) \in Nat
         /\ Rows(nd) * Cols(nd) = Len(nd.data)
<1>1. /\ Len(nd.data) \in Nat /\ Len(nd.dims) \in 0..2 /\ WellFormed(nd)
      /\ \A i \in 1..Len(nd.dims) : nd.dims[i] \in Nat
  BY DEF Matrix
<1>2. CASE Len(nd.dims) = 0
  BY <1>1, <1>2 DEF Rows, Cols
<1>3. CASE Len(nd.dims) = 1
  BY <1>1, <1>3 DEF Rows, Cols, WellFormed
<1>4. CASE Len(nd.dims) = 2
  BY <1>1, <1>4 DEF Rows, Cols, WellFormed
<1>5. QED BY <1>1, <1>2, <1>3, <1>4

\* Cell (r, c) of R rows of C elements.
InPlace(R, C, r, c) == /\ r * C + c + 1 \in 1..R * C
                       /\ (r * C + c) \div C = r /\ (r * C + c) % C = c

\* It lies in the elements, and its place tells its row and its column.
LEMMA Place ==
  ASSUME NEW R \in Nat, NEW C \in Nat, NEW r \in Nat, r < R, NEW c \in Nat, c < C
  PROVE  InPlace(R, C, r, c)
<1>1. /\ r * C \in Nat /\ R * C \in Nat /\ (r + 1) * C = r * C + C
      /\ (r + 1) * C <= R * C
  <2>1. r * C \in Nat /\ R * C \in Nat /\ (r + 1) * C = r * C + C
    OBVIOUS
  <2>2. r + 1 <= R
    OBVIOUS
  <2>3. (r + 1) * C <= R * C
    BY <2>2
  <2>4. QED BY <2>1, <2>3
<1>2. r * C + c + 1 \in 1..R * C
  BY <1>1
<1> DEFINE x == r * C + c
           q == x \div C
<1>3. x \in Nat /\ r * C <= x /\ x < (r + 1) * C
  BY <1>1
<1>4. q \in Int /\ q * C <= x /\ x < (q + 1) * C
  <2> HIDE DEF x
  <2>1. QED BY <1>3
<1>5. q = r
  <2> HIDE DEF x, q
  <2>1. ~(q >= r + 1)
    <3>1. SUFFICES ASSUME q >= r + 1 PROVE FALSE
      OBVIOUS
    <3>2. q * C >= (r + 1) * C
      BY <1>4, <3>1
    <3>3. QED BY <1>1, <1>3, <1>4, <3>2
  <2>2. ~(q + 1 <= r)
    <3>1. SUFFICES ASSUME q + 1 <= r PROVE FALSE
      OBVIOUS
    <3>2. (q + 1) * C <= r * C
      BY <1>4, <3>1
    <3>3. QED BY <1>1, <1>3, <1>4, <3>2
  <2>3. QED BY <1>4, <2>1, <2>2
<1>6. x % C = c
  BY <1>3
<1>7. QED BY <1>2, <1>5, <1>6 DEF InPlace

\* A part of a sequence, element by element.
LEMMA SubSeqIs ==
  ASSUME NEW V, NEW s \in Seq(V), NEW m \in Nat \ {0}, NEW n \in Nat,
         m <= n + 1, n <= Len(s)
  PROVE  SubSeq(s, m, n) = [k \in 1..n - m + 1 |-> s[m + k - 1]]
<1>1. \A i \in m..n : s[i] \in V
  BY ElementOfSeq
<1>2. /\ SubSeq(s, m, n) \in Seq(V)
      /\ Len(SubSeq(s, m, n)) = IF m <= n THEN n - m + 1 ELSE 0
      /\ \A i \in 1..n - m + 1 : SubSeq(s, m, n)[i] = s[m + i - 1]
  BY <1>1, SubSeqProperties
<1>3. QED BY <1>2

\* Row r of the elements of an array with C columns, and where (r, c) lies.
RowOf(s, C, r)  == SubSeq(s, r * C + 1, (r + 1) * C)
CellOf(C, r, c) == r * C + c + 1
Part(s, C, r, a, b) == SubSeq(RowOf(s, C, r), a + 1, b)
PartAt(s, C, r, a, b, p) ==
  \A j \in 1..b - a : p[j] = s[CellOf(C, r, a + j - 1)]

\* A part of one row of the elements.
LEMMA RowPart ==
  ASSUME NEW V, NEW s \in Seq(V), NEW C \in Nat, NEW r \in Nat,
         NEW a \in Nat, NEW b \in Nat, a <= b, b <= C, (r + 1) * C <= Len(s)
  PROVE  /\ Part(s, C, r, a, b) \in Seq(V)
         /\ Len(Part(s, C, r, a, b)) = b - a
         /\ PartAt(s, C, r, a, b, Part(s, C, r, a, b))
<1> DEFINE y == r * C
           n == (r + 1) * C
           row == SubSeq(s, y + 1, n)
<1>1. y \in Nat /\ n = y + C /\ n <= Len(s)
  OBVIOUS
<1> HIDE DEF y, n
<1>2. /\ y + 1 \in Nat \ {0} /\ n \in Nat /\ y + 1 <= n + 1 /\ n - (y + 1) + 1 = C
      /\ \A k \in 1..C : y + 1 + k - 1 = y + k /\ y + k \in 1..Len(s)
  BY <1>1
<1>3. row = [k \in 1..C |-> s[y + k]]
  <2>1. row = [k \in 1..n - (y + 1) + 1 |-> s[y + 1 + k - 1]]
    BY <1>1, <1>2, SubSeqIs
  <2>2. QED BY <1>2, <2>1
<1>4. row \in Seq(V) /\ Len(row) = C
  <2>1. \A k \in 1..C : s[y + k] \in V
    BY <1>2, ElementOfSeq
  <2> HIDE DEF row
  <2>2. QED BY <1>3, <2>1
<1> HIDE DEF row
<1>5. SubSeq(row, a + 1, b) = [j \in 1..b - (a + 1) + 1 |-> row[a + 1 + j - 1]]
  BY <1>4, SubSeqIs
<1>6. SubSeq(row, a + 1, b) = [j \in 1..b - a |-> row[a + j]]
  <2>1. b - (a + 1) + 1 = b - a /\ \A j \in 1..b - a : a + 1 + j - 1 = a + j
    OBVIOUS
  <2>2. QED BY <1>5, <2>1
<1>7. \A j \in 1..b - a : row[a + j] = s[y + (a + j - 1) + 1]
  <2>1. SUFFICES ASSUME NEW j \in 1..b - a PROVE row[a + j] = s[y + (a + j - 1) + 1]
    OBVIOUS
  <2>2. a + j \in 1..C /\ y + (a + j - 1) + 1 = y + (a + j)
    BY <1>1
  <2>3. QED BY <1>3, <2>2
<1>8. \A j \in 1..b - a : row[a + j] \in V
  BY <1>4, ElementOfSeq
<1> DEFINE p == SubSeq(row, a + 1, b)
<1> HIDE DEF p
<1>9. /\ p \in Seq(V) /\ Len(p) = b - a
      /\ \A j \in 1..b - a : p[j] = s[y + (a + j - 1) + 1]
  <2>1. p = [j \in 1..b - a |-> row[a + j]] /\ b - a \in Nat
    BY <1>6 DEF p
  <2>2. p \in Seq(V) /\ Len(p) = b - a
    BY <1>8, <2>1
  <2>3. QED BY <1>7, <2>1, <2>2
<1>10. row = RowOf(s, C, r) /\ \A c : y + c + 1 = CellOf(C, r, c)
  BY DEF row, y, n, RowOf, CellOf
<1>11. p = Part(s, C, r, a, b)
  BY <1>10 DEF p, Part
<1>12. PartAt(s, C, r, a, b, p)
  BY <1>9, <1>10 DEF PartAt
<1>13. QED BY <1>9, <1>11, <1>12

\* The array reads, for every array and window: a start outside the array is
\* refused; any other read succeeds, and returns exactly the cells of the window
\* that exist when its end is within size_t.
THEOREM ReadsExact ==
  ASSUME NEW e \in Elems, NEW nd, Matrix(nd), NEW w,
         w.row \in Nat, w.rows \in Nat, w.col \in Nat, w.cols \in Nat
  PROVE  ReadsExactly(e, nd, w)
<1> DEFINE R == Rows(nd)
           C == Cols(nd)
           res == ReadArray(e, nd, w, TRUE)
           row(i) == SubSeq(nd.data, i * C + 1, (i + 1) * C)
           lastRow == Least(R, w.row + w.rows)
           lastCol == Least(C, w.col + w.cols)
<1>1. res = ReadWindow(nd, w, TRUE)
  BY DEF ReadArray, ReadBoolArray, ReadStringArray, ReadInt16Array, ReadInt32Array,
         ReadFloatArray, ReadDoubleArray, ReadWStringArray
<1>2. /\ R \in Nat /\ C \in Nat /\ Len(nd.data) \in Nat /\ R * C = Len(nd.data)
  BY Shape
<1>3. Readable(nd, TRUE) /\ nd.array /\ ~(Len(nd.dims) > 2)
  <2>1. Readable(nd, TRUE)
    BY DEF Matrix, Readable
  <2>2. nd.array
    BY DEF Matrix
  <2> DEFINE k == Len(nd.dims)
  <2>3. k \in 0..2
    BY DEF Matrix
  <2>4. ~(k > 2)
    <3> HIDE DEF k
    <3>1. QED BY <2>3
  <2>5. QED BY <2>1, <2>2, <2>4
<1>4. CASE ~(w.row < R /\ w.col < C)
  <2>1. w.row >= R \/ w.col >= C
    BY <1>2, <1>4
  <2>2. res \in {Failed(3), Failed(5)}
    BY <1>1, <1>3, <2>1 DEF ReadWindow
  <2>3. res.ok = FALSE
    <3> HIDE DEF res
    <3>1. QED BY <2>2 DEF Failed
  <2>4. QED BY <1>4, <2>3 DEF ReadsExactly
<1>5. CASE w.row < R /\ w.col < C
  <2> DEFINE endRow == Least(R, Plus(w.row, w.rows))
             endCol == Least(C, Plus(w.col, w.cols))
             rows == IF endRow > w.row THEN endRow - w.row ELSE 0
             cols == IF endCol > w.col THEN endCol - w.col ELSE 0
             value == [i \in 1..rows |->
                         [j \in 1..cols |-> At(nd, w.row + i - 1, w.col + j - 1)]]
  <2>1. Len(nd.data) # 0
    <3> HIDE DEF R, C
    <3>1. R # 0 /\ C # 0
      BY <1>2, <1>5
    <3>2. QED BY <1>2, <3>1
  <2>2. ~(w.row >= R \/ w.col >= C)
    BY <1>2, <1>5
  <2>3. res = [ok |-> TRUE, code |-> 0, value |-> value]
    BY <1>1, <1>3, <2>1, <2>2 DEF ReadWindow
  <2>4. res.ok = TRUE /\ res.value = value
    <3> HIDE DEF value, res
    <3>1. QED BY <2>3
  <2>5. ASSUME w.row + w.rows < SizeMod, w.col + w.cols < SizeMod
        PROVE  value = [i \in 1..lastRow - w.row |->
                          SubSeq(row(w.row + i - 1), w.col + 1, lastCol)]
    <3>1. SizeMod \in Nat /\ w.row + w.rows \in Nat /\ w.col + w.cols \in Nat
      BY SizeAssumption
    <3>2. (w.row + w.rows) % SizeMod = w.row + w.rows
            /\ (w.col + w.cols) % SizeMod = w.col + w.cols
      BY <2>5, <3>1, Quotient
    <3>3. Plus(w.row, w.rows) = w.row + w.rows /\ Plus(w.col, w.cols) = w.col + w.cols
      BY <3>2 DEF Plus
    <3>4. endRow = lastRow /\ endCol = lastCol
      BY <3>3
    <3>5. /\ lastRow \in Nat /\ lastRow <= R /\ lastRow >= w.row
          /\ lastCol \in Nat /\ lastCol <= C /\ lastCol >= w.col
      BY <1>2, <1>5, <3>1 DEF Least
    <3>6. rows = lastRow - w.row /\ cols = lastCol - w.col
      <4> HIDE DEF lastRow, lastCol, endRow, endCol
      <4>1. QED BY <3>4, <3>5
    <3>7. ASSUME NEW i \in 1..rows
          PROVE  SubSeq(row(w.row + i - 1), w.col + 1, lastCol)
                   = [j \in 1..cols |-> At(nd, w.row + i - 1, w.col + j - 1)]
      <4> DEFINE r == w.row + i - 1
                 a == w.col
                 b == lastCol
      <4>1. r \in Nat /\ r < R
        <5> HIDE DEF rows, lastRow, R
        <5>1. QED BY <1>2, <3>5, <3>6
      <4>2. PICK V : nd.data \in Seq(V)
        BY DEF Matrix
      <4>3. a \in Nat /\ b \in Nat /\ a <= b /\ b <= C
        BY <3>5
      <4> DEFINE p == Part(nd.data, C, r, a, b)
      <4>4. p \in Seq(V) /\ Len(p) = b - a /\ PartAt(nd.data, C, r, a, b, p)
        <5> HIDE DEF r, a, b, C, R
        <5>1. (r + 1) * C <= R * C
          <6>1. r + 1 <= R
            BY <1>2, <4>1
          <6>2. QED BY <1>2, <4>1, <6>1
        <5>2. (r + 1) * C <= Len(nd.data)
          BY <1>2, <5>1
        <5>3. C \in Nat /\ r \in Nat
          BY <1>2, <4>1
        <5> DEFINE s == nd.data
        <5>4. s \in Seq(V) /\ (r + 1) * C <= Len(s)
          BY <4>2, <5>2
        <5> HIDE DEF s
        <5>5. /\ Part(s, C, r, a, b) \in Seq(V)
              /\ Len(Part(s, C, r, a, b)) = b - a
              /\ PartAt(s, C, r, a, b, Part(s, C, r, a, b))
          BY <4>3, <5>3, <5>4, RowPart
        <5>6. QED BY <5>5 DEF s
      <4>5. \A j : At(nd, r, a + j - 1) = nd.data[CellOf(C, r, a + j - 1)]
        BY DEF At, CellOf
      <4>6. p = SubSeq(row(r), a + 1, b)
        BY DEF RowOf, Part
      <4> HIDE DEF C, b, p
      <4>7. p = [j \in 1..cols |-> At(nd, r, a + j - 1)]
        <5>1. p = [j \in 1..b - a |-> p[j]]
          BY <4>4
        <5>2. b - a = cols
          BY <3>6 DEF b
        <5> HIDE DEF r, a
        <5>3. QED BY <4>4, <4>5, <5>1, <5>2 DEF PartAt
      <4>8. QED BY <4>6, <4>7 DEF b
    <3> HIDE DEF row, rows, cols, lastRow, lastCol
    <3>8. QED BY <3>6, <3>7
  <2>6. QED BY <1>5, <2>4, <2>5 DEF ReadsExactly
<1>6. QED BY <1>4, <1>5

\* A node asked for in another type, and one that has been written.
Typed(nd, e)    == [nd EXCEPT !.elem = e]
PutInto(nd, q)  == [nd EXCEPT !.data = q]
Legible(nd)     == Readable(nd, TRUE)

\* Both keep the shape.
LEMMA ShapeKept ==
  ASSUME NEW nd, Matrix(nd), NEW e
  PROVE  /\ Rows(Typed(nd, e)) = Rows(nd) /\ Cols(Typed(nd, e)) = Cols(nd)
         /\ Legible(Typed(nd, e)) /\ Typed(nd, e).wr = nd.wr
         /\ Typed(nd, e).elem = e /\ Typed(nd, e).array
         /\ Typed(nd, e).data = nd.data
         /\ \A q : Len(q) = Len(nd.data) =>
              LET put == PutInto(Typed(nd, e), q)
              IN  /\ Rows(put) = Rows(nd) /\ Cols(put) = Cols(nd)
                  /\ Legible(put) /\ put.array /\ ~(Len(put.dims) > 2)
                  /\ put.data = q
<1> DEFINE t == Typed(nd, e)
<1>1. DOMAIN nd = Fields
  BY DEF Matrix
<1>2. /\ t.there = nd.there /\ t.rd = nd.rd /\ t.wr = nd.wr /\ t.elem = e
      /\ t.array = nd.array /\ t.dims = nd.dims /\ t.data = nd.data /\ DOMAIN t = Fields
  BY <1>1 DEF Typed, Fields
<1> HIDE DEF t
<1>3. \A q : /\ PutInto(t, q).there = t.there /\ PutInto(t, q).rd = t.rd
             /\ PutInto(t, q).array = t.array /\ PutInto(t, q).dims = t.dims
             /\ PutInto(t, q).data = q
  BY <1>2 DEF PutInto, Fields
<1>4. Rows(t) = Rows(nd) /\ Cols(t) = Cols(nd)
  BY <1>2 DEF Rows, Cols
<1>5. nd.there /\ nd.rd /\ nd.array
  BY DEF Matrix
<1>6. Legible(t) /\ t.array
  BY <1>2, <1>5 DEF Legible, Readable
<1>7. ASSUME NEW q, Len(q) = Len(nd.data)
      PROVE  /\ Rows(PutInto(t, q)) = Rows(nd) /\ Cols(PutInto(t, q)) = Cols(nd)
             /\ Legible(PutInto(t, q)) /\ PutInto(t, q).array
             /\ ~(Len(PutInto(t, q).dims) > 2) /\ PutInto(t, q).data = q
  <2> DEFINE put == PutInto(t, q)
  <2>1. put.dims = nd.dims /\ Len(put.data) = Len(nd.data) /\ put.data = q
    BY <1>2, <1>3, <1>7
  <2>2. Legible(put) /\ put.array
    BY <1>3, <1>6 DEF Legible, Readable
  <2> HIDE DEF put
  <2>3. Rows(put) = Rows(nd) /\ Cols(put) = Cols(nd)
    BY <2>1 DEF Rows, Cols
  <2> DEFINE k == Len(put.dims)
  <2>4. k \in 0..2
    BY <2>1 DEF Matrix
  <2>5. ~(k > 2)
    <3> HIDE DEF k
    <3>1. QED BY <2>4
  <2>6. QED BY <2>1, <2>2, <2>3, <2>5 DEF put
<1>8. QED BY <1>2, <1>4, <1>6, <1>7 DEF t

\* Patch keeps the number of elements, puts the cells of "data" where they
\* belong, and touches no other.
\* What a patch of h rows of v cells does.
PatchDone(nd, R, C, data, h, v, r, c) ==
  /\ Len(Patch(nd, data, r, c)) = Len(nd.data)
  /\ \A i \in 1..h, j \in 1..v :
       Patch(nd, data, r, c)[CellOf(C, r + i - 1, c + j - 1)] = data[i][j]
  /\ \A k \in 1..Len(nd.data) :
       Patch(nd, data, r, c)[k] # nd.data[k] => /\ (k - 1) \div C \in r..r + h - 1
                                                /\ (k - 1) % C \in c..c + v - 1

\* Patch keeps the number of elements, puts the cells of "data" where they
\* belong, and touches no other.
LEMMA Patched ==
  ASSUME NEW nd, NEW R \in Nat, NEW C \in Nat, Cols(nd) = C,
         Len(nd.data) \in Nat, R * C = Len(nd.data),
         NEW data, NEW h \in Nat, NEW v \in Nat, Len(data) = h, Len(data[1]) = v,
         NEW r \in Nat, NEW c \in Nat, r + h <= R, c + v <= C
  PROVE  PatchDone(nd, R, C, data, h, v, r, c)
<1> DEFINE q == Patch(nd, data, r, c)
<1>1. \A k \in 1..Len(nd.data) :
        q[k] = IF ((k - 1) \div C) - r + 1 \in 1..h /\ ((k - 1) % C) - c + 1 \in 1..v
                 THEN data[((k - 1) \div C) - r + 1][((k - 1) % C) - c + 1]
                 ELSE nd.data[k]
  BY DEF Patch
<1>2. Len(q) = Len(nd.data)
  BY DEF Patch
<1> HIDE DEF q
<1>3. ASSUME NEW i \in 1..h, NEW j \in 1..v
      PROVE  q[CellOf(C, r + i - 1, c + j - 1)] = data[i][j]
  <2> DEFINE x == r + i - 1
             y == c + j - 1
  <2>1. x \in Nat /\ x < R /\ y \in Nat /\ y < C /\ x - r + 1 = i /\ y - c + 1 = j
    OBVIOUS
  <2> HIDE DEF x, y
  <2> DEFINE k == x * C + y + 1
  <2>2. k \in 1..R * C /\ (x * C + y) \div C = x /\ (x * C + y) % C = y
    <3>1. InPlace(R, C, x, y)
      BY <2>1, Place
    <3>2. QED BY <3>1 DEF InPlace
  <2>3. k - 1 = x * C + y
    BY <2>1
  <2>4. k \in 1..Len(nd.data) /\ (k - 1) \div C = x /\ (k - 1) % C = y
    BY <2>2, <2>3
  <2> HIDE DEF k
  <2>5. q[k] = data[i][j]
    BY <1>1, <2>1, <2>4
  <2>6. QED BY <2>5 DEF k, x, y, CellOf
<1>4. ASSUME NEW k \in 1..Len(nd.data), q[k] # nd.data[k]
      PROVE  (k - 1) \div C \in r..r + h - 1 /\ (k - 1) % C \in c..c + v - 1
  <2> DEFINE x == (k - 1) \div C
             y == (k - 1) % C
  <2>1. x - r + 1 \in 1..h /\ y - c + 1 \in 1..v
    BY <1>1, <1>4
  <2>2. C # 0
    BY <1>4
  <2>3. x \in Int /\ y \in Int
    BY <2>2
  <2> HIDE DEF x, y
  <2>4. x \in r..r + h - 1 /\ y \in c..c + v - 1
    BY <2>1, <2>3
  <2>5. QED BY <2>4 DEF x, y
<1>5. QED BY <1>2, <1>3, <1>4 DEF q, PatchDone

\* writeArray, for every array, element type and rectangle of values whose end
\* is within size_t: it is refused or it lands exactly where it was meant to.
THEOREM WritesExact ==
  ASSUME NEW e \in Elems, NEW nd, Matrix(nd), nd.wr, NEW W, NEW data \in Seq(Seq(W)),
         NEW r \in Nat, NEW c \in Nat, data # <<>>, Len(data[1]) # 0,
         \A i \in 1..Len(data) : Len(data[i]) = Len(data[1]),
         r + Len(data) < SizeMod, c + Len(data[1]) < SizeMod
  PROVE  WritesExactly(e, nd, data, r, c)
<1> DEFINE R == Rows(nd)
           C == Cols(nd)
           h == Len(data)
           v == Len(data[1])
           t == Typed(nd, e)
           res == FetchArray(e, t, data, r, c, TRUE)
           put == StoreArray(e, t, res.value, TRUE).node
           size == Window(r, h, c, v)
           fits == r + h <= R /\ c + v <= C
<1>1. R \in Nat /\ C \in Nat /\ Len(nd.data) \in Nat /\ R * C = Len(nd.data)
  BY Shape
<1>2. h \in Nat \ {0} /\ v \in Nat \ {0} /\ SizeMod \in Nat
  BY SizeAssumption
<1>3. /\ Rows(t) = R /\ Cols(t) = C /\ Legible(t) /\ t.wr /\ t.elem = e
      /\ t.array /\ t.data = nd.data
  BY ShapeKept
<1>4. Plus(r, h) = r + h /\ Plus(c, v) = c + v
  <2>1. r + h \in Nat /\ c + v \in Nat /\ r + h < SizeMod /\ c + v < SizeMod
    BY <1>2
  <2> HIDE DEF h, v
  <2>2. (r + h) % SizeMod = r + h /\ (c + v) % SizeMod = c + v
    BY <1>2, <2>1, Quotient
  <2>3. QED BY <2>2 DEF Plus
<1>5. Fits(t, data, r, c) <=> fits
  BY <1>3, <1>4 DEF Fits
<1>6. e # "Boolean" => res = FetchForWrite(e, t, data, r, c, TRUE)
  BY DEF Elems, FetchArray, FetchInt16Array, FetchInt32Array, FetchFloatArray,
         FetchDoubleArray, FetchStringArray, FetchWStringArray
<1>7. CASE ~(e # "Boolean" /\ fits)
  <2>1. res \in {Failed(-100), Failed(2), Failed(3)}
    <3>1. CASE e = "Boolean"
      BY <3>1 DEF FetchArray, FetchBoolArray
    <3>2. CASE e # "Boolean" /\ ~fits
      BY <1>5, <1>6, <3>2 DEF FetchForWrite, Legible
    <3>3. QED BY <1>7, <3>1, <3>2
  <2>2. ~res.ok
    <3> HIDE DEF res
    <3>1. QED BY <2>1 DEF Failed
  <2>3. ~(e # "Boolean" /\ r + Len(data) <= Rows(nd) /\ c + Len(data[1]) <= Cols(nd))
    BY <1>7
  <2>4. QED BY <2>2, <2>3 DEF WritesExactly, Typed
<1>8. CASE e # "Boolean" /\ fits
  <2> DEFINE q == Patch(t, data, r, c)
             written == PutInto(t, q)
             back == ReadArray(e, written, size, TRUE)
             value == [i \in 1..h |-> [j \in 1..v |-> At(written, r + i - 1, c + j - 1)]]
  <2>1. R # 0 /\ C # 0 /\ Len(nd.data) # 0 /\ r < R /\ c < C
    <3>1. R # 0 /\ C # 0 /\ r < R /\ c < C
      <4> HIDE DEF R, C, h, v
      <4>1. QED BY <1>1, <1>2, <1>8
    <3> HIDE DEF R, C
    <3>2. QED BY <1>1, <3>1
  <2>2. res = [ok |-> TRUE, code |-> 0, value |-> q]
    BY <1>3, <1>5, <1>6, <1>8, <2>1 DEF FetchForWrite, Legible
  <2>3. res.ok = TRUE /\ res.value = q
    <3> HIDE DEF q, res
    <3>1. QED BY <2>2
  <2>4. /\ Len(q) = Len(nd.data)
        /\ \A i \in 1..h, j \in 1..v : q[CellOf(C, r + i - 1, c + j - 1)] = data[i][j]
        /\ \A k \in 1..Len(nd.data) :
             q[k] # nd.data[k] => /\ (k - 1) \div C \in r..r + h - 1
                                  /\ (k - 1) % C \in c..c + v - 1
    <3>1. /\ Len(t.data) \in Nat /\ R * C = Len(t.data) /\ Cols(t) = C
          /\ h \in Nat /\ v \in Nat /\ r + h <= R /\ c + v <= C
      BY <1>1, <1>2, <1>3, <1>8
    <3> HIDE DEF R, C, h, v, t, q
    <3>2. PatchDone(t, R, C, data, h, v, r, c)
      BY <1>1, <1>3, <3>1, Patched DEF h, v
    <3>3. QED BY <1>3, <3>2 DEF PatchDone, q
  <2> HIDE DEF q
  <2>5. put = written
    <3> DEFINE st == StoreArray(e, t, q, TRUE)
    <3>1. st = [ok |-> TRUE, code |-> 0, node |-> PutInto(t, q)]
      <4> HIDE DEF t
      <4>1. Len(t.data) = Len(q)
        BY <1>3, <2>4
      <4>2. Writable(t, e, TRUE, TRUE)
        BY <1>3 DEF Writable, Legible, Readable
      <4>3. QED BY <4>1, <4>2 DEF StoreArray, PutInto
    <3> HIDE DEF t, st
    <3>2. st.node = PutInto(t, q)
      BY <3>1
    <3>3. QED BY <2>3, <3>2 DEF st
  <2>6. /\ Rows(written) = R /\ Cols(written) = C /\ Legible(written)
        /\ written.array /\ ~(Len(written.dims) > 2) /\ written.data = q
    BY <2>4, ShapeKept
  <2>7. back = ReadWindow(written, size, TRUE)
    BY DEF ReadArray, ReadBoolArray, ReadStringArray, ReadInt16Array, ReadInt32Array,
           ReadFloatArray, ReadDoubleArray, ReadWStringArray
  <2> HIDE DEF written, t
  <2>8. size.row = r /\ size.rows = h /\ size.col = c /\ size.cols = v
    BY DEF Window
  <2>9. Least(R, r + h) = r + h /\ Least(C, c + v) = c + v
    <3>1. r + h <= R /\ c + v <= C
      BY <1>8
    <3> HIDE DEF R, C, h, v
    <3>2. QED BY <1>1, <1>2, <3>1 DEF Least
  <2>10. back = [ok |-> TRUE, code |-> 0, value |-> value]
    <3> HIDE DEF R, C, h, v, size
    <3>1. ~(r >= R \/ c >= C)
      BY <1>1, <2>1
    <3>2. /\ Least(R, Plus(r, h)) = r + h /\ Least(C, Plus(c, v)) = c + v
          /\ r + h > r /\ c + v > c /\ (r + h) - r = h /\ (c + v) - c = v
      BY <1>2, <1>4, <2>9
    <3>3. Len(written.data) # 0
      BY <2>1, <2>4, <2>6
    <3>4. QED BY <2>6, <2>7, <2>8, <3>1, <3>2, <3>3 DEF ReadWindow, Legible
  <2>11. back.value = value
    <3> HIDE DEF back, value
    <3>1. QED BY <2>10
  <2>12. value = data
    <3>1. \A i \in 1..h, j \in 1..v :
            At(written, r + i - 1, c + j - 1) = data[i][j]
      BY <2>4, <2>6 DEF At, CellOf
    <3>2. data = [i \in 1..h |-> [j \in 1..v |-> data[i][j]]]
      <4>1. \A i \in 1..h : data[i] = [j \in 1..v |-> data[i][j]]
        <5>1. SUFFICES ASSUME NEW i \in 1..h PROVE data[i] = [j \in 1..v |-> data[i][j]]
          OBVIOUS
        <5>2. data[i] \in Seq(W) /\ Len(data[i]) = v
          OBVIOUS
        <5> DEFINE d == data[i]
        <5> HIDE DEF d, v
        <5>3. d = [j \in 1..v |-> d[j]]
          BY <5>2 DEF d
        <5>4. QED BY <5>3 DEF d
      <4>2. data = [i \in 1..h |-> data[i]]
        OBVIOUS
      <4> HIDE DEF h, v
      <4>3. QED BY <4>1, <4>2
    <3> HIDE DEF h, v
    <3>3. QED BY <3>1, <3>2
  <2>13. QED
    <3>1. /\ e # "Boolean" /\ r + Len(data) <= Rows(nd) /\ c + Len(data[1]) <= Cols(nd)
      BY <1>8
    <3>2. ReadArray(e, put, size, TRUE).value = data
      BY <2>5, <2>11, <2>12
    <3>3. \A k \in 1..Len(nd.data) :
             put.data[k] # nd.data[k] => /\ (k - 1) \div C \in r..r + h - 1
                                         /\ (k - 1) % C \in c..c + v - 1
      BY <2>4, <2>5, <2>6
    <3>4. QED BY <2>3, <3>1, <3>2, <3>3 DEF WritesExactly, Typed, t
<1>9. QED BY <1>7, <1>8

\* The windows a run tries.
LEMMA SampleWindows ==
  \A w \in Spans : w.row \in Nat /\ w.rows \in Nat /\ w.col \in Nat /\ w.cols \in Nat
<1>1. SizeMax \in Nat
  BY SizeAssumption DEF SizeMax
<1>2. SUFFICES ASSUME NEW r \in 0..1, NEW rs \in {1, 2, SizeMax},
                      NEW c \in 0..2, NEW cs \in {1, 2, SizeMax}
               PROVE  LET w == Window(r, rs, c, cs)
                      IN  w.row \in Nat /\ w.rows \in Nat /\ w.col \in Nat /\ w.cols \in Nat
  BY DEF Spans
<1>3. QED BY <1>1 DEF Window

Samples == {<<<<"x">>>>, <<<<"x", "y">>>>, <<<<"x">>, <<"y">>>>}

\* A rectangle of values whose end is within size_t from any small start.
Rectangle(data) ==
  /\ data \in Seq(Seq({"x", "y"})) /\ data # <<>> /\ Len(data[1]) # 0
  /\ \A i \in 1..Len(data) : Len(data[i]) = Len(data[1])
  /\ Len(data) \in 1..2 /\ Len(data[1]) \in 1..2

\* The values a run tries.
LEMMA SampleRectangles == \A data \in Samples : Rectangle(data)
<1>1. <<"x">> \in Seq({"x", "y"}) /\ <<"y">> \in Seq({"x", "y"})
        /\ <<"x", "y">> \in Seq({"x", "y"})
        /\ Len(<<"x">>) = 1 /\ Len(<<"y">>) = 1 /\ Len(<<"x", "y">>) = 2
  OBVIOUS
<1>2. Rectangle(<<<<"x">>>>)
  BY <1>1 DEF Rectangle
<1>3. Rectangle(<<<<"x", "y">>>>)
  BY <1>1 DEF Rectangle
<1>4. Rectangle(<<<<"x">>, <<"y">>>>)
  BY <1>1 DEF Rectangle
<1>5. QED BY <1>2, <1>3, <1>4 DEF Samples
==============================================================================
