-------------------------- MODULE PlcSessionProofs --------------------------
(***************************************************************************)
(* What PlcSession promises for any projects, layouts of ProjektArray,     *)
(* sizes of files and blocks, nodes a changed program may spoil, and any   *)
(* number of downloads, losses, folder changes and pauses.                 *)
(*                                                                         *)
(* None of the invariants is inductive.  They rest on TypeInv, in which    *)
(* every node holds values of its own type in its own form, and on what a  *)
(* handler has already done: SetupInv (what was registered still fits),    *)
(* ParamsInv (the values drawn with), ListInv (the list on its way into    *)
(* the array) and InfoInv (the infos written so far).                      *)
(***************************************************************************)
EXTENDS PlcWindowProofs, FiniteSetTheorems

-----------------------------------------------------------------------------
(* The registry.                                                           *)

Flags   == {"Error", "UpdateProjektList", "ProjektlistUpdated", "showProjektInfo",
            "ProjektInfoWrote", "ProjektVorhanden"}
Numbers == {"Heartbeat", "LenProjekt", "AnzDatenbloecke"}
Arrays  == ColourNodes \cup {"DataArray", "ProjektArray"}
Elements == {"Boolean", "Int16", "Float", "String"}

\* What the proofs need to know of an entry of the registry.
Entry(e) == /\ e[2] = [elem |-> e[2].elem, array |-> e[2].array]
            /\ e[2].elem \in Elements
            /\ e[2].array \in BOOLEAN
            /\ e[1] \in Arrays => e[2].array = TRUE
            /\ e[1] \notin Arrays => e[2].array = FALSE
            /\ e[1] \in Flags => e[2].elem = "Boolean"
            /\ e[1] \in Numbers \cup ColourNodes => e[2].elem = "Int16"
            /\ e[1] \in {"ProjektName", "ProjektArray"} => e[2].elem = "String"

\* Every entry of the registry, read off setupVariables.
LEMMA Entries == DOMAIN Setup = 1..38 /\ \A i \in 1..38 : Entry(Setup[i])
<1>1. DOMAIN Setup = 1..38
  BY DEF Setup
<1>2. \A i \in 1..38 : /\ Setup[i][2] = [elem |-> Setup[i][2].elem, array |-> Setup[i][2].array]
                       /\ Setup[i][2].elem \in Elements /\ Setup[i][2].array \in BOOLEAN
  <2>1. \A i \in 1..38 : \E e \in Elements : Setup[i][2] \in {Scalar(e), ArrayOf(e)}
    BY DEF Setup, Bool, Int16, Str, Colour, Elements
  <2>2. \A e \in Elements : \A t \in {Scalar(e), ArrayOf(e)} :
          t = [elem |-> t.elem, array |-> t.array] /\ t.elem = e /\ t.array \in BOOLEAN
    <3>1. ASSUME NEW e PROVE /\ Scalar(e) = [elem |-> Scalar(e).elem, array |-> Scalar(e).array]
                             /\ Scalar(e).elem = e /\ Scalar(e).array \in BOOLEAN
      BY DEF Scalar
    <3>2. ASSUME NEW e PROVE /\ ArrayOf(e) = [elem |-> ArrayOf(e).elem, array |-> ArrayOf(e).array]
                             /\ ArrayOf(e).elem = e /\ ArrayOf(e).array \in BOOLEAN
      BY DEF ArrayOf
    <3>3. QED BY <3>1, <3>2
  <2>3. QED BY <2>1, <2>2
<1>3. \A i \in 1..38 : Setup[i][1] \in Arrays => Setup[i][2].array = TRUE
  <2>1. \A i \in 1..38 : Setup[i][1] \in Arrays
                            => Setup[i][2] \in {ArrayOf("Int16"), ArrayOf("String")}
    BY DEF Setup, Bool, Int16, Str, Colour, Arrays, ColourNodes
  <2>2. \A e : ArrayOf(e).array = TRUE
    BY DEF ArrayOf
  <2>3. QED BY <2>1, <2>2
<1>4. \A i \in 1..38 : Setup[i][1] \notin Arrays => Setup[i][2].array = FALSE
  <2>1. \A i \in 1..38 : Setup[i][1] \notin Arrays
                            => \E e \in Elements : Setup[i][2] = Scalar(e)
    BY DEF Setup, Bool, Int16, Str, Colour, Arrays, ColourNodes, Elements
  <2>2. \A e : Scalar(e).array = FALSE
    BY DEF Scalar
  <2>3. QED BY <2>1, <2>2
<1>5. \A i \in 1..38 : Setup[i][1] \in Flags => Setup[i][2].elem = "Boolean"
  BY DEF Setup, Bool, Int16, Str, Colour, Scalar, ArrayOf, Flags
<1>6. \A i \in 1..38 : Setup[i][1] \in Numbers \cup ColourNodes
                          => Setup[i][2].elem = "Int16"
  BY DEF Setup, Bool, Int16, Str, Colour, Scalar, ArrayOf, Numbers, ColourNodes
<1>7. \A i \in 1..38 : Setup[i][1] \in {"ProjektName", "ProjektArray"}
                          => Setup[i][2].elem = "String"
  BY DEF Setup, Bool, Int16, Str, Colour, Scalar, ArrayOf
<1>8. QED BY <1>1, <1>2, <1>3, <1>4, <1>5, <1>6, <1>7 DEF Entry

\* The type a name is registered with is that of its entry.
LEMMA TypeOfName == \A n \in Names : Entry(<<n, Type(n)>>)
<1>1. SUFFICES ASSUME NEW n \in Names PROVE Entry(<<n, Type(n)>>)
  OBVIOUS
<1>2. TypeFor[n] \in DOMAIN Setup /\ Setup[TypeFor[n]][1] = n
  BY DEF TypeFor, Names
<1>3. Type(n) = Setup[TypeFor[n]][2]
  BY DEF Type
<1>4. QED BY <1>2, <1>3, Entries DEF Entry

\* The names the service uses are registered; those it must have are mandatory.
LEMMA NamesUsed ==
  /\ Flags \cup Numbers \cup {"ProjektName", "ProjektArray"} \subseteq Names
  /\ DesignNodes \subseteq Names
  /\ Mandatory \subseteq Names
  /\ Flags \ {"ProjektInfoWrote"} \subseteq Mandatory
  /\ Numbers \cup {"ProjektName", "ProjektArray"} \subseteq Mandatory
<1>1. \A n \in Flags : \E i \in 1..38 : Setup[i][1] = n
  <2>1. /\ Setup[1][1] = "Error" /\ Setup[7][1] = "UpdateProjektList"
        /\ Setup[8][1] = "ProjektlistUpdated" /\ Setup[16][1] = "showProjektInfo"
        /\ Setup[17][1] = "ProjektInfoWrote" /\ Setup[18][1] = "ProjektVorhanden"
    BY DEF Setup, Bool
  <2>2. QED BY <2>1 DEF Flags
<1>2. \A n \in Numbers \cup {"ProjektName", "ProjektArray"} : \E i \in 1..38 : Setup[i][1] = n
  <2>1. /\ Setup[3][1] = "Heartbeat" /\ Setup[11][1] = "LenProjekt"
        /\ Setup[12][1] = "AnzDatenbloecke" /\ Setup[9][1] = "ProjektName"
        /\ Setup[6][1] = "ProjektArray"
    BY DEF Setup, Int16, Str
  <2>2. QED BY <2>1 DEF Numbers
<1>3. \A n \in ColourNodes : \E i \in 1..38 : Setup[i][1] = n
  <2>1. /\ Setup[22][1] = "colorG0" /\ Setup[24][1] = "colorG1" /\ Setup[26][1] = "colorG2"
        /\ Setup[28][1] = "colorG3" /\ Setup[30][1] = "FarbeLive"
        /\ Setup[31][1] = "FarbeErledigt"
    BY DEF Setup, Colour
  <2>2. QED BY <2>1 DEF ColourNodes
<1>4. \A n \in NumberNodes \cup {"minArcRadius"} : \E i \in 1..38 : Setup[i][1] = n
  <2>1. /\ Setup[23][1] = "streghtsG0" /\ Setup[25][1] = "streghtsG1"
        /\ Setup[27][1] = "streghtsG2" /\ Setup[29][1] = "streghtsG3"
        /\ Setup[32][1] = "StaerkeLive" /\ Setup[33][1] = "StaerkeErledigt"
        /\ Setup[36][1] = "minArcRadius"
        /\ Setup[37][1] = "objektgroesseX" /\ Setup[38][1] = "objektgroesseY"
    BY DEF Setup, Int16
  <2>2. QED BY <2>1 DEF NumberNodes
<1>5. \A n : (\E i \in 1..38 : Setup[i][1] = n) => n \in Names
  BY Entries DEF Names
<1>6. /\ Flags \cup Numbers \cup {"ProjektName", "ProjektArray"} \subseteq Names
      /\ DesignNodes \subseteq Names
  BY <1>1, <1>2, <1>3, <1>4, <1>5 DEF DesignNodes
<1>7. QED
  BY <1>6 DEF Mandatory, Optional, Flags, Numbers

-----------------------------------------------------------------------------
(* Nodes.                                                                  *)

\* What a node of an element type may hold.
ValuesOf(e) == CASE e = "Boolean" -> BOOLEAN
                 [] e \in {"String", "ByteString"} -> Projects \cup {NoName}
                 [] OTHER -> Int

Types == [elem : Elems, array : BOOLEAN]

\* A node of type t: what it holds is of its type and fits its form.
NodeOf(t) ==
  {nd \in [there : BOOLEAN, rd : BOOLEAN, wr : BOOLEAN, elem : {t.elem}, array : {t.array},
           dims : Seq(Nat), data : Seq(ValuesOf(t.elem))] :
     WellFormed(nd) /\ Len(nd.dims) \in 0..2 /\ (~nd.array => Len(nd.data) = 1)}

IsNode(n, nd) == \E t \in Types : t.array = Type(n).array /\ nd \in NodeOf(t)

ScalarWritable(nd, e, up) == Writable(nd, e, FALSE, up)

IsNodes(f) == f = [n \in Names |-> f[n]] /\ \A n \in Names : IsNode(n, f[n])

\* Nothing but the data of a node differs.
SameForm(a, b) == /\ b.there = a.there /\ b.rd = a.rd /\ b.wr = a.wr
                  /\ b.elem = a.elem /\ b.array = a.array /\ b.dims = a.dims
                  /\ Len(b.data) = Len(a.data)

\* From f to g, the data of some of the nodes in S are written.
Writes(f, g, S) == /\ IsNodes(g)
                   /\ \A n \in Names : SameForm(f[n], g[n])
                   /\ \A n \in Names \ S : g[n] = f[n]

\* What a node keeps when other data of the same length are put in it.
LEMMA OtherData ==
  ASSUME NEW t \in Types, NEW nd \in NodeOf(t),
         NEW d \in Seq(ValuesOf(t.elem)), Len(d) = Len(nd.data)
  PROVE  /\ [nd EXCEPT !.data = d] \in NodeOf(t)
         /\ SameForm(nd, [nd EXCEPT !.data = d])
         /\ [nd EXCEPT !.data = d].data = d
<1> DEFINE x == [nd EXCEPT !.data = d]
           R == [there : BOOLEAN, rd : BOOLEAN, wr : BOOLEAN, elem : {t.elem},
                 array : {t.array}, dims : Seq(Nat), data : Seq(ValuesOf(t.elem))]
<1>1. nd \in R
  BY DEF NodeOf
<1>2. x \in R /\ x.data = d /\ x.dims = nd.dims /\ x.array = nd.array
  BY <1>1
<1>3. SameForm(nd, x)
  BY <1>1 DEF SameForm
<1>4. WellFormed(x)
  <2>1. WellFormed(nd)
    BY DEF NodeOf
  <2>2. QED BY <2>1, <1>2 DEF WellFormed
<1>5. ~x.array => Len(x.data) = 1
  BY <1>2 DEF NodeOf
<1>6. Len(x.dims) \in 0..2
  BY <1>2 DEF NodeOf
<1>7. QED BY <1>2, <1>3, <1>4, <1>5, <1>6 DEF NodeOf

\* A scalar write, done or not, changes at most the value.
LEMMA ScalarWritten ==
  ASSUME NEW n \in Names, NEW nd, IsNode(n, nd), NEW e \in Elems,
         NEW v \in ValuesOf(e), NEW up
  PROVE  /\ IsNode(n, WriteScalar(nd, e, v, up).node)
         /\ SameForm(nd, WriteScalar(nd, e, v, up).node)
         /\ ScalarWritable(nd, e, up) =>
              WriteScalar(nd, e, v, up).node.data = <<v>>
<1> DEFINE w == WriteScalar(nd, e, v, up).node
<1>1. CASE ScalarWritable(nd, e, up)
  <2>1. w = [nd EXCEPT !.data = <<v>>]
    BY <1>1 DEF WriteScalar, ScalarWritable
  <2>2. PICK t \in Types : t.array = Type(n).array /\ nd \in NodeOf(t)
    BY DEF IsNode
  <2>3. nd.elem = t.elem /\ nd.array = t.array
    BY <2>2 DEF NodeOf
  <2>4. t.elem = e /\ ~nd.array
    BY <1>1, <2>3 DEF Writable, ScalarWritable
  <2>5. <<v>> \in Seq(ValuesOf(t.elem)) /\ Len(<<v>>) = Len(nd.data)
    BY <2>2, <2>4 DEF NodeOf
  <2>6. /\ [nd EXCEPT !.data = <<v>>] \in NodeOf(t)
        /\ SameForm(nd, [nd EXCEPT !.data = <<v>>])
        /\ [nd EXCEPT !.data = <<v>>].data = <<v>>
    BY <2>2, <2>5, OtherData
  <2>7. QED BY <2>1, <2>2, <2>6 DEF IsNode
<1>2. CASE ~ScalarWritable(nd, e, up)
  <2>1. w = nd
    BY <1>2 DEF WriteScalar, ScalarWritable
  <2>2. QED BY <1>2, <2>1 DEF SameForm
<1>3. QED BY <1>1, <1>2

\* One node written and the others left alone.
LEMMA OneWritten ==
  ASSUME NEW f, IsNodes(f), NEW n \in Names, NEW nd, IsNode(n, nd), SameForm(f[n], nd)
  PROVE  Writes(f, [f EXCEPT ![n] = nd], {n}) /\ [f EXCEPT ![n] = nd][n] = nd
<1> DEFINE g == [f EXCEPT ![n] = nd]
<1>1. g[n] = nd /\ (\A m \in Names \ {n} : g[m] = f[m]) /\ g = [m \in Names |-> g[m]]
  BY DEF IsNodes
<1>2. \A m \in Names : IsNode(m, g[m]) /\ SameForm(f[m], g[m])
  BY <1>1 DEF IsNodes, SameForm
<1>3. QED BY <1>1, <1>2 DEF Writes, IsNodes

\* Writes follow each other.
LEMMA WritesCompose ==
  ASSUME NEW f, NEW g, NEW h, NEW S, NEW T, Writes(f, g, S), Writes(g, h, T)
  PROVE  Writes(f, h, S \cup T)
BY DEF Writes, SameForm

\* writeBool and writeInt16 through the dialog.
LEMMA BoolPut ==
  ASSUME IsNodes(plc), NEW n \in Names, NEW v \in BOOLEAN, PutBool(n, v)
  PROVE  /\ Writes(plc, plc', {n})
         /\ (n \in regd /\ ScalarWritable(plc[n], "Boolean", link)) => plc'[n].data = <<v>>
<1> DEFINE w == DialogWriteBool(n, v).node
           x == WriteScalar(plc[n], "Boolean", v, link).node
<1>1. /\ v \in ValuesOf("Boolean") /\ "Boolean" \in Elems /\ IsNode(n, plc[n])
  BY DEF ValuesOf, Elems, IsNodes
<1>2. /\ IsNode(n, x) /\ SameForm(plc[n], x)
      /\ ScalarWritable(plc[n], "Boolean", link) => x.data = <<v>>
  BY <1>1, ScalarWritten
<1>3. w = IF n \in regd THEN x ELSE plc[n]
  BY DEF DialogWriteBool, WriteBool, Unwritten
<1>4. plc' = [plc EXCEPT ![n] = w]
  BY DEF PutBool
<1> HIDE DEF w, x
<1>5. IsNode(n, w) /\ SameForm(plc[n], w)
  BY <1>1, <1>2, <1>3 DEF SameForm
<1>6. Writes(plc, plc', {n}) /\ plc'[n] = w
  BY <1>4, <1>5, OneWritten
<1>7. QED BY <1>2, <1>3, <1>6

\* A number of int16 written through the dialog.
LEMMA Int16Put ==
  ASSUME IsNodes(plc), NEW n \in Names, NEW v \in Int, PutInt16(n, v)
  PROVE  /\ Writes(plc, plc', {n})
         /\ (n \in regd /\ ScalarWritable(plc[n], "Int16", link)) => plc'[n].data = <<v>>
<1> DEFINE w == DialogWriteInt16(n, v).node
           x == WriteScalar(plc[n], "Int16", v, link).node
<1>1. /\ v \in ValuesOf("Int16") /\ "Int16" \in Elems /\ IsNode(n, plc[n])
  BY DEF ValuesOf, Elems, IsNodes
<1>2. /\ IsNode(n, x) /\ SameForm(plc[n], x)
      /\ ScalarWritable(plc[n], "Int16", link) => x.data = <<v>>
  BY <1>1, ScalarWritten
<1>3. w = IF n \in regd THEN x ELSE plc[n]
  BY DEF DialogWriteInt16, WriteInt16, Unwritten
<1>4. plc' = [plc EXCEPT ![n] = w]
  BY DEF PutInt16
<1> HIDE DEF w, x
<1>5. IsNode(n, w) /\ SameForm(plc[n], w)
  BY <1>1, <1>2, <1>3 DEF SameForm
<1>6. Writes(plc, plc', {n}) /\ plc'[n] = w
  BY <1>4, <1>5, OneWritten
<1>7. QED BY <1>2, <1>3, <1>6

\* writeStringArray: all of the array is replaced, or nothing.
LEMMA ArrayStored ==
  ASSUME NEW n \in Names, NEW nd, IsNode(n, nd),
         NEW values \in Seq(ValuesOf("String")), NEW up
  PROVE  LET r == StoreArray("String", nd, values, up)
         IN  /\ IsNode(n, r.node) /\ SameForm(nd, r.node)
             /\ r.ok => r.node.data = values
<1> DEFINE r == StoreArray("String", nd, values, up)
<1>1. CASE Writable(nd, "String", TRUE, up) /\ Len(nd.data) = Len(values)
  <2>1. r.node = [nd EXCEPT !.data = values]
    BY <1>1 DEF StoreArray
  <2>2. PICK t \in Types : t.array = Type(n).array /\ nd \in NodeOf(t)
    BY DEF IsNode
  <2>3. t.elem = "String"
    BY <1>1, <2>2 DEF Writable, NodeOf
  <2>4. values \in Seq(ValuesOf(t.elem)) /\ Len(values) = Len(nd.data)
    BY <1>1, <2>3
  <2>5. /\ [nd EXCEPT !.data = values] \in NodeOf(t)
        /\ SameForm(nd, [nd EXCEPT !.data = values])
        /\ [nd EXCEPT !.data = values].data = values
    BY <2>2, <2>4, OtherData
  <2>6. QED BY <2>1, <2>2, <2>5 DEF IsNode
<1>2. CASE ~(Writable(nd, "String", TRUE, up) /\ Len(nd.data) = Len(values))
  <2>1. r.node = nd /\ r.ok = FALSE
    BY <1>2 DEF StoreArray
  <2>2. QED BY <2>1 DEF SameForm
<1>3. QED BY <1>1, <1>2

\* The PLC's program puts a value of its type into one of its scalars.
LEMMA ProgramSets ==
  ASSUME IsNodes(plc), NEW f, NEW S, Writes(plc, f, S), NEW n \in Names,
         Type(n).array = FALSE, NEW v \in ValuesOf(Type(n).elem)
  PROVE  Writes(plc, Set(f, n, v), S \cup {n})
<1>1. CASE Owns(n)
  <2>1. PICK t \in Types : t.array = Type(n).array /\ f[n] \in NodeOf(t)
    BY DEF IsNode, Writes, IsNodes
  <2>2. /\ f[n].elem = plc[n].elem /\ f[n].elem = t.elem
        /\ f[n].array = t.array /\ (~f[n].array => Len(f[n].data) = 1)
    BY <2>1 DEF Writes, SameForm, NodeOf
  <2>3. t.elem = Type(n).elem /\ Len(f[n].data) = 1
    BY <2>1, <2>2, <1>1 DEF Owns
  <2>4. <<v>> \in Seq(ValuesOf(t.elem)) /\ Len(<<v>>) = Len(f[n].data)
    BY <2>3
  <2> DEFINE x == [f[n] EXCEPT !.data = <<v>>]
  <2>5. x \in NodeOf(t) /\ SameForm(f[n], x)
    BY <2>1, <2>4, OtherData
  <2>6. Set(f, n, v) = [f EXCEPT ![n] = x]
    BY <1>1 DEF Set
  <2> HIDE DEF x
  <2>7. IsNodes(f) /\ IsNode(n, x)
    BY <2>1, <2>5 DEF Writes, IsNode
  <2>8. Writes(f, Set(f, n, v), {n})
    <3>1. Writes(f, [f EXCEPT ![n] = x], {n})
      BY <2>5, <2>7, OneWritten
    <3>2. QED BY <3>1, <2>6
  <2>9. QED BY <2>8, WritesCompose
<1>2. CASE ~Owns(n)
  BY <1>2 DEF Set, Writes
<1>3. QED BY <1>1, <1>2

\* A node as it is declared, or as another program has left it.
LEMMA NodeMade ==
  ASSUME NEW t \in Types, NEW dims \in Seq(Nat), Len(dims) \in 0..2,
         (t.array /\ Len(dims) # 0) \/ (~t.array /\ Len(dims) = 0)
  PROVE  Node(t, dims) \in NodeOf(t)
<1>1. Zero(t.elem) \in ValuesOf(t.elem)
  <2>1. t.elem \in Elems
    BY DEF Types
  <2>2. CASE t.elem = "Boolean"
    BY <2>2 DEF Zero, ValuesOf
  <2>3. CASE t.elem \in {"String", "ByteString"}
    <3>1. Zero(t.elem) = NoName
      BY <2>3 DEF Zero
    <3>2. ValuesOf(t.elem) = Projects \cup {NoName}
      BY <2>3 DEF ValuesOf
    <3>3. QED BY <3>1, <3>2
  <2>4. CASE t.elem \in {"Int16", "Int32", "Float", "Double"}
    <3>1. Zero(t.elem) = 0
      BY <2>4 DEF Zero
    <3>2. ValuesOf(t.elem) = Int
      BY <2>4 DEF ValuesOf
    <3>3. QED BY <3>1, <3>2
  <2>5. QED BY <2>1, <2>2, <2>3, <2>4 DEF Elems
<1>2. CASE t.array
  <2>1. Product(dims) \in Nat
    BY <1>2 DEF Product
  <2> DEFINE d == [i \in 1..Product(dims) |-> Zero(t.elem)]
  <2>2. d \in Seq(ValuesOf(t.elem)) /\ Len(d) = Product(dims)
    BY <1>1, <2>1
  <2>3. Node(t, dims) = [there |-> TRUE, rd |-> TRUE, wr |-> TRUE, elem |-> t.elem,
                         array |-> t.array, dims |-> dims, data |-> d]
    BY <1>2 DEF Node
  <2> HIDE DEF d
  <2>4. WellFormed(Node(t, dims))
    BY <1>2, <2>2, <2>3 DEF WellFormed, Product
  <2>5. QED BY <1>2, <2>2, <2>3, <2>4 DEF NodeOf
<1>3. CASE ~t.array
  <2> DEFINE d == <<Zero(t.elem)>>
  <2>1. d \in Seq(ValuesOf(t.elem)) /\ Len(d) = 1
    BY <1>1
  <2>2. Node(t, dims) = [there |-> TRUE, rd |-> TRUE, wr |-> TRUE, elem |-> t.elem,
                         array |-> t.array, dims |-> dims, data |-> d]
    BY <1>3 DEF Node
  <2> HIDE DEF d
  <2>3. WellFormed(Node(t, dims))
    BY <1>3, <2>2 DEF WellFormed
  <2>4. QED BY <2>1, <2>2, <2>3 DEF NodeOf
<1>4. QED BY <1>2, <1>3

DimsOf(n, dims) == CASE n = "ProjektArray" -> dims
                     [] n = "DataArray"    -> <<1>>
                     [] n \in ColourNodes  -> <<3>>
                     [] OTHER              -> <<>>

\* A registered type is a type.
LEMMA TypesOfNames == \A n \in Names : Type(n) \in Types
BY TypeOfName DEF Types, Entry, Elements, Elems

\* The nodes of a PLC that runs the program the service was written for.
LEMMA NodeDeclared ==
  ASSUME NEW n \in Names, NEW l \in Layouts
  PROVE  IsNode(n, Declared(n, l.dims)) /\ Declared(n, l.dims) \in NodeOf(Type(n))
<1>1. l.dims \in Seq(Nat) /\ Len(l.dims) \in 1..2
  BY SessionAssumption
<1>2. Type(n) \in Types /\ (n \in Arrays => Type(n).array = TRUE)
        /\ (n \notin Arrays => Type(n).array = FALSE)
  BY TypesOfNames, TypeOfName DEF Entry
<1>3. /\ DimsOf(n, l.dims) \in Seq(Nat)
      /\ n \in Arrays => Len(DimsOf(n, l.dims)) \in 1..2
      /\ n \notin Arrays => Len(DimsOf(n, l.dims)) = 0
  BY <1>1 DEF DimsOf, Arrays
<1>4. Declared(n, l.dims) = Node(Type(n), DimsOf(n, l.dims))
  BY DEF Declared, DimsOf
<1>5. Declared(n, l.dims) \in NodeOf(Type(n))
  <2>1. CASE n \in Arrays
    BY <2>1, <1>2, <1>3, <1>4, NodeMade
  <2>2. CASE n \notin Arrays
    BY <2>2, <1>2, <1>3, <1>4, NodeMade
  <2>3. QED BY <2>1, <2>2
<1>6. QED BY <1>2, <1>5 DEF IsNode

\* The nodes another program may leave in their place.
LEMMA NodeSpoilt ==
  ASSUME NEW n \in Names, NEW l \in Layouts, NEW v \in Spoilt(n, l.dims)
  PROVE  IsNode(n, v)
<1> DEFINE d == Declared(n, l.dims)
           e == IF d.elem = "Float" THEN "Int16" ELSE "Float"
           t == [elem |-> e, array |-> d.array]
<1>1. d \in NodeOf(Type(n)) /\ Type(n) \in Types
  BY NodeDeclared, TypesOfNames
<1>2. d.array = Type(n).array /\ d.array \in BOOLEAN /\ t \in Types /\ t.array = Type(n).array
  BY <1>1 DEF NodeOf, Types, Elems
<1>3. Node(t, d.dims) \in NodeOf(t)
  <2>1. d = Node(Type(n), DimsOf(n, l.dims))
    BY DEF Declared, DimsOf
  <2>2. d.dims = DimsOf(n, l.dims)
    BY <2>1 DEF Node
  <2>3. l.dims \in Seq(Nat) /\ Len(l.dims) \in 1..2
    BY SessionAssumption
  <2>4. (n \in Arrays => Type(n).array = TRUE) /\ (n \notin Arrays => Type(n).array = FALSE)
    BY TypeOfName DEF Entry
  <2>5. /\ DimsOf(n, l.dims) \in Seq(Nat)
        /\ n \in Arrays => Len(DimsOf(n, l.dims)) \in 1..2
        /\ n \notin Arrays => Len(DimsOf(n, l.dims)) = 0
    BY <2>3 DEF DimsOf, Arrays
  <2> HIDE DEF d, t
  <2>6. QED BY <1>2, <2>2, <2>4, <2>5, NodeMade
<1>4. [d EXCEPT !.there = FALSE] \in NodeOf(Type(n))
  <2> HIDE DEF d
  <2>1. QED BY <1>1 DEF NodeOf, WellFormed
<1>5. [d EXCEPT !.wr = FALSE] \in NodeOf(Type(n))
  <2> HIDE DEF d
  <2>1. QED BY <1>1 DEF NodeOf, WellFormed
<1>6. v \in {[d EXCEPT !.there = FALSE], [d EXCEPT !.wr = FALSE], Node(t, d.dims)}
  BY DEF Spoilt
<1> HIDE DEF d, t
<1>7. QED BY <1>1, <1>2, <1>3, <1>4, <1>5, <1>6 DEF IsNode

-----------------------------------------------------------------------------
(* Types.                                                                  *)

CurType == [list : Seq(Projects), from : SUBSET Projects,
            values : Seq(ValuesOf("String")), name : Projects \cup {NoName},
            found : BOOLEAN, len : Nat,
            params : [DesignNodes -> {"node", "default", "foreign"}]]

\* What the session, the PLC and the operator leave of every variable.
TypeInv ==
  /\ IsNodes(plc) /\ cur \in CurType
  /\ layout \in Layouts /\ folder \in SUBSET Projects
  /\ {link, dataOn, failed, fresh} \subseteq BOOLEAN
  /\ pc \in Labels /\ regd \subseteq Names /\ DOMAIN diag \subseteq Names
  /\ owed \in {"none", "asked", "taken", "lost"}

\* What each step does to the nodes.
LEMMA FlagTypes ==
  ASSUME NEW n \in Flags
  PROVE  n \in Names /\ Type(n).array = FALSE /\ Type(n).elem = "Boolean"
BY TypeOfName, NamesUsed DEF Entry, Flags, Arrays, ColourNodes

\* The numbers the session writes are scalars of int16.
LEMMA NumberTypes ==
  ASSUME NEW n \in Numbers
  PROVE  n \in Names /\ Type(n).array = FALSE /\ Type(n).elem = "Int16"
BY TypeOfName, NamesUsed DEF Entry, Numbers, Arrays, ColourNodes

\* The name and the list: a scalar string and an array of strings.
LEMMA NameTypes ==
  /\ "ProjektName" \in Names /\ Type("ProjektName").array = FALSE
  /\ Type("ProjektName").elem = "String"
  /\ "ProjektArray" \in Names /\ Type("ProjektArray").array = TRUE
  /\ Type("ProjektArray").elem = "String"
BY TypeOfName, NamesUsed DEF Entry, Arrays, ColourNodes

\* Which nodes a step of the session writes; a write keeps the form of its node.
LEMMA SessionWrites ==
  ASSUME TypeInv
  PROVE  /\ SetupDone      => Writes(plc, plc', {"Error"})
         /\ ClearList      => Writes(plc, plc', {"UpdateProjektList"})
         /\ StoreArrayNode => Writes(plc, plc', {"ProjektArray"})
         /\ ListUpdated    => Writes(plc, plc', {"ProjektlistUpdated"})
         /\ ListError \/ InfoError => Writes(plc, plc', {"Error"})
         /\ ClearInfo      => Writes(plc, plc', {"showProjektInfo"})
         /\ NotFound \/ WriteThere => Writes(plc, plc', {"ProjektVorhanden"})
         /\ WriteLen       => Writes(plc, plc', {"LenProjekt"})
         /\ WriteBlocks    => Writes(plc, plc', {"AnzDatenbloecke"})
         /\ Announce       => Writes(plc, plc', {"ProjektInfoWrote"})
<1>1. IsNodes(plc) /\ cur \in CurType
  BY DEF TypeInv
<1>2. ASSUME NEW n \in Flags, NEW v \in BOOLEAN, PutBool(n, v) PROVE Writes(plc, plc', {n})
  BY <1>1, <1>2, FlagTypes, BoolPut
<1>3. ASSUME NEW n \in Numbers, NEW v \in Int, PutInt16(n, v) PROVE Writes(plc, plc', {n})
  BY <1>1, <1>3, NumberTypes, Int16Put
<1>4. \A i \in Int : ToInt16(i) \in Int
  BY SessionAssumption DEF ToInt16
<1>5. cur.len \in Int /\ Blocks(cur.len) \in Int
  BY <1>1, SessionAssumption DEF CurType, Blocks
<1>6. ASSUME SetupDone PROVE Writes(plc, plc', {"Error"})
  <2> DEFINE w == WriteScalar(plc["Error"], "Boolean", FALSE, link).node
  <2>1. plc' = [plc EXCEPT !["Error"] = w]
    BY <1>6 DEF SetupDone, WriteBool
  <2>2. "Error" \in Names /\ IsNode("Error", plc["Error"])
    BY <1>1, FlagTypes DEF Flags, IsNodes
  <2>3. "Boolean" \in Elems /\ FALSE \in ValuesOf("Boolean")
    BY DEF Elems, ValuesOf
  <2>4. IsNode("Error", w) /\ SameForm(plc["Error"], w)
    BY <2>2, <2>3, ScalarWritten
  <2> HIDE DEF w
  <2>5. QED BY <1>1, <2>1, <2>2, <2>4, OneWritten
<1>7. ASSUME StoreArrayNode PROVE Writes(plc, plc', {"ProjektArray"})
  <2> DEFINE w == StoreArray("String", plc["ProjektArray"], cur.values, link).node
  <2>1. plc' = [plc EXCEPT !["ProjektArray"] = w]
    BY <1>7 DEF StoreArrayNode
  <2>2. /\ "ProjektArray" \in Names /\ IsNode("ProjektArray", plc["ProjektArray"])
        /\ cur.values \in Seq(ValuesOf("String"))
    BY <1>1, NameTypes DEF IsNodes, CurType
  <2>3. IsNode("ProjektArray", w) /\ SameForm(plc["ProjektArray"], w)
    BY <2>2, ArrayStored
  <2> HIDE DEF w
  <2>4. QED BY <1>1, <2>1, <2>2, <2>3, OneWritten
<1>8. /\ ClearList => Writes(plc, plc', {"UpdateProjektList"})
      /\ ListUpdated => Writes(plc, plc', {"ProjektlistUpdated"})
      /\ ListError \/ InfoError => Writes(plc, plc', {"Error"})
      /\ ClearInfo => Writes(plc, plc', {"showProjektInfo"})
      /\ NotFound \/ WriteThere => Writes(plc, plc', {"ProjektVorhanden"})
      /\ Announce => Writes(plc, plc', {"ProjektInfoWrote"})
  BY <1>2 DEF ClearList, ListUpdated, ListError, InfoError, ClearInfo, NotFound,
              WriteThere, Announce, Flags
<1>9. /\ WriteLen => Writes(plc, plc', {"LenProjekt"})
      /\ WriteBlocks => Writes(plc, plc', {"AnzDatenbloecke"})
  BY <1>3, <1>4, <1>5 DEF WriteLen, WriteBlocks, Numbers
<1>10. QED BY <1>6, <1>7, <1>8, <1>9

ListRequest == {"ProjektlistUpdated", "UpdateProjektList"}
InfoRequest == {"Error", "ProjektName", "ProjektInfoWrote", "showProjektInfo"}

\* Which nodes the PLC writes itself, and that only a download or its repair
\* changes the form of one.
LEMMA ProgramWrites ==
  ASSUME TypeInv
  PROVE  /\ RequestList => Writes(plc, plc', ListRequest)
         /\ RequestInfo => Writes(plc, plc', InfoRequest)
         /\ Download \/ Repair => IsNodes(plc') /\ fresh' = FALSE
<1>1. IsNodes(plc) /\ layout \in Layouts /\ Writes(plc, plc, {})
  BY DEF TypeInv, Writes, SameForm, IsNodes
<1>2. ASSUME NEW f, NEW S, Writes(plc, f, S), NEW n \in Flags, NEW v \in BOOLEAN
      PROVE  Writes(plc, Set(f, n, v), S \cup {n})
  <2>1. v \in ValuesOf(Type(n).elem) /\ n \in Names /\ Type(n).array = FALSE
    BY FlagTypes DEF ValuesOf
  <2>2. QED BY <1>1, <1>2, <2>1, ProgramSets
<1>3. ASSUME RequestList PROVE Writes(plc, plc', ListRequest)
  <2> DEFINE f == Set(plc, "ProjektlistUpdated", FALSE)
  <2>1. Writes(plc, f, {} \cup {"ProjektlistUpdated"})
    BY <1>1, <1>2 DEF Flags
  <2> HIDE DEF f
  <2>2. Writes(plc, Set(f, "UpdateProjektList", TRUE),
               ({} \cup {"ProjektlistUpdated"}) \cup {"UpdateProjektList"})
    BY <2>1, <1>2 DEF Flags
  <2>3. plc' = Set(f, "UpdateProjektList", TRUE)
    BY <1>3 DEF RequestList, f
  <2>4. ({} \cup {"ProjektlistUpdated"}) \cup {"UpdateProjektList"} = ListRequest
    BY DEF ListRequest
  <2>5. QED BY <2>2, <2>3, <2>4
<1>4. ASSUME RequestInfo PROVE Writes(plc, plc', InfoRequest)
  <2>1. PICK p \in Projects \cup {NoName} :
          plc' = Set(Set(Set(Set(plc, "Error", FALSE), "ProjektName", p),
                         "ProjektInfoWrote", FALSE), "showProjektInfo", TRUE)
    BY <1>4 DEF RequestInfo
  <2> DEFINE f == Set(plc, "Error", FALSE)
             g == Set(f, "ProjektName", p)
             h == Set(g, "ProjektInfoWrote", FALSE)
  <2>2. plc' = Set(h, "showProjektInfo", TRUE)
    BY <2>1
  <2>3. Writes(plc, f, {} \cup {"Error"})
    BY <1>1, <1>2 DEF Flags
  <2>4. p \in ValuesOf(Type("ProjektName").elem)
    BY NameTypes DEF ValuesOf
  <2> HIDE DEF f
  <2>5. Writes(plc, g, ({} \cup {"Error"}) \cup {"ProjektName"})
    BY <1>1, <2>3, <2>4, NameTypes, ProgramSets
  <2> HIDE DEF g
  <2>6. Writes(plc, h, (({} \cup {"Error"}) \cup {"ProjektName"}) \cup {"ProjektInfoWrote"})
    BY <2>5, <1>2 DEF Flags
  <2> HIDE DEF h
  <2>7. Writes(plc, plc', ((({} \cup {"Error"}) \cup {"ProjektName"})
                             \cup {"ProjektInfoWrote"}) \cup {"showProjektInfo"})
    BY <2>2, <2>6, <1>2 DEF Flags
  <2>8. ((({} \cup {"Error"}) \cup {"ProjektName"}) \cup {"ProjektInfoWrote"})
           \cup {"showProjektInfo"} = InfoRequest
    BY DEF InfoRequest
  <2>9. QED BY <2>7, <2>8
<1>5. ASSUME NEW n, NEW v, n \in Names => IsNode(n, v), Load(n, v)
      PROVE  IsNodes(plc') /\ fresh' = FALSE
  <2>1. plc' = [plc EXCEPT ![n] = v] /\ fresh' = FALSE
    BY <1>5 DEF Load
  <2>2. \A m \in Names : plc'[m] = IF m = n THEN v ELSE plc[m]
    BY <1>1, <2>1 DEF IsNodes
  <2>3. plc' = [m \in Names |-> plc'[m]]
    BY <1>1, <2>1 DEF IsNodes
  <2>4. QED BY <1>1, <1>5, <2>1, <2>2, <2>3 DEF IsNodes
<1>6. ASSUME Download PROVE IsNodes(plc') /\ fresh' = FALSE
  <2>1. PICK n \in Breakable : \E v \in Spoilt(n, layout.dims) : Load(n, v)
    BY <1>6 DEF Download
  <2>2. PICK v \in Spoilt(n, layout.dims) : Load(n, v)
    BY <2>1
  <2>3. n \in Names => IsNode(n, v)
    BY <1>1, NodeSpoilt
  <2>4. QED BY <1>5, <2>2, <2>3
<1>7. ASSUME Repair PROVE IsNodes(plc') /\ fresh' = FALSE
  <2>1. PICK n \in Breakable : Load(n, Declared(n, layout.dims))
    BY <1>7 DEF Repair
  <2>2. n \in Names => IsNode(n, Declared(n, layout.dims))
    BY <1>1, NodeDeclared
  <2>3. QED BY <1>5, <2>1, <2>2
<1>8. QED BY <1>3, <1>4, <1>6, <1>7

\* listProjects: as many of the folder's projects as the setting allows, each
\* of them once.
LEMMA ListingMade ==
  ASSUME folder \in SUBSET Projects, layout \in Layouts
  PROVE  /\ Listing \in Seq(folder) /\ IsInjective(Listing)
         /\ Cardinality(folder) \in Nat /\ layout.limit \in 1..SizeMax
         /\ Len(Listing) = Least(Cardinality(folder), layout.limit)
<1> DEFINE c == Cardinality(folder)
           s == SetToSeq(folder)
           k == Least(c, layout.limit)
<1>1. IsFiniteSet(folder) /\ layout.limit \in 1..SizeMax
  BY SessionAssumption, FS_Subset
<1>2. c \in Nat /\ ExistsBijection(1..c, folder)
  BY <1>1, FS_CardinalityType
<1>3. \E f \in [1..c -> folder] : IsInjective(f)
  BY <1>2 DEF ExistsBijection, Bijection, Injection
<1>4. s \in [1..c -> folder] /\ IsInjective(s)
  BY <1>3 DEF SetToSeq
<1>5. s \in Seq(folder) /\ Len(s) = c
  BY <1>2, <1>4
<1>6. k \in Nat /\ k <= c
  BY <1>1, <1>2, SizeAssumption DEF Least, SizeMax
<1>7. Listing = SubSeq(s, 1, k)
  BY <1>5 DEF Listing
<1> HIDE DEF s, c, k
<1>8. Listing \in Seq(folder) /\ Len(Listing) = k /\ \A i \in 1..k : Listing[i] = s[i]
  BY <1>5, <1>6, <1>7
<1>9. IsInjective(Listing)
  <2>1. DOMAIN Listing = 1..k /\ DOMAIN s = 1..c
    BY <1>2, <1>4, <1>8
  <2>2. SUFFICES ASSUME NEW a \in 1..k, NEW b \in 1..k, Listing[a] = Listing[b]
                 PROVE  a = b
    BY <2>1 DEF IsInjective
  <2>3. s[a] = s[b] /\ a \in 1..c /\ b \in 1..c
    BY <1>2, <1>6, <1>8, <2>2
  <2>4. QED BY <1>4, <2>1, <2>3 DEF IsInjective
<1>10. QED BY <1>1, <1>2, <1>8, <1>9 DEF c, k

\* The first call of writeStringArray: what it has read and patched.
LEMMA ArrayFetched ==
  ASSUME TypeInv, DialogFetchStringArray("ProjektArray", <<cur.list>>).ok
  PROVE  LET nd == plc["ProjektArray"]
         IN  /\ Fits(nd, <<cur.list>>, 0, 0) /\ Len(nd.data) # 0
             /\ DialogFetchStringArray("ProjektArray", <<cur.list>>).value
                  = Patch(nd, <<cur.list>>, 0, 0)
             /\ Patch(nd, <<cur.list>>, 0, 0) \in Seq(ValuesOf("String"))
             /\ Len(Patch(nd, <<cur.list>>, 0, 0)) = Len(nd.data)
<1> DEFINE nd == plc["ProjektArray"]
           r == DialogFetchStringArray("ProjektArray", <<cur.list>>)
<1>1. "ProjektArray" \in regd
  BY DEF DialogFetchStringArray, Failed
<1>2. r = FetchForWrite("String", nd, <<cur.list>>, 0, 0, link)
  BY <1>1 DEF DialogFetchStringArray, FetchStringArray
<1>3. /\ nd.elem = "String" /\ Len(nd.data) # 0 /\ Fits(nd, <<cur.list>>, 0, 0)
      /\ r.value = Patch(nd, <<cur.list>>, 0, 0)
  BY <1>2 DEF FetchForWrite, Failed
<1>4. nd.data \in Seq(ValuesOf("String"))
  <2>1. IsNode("ProjektArray", nd)
    BY NameTypes DEF TypeInv, IsNodes
  <2>2. PICK t \in Types : nd \in NodeOf(t)
    BY <2>1 DEF IsNode
  <2>3. t.elem = "String"
    BY <1>3, <2>2 DEF NodeOf
  <2>4. QED BY <2>2, <2>3 DEF NodeOf
<1>5. cur.list \in Seq(ValuesOf("String"))
  <2>1. cur.list \in Seq(Projects)
    BY DEF TypeInv, CurType
  <2>2. ValuesOf("String") = Projects \cup {NoName}
    BY DEF ValuesOf
  <2>3. QED BY <2>1, <2>2, SeqMonotonic
<1> HIDE DEF r, nd
<1>6. \A k \in 1..Len(nd.data) :
        Patch(nd, <<cur.list>>, 0, 0)[k] \in ValuesOf("String")
  <2>1. SUFFICES ASSUME NEW k \in 1..Len(nd.data)
                 PROVE  Patch(nd, <<cur.list>>, 0, 0)[k] \in ValuesOf("String")
    OBVIOUS
  <2> DEFINE row == (k - 1) \div Cols(nd)
             col == (k - 1) % Cols(nd)
  <2>2. Patch(nd, <<cur.list>>, 0, 0)[k]
          = IF row - 0 + 1 \in 1..Len(<<cur.list>>) /\ col - 0 + 1 \in 1..Len(<<cur.list>>[1])
              THEN <<cur.list>>[row - 0 + 1][col - 0 + 1] ELSE nd.data[k]
    BY DEF Patch
  <2> HIDE DEF row, col
  <2>3. CASE row - 0 + 1 \in 1..Len(<<cur.list>>) /\ col - 0 + 1 \in 1..Len(<<cur.list>>[1])
    <3>1. row - 0 + 1 = 1 /\ Len(<<cur.list>>) = 1 /\ <<cur.list>>[1] = cur.list
      BY <2>3
    <3>2. cur.list[col - 0 + 1] \in ValuesOf("String")
      BY <1>5, <2>3, <3>1, ElementOfSeq
    <3>3. QED BY <2>2, <2>3, <3>1, <3>2
  <2>4. CASE ~(row - 0 + 1 \in 1..Len(<<cur.list>>) /\ col - 0 + 1 \in 1..Len(<<cur.list>>[1]))
    BY <1>4, <2>2, <2>4, ElementOfSeq
  <2>5. QED BY <2>3, <2>4
<1>7. /\ Len(nd.data) \in Nat
      /\ Patch(nd, <<cur.list>>, 0, 0) = [k \in 1..Len(nd.data) |-> Patch(nd, <<cur.list>>, 0, 0)[k]]
  BY <1>4 DEF Patch
<1> DEFINE pt == Patch(nd, <<cur.list>>, 0, 0)
<1> HIDE DEF pt
<1>8. pt \in Seq(ValuesOf("String")) /\ Len(pt) = Len(nd.data)
  <2>1. pt \in [1..Len(nd.data) -> ValuesOf("String")]
    BY <1>6, <1>7 DEF pt
  <2>2. QED BY <1>7, <2>1
<1>9. QED BY <1>3, <1>8 DEF pt, nd, r

\* The steps that leave the nodes alone.
Quiet == \/ Connect \/ SetupFails \/ Round \/ Leave \/ RefreshDiag \/ BeatFails
         \/ ListFlag \/ ListProjects \/ FetchArrayNode \/ InfoFlag \/ ReadName \/ Render
         \/ LinkLost \/ ChangeFolder \/ SwitchData \/ UNCHANGED vars

\* All other steps leave the nodes alone.
LEMMA QuietWrites == ASSUME TypeInv, Quiet PROVE plc' = plc
BY DEF Quiet, Connect, SetupFails, Round, Leave, RefreshDiag, BeatFails, ListFlag,
       ListProjects, FetchArrayNode, InfoFlag, ReadName, Render, LinkLost, ChangeFolder,
       SwitchData, vars

\* Every node keeps holding values of its type in its form.
LEMMA NodesStep == ASSUME TypeInv, [Next]_vars PROVE IsNodes(plc')
<1>1. CASE Quiet
  BY <1>1, QuietWrites DEF TypeInv
<1>2. CASE ~Quiet
  BY <1>2, SessionWrites, ProgramWrites
     DEF Next, Session, List, Info, Quiet, Writes
<1>3. QED BY <1>1, <1>2

\* The locals of the handlers keep to their types.
LEMMA CurStep == ASSUME TypeInv, [Next]_vars PROVE cur' \in CurType
<1>1. cur \in CurType /\ folder \in SUBSET Projects /\ layout \in Layouts
  BY DEF TypeInv
<1>2. Idle \in CurType
  BY SessionAssumption DEF Idle, CurType, NoParams
<1>3. CASE ListProjects
  <2>1. Listing \in Seq(folder) 
    BY <1>1, ListingMade
  <2>2. Listing \in Seq(Projects)
    BY <1>1, <2>1, SeqMonotonic
  <2>3. cur' = [Idle EXCEPT !.list = Listing, !.from = folder]
    BY <1>3 DEF ListProjects
  <2>4. QED BY <1>1, <1>2, <2>2, <2>3 DEF CurType
<1>4. CASE FetchArrayNode
  <2>1. CASE DialogFetchStringArray("ProjektArray", <<cur.list>>).ok
    <3>1. DialogFetchStringArray("ProjektArray", <<cur.list>>).value \in Seq(ValuesOf("String"))
      BY <2>1, ArrayFetched
    <3>2. cur' = [cur EXCEPT !.values =
                    DialogFetchStringArray("ProjektArray", <<cur.list>>).value]
      BY <1>4, <2>1 DEF FetchArrayNode
    <3>3. QED BY <1>1, <3>1, <3>2 DEF CurType
  <2>2. CASE ~DialogFetchStringArray("ProjektArray", <<cur.list>>).ok
    BY <1>1, <1>4, <2>2 DEF FetchArrayNode
  <2>3. QED BY <2>1, <2>2
<1>5. CASE ReadName
  <2>1. CASE cur' = cur
    BY <1>1, <2>1
  <2>2. CASE cur' # cur
    <3> DEFINE name == DialogReadString("ProjektName").value
    <3>1. DialogReadString("ProjektName").ok
      BY <1>5, <2>2 DEF ReadName
    <3>2. name \in Projects \cup {NoName}
      <4>1. "ProjektName" \in regd
        BY <3>1 DEF DialogReadString, Failed
      <4> DEFINE nd == plc["ProjektName"]
      <4>2. DialogReadString("ProjektName") = ReadScalar(nd, "String", link)
        BY <4>1 DEF DialogReadString, ReadString
      <4>3. nd.elem = "String" /\ ~nd.array /\ name = nd.data[1]
        BY <3>1, <4>2 DEF ReadScalar, Failed
      <4>4. IsNode("ProjektName", nd)
        BY NameTypes DEF TypeInv, IsNodes
      <4>5. PICK t \in Types : nd \in NodeOf(t)
        BY <4>4 DEF IsNode
      <4>6. t.elem = "String"
        BY <4>3, <4>5 DEF NodeOf
      <4>7. nd.data \in Seq(ValuesOf("String")) /\ Len(nd.data) = 1
        BY <4>3, <4>5, <4>6 DEF NodeOf
      <4> HIDE DEF nd
      <4>8. nd.data[1] \in ValuesOf("String")
        BY <4>7
      <4>9. QED BY <4>3, <4>8 DEF ValuesOf
    <3>3. cur' = IF name \in folder
                   THEN [Idle EXCEPT !.name = name, !.found = TRUE, !.len = Records[name]]
                   ELSE [Idle EXCEPT !.name = name]
      BY <1>5, <2>2 DEF ReadName
    <3> HIDE DEF name
    <3>4. QED BY <1>1, <1>2, <3>2, <3>3, SessionAssumption DEF CurType
  <2>3. QED BY <2>1, <2>2
<1>6. CASE Render
  <2>1. \A n \in DesignNodes : LoadFromSPS[n] \in {"node", "default", "foreign"}
    BY DEF LoadFromSPS, LoadColour, LoadNumber
  <2>2. LoadFromSPS \in [DesignNodes -> {"node", "default", "foreign"}]
    BY <2>1 DEF LoadFromSPS
  <2>3. cur' = [cur EXCEPT !.params = LoadFromSPS]
    BY <1>6 DEF Render
  <2>4. QED BY <1>1, <2>2, <2>3 DEF CurType
<1>7. CASE ListUpdated \/ ListError \/ Announce
  BY <1>2, <1>7 DEF ListUpdated, ListError, Announce
<1>8. CASE ~(ListProjects \/ FetchArrayNode \/ ReadName \/ Render \/ ListUpdated
               \/ ListError \/ Announce)
  <2>1. cur' = cur
    BY <1>8 DEF Next, Session, List, Info, Connect, SetupFails, SetupDone, Round, Leave,
                RefreshDiag, BeatFails, ListFlag, ClearList, StoreArrayNode, InfoFlag,
                ClearInfo, NotFound, InfoError, WriteLen, WriteThere, WriteBlocks,
                RequestList, RequestInfo, Download, Repair, LinkLost, ChangeFolder,
                SwitchData, Event, service, vars
  <2>2. QED BY <1>1, <2>1
<1>9. QED BY <1>3, <1>4, <1>5, <1>6, <1>7, <1>8

\* How the control of the session moves.
LEMMA ControlStep ==
  ASSUME TypeInv, [Next]_vars
  PROVE  /\ layout' = layout /\ folder' \in SUBSET Projects
         /\ pc' \in Labels
         /\ Operating' => Operating \/ SetupDone
         /\ regd' = regd \/ Connect \/ SetupFails \/ SetupDone
         /\ diag' = diag \/ Connect \/ SetupFails \/ SetupDone \/ RefreshDiag \/ Leave
         /\ diag' \in {diag, <<>>, NodeDiagnostics}
         /\ pc = "off" => pc' = "off" \/ Connect
         /\ owed' \in {owed, "none", "asked", "taken", "lost"}
<1> USE DEF TypeInv, Labels, Showing, Operating,
       Next, Session, List, Info, Connect, SetupFails, SetupDone, Round, Leave, RefreshDiag,
       BeatFails, ListFlag, ClearList, ListProjects, FetchArrayNode, StoreArrayNode,
       ListUpdated, ListError, Answered, InfoFlag, ClearInfo, ReadName, NotFound, InfoError,
       WriteLen, WriteThere, WriteBlocks, Render, Announce, Move, RequestList, RequestInfo,
       Download, Repair, Load, LinkLost, ChangeFolder, SwitchData, Event, session, world,
       service, vars
<1>1. layout' = layout /\ folder' \in SUBSET Projects
  OBVIOUS
<1>2. pc' \in Labels /\ (pc = "off" => pc' = "off" \/ Connect)
  OBVIOUS
<1>3. Operating' => Operating \/ SetupDone
  OBVIOUS
<1>4. regd' = regd \/ Connect \/ SetupFails \/ SetupDone
  OBVIOUS
<1>5. /\ diag' = diag \/ Connect \/ SetupFails \/ SetupDone \/ RefreshDiag \/ Leave
      /\ diag' \in {diag, <<>>, NodeDiagnostics}
  OBVIOUS
<1>6. owed' \in {owed, "none", "asked", "taken", "lost"}
  OBVIOUS
<1>7. QED BY <1>1, <1>2, <1>3, <1>4, <1>5, <1>6

\* What is said of link, program and setup.
LEMMA SwitchStep ==
  ASSUME TypeInv, [Next]_vars
  PROVE  /\ link' \in BOOLEAN /\ dataOn' \in BOOLEAN
         /\ failed' \in BOOLEAN /\ fresh' \in BOOLEAN
         /\ fresh' => fresh \/ Connect
         /\ link' => link \/ Connect
         /\ failed' => failed \/ SetupFails
<1> USE DEF TypeInv,
       Next, Session, List, Info, Connect, SetupFails, SetupDone, Round, Leave, RefreshDiag,
       BeatFails, ListFlag, ClearList, ListProjects, FetchArrayNode, StoreArrayNode,
       ListUpdated, ListError, InfoFlag, ClearInfo, ReadName, NotFound, InfoError,
       WriteLen, WriteThere, WriteBlocks, Render, Announce, Move, RequestList, RequestInfo,
       Download, Repair, Load, LinkLost, ChangeFolder, SwitchData, Event, session, world,
       service, vars
<1>1. link' \in BOOLEAN /\ dataOn' \in BOOLEAN
  OBVIOUS
<1>2. failed' \in BOOLEAN /\ fresh' \in BOOLEAN
  OBVIOUS
<1>3. fresh' => fresh \/ Connect
  OBVIOUS
<1>4. link' => link \/ Connect
  OBVIOUS
<1>5. failed' => failed \/ SetupFails
  OBVIOUS
<1>6. QED BY <1>1, <1>2, <1>3, <1>4, <1>5

\* So does the rest of the state.
LEMMA WorldStep ==
  ASSUME TypeInv, [Next]_vars
  PROVE  /\ layout' \in Layouts /\ folder' \in SUBSET Projects
         /\ {link, dataOn, failed, fresh}' \subseteq BOOLEAN
         /\ pc' \in Labels /\ regd' \subseteq Names /\ DOMAIN diag' \subseteq Names
         /\ owed' \in {"none", "asked", "taken", "lost"}
<1>1. regd' \subseteq Names
  <2>1. Connect \/ SetupFails \/ SetupDone => regd' \in {{}, Registered}
    BY DEF Connect, SetupFails, SetupDone
  <2>2. QED BY <2>1, ControlStep DEF TypeInv, Registered
<1>2. DOMAIN diag' \subseteq Names
  <2>1. DOMAIN NodeDiagnostics = Names /\ DOMAIN <<>> = {}
    BY DEF NodeDiagnostics, Configured
  <2>2. QED BY <2>1, ControlStep DEF TypeInv
<1>3. QED BY <1>1, <1>2, ControlStep, SwitchStep DEF TypeInv

\* The installation as the service finds it.
LEMMA TypeInit == Init => TypeInv
<1>1. SUFFICES ASSUME Init PROVE TypeInv
  OBVIOUS
<1>2. plc = [n \in Names |-> Declared(n, layout.dims)] /\ layout \in Layouts
  BY <1>1 DEF Init
<1>3. IsNodes(plc)
  BY <1>2, NodeDeclared DEF IsNodes
<1>4. cur \in CurType
  BY <1>1 DEF Init, Idle, CurType, NoParams
<1>5. layout \in Layouts /\ folder \in SUBSET Projects /\ regd \subseteq Names
  BY <1>1 DEF Init
<1>6. {link, dataOn, failed, fresh} \subseteq BOOLEAN
  BY <1>1 DEF Init
<1>7. /\ pc \in Labels /\ DOMAIN diag \subseteq Names
      /\ owed \in {"none", "asked", "taken", "lost"}
  BY <1>1 DEF Init, Labels
<1>8. QED BY <1>3, <1>4, <1>5, <1>6, <1>7 DEF TypeInv

\* Nodes, locals, settings and history keep to their types.
LEMMA TypeInvHolds == Spec => []TypeInv
<1>1. TypeInv /\ [Next]_vars => TypeInv'
  <2>1. SUFFICES ASSUME TypeInv, [Next]_vars PROVE TypeInv'
    OBVIOUS
  <2>2. IsNodes(plc') /\ cur' \in CurType
    BY <2>1, NodesStep, CurStep
  <2>3. QED BY <2>1, <2>2, WorldStep DEF TypeInv, IsNodes, CurType
<1>2. QED BY <1>1, TypeInit, PTL DEF Spec

\* Every variable keeps to its type; a node keeps the number of its elements
\* through every patch (writeStringArray), whatever program, names and files there are.
THEOREM TypeHolds == Spec => []TypeOK
<1>1. TypeInv => TypeOK
  <2>1. SUFFICES ASSUME TypeInv PROVE TypeOK
    OBVIOUS
  <2>2. ASSUME NEW n \in Names
        PROVE  /\ {plc[n].there, plc[n].rd, plc[n].wr, plc[n].array} \subseteq BOOLEAN
               /\ plc[n].elem \in Elems /\ WellFormed(plc[n])
               /\ ~plc[n].array => Len(plc[n].data) = 1
    <3>1. PICK t \in Types : plc[n] \in NodeOf(t)
      BY <2>1 DEF TypeInv, IsNodes, IsNode
    <3>2. t.elem \in Elems /\ t.array \in BOOLEAN
      BY DEF Types
    <3>3. QED BY <3>1, <3>2 DEF NodeOf
  <2>3. cur.name \in Projects \cup {NoName}
          /\ cur.params \in [DesignNodes -> {"node", "default", "foreign"}]
    BY <2>1 DEF TypeInv, CurType
  <2>4. QED BY <2>1, <2>2, <2>3 DEF TypeOK, TypeInv
<1>2. QED BY <1>1, TypeInvHolds, PTL

-----------------------------------------------------------------------------
(* The verdict of the setup.                                               *)

\* Nodes are spoilt by another program only.
LEMMA FormsStay ==
  ASSUME TypeInv, [Next]_vars, fresh', ~Connect
  PROVE  fresh /\ Writes(plc, plc', Names)
<1>1. fresh
  BY SwitchStep
<1>2. ~(Download \/ Repair)
  BY ProgramWrites
<1>3. ASSUME NEW S, Writes(plc, plc', S), S \subseteq Names PROVE Writes(plc, plc', Names)
  BY <1>3 DEF Writes
<1>4. CASE Quiet
  <2>1. plc' = plc
    BY <1>4, QuietWrites
  <2>2. Writes(plc, plc', {})
    BY <2>1 DEF Writes, SameForm, TypeInv
  <2>3. QED BY <1>1, <1>3, <2>2
<1>5. CASE ~Quiet
  <2>1. /\ "Error" \in Names /\ "UpdateProjektList" \in Names /\ "ProjektArray" \in Names
        /\ "ProjektlistUpdated" \in Names /\ "showProjektInfo" \in Names
        /\ "ProjektVorhanden" \in Names /\ "LenProjekt" \in Names
        /\ "AnzDatenbloecke" \in Names /\ "ProjektInfoWrote" \in Names
        /\ ListRequest \subseteq Names /\ InfoRequest \subseteq Names
    BY NamesUsed DEF Flags, Numbers, ListRequest, InfoRequest
  <2>2. \E S \in SUBSET Names : Writes(plc, plc', S)
    <3>1. \/ SetupDone \/ ClearList \/ StoreArrayNode \/ ListUpdated \/ ListError
          \/ ClearInfo \/ NotFound \/ InfoError \/ WriteLen \/ WriteThere \/ WriteBlocks
          \/ Announce \/ RequestList \/ RequestInfo
      BY <1>2, <1>5 DEF Next, Session, List, Info, Quiet
    <3>2. \A n \in Names : Writes(plc, plc', {n}) => \E S \in SUBSET Names : Writes(plc, plc', S)
      OBVIOUS
    <3>3. QED BY <2>1, <3>1, <3>2, SessionWrites, ProgramWrites
  <2>3. QED BY <1>1, <1>3, <2>2
<1>6. QED BY <1>4, <1>5

\* A write changes neither that a node fits its registration nor that it may be written.
LEMMA SoundStays ==
  ASSUME NEW S, Writes(plc, plc', S), NEW n \in Names
  PROVE  /\ Sound(n)' <=> Sound(n)
         /\ plc'[n].wr = plc[n].wr
BY DEF Writes, SameForm, Sound, RegisterVariable, Readable

AtFault(n) == Shown(n) \/ (Type(n).array /\ ~Sound(n))

\* Operating, the session has all it must have, and as long as the program is the
\* same what it has registered still fits; after a failed setup a node is at fault.
SetupInv ==
  /\ failed => pc = "off"
  /\ Operating => Mandatory \subseteq regd
  /\ (Operating /\ fresh) => \A n \in regd : Sound(n)
  /\ (failed /\ fresh) => \E n \in Mandatory : AtFault(n)

\* A mandatory node that was refused shows in the diagnosis taken with it.
LEMMA RefusedShows ==
  ASSUME TypeInv, NEW n \in Names, ~RegisterVariable(plc[n], Type(n), link)
  PROVE  \/ ~({"exists", "readable"} \subseteq NodeDiagnostics[n])
         \/ ~Type(n).array /\ "value" \notin NodeDiagnostics[n]
         \/ Type(n).array /\ ~Sound(n)
<1> DEFINE nd == plc[n]
           t  == Type(n)
<1>1. t.elem \in Elements
  BY TypeOfName DEF Entry
<1>2. NodeDiagnostics[n] = Access(n) \cup
        (IF "readable" \in Access(n) /\ HasValue(n) THEN {"value"} ELSE {})
  BY DEF NodeDiagnostics, Configured
<1>3. CASE ~Readable(nd, link)
  <2>1. ~({"exists", "readable"} \subseteq Access(n))
    BY <1>3 DEF Access, Readable
  <2>2. QED BY <1>2, <2>1
<1>4. CASE Readable(nd, link) /\ t.array
  <2>1. ~Sound(n)
    BY <1>4 DEF Sound, RegisterVariable, Readable
  <2>2. QED BY <1>4, <2>1
<1>5. CASE Readable(nd, link) /\ ~t.array
  <2>1. nd.elem # t.elem \/ nd.array # t.array
    BY <1>5 DEF RegisterVariable
  <2>2. nd.elem # t.elem \/ nd.array
    <3>1. nd.array \in BOOLEAN /\ t.array \in BOOLEAN
      BY TypesOfNames DEF TypeInv, IsNodes, IsNode, NodeOf, Types
    <3>2. QED BY <1>5, <2>1, <3>1
  <2>3. ~HasValue(n)
    BY <1>1, <1>5, <2>2 DEF HasValue, Elements, ReadInt16, ReadFloat, ReadBool, ReadString,
                            ReadScalar, Failed
  <2>4. "value" \notin Access(n)
    BY DEF Access
  <2>5. QED BY <1>2, <1>5, <2>3, <2>4
<1>6. QED BY <1>3, <1>4, <1>5

\* Registration, the verdict on it and the diagnosis published with it.
LEMMA SetupStep ==
  ASSUME TypeInv, SetupInv, [Next]_vars
  PROVE  SetupInv'
<1>1. failed' => pc' = "off"
  <2>1. SetupFails => pc' = "off"
    BY DEF SetupFails
  <2>2. Connect => failed' = FALSE
    BY DEF Connect
  <2>3. QED BY <2>1, <2>2, ControlStep, SwitchStep DEF SetupInv
<1>2. Operating' => Mandatory \subseteq regd'
  <2>1. CASE SetupDone
    BY <2>1 DEF SetupDone, SetupOk
  <2>2. CASE Connect \/ SetupFails
    BY <2>2 DEF Connect, SetupFails, Operating
  <2>3. QED BY <2>1, <2>2, ControlStep DEF SetupInv
<1>3. (Operating' /\ fresh') => \A n \in regd' : Sound(n)'
  <2>1. SUFFICES ASSUME Operating', fresh', NEW n \in regd' PROVE Sound(n)'
    OBVIOUS
  <2>2. ~Connect /\ ~SetupFails
    BY <2>1 DEF Connect, SetupFails, Operating
  <2>3. fresh /\ Writes(plc, plc', Names)
    BY <2>1, <2>2, FormsStay
  <2>4. n \in Names /\ Sound(n)
    <3>1. CASE SetupDone
      <4>1. n \in Registered
        BY <2>1, <3>1 DEF SetupDone
      <4>2. QED BY <4>1 DEF Registered, Sound, RegisterVariable, Readable
    <3>2. CASE ~SetupDone
      BY <2>1, <2>2, <2>3, <3>2, ControlStep DEF SetupInv, TypeInv
    <3>3. QED BY <3>1, <3>2
  <2>5. QED BY <2>3, <2>4, SoundStays
<1>4. (failed' /\ fresh') => \E n \in Mandatory : AtFault(n)'
  <2>1. SUFFICES ASSUME failed', fresh' PROVE \E n \in Mandatory : AtFault(n)'
    OBVIOUS
  <2>2. ~Connect
    BY <2>1 DEF Connect
  <2>3. fresh /\ Writes(plc, plc', Names)
    BY <2>1, <2>2, FormsStay
  <2>4. CASE SetupFails
    <3>1. PICK n \in Mandatory : ~RegisterVariable(plc[n], Type(n), link)
      BY <2>4, NamesUsed DEF SetupFails, SetupOk, Registered
    <3>2. diag' = NodeDiagnostics /\ n \in Names /\ n \in DOMAIN NodeDiagnostics
      BY <2>4, NamesUsed DEF SetupFails, NodeDiagnostics, Configured
    <3>3. Sound(n)' <=> Sound(n)
      BY <2>3, <3>2, SoundStays
    <3>4. QED BY <3>1, <3>2, <3>3, RefusedShows DEF AtFault, Shown
  <2>5. CASE ~SetupFails
    <3>1. failed /\ pc = "off"
      BY <2>1, <2>5, SwitchStep DEF SetupInv
    <3>2. diag' = diag
      BY <2>2, <2>5, <3>1, ControlStep DEF SetupDone, RefreshDiag, Leave
    <3>3. PICK n \in Mandatory : AtFault(n)
      BY <2>3, <3>1 DEF SetupInv
    <3>4. Sound(n)' <=> Sound(n)
      BY <2>3, NamesUsed, SoundStays
    <3>5. QED BY <3>2, <3>3, <3>4 DEF AtFault, Shown
  <2>6. QED BY <2>4, <2>5
<1>5. QED BY <1>1, <1>2, <1>3, <1>4 DEF SetupInv

\* Registered in this session means fit, until another program is loaded.
LEMMA SetupInvHolds == Spec => []SetupInv
<1>1. Init => SetupInv
  BY DEF Init, SetupInv, Operating
<1>2. TypeInv /\ SetupInv /\ [Next]_vars => SetupInv'
  BY SetupStep
<1>3. QED BY <1>1, <1>2, TypeInvHolds, PTL DEF Spec

\* The verdict of setupVariables (main.cpp 735-748): unless another program is
\* loaded, the service operates only with every mandatory node in its type, and a
\* failed setup shows a mandatory node at fault, or is about the type of an array.
THEOREM SetupVerdictHolds == Spec => []SetupVerdict
<1>1. SetupInv => SetupVerdict
  BY DEF SetupInv, SetupVerdict, AtFault
<1>2. QED BY <1>1, SetupInvHolds, PTL

-----------------------------------------------------------------------------
(* What is drawn with.                                                     *)

\* How the locals of the handlers move.
LEMMA LocalStep ==
  ASSUME TypeInv, [Next]_vars
  PROVE  /\ \/ pc' = pc /\ cur' = cur
            \/ pc' # pc /\ (Session \/ BeatFails \/ List \/ Info)
         /\ cur' = cur \/ List \/ Info
         /\ List => pc \in {"listFlag", "clearList", "listing", "fetch", "store", "listed",
                             "listError"}
         /\ Info => pc \in {"infoFlag"} \cup Showing
<1> USE DEF Next, Session, List, Info, Connect, SetupFails, SetupDone, Round, Leave, RefreshDiag,
       BeatFails, ListFlag, ClearList, ListProjects, FetchArrayNode, StoreArrayNode,
       ListUpdated, ListError, InfoFlag, ClearInfo, ReadName, NotFound, InfoError,
       WriteLen, WriteThere, WriteBlocks, Render, Announce, Move, RequestList, RequestInfo,
       Download, Repair, LinkLost, ChangeFolder, SwitchData, Event, service, vars
<1>1. \/ pc' = pc /\ cur' = cur
      \/ pc' # pc /\ (Session \/ BeatFails \/ List \/ Info)
  OBVIOUS
<1>2. cur' = cur \/ List \/ Info
  OBVIOUS
<1>3. List => pc \in {"listFlag", "clearList", "listing", "fetch", "store", "listed",
                      "listError"}
  OBVIOUS
<1>4. Info => pc \in {"infoFlag"} \cup Showing
  BY DEF Showing
<1>5. QED BY <1>1, <1>2, <1>3, <1>4

\* The values drawn with are defaults until they are loaded, and of their type.
ParamsInv ==
  /\ pc \notin {"infoError", "announce"} => cur.params = NoParams
  /\ fresh => \A n \in DesignNodes : cur.params[n] # "foreign"

\* loadFromSPS in a session whose registrations fit: a node is drawn with, or a default.
LEMMA LoadedOwn ==
  ASSUME SetupInv, Operating, fresh, NEW n \in DesignNodes
  PROVE  LoadFromSPS[n] # "foreign"
<1>1. \A m \in regd : plc[m].elem = Type(m).elem
  BY DEF SetupInv, Sound, RegisterVariable
<1>2. CASE n \in ColourNodes
  <2>1. LoadFromSPS[n] = LoadColour(n)
    BY <1>2 DEF LoadFromSPS
  <2>2. Type(n).elem = "Int16"
    BY <1>2, NamesUsed, TypeOfName DEF Entry, DesignNodes
  <2>3. CASE n \in regd
    <3>1. plc[n].elem = "Int16"
      BY <1>1, <2>2, <2>3
    <3>2. QED BY <2>1, <3>1 DEF LoadColour
  <2>4. CASE n \notin regd
    <3>1. DialogReadInt16Array(n).ok = FALSE
      BY <2>4 DEF DialogReadInt16Array, Failed
    <3>2. QED BY <2>1, <3>1 DEF LoadColour
  <2>5. QED BY <2>3, <2>4
<1>3. CASE n \notin ColourNodes
  <2>1. LoadFromSPS[n] = LoadNumber(n)
    BY <1>3 DEF LoadFromSPS
  <2>2. CASE n \in regd
    <3>1. plc[n].elem = Type(n).elem
      BY <1>1, <2>2
    <3>2. QED BY <2>1, <3>1 DEF LoadNumber
  <2>3. CASE n \notin regd
    <3>1. DialogReadFloat(n).ok = FALSE /\ DialogReadInt16(n).ok = FALSE
      BY <2>3 DEF DialogReadFloat, DialogReadInt16, Failed
    <3>2. QED BY <2>1, <3>1 DEF LoadNumber
  <2>4. QED BY <2>2, <2>3
<1>4. QED BY <1>2, <1>3

\* The values drawn with, from loadFromSPS to the end of the handler.
LEMMA ParamsStep ==
  ASSUME TypeInv, SetupInv, ParamsInv, [Next]_vars
  PROVE  ParamsInv'
<1>1. cur \in CurType /\ Idle.params = NoParams
        /\ \A n \in DesignNodes : NoParams[n] # "foreign"
  BY DEF TypeInv, Idle, NoParams
<1>2. CASE pc' = pc /\ cur' = cur
  <2>1. ~Connect
    BY <1>2 DEF Connect
  <2>2. QED BY <1>2, <2>1, SwitchStep DEF ParamsInv
<1>3. CASE pc' # pc /\ (Session \/ BeatFails)
  <2>1. pc \notin {"infoError", "announce"} /\ cur' = cur
    BY <1>3 DEF Session, Connect, SetupFails, SetupDone, Round, Leave, BeatFails
  <2>2. QED BY <1>1, <2>1 DEF ParamsInv
<1>4. CASE Render
  <2>1. /\ cur' = [cur EXCEPT !.params = LoadFromSPS]
        /\ pc = "params" /\ pc' \in {"infoError", "announce"} /\ fresh' = fresh
    BY <1>4 DEF Render, Move, world
  <2>2. cur'.params = LoadFromSPS
    BY <1>1, <2>1 DEF CurType
  <2>3. QED BY <2>1, <2>2, LoadedOwn DEF ParamsInv, Operating
<1>5. CASE InfoError
  BY <1>5 DEF InfoError, Move, world, ParamsInv
<1>6. CASE (List \/ Info) /\ ~Render /\ ~InfoError
  <2>1. cur'.params \in {cur.params, NoParams}
    <3>1. \A x, y : [Idle EXCEPT !.list = x, !.from = y].params = NoParams
      BY DEF Idle
    <3>2. \A x : [cur EXCEPT !.values = x].params = cur.params
      BY <1>1 DEF CurType
    <3>3. CASE ListProjects
      BY <3>1, <3>3 DEF ListProjects
    <3>4. CASE FetchArrayNode
      BY <3>2, <3>4 DEF FetchArrayNode
    <3>5. CASE ReadName
      <4>1. \/ cur' = cur
            \/ \E x, z : cur' = [Idle EXCEPT !.name = x, !.found = TRUE, !.len = z]
            \/ \E x : cur' = [Idle EXCEPT !.name = x]
        BY <3>5 DEF ReadName
      <4>2. CASE cur' = cur
        BY <4>2
      <4>3. ASSUME NEW x, NEW z, cur' = [Idle EXCEPT !.name = x, !.found = TRUE, !.len = z]
            PROVE  cur'.params = NoParams
        BY <4>3 DEF Idle
      <4>4. ASSUME NEW x, cur' = [Idle EXCEPT !.name = x]
            PROVE  cur'.params = NoParams
        BY <4>4 DEF Idle
      <4>5. QED BY <4>1, <4>2, <4>3, <4>4
    <3>6. CASE ~(ListProjects \/ FetchArrayNode \/ ReadName)
      BY <1>1, <1>6, <3>6
         DEF List, Info, ListFlag, ClearList, StoreArrayNode, ListUpdated, ListError, InfoFlag,
             ClearInfo, NotFound, WriteLen, WriteThere, WriteBlocks, Announce
    <3>7. QED BY <3>3, <3>4, <3>5, <3>6
  <2>2. pc # "infoError" /\ (pc = "announce" => Announce) /\ fresh' = fresh
    BY <1>6 DEF List, Info, ListFlag, ClearList, ListProjects, FetchArrayNode, StoreArrayNode,
                ListUpdated, ListError, InfoFlag, ClearInfo, ReadName, NotFound, WriteLen,
                WriteThere, WriteBlocks, Announce, Move, world
  <2>3. Announce => cur'.params = NoParams
    BY <1>1 DEF Announce
  <2>4. cur'.params = NoParams
    BY <2>1, <2>2, <2>3 DEF ParamsInv
  <2>5. QED BY <1>1, <2>4 DEF ParamsInv
<1>7. QED BY <1>2, <1>3, <1>4, <1>5, <1>6, LocalStep

\* The type check of registerVariable is enough for the arrays that are read
\* without one (OPC_UA_Arrays.cpp): no elements of another type are drawn with
\* while the program is the one the session was set up with.
THEOREM TypeSafeHolds == Spec => []TypeSafe
<1>1. Init => ParamsInv
  BY DEF Init, ParamsInv, Idle, NoParams
<1>2. TypeInv /\ SetupInv /\ ParamsInv /\ [Next]_vars => ParamsInv'
  BY ParamsStep
<1>3. ParamsInv => TypeSafe
  BY DEF ParamsInv, TypeSafe
<1>4. QED BY <1>1, <1>2, <1>3, TypeInvHolds, SetupInvHolds, PTL DEF Spec

-----------------------------------------------------------------------------
(* The list.                                                               *)

\* The list is what listProjects makes of the folder.
ListMade ==
  /\ cur.list \in Seq(cur.from) /\ IsInjective(cur.list)
  /\ Cardinality(cur.from) \in Nat
  /\ Len(cur.list) = Least(Cardinality(cur.from), layout.limit)

\* An array that begins with the list.
BeginsWith(a, list) == Len(list) <= Len(a) /\ SubSeq(a, 1, Len(list)) = list

\* The list on its way: taken from the folder, patched into a copy, stored.
ListInv ==
  /\ pc \in {"fetch", "store", "listed"} => ListMade
  /\ pc = "store" => BeginsWith(cur.values, cur.list)
  /\ (pc = "listed" /\ fresh) => /\ BeginsWith(plc["ProjektArray"].data, cur.list)
                                 /\ plc["ProjektArray"].wr

\* Patched into the first row, the list is what the array begins with.
LEMMA PatchBegins ==
  ASSUME NEW nd, nd.dims \in Seq(Nat), WellFormed(nd), NEW V, nd.data \in Seq(V),
         Len(nd.data) # 0, NEW list \in Seq(V), Len(list) <= SizeMax,
         Fits(nd, <<list>>, 0, 0)
  PROVE  BeginsWith(Patch(nd, <<list>>, 0, 0), list)
<1> DEFINE k == Len(list)
           a == Patch(nd, <<list>>, 0, 0)
           c == Cols(nd)
           z == Len(nd.data)
<1>1. k \in Nat /\ z \in Nat \ {0} /\ SizeMod \in Nat \ {0} /\ k < SizeMod
  BY SizeAssumption DEF SizeMax
<1>2. c \in Nat /\ c <= z /\ (Len(nd.dims) # 2 => c = z)
  <2>1. Len(nd.dims) \in Nat /\ \A i \in 1..Len(nd.dims) : nd.dims[i] \in Nat
    OBVIOUS
  <2>2. CASE Len(nd.dims) = 0
    BY <1>1, <2>2 DEF Cols
  <2>3. CASE Len(nd.dims) = 1
    BY <1>1, <2>1, <2>3 DEF Cols, WellFormed
  <2>4. CASE Len(nd.dims) = 2
    <3> DEFINE x == nd.dims[1]
               y == nd.dims[2]
    <3>1. x \in Nat /\ y \in Nat /\ x * y = z /\ c = y
      BY <2>1, <2>4 DEF Cols, WellFormed
    <3> HIDE DEF x, y, z, c
    <3>2. x # 0
      BY <1>1, <3>1
    <3>3. y <= x * y
      BY <3>1, <3>2
    <3>4. QED BY <2>4, <3>1, <3>3
  <2>5. CASE Len(nd.dims) \notin {0, 1, 2}
    <3>1. Cols(nd) = z
      BY <2>5 DEF Cols
    <3>2. QED BY <1>1, <2>5, <3>1
  <2>6. QED BY <2>1, <2>2, <2>3, <2>4, <2>5
<1>3. k <= c
  <2>1. Plus(0, k) <= c
    BY DEF Fits
  <2>2. Plus(0, k) = k
    <3> HIDE DEF k
    <3>1. k \in Nat /\ SizeMod \in Nat /\ k < SizeMod
      BY <1>1
    <3>2. k % SizeMod = k
      BY <3>1, Quotient
    <3>3. 0 + k = k
      BY <1>1
    <3>4. Plus(0, k) = k % SizeMod
      BY <3>3 DEF Plus
    <3>5. QED BY <3>2, <3>4
  <2>3. QED BY <2>1, <2>2
<1>4. \A i \in 1..k : a[i] = list[i]
  <2>1. SUFFICES ASSUME NEW i \in 1..k PROVE a[i] = list[i]
    OBVIOUS
  <2> DEFINE row == (i - 1) \div c
             col == (i - 1) % c
  <2>2. i - 1 \in Nat /\ i - 1 < c /\ i \in 1..z
    BY <1>1, <1>2, <1>3
  <2>3. row = 0 /\ col = i - 1
    <3> HIDE DEF c
    <3>1. QED BY <1>2, <2>2, Quotient
  <2>4. a[i] = IF row - 0 + 1 \in 1..Len(<<list>>) /\ col - 0 + 1 \in 1..Len(<<list>>[1])
                 THEN <<list>>[row - 0 + 1][col - 0 + 1] ELSE nd.data[i]
    BY <2>2 DEF Patch
  <2>5. /\ row - 0 + 1 = 1 /\ col - 0 + 1 = i
        /\ Len(<<list>>) = 1 /\ <<list>>[1] = list
    BY <2>2, <2>3
  <2> HIDE DEF row, col, a
  <2>6. QED BY <2>4, <2>5
<1>5. a = [j \in 1..z |-> a[j]] /\ Len(a) = z
  BY <1>1 DEF Patch
<1>6. SubSeq(a, 1, k) = list
  <2> HIDE DEF a, z, c
  <2>1. SubSeq(a, 1, k) = [i \in 1..k |-> a[i]]
    BY <1>1, <1>2, <1>3, <1>5
  <2>2. list = [i \in 1..k |-> list[i]]
    OBVIOUS
  <2>3. QED BY <1>4, <2>1, <2>2
<1>7. QED BY <1>1, <1>2, <1>3, <1>5, <1>6 DEF BeginsWith

\* Steps other than the service's leave the array alone, a download aside.
LEMMA ArrayStays ==
  ASSUME TypeInv, [Next]_vars, fresh', pc' = pc, cur' = cur
  PROVE  plc'["ProjektArray"] = plc["ProjektArray"]
<1>1. ~(Download \/ Repair)
  BY ProgramWrites
<1>2. plc' = plc \/ RequestList \/ RequestInfo
  BY <1>1 DEF Next, Session, List, Info, Connect, SetupFails, SetupDone, Round, Leave,
       RefreshDiag, BeatFails, ListFlag, ClearList, ListProjects, FetchArrayNode,
       StoreArrayNode, ListUpdated, ListError, InfoFlag, ClearInfo, ReadName, NotFound,
       InfoError, WriteLen, WriteThere, WriteBlocks, Render, Announce, Move, LinkLost,
       ChangeFolder, SwitchData, vars
<1>3. QED BY <1>2, ProgramWrites, NameTypes DEF Writes, ListRequest, InfoRequest

\* From the folder to the list patched in and stored.
LEMMA ListStep ==
  ASSUME TypeInv, ListInv, [Next]_vars
  PROVE  ListInv'
<1>1. /\ cur \in CurType /\ layout \in Layouts /\ folder \in SUBSET Projects
      /\ layout' = layout
  BY ControlStep DEF TypeInv
<1>2. CASE pc' = pc /\ cur' = cur
  <2>1. ~Connect
    BY <1>2 DEF Connect
  <2>2. ListMade' <=> ListMade
    BY <1>1, <1>2 DEF ListMade
  <2>3. QED BY <1>2, <2>1, <2>2, ArrayStays, SwitchStep DEF ListInv
<1>3. CASE ListProjects
  <2>1. /\ cur' = [Idle EXCEPT !.list = Listing, !.from = folder]
        /\ pc' \in {"listError", "fetch"}
    BY <1>3 DEF ListProjects, Move
  <2>2. cur'.list = Listing /\ cur'.from = folder
    BY <2>1 DEF Idle
  <2>3. ListMade'
    BY <1>1, <2>2, ListingMade DEF ListMade
  <2>4. QED BY <2>1, <2>3 DEF ListInv
<1>4. CASE FetchArrayNode
  <2> DEFINE r  == DialogFetchStringArray("ProjektArray", <<cur.list>>)
             nd == plc["ProjektArray"]
  <2>1. CASE r.ok
    <3>1. pc = "fetch" /\ pc' = "store" /\ cur' = [cur EXCEPT !.values = r.value]
      BY <1>4, <2>1 DEF FetchArrayNode, Move
    <3>2. cur'.list = cur.list /\ cur'.from = cur.from /\ cur'.values = r.value
      BY <1>1, <3>1 DEF CurType
    <3>3. ListMade /\ ListMade'
      BY <1>1, <3>1, <3>2 DEF ListInv, ListMade
    <3>4. /\ Fits(nd, <<cur.list>>, 0, 0) /\ Len(nd.data) # 0
          /\ r.value = Patch(nd, <<cur.list>>, 0, 0)
      BY <2>1, ArrayFetched
    <3>5. nd.dims \in Seq(Nat) /\ WellFormed(nd) /\ \E V : nd.data \in Seq(V)
      <4>1. PICK t \in Types : nd \in NodeOf(t)
        BY NameTypes DEF TypeInv, IsNodes, IsNode
      <4>2. QED BY <4>1 DEF NodeOf
    <3>6. PICK V : nd.data \in Seq(V)
      BY <3>5
    <3>7. Len(cur.list) <= SizeMax
      BY <1>1, <3>3, SessionAssumption, SizeAssumption DEF ListMade, Least, SizeMax
    <3>8. BeginsWith(Patch(nd, <<cur.list>>, 0, 0), cur.list)
      <4>1. nd.data \in Seq(V \cup Projects) /\ cur.list \in Seq(V \cup Projects)
        BY <1>1, <3>6, SeqMonotonic DEF CurType
      <4>2. QED BY <3>4, <3>5, <3>7, <4>1, PatchBegins
    <3>9. QED BY <3>1, <3>2, <3>3, <3>4, <3>8 DEF ListInv
  <2>2. CASE ~r.ok
    <3>1. pc' = "listError"
      BY <1>4, <2>2 DEF FetchArrayNode, Move
    <3>2. QED BY <3>1 DEF ListInv
  <2>3. QED BY <2>1, <2>2
<1>5. CASE StoreArrayNode
  <2> DEFINE r == StoreArray("String", plc["ProjektArray"], cur.values, link)
  <2>1. CASE r.ok
    <3>1. /\ pc = "store" /\ pc' = "listed" /\ cur' = cur
          /\ plc' = [plc EXCEPT !["ProjektArray"] = r.node]
      BY <1>5, <2>1 DEF StoreArrayNode, Move
    <3>2. plc'["ProjektArray"] = r.node
      BY <3>1, NameTypes DEF TypeInv, IsNodes
    <3>3. r.node.data = cur.values
      <4>1. IsNode("ProjektArray", plc["ProjektArray"]) /\ cur.values \in Seq(ValuesOf("String"))
        BY <1>1, NameTypes DEF TypeInv, IsNodes, CurType
      <4>2. QED BY <2>1, <4>1, NameTypes, ArrayStored
    <3>4. ListMade'
      BY <1>1, <3>1 DEF ListInv, ListMade
    <3>5. r.node.wr
      <4>1. plc["ProjektArray"].wr
        BY <2>1 DEF StoreArray, Writable
      <4>2. IsNode("ProjektArray", plc["ProjektArray"]) /\ cur.values \in Seq(ValuesOf("String"))
        BY <1>1, NameTypes DEF TypeInv, IsNodes, CurType
      <4>3. SameForm(plc["ProjektArray"], r.node)
        BY <4>2, NameTypes, ArrayStored
      <4>4. QED BY <4>1, <4>3 DEF SameForm
    <3> HIDE DEF r
    <3>6. QED BY <3>1, <3>2, <3>3, <3>4, <3>5 DEF ListInv
  <2>2. CASE ~r.ok
    <3>1. pc' = "listError"
      BY <1>5, <2>2 DEF StoreArrayNode, Move
    <3>2. QED BY <3>1 DEF ListInv
  <2>3. QED BY <2>1, <2>2
<1>6. CASE pc' # pc /\ ~(ListProjects \/ FetchArrayNode \/ StoreArrayNode)
  <2>1. pc' \notin {"fetch", "store", "listed"}
    BY <1>6, LocalStep
       DEF Session, List, Info, Connect, SetupFails, SetupDone, Round, Leave, BeatFails,
           ListFlag, ClearList, ListUpdated, ListError, InfoFlag, ClearInfo, ReadName,
           NotFound, InfoError, WriteLen, WriteThere, WriteBlocks, Render, Announce, Move
  <2>2. QED BY <2>1 DEF ListInv
<1>7. QED BY <1>2, <1>3, <1>4, <1>5, <1>6, LocalStep

\* updateProjectList says that the list has been updated only when ProjektArray
\* begins with all projects of the folder, or as many as the setting allows: for
\* every number of projects and every layout of the array.
THEOREM ListCompleteHolds == Spec => []ListComplete
<1>1. Init => ListInv
  BY DEF Init, ListInv
<1>2. TypeInv /\ ListInv /\ [Next]_vars => ListInv'
  BY ListStep
<1>3. TypeInv /\ ListInv => ListComplete
  <2>1. SUFFICES ASSUME TypeInv, ListInv, pc = "listed", fresh
                 PROVE  ListComplete
    BY DEF ListComplete
  <2>2. ListMade /\ BeginsWith(plc["ProjektArray"].data, cur.list)
    BY <2>1 DEF ListInv
  <2>3. ToSet(cur.list) \subseteq cur.from
    BY <2>2 DEF ListMade, ToSet
  <2>4. QED BY <2>2, <2>3 DEF ListComplete, ListMade, BeginsWith
<1>4. QED BY <1>1, <1>2, <1>3, TypeInvHolds, PTL DEF Spec

-----------------------------------------------------------------------------
(* The answer to a request for the list.                                   *)

\* A request that has been taken is in the hands of the handler.
HeldInv == owed = "taken" => pc \in {"fetch", "store", "listed", "listError"}

\* The answer is in the PLC's nodes: Error, or ProjektlistUpdated together with
\* the whole list made after the request.
ListAnswered ==
  [][(owed = "taken" /\ owed' = "none" /\ fresh') =>
       \/ plc'["Error"].data[1] = TRUE
       \/ /\ plc'["ProjektlistUpdated"].data[1] = TRUE
          /\ ListMade /\ BeginsWith(plc'["ProjektArray"].data, cur.list)]_vars

\* Who moves the history of the request.
LEMMA OwedStep ==
  ASSUME [Next]_vars
  PROVE  \/ owed' = owed
         \/ RequestList /\ owed' = "asked"
         \/ ListProjects /\ owed' = "taken"
         \/ (ListUpdated \/ ListError) /\ owed = "taken" /\ owed' \in {"none", "lost"}
         \/ (Download \/ Repair) /\ owed' = "none"
<1>1. Session \/ RefreshDiag \/ BeatFails \/ Info \/ LinkLost \/ ChangeFolder \/ SwitchData
        \/ RequestInfo \/ UNCHANGED vars \/ ListFlag \/ ClearList \/ FetchArrayNode
        \/ StoreArrayNode => owed' = owed
  BY DEF Session, Info, Connect, SetupFails, SetupDone, Round, Leave, RefreshDiag, BeatFails,
         ListFlag, ClearList, FetchArrayNode, StoreArrayNode, InfoFlag, ClearInfo, ReadName,
         NotFound, InfoError, WriteLen, WriteThere, WriteBlocks, Render, Announce,
         RequestInfo, LinkLost, ChangeFolder, SwitchData, vars
<1>2. RequestList => owed' = "asked"
  BY DEF RequestList
<1>3. ListProjects => owed' = owed \/ owed' = "taken"
  BY DEF ListProjects
<1>4. ListUpdated \/ ListError
        => owed' = owed \/ (owed = "taken" /\ owed' \in {"none", "lost"})
  BY DEF ListUpdated, ListError, Answered
<1>5. Download \/ Repair => owed' = owed \/ owed' = "none"
  BY DEF Download, Repair, Load
<1>6. QED BY <1>1, <1>2, <1>3, <1>4, <1>5 DEF Next, List

\* A request stays in the handler until it is answered.
LEMMA HeldStep ==
  ASSUME TypeInv, HeldInv, [Next]_vars
  PROVE  HeldInv'
<1>1. SUFFICES ASSUME owed' = "taken"
               PROVE  pc' \in {"fetch", "store", "listed", "listError"}
  BY DEF HeldInv
<1>2. CASE ListProjects
  BY <1>2 DEF ListProjects, Move
<1>3. CASE ~ListProjects
  <2>1. owed = "taken" /\ ~ListUpdated /\ ~ListError
    <3>1. owed' = owed
      BY <1>1, <1>3, OwedStep
    <3>2. ListUpdated \/ ListError => owed' # "taken" \/ owed # "taken"
      BY DEF ListUpdated, ListError, Answered
    <3>3. QED BY <1>1, <3>1, <3>2
  <2>2. pc \in {"fetch", "store", "listed", "listError"}
    BY <2>1 DEF HeldInv
  <2>3. CASE pc' = pc
    BY <2>2, <2>3
  <2>4. CASE FetchArrayNode \/ StoreArrayNode
    BY <2>4 DEF FetchArrayNode, StoreArrayNode, Move
  <2>5. CASE pc' # pc /\ ~(FetchArrayNode \/ StoreArrayNode)
    BY <1>3, <2>1, <2>2, <2>5, LocalStep
       DEF Session, List, Info, Connect, SetupFails, SetupDone, Round, Leave, BeatFails,
           ListFlag, ClearList, InfoFlag, ClearInfo, ReadName, NotFound, InfoError,
           WriteLen, WriteThere, WriteBlocks, Render, Announce, Move
  <2>6. QED BY <2>3, <2>4, <2>5
<1>4. QED BY <1>2, <1>3

\* A request that has been taken is in the hands of the handler, and so cannot be
\* left lying: the operating loop is back at its top only when it has been answered,
\* asked anew, or is on record as lost (main.cpp 883-895).
THEOREM HeldHolds == Spec => []HeldInv
<1>1. Init => HeldInv
  BY DEF Init, HeldInv
<1>2. TypeInv /\ HeldInv /\ [Next]_vars => HeldInv'
  BY HeldStep
<1>3. QED BY <1>1, <1>2, TypeInvHolds, PTL DEF Spec

\* A flag that the dialog reports as written.
LEMMA FlagWritten ==
  ASSUME TypeInv, NEW n \in Flags, PutBool(n, TRUE), DialogWriteBool(n, TRUE).ok
  PROVE  plc'[n].data[1] = TRUE /\ Writes(plc, plc', {n})
<1> DEFINE r == DialogWriteBool(n, TRUE)
<1>1. n \in regd
  <2>1. SUFFICES ASSUME n \notin regd PROVE FALSE
    OBVIOUS
  <2>2. r = Unwritten(n)
    BY <2>1 DEF DialogWriteBool
  <2>3. r.ok = FALSE
    <3> HIDE DEF r
    <3>1. QED BY <2>2 DEF Unwritten
  <2>4. QED BY <2>3
<1>2. ScalarWritable(plc[n], "Boolean", link)
  <2>1. SUFFICES ASSUME ~ScalarWritable(plc[n], "Boolean", link) PROVE FALSE
    OBVIOUS
  <2>2. r = [ok |-> FALSE, code |-> 2, node |-> plc[n]]
    BY <1>1, <2>1 DEF DialogWriteBool, WriteBool, WriteScalar, ScalarWritable
  <2>3. r.ok = FALSE
    <3> HIDE DEF r
    <3>1. QED BY <2>2
  <2>4. QED BY <2>3
<1>3. n \in Names /\ IsNodes(plc)
  BY FlagTypes DEF TypeInv
<1>4. plc'[n].data = <<TRUE>> /\ Writes(plc, plc', {n})
  BY <1>1, <1>2, <1>3, BoolPut
<1>5. QED BY <1>4

\* When updateProjectList has dealt with a request, the answer is in the PLC's
\* nodes: an error, or ProjektlistUpdated and an array that begins with the list
\* made after the request was taken (main.cpp 883-895, cnc_projekt_manager.cpp).
THEOREM ListAnsweredHolds == Spec => ListAnswered
<1>1. Init => ListInv
  BY DEF Init, ListInv
<1>2. TypeInv /\ ListInv /\ [Next]_vars => ListInv'
  BY ListStep
<1>3. ASSUME TypeInv, ListInv, [Next]_vars, owed = "taken", owed' = "none", fresh'
      PROVE  \/ plc'["Error"].data[1] = TRUE
             \/ /\ plc'["ProjektlistUpdated"].data[1] = TRUE
                /\ ListMade /\ BeginsWith(plc'["ProjektArray"].data, cur.list)
  <2>1. ListUpdated \/ ListError
    BY <1>3, OwedStep, ProgramWrites
  <2>2. "Error" \in Flags /\ "ProjektlistUpdated" \in Flags
    BY DEF Flags
  <2>3. CASE ListError
    <3>1. PutBool("Error", TRUE) /\ DialogWriteBool("Error", TRUE).ok
      BY <1>3, <2>3 DEF ListError, Answered
    <3>2. QED BY <1>3, <2>2, <3>1, FlagWritten
  <2>4. CASE ListUpdated
    <3>1. PutBool("ProjektlistUpdated", TRUE) /\ DialogWriteBool("ProjektlistUpdated", TRUE).ok
      BY <1>3, <2>4 DEF ListUpdated, Answered
    <3>2. /\ plc'["ProjektlistUpdated"].data[1] = TRUE
          /\ Writes(plc, plc', {"ProjektlistUpdated"})
      BY <1>3, <2>2, <3>1, FlagWritten
    <3>3. plc'["ProjektArray"] = plc["ProjektArray"]
      BY <3>2, NameTypes DEF Writes
    <3>4. pc = "listed" /\ fresh
      BY <1>3, <2>4, SwitchStep DEF ListUpdated, Move, Connect
    <3>5. QED BY <1>3, <3>2, <3>3, <3>4 DEF ListInv
  <2>5. QED BY <2>1, <2>3, <2>4
<1>4. QED BY <1>1, <1>2, <1>3, TypeInvHolds, PTL DEF Spec, ListAnswered

-----------------------------------------------------------------------------
(* The infos.                                                              *)

\* A number that fits an int16 is written as it is.
LEMMA Int16Keeps ==
  ASSUME NEW x \in Nat, x < Int16Mod \div 2
  PROVE  ToInt16(x) = x
<1> DEFINE h == Int16Mod \div 2
<1>1. Int16Mod \in Nat \ {0}
  BY SessionAssumption
<1>2. h \in Int /\ h * 2 <= Int16Mod
  BY <1>1
<1>3. x < h
  OBVIOUS
<1> HIDE DEF h
<1>4. x + h \in Nat /\ Int16Mod \in Nat /\ x + h < Int16Mod
  BY <1>1, <1>2, <1>3
<1>5. (x + h) % Int16Mod = x + h
  BY <1>4, Quotient
<1>6. ToInt16(x) = ((x + h) % Int16Mod) - h
  BY DEF ToInt16, h
<1>7. QED BY <1>2, <1>5, <1>6

\* Just as many blocks as hold the records.
LEMMA BlocksHold ==
  ASSUME NEW x \in Nat
  PROVE  /\ Blocks(x) \in Nat /\ Blocks(x) <= x
         /\ Blocks(x) * LenDataArray \in x..x + LenDataArray - 1
<1> DEFINE L == LenDataArray
           b == Blocks(x)
<1>1. L \in Nat \ {0}
  BY SessionAssumption
<1>2. b = (x + L - 1) \div L
  BY DEF Blocks
<1> HIDE DEF b, L
<1>3. b \in Int /\ b * L <= x + L - 1 /\ x + L - 1 < (b + 1) * L
  BY <1>1, <1>2
<1>4. (b + 1) * L = b * L + L
  BY <1>1, <1>3
<1>5. b * L \in x..x + L - 1
  BY <1>1, <1>3, <1>4
<1>6. b >= 0
  <2>1. SUFFICES ASSUME b <= -1 PROVE FALSE
    BY <1>3
  <2>2. b * L <= -L
    BY <1>1, <1>3, <2>1
  <2>3. QED BY <1>1, <1>5, <2>2
<1>7. b <= x
  <2>1. SUFFICES ASSUME b >= x + 1 PROVE FALSE
    BY <1>3
  <2>2. b * L >= (x + 1) * L
    BY <1>1, <1>3, <2>1
  <2>3. (x + 1) * L = x * L + L
    BY <1>1
  <2>4. x * L >= x
    BY <1>1
  <2>5. QED BY <1>1, <1>3, <2>2, <2>3, <2>4
<1>8. QED BY <1>3, <1>5, <1>6, <1>7 DEF b, L

InfoNodes == {"ProjektVorhanden", "LenProjekt", "AnzDatenbloecke", "Error"}

\* What InfoOrError leaves aside has not happened so far.
Undisturbed == /\ fresh /\ link /\ cur.len < Int16Mod \div 2
               /\ \A n \in InfoNodes : plc[n].wr

\* writeProjectInfoToSPS, call by call.
InfoInv ==
  /\ pc \in {"len", "there", "blocks", "params"} => cur.found = TRUE
  /\ (fresh /\ pc \in {"len", "there", "blocks", "params"})
       => Val("ProjektName") = cur.name
  /\ (Undisturbed /\ pc \in {"there", "blocks", "params"})
       => Val("LenProjekt") = cur.len
  /\ (Undisturbed /\ pc \in {"blocks", "params"}) => Val("ProjektVorhanden") = TRUE
  /\ (Undisturbed /\ pc = "params")
       => Val("AnzDatenbloecke") * LenDataArray \in cur.len..cur.len + LenDataArray - 1
  /\ (Undisturbed /\ pc = "announce") => Val("Error") = TRUE \/ InfoMatches

\* In operation a mandatory scalar that may be written is.
LEMMA MandatoryWritten ==
  ASSUME SetupInv, Operating, fresh, link, NEW n \in Mandatory,
         Type(n).array = FALSE, plc[n].wr
  PROVE  n \in regd /\ ScalarWritable(plc[n], Type(n).elem, link)
BY DEF SetupInv, Sound, RegisterVariable, Readable, ScalarWritable, Writable

\* The values the infos are made of stay as they are but for the handler.
InfoValues == InfoNodes \cup {"ProjektName"}

\* What the infos depend on stands still while no handler moves.
LEMMA InfoStays ==
  ASSUME TypeInv, [Next]_vars, fresh', pc' = pc, cur' = cur, pc \in Showing
  PROVE  \A n \in InfoValues : plc'[n] = plc[n]
<1>1. ~(Download \/ Repair)
  BY ProgramWrites
<1>2. plc' = plc \/ RequestList
  BY <1>1 DEF Next, Session, List, Info, Connect, SetupFails, SetupDone, Round, Leave,
       RefreshDiag, BeatFails, ListFlag, ClearList, ListProjects, FetchArrayNode,
       StoreArrayNode, ListUpdated, ListError, InfoFlag, ClearInfo, ReadName, NotFound,
       InfoError, WriteLen, WriteThere, WriteBlocks, Render, Announce, Move, RequestInfo,
       LinkLost, ChangeFolder, SwitchData, vars
<1>3. InfoValues \subseteq Names
  BY NamesUsed DEF InfoValues, InfoNodes, Flags, Numbers
<1>4. InfoValues \cap ListRequest = {}
  BY DEF InfoValues, InfoNodes, ListRequest
<1>5. QED BY <1>2, <1>3, <1>4, ProgramWrites DEF Writes

\* Before a step of the handlers nothing was disturbed when nothing is after it.
LEMMA UndisturbedBefore ==
  ASSUME TypeInv, [Next]_vars, Undisturbed', ~Connect, cur'.len = cur.len
  PROVE  Undisturbed
<1>1. fresh /\ Writes(plc, plc', Names)
  BY FormsStay DEF Undisturbed
<1>2. link
  BY SwitchStep DEF Undisturbed
<1>3. InfoNodes \subseteq Names
  BY NamesUsed DEF InfoNodes, Flags, Numbers
<1>4. \A n \in InfoNodes : plc'[n].wr = plc[n].wr
  BY <1>1, <1>3, SoundStays
<1>5. QED BY <1>1, <1>2, <1>4 DEF Undisturbed

InfoPcs == {"len", "there", "blocks", "params", "announce"}

\* writeProjectInfoToSPS and the error path, one write after the other.
LEMMA InfoStep ==
  ASSUME TypeInv, SetupInv, InfoInv, [Next]_vars
  PROVE  InfoInv'
<1>1. /\ cur \in CurType /\ IsNodes(plc) /\ cur.len \in Nat
      /\ InfoValues \subseteq Names /\ InfoNodes \subseteq Mandatory
  BY NamesUsed DEF TypeInv, CurType, InfoValues, InfoNodes, Flags, Numbers
<1>2. \A S : Writes(plc, plc', S) => \A n \in InfoValues \ S : plc'[n] = plc[n]
  BY <1>1 DEF Writes
<1>3. CASE pc' \notin InfoPcs
  BY <1>3 DEF InfoInv, InfoPcs
<1>4. CASE pc' = pc /\ cur' = cur /\ pc' \in InfoPcs
  <2>1. ~Connect /\ pc \in Showing
    BY <1>4 DEF Connect, InfoPcs, Showing
  <2>2. Undisturbed' => Undisturbed
    BY <1>4, <2>1, UndisturbedBefore
  <2>3. fresh' => fresh
    BY <2>1, SwitchStep
  <2>4. fresh' => \A n \in InfoValues : Val(n)' = Val(n)
    BY <1>4, <2>1, InfoStays DEF Val
  <2>5. Undisturbed' => fresh'
    BY DEF Undisturbed
  <2>6. (fresh' /\ InfoMatches) => InfoMatches'
    BY <1>4, <2>4 DEF InfoMatches, InfoValues, InfoNodes
  <2>7. QED BY <1>4, <2>2, <2>3, <2>4, <2>5, <2>6 DEF InfoInv, InfoValues, InfoNodes
<1>5. CASE ReadName /\ pc' = "len"
  <2> DEFINE r == DialogReadString("ProjektName")
  <2>1. /\ r.ok /\ plc' = plc
        /\ cur' = [Idle EXCEPT !.name = r.value, !.found = TRUE, !.len = Records[r.value]]
    BY <1>5 DEF ReadName, Move
  <2>2. cur'.found = TRUE /\ cur'.name = r.value
    BY <2>1 DEF Idle
  <2>3. r.value = Val("ProjektName")
    BY <2>1 DEF DialogReadString, ReadString, ReadScalar, Failed, Val
  <2>4. Val("ProjektName")' = cur'.name
    BY <2>1, <2>2, <2>3 DEF Val
  <2>5. QED BY <1>5, <2>2, <2>4 DEF InfoInv
<1>6. ASSUME cur' = cur, pc \in Showing, pc' \in Showing, NEW n \in InfoNodes,
             Undisturbed', Type(n).array = FALSE
      PROVE  /\ Undisturbed /\ n \in Names /\ n \in regd
             /\ ScalarWritable(plc[n], Type(n).elem, link)
  <2>1. ~Connect /\ Operating
    BY <1>6 DEF Connect, Operating, Showing
  <2>2. Undisturbed
    BY <1>6, <2>1, UndisturbedBefore
  <2>3. QED BY <1>1, <1>6, <2>1, <2>2, NamesUsed, MandatoryWritten DEF Undisturbed
<1>7. /\ "LenProjekt" \in Numbers /\ "AnzDatenbloecke" \in Numbers
      /\ "Error" \in Flags /\ "ProjektVorhanden" \in Flags
  BY DEF Numbers, Flags
<1>8. CASE WriteLen
  <2>1. /\ pc = "len" /\ pc' = "there" /\ cur' = cur /\ fresh' = fresh
        /\ PutInt16("LenProjekt", ToInt16(cur.len)) /\ Writes(plc, plc', {"LenProjekt"})
    BY <1>8, SessionWrites DEF WriteLen, Move, world
  <2>2. \A n \in InfoValues \ {"LenProjekt"} : Val(n)' = Val(n)
    BY <1>2, <2>1 DEF Val
  <2>3. ASSUME Undisturbed' PROVE Val("LenProjekt")' = cur.len
    <3>1. /\ Undisturbed /\ "LenProjekt" \in Names /\ "LenProjekt" \in regd
          /\ ScalarWritable(plc["LenProjekt"], "Int16", link)
      BY <1>6, <1>7, <2>1, <2>3, NumberTypes DEF InfoNodes, Showing
    <3>2. ToInt16(cur.len) = cur.len
      BY <1>1, <3>1, Int16Keeps DEF Undisturbed
    <3>3. plc'["LenProjekt"].data = <<cur.len>>
      BY <1>1, <2>1, <3>1, <3>2, Int16Put
    <3>4. QED BY <3>3 DEF Val
  <2>4. QED BY <2>1, <2>2, <2>3 DEF InfoInv, InfoValues, InfoNodes
<1>9. CASE WriteThere
  <2>1. /\ pc = "there" /\ pc' = "blocks" /\ cur' = cur /\ fresh' = fresh
        /\ PutBool("ProjektVorhanden", TRUE) /\ Writes(plc, plc', {"ProjektVorhanden"})
    BY <1>9, SessionWrites DEF WriteThere, Move, world
  <2>2. \A n \in InfoValues \ {"ProjektVorhanden"} : Val(n)' = Val(n)
    BY <1>2, <2>1 DEF Val
  <2>3. ASSUME Undisturbed' PROVE Undisturbed /\ Val("ProjektVorhanden")' = TRUE
    <3>1. /\ Undisturbed /\ "ProjektVorhanden" \in Names /\ "ProjektVorhanden" \in regd
          /\ ScalarWritable(plc["ProjektVorhanden"], "Boolean", link)
      BY <1>6, <1>7, <2>1, <2>3, FlagTypes DEF InfoNodes, Showing
    <3>2. plc'["ProjektVorhanden"].data = <<TRUE>>
      BY <1>1, <2>1, <3>1, BoolPut
    <3>3. QED BY <3>1, <3>2 DEF Val
  <2>4. QED BY <2>1, <2>2, <2>3 DEF InfoInv, InfoValues, InfoNodes
<1>10. CASE WriteBlocks
  <2>1. /\ pc = "blocks" /\ pc' = "params" /\ cur' = cur /\ fresh' = fresh
        /\ PutInt16("AnzDatenbloecke", ToInt16(Blocks(cur.len)))
        /\ Writes(plc, plc', {"AnzDatenbloecke"})
    BY <1>10, SessionWrites DEF WriteBlocks, Move, world
  <2>2. \A n \in InfoValues \ {"AnzDatenbloecke"} : Val(n)' = Val(n)
    BY <1>2, <2>1 DEF Val
  <2>3. ASSUME Undisturbed'
        PROVE  /\ Undisturbed
               /\ Val("AnzDatenbloecke")' * LenDataArray
                    \in cur.len..cur.len + LenDataArray - 1
    <3>1. /\ Undisturbed /\ "AnzDatenbloecke" \in Names /\ "AnzDatenbloecke" \in regd
          /\ ScalarWritable(plc["AnzDatenbloecke"], "Int16", link)
      BY <1>6, <1>7, <2>1, <2>3, NumberTypes DEF InfoNodes, Showing
    <3>2. /\ Blocks(cur.len) \in Nat /\ Blocks(cur.len) <= cur.len
          /\ Blocks(cur.len) * LenDataArray \in cur.len..cur.len + LenDataArray - 1
      BY <1>1, BlocksHold
    <3>3. Blocks(cur.len) < Int16Mod \div 2
      <4>1. cur.len < Int16Mod \div 2 /\ Int16Mod \div 2 \in Int
        BY <3>1, SessionAssumption DEF Undisturbed
      <4>2. QED BY <1>1, <3>2, <4>1
    <3>4. ToInt16(Blocks(cur.len)) = Blocks(cur.len)
      BY <3>2, <3>3, Int16Keeps
    <3>5. plc'["AnzDatenbloecke"].data = <<Blocks(cur.len)>>
      BY <1>1, <2>1, <3>1, <3>2, <3>4, Int16Put
    <3>6. QED BY <3>1, <3>2, <3>5 DEF Val
  <2>4. QED BY <2>1, <2>2, <2>3 DEF InfoInv, InfoValues, InfoNodes
<1>11. CASE Render /\ pc' = "announce"
  <2>1. /\ pc = "params" /\ plc' = plc /\ cur' = [cur EXCEPT !.params = LoadFromSPS]
        /\ fresh' = fresh
    BY <1>11 DEF Render, Move, world
  <2>2. cur'.len = cur.len /\ cur'.name = cur.name /\ cur'.found = cur.found
    BY <1>1, <2>1 DEF CurType
  <2>3. ASSUME Undisturbed' PROVE InfoMatches'
    <3>1. Undisturbed
      BY <2>1, <2>2, <2>3, UndisturbedBefore DEF Connect
    <3>2. InfoMatches
      BY <2>1, <3>1 DEF InfoInv, InfoMatches, Undisturbed
    <3>3. QED BY <2>1, <2>2, <3>2 DEF InfoMatches, Val
  <2>4. QED BY <1>11, <2>3 DEF InfoInv
<1>12. CASE InfoError
  <2>1. /\ pc = "infoError" /\ pc' = "announce" /\ cur' = cur /\ PutBool("Error", TRUE)
    BY <1>12 DEF InfoError, Move
  <2>2. ASSUME Undisturbed' PROVE Val("Error")' = TRUE
    <3>1. /\ "Error" \in Names /\ "Error" \in regd
          /\ ScalarWritable(plc["Error"], "Boolean", link)
      BY <1>6, <1>7, <2>1, <2>2, FlagTypes DEF InfoNodes, Showing
    <3>2. plc'["Error"].data = <<TRUE>>
      BY <1>1, <2>1, <3>1, BoolPut
    <3>3. QED BY <3>2 DEF Val
  <2>3. QED BY <2>1, <2>2 DEF InfoInv
<1>13. \/ pc' \notin InfoPcs \/ (pc' = pc /\ cur' = cur)
       \/ (ReadName /\ pc' = "len") \/ WriteLen \/ WriteThere \/ WriteBlocks
       \/ (Render /\ pc' = "announce") \/ InfoError
  <2>1. CASE pc' # pc /\ (Session \/ BeatFails \/ List)
    BY <2>1 DEF Session, List, Connect, SetupFails, SetupDone, Round, Leave, BeatFails,
           ListFlag, ClearList, ListProjects, FetchArrayNode, StoreArrayNode, ListUpdated,
           ListError, Move, InfoPcs
  <2>2. CASE Info
    BY <2>2 DEF Info, InfoFlag, ClearInfo, ReadName, NotFound, InfoError, WriteLen,
                WriteThere, WriteBlocks, Render, Announce, Move, InfoPcs
  <2>3. QED BY <2>1, <2>2, LocalStep
<1>14. QED BY <1>3, <1>4, <1>5, <1>8, <1>9, <1>10, <1>11, <1>12, <1>13

\* ProjektInfoWrote (main.cpp 901) comes with the infos of the project that was
\* named, or with Error: for every project, size of a file and of a block.
THEOREM InfoOrErrorHolds == Spec => []InfoOrError
<1>1. Init => InfoInv
  BY DEF Init, InfoInv
<1>2. TypeInv /\ SetupInv /\ InfoInv /\ [Next]_vars => InfoInv'
  BY InfoStep
<1>3. InfoInv => InfoOrError
  BY DEF InfoInv, InfoOrError, Undisturbed, InfoNodes
<1>4. QED BY <1>1, <1>2, <1>3, TypeInvHolds, SetupInvHolds, PTL DEF Spec

-----------------------------------------------------------------------------
(* The windows of the list.                                                *)

\* The windows a run tries on the array that has just been written.
THEOREM WindowExactHolds == Spec => []WindowExact
<1> DEFINE nd == plc["ProjektArray"]
<1>1. Init => ListInv
  BY DEF Init, ListInv
<1>2. TypeInv /\ ListInv /\ [Next]_vars => ListInv'
  BY ListStep
<1>3. TypeInv /\ SetupInv /\ ListInv => WindowExact
  <2>1. SUFFICES ASSUME TypeInv, SetupInv, ListInv, pc = "listed", fresh
                 PROVE  \A e \in Elems :
                          /\ \A w \in Spans : ReadsExactly(e, nd, w)
                          /\ \A data \in Samples : \A r \in 0..1, c \in 0..2 :
                               WritesExactly(e, nd, data, r, c)
    BY DEF WindowExact, Samples
  <2>2. Matrix(nd) /\ nd.wr
    <3>1. "ProjektArray" \in Mandatory /\ Type("ProjektArray").array = TRUE
      BY NamesUsed, NameTypes
    <3>2. Sound("ProjektArray")
      BY <2>1, <3>1 DEF SetupInv, Operating
    <3>3. nd.there /\ nd.rd /\ nd.array
      BY <3>1, <3>2 DEF Sound, RegisterVariable, Readable
    <3>4. PICK t \in Types : nd \in NodeOf(t)
      BY <2>1, NameTypes DEF TypeInv, IsNodes, IsNode
    <3>5. /\ DOMAIN nd = Fields /\ nd.dims \in Seq(Nat) /\ Len(nd.dims) \in 0..2
          /\ WellFormed(nd) /\ nd.data \in Seq(ValuesOf(t.elem))
      BY <3>4 DEF NodeOf, Fields
    <3>6. nd.wr
      BY <2>1 DEF ListInv
    <3>7. QED BY <3>3, <3>5, <3>6 DEF Matrix
  <2>3. ASSUME NEW e \in Elems, NEW w \in Spans PROVE ReadsExactly(e, nd, w)
    <3> HIDE DEF nd
    <3>1. QED BY <2>2, SampleWindows, ReadsExact
  <2>4. ASSUME NEW e \in Elems, NEW data \in Samples, NEW r \in 0..1, NEW c \in 0..2
        PROVE  WritesExactly(e, nd, data, r, c)
    <3>1. Rectangle(data)
      BY SampleRectangles
    <3>2. r + Len(data) < SizeMod /\ c + Len(data[1]) < SizeMod
      <4> DEFINE h == Len(data)
                 v == Len(data[1])
      <4>1. h \in 1..2 /\ v \in 1..2
        BY <3>1 DEF Rectangle
      <4> HIDE DEF h, v
      <4>2. r + h < SizeMod /\ c + v < SizeMod
        BY <4>1, SizeAssumption
      <4>3. QED BY <4>2 DEF h, v
    <3>3. r \in Nat /\ c \in Nat
      OBVIOUS
    <3> HIDE DEF nd
    <3>4. QED BY <2>2, <3>1, <3>2, <3>3, WritesExact DEF Rectangle
  <2>5. QED BY <2>3, <2>4
<1>4. QED BY <1>1, <1>2, <1>3, TypeInvHolds, SetupInvHolds, PTL DEF Spec

=============================================================================
