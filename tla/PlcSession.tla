----------------------------- MODULE PlcSession -----------------------------
(***************************************************************************)
(* One session of the service with the PLC, from registering the variables *)
(* to the end of the operating loop (src/src/main.cpp, spsWorkerLoop), with *)
(* its two short triggers: the project list (ProjectManager::              *)
(* updateProjectList) and the infos of one project (showProjectInfo).  The *)
(* third, the transfer, is module BlockTransfer; what happens around the   *)
(* session is module SpsConnection.                                        *)
(*                                                                         *)
(* The nodes of the PLC are shared state: every call of the OPC UA client  *)
(* is a step of its own, and the PLC's program, a download of a changed    *)
(* program, the operator's files, the pause switch and the network act     *)
(* between any two of them.                                                *)
(***************************************************************************)
EXTENDS PlcNodes, SequencesExt

CONSTANTS
  Projects,               \* names of projects that may lie in the folder
  Records,                \* [Projects -> Nat]: records a project file has
  LenDataArray,           \* records of a block
  Int16Mod,               \* values of an int16 (2^16 in the build)
  Layouts,                \* [dims, limit]: dimensions ProjektArray is declared with and
                          \* the setting MaximaleAnzahlProjekte
  Breakable,              \* nodes a changed PLC program may spoil
  MaxEvents               \* bound: downloads, link losses, folder changes, pauses

ASSUME SessionAssumption ==
  /\ IsFiniteSet(Projects) /\ Records \in [Projects -> Nat]
  /\ \A l \in Layouts : /\ l.dims \in Seq(Nat) /\ Len(l.dims) \in 1..2
                        /\ l.limit \in 1..SizeMax
  /\ LenDataArray \in Nat \ {0}
  /\ Int16Mod \in Nat \ {0} /\ Int16Mod % 2 = 0
  /\ MaxEvents \in Nat

NoName == "none"          \* an empty string in a node

-----------------------------------------------------------------------------
(* The variables setupVariables registers, in its order.                   *)

Bool(n)     == <<n, Scalar("Boolean")>>
Int16(n)    == <<n, Scalar("Int16")>>
Str(n)      == <<n, Scalar("String")>>
Colour(n)   == <<n, ArrayOf("Int16")>>

Setup == <<
  Bool("Error"), Str("Info_Text"), Int16("Heartbeat"), Int16("StatusCode"),
  <<"DataArray", ArrayOf("String")>>, <<"ProjektArray", ArrayOf("String")>>,
  Bool("UpdateProjektList"), Bool("ProjektlistUpdated"), Str("ProjektName"),
  Bool("ReadProjekt"), Int16("LenProjekt"), Int16("AnzDatenbloecke"),
  Bool("WriteData"), Int16("IndexData"), Bool("ReadData"),
  Bool("showProjektInfo"), Bool("ProjektInfoWrote"), Bool("ProjektVorhanden"),
  Bool("ubertragenAbbrechen"), Bool("UebertgarungBeendet"),
  Int16("Uebertragungslaege"),
  Colour("colorG0"), Int16("streghtsG0"), Colour("colorG1"), Int16("streghtsG1"),
  Colour("colorG2"), Int16("streghtsG2"), Colour("colorG3"), Int16("streghtsG3"),
  Colour("FarbeLive"), Colour("FarbeErledigt"), Int16("StaerkeLive"),
  Int16("StaerkeErledigt"), Int16("LiveStand"), Bool("LiveAbbruch"),
  <<"minArcRadius", Scalar("Float")>>, Int16("objektgroesseX"), Int16("objektgroesseY")
>>

Names     == {Setup[i][1] : i \in DOMAIN Setup}
TypeFor   == [n \in Names |-> (CHOOSE i \in DOMAIN Setup : Setup[i][1] = n)]
Type(n)   == Setup[TypeFor[n]][2]
Optional  == {"ProjektInfoWrote", "FarbeErledigt", "StaerkeErledigt"}
Mandatory == Names \ Optional

ColourNodes == {"colorG0", "colorG1", "colorG2", "colorG3", "FarbeLive", "FarbeErledigt"}
NumberNodes == {"streghtsG0", "streghtsG1", "streghtsG2", "streghtsG3",
                "StaerkeLive", "StaerkeErledigt", "objektgroesseX", "objektgroesseY"}
DesignNodes == ColourNodes \cup NumberNodes \cup {"minArcRadius"}

-----------------------------------------------------------------------------
(* The PLC's side of the nodes.                                            *)

Zero(e) == CASE e = "Boolean" -> FALSE
             [] e \in {"String", "ByteString"} -> NoName
             [] OTHER -> 0

Product(dims) == IF Len(dims) = 2 THEN dims[1] * dims[2] ELSE dims[1]

Node(t, dims) ==
  [there |-> TRUE, rd |-> TRUE, wr |-> TRUE, elem |-> t.elem, array |-> t.array,
   dims |-> dims,
   data |-> IF t.array THEN [i \in 1..Product(dims) |-> Zero(t.elem)]
                       ELSE <<Zero(t.elem)>>]

\* As the configuration expects the node; ProjektArray has the layout's dimensions.
Declared(n, dims) ==
  Node(Type(n), CASE n = "ProjektArray" -> dims
                  [] n = "DataArray"    -> <<1>>
                  [] n \in ColourNodes  -> <<3>>
                  [] OTHER              -> <<>>)

\* What a changed program may have made of it: gone, read-only, of
\* another element type.
Spoilt(n, dims) ==
  LET d == Declared(n, dims)
      e == IF d.elem = "Float" THEN "Int16" ELSE "Float"
  IN  {[d EXCEPT !.there = FALSE], [d EXCEPT !.wr = FALSE],
       Node([elem |-> e, array |-> d.array], d.dims)}

VARIABLES
  plc,        \* [Names -> node]: the nodes of the PLC
  layout,     \* the layout of this installation
  link,       \* the network to the PLC works
  folder,     \* projects lying in the folder
  dataOn,     \* setting dataExchangeEnabled
  pc,         \* where the SPS thread is
  regd,       \* SPSDialog::variableMap: names registered in this session
  diag,       \* node diagnosis as published: [some Names -> set of flags]
  failed,     \* the status says that the setup has failed
  cur,        \* locals of the trigger being handled
  owed,       \* history: the PLC's last list request and its answer
  fresh,      \* history: no download since this session began
  events      \* downloads, losses, folder changes and pauses so far

vars == <<plc, layout, link, folder, dataOn, pc, regd, diag, failed,
          cur, owed, fresh, events>>

session == <<regd, diag, failed>>
world   == <<layout, link, folder, dataOn, fresh, events>>

Val(n)   == plc[n].data[1]

-----------------------------------------------------------------------------
(* SPSDialog: a call names a variable; one that was never registered fails *)
(* with -1 and reaches no client.                                          *)

DialogReadInt16(n)  == IF n \in regd THEN ReadInt16(plc[n], link)  ELSE Failed(-1)
DialogReadFloat(n)  == IF n \in regd THEN ReadFloat(plc[n], link)  ELSE Failed(-1)
DialogReadBool(n)   == IF n \in regd THEN ReadBool(plc[n], link)   ELSE Failed(-1)
DialogReadString(n) == IF n \in regd THEN ReadString(plc[n], link) ELSE Failed(-1)
DialogReadInt16Array(n) ==
  IF n \in regd THEN ReadInt16Array(plc[n], Whole, link) ELSE Failed(-1)

Unwritten(n) == [ok |-> FALSE, code |-> -1, node |-> plc[n]]

DialogWriteInt16(n, v) == IF n \in regd THEN WriteInt16(plc[n], v, link) ELSE Unwritten(n)
DialogWriteBool(n, v)  == IF n \in regd THEN WriteBool(plc[n], v, link)  ELSE Unwritten(n)
DialogFetchStringArray(n, data) ==
  IF n \in regd THEN FetchStringArray(plc[n], data, 0, 0, link) ELSE Failed(-1)

\* A write as a step: its result is ignored by every caller here.
PutBool(n, v)  == plc' = [plc EXCEPT ![n] = DialogWriteBool(n, v).node]
PutInt16(n, v) == plc' = [plc EXCEPT ![n] = DialogWriteInt16(n, v).node]

\* static_cast<int16_t>
ToInt16(i) == ((i + Int16Mod \div 2) % Int16Mod) - Int16Mod \div 2

-----------------------------------------------------------------------------
(* Locals of a handler.                                                    *)

NoParams == [n \in DesignNodes |-> "default"]
Idle == [list |-> <<>>, from |-> {}, values |-> <<>>, name |-> NoName,
         found |-> FALSE, len |-> 0, params |-> NoParams]

Init ==
  /\ layout \in Layouts
  /\ plc = [n \in Names |-> Declared(n, layout.dims)]
  /\ link = TRUE /\ folder \in {{}, Projects} /\ dataOn = TRUE
  /\ pc = "off" /\ regd = {} /\ diag = <<>> /\ failed = FALSE
  /\ cur = Idle
  /\ owed = "none" /\ fresh = TRUE /\ events = 0

-----------------------------------------------------------------------------
(* Setting up a session.                                                   *)

\* A new SPSController: nothing registered, the last diagnosis cleared.
Connect ==
  /\ pc = "off"
  /\ link' = TRUE /\ fresh' = TRUE
  /\ regd' = {} /\ diag' = <<>> /\ failed' = FALSE
  /\ pc' = "register"
  /\ UNCHANGED <<plc, layout, folder, dataOn, cur, owed, events>>

\* setupVariables: a failed registration does not stop the others, and every
\* mandatory one counts for the result (globalSuccess).
Registered   == {n \in Names : RegisterVariable(plc[n], Type(n), link)}
\* Faulty: it is enough that one has been registered.
SetupOkAny(reg) == reg # {}

SetupOk(reg) == Mandatory \subseteq reg

\* configuredNodes_: every name that was tried, registered or not.
Configured == Names

\* readNodeValueAsString: arrays are not read.
HasValue(n) ==
  LET t == Type(n)
      r == CASE t.elem = "Int16"   -> ReadInt16(plc[n], link)
             [] t.elem = "Int32"   -> ReadInt32(plc[n], link)
             [] t.elem = "Float"   -> ReadFloat(plc[n], link)
             [] t.elem = "Double"  -> ReadDouble(plc[n], link)
             [] t.elem = "Boolean" -> ReadBool(plc[n], link)
             [] OTHER              -> ReadString(plc[n], link)
  IN  ~t.array /\ r.ok

\* readAccessLevel, through probeNode.
Access(n) ==
  IF ~(link /\ plc[n].there) THEN {}
  ELSE {"exists"} \cup (IF plc[n].rd THEN {"readable"} ELSE {})
                  \cup (IF plc[n].wr THEN {"writable"} ELSE {})

NodeDiagnostics ==
  [n \in Configured |->
     Access(n) \cup (IF "readable" \in Access(n) /\ HasValue(n) THEN {"value"} ELSE {})]

\* The diagnosis is taken before the session is given up.
SetupFails ==
  /\ pc = "register" /\ ~SetupOk(Registered)
  /\ regd' = Registered
  /\ diag' = NodeDiagnostics /\ failed' = TRUE
  /\ pc' = "off"
  /\ UNCHANGED <<plc, cur, owed, world>>

\* "Service gestartet": Error is reset.
SetupDone ==
  /\ pc = "register" /\ SetupOk(Registered)
  /\ regd' = Registered
  /\ plc' = [plc EXCEPT !["Error"] = WriteBool(@, FALSE, link).node]
  /\ diag' = NodeDiagnostics
  /\ pc' = "top"
  /\ UNCHANGED <<failed, cur, owed, world>>

-----------------------------------------------------------------------------
(* The operating loop.                                                     *)

\* Every 10 s.
RefreshDiag ==
  /\ pc = "top"
  /\ diag' = NodeDiagnostics
  /\ UNCHANGED <<plc, pc, regd, failed, cur, owed, world>>

\* Once a second the heartbeat is written; when that fails the session ends,
\* as it does when the watchdog has reported the link.
BeatFails ==
  /\ pc = "top"
  /\ ~DialogWriteInt16("Heartbeat", 0).ok \/ ~link
  /\ pc' = "leave"
  /\ UNCHANGED <<plc, session, cur, owed, world>>

\* Paused, the loop keeps to its heartbeat.
Round ==
  /\ pc = "top" /\ dataOn
  /\ pc' = "listFlag"
  /\ UNCHANGED <<plc, session, cur, owed, world>>

\* disconnect and clearDiag.
Leave ==
  /\ pc = "leave"
  /\ diag' = <<>> /\ pc' = "off"
  /\ UNCHANGED <<plc, regd, failed, cur, owed, world>>

-----------------------------------------------------------------------------
(* UpdateProjektList.                                                      *)

\* A step of a handler: it moves on and touches at most plc, cur and owed.
Move(from, to) ==
  /\ pc = from /\ pc' = to
  /\ UNCHANGED <<session, world>>

ListFlag ==
  /\ LET r == DialogReadBool("UpdateProjektList")
     IN  Move("listFlag", IF r.ok /\ r.value THEN "clearList" ELSE "infoFlag")
  /\ UNCHANGED <<plc, cur, owed>>

\* The request is taken back before the folder is looked at.
ClearList ==
  /\ Move("clearList", "listing")
  /\ PutBool("UpdateProjektList", FALSE)
  /\ UNCHANGED <<cur, owed>>

\* listProjects: the files in the order the directory gives them (some order,
\* the same each time), cut to the most the setting allows.
Listing == LET s == SetToSeq(folder) IN SubSeq(s, 1, Least(Len(s), layout.limit))

\* An empty list is an error; a list that is too long is never seen, as
\* listProjects has cut it.
ListProjects ==
  /\ cur' = [Idle EXCEPT !.list = Listing, !.from = folder]
  /\ Move("listing", IF Listing = <<>> THEN "listError" ELSE "fetch")
  /\ owed' = IF owed = "asked" THEN "taken" ELSE owed
  /\ UNCHANGED plc

\* writeStringArray, first call: the array is read and the list patched in.
FetchArrayNode ==
  LET r == DialogFetchStringArray("ProjektArray", <<cur.list>>)
  IN  /\ Move("fetch", IF r.ok THEN "store" ELSE "listError")
      /\ cur' = IF r.ok THEN [cur EXCEPT !.values = r.value] ELSE cur
      /\ UNCHANGED <<plc, owed>>

\* Second call: all of it is written back.
StoreArrayNode ==
  LET r == StoreArray("String", plc["ProjektArray"], cur.values, link)
  IN  /\ Move("store", IF r.ok THEN "listed" ELSE "listError")
      /\ plc' = [plc EXCEPT !["ProjektArray"] = r.node]
      /\ UNCHANGED <<cur, owed>>

\* The PLC has its answer, or the call that carried it has failed.
Answered(ok) ==
  owed' = IF owed = "taken" THEN (IF ok THEN "none" ELSE "lost") ELSE owed

\* Faulty: the request is cleared once more with the answer.
ListUpdatedClears ==
  /\ Move("listed", "infoFlag")
  /\ plc' = [plc EXCEPT
       !["ProjektlistUpdated"] = DialogWriteBool("ProjektlistUpdated", TRUE).node,
       !["UpdateProjektList"]  = DialogWriteBool("UpdateProjektList", FALSE).node]
  /\ Answered(DialogWriteBool("ProjektlistUpdated", TRUE).ok)
  /\ cur' = Idle

ListUpdated ==
  /\ Move("listed", "infoFlag")
  /\ PutBool("ProjektlistUpdated", TRUE)
  /\ Answered(DialogWriteBool("ProjektlistUpdated", TRUE).ok)
  /\ cur' = Idle

\* pushErrorMessage: Error, Info_Text and StatusCode, each result ignored.
ListError ==
  /\ Move("listError", "infoFlag")
  /\ PutBool("Error", TRUE)
  /\ Answered(DialogWriteBool("Error", TRUE).ok)
  /\ cur' = Idle

-----------------------------------------------------------------------------
(* showProjektInfo.                                                        *)

InfoFlag ==
  /\ LET r == DialogReadBool("showProjektInfo")
     IN  Move("infoFlag", IF r.ok /\ r.value THEN "clearInfo" ELSE "top")
  /\ UNCHANGED <<plc, cur, owed>>

ClearInfo ==
  /\ Move("clearInfo", "name")
  /\ PutBool("showProjektInfo", FALSE)
  /\ UNCHANGED <<cur, owed>>

\* Faulty: a selection without a name is passed over in silence.
ReadNameSilently ==
  LET r == DialogReadString("ProjektName")
  IN  /\ Move("name", IF ~r.ok \/ r.value = NoName THEN "announce"
                      ELSE IF r.value \in folder THEN "len" ELSE "notFound")
      /\ cur' = IF r.ok /\ r.value \in folder
                  THEN [Idle EXCEPT !.name = r.value, !.found = TRUE,
                                    !.len = Records[r.value]]
                  ELSE Idle
      /\ UNCHANGED <<plc, owed>>

\* readProjectNameFromSPS and getProjectInfo: no name is an error; the file is
\* there and its records can be counted, or the project is not found.
ReadName ==
  LET r == DialogReadString("ProjektName")
  IN  IF ~r.ok \/ r.value = NoName
        THEN /\ Move("name", "infoError")
             /\ UNCHANGED <<plc, cur, owed>>
        ELSE /\ Move("name", IF r.value \in folder THEN "len" ELSE "notFound")
             /\ cur' = IF r.value \in folder
                         THEN [Idle EXCEPT !.name = r.value, !.found = TRUE,
                                           !.len = Records[r.value]]
                         ELSE [Idle EXCEPT !.name = r.value]
             /\ UNCHANGED <<plc, owed>>

NotFound ==
  /\ Move("notFound", "infoError")
  /\ PutBool("ProjektVorhanden", FALSE)
  /\ UNCHANGED <<cur, owed>>

InfoError ==
  /\ Move("infoError", "announce")
  /\ PutBool("Error", TRUE)
  /\ UNCHANGED <<cur, owed>>

\* writeProjectInfoToSPS, one call after the other.
WriteLen ==
  /\ Move("len", "there")
  /\ PutInt16("LenProjekt", ToInt16(cur.len))
  /\ UNCHANGED <<cur, owed>>

WriteThere ==
  /\ Move("there", "blocks")
  /\ PutBool("ProjektVorhanden", TRUE)
  /\ UNCHANGED <<cur, owed>>

Blocks(len) == (len + LenDataArray - 1) \div LenDataArray

WriteBlocks ==
  /\ Move("blocks", "params")
  /\ PutInt16("AnzDatenbloecke", ToInt16(Blocks(cur.len)))
  /\ UNCHANGED <<cur, owed>>

\* loadFromSPS: a colour is used when one row of three comes back, a number
\* when it can be read, the default otherwise.  "foreign" is a value taken
\* from elements of another type.
LoadColour(n) ==
  LET r == DialogReadInt16Array(n)
  IN  IF r.ok /\ Len(r.value) = 1 /\ Len(r.value[1]) = 3
        THEN (IF plc[n].elem = "Int16" THEN "node" ELSE "foreign")
        ELSE "default"

LoadNumber(n) ==
  LET r == IF n = "minArcRadius" THEN DialogReadFloat(n) ELSE DialogReadInt16(n)
  IN  IF ~r.ok THEN "default"
      ELSE IF plc[n].elem = Type(n).elem THEN "node" ELSE "foreign"

LoadFromSPS ==
  [n \in DesignNodes |-> IF n \in ColourNodes THEN LoadColour(n) ELSE LoadNumber(n)]

\* renderPreview: the picture is drawn, or drawing fails.
Render ==
  /\ \E drawn \in BOOLEAN : Move("params", IF drawn THEN "announce" ELSE "infoError")
  /\ cur' = [cur EXCEPT !.params = LoadFromSPS]
  /\ UNCHANGED <<plc, owed>>

\* ProjektInfoWrote is set whatever showProjectInfo returned.
Announce ==
  /\ Move("announce", "top")
  /\ PutBool("ProjektInfoWrote", TRUE)
  /\ cur' = Idle
  /\ UNCHANGED owed

-----------------------------------------------------------------------------
(* The PLC's program, the operator, the network.                           *)

service == <<pc, session, cur>>
Showing == {"clearInfo", "name", "notFound", "infoError", "len",
            "there", "blocks", "params", "announce"}

\* The program sets its own nodes, when it declares them as it should.
Owns(n) == plc[n].there /\ plc[n].elem = Type(n).elem
Set(f, n, v) == IF Owns(n) THEN [f EXCEPT ![n].data = <<v>>] ELSE f

\* A list may be asked for at any time, also while one is being made.
RequestList ==
  /\ Owns("UpdateProjektList")
  /\ plc' = Set(Set(plc, "ProjektlistUpdated", FALSE), "UpdateProjektList", TRUE)
  /\ owed' = "asked"
  /\ UNCHANGED <<service, world>>

\* Infos are asked for when no other request of the program is being worked
\* on; it takes back ProjektInfoWrote and an error it has shown.
RequestInfo ==
  /\ Owns("showProjektInfo") /\ ~Val("showProjektInfo") /\ pc \notin Showing
  /\ owed \notin {"asked", "taken"}
  /\ \E p \in Projects \cup {NoName} :
       plc' = Set(Set(Set(Set(plc, "Error", FALSE), "ProjektName", p),
                      "ProjektInfoWrote", FALSE), "showProjektInfo", TRUE)
  /\ UNCHANGED <<service, owed, world>>

\* What else happens, MaxEvents times.
Event == /\ events < MaxEvents
         /\ events' = events + 1
         /\ UNCHANGED <<layout, service>>

\* A changed program is loaded: one node looks different, with its value at
\* its start; a request that stood in it is gone.
Load(n, v) ==
  /\ plc' = [plc EXCEPT ![n] = v]
  /\ owed' = IF n = "UpdateProjektList" THEN "none" ELSE owed
  /\ fresh' = FALSE
  /\ UNCHANGED <<link, folder, dataOn>>

Download == /\ Event
            /\ \E n \in Breakable : \E v \in Spoilt(n, layout.dims) : Load(n, v)

\* The fault is seen and put right.
Repair ==
  /\ \E n \in Breakable : /\ plc[n] \in Spoilt(n, layout.dims)
                          /\ Load(n, Declared(n, layout.dims))
  /\ UNCHANGED <<layout, events, service>>

LinkLost ==
  /\ Event
  /\ link /\ link' = FALSE
  /\ UNCHANGED <<plc, folder, dataOn, owed, fresh>>

ChangeFolder ==
  /\ Event
  /\ \E p \in Projects :
       folder' = IF p \in folder THEN folder \ {p} ELSE folder \cup {p}
  /\ UNCHANGED <<plc, link, dataOn, owed, fresh>>

\* The switch on the settings page.
SwitchData ==
  /\ Event
  /\ dataOn' = ~dataOn
  /\ UNCHANGED <<plc, link, folder, owed, fresh>>

List == ListFlag \/ ClearList \/ ListProjects \/ FetchArrayNode \/ StoreArrayNode
          \/ ListUpdated \/ ListError
Info == InfoFlag \/ ClearInfo \/ ReadName \/ NotFound \/ InfoError
          \/ WriteLen \/ WriteThere \/ WriteBlocks \/ Render \/ Announce
Session == Connect \/ SetupFails \/ SetupDone \/ Round \/ Leave

Next == Session \/ RefreshDiag \/ BeatFails \/ List \/ Info
          \/ RequestList \/ RequestInfo \/ Download \/ Repair \/ LinkLost
          \/ ChangeFolder \/ SwitchData

Spec == Init /\ [][Next]_vars

\* The thread is scheduled; a heartbeat falls due again and again.
Fairness == /\ WF_vars(Session \/ List \/ Info)
            /\ SF_vars(BeatFails)

FairSpec == Spec /\ Fairness

-----------------------------------------------------------------------------
(* Properties.                                                             *)

Labels == {"off", "register", "top", "leave", "listFlag", "clearList", "listing",
           "fetch", "store", "listed", "listError", "infoFlag"} \cup Showing

\* Every variable keeps to its type; in particular a node keeps the number of
\* its elements through every patch (writeStringArray).
TypeOK ==
  /\ \A n \in Names : /\ {plc[n].there, plc[n].rd, plc[n].wr, plc[n].array} \subseteq BOOLEAN
                      /\ plc[n].elem \in Elems
                      /\ WellFormed(plc[n])
                      /\ ~plc[n].array => Len(plc[n].data) = 1
  /\ pc \in Labels /\ regd \subseteq Names
  /\ DOMAIN diag \subseteq Names
  /\ cur.name \in Projects \cup {NoName} /\ cur.params \in [DesignNodes -> {"node", "default", "foreign"}]
  /\ owed \in {"none", "asked", "taken", "lost"}

Operating == pc \notin {"off", "register", "leave"}
Sound(n)  == RegisterVariable(plc[n], Type(n), TRUE)

\* What the diagnosis shows of a node that registerVariable has refused.  An
\* array of another type cannot be told from a good one.
Shown(n) == n \in DOMAIN diag /\ \/ ~({"exists", "readable"} \subseteq diag[n])
                                 \/ (~Type(n).array /\ "value" \notin diag[n])

\* The verdict of setupVariables, main.cpp 735-748: unless another program is
\* loaded meanwhile, the service operates only on a PLC that has every
\* mandatory node in its type, and when the setup has failed the diagnosis
\* published with it shows a mandatory node at fault - or the fault is the one
\* it cannot show, the type of an array.
SetupVerdict ==
  /\ (Operating /\ fresh) => \A n \in Mandatory : Sound(n)
  /\ (failed /\ fresh) => \E n \in Mandatory :
                           Shown(n) \/ (Type(n).array /\ ~Sound(n))

\* updateProjectList tells the PLC that its list has been updated only when
\* ProjektArray begins with all projects that lay in the folder, each once,
\* or with as many of them as the setting allows.
ListComplete ==
  (pc = "listed" /\ fresh) =>
    LET a == plc["ProjektArray"].data
        k == Len(cur.list)
    IN  /\ k = Least(Cardinality(cur.from), layout.limit)
        /\ k <= Len(a) /\ SubSeq(a, 1, k) = cur.list
        /\ IsInjective(cur.list) /\ ToSet(cur.list) \subseteq cur.from

\* The infos as the PLC can read them are those of the project it has named:
\* its records, and just as many blocks as hold them.
InfoMatches ==
  /\ Val("ProjektName") = cur.name
  /\ Val("ProjektVorhanden") = cur.found
  /\ cur.found => /\ Val("LenProjekt") = cur.len
                  /\ Val("AnzDatenbloecke") * LenDataArray
                       \in cur.len..cur.len + LenDataArray - 1

\* ProjektInfoWrote is set after every request, main.cpp 901.  When it is, the
\* infos belong to the project named, or Error is set.  Left aside: a file of
\* more records than an int16 counts, and nodes the program has declared
\* read-only, as no result of these writes is looked at.
InfoOrError ==
  (/\ pc = "announce" /\ fresh /\ link /\ cur.len < Int16Mod \div 2
   /\ \A n \in {"ProjektVorhanden", "LenProjekt", "AnzDatenbloecke", "Error"} : plc[n].wr)
  => Val("Error") \/ InfoMatches

\* Arrays are read without asking for their type (OPC_UA_Arrays.cpp); the
\* check made once in registerVariable is all that keeps elements of another
\* type from being drawn with.  It holds as long as no other program is
\* loaded during the session.
TypeSafe == fresh => \A n \in DesignNodes : cur.params[n] # "foreign"

\* A request for the list (UpdateProjektList) is served by a listing begun
\* after it, whenever it comes, unless the link breaks, a node is spoilt or
\* the exchange is paused; and a request that has been taken is answered with
\* ProjektlistUpdated or Error, or the call that carried the answer failed.
Disturbed == ~link \/ ~dataOn \/ \E n \in Mandatory : ~Sound(n)

ListServed ==
  /\ (owed = "asked") ~> (owed # "asked" \/ Disturbed)
  /\ (owed = "taken") ~> (owed # "taken")

\* Window arithmetic of the array calls against rows and columns of the
\* array: a read returns exactly the cells of the window that exist; a
\* written window reads back as written and every other cell is kept.
Spans == {Window(r, rs, c, cs) : r \in 0..1, rs \in {1, 2, SizeMax},
                                 c \in 0..2, cs \in {1, 2, SizeMax}}

ReadsExactly(e, nd, w) ==
  LET res == ReadArray(e, nd, w, TRUE)
      row(i) == SubSeq(nd.data, i * Cols(nd) + 1, (i + 1) * Cols(nd))
      lastRow == Least(Rows(nd), w.row + w.rows)
      lastCol == Least(Cols(nd), w.col + w.cols)
  IN  IF w.row < Rows(nd) /\ w.col < Cols(nd)
        THEN /\ res.ok
             /\ (w.row + w.rows < SizeMod /\ w.col + w.cols < SizeMod) =>
                  res.value = [i \in 1..lastRow - w.row |->
                                 SubSeq(row(w.row + i - 1), w.col + 1, lastCol)]
        ELSE ~res.ok

WritesExactly(e, nd, data, r, c) ==
  LET typed == [nd EXCEPT !.elem = e]
      res   == FetchArray(e, typed, data, r, c, TRUE)
      put   == StoreArray(e, typed, res.value, TRUE).node
      size  == Window(r, Len(data), c, Len(data[1]))
  IN  IF e # "Boolean" /\ r + Len(data) <= Rows(nd) /\ c + Len(data[1]) <= Cols(nd)
        THEN /\ res.ok /\ ReadArray(e, put, size, TRUE).value = data
             /\ \A k \in 1..Len(nd.data) :
                  put.data[k] # nd.data[k] =>
                    /\ (k - 1) \div Cols(nd) \in r..r + Len(data) - 1
                    /\ (k - 1) % Cols(nd) \in c..c + Len(data[1]) - 1
        ELSE ~res.ok

WindowExact ==
  LET nd == plc["ProjektArray"]
  IN  (pc = "listed" /\ fresh) =>
        \A e \in Elems :
          /\ \A w \in Spans : ReadsExactly(e, nd, w)
          /\ \A data \in {<<<<"x">>>>, <<<<"x", "y">>>>, <<<<"x">>, <<"y">>>>} :
               \A r \in 0..1, c \in 0..2 : WritesExactly(e, nd, data, r, c)
=============================================================================
