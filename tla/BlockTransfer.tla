---------------------------- MODULE BlockTransfer ----------------------------
(***************************************************************************)
(* ProjectManager::transferProjectData and the part of the operating loop  *)
(* that calls it: the PLC (SPS) asks for a project with ReadProjekt, the   *)
(* service cuts the .tap file into blocks of LenDataArray records and      *)
(* hands them over one at a time through shared OPC UA nodes.              *)
(*                                                                         *)
(*   service                       nodes                       PLC         *)
(*   DataArray, IndexData,         WriteData = TRUE   ---->    take block  *)
(*   next block                    ReadData  = TRUE   <----    ask again   *)
(*                                                                         *)
(* One step is one OPC UA call, so service and PLC interleave between any  *)
(* two calls.  Writes made back to back of nodes that nobody else reads    *)
(* are one step.  Time is a count of polling rounds: every round sleeps    *)
(* 10 ms, so Patience stands for the 30 s without progress and AckPatience *)
(* for the 5 s the service waits for the last acknowledgement.             *)
(*                                                                         *)
(* After a crash the new process finds the nodes, and the PLC, as they are *)
(* (Restart).  A transfer that begins while the PLC is still at a block of *)
(* the dead process is "late": it takes old for new.  What is promised, is *)
(* promised of every other transfer.                                       *)
(*                                                                         *)
(* Abstracted: a record is its project and row number; rendering the       *)
(* preview, log texts, arc flattening (a row stays one row).               *)
(***************************************************************************)
EXTENDS Integers, Sequences

CONSTANTS
  Projects,       \* .tap files the operator may pick
  NoName,         \* ProjektName is the empty string
  Blank,          \* an array element nobody has written yet
  MaxRecords,     \* bound: records of a file
  LenDataArray,   \* records per block (setting lenDataArray)
  ArrayLen,       \* elements of the PLC's array DataArray
  Patience,       \* bound: polling rounds that make up 30 s
  AckPatience,    \* bound: polling rounds that make up 5 s
  MaxFaults,      \* bound: OPC UA calls that fail in a behaviour
  Disturb,        \* what besides the handshake happens, see DisturbKinds
  AskWhen         \* when the PLC asks again: "cleared" or "beendet"

Missing == -1     \* file[p] = Missing: the file does not exist or cannot be opened

DisturbKinds == {"rename", "edit", "abort", "lateAbort", "link", "crash"}

ASSUME TransferAssumption ==
  /\ NoName \notin Projects
  /\ MaxRecords \in Nat /\ LenDataArray \in Nat \ {0} /\ ArrayLen \in Nat \ {0}
  /\ Patience \in Nat /\ AckPatience \in Nat /\ MaxFaults \in Nat
  /\ Disturb \subseteq DisturbKinds
  /\ AskWhen \in {"cleared", "beendet"}

VARIABLES
  sps,       \* the OPC UA nodes on the PLC
  pc,        \* the service thread: the OPC call it makes next
  records,   \* recordCount of transferProjectData
  anz,       \* anzBlocke
  proj,      \* info.filePath
  cur,       \* currentBlock
  age,       \* polling rounds since lastProgress, then since the ack wait began
  outcome,   \* how the latest transfer ended
  plc,       \* the PLC program: its next step and the IndexData it has read
  file,      \* number of records of each project file, or Missing
  received,  \* blocks the PLC has taken in the current transfer
  pending,   \* the PLC has set ReadProjekt and no transfer has begun since
  late,      \* the latest transfer began while the PLC was still at an old block
  died,      \* the process has died since it last signalled the end of a transfer
  faults     \* OPC UA calls that have failed

svcVars == <<pc, records, anz, proj, cur, age, outcome>>
envVars == <<plc, file, received, pending, late, died>>
vars == <<sps, svcVars, envVars, faults>>

----------------------------------------------------------------------------
(* The project file, as ProjectFileReader sees it.                         *)

Names == Projects \cup {NoName}
Cell == [proj : Projects, row : 1..MaxRecords] \cup {Blank}

\* readProjectNameFromSPS and getProjectInfo both succeed.
Found(p) == p # NoName /\ file[p] # Missing

\* Faulty: an incomplete last block is not counted.
WholeBlocks(n) == n \div LenDataArray

\* ceil(recordCount / lenDataArray)
BlockCount(n) == (n + LenDataArray - 1) \div LenDataArray

\* Faulty: the header line is taken for the first record.
FirstRowAfterHeader(b) == b * LenDataArray + 1

\* The first row of block b (counted from 0) is FirstRow(b) + 1.
FirstRow(b) == b * LenDataArray

\* How many rows readDataBlock returns for block b of a file with n records.
RowsIn(b, n) ==
  LET rest == n - FirstRow(b)
  IN  IF rest <= 0 THEN 0 ELSE IF rest < LenDataArray THEN rest ELSE LenDataArray

\* writeStringArray reads the node's array and patches the first k elements;
\* the elements behind the window keep what an earlier block left there.
Patched(array, p, b, k) ==
  [i \in 1..ArrayLen |-> IF i <= k THEN [proj |-> p, row |-> FirstRow(b) + i]
                                   ELSE array[i]]

----------------------------------------------------------------------------
(* OPC UA calls.  The service ignores the result of most writes: a failed  *)
(* one leaves the node as it was and the thread goes on.                   *)

Fault == faults < MaxFaults /\ faults' = faults + 1

Send(nodes) ==
  \/ sps' = nodes /\ UNCHANGED faults
  \/ UNCHANGED sps /\ Fault

\* A write whose result the caller does not look at.
Write(node, value) == Send([sps EXCEPT ![node] = value])

At(label, next) == pc = label /\ pc' = next

----------------------------------------------------------------------------
(* The service thread.                                                     *)

\* ReadProjekt is polled every 100 ms; a failed read is a poll that saw nothing.
Poll ==
  /\ At("poll", "name")
  /\ sps.ReadProjekt
  /\ pending' = FALSE
  /\ outcome' = "none"
  /\ UNCHANGED <<sps, records, anz, proj, cur, age, plc, file, received, late, died, faults>>

\* showProjectInfo: no name, a failed read or no such file end the request.
ShowFails ==
  /\ At("name", "clear")
  /\ \/ sps.ProjektName = NoName /\ UNCHANGED <<sps, faults>>
     \/ UNCHANGED sps /\ Fault
     \/ /\ sps.ProjektName # NoName /\ file[sps.ProjektName] = Missing
        /\ Write("ProjektVorhanden", FALSE)
  /\ UNCHANGED <<records, anz, proj, cur, age, outcome, envVars>>

\* showProjectInfo succeeds: the length and the block count are written.
ShowInfo ==
  LET p == sps.ProjektName IN
  /\ Found(p)
  /\ At("name", IF file[p] = 0 THEN "clear" ELSE "name2")
  /\ Send([sps EXCEPT !.LenProjekt = file[p], !.ProjektVorhanden = TRUE,
                      !.AnzDatenbloecke = BlockCount(file[p])])
  /\ records' = file[p]
  /\ UNCHANGED <<anz, proj, cur, age, outcome, envVars>>

\* transferProjectData reads ProjektName a second time and looks the file up again.
SecondName ==
  LET p == sps.ProjektName IN
  /\ pc = "name2"
  /\ \/ /\ Found(p)
        /\ proj' = p /\ pc' = "prepare" /\ UNCHANGED faults
     \/ /\ ~Found(p)
        /\ pc' = "clear" /\ UNCHANGED <<proj, faults>>
     \/ pc' = "clear" /\ Fault /\ UNCHANGED proj
  /\ UNCHANGED <<sps, records, anz, cur, age, outcome, envVars>>

\* The PLC is between two blocks and none is on offer.
Quiet == plc.pc = "idle" /\ ~sps.WriteData

\* Faulty: currentBlock is not reset for a second transfer.
PrepareKeepsBlock ==
  /\ At("prepare", "startW")
  /\ anz' = BlockCount(records)
  /\ Send([sps EXCEPT !.AnzDatenbloecke = anz', !.IndexData = 0])
  /\ received' = <<>> /\ late' = ~Quiet
  /\ UNCHANGED <<records, proj, cur, age, outcome, plc, file, pending, died>>

\* Nothing looks at WriteData before the block counter is set back: after a crash
\* the PLC may still be at a block of the transfer that was cut off.
Prepare ==
  /\ At("prepare", "startW")
  /\ anz' = BlockCount(records)
  /\ Send([sps EXCEPT !.AnzDatenbloecke = anz', !.IndexData = 0])
  /\ cur' = 0 /\ received' = <<>> /\ late' = ~Quiet
  /\ UNCHANGED <<records, proj, age, outcome, plc, file, pending, died>>

\* setTransferFlags(false, true, false), three writes
StartFlags ==
  /\ \/ At("startW", "startR") /\ Write("WriteData", FALSE)
     \/ At("startR", "startF") /\ Write("ReadData", TRUE)
     \/ At("startF", "loop")   /\ Write("UebertgarungBeendet", FALSE)
  /\ age' = 0
  /\ UNCHANGED <<records, anz, proj, cur, outcome, envVars>>

\* Head of the block loop: keep-alive, 30 s without progress, abort bit.
LoopHead ==
  /\ pc = "loop"
  /\ \/ /\ "link" \in Disturb            \* keepAlive_() returned false
        /\ pc' = "endW" /\ outcome' = "link" /\ UNCHANGED faults
     \/ /\ age >= Patience
        /\ pc' = "endW" /\ outcome' = "timeout" /\ UNCHANGED faults
     \/ /\ age < Patience /\ sps.ubertragenAbbrechen
        /\ pc' = "abort" /\ outcome' = "abort" /\ UNCHANGED faults
     \/ /\ age < Patience /\ ~sps.ubertragenAbbrechen
        /\ pc' = "ready" /\ UNCHANGED <<outcome, faults>>
     \/ /\ age < Patience                \* reading the bit failed
        /\ pc' = "ready" /\ Fault /\ UNCHANGED outcome
  /\ UNCHANGED <<sps, records, anz, proj, cur, age, envVars>>

ClearAbort ==
  /\ At("abort", "endW")
  /\ Write("ubertragenAbbrechen", FALSE)
  /\ UNCHANGED <<records, anz, proj, cur, age, outcome, envVars>>

\* Faulty: the next block is sent without waiting for ReadData.
PollReadDataEager ==
  /\ At("ready", "clearR")
  /\ UNCHANGED <<sps, records, anz, proj, cur, age, outcome, envVars, faults>>

\* Faulty: lastProgress is refreshed by every polling round.
PollReadDataRefreshes ==
  /\ pc = "ready"
  /\ \/ sps.ReadData /\ pc' = "clearR" /\ UNCHANGED faults
     \/ ~sps.ReadData /\ pc' = "loop" /\ UNCHANGED faults
     \/ pc' = "loop" /\ Fault
  /\ UNCHANGED <<sps, records, anz, proj, cur, age, outcome, envVars>>

\* Has the PLC asked for the next block?
PollReadData ==
  /\ pc = "ready"
  /\ \/ /\ sps.ReadData
        /\ pc' = "clearR" /\ UNCHANGED <<age, faults>>
     \/ /\ \/ ~sps.ReadData /\ UNCHANGED faults
           \/ Fault
        /\ pc' = "loop" /\ age' = age + 1
  /\ UNCHANGED <<sps, records, anz, proj, cur, outcome, envVars>>

ClearReadData ==
  /\ At("clearR", "index")
  /\ Write("ReadData", FALSE)
  /\ UNCHANGED <<records, anz, proj, cur, age, outcome, envVars>>

WriteIndex ==
  /\ At("index", "data")
  /\ Write("IndexData", cur + 1)
  /\ UNCHANGED <<records, anz, proj, cur, age, outcome, envVars>>

\* readDataBlock and writeDataBlockToSPS; this write's result is looked at.
WriteBlock ==
  LET k == RowsIn(cur, file[proj]) IN
  /\ At("data", "offer")
  /\ file[proj] # Missing /\ k <= ArrayLen
  /\ sps' = [sps EXCEPT !.DataArray = Patched(@, proj, cur, k)]
  /\ UNCHANGED <<records, anz, proj, cur, age, outcome, envVars, faults>>

\* Faulty: a broken-off transfer returns without the end flags.
BlockFailsSilently ==
  /\ At("data", "clear")
  /\ \/ file[proj] = Missing /\ outcome' = "error" /\ UNCHANGED faults
     \/ /\ file[proj] # Missing /\ RowsIn(cur, file[proj]) > ArrayLen
        /\ outcome' = "fail" /\ UNCHANGED faults
  /\ UNCHANGED <<sps, records, anz, proj, cur, age, envVars>>

\* The file is gone (readDataBlock throws), the block is longer than the PLC's
\* array, or the write fails: the transfer is broken off.
BlockFails ==
  /\ At("data", "endW")
  /\ \/ file[proj] = Missing /\ outcome' = "error" /\ UNCHANGED faults
     \/ /\ file[proj] # Missing /\ RowsIn(cur, file[proj]) > ArrayLen
        /\ outcome' = "fail" /\ UNCHANGED faults
     \/ file[proj] # Missing /\ outcome' = "fail" /\ Fault
  /\ UNCHANGED <<sps, records, anz, proj, cur, age, envVars>>

Offer ==
  /\ At("offer", IF cur + 1 >= anz THEN "ack" ELSE "loop")
  /\ Write("WriteData", TRUE)
  /\ cur' = cur + 1
  /\ age' = 0
  /\ UNCHANGED <<records, anz, proj, outcome, envVars>>

\* Faulty: the deadline passes for an acknowledgement.
AckWriteDataAssumed ==
  /\ pc = "ack"
  /\ \/ (age >= AckPatience \/ ~sps.WriteData) /\ pc' = "endW" /\ outcome' = "ok"
     \/ age < AckPatience /\ sps.WriteData /\ pc' = "ackR" /\ UNCHANGED outcome
  /\ UNCHANGED <<sps, records, anz, proj, cur, age, envVars, faults>>

\* After the last block: WriteData cleared by the PLC is the acknowledgement.
AckWriteData ==
  /\ pc = "ack"
  /\ \/ /\ age >= AckPatience
        /\ pc' = "endW" /\ outcome' = "unacked" /\ UNCHANGED faults
     \/ /\ age < AckPatience /\ "link" \in Disturb
        /\ pc' = "endW" /\ outcome' = "link" /\ UNCHANGED faults
     \/ /\ age < AckPatience /\ ~sps.WriteData
        /\ pc' = "endW" /\ outcome' = "ok" /\ UNCHANGED faults
     \/ /\ age < AckPatience
        /\ \/ sps.WriteData /\ UNCHANGED faults
           \/ Fault
        /\ pc' = "ackR" /\ UNCHANGED outcome
  /\ UNCHANGED <<sps, records, anz, proj, cur, age, envVars>>

\* ... or ReadData set again.
AckReadData ==
  /\ pc = "ackR"
  /\ \/ /\ sps.ReadData
        /\ pc' = "ackC" /\ outcome' = "ok" /\ UNCHANGED <<age, faults>>
     \/ /\ \/ ~sps.ReadData /\ UNCHANGED faults
           \/ Fault
        /\ pc' = "ack" /\ age' = age + 1 /\ UNCHANGED outcome
  /\ UNCHANGED <<sps, records, anz, proj, cur, envVars>>

AckClear ==
  /\ At("ackC", "endW")
  /\ Write("ReadData", FALSE)
  /\ UNCHANGED <<records, anz, proj, cur, age, outcome, envVars>>

\* Faulty: the end of a transfer leaves WriteData as it is.
EndFlagsKeepOffer ==
  /\ \/ At("endW", "endR")  /\ UNCHANGED <<sps, faults>>
     \/ At("endR", "endF")  /\ Write("ReadData", FALSE)
     \/ At("endF", "clear") /\ Write("UebertgarungBeendet", TRUE)
  /\ died' = (died /\ pc # "endF")
  /\ UNCHANGED <<records, anz, proj, cur, age, outcome, plc, file, received, pending, late>>

\* setTransferFlags(false, false, true), three writes
EndFlags ==
  /\ \/ At("endW", "endR")  /\ Write("WriteData", FALSE)
     \/ At("endR", "endF")  /\ Write("ReadData", FALSE)
     \/ At("endF", "clear") /\ Write("UebertgarungBeendet", TRUE)
  /\ died' = (died /\ pc # "endF")
  /\ UNCHANGED <<records, anz, proj, cur, age, outcome, plc, file, received, pending, late>>

\* Back in the operating loop: only now is the request bit taken away.
ClearRequest ==
  /\ At("clear", "poll")
  /\ Write("ReadProjekt", FALSE)
  /\ UNCHANGED <<records, anz, proj, cur, age, outcome, envVars>>

\* The process dies; its locals are gone, the nodes keep their values.
Crash ==
  /\ "crash" \in Disturb
  /\ pc # "down" /\ pc' = "down"
  /\ outcome' = "none" /\ died' = TRUE
  /\ UNCHANGED <<sps, records, anz, proj, cur, age, plc, file, received, pending, late, faults>>

\* Faulty: the nodes are initialised on every start.
RestartResetsNodes ==
  /\ At("down", "poll")
  /\ sps' = [sps EXCEPT !.ReadProjekt = FALSE]
  /\ UNCHANGED <<records, anz, proj, cur, age, outcome, envVars, faults>>

\* A new process opens a session and polls, whatever the PLC is doing; it leaves
\* the nodes of the handshake as they are.
Restart ==
  /\ At("down", "poll")
  /\ UNCHANGED <<sps, records, anz, proj, cur, age, outcome, envVars, faults>>

Service ==
  \/ Poll \/ ShowFails \/ ShowInfo \/ SecondName \/ Prepare \/ StartFlags
  \/ LoopHead \/ ClearAbort \/ PollReadData \/ ClearReadData \/ WriteIndex
  \/ WriteBlock \/ BlockFails \/ Offer \/ AckWriteData \/ AckReadData
  \/ AckClear \/ EndFlags \/ ClearRequest \/ Restart

----------------------------------------------------------------------------
(* The PLC program: one cyclic task (external; the handshake is that of    *)
(* PlcSimulator::run in the integration test).                             *)

PlcAt(label, next) == plc.pc = label /\ plc' = [plc EXCEPT !.pc = next]

PlcSees ==
  /\ PlcAt("idle", "index")
  /\ sps.WriteData
  /\ UNCHANGED <<sps, svcVars, file, received, pending, late, died, faults>>

PlcReadsIndex ==
  /\ plc.pc = "index"
  /\ plc' = [pc |-> "array", index |-> sps.IndexData]
  /\ UNCHANGED <<sps, svcVars, file, received, pending, late, died, faults>>

PlcReadsBlock ==
  /\ PlcAt("array", "clear")
  /\ received' = Append(received, [index |-> plc.index, data |-> sps.DataArray])
  /\ UNCHANGED <<sps, svcVars, file, pending, late, died, faults>>

PlcClears ==
  /\ PlcAt("clear", "request")
  /\ sps' = [sps EXCEPT !.WriteData = FALSE]
  /\ UNCHANGED <<svcVars, file, received, pending, late, died, faults>>

PlcAsksNext ==
  /\ PlcAt("request", "idle")
  /\ sps' = [sps EXCEPT !.ReadData = TRUE]
  /\ UNCHANGED <<svcVars, file, received, pending, late, died, faults>>

PlcHandshake == PlcSees \/ PlcReadsIndex \/ PlcReadsBlock \/ PlcClears \/ PlcAsksNext

\* The PLC asks for a project between two handshakes: either once the service
\* has taken the request bit away, or as soon as UebertgarungBeendet is set.
PlcRequests(p) ==
  /\ plc.pc = "idle"
  /\ ~pending
  /\ IF AskWhen = "cleared" THEN ~sps.ReadProjekt
                            ELSE sps.UebertgarungBeendet \/ ~sps.ReadProjekt
  /\ sps' = [sps EXCEPT !.ReadProjekt = TRUE, !.ProjektName = p]
  /\ pending' = TRUE
  /\ UNCHANGED <<svcVars, plc, file, received, late, died, faults>>

(* Operator and file system.                                               *)

InLoop == {"loop", "ready", "clearR", "index", "data", "offer"}
Ending == {"endW", "endR", "endF"}
InTransfer == InLoop \cup {"startW", "startR", "startF", "abort", "ack", "ackR", "ackC"}

\* The abort button; a late abort also comes when no block loop is running.
SetAbort ==
  /\ \/ "abort" \in Disturb /\ pc \in InLoop
     \/ "lateAbort" \in Disturb
  /\ ~sps.ubertragenAbbrechen
  /\ sps' = [sps EXCEPT !.ubertragenAbbrechen = TRUE]
  /\ UNCHANGED <<svcVars, envVars, faults>>

Rename(p) ==
  /\ "rename" \in Disturb
  /\ sps' = [sps EXCEPT !.ProjektName = p]
  /\ UNCHANGED <<svcVars, envVars, faults>>

EditFile(p, n) ==
  /\ "edit" \in Disturb
  /\ file' = [file EXCEPT ![p] = n]
  /\ UNCHANGED <<sps, svcVars, plc, received, pending, late, died, faults>>

Lengths == {Missing} \cup 0..MaxRecords

Environment ==
  \/ \E p \in Names : PlcRequests(p) \/ Rename(p)
  \/ \E p \in Projects, n \in Lengths : EditFile(p, n)
  \/ SetAbort \/ Crash

----------------------------------------------------------------------------
Init ==
  /\ sps = [ReadProjekt |-> FALSE, ProjektName |-> NoName, ProjektVorhanden |-> FALSE,
            LenProjekt |-> 0, AnzDatenbloecke |-> 0, IndexData |-> 0,
            DataArray |-> [i \in 1..ArrayLen |-> Blank],
            WriteData |-> FALSE, ReadData |-> FALSE,
            UebertgarungBeendet |-> FALSE, ubertragenAbbrechen |-> FALSE]
  /\ pc = "poll"
  /\ records = 0 /\ anz = 0 /\ proj = NoName /\ cur = 0 /\ age = 0
  /\ outcome = "none"
  /\ plc = [pc |-> "idle", index |-> 0]
  /\ file \in [Projects -> Lengths]
  /\ received = <<>>
  /\ pending = FALSE
  /\ late = FALSE /\ died = FALSE
  /\ faults = 0

Next == Service \/ PlcHandshake \/ Environment

Spec == Init /\ [][Next]_vars

\* The SPS thread is always scheduled; nothing is assumed of the PLC.
FairSpec == Spec /\ WF_vars(Service)

----------------------------------------------------------------------------
(* What the handshake implements.  A block is on offer from WriteData =     *)
(* TRUE, or from the PLC noticing it, until the PLC has read the array.    *)

OnOffer == plc.pc \in {"index", "array"} \/ (sps.WriteData /\ plc.pc = "idle")

OfferedNo == IF ~OnOffer THEN 0
             ELSE IF plc.pc = "array" THEN plc.index ELSE sps.IndexData
TakenNos == [k \in DOMAIN received |-> received[k].index]
Running == pc \in InTransfer

Delivery == INSTANCE BlockDelivery WITH
  running <- Running, total <- anz, offered <- OfferedNo, taken <- TakenNos, late <- late

\* The refinement, under a name a configuration can refer to.
DeliverySpec == Delivery!Spec

----------------------------------------------------------------------------
Pcs == {"poll", "name", "name2", "prepare", "clear", "down"}
         \cup InTransfer \cup Ending

Outcomes == {"none", "ok", "unacked", "timeout", "abort", "link", "fail", "error"}

Nodes == [ReadProjekt : BOOLEAN, ProjektName : Names, ProjektVorhanden : BOOLEAN,
          LenProjekt : Nat, AnzDatenbloecke : Nat, IndexData : Nat,
          DataArray : [1..ArrayLen -> Cell],
          WriteData : BOOLEAN, ReadData : BOOLEAN,
          UebertgarungBeendet : BOOLEAN, ubertragenAbbrechen : BOOLEAN]

PlcState == [pc : {"idle", "index", "array", "clear", "request"}, index : Nat]
Block == [index : Nat, data : [1..ArrayLen -> Cell]]

ServiceOK ==
  /\ pc \in Pcs
  /\ records \in 0..MaxRecords /\ anz \in Nat /\ proj \in Names
  /\ cur \in Nat /\ age \in Nat
  /\ outcome \in Outcomes
  /\ pc \in {"prepare"} \cup InTransfer => proj \in Projects

\* Type invariant; while blocks are sent the transfer has a project.
TypeOK ==
  /\ sps \in Nodes
  /\ ServiceOK
  /\ plc \in PlcState
  /\ file \in [Projects -> Lengths]
  /\ received \in Seq(Block)
  /\ pending \in BOOLEAN /\ late \in BOOLEAN /\ died \in BOOLEAN
  /\ faults \in 0..MaxFaults

\* A block has one owner: WriteData (the PLC's turn) and ReadData (the
\* service's turn) are never set together, although service and PLC each set
\* and clear them with separate calls.
OneOwner == ~(sps.WriteData /\ sps.ReadData)

\* The k-th block the PLC takes in a transfer carries IndexData = k: none is
\* skipped, repeated or overtaken (integration test: indices 1..n in order).
IndexOrder == \A k \in DOMAIN received : received[k].index = k

\* Every element of a taken block that lies inside LenProjekt is the record of
\* the requested file at that position, the stale tail of a partial last block
\* never reaches into it (integration test: every line in order, no header).  A
\* late transfer has no such order: its PLC may take what the dead process left.
RowsInOrder ==
  ~late /\ pc \in InTransfer \cup Ending =>
  \A k \in DOMAIN received : \A i \in 1..LenDataArray :
    LET row == (k - 1) * LenDataArray + i IN
    row <= records => received[k].data[i] = [proj |-> proj, row |-> row]

\* When the acknowledgement of the last block has been seen, the PLC has taken
\* every announced block.  In a late transfer the PLC's clearing of WriteData may
\* belong to the old block.
CompleteMeansDelivered == ~late /\ outcome = "ok" => Len(received) = anz

\* Block numbers are in order and an acknowledged end is a complete one, whatever
\* the operator does to names, files and the abort bit, as long as no call has
\* failed and the transfer is not late.
InOrderUntilFault == faults = 0 /\ ~late => IndexOrder /\ CompleteMeansDelivered

\* The service never touches DataArray while a block is on offer or the PLC is
\* between noticing it and having read it, unless the transfer is late.
NoOverwrite ==
  [][~late /\ sps'.DataArray # sps.DataArray =>
       ~sps.WriteData /\ plc.pc \notin {"index", "array", "clear"}]_vars

\* How a transfer can be late: the process has died since the end of a transfer
\* was last signalled.  One crash spoils the next transfer at most, the one after
\* it finds the PLC between two blocks again; and no timeout, abort or lost link
\* spoils any.
LateAfterCrashOnly == late /\ pc \in InTransfer \cup Ending => died

(* The invariant of the handshake behind OneOwner and IndexOrder.           *)

Waiting == {"startF", "loop", "ready", "clearR", "abort", "ack", "ackR", "ackC"}
Taken   == Len(received)

\* Whose turn it is while the service waits: it may send, the PLC may fetch,
\* the PLC has fetched, the PLC is about to ask.
Turn ==
  \/ plc.pc = "idle" /\ sps.ReadData /\ ~sps.WriteData /\ Taken = cur
  \/ plc.pc \in {"idle", "index", "array"} /\ ~sps.ReadData /\ sps.WriteData /\ Taken + 1 = cur
  \/ plc.pc = "clear" /\ ~sps.ReadData /\ sps.WriteData /\ Taken = cur
  \/ plc.pc = "request" /\ ~sps.ReadData /\ ~sps.WriteData /\ Taken = cur

\* Service, nodes and PLC agree on whose turn it is and on the number of the
\* block on offer, in every interleaving of the single OPC UA calls.
Agreed ==
  /\ pc \in Waiting => Turn
  /\ pc \in {"startF", "clearR", "ackC"} => sps.ReadData
  /\ pc \in {"index", "data", "offer"} => Quiet /\ ~sps.ReadData /\ Taken = cur
  /\ pc \in {"data", "offer"} => sps.IndexData = cur + 1
  /\ pc \in {"startW", "startR"} => Quiet /\ Taken = 0 /\ cur = 0
  /\ OnOffer /\ plc.pc # "array" => sps.IndexData = Taken + 1
  /\ plc.pc = "array" => plc.index = Taken + 1
  /\ plc.pc = "request" => ~sps.WriteData
  /\ OneOwner
  /\ IndexOrder

\* A transfer that was signalled leaves no block on offer, and a PLC that asks for
\* the next one is between two blocks; only a dead process leaves one behind.
Punctual ==
  /\ pc \in {"endR", "endF"} => ~sps.WriteData
  /\ pc = "down" => died
  /\ ~died => /\ pc \in {"name", "name2", "prepare"} => Quiet
              /\ pc \in {"clear", "poll"} => ~sps.WriteData
              /\ pc = "poll" /\ sps.ReadProjekt => plc.pc = "idle"
  /\ LateAfterCrashOnly

HandshakeInv == Punctual /\ (~late => Agreed)

\* How far the transfer has come, and what an acknowledged end implies.
ProgressInv ==
  /\ pc \in {"name2", "prepare"} => records > 0
  /\ pc \in InTransfer \ {"ack", "ackR", "ackC"} => cur < anz
  /\ pc \in {"ack", "ackR", "ackC"} => cur = anz
  /\ outcome = "ok" => pc \in {"ackC", "clear", "poll"} \cup Ending
  /\ ~late /\ outcome = "ok" =>
       ~sps.WriteData /\ plc.pc \in {"idle", "request"} /\ Taken = anz

\* A request that no transfer has begun for is still visible to the service.
NoRequestLost == pending => sps.ReadProjekt

\* The announced blocks hold every row of the transferred project, and one block
\* fewer would not (KONFIGURATION: AnzDatenbloecke, "Anzahl benoetigter
\* Uebertragungsbloecke").
AnnouncedFits ==
  pc \in InTransfer /\ file[proj] # Missing =>
    (anz - 1) * LenDataArray < file[proj] /\ file[proj] <= anz * LenDataArray

(* The invariants behind the last two properties and RowsInOrder.           *)

\* From the poll that has seen it to ClearRequest the request bit stays set, and
\* as long as it is set a PLC that waits for it to be cleared does not ask again.
RequestInv ==
  /\ pc \notin {"poll", "down"} => sps.ReadProjekt /\ ~pending
  /\ NoRequestLost

\* The file whose length has been announced is the one that is sent.
SelectionInv ==
  /\ pc = "name2" => /\ Found(sps.ProjektName)
                     /\ records = file[sps.ProjektName] /\ records > 0
  /\ pc \in {"prepare"} \cup InTransfer \cup Ending =>
       proj \in Projects /\ records = file[proj] /\ records > 0
  /\ pc \in InTransfer \cup Ending => anz = BlockCount(records)

\* Until the PLC has read it, DataArray holds the block after those it has taken,
\* unless the transfer is late.
RowsInv ==
  /\ RowsInOrder
  /\ ~late /\ pc \in InTransfer \cup Ending /\ (OnOffer \/ pc = "offer") =>
       \A i \in 1..LenDataArray :
         LET row == Taken * LenDataArray + i IN
         row <= records => sps.DataArray[i] = [proj |-> proj, row |-> row]

\* Every request is answered, with no help from the PLC: the thread cannot be
\* held in the handshake for ever.
RequestAnswered == sps.ReadProjekt ~> ~sps.ReadProjekt

\* Once blocks have been announced the end is signalled, whatever stops the
\* transfer, unless it is a call that fails ("Uebertragung beendet, Dienst wieder
\* frei", KONFIGURATION).
StartedIsSignalled ==
  pc = "startR" ~> (pc = "clear" /\ sps.UebertgarungBeendet) \/ faults > 0
=============================================================================
