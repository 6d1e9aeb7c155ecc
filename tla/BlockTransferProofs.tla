------------------------- MODULE BlockTransferProofs -------------------------
(***************************************************************************)
(* Theorems about BlockTransfer for every number of projects, records,     *)
(* block sizes, patience and every set of disturbances.                    *)
(***************************************************************************)
EXTENDS BlockTransfer, SequenceTheorems, TLAPS

(* A file with records needs at least one block: the ceiling division of    *)
(* transferProjectData never announces zero blocks for a non-empty file.   *)
LEMMA BlockCountType ==
  ASSUME NEW n \in Nat
  PROVE  BlockCount(n) \in Nat /\ (n > 0 => BlockCount(n) > 0)
<1>1. LenDataArray \in Nat /\ LenDataArray > 0
  BY TransferAssumption
<1>2. n + LenDataArray - 1 \in Nat
  BY <1>1
<1>3. BlockCount(n) \in Int
  BY <1>1, <1>2, SMT DEF BlockCount
<1>. QED
  BY <1>1, <1>2, SMT DEF BlockCount

(* A block never holds more rows than asked for nor rows behind the end of  *)
(* the file, so a patched array holds cells of the model.                   *)
LEMMA PatchedType ==
  ASSUME NEW array \in [1..ArrayLen -> Cell], NEW p \in Projects,
         NEW b \in Nat, NEW n \in 0..MaxRecords
  PROVE  Patched(array, p, b, RowsIn(b, n)) \in [1..ArrayLen -> Cell]
<1>. DEFINE f == FirstRow(b)
            k == RowsIn(b, n)
<1>1. f \in Nat
  BY TransferAssumption DEF FirstRow
<1>2. k \in Nat /\ (k > 0 => f + k <= n)
  BY <1>1, TransferAssumption DEF RowsIn
<1>3. ASSUME NEW i \in 1..ArrayLen, i <= k
      PROVE  [proj |-> p, row |-> f + i] \in Cell
  <2>1. f + i \in 1..MaxRecords
    BY <1>1, <1>2, <1>3, TransferAssumption
  <2>. QED
    BY <2>1 DEF Cell
<1>. HIDE DEF f, k
<1>4. \A i \in 1..ArrayLen :
        (IF i <= k THEN [proj |-> p, row |-> f + i] ELSE array[i]) \in Cell
  BY <1>3
<1>5. Patched(array, p, b, k) =
        [i \in 1..ArrayLen |-> IF i <= k THEN [proj |-> p, row |-> f + i] ELSE array[i]]
  BY DEF Patched, f
<1>6. Patched(array, p, b, k) \in [1..ArrayLen -> Cell]
  BY <1>4, <1>5
<1>. QED
  BY <1>6 DEF k

(* Writing a node of its type leaves the nodes well typed; a failed call    *)
(* changes nothing.                                                         *)
LEMMA BoolWrite ==
  ASSUME sps \in Nodes, NEW b \in BOOLEAN,
         NEW node \in {"ReadProjekt", "ProjektVorhanden", "WriteData", "ReadData",
                       "UebertgarungBeendet", "ubertragenAbbrechen"}
  PROVE  [sps EXCEPT ![node] = b] \in Nodes
BY DEF Nodes

(* The three nodes writeProjectInfoToSPS writes keep their types.           *)
LEMMA InfoWrite ==
  ASSUME NEW nodes \in Nodes, NEW n \in Nat, NEW b \in Nat
  PROVE  [nodes EXCEPT !.LenProjekt = n, !.ProjektVorhanden = TRUE, !.AnzDatenbloecke = b]
           \in Nodes
<1>1. [nodes EXCEPT !.LenProjekt = n] \in Nodes
  BY DEF Nodes
<1>2. \A m \in Nodes : [m EXCEPT !.ProjektVorhanden = TRUE] \in Nodes
  BY DEF Nodes
<1>3. \A m \in Nodes : [m EXCEPT !.AnzDatenbloecke = b] \in Nodes
  BY DEF Nodes
<1>4. [[[nodes EXCEPT !.LenProjekt = n] EXCEPT !.ProjektVorhanden = TRUE]
         EXCEPT !.AnzDatenbloecke = b] \in Nodes
  BY <1>1, <1>2, <1>3
<1>. QED
  BY <1>4

(* A call that fails and one that succeeds both leave typed nodes behind.   *)
LEMMA Sent ==
  ASSUME NEW n, sps \in Nodes, n \in Nodes, faults \in 0..MaxFaults, Send(n)
  PROVE  sps' \in Nodes /\ faults' \in 0..MaxFaults
BY TransferAssumption DEF Send, Fault

(* One step keeps the types; one case per action.                           *)
LEMMA TypeStep == TypeOK /\ [Next]_vars => TypeOK'
<1>. SUFFICES ASSUME TypeOK, [Next]_vars
              PROVE  TypeOK'
  OBVIOUS
<1>. USE TransferAssumption DEF TypeOK
<1>0. Fault => faults' \in 0..MaxFaults
  BY DEF Fault
<1>1. CASE Poll
  <2>1. ServiceOK'
    BY <1>1 DEF Poll, At, ServiceOK, Pcs, InTransfer, InLoop, Ending, Outcomes
  <2>. QED
    BY <1>0, <1>1, <2>1 DEF Poll, envVars
<1>2. CASE ShowFails
  <2>1. ServiceOK'
    BY <1>2 DEF ShowFails, At, ServiceOK, Pcs, InTransfer, InLoop, Ending, Outcomes
  <2>2. /\ [sps EXCEPT !["ProjektVorhanden"] = FALSE] \in Nodes
    BY BoolWrite
  <2>3. CASE UNCHANGED <<sps, faults>>
    BY <1>2, <2>1, <2>3 DEF ShowFails, envVars
  <2>4. CASE UNCHANGED sps /\ Fault
    BY <1>0, <1>2, <2>1, <2>4 DEF ShowFails, envVars
  <2>5. CASE Write("ProjektVorhanden", FALSE)
    <3>1. sps' \in Nodes /\ faults' \in 0..MaxFaults
      BY <2>2, <2>5, Sent DEF Write
    <3>. QED
      BY <1>2, <2>1, <3>1 DEF ShowFails, envVars
  <2>. QED
    BY <1>2, <2>3, <2>4, <2>5 DEF ShowFails
<1>3. CASE ShowInfo
  <2>1. sps.ProjektName \in Projects
    BY <1>3 DEF ShowInfo, Found, Names, Nodes
  <2>2. file[sps.ProjektName] \in 0..MaxRecords
    BY <1>3, <2>1 DEF ShowInfo, Found, Lengths, Missing
  <2>3. BlockCount(file[sps.ProjektName]) \in Nat
    <3>1. \A n \in 0..MaxRecords : BlockCount(n) \in Nat
      BY BlockCountType
    <3>. QED
      BY <2>2, <3>1
  <2>4. [sps EXCEPT !.LenProjekt = file[sps.ProjektName], !.ProjektVorhanden = TRUE,
                    !.AnzDatenbloecke = BlockCount(file[sps.ProjektName])] \in Nodes
    <3>. DEFINE n == file[sps.ProjektName]
    <3>1. n \in Nat /\ BlockCount(n) \in Nat
      BY <2>2, <2>3
    <3>. HIDE DEF n
    <3>2. [sps EXCEPT !.LenProjekt = n, !.ProjektVorhanden = TRUE,
                      !.AnzDatenbloecke = BlockCount(n)] \in Nodes
      BY <3>1, InfoWrite
    <3>. QED
      BY <3>2 DEF n
  <2>5. ServiceOK'
    BY <1>3, <2>2 DEF ShowInfo, At, ServiceOK, Pcs, InTransfer, InLoop, Ending, Outcomes
  <2>6. sps' \in Nodes /\ faults' \in 0..MaxFaults
    BY <1>3, <2>4, Sent DEF ShowInfo
  <2>. QED
    BY <1>3, <2>5, <2>6 DEF ShowInfo, envVars
<1>4. CASE SecondName
  <2>1. sps.ProjektName \in Names
    BY DEF Nodes
  <2>2. ServiceOK'
    BY <1>4, <2>1 DEF SecondName, Found, Names, ServiceOK, Pcs, InTransfer, InLoop, Ending, Outcomes
  <2>. QED
    BY <1>0, <1>4, <2>2 DEF SecondName, envVars
<1>5. CASE Prepare
  <2>1. BlockCount(records) \in Nat
    BY BlockCountType DEF ServiceOK
  <2>2. anz' \in Nat
    BY <1>5, <2>1 DEF Prepare
  <2>3. [sps EXCEPT !.AnzDatenbloecke = anz', !.IndexData = 0] \in Nodes
    BY <2>2 DEF Nodes
  <2>4. sps' \in Nodes /\ faults' \in 0..MaxFaults
    BY <1>5, <2>3, Sent DEF Prepare
  <2>5. ServiceOK'
    BY <1>5, <2>2 DEF Prepare, At, ServiceOK, Pcs, InTransfer, InLoop, Ending, Outcomes
  <2>. QED
    BY <1>5, <2>4, <2>5 DEF Prepare, Quiet
<1>6. CASE StartFlags
  <2>1. ServiceOK'
    BY <1>6 DEF StartFlags, At, ServiceOK, Pcs, InTransfer, InLoop, Ending, Outcomes
  <2>2. /\ [sps EXCEPT !["WriteData"] = FALSE] \in Nodes
        /\ [sps EXCEPT !["ReadData"] = TRUE] \in Nodes
        /\ [sps EXCEPT !["UebertgarungBeendet"] = FALSE] \in Nodes
    BY BoolWrite
  <2>3. sps' \in Nodes /\ faults' \in 0..MaxFaults
    BY <1>0, <1>6, <2>2, Sent DEF StartFlags, Write
  <2>. QED
    BY <1>6, <2>1, <2>3 DEF StartFlags, envVars
<1>7. CASE LoopHead
  <2>1. ServiceOK'
    BY <1>7 DEF LoopHead, At, ServiceOK, Pcs, InTransfer, InLoop, Ending, Outcomes
  <2>. QED
    BY <1>0, <1>7, <2>1 DEF LoopHead, envVars
<1>8. CASE ClearAbort
  <2>1. ServiceOK'
    BY <1>8 DEF ClearAbort, At, ServiceOK, Pcs, InTransfer, InLoop, Ending, Outcomes
  <2>2. /\ [sps EXCEPT !["ubertragenAbbrechen"] = FALSE] \in Nodes
    BY BoolWrite
  <2>3. sps' \in Nodes /\ faults' \in 0..MaxFaults
    BY <1>0, <1>8, <2>2, Sent DEF ClearAbort, Write
  <2>. QED
    BY <1>8, <2>1, <2>3 DEF ClearAbort, envVars
<1>9. CASE PollReadData
  <2>1. ServiceOK'
    BY <1>9 DEF PollReadData, At, ServiceOK, Pcs, InTransfer, InLoop, Ending, Outcomes
  <2>. QED
    BY <1>0, <1>9, <2>1 DEF PollReadData, envVars
<1>10. CASE ClearReadData
  <2>1. ServiceOK'
    BY <1>10 DEF ClearReadData, At, ServiceOK, Pcs, InTransfer, InLoop, Ending, Outcomes
  <2>2. /\ [sps EXCEPT !["ReadData"] = FALSE] \in Nodes
    BY BoolWrite
  <2>3. sps' \in Nodes /\ faults' \in 0..MaxFaults
    BY <1>0, <1>10, <2>2, Sent DEF ClearReadData, Write
  <2>. QED
    BY <1>10, <2>1, <2>3 DEF ClearReadData, envVars
<1>11. CASE WriteIndex
  <2>1. ServiceOK'
    BY <1>11 DEF WriteIndex, At, ServiceOK, Pcs, InTransfer, InLoop, Ending, Outcomes
  <2>2. [sps EXCEPT !["IndexData"] = cur + 1] \in Nodes
    BY DEF Nodes, ServiceOK
  <2>3. sps' \in Nodes /\ faults' \in 0..MaxFaults
    BY <1>11, <2>2, Sent DEF WriteIndex, Write
  <2>. QED
    BY <1>11, <2>1, <2>3 DEF WriteIndex, envVars
<1>12. CASE WriteBlock
  <2>1. proj \in Projects
    BY <1>12 DEF WriteBlock, At, ServiceOK, InTransfer, InLoop
  <2>2. file[proj] \in 0..MaxRecords
    BY <1>12, <2>1 DEF WriteBlock, Lengths, Missing
  <2>3. sps.DataArray \in [1..ArrayLen -> Cell]
    BY DEF Nodes
  <2>4. Patched(sps.DataArray, proj, cur, RowsIn(cur, file[proj])) \in [1..ArrayLen -> Cell]
    BY <2>1, <2>2, <2>3, PatchedType DEF ServiceOK
  <2>5. sps' \in Nodes
    BY <1>12, <2>4 DEF WriteBlock, Nodes
  <2>6. ServiceOK'
    BY <1>12 DEF WriteBlock, At, ServiceOK, Pcs, InTransfer, InLoop, Ending, Outcomes
  <2>. QED
    BY <1>12, <2>5, <2>6 DEF WriteBlock, envVars
<1>13. CASE BlockFails
  <2>1. ServiceOK'
    BY <1>13 DEF BlockFails, At, ServiceOK, Pcs, InTransfer, InLoop, Ending, Outcomes
  <2>. QED
    BY <1>0, <1>13, <2>1 DEF BlockFails, envVars
<1>14. CASE Offer
  <2>1. ServiceOK'
    BY <1>14 DEF Offer, At, ServiceOK, Pcs, InTransfer, InLoop, Ending, Outcomes
  <2>2. /\ [sps EXCEPT !["WriteData"] = TRUE] \in Nodes
    BY BoolWrite
  <2>3. sps' \in Nodes /\ faults' \in 0..MaxFaults
    BY <1>0, <1>14, <2>2, Sent DEF Offer, Write
  <2>. QED
    BY <1>14, <2>1, <2>3 DEF Offer, envVars
<1>15. CASE AckWriteData
  <2>1. ServiceOK'
    BY <1>15 DEF AckWriteData, At, ServiceOK, Pcs, InTransfer, InLoop, Ending, Outcomes
  <2>. QED
    BY <1>0, <1>15, <2>1 DEF AckWriteData, envVars
<1>16. CASE AckReadData
  <2>1. ServiceOK'
    BY <1>16 DEF AckReadData, At, ServiceOK, Pcs, InTransfer, InLoop, Ending, Outcomes
  <2>. QED
    BY <1>0, <1>16, <2>1 DEF AckReadData, envVars
<1>17. CASE AckClear
  <2>1. ServiceOK'
    BY <1>17 DEF AckClear, At, ServiceOK, Pcs, InTransfer, InLoop, Ending, Outcomes
  <2>2. /\ [sps EXCEPT !["ReadData"] = FALSE] \in Nodes
    BY BoolWrite
  <2>3. sps' \in Nodes /\ faults' \in 0..MaxFaults
    BY <1>0, <1>17, <2>2, Sent DEF AckClear, Write
  <2>. QED
    BY <1>17, <2>1, <2>3 DEF AckClear, envVars
<1>18. CASE EndFlags
  <2>1. ServiceOK'
    BY <1>18 DEF EndFlags, At, ServiceOK, Pcs, InTransfer, InLoop, Ending, Outcomes
  <2>2. /\ [sps EXCEPT !["WriteData"] = FALSE] \in Nodes
        /\ [sps EXCEPT !["ReadData"] = FALSE] \in Nodes
        /\ [sps EXCEPT !["UebertgarungBeendet"] = TRUE] \in Nodes
    BY BoolWrite
  <2>3. sps' \in Nodes /\ faults' \in 0..MaxFaults
    BY <1>0, <1>18, <2>2, Sent DEF EndFlags, Write
  <2>. QED
    BY <1>18, <2>1, <2>3 DEF EndFlags, envVars
<1>19. CASE ClearRequest
  <2>1. ServiceOK'
    BY <1>19 DEF ClearRequest, At, ServiceOK, Pcs, InTransfer, InLoop, Ending, Outcomes
  <2>2. /\ [sps EXCEPT !["ReadProjekt"] = FALSE] \in Nodes
    BY BoolWrite
  <2>3. sps' \in Nodes /\ faults' \in 0..MaxFaults
    BY <1>0, <1>19, <2>2, Sent DEF ClearRequest, Write
  <2>. QED
    BY <1>19, <2>1, <2>3 DEF ClearRequest, envVars
<1>20. CASE Restart
  <2>1. ServiceOK'
    BY <1>20 DEF Restart, At, ServiceOK, Pcs, InTransfer, InLoop, Ending, Outcomes
  <2>. QED
    BY <1>0, <1>20, <2>1 DEF Restart, envVars
<1>21. CASE PlcHandshake
  <2>1. ServiceOK'
    BY <1>21 DEF PlcHandshake, PlcSees, PlcReadsIndex, PlcReadsBlock, PlcClears, PlcAsksNext,
                 svcVars, ServiceOK
  <2>2. sps.IndexData \in Nat /\ sps.DataArray \in [1..ArrayLen -> Cell]
    BY DEF Nodes
  <2>3. plc' \in PlcState
    BY <1>21, <2>2 DEF PlcHandshake, PlcSees, PlcReadsIndex, PlcReadsBlock, PlcClears,
                       PlcAsksNext, PlcAt, PlcState
  <2>4. [sps EXCEPT !.WriteData = FALSE] \in Nodes /\ [sps EXCEPT !.ReadData = TRUE] \in Nodes
    BY BoolWrite
  <2>5. sps' \in Nodes
    BY <1>21, <2>4 DEF PlcHandshake, PlcSees, PlcReadsIndex, PlcReadsBlock, PlcClears, PlcAsksNext
  <2>6. [index |-> plc.index, data |-> sps.DataArray] \in Block
    BY <2>2 DEF Block, PlcState
  <2>7. received' \in Seq(Block)
    BY <1>21, <2>6 DEF PlcHandshake, PlcSees, PlcReadsIndex, PlcReadsBlock, PlcClears, PlcAsksNext
  <2>. QED
    BY <1>21, <2>1, <2>3, <2>5, <2>7
       DEF PlcHandshake, PlcSees, PlcReadsIndex, PlcReadsBlock, PlcClears, PlcAsksNext
<1>22. CASE Environment
  <2>1. ASSUME NEW p \in Names, PlcRequests(p) \/ Rename(p)
        PROVE  TypeOK'
    <3>1. sps' \in Nodes
      BY <2>1 DEF PlcRequests, Rename, Nodes
    <3>2. ServiceOK'
      BY <2>1 DEF PlcRequests, Rename, svcVars, ServiceOK
    <3>. QED
      BY <2>1, <3>1, <3>2 DEF PlcRequests, Rename, envVars
  <2>2. ASSUME NEW p \in Projects, NEW n \in Lengths, EditFile(p, n)
        PROVE  TypeOK'
    BY <2>2 DEF EditFile, svcVars, ServiceOK
  <2>3. CASE SetAbort
    <3>1. sps' \in Nodes
      BY <2>3, BoolWrite DEF SetAbort
    <3>. QED
      BY <2>3, <3>1 DEF SetAbort, svcVars, ServiceOK, envVars
  <2>4. CASE Crash
    BY <2>4 DEF Crash, ServiceOK, Pcs, InTransfer, InLoop, Ending, Outcomes, envVars
  <2>. QED
    BY <1>22, <2>1, <2>2, <2>3, <2>4 DEF Environment
<1>23. CASE UNCHANGED vars
  BY <1>23 DEF vars, svcVars, envVars, ServiceOK
<1>. QED
  BY <1>1, <1>2, <1>3, <1>4, <1>5, <1>6, <1>7, <1>8, <1>9, <1>10, <1>11, <1>12, <1>13,
     <1>14, <1>15, <1>16, <1>17, <1>18, <1>19, <1>20, <1>21, <1>22, <1>23
     DEF Next, Service

(* Type correctness in every reachable state.                               *)
THEOREM TypeCorrect == Spec => []TypeOK
<1>1. Init => TypeOK
  <2>. SUFFICES ASSUME Init PROVE TypeOK
    OBVIOUS
  <2>1. sps \in Nodes
    <3>1. [i \in 1..ArrayLen |-> Blank] \in [1..ArrayLen -> Cell]
      BY DEF Cell
    <3>. QED
      BY <3>1 DEF Init, Nodes, Names
  <2>2. ServiceOK
    BY TransferAssumption
       DEF Init, ServiceOK, Pcs, InTransfer, InLoop, Ending, Outcomes, Names
  <2>3. plc \in PlcState /\ received \in Seq(Block)
    BY DEF Init, PlcState
  <2>4. /\ file \in [Projects -> Lengths]
        /\ pending \in BOOLEAN /\ late \in BOOLEAN /\ died \in BOOLEAN
    BY DEF Init
  <2>5. faults \in 0..MaxFaults
    BY TransferAssumption DEF Init
  <2>. QED
    BY <2>1, <2>2, <2>3, <2>4, <2>5 DEF TypeOK
<1>. QED
  BY <1>1, TypeStep, PTL DEF Spec

(***************************************************************************)
(* The handshake up to the first call that fails: the code ignores the      *)
(* results of its writes, and promises nothing once one of them is lost.    *)
(***************************************************************************)

(* As long as no call has failed every write of the service reaches its node. *)
LEMMA NoFault ==
  ASSUME faults' = 0, TypeOK
  PROVE  ~Fault /\ \A n : Send(n) => sps' = n
BY DEF Fault, Send, TypeOK

(* What one write does to the four nodes the handshake is about.            *)
LEMMA NodeWrite ==
  ASSUME faults' = 0, TypeOK, NEW b \in BOOLEAN
  PROVE  /\ Write("WriteData", b) => /\ sps'.WriteData = b /\ sps'.ReadData = sps.ReadData
                                     /\ sps'.IndexData = sps.IndexData
                                     /\ sps'.ReadProjekt = sps.ReadProjekt
         /\ Write("ReadData", b) => /\ sps'.ReadData = b /\ sps'.WriteData = sps.WriteData
                                    /\ sps'.IndexData = sps.IndexData
                                    /\ sps'.ReadProjekt = sps.ReadProjekt
         /\ Write("ReadProjekt", b) => /\ sps'.ReadProjekt = b
                                       /\ sps'.ReadData = sps.ReadData
                                       /\ sps'.WriteData = sps.WriteData
                                       /\ sps'.IndexData = sps.IndexData
         /\ \A node \in {"ProjektVorhanden", "UebertgarungBeendet", "ubertragenAbbrechen"} :
              Write(node, b) => /\ sps'.WriteData = sps.WriteData
                                /\ sps'.ReadData = sps.ReadData
                                /\ sps'.IndexData = sps.IndexData
                                /\ sps'.ReadProjekt = sps.ReadProjekt
<1>1. \A n : Send(n) => sps' = n
  BY NoFault
<1>2. sps \in Nodes
  BY DEF TypeOK
<1>. QED
  BY <1>1, <1>2 DEF Write, Nodes

(* Calls that have failed are not forgotten.                                *)
LEMMA FaultsGrow ==
  ASSUME TypeOK, [Next]_vars, faults' = 0
  PROVE  faults = 0
<1>1. faults \in Nat
  BY TransferAssumption DEF TypeOK
<1>2. faults' = faults \/ Fault => faults = 0
  BY <1>1 DEF Fault
<1>3. CASE Service
  <2>1. \A n : Send(n) => faults' = faults \/ Fault
    BY DEF Send
  <2>. QED
    BY <1>2, <1>3, <2>1
       DEF Service, Poll, ShowFails, ShowInfo, SecondName, Prepare, StartFlags, LoopHead,
           ClearAbort, PollReadData, ClearReadData, WriteIndex, WriteBlock, BlockFails, Offer,
           AckWriteData, AckReadData, AckClear, EndFlags, ClearRequest, Restart, Write
<1>4. CASE PlcHandshake \/ Environment
  BY <1>4 DEF PlcHandshake, PlcSees, PlcReadsIndex, PlcReadsBlock, PlcClears, PlcAsksNext,
              Environment, PlcRequests, Rename, EditFile, SetAbort, Crash
<1>. QED
  BY <1>3, <1>4 DEF Next, vars

(* No step of the transfer, the PLC or the operator breaks the agreement    *)
(* on whose turn it is; one case per action.                                *)
LEMMA AgreedStep ==
  ASSUME faults' = 0, TypeOK, Agreed, [Next]_vars, ~Prepare
  PROVE  Agreed'
<1>0. ~Fault /\ \A n : Send(n) => sps' = n
  BY NoFault
<1>01. sps \in Nodes /\ plc \in PlcState /\ received \in Seq(Block) /\ cur \in Nat
  BY DEF TypeOK, ServiceOK
<1>1. CASE Poll
  BY <1>0, <1>1 DEF Poll, At, envVars, IndexOrder, Agreed, Turn, Quiet, Taken, OnOffer, Waiting, OneOwner
<1>2. CASE ShowFails
  BY <1>2, <1>0, NodeWrite DEF ShowFails, At, envVars, IndexOrder, Agreed, Turn, Quiet, Taken, OnOffer, Waiting, OneOwner
<1>3. CASE ShowInfo
  <2>1. /\ sps'.WriteData = sps.WriteData /\ sps'.ReadData = sps.ReadData
        /\ sps'.IndexData = sps.IndexData /\ sps'.ReadProjekt = sps.ReadProjekt
    BY <1>3, <1>0, <1>01 DEF ShowInfo, Nodes
  <2>. QED
    BY <1>3, <2>1 DEF ShowInfo, At, envVars, IndexOrder, Agreed, Turn, Quiet, Taken, OnOffer, Waiting, OneOwner
<1>4. CASE SecondName
  BY <1>0, <1>4 DEF SecondName, At, envVars, IndexOrder, Agreed, Turn, Quiet, Taken, OnOffer, Waiting, OneOwner
<1>6. CASE StartFlags
  BY <1>6, <1>0, NodeWrite DEF StartFlags, At, envVars, IndexOrder, Agreed, Turn, Quiet, Taken, OnOffer, Waiting, OneOwner
<1>7. CASE LoopHead
  BY <1>0, <1>7 DEF LoopHead, At, envVars, IndexOrder, Agreed, Turn, Quiet, Taken, OnOffer, Waiting, OneOwner
<1>8. CASE ClearAbort
  BY <1>8, <1>0, NodeWrite DEF ClearAbort, At, envVars, IndexOrder, Agreed, Turn, Quiet, Taken, OnOffer, Waiting, OneOwner
<1>9. CASE PollReadData
  BY <1>0, <1>9 DEF PollReadData, At, envVars, IndexOrder, Agreed, Turn, Quiet, Taken, OnOffer, Waiting, OneOwner
<1>10. CASE ClearReadData
  BY <1>10, <1>0, NodeWrite DEF ClearReadData, At, envVars, IndexOrder, Agreed, Turn, Quiet, Taken, OnOffer, Waiting, OneOwner
<1>11. CASE WriteIndex
  <2>1. /\ sps'.WriteData = sps.WriteData /\ sps'.ReadData = sps.ReadData
        /\ sps'.IndexData = cur + 1 /\ sps'.ReadProjekt = sps.ReadProjekt
    BY <1>11, <1>0, <1>01 DEF WriteIndex, Write, Nodes
  <2>. QED
    BY <1>11, <2>1 DEF WriteIndex, At, envVars, IndexOrder, Agreed, Turn, Quiet, Taken, OnOffer, Waiting, OneOwner
<1>12. CASE WriteBlock
  <2>1. /\ sps'.WriteData = sps.WriteData /\ sps'.ReadData = sps.ReadData
        /\ sps'.IndexData = sps.IndexData /\ sps'.ReadProjekt = sps.ReadProjekt
    BY <1>12, <1>01 DEF WriteBlock, Nodes
  <2>. QED
    BY <1>12, <2>1 DEF WriteBlock, At, envVars, IndexOrder, Agreed, Turn, Quiet, Taken, OnOffer, Waiting, OneOwner
<1>13. CASE BlockFails
  BY <1>0, <1>13 DEF BlockFails, At, envVars, IndexOrder, Agreed, Turn, Quiet, Taken, OnOffer, Waiting, OneOwner
<1>14. CASE Offer
  <2>1. /\ sps'.WriteData /\ sps'.ReadData = sps.ReadData
        /\ sps'.IndexData = sps.IndexData /\ sps'.ReadProjekt = sps.ReadProjekt
    BY <1>14, NodeWrite DEF Offer
  <2>2. pc' \in {"ack", "loop"} /\ pc = "offer" /\ cur' = cur + 1 /\ UNCHANGED envVars
    BY <1>14 DEF Offer, At
  <2>. QED
    BY <2>1, <2>2, <1>01 DEF envVars, IndexOrder, Agreed, Turn, Quiet, Taken, OnOffer, Waiting, OneOwner
<1>15. CASE AckWriteData
  BY <1>0, <1>15 DEF AckWriteData, At, envVars, IndexOrder, Agreed, Turn, Quiet, Taken, OnOffer, Waiting, OneOwner
<1>16. CASE AckReadData
  BY <1>0, <1>16 DEF AckReadData, At, envVars, IndexOrder, Agreed, Turn, Quiet, Taken, OnOffer, Waiting, OneOwner
<1>17. CASE AckClear
  BY <1>17, <1>0, NodeWrite DEF AckClear, At, envVars, IndexOrder, Agreed, Turn, Quiet, Taken, OnOffer, Waiting, OneOwner
<1>18. CASE EndFlags
  BY <1>18, <1>0, NodeWrite DEF EndFlags, At, envVars, IndexOrder, Agreed, Turn, Quiet, Taken, OnOffer, Waiting, OneOwner
<1>19. CASE ClearRequest
  BY <1>19, <1>0, NodeWrite DEF ClearRequest, At, envVars, IndexOrder, Agreed, Turn, Quiet, Taken, OnOffer, Waiting, OneOwner
<1>20. CASE Restart
  BY <1>0, <1>20 DEF Restart, At, envVars, IndexOrder, Agreed, Turn, Quiet, Taken, OnOffer, Waiting, OneOwner
<1>21. CASE PlcSees
  BY <1>21, <1>01 DEF PlcSees, PlcAt, PlcState, svcVars, IndexOrder, Agreed, Turn, Quiet, Taken, OnOffer, Waiting, OneOwner
<1>22. CASE PlcReadsIndex
  BY <1>22, <1>01 DEF PlcReadsIndex, PlcState, svcVars, IndexOrder, Agreed, Turn, Quiet, Taken, OnOffer, Waiting, OneOwner
<1>23. CASE PlcReadsBlock
  <2>. DEFINE blk == [index |-> plc.index, data |-> sps.DataArray]
  <2>1. blk \in Block /\ blk.index = plc.index
    BY <1>01 DEF Nodes, Block, PlcState
  <2>. HIDE DEF blk
  <2>2. received' = Append(received, blk)
    BY <1>23 DEF PlcReadsBlock, blk
  <2>3. /\ Len(received') = Len(received) + 1
        /\ \A k \in 1..Len(received) : received'[k] = received[k]
        /\ received'[Len(received) + 1] = blk
        /\ DOMAIN received' = 1..(Len(received) + 1) /\ DOMAIN received = 1..Len(received)
        /\ Len(received) \in Nat
    BY <1>01, <2>1, <2>2
  <2>4. IndexOrder'
    <3>1. plc.index = Len(received) + 1
      BY <1>23 DEF PlcReadsBlock, PlcAt, Agreed, Taken
    <3>. QED
      BY <2>1, <2>3, <3>1 DEF IndexOrder, Agreed
  <2>5. /\ plc.pc = "array" /\ plc'.pc = "clear" /\ UNCHANGED <<sps, pc, cur>>
    BY <1>23, <1>01 DEF PlcReadsBlock, PlcAt, PlcState, svcVars
  <2>. QED
    BY <2>3, <2>4, <2>5, <1>01 DEF Agreed, Turn, Quiet, Taken, OnOffer, Waiting, OneOwner
<1>24. CASE PlcClears
  <2>1. /\ ~sps'.WriteData /\ sps'.ReadData = sps.ReadData
        /\ sps'.IndexData = sps.IndexData /\ sps'.ReadProjekt = sps.ReadProjekt
    BY <1>24, <1>01 DEF PlcClears, Nodes
  <2>2. plc.pc = "clear" /\ plc'.pc = "request"
    BY <1>24, <1>01 DEF PlcClears, PlcAt, PlcState
  <2>. QED
    BY <1>24, <2>1, <2>2 DEF PlcClears, svcVars, IndexOrder, Agreed, Turn, Quiet, Taken, OnOffer, Waiting, OneOwner
<1>25. CASE PlcAsksNext
  <2>1. /\ sps'.ReadData /\ sps'.WriteData = sps.WriteData
        /\ sps'.IndexData = sps.IndexData /\ sps'.ReadProjekt = sps.ReadProjekt
    BY <1>25, <1>01 DEF PlcAsksNext, Nodes
  <2>2. plc.pc = "request" /\ plc'.pc = "idle"
    BY <1>25, <1>01 DEF PlcAsksNext, PlcAt, PlcState
  <2>. QED
    BY <1>25, <2>1, <2>2 DEF PlcAsksNext, svcVars, IndexOrder, Agreed, Turn, Quiet, Taken, OnOffer, Waiting, OneOwner
<1>26. CASE Environment
  <2>1. ASSUME NEW p \in Names, PlcRequests(p)
        PROVE  Agreed'
    <3>1. /\ sps'.WriteData = sps.WriteData /\ sps'.ReadData = sps.ReadData
          /\ sps'.IndexData = sps.IndexData
      BY <2>1, <1>01 DEF PlcRequests, Nodes
    <3>. QED
      BY <2>1, <3>1 DEF PlcRequests, svcVars, IndexOrder, Agreed, Turn, Quiet, Taken, OnOffer, Waiting, OneOwner
  <2>2. ASSUME NEW p \in Names, Rename(p)
        PROVE  Agreed'
    <3>1. /\ sps'.WriteData = sps.WriteData /\ sps'.ReadData = sps.ReadData
          /\ sps'.IndexData = sps.IndexData /\ sps'.ReadProjekt = sps.ReadProjekt
      BY <2>2, <1>01 DEF Rename, Nodes
    <3>. QED
      BY <2>2, <3>1 DEF Rename, svcVars, envVars, IndexOrder, Agreed, Turn, Quiet, Taken, OnOffer, Waiting, OneOwner
  <2>3. ASSUME NEW p \in Projects, NEW m \in Lengths, EditFile(p, m)
        PROVE  Agreed'
    BY <2>3 DEF EditFile, svcVars, IndexOrder, Agreed, Turn, Quiet, Taken, OnOffer, Waiting, OneOwner
  <2>4. CASE SetAbort
    <3>1. /\ sps'.WriteData = sps.WriteData /\ sps'.ReadData = sps.ReadData
          /\ sps'.IndexData = sps.IndexData /\ sps'.ReadProjekt = sps.ReadProjekt
      BY <2>4, <1>01 DEF SetAbort, Nodes
    <3>. QED
      BY <2>4, <3>1 DEF SetAbort, svcVars, envVars, IndexOrder, Agreed, Turn, Quiet, Taken, OnOffer, Waiting, OneOwner
  <2>5. CASE Crash
    BY <2>5 DEF Crash, envVars, IndexOrder, Agreed, Turn, Quiet, Taken, OnOffer, Waiting, OneOwner
  <2>. QED
    BY <1>26, <2>1, <2>2, <2>3, <2>4, <2>5 DEF Environment
<1>27. CASE UNCHANGED vars
  BY <1>27 DEF vars, svcVars, envVars, IndexOrder, Agreed, Turn, Quiet, Taken, OnOffer, Waiting, OneOwner
<1>. QED
  BY <1>1, <1>2, <1>3, <1>4, <1>6, <1>7, <1>8, <1>9, <1>10, <1>11, <1>12,
     <1>13, <1>14, <1>15, <1>16, <1>17, <1>18, <1>19, <1>20, <1>21, <1>22,
     <1>23, <1>24, <1>25, <1>26, <1>27
     DEF Next, Service, PlcHandshake

(* A transfer that was signalled leaves the PLC between two blocks.         *)
LEMMA PunctualStep ==
  ASSUME faults' = 0, TypeOK, Punctual, [Next]_vars
  PROVE  Punctual'
<1>. USE DEF Punctual, LateAfterCrashOnly
<1>0. ~Fault /\ \A n : Send(n) => sps' = n
  BY NoFault
<1>01. sps \in Nodes /\ plc \in PlcState
  BY DEF TypeOK
<1>1. CASE Poll \/ SecondName
  BY <1>1 DEF Poll, SecondName, At, envVars, Quiet, InTransfer, InLoop, Ending
<1>2. CASE ShowFails
  BY <1>2, NodeWrite DEF ShowFails, At, envVars, Quiet, InTransfer, InLoop, Ending
<1>3. CASE ShowInfo
  <2>1. sps'.WriteData = sps.WriteData
    BY <1>0, <1>01, <1>3 DEF ShowInfo, Nodes
  <2>. QED
    BY <1>3, <2>1 DEF ShowInfo, At, envVars, Quiet, InTransfer, InLoop, Ending
<1>4. CASE Prepare
  BY <1>4 DEF Prepare, At, Quiet
<1>5. CASE StartFlags \/ LoopHead \/ ClearAbort \/ PollReadData \/ ClearReadData \/ WriteIndex
           \/ WriteBlock \/ BlockFails \/ Offer \/ AckWriteData \/ AckReadData \/ AckClear
  <2>1. pc \in InTransfer /\ pc' \in InTransfer \cup {"endW"} /\ UNCHANGED <<late, died>>
    BY <1>5 DEF StartFlags, LoopHead, ClearAbort, PollReadData, ClearReadData, WriteIndex,
                WriteBlock, BlockFails, Offer, AckWriteData, AckReadData, AckClear, At,
                envVars, InTransfer, InLoop
  <2>. QED
    BY <2>1 DEF InTransfer, InLoop
<1>6. CASE EndFlags
  BY <1>6, NodeWrite DEF EndFlags, At, InTransfer, InLoop, Ending
<1>7. CASE ClearRequest
  BY <1>7, NodeWrite DEF ClearRequest, At, envVars, InTransfer, InLoop, Ending
<1>8. CASE Restart
  BY <1>8 DEF Restart, At, envVars, InTransfer, InLoop, Ending
<1>9. CASE PlcHandshake
  <2>1. UNCHANGED <<pc, late, died>> /\ sps'.ReadProjekt = sps.ReadProjekt
        /\ (sps'.WriteData => sps.WriteData)
    BY <1>01, <1>9 DEF PlcHandshake, PlcSees, PlcReadsIndex, PlcReadsBlock, PlcClears,
                       PlcAsksNext, svcVars, Nodes
  <2>2. ~sps.WriteData /\ plc.pc = "idle" => plc'.pc = "idle"
    BY <1>9 DEF PlcHandshake, PlcSees, PlcReadsIndex, PlcReadsBlock, PlcClears,
                PlcAsksNext, PlcAt
  <2>. QED
    BY <2>1, <2>2 DEF Quiet
<1>10. CASE Environment
  <2>1. ASSUME NEW p \in Names, PlcRequests(p)
        PROVE  Punctual'
    <3>1. sps'.WriteData = sps.WriteData /\ plc' = plc /\ plc.pc = "idle"
      BY <1>01, <2>1 DEF PlcRequests, Nodes
    <3>. QED
      BY <2>1, <3>1 DEF PlcRequests, svcVars, Quiet
  <2>2. ASSUME NEW p \in Names, Rename(p)
        PROVE  Punctual'
    <3>1. sps'.WriteData = sps.WriteData /\ sps'.ReadProjekt = sps.ReadProjekt
      BY <1>01, <2>2 DEF Rename, Nodes
    <3>. QED
      BY <2>2, <3>1 DEF Rename, svcVars, envVars, Quiet
  <2>3. ASSUME NEW p \in Projects, NEW m \in Lengths, EditFile(p, m)
        PROVE  Punctual'
    BY <2>3 DEF EditFile, svcVars, Quiet
  <2>4. CASE SetAbort
    <3>1. sps'.WriteData = sps.WriteData /\ sps'.ReadProjekt = sps.ReadProjekt
      BY <1>01, <2>4 DEF SetAbort, Nodes
    <3>. QED
      BY <2>4, <3>1 DEF SetAbort, svcVars, envVars, Quiet
  <2>5. CASE Crash
    BY <2>5 DEF Crash, InTransfer, InLoop, Ending
  <2>. QED
    BY <1>10, <2>1, <2>2, <2>3, <2>4, <2>5 DEF Environment
<1>11. CASE UNCHANGED vars
  BY <1>11 DEF vars, svcVars, envVars, Quiet
<1>. QED
  BY <1>1, <1>2, <1>3, <1>4, <1>5, <1>6, <1>7, <1>8, <1>9, <1>10, <1>11
     DEF Next, Service

(* A transfer that finds the PLC between two blocks begins in agreement.    *)
LEMMA AgreedStarts ==
  ASSUME faults' = 0, TypeOK, Prepare, ~late'
  PROVE  Agreed'
<1>1. Quiet
  BY DEF Prepare
<1>2. sps'.WriteData = sps.WriteData /\ plc' = plc
  BY NoFault DEF Prepare, TypeOK, Nodes
<1>3. received' = <<>> /\ cur' = 0 /\ pc' = "startW"
  BY DEF Prepare, At
<1>. QED
  BY <1>1, <1>2, <1>3
     DEF Agreed, Turn, Quiet, Taken, OnOffer, Waiting, OneOwner, IndexOrder

(* The mark of a late transfer changes only when a transfer begins.         *)
LEMMA LateKept ==
  ASSUME [Next]_vars, ~Prepare
  PROVE  late' = late
<1>1. Service => late' = late
  BY DEF Service, Poll, ShowFails, ShowInfo, SecondName, StartFlags, LoopHead, ClearAbort,
         PollReadData, ClearReadData, WriteIndex, WriteBlock, BlockFails, Offer,
         AckWriteData, AckReadData, AckClear, EndFlags, ClearRequest, Restart, envVars
<1>2. PlcHandshake \/ UNCHANGED vars => late' = late
  BY DEF PlcHandshake, PlcSees, PlcReadsIndex, PlcReadsBlock, PlcClears, PlcAsksNext,
         vars, envVars
<1>3. Environment => late' = late
  BY DEF Environment, PlcRequests, Rename, EditFile, SetAbort, Crash, envVars
<1>. QED
  BY <1>1, <1>2, <1>3 DEF Next

(* One step of anybody keeps the handshake.                                 *)
LEMMA HandshakeStep ==
  ASSUME faults' = 0, TypeOK, HandshakeInv, [Next]_vars
  PROVE  HandshakeInv'
BY PunctualStep, AgreedStep, AgreedStarts, LateKept DEF HandshakeInv

(* The initial state of the handshake: nothing on offer, nothing taken.     *)
LEMMA HandshakeInit == Init => HandshakeInv
BY DEF Init, HandshakeInv, Punctual, LateAfterCrashOnly, Agreed, Turn, Quiet, Taken,
       OnOffer, Waiting, OneOwner, IndexOrder

(* Until a call fails, service, nodes and PLC agree on whose turn it is, for *)
(* every interleaving, edit, rename, abort, timeout and crash.               *)
THEOREM HandshakeUntilFault == Spec => [](faults = 0 => HandshakeInv)
<1>1. Init => (faults = 0 => HandshakeInv)
  BY HandshakeInit
<1>2. TypeOK /\ (faults = 0 => HandshakeInv) /\ [Next]_vars
        => (faults = 0 => HandshakeInv)'
  BY FaultsGrow, HandshakeStep
<1>. QED
  BY <1>1, <1>2, TypeCorrect, PTL DEF Spec

(* Without calls that fail, in every reachable state.                       *)
THEOREM HandshakeCorrect ==
  ASSUME MaxFaults = 0
  PROVE  Spec => []HandshakeInv
<1>1. TypeOK => faults = 0
  BY DEF TypeOK
<1>. QED
  BY <1>1, HandshakeUntilFault, TypeCorrect, PTL

(* WriteData and ReadData are never set together: a block has one owner,    *)
(* except in a transfer that is late, and after it until the next.          *)
THEOREM OneOwnerCorrect ==
  ASSUME MaxFaults = 0
  PROVE  Spec => [](~late => OneOwner)
<1>1. HandshakeInv => (~late => OneOwner)
  BY DEF HandshakeInv, Agreed
<1>. QED
  BY <1>1, HandshakeCorrect, PTL

(* The PLC takes the blocks of a transfer in the order 1, 2, 3, ..., unless *)
(* the transfer is late.                                                    *)
THEOREM IndexOrderCorrect ==
  ASSUME MaxFaults = 0
  PROVE  Spec => [](~late => IndexOrder)
<1>1. HandshakeInv => (~late => IndexOrder)
  BY DEF HandshakeInv, Agreed
<1>. QED
  BY <1>1, HandshakeCorrect, PTL

(* A transfer is late only if the process has died since the end of one was *)
(* last signalled: a crash spoils one transfer, and no timeout, abort or    *)
(* lost link spoils any.                                                    *)
THEOREM LateAfterCrashOnlyHolds ==
  ASSUME MaxFaults = 0
  PROVE  Spec => []LateAfterCrashOnly
<1>1. HandshakeInv => LateAfterCrashOnly
  BY DEF HandshakeInv, Punctual
<1>. QED
  BY <1>1, HandshakeCorrect, PTL

(* As long as the process does not die and no call fails no transfer is     *)
(* late, and everything promised of the others is promised of all.          *)
THEOREM NeverLateWithoutCrash ==
  ASSUME "crash" \notin Disturb
  PROVE  Spec => [](faults = 0 => ~late)
<1>. DEFINE Alive == faults = 0 => ~died /\ ~late
<1>1. Init => Alive
  BY DEF Init
<1>2. TypeOK /\ (faults = 0 => HandshakeInv) /\ Alive /\ [Next]_vars => Alive'
  <2>. SUFFICES ASSUME TypeOK, HandshakeInv, ~died, ~late, [Next]_vars
                PROVE  ~died' /\ ~late'
    BY FaultsGrow
  <2>1. ~late'
    <3>1. CASE Prepare
      BY <3>1 DEF Prepare, At, HandshakeInv, Punctual
    <3>. QED
      BY <3>1, LateKept
  <2>2. ~died'
    <3>1. Service => ~died'
      BY DEF Service, Poll, ShowFails, ShowInfo, SecondName, Prepare, StartFlags, LoopHead,
             ClearAbort, PollReadData, ClearReadData, WriteIndex, WriteBlock, BlockFails,
             Offer, AckWriteData, AckReadData, AckClear, EndFlags, ClearRequest, Restart,
             envVars
    <3>2. PlcHandshake \/ UNCHANGED vars => died' = died
      BY DEF PlcHandshake, PlcSees, PlcReadsIndex, PlcReadsBlock, PlcClears, PlcAsksNext,
             vars, envVars
    <3>3. Environment => died' = died
      BY DEF Environment, PlcRequests, Rename, EditFile, SetAbort, Crash, envVars
    <3>. QED
      BY <3>1, <3>2, <3>3 DEF Next
  <2>. QED
    BY <2>1, <2>2
<1>. QED
  BY <1>1, <1>2, TypeCorrect, HandshakeUntilFault, PTL DEF Spec

(* The array is written by writeDataBlockToSPS and by nothing else.         *)
LEMMA OnlyWriteBlock ==
  ASSUME TypeOK, [Next]_vars, faults' = 0, sps'.DataArray # sps.DataArray
  PROVE  WriteBlock
<1>1. sps \in Nodes
  BY DEF TypeOK
<1>2. \A n : Send(n) => sps' = n
  BY NoFault
<1>. USE <1>1, <1>2 DEF Write
<1>3. ~Poll /\ ~SecondName /\ ~LoopHead /\ ~PollReadData /\ ~BlockFails
      /\ ~AckWriteData /\ ~AckReadData /\ ~Restart
  BY DEF Poll, SecondName, LoopHead, PollReadData, BlockFails, AckWriteData, AckReadData,
         Restart, envVars
<1>4. \A node \in {"ProjektVorhanden", "WriteData", "ReadData", "UebertgarungBeendet",
                   "ubertragenAbbrechen", "ReadProjekt", "IndexData"} :
        \A v : sps' # [sps EXCEPT ![node] = v]
  BY DEF Nodes
<1>5. ~ShowFails /\ ~StartFlags /\ ~ClearAbort /\ ~ClearReadData /\ ~WriteIndex /\ ~Offer
      /\ ~AckClear /\ ~EndFlags /\ ~ClearRequest
  BY <1>4 DEF ShowFails, StartFlags, ClearAbort, ClearReadData, WriteIndex, Offer, AckClear,
              EndFlags, ClearRequest
<1>6. ~ShowInfo /\ ~Prepare
  BY DEF ShowInfo, Prepare, Nodes
<1>7. ~PlcHandshake
  BY <1>4 DEF PlcHandshake, PlcSees, PlcReadsIndex, PlcReadsBlock, PlcClears, PlcAsksNext
<1>8. ~Environment
  BY DEF Environment, PlcRequests, Rename, EditFile, SetAbort, Crash, Nodes
<1>9. sps' # sps
  OBVIOUS
<1>. QED
  BY <1>3, <1>5, <1>6, <1>7, <1>8, <1>9 DEF Next, Service, vars

(* DataArray changes only while no block is on offer or being fetched,      *)
(* unless the transfer is late.                                             *)
THEOREM NoOverwriteCorrect ==
  ASSUME MaxFaults = 0
  PROVE  Spec => NoOverwrite
<1>. DEFINE Safe == ~late /\ sps'.DataArray # sps.DataArray =>
                      ~sps.WriteData /\ plc.pc \notin {"index", "array", "clear"}
<1>1. TypeOK /\ HandshakeInv /\ [Next]_vars /\ TypeOK' => [Safe]_vars
  <2>. SUFFICES ASSUME TypeOK, HandshakeInv, [Next]_vars, TypeOK', ~late,
                       sps'.DataArray # sps.DataArray
                PROVE  ~sps.WriteData /\ plc.pc \notin {"index", "array", "clear"}
    OBVIOUS
  <2>1. faults' = 0
    BY DEF TypeOK
  <2>. QED
    BY <2>1, OnlyWriteBlock DEF HandshakeInv, Agreed, Quiet, WriteBlock, At
<1>. QED
  BY <1>1, TypeCorrect, HandshakeCorrect, PTL DEF Spec, NoOverwrite

(* How far a transfer has come; an acknowledged end means all was taken.    *)
LEMMA ProgressStep ==
  ASSUME faults' = 0, TypeOK, HandshakeInv, ProgressInv, [Next]_vars
  PROVE  ProgressInv'
<1>0. ~Fault /\ \A n : Send(n) => sps' = n
  BY NoFault
<1>01. /\ sps \in Nodes /\ plc \in PlcState /\ received \in Seq(Block)
       /\ cur \in Nat /\ anz \in Nat /\ records \in Nat
  BY TransferAssumption DEF TypeOK, ServiceOK
<1>1. CASE Poll
  BY <1>1, <1>0, <1>01 DEF Poll, At, envVars, ProgressInv, Taken, InTransfer, InLoop, Ending
<1>2. CASE ShowFails
  BY <1>2, <1>0, <1>01, NodeWrite DEF ShowFails, At, envVars, ProgressInv, Taken, InTransfer, InLoop, Ending
<1>3. CASE ShowInfo
  <2>1. sps.ProjektName \in Projects
    BY <1>3, <1>01 DEF ShowInfo, Found, Names, Nodes
  <2>2. file[sps.ProjektName] \in 0..MaxRecords
    BY <1>3, <2>1 DEF ShowInfo, Found, Lengths, Missing, TypeOK
  <2>3. outcome # "ok" /\ UNCHANGED outcome
    BY <1>3 DEF ShowInfo, At, ProgressInv, Taken, InTransfer, InLoop, Ending
  <2>4. pc' = "name2" => records' > 0
    BY <1>3, <2>2, TransferAssumption DEF ShowInfo, At
  <2>5. pc' \in {"name2", "clear"}
    BY <1>3 DEF ShowInfo, At
  <2>. QED
    BY <2>3, <2>4, <2>5 DEF ProgressInv, Taken, InTransfer, InLoop, Ending
<1>4. CASE SecondName
  BY <1>4, <1>0, <1>01 DEF SecondName, At, envVars, ProgressInv, Taken, InTransfer, InLoop, Ending
<1>5. CASE Prepare
  <2>1. BlockCount(records) \in Nat /\ BlockCount(records) > 0
    BY <1>5, <1>01, BlockCountType DEF Prepare, At, ProgressInv
  <2>2. pc' = "startW" /\ cur' = 0 /\ anz' > 0 /\ pc = "prepare" /\ UNCHANGED outcome
    BY <1>5, <2>1 DEF Prepare, At
  <2>. QED
    BY <2>2 DEF ProgressInv, Taken, InTransfer, InLoop, Ending
<1>6. CASE StartFlags
  BY <1>6, <1>0, <1>01, NodeWrite DEF StartFlags, At, envVars, ProgressInv, Taken, InTransfer, InLoop, Ending
<1>7. CASE LoopHead
  BY <1>7, <1>0, <1>01 DEF LoopHead, At, envVars, ProgressInv, Taken, InTransfer, InLoop, Ending
<1>8. CASE ClearAbort
  BY <1>8, <1>0, <1>01, NodeWrite DEF ClearAbort, At, envVars, ProgressInv, Taken, InTransfer, InLoop, Ending
<1>9. CASE PollReadData
  BY <1>9, <1>0, <1>01 DEF PollReadData, At, envVars, ProgressInv, Taken, InTransfer, InLoop, Ending
<1>10. CASE ClearReadData
  BY <1>10, <1>0, <1>01, NodeWrite DEF ClearReadData, At, envVars, ProgressInv, Taken, InTransfer, InLoop, Ending
<1>11. CASE WriteIndex
  BY <1>11, <1>0, <1>01 DEF WriteIndex, At, envVars, ProgressInv, Taken, InTransfer, InLoop, Ending
<1>12. CASE WriteBlock
  BY <1>12, <1>0, <1>01 DEF WriteBlock, At, envVars, ProgressInv, Taken, InTransfer, InLoop, Ending
<1>13. CASE BlockFails
  BY <1>13, <1>0, <1>01 DEF BlockFails, At, envVars, ProgressInv, Taken, InTransfer, InLoop, Ending
<1>14. CASE Offer
  BY <1>14, <1>0, <1>01 DEF Offer, At, envVars, ProgressInv, Taken, InTransfer, InLoop, Ending
<1>15. CASE AckWriteData
  BY <1>15, <1>0, <1>01 DEF AckWriteData, At, envVars, ProgressInv, Taken, InTransfer, InLoop, Ending, HandshakeInv, Agreed, Turn, Waiting
<1>16. CASE AckReadData
  BY <1>16, <1>0, <1>01 DEF AckReadData, At, envVars, ProgressInv, Taken, InTransfer, InLoop, Ending, HandshakeInv, Agreed, Turn, Waiting
<1>17. CASE AckClear
  BY <1>17, <1>0, <1>01, NodeWrite DEF AckClear, At, envVars, ProgressInv, Taken, InTransfer, InLoop, Ending, HandshakeInv, Agreed, Turn, Waiting
<1>18. CASE EndFlags
  BY <1>18, <1>0, <1>01, NodeWrite DEF EndFlags, At, envVars, ProgressInv, Taken, InTransfer, InLoop, Ending
<1>19. CASE ClearRequest
  BY <1>19, <1>0, <1>01, NodeWrite DEF ClearRequest, At, envVars, ProgressInv, Taken, InTransfer, InLoop, Ending
<1>20. CASE Restart
  BY <1>20, <1>0, <1>01 DEF Restart, At, envVars, ProgressInv, Taken, InTransfer, InLoop, Ending
<1>21. CASE PlcSees
  BY <1>21, <1>01 DEF PlcSees, PlcAt, PlcState, svcVars, ProgressInv, Taken, InTransfer, InLoop, Ending
<1>22. CASE PlcReadsIndex
  BY <1>22, <1>01 DEF PlcReadsIndex, PlcState, svcVars, ProgressInv, Taken, InTransfer, InLoop, Ending
<1>23. CASE PlcReadsBlock
  BY <1>23, <1>01 DEF PlcReadsBlock, PlcAt, PlcState, svcVars, ProgressInv, Taken, InTransfer, InLoop, Ending
<1>24. CASE PlcClears
  BY <1>24, <1>01 DEF PlcClears, PlcAt, PlcState, svcVars, ProgressInv, Taken, InTransfer, InLoop, Ending
<1>25. CASE PlcAsksNext
  <2>1. sps'.WriteData = sps.WriteData
    BY <1>25, <1>01 DEF PlcAsksNext, Nodes
  <2>2. plc'.pc = "idle"
    BY <1>25, <1>01 DEF PlcAsksNext, PlcAt, PlcState
  <2>. QED
    BY <1>25, <2>1, <2>2 DEF PlcAsksNext, svcVars, ProgressInv, Taken, InTransfer, InLoop, Ending
<1>26. CASE Environment
  <2>1. ASSUME NEW p \in Names, PlcRequests(p) \/ Rename(p)
        PROVE  ProgressInv'
    <3>1. sps'.WriteData = sps.WriteData
      BY <2>1, <1>01 DEF PlcRequests, Rename, Nodes
    <3>. QED
      BY <2>1, <3>1 DEF PlcRequests, Rename, svcVars, envVars, ProgressInv, Taken, InTransfer, InLoop, Ending
  <2>2. ASSUME NEW p \in Projects, NEW m \in Lengths, EditFile(p, m)
        PROVE  ProgressInv'
    BY <2>2 DEF EditFile, svcVars, ProgressInv, Taken, InTransfer, InLoop, Ending
  <2>3. CASE SetAbort
    <3>1. sps'.WriteData = sps.WriteData
      BY <2>3, <1>01 DEF SetAbort, Nodes
    <3>. QED
      BY <2>3, <3>1 DEF SetAbort, svcVars, envVars, ProgressInv, Taken, InTransfer, InLoop, Ending
  <2>4. CASE Crash
    BY <2>4 DEF Crash, envVars, ProgressInv, Taken, InTransfer, InLoop, Ending
  <2>. QED
    BY <1>26, <2>1, <2>2, <2>3, <2>4 DEF Environment
<1>27. CASE UNCHANGED vars
  BY <1>27 DEF vars, svcVars, envVars, ProgressInv, Taken, InTransfer, InLoop, Ending
<1>. QED
  BY <1>1, <1>2, <1>3, <1>4, <1>5, <1>6, <1>7, <1>8, <1>9, <1>10, <1>11, <1>12,
     <1>13, <1>14, <1>15, <1>16, <1>17, <1>18, <1>19, <1>20, <1>21, <1>22,
     <1>23, <1>24, <1>25, <1>26, <1>27
     DEF Next, Service, PlcHandshake

(* currentBlock stays below anzBlocke while blocks are sent, equals it once  *)
(* the acknowledgement is awaited, and an acknowledged end has all taken    *)
(* unless the transfer is late.                                             *)
THEOREM ProgressUntilFault == Spec => [](faults = 0 => ProgressInv)
<1>1. Init => ProgressInv
  BY DEF Init, ProgressInv, InTransfer, InLoop
<1>2. TypeOK /\ (faults = 0 => HandshakeInv) /\ (faults = 0 => ProgressInv) /\ [Next]_vars
        => (faults = 0 => ProgressInv)'
  BY FaultsGrow, ProgressStep
<1>. QED
  BY <1>1, <1>2, TypeCorrect, HandshakeUntilFault, PTL DEF Spec

THEOREM ProgressCorrect ==
  ASSUME MaxFaults = 0
  PROVE  Spec => []ProgressInv
<1>1. TypeOK => faults = 0
  BY DEF TypeOK
<1>. QED
  BY <1>1, ProgressUntilFault, TypeCorrect, PTL

(* Until a call fails, whatever the operator does to names, files and the   *)
(* abort bit: blocks in order, and an acknowledged end delivered, in every  *)
(* transfer that is not late.                                               *)
THEOREM InOrderUntilFaultHolds == Spec => []InOrderUntilFault
<1>1. (faults = 0 => HandshakeInv) /\ (faults = 0 => ProgressInv) => InOrderUntilFault
  BY DEF InOrderUntilFault, HandshakeInv, Agreed, ProgressInv, CompleteMeansDelivered, Taken
<1>. QED
  BY <1>1, HandshakeUntilFault, ProgressUntilFault, PTL

(* An acknowledged last block means that the PLC has taken every block,     *)
(* unless the transfer is late.                                             *)
THEOREM CompleteCorrect ==
  ASSUME MaxFaults = 0
  PROVE  Spec => []CompleteMeansDelivered
<1>1. ProgressInv => CompleteMeansDelivered
  BY DEF ProgressInv, CompleteMeansDelivered, Taken
<1>. QED
  BY <1>1, ProgressCorrect, PTL

(***************************************************************************)
(* The request and what is sent for it.  The PLC asks again only when it   *)
(* has seen ReadProjekt cleared (AskWhen = "cleared"); with names and      *)
(* files that stay as they are during a transfer the announced file is     *)
(* the one that arrives.                                                   *)
(***************************************************************************)

(* A write, failed or not, leaves the other nodes alone.                    *)
LEMMA OtherNodes ==
  ASSUME sps \in Nodes
  PROVE  \A node \in {"ProjektVorhanden", "WriteData", "ReadData", "UebertgarungBeendet",
                      "ubertragenAbbrechen", "IndexData"} :
           \A v : Write(node, v) => /\ sps'.ReadProjekt = sps.ReadProjekt
                                    /\ sps'.ProjektName = sps.ProjektName
BY DEF Write, Send, Nodes

(* Only ClearRequest takes the request away, and nobody but the PLC and the *)
(* operator selects a project.                                              *)
LEMMA ServiceKeepsRequest ==
  ASSUME TypeOK, Service
  PROVE  /\ sps'.ReadProjekt = sps.ReadProjekt \/ ClearRequest
         /\ sps'.ProjektName = sps.ProjektName
         /\ pending' = pending \/ Poll
         /\ file' = file
<1>1. sps \in Nodes
  BY DEF TypeOK
<1>2. file' = file /\ (pending' = pending \/ Poll)
  BY DEF Service, Poll, ShowFails, ShowInfo, SecondName, Prepare, StartFlags, LoopHead,
         ClearAbort, PollReadData, ClearReadData, WriteIndex, WriteBlock, BlockFails, Offer,
         AckWriteData, AckReadData, AckClear, EndFlags, ClearRequest, Restart, envVars
<1>3. CASE UNCHANGED sps
  BY <1>2, <1>3
<1>4. CASE ShowFails \/ StartFlags \/ ClearAbort \/ ClearReadData \/ WriteIndex \/ Offer
           \/ AckClear \/ EndFlags
  BY <1>1, <1>2, <1>4, OtherNodes
     DEF ShowFails, StartFlags, ClearAbort, ClearReadData, WriteIndex, Offer, AckClear, EndFlags
<1>5. CASE ShowInfo \/ Prepare \/ WriteBlock \/ ClearRequest
  BY <1>1, <1>2, <1>5 DEF ShowInfo, Prepare, WriteBlock, ClearRequest, Write, Send, Nodes
<1>6. Poll \/ SecondName \/ LoopHead \/ PollReadData \/ BlockFails \/ AckWriteData
        \/ AckReadData \/ Restart => UNCHANGED sps
  BY DEF Poll, SecondName, LoopHead, PollReadData, BlockFails, AckWriteData, AckReadData, Restart
<1>. QED
  BY <1>3, <1>4, <1>5, <1>6 DEF Service

(* Where the thread is before a step and after it.                          *)
LEMMA ServiceMoves ==
  ASSUME Service
  PROVE  /\ pc # "down" \/ pc' = "poll"
         /\ pc = "poll" => Poll
         /\ ClearRequest => pc = "clear" /\ pc' = "poll"
         /\ Poll => pc = "poll" /\ pc' = "name" /\ sps.ReadProjekt /\ ~pending'
BY DEF Service, Poll, ShowFails, ShowInfo, SecondName, Prepare, StartFlags, LoopHead,
       ClearAbort, PollReadData, ClearReadData, WriteIndex, WriteBlock, BlockFails, Offer,
       AckWriteData, AckReadData, AckClear, EndFlags, ClearRequest, Restart, At

LEMMA RequestStep ==
  ASSUME AskWhen = "cleared", TypeOK, RequestInv, [Next]_vars
  PROVE  RequestInv'
<1>1. sps \in Nodes /\ pending \in BOOLEAN
  BY DEF TypeOK
<1>2. CASE Service
  BY <1>1, <1>2, ServiceKeepsRequest, ServiceMoves DEF RequestInv, NoRequestLost
<1>3. CASE PlcHandshake
  <2>1. UNCHANGED <<pc, pending>> /\ sps'.ReadProjekt = sps.ReadProjekt
    BY <1>1, <1>3 DEF PlcHandshake, PlcSees, PlcReadsIndex, PlcReadsBlock, PlcClears,
                      PlcAsksNext, svcVars, Nodes
  <2>. QED
    BY <2>1 DEF RequestInv, NoRequestLost
<1>4. ASSUME NEW p \in Names, PlcRequests(p)
      PROVE  RequestInv'
  <2>1. ~sps.ReadProjekt /\ sps'.ReadProjekt /\ pc' = pc
    BY <1>1, <1>4 DEF PlcRequests, svcVars, Nodes
  <2>. QED
    BY <2>1 DEF RequestInv, NoRequestLost
<1>5. ASSUME NEW p \in Names, Rename(p)
      PROVE  RequestInv'
  <2>1. UNCHANGED <<pc, pending>> /\ sps'.ReadProjekt = sps.ReadProjekt
    BY <1>1, <1>5 DEF Rename, svcVars, envVars, Nodes
  <2>. QED
    BY <2>1 DEF RequestInv, NoRequestLost
<1>6. ASSUME NEW p \in Projects, NEW n \in Lengths, EditFile(p, n)
      PROVE  RequestInv'
  BY <1>6 DEF EditFile, svcVars, RequestInv, NoRequestLost
<1>7. CASE SetAbort \/ Crash
  <2>1. pending' = pending /\ sps'.ReadProjekt = sps.ReadProjekt /\ pc' \in {pc, "down"}
    BY <1>1, <1>7 DEF SetAbort, Crash, svcVars, envVars, Nodes
  <2>. QED
    BY <2>1 DEF RequestInv, NoRequestLost
<1>8. CASE UNCHANGED vars
  BY <1>8 DEF vars, svcVars, envVars, RequestInv, NoRequestLost
<1>. QED
  BY <1>2, <1>3, <1>4, <1>5, <1>6, <1>7, <1>8 DEF Next, Environment

(* No request is lost between the poll and the reset of its bit, whatever   *)
(* calls fail and wherever the process dies.                                *)
THEOREM RequestKept ==
  ASSUME AskWhen = "cleared"
  PROVE  Spec => []RequestInv
<1>1. Init => RequestInv
  BY DEF Init, RequestInv, NoRequestLost
<1>2. TypeOK /\ RequestInv /\ [Next]_vars => RequestInv'
  BY RequestStep
<1>. QED
  BY <1>1, <1>2, TypeCorrect, PTL DEF Spec

THEOREM NoRequestLostHolds ==
  ASSUME AskWhen = "cleared"
  PROVE  Spec => []NoRequestLost
<1>1. RequestInv => NoRequestLost
  BY DEF RequestInv
<1>. QED
  BY <1>1, RequestKept, PTL

(* The ceiling division of transferProjectData: the blocks hold every       *)
(* record, and one block fewer would not.                                   *)
LEMMA BlockCountFits ==
  ASSUME NEW n \in Nat, n > 0
  PROVE  (BlockCount(n) - 1) * LenDataArray < n /\ n <= BlockCount(n) * LenDataArray
<1>. DEFINE x == n + LenDataArray - 1
            q == x \div LenDataArray
<1>1. LenDataArray \in Nat /\ LenDataArray > 0 /\ x \in Nat
  BY TransferAssumption
<1>. HIDE DEF x
<1>2. q \in Int /\ q * LenDataArray <= x /\ x < (q + 1) * LenDataArray
  BY <1>1
<1>. HIDE DEF q
<1>3. /\ (q - 1) * LenDataArray = q * LenDataArray - LenDataArray
      /\ (q + 1) * LenDataArray = q * LenDataArray + LenDataArray
      /\ q * LenDataArray \in Int
  BY <1>1, <1>2
<1>4. x = n + LenDataArray - 1
  BY DEF x
<1>5. (q - 1) * LenDataArray < n /\ n <= q * LenDataArray
  BY <1>1, <1>2, <1>3, <1>4
<1>. QED
  BY <1>5 DEF q, x, BlockCount

(* The file that has been announced is the one that is sent.                *)
LEMMA SelectionStep ==
  ASSUME AskWhen = "cleared", "edit" \notin Disturb, "rename" \notin Disturb,
         TypeOK, RequestInv, SelectionInv, [Next]_vars
  PROVE  SelectionInv'
<1>. DEFINE Same == /\ UNCHANGED <<file, records, proj, anz>>
                    /\ pc' \in {"prepare"} \cup InTransfer \cup Ending =>
                         pc \in {"prepare"} \cup InTransfer \cup Ending
                    /\ pc' \in InTransfer \cup Ending => pc \in InTransfer \cup Ending
                    /\ pc' = "name2" => pc = "name2" /\ sps'.ProjektName = sps.ProjektName
<1>0. Same => SelectionInv'
  BY DEF SelectionInv, Found
<1>1. sps \in Nodes /\ file \in [Projects -> Lengths] /\ records \in Nat
  BY TransferAssumption DEF TypeOK, ServiceOK
<1>2. CASE ShowInfo
  <2>1. sps'.ProjektName = sps.ProjektName /\ file' = file
    BY <1>2, ServiceKeepsRequest DEF Service
  <2>2. sps.ProjektName \in Projects /\ file[sps.ProjektName] \in Nat
    BY <1>1, <1>2 DEF ShowInfo, Found, Names, Nodes, Lengths, Missing
  <2>3. pc' = "name2" => records' > 0
    BY <1>2, <2>2 DEF ShowInfo, At
  <2>4. pc' \in {"name2", "clear"} /\ records' = file[sps.ProjektName] /\ Found(sps.ProjektName)
    BY <1>2 DEF ShowInfo, At
  <2>. QED
    BY <2>1, <2>3, <2>4 DEF SelectionInv, Found, InTransfer, InLoop, Ending
<1>3. CASE SecondName
  <2>1. pc = "name2" /\ pc' \in {"prepare", "clear"} /\ UNCHANGED <<file, records, anz>>
    BY <1>3 DEF SecondName, envVars
  <2>2. pc' = "prepare" => proj' = sps.ProjektName /\ Found(sps.ProjektName)
    BY <1>3 DEF SecondName
  <2>3. Found(sps.ProjektName) => sps.ProjektName \in Projects
    BY <1>1 DEF Found, Names, Nodes
  <2>. QED
    BY <2>1, <2>2, <2>3 DEF SelectionInv, InTransfer, InLoop, Ending
<1>4. CASE Prepare
  BY <1>4 DEF Prepare, At, SelectionInv, InTransfer, InLoop, Ending
<1>5. CASE Poll \/ ShowFails \/ StartFlags \/ LoopHead \/ ClearAbort \/ PollReadData
           \/ ClearReadData \/ WriteIndex \/ WriteBlock \/ BlockFails \/ Offer
           \/ AckWriteData \/ AckReadData \/ AckClear \/ EndFlags \/ ClearRequest \/ Restart
  <2>1. UNCHANGED <<file, records, proj, anz>> /\ pc' # "name2"
    BY <1>5 DEF Poll, ShowFails, StartFlags, LoopHead, ClearAbort, PollReadData, ClearReadData,
                WriteIndex, WriteBlock, BlockFails, Offer, AckWriteData, AckReadData, AckClear,
                EndFlags, ClearRequest, Restart, At, envVars
  <2>2. /\ pc' \in InTransfer \cup Ending => pc \in InTransfer \cup Ending
        /\ pc' # "prepare"
    BY <1>5 DEF Poll, ShowFails, StartFlags, LoopHead, ClearAbort, PollReadData, ClearReadData,
                WriteIndex, WriteBlock, BlockFails, Offer, AckWriteData, AckReadData, AckClear,
                EndFlags, ClearRequest, Restart, At, InTransfer, InLoop, Ending
  <2>. QED
    BY <1>0, <2>1, <2>2
<1>6. CASE PlcHandshake
  <2>1. UNCHANGED <<file, records, proj, anz, pc>> /\ sps'.ProjektName = sps.ProjektName
    BY <1>1, <1>6 DEF PlcHandshake, PlcSees, PlcReadsIndex, PlcReadsBlock, PlcClears,
                      PlcAsksNext, svcVars, Nodes
  <2>. QED
    BY <1>0, <2>1
<1>7. ASSUME NEW p \in Names, PlcRequests(p) \/ Rename(p)
      PROVE  Same
  <2>1. pc = "poll" \/ pc = "down"
    BY <1>7 DEF PlcRequests, Rename, RequestInv
  <2>2. UNCHANGED <<file, records, proj, anz, pc>>
    BY <1>7 DEF PlcRequests, Rename, svcVars, envVars
  <2>. QED
    BY <2>1, <2>2
<1>8. CASE SetAbort \/ Crash
  <2>1. UNCHANGED <<file, records, proj, anz>> /\ sps'.ProjektName = sps.ProjektName
        /\ pc' \in {pc, "down"}
    BY <1>1, <1>8 DEF SetAbort, Crash, svcVars, envVars, Nodes
  <2>. QED
    BY <1>0, <2>1 DEF InTransfer, InLoop, Ending
<1>9. CASE UNCHANGED vars
  <2>1. Same
    BY <1>9 DEF vars, svcVars, envVars
  <2>. QED
    BY <1>0, <2>1
<1>10. Environment => Same \/ SetAbort \/ Crash
  BY <1>7 DEF Environment, EditFile
<1>. HIDE DEF Same
<1>. QED
  BY <1>0, <1>2, <1>3, <1>4, <1>5, <1>6, <1>8, <1>9, <1>10 DEF Next, Service

THEOREM SelectionKept ==
  ASSUME AskWhen = "cleared", "edit" \notin Disturb, "rename" \notin Disturb
  PROVE  Spec => []SelectionInv
<1>1. Init => SelectionInv
  BY DEF Init, SelectionInv, InTransfer, InLoop, Ending
<1>2. TypeOK /\ RequestInv /\ SelectionInv /\ [Next]_vars => SelectionInv'
  BY SelectionStep
<1>. QED
  BY <1>1, <1>2, TypeCorrect, RequestKept, PTL DEF Spec

(* The announced blocks hold every record of the file, and one fewer would  *)
(* not, whatever calls fail and wherever the process dies.                  *)
THEOREM AnnouncedFitsHolds ==
  ASSUME AskWhen = "cleared", "edit" \notin Disturb, "rename" \notin Disturb
  PROVE  Spec => []AnnouncedFits
<1>1. TypeOK /\ SelectionInv => AnnouncedFits
  <2>. SUFFICES ASSUME TypeOK, SelectionInv, pc \in InTransfer
                PROVE  (anz - 1) * LenDataArray < file[proj] /\ file[proj] <= anz * LenDataArray
    BY DEF AnnouncedFits
  <2>1. records = file[proj] /\ records > 0 /\ anz = BlockCount(records)
    BY DEF SelectionInv
  <2>2. records \in Nat
    BY TransferAssumption DEF TypeOK, ServiceOK
  <2>3. (BlockCount(records) - 1) * LenDataArray < records
        /\ records <= BlockCount(records) * LenDataArray
    BY <2>1, <2>2, BlockCountFits
  <2>. QED
    BY <2>1, <2>3
<1>. QED
  BY <1>1, TypeCorrect, SelectionKept, PTL

(* The rows of the block on offer and of the blocks taken stay what they    *)
(* are in every step but three: a new transfer, the array written, a block  *)
(* read.                                                                    *)
LEMMA RowsStay ==
  ASSUME RowsInv, UNCHANGED <<records, proj, received>>, sps'.DataArray = sps.DataArray,
         late' = late,
         pc' \in InTransfer \cup Ending => pc \in InTransfer \cup Ending,
         ~late /\ pc' \in InTransfer \cup Ending /\ (OnOffer' \/ pc' = "offer") =>
           OnOffer \/ pc = "offer"
  PROVE  RowsInv'
BY DEF RowsInv, RowsInOrder, Taken

(* What is on offer after a step was on offer before, or has just been      *)
(* offered.                                                                 *)
LEMMA OfferedBefore ==
  ASSUME TypeOK, Agreed, [Next]_vars, faults' = 0, ~Offer, OnOffer'
  PROVE  OnOffer
<1>1. sps \in Nodes /\ plc \in PlcState
  BY DEF TypeOK
<1>2. \A n : Send(n) => sps' = n
  BY NoFault
<1>3. CASE Service
  <2>1. plc' = plc
    BY <1>3 DEF Service, Poll, ShowFails, ShowInfo, SecondName, Prepare, StartFlags, LoopHead,
           ClearAbort, PollReadData, ClearReadData, WriteIndex, WriteBlock, BlockFails, Offer,
           AckWriteData, AckReadData, AckClear, EndFlags, ClearRequest, Restart, envVars
  <2>2. CASE ShowFails \/ StartFlags \/ ClearAbort \/ ClearReadData \/ AckClear \/ EndFlags
             \/ ClearRequest
    BY <2>1, <2>2, NodeWrite
       DEF ShowFails, StartFlags, ClearAbort, ClearReadData, AckClear, EndFlags,
           ClearRequest, OnOffer
  <2>3. CASE ShowInfo \/ Prepare \/ WriteBlock \/ WriteIndex
    <3>1. sps'.WriteData = sps.WriteData
      BY <1>1, <1>2, <2>3 DEF ShowInfo, Prepare, WriteBlock, WriteIndex, Write, Nodes
    <3>. QED
      BY <2>1, <3>1 DEF OnOffer
  <2>4. CASE UNCHANGED sps
    BY <2>1, <2>4 DEF OnOffer
  <2>5. Poll \/ SecondName \/ LoopHead \/ PollReadData \/ BlockFails \/ AckWriteData
          \/ AckReadData \/ Restart => UNCHANGED sps
    BY DEF Poll, SecondName, LoopHead, PollReadData, BlockFails, AckWriteData, AckReadData, Restart
  <2>. QED
    BY <1>3, <2>2, <2>3, <2>4, <2>5 DEF Service
<1>4. CASE PlcHandshake
  <2>1. CASE PlcSees \/ PlcReadsIndex
    BY <1>1, <2>1 DEF PlcSees, PlcReadsIndex, PlcAt, PlcState, OnOffer
  <2>2. CASE PlcReadsBlock \/ PlcClears
    BY <1>1, <2>2 DEF PlcReadsBlock, PlcClears, PlcAt, PlcState, OnOffer
  <2>3. CASE PlcAsksNext
    <3>1. plc.pc = "request" /\ plc'.pc = "idle" /\ sps'.WriteData = sps.WriteData
      BY <1>1, <2>3 DEF PlcAsksNext, PlcAt, PlcState, Nodes
    <3>. QED
      BY <3>1 DEF OnOffer, Agreed
  <2>. QED
    BY <1>4, <2>1, <2>2, <2>3 DEF PlcHandshake
<1>5. CASE Environment
  <2>1. plc' = plc /\ sps'.WriteData = sps.WriteData
    BY <1>1, <1>5 DEF Environment, PlcRequests, Rename, EditFile, SetAbort, Crash, envVars, Nodes
  <2>. QED
    BY <2>1 DEF OnOffer
<1>6. CASE UNCHANGED vars
  BY <1>6 DEF vars, envVars, OnOffer
<1>. QED
  BY <1>3, <1>4, <1>5, <1>6 DEF Next

(* readDataBlock and writeStringArray put the rows of block cur, counted    *)
(* from 0, where the PLC looks for them.                                    *)
LEMMA BlockWritten ==
  ASSUME TypeOK, Agreed, SelectionInv, WriteBlock,
         NEW i \in 1..LenDataArray, Taken * LenDataArray + i <= records
  PROVE  sps'.DataArray[i] = [proj |-> proj, row |-> Taken * LenDataArray + i]
<1>. DEFINE k == RowsIn(cur, file[proj])
<1>1. /\ pc = "data" /\ k <= ArrayLen /\ file[proj] = records
      /\ sps' = [sps EXCEPT !.DataArray = Patched(@, proj, cur, k)]
  BY DEF WriteBlock, At, SelectionInv, InTransfer, InLoop
<1>2. Taken = cur /\ cur \in Nat /\ records \in Nat /\ ArrayLen \in Nat /\ LenDataArray \in Nat
  BY <1>1, TransferAssumption DEF Agreed, TypeOK, ServiceOK
<1>3. FirstRow(cur) \in Nat /\ FirstRow(cur) = Taken * LenDataArray
  BY <1>2 DEF FirstRow
<1>4. i <= k
  BY <1>1, <1>2, <1>3 DEF RowsIn
<1>5. k \in Int
  BY <1>1, <1>2, <1>3 DEF RowsIn
<1>. HIDE DEF k
<1>6. i \in 1..ArrayLen
  BY <1>1, <1>2, <1>4, <1>5
<1>7. sps'.DataArray = Patched(sps.DataArray, proj, cur, k)
  <2>1. sps \in Nodes
    BY DEF TypeOK
  <2>. QED
    BY <1>1, <2>1 DEF Nodes
<1>. QED
  BY <1>3, <1>4, <1>6, <1>7 DEF Patched

(* Until a call fails, the rows of a block are right when it is offered and *)
(* still right when the PLC reads them.                                     *)
LEMMA RowsStep ==
  ASSUME faults' = 0, TypeOK, HandshakeInv, SelectionInv, RowsInv, [Next]_vars
  PROVE  RowsInv'
<1>. SUFFICES ASSUME ~late'
              PROVE  RowsInv'
  BY DEF RowsInv, RowsInOrder
<1>0. Prepare \/ (~late /\ late' = late /\ Agreed)
  BY LateKept DEF HandshakeInv
<1>1. /\ sps \in Nodes /\ plc \in PlcState /\ received \in Seq(Block)
      /\ Len(received) \in Nat /\ DOMAIN received = 1..Len(received)
  BY DEF TypeOK
<1>2. CASE Prepare
  <2>1. received' = <<>> /\ pc' = "startW" /\ plc' = plc /\ Quiet
    BY <1>2 DEF Prepare, At
  <2>2. sps'.WriteData = sps.WriteData
    BY <1>1, <1>2, NoFault DEF Prepare, Nodes
  <2>3. ~OnOffer'
    BY <2>1, <2>2 DEF Quiet, OnOffer
  <2>. QED
    BY <2>1, <2>3 DEF RowsInv, RowsInOrder
<1>3. CASE WriteBlock
  <2>1. UNCHANGED <<records, proj, received>> /\ pc = "data"
    BY <1>3 DEF WriteBlock, At, envVars
  <2>2. Taken' = Taken /\ RowsInOrder'
    BY <1>0, <2>1 DEF Prepare, At, Taken, RowsInv, RowsInOrder, InTransfer, InLoop
  <2>. QED
    BY <1>0, <1>3, <2>1, <2>2, BlockWritten DEF Prepare, At, RowsInv
<1>4. CASE PlcReadsBlock /\ ~Prepare
  <2>. DEFINE blk == [index |-> plc.index, data |-> sps.DataArray]
  <2>1. blk \in Block /\ blk.data = sps.DataArray
    BY <1>1 DEF Nodes, Block, PlcState
  <2>. HIDE DEF blk
  <2>2. received' = Append(received, blk)
    BY <1>4 DEF PlcReadsBlock, blk
  <2>3. /\ \A n \in 1..Len(received) : received'[n] = received[n]
        /\ received'[Len(received) + 1] = blk
        /\ DOMAIN received' = 1..(Len(received) + 1)
    BY <1>1, <2>1, <2>2
  <2>4. UNCHANGED <<pc, records, proj, sps>> /\ OnOffer /\ ~OnOffer'
    BY <1>1, <1>4 DEF PlcReadsBlock, PlcAt, PlcState, OnOffer, svcVars
  <2>5. pc # "offer"
    BY <1>0, <1>4 DEF PlcReadsBlock, PlcAt, Agreed, Quiet
  <2>6. ASSUME pc \in InTransfer \cup Ending, NEW n \in DOMAIN received',
               NEW i \in 1..LenDataArray, (n - 1) * LenDataArray + i <= records
        PROVE  received'[n].data[i] = [proj |-> proj, row |-> (n - 1) * LenDataArray + i]
    <3>1. CASE n \in DOMAIN received
      BY <1>0, <1>1, <1>4, <2>3, <2>6, <3>1 DEF RowsInv, RowsInOrder
    <3>2. CASE n = Len(received) + 1
      <4>1. n - 1 = Taken
        BY <1>1, <3>2 DEF Taken
      <4>. QED
        BY <1>0, <1>4, <2>1, <2>3, <2>4, <2>6, <3>2, <4>1 DEF RowsInv
    <3>. QED
      BY <1>1, <2>3, <3>1, <3>2
  <2>7. RowsInOrder'
    BY <2>4, <2>6 DEF RowsInOrder
  <2>. QED
    BY <2>4, <2>5, <2>7 DEF RowsInv
<1>5. CASE ~Prepare /\ ~WriteBlock /\ ~PlcReadsBlock
  <2>1. sps'.DataArray = sps.DataArray
    BY <1>5, OnlyWriteBlock
  <2>2. CASE ShowInfo \/ SecondName
    <3>1. pc' \in {"clear", "name2", "prepare"}
      BY <2>2 DEF ShowInfo, SecondName, At
    <3>. QED
      BY <3>1 DEF RowsInv, RowsInOrder, InTransfer, InLoop, Ending
  <2>3. CASE Offer
    <3>1. pc = "offer" /\ UNCHANGED <<records, proj, received>>
      BY <2>3 DEF Offer, At, envVars
    <3>. QED
      BY <1>0, <1>5, <2>1, <3>1, RowsStay DEF InTransfer, InLoop
  <2>4. CASE ~ShowInfo /\ ~SecondName /\ ~Offer
    <3>1. CASE Service
      <4>1. /\ UNCHANGED <<records, proj, received>> /\ pc' # "offer"
            /\ pc' \in InTransfer \cup Ending => pc \in InTransfer \cup Ending
        BY <1>5, <2>4, <3>1
           DEF Service, Poll, ShowFails, StartFlags, LoopHead, ClearAbort, PollReadData,
               ClearReadData, WriteIndex, BlockFails, AckWriteData, AckReadData, AckClear,
               EndFlags, ClearRequest, Restart, At, envVars, InTransfer, InLoop, Ending
      <4>. QED
        BY <1>0, <1>5, <2>1, <2>4, <4>1, OfferedBefore, RowsStay
    <3>2. CASE PlcHandshake \/ Environment \/ UNCHANGED vars
      <4>1. UNCHANGED <<records, proj, received>> /\ pc' \in {pc, "down"}
        BY <1>5, <3>2
           DEF PlcHandshake, PlcSees, PlcReadsIndex, PlcClears, PlcAsksNext, Environment,
               PlcRequests, Rename, EditFile, SetAbort, Crash, svcVars, envVars, vars
      <4>2. pc' \in InTransfer \cup Ending \/ pc' = "offer" => pc' = pc
        BY <4>1 DEF InTransfer, InLoop, Ending
      <4>. QED
        BY <1>0, <1>5, <2>1, <2>4, <4>1, <4>2, OfferedBefore, RowsStay
    <3>. QED
      BY <3>1, <3>2 DEF Next
  <2>. QED
    BY <2>2, <2>3, <2>4
<1>. QED
  BY <1>2, <1>3, <1>4, <1>5

(* Until a call fails, every element inside LenProjekt that the PLC takes   *)
(* is the record of the selected file at that position, whatever aborts,    *)
(* timeouts and crashes come in between, unless the transfer is late.       *)
THEOREM RowsUntilFault ==
  ASSUME AskWhen = "cleared", "edit" \notin Disturb, "rename" \notin Disturb
  PROVE  Spec => [](faults = 0 => RowsInv)
<1>1. Init => RowsInv
  BY DEF Init, RowsInv, RowsInOrder, InTransfer, InLoop, Ending
<1>2. TypeOK /\ (faults = 0 => HandshakeInv) /\ SelectionInv /\ (faults = 0 => RowsInv)
        /\ [Next]_vars => (faults = 0 => RowsInv)'
  BY FaultsGrow, RowsStep
<1>. QED
  BY <1>1, <1>2, TypeCorrect, HandshakeUntilFault, SelectionKept, PTL DEF Spec

THEOREM RowsInOrderHolds ==
  ASSUME MaxFaults = 0, AskWhen = "cleared", "edit" \notin Disturb, "rename" \notin Disturb
  PROVE  Spec => []RowsInOrder
<1>1. TypeOK /\ (faults = 0 => RowsInv) => RowsInOrder
  BY DEF TypeOK, RowsInv
<1>. QED
  BY <1>1, TypeCorrect, RowsUntilFault, PTL

(* When the service ends a transfer as acknowledged, the PLC has every      *)
(* record of the file, each in the element its block and row stand for,     *)
(* unless the transfer is late.                                             *)
FileDelivered ==
  ~late /\ outcome = "ok" /\ pc \in Ending =>
    \A row \in 1..records : \E n \in DOMAIN received, i \in 1..LenDataArray :
      /\ row = (n - 1) * LenDataArray + i
      /\ received[n].data[i] = [proj |-> proj, row |-> row]

THEOREM FileDeliveredHolds ==
  ASSUME AskWhen = "cleared", "edit" \notin Disturb, "rename" \notin Disturb
  PROVE  Spec => [](faults = 0 => FileDelivered)
<1>1. ASSUME TypeOK, ProgressInv, SelectionInv, RowsInOrder, ~late, outcome = "ok",
             pc \in Ending, NEW row \in 1..records
      PROVE  \E n \in DOMAIN received, i \in 1..LenDataArray :
               /\ row = (n - 1) * LenDataArray + i
               /\ received[n].data[i] = [proj |-> proj, row |-> row]
  <2>. DEFINE q == (row - 1) \div LenDataArray
  <2>1. /\ LenDataArray \in Nat /\ LenDataArray > 0 /\ records \in Nat /\ row - 1 \in Nat
        /\ received \in Seq(Block) /\ row <= records
    BY <1>1, TransferAssumption DEF TypeOK, ServiceOK
  <2>2. q \in Int /\ q * LenDataArray <= row - 1 /\ row - 1 < (q + 1) * LenDataArray
    BY <2>1
  <2>. HIDE DEF q
  <2>3. (q + 1) * LenDataArray = q * LenDataArray + LenDataArray /\ q * LenDataArray \in Int
    BY <2>1, <2>2
  <2>4. Len(received) = anz /\ anz = BlockCount(records) /\ anz \in Nat
    BY <1>1 DEF ProgressInv, SelectionInv, Taken, TypeOK, ServiceOK
  <2>5. row <= anz * LenDataArray
    BY <1>1, <2>1, <2>4, BlockCountFits DEF SelectionInv
  <2>6. q >= 0 /\ q < anz
    <3>1. ASSUME q < 0 PROVE FALSE
      <4>1. (q + 1) * LenDataArray <= 0
        BY <2>1, <2>2, <3>1
      <4>. QED
        BY <2>1, <2>2, <4>1
    <3>2. ASSUME anz <= q PROVE FALSE
      <4>1. anz * LenDataArray <= q * LenDataArray
        BY <2>1, <2>2, <2>4, <3>2
      <4>. QED
        BY <2>1, <2>2, <2>3, <2>4, <2>5, <4>1
    <3>. QED
      BY <2>2, <2>4, <3>1, <3>2
  <2>7. q + 1 \in DOMAIN received /\ (q + 1) - 1 = q
    BY <2>1, <2>2, <2>4, <2>6
  <2>8. row - q * LenDataArray \in 1..LenDataArray
    BY <2>1, <2>2, <2>3
  <2>9. q * LenDataArray + (row - q * LenDataArray) = row
    BY <2>1, <2>3
  <2>10. received[q + 1].data[row - q * LenDataArray] = [proj |-> proj, row |-> row]
    BY <1>1, <2>1, <2>7, <2>8, <2>9 DEF RowsInOrder
  <2>. QED
    BY <2>7, <2>8, <2>9, <2>10
<1>2. TypeOK /\ (faults = 0 => ProgressInv) /\ SelectionInv /\ (faults = 0 => RowsInv)
        => (faults = 0 => FileDelivered)
  BY <1>1 DEF FileDelivered, RowsInv
<1>. QED
  BY <1>2, TypeCorrect, ProgressUntilFault, SelectionKept, RowsUntilFault, PTL

(***************************************************************************)
(* The end of a transfer.  "outcome" says what has stopped it.             *)
(***************************************************************************)

Unstopped == {"name", "name2", "prepare", "startW", "startR", "startF", "ack", "ackR"}
               \cup InLoop

\* Whoever waits at "clear" for the request to be taken back has been through
\* the end flags if his transfer had begun.
EndSignalled ==
  faults = 0 /\ pc = "clear" /\ outcome # "none" => sps.UebertgarungBeendet

EndInv ==
  /\ pc \in Unstopped => outcome = "none"
  /\ pc \in Ending \cup {"abort", "ackC"} => outcome # "none"
  /\ EndSignalled

(* Only the flags of a transfer's start and end move UebertgarungBeendet.   *)
LEMMA FlagKept ==
  ASSUME TypeOK, [Next]_vars
  PROVE  sps'.UebertgarungBeendet = sps.UebertgarungBeendet \/ StartFlags \/ EndFlags
<1>1. sps \in Nodes
  BY DEF TypeOK
<1>2. \A node \in {"ProjektVorhanden", "ReadData", "WriteData", "ubertragenAbbrechen",
                   "IndexData", "ReadProjekt"} :
        \A v : Write(node, v) => sps'.UebertgarungBeendet = sps.UebertgarungBeendet
  BY <1>1 DEF Write, Send, Nodes
<1>3. CASE UNCHANGED sps
  BY <1>3
<1>4. CASE ShowFails \/ ClearAbort \/ ClearReadData \/ WriteIndex \/ Offer \/ AckClear
           \/ ClearRequest
  BY <1>2, <1>4 DEF ShowFails, ClearAbort, ClearReadData, WriteIndex, Offer, AckClear,
                    ClearRequest
<1>5. CASE ShowInfo \/ Prepare \/ WriteBlock
  BY <1>1, <1>5 DEF ShowInfo, Prepare, WriteBlock, Send, Nodes
<1>6. CASE PlcHandshake
  BY <1>1, <1>6 DEF PlcHandshake, PlcSees, PlcReadsIndex, PlcReadsBlock, PlcClears,
                    PlcAsksNext, Nodes
<1>7. CASE Environment
  <2>1. ASSUME NEW p \in Names, PlcRequests(p) \/ Rename(p)
        PROVE  sps'.UebertgarungBeendet = sps.UebertgarungBeendet
    BY <1>1, <2>1 DEF PlcRequests, Rename, Nodes
  <2>2. ASSUME NEW p \in Projects, NEW n \in Lengths, EditFile(p, n)
        PROVE  sps' = sps
    BY <2>2 DEF EditFile
  <2>3. SetAbort \/ Crash => sps'.UebertgarungBeendet = sps.UebertgarungBeendet
    BY <1>1 DEF SetAbort, Crash, Nodes
  <2>. QED
    BY <1>7, <2>1, <2>2, <2>3 DEF Environment
<1>8. Poll \/ SecondName \/ LoopHead \/ PollReadData \/ BlockFails \/ AckWriteData
        \/ AckReadData \/ Restart \/ UNCHANGED vars => UNCHANGED sps
  BY DEF Poll, SecondName, LoopHead, PollReadData, BlockFails, AckWriteData, AckReadData,
         Restart, vars
<1>. QED
  BY <1>3, <1>4, <1>5, <1>6, <1>7, <1>8 DEF Next, Service

(* Everybody but the service leaves the thread where it is, or kills it.    *)
LEMMA OthersLeave ==
  ASSUME [Next]_vars, ~Service
  PROVE  UNCHANGED <<pc, outcome>> \/ (pc' = "down" /\ outcome' = "none")
<1>1. PlcHandshake \/ SetAbort \/ UNCHANGED vars => UNCHANGED <<pc, outcome>>
  BY DEF PlcHandshake, PlcSees, PlcReadsIndex, PlcReadsBlock, PlcClears, PlcAsksNext,
         SetAbort, svcVars, vars
<1>2. ASSUME NEW p \in Names, PlcRequests(p) \/ Rename(p)
      PROVE  UNCHANGED <<pc, outcome>>
  BY <1>2 DEF PlcRequests, Rename, svcVars
<1>3. ASSUME NEW p \in Projects, NEW n \in Lengths, EditFile(p, n)
      PROVE  UNCHANGED <<pc, outcome>>
  BY <1>3 DEF EditFile, svcVars
<1>4. Crash => pc' = "down" /\ outcome' = "none"
  BY DEF Crash
<1>. QED
  BY <1>1, <1>2, <1>3, <1>4 DEF Next, Environment

(* One step keeps it: others, the service before the end flags, the flags.  *)
LEMMA EndStep ==
  ASSUME TypeOK, EndInv, [Next]_vars
  PROVE  EndInv'
<1>1. CASE ~Service
  <2>1. ~StartFlags /\ ~EndFlags
    BY <1>1 DEF Service
  <2>. QED
    BY <1>1, <2>1, OthersLeave, FlagKept, FaultsGrow
       DEF EndInv, EndSignalled, Unstopped, InLoop, Ending
<1>2. CASE Service /\ ~EndFlags
  <2>1. (pc' = "clear" => outcome' = "none")
    BY <1>2 DEF Service, Poll, ShowFails, ShowInfo, SecondName, Prepare, StartFlags,
         LoopHead, ClearAbort, PollReadData, ClearReadData, WriteIndex, WriteBlock,
         BlockFails, Offer, AckWriteData, AckReadData, AckClear, ClearRequest, Restart,
         At, EndInv, Unstopped
  <2>2. pc' \in Unstopped => outcome' = "none"
    BY <1>2 DEF Service, Poll, ShowFails, ShowInfo, SecondName, Prepare, StartFlags,
         LoopHead, ClearAbort, PollReadData, ClearReadData, WriteIndex, WriteBlock,
         BlockFails, Offer, AckWriteData, AckReadData, AckClear, ClearRequest, Restart,
         At, EndInv, Unstopped, InLoop
  <2>3. pc' \in Ending \cup {"abort", "ackC"} => outcome' # "none"
    BY <1>2 DEF Service, Poll, ShowFails, ShowInfo, SecondName, Prepare, StartFlags,
         LoopHead, ClearAbort, PollReadData, ClearReadData, WriteIndex, WriteBlock,
         BlockFails, Offer, AckWriteData, AckReadData, AckClear, ClearRequest, Restart,
         At, EndInv, Ending
  <2>. QED
    BY <2>1, <2>2, <2>3 DEF EndInv, EndSignalled
<1>3. CASE EndFlags
  <2>1. outcome' = outcome /\ pc \in Ending /\ pc' \in Ending \cup {"clear"}
    BY <1>3 DEF EndFlags, At, Ending, Write, Send
  <2>2. ASSUME faults' = 0, pc' = "clear" PROVE sps'.UebertgarungBeendet
    <3>. DEFINE nodes == [sps EXCEPT !["UebertgarungBeendet"] = TRUE]
    <3>1. Send(nodes)
      BY <1>3, <2>2 DEF EndFlags, At, Write
    <3>. HIDE DEF nodes
    <3>2. sps' = nodes
      BY <2>2, <3>1, NoFault
    <3>. QED
      BY <3>2 DEF nodes, TypeOK, Nodes
  <2>. QED
    BY <2>1, <2>2 DEF EndInv, EndSignalled, Ending, Unstopped, InLoop
<1>. QED
  BY <1>1, <1>2, <1>3

(* Whatever has stopped a transfer that had begun (acknowledged or not, a    *)
(* timeout, an abort, a failed block, a lost link): when the request is     *)
(* about to be taken back, UebertgarungBeendet stands, unless a call failed.*)
THEOREM EndSignalledHolds == Spec => []EndSignalled
<1>1. Init => EndInv
  BY DEF Init, EndInv, EndSignalled, Unstopped, InLoop, Ending
<1>2. TypeOK /\ EndInv /\ [Next]_vars => EndInv'
  BY EndStep
<1>3. EndInv => EndSignalled
  BY DEF EndInv
<1>. QED
  BY <1>1, <1>2, <1>3, TypeCorrect, PTL DEF Spec

(***************************************************************************)
(* The handshake implements BlockDelivery.                                 *)
(***************************************************************************)

(* What the PLC has taken and what is on offer are numbers.                 *)
LEMMA OfferedType ==
  TypeOK => OfferedNo \in Nat /\ TakenNos \in Seq(Nat) /\ Len(TakenNos) = Taken /\ Taken \in Nat
<1>. SUFFICES ASSUME TypeOK
              PROVE  OfferedNo \in Nat /\ TakenNos \in Seq(Nat) /\ Len(TakenNos) = Taken
                     /\ Taken \in Nat
  OBVIOUS
<1>1. sps.IndexData \in Nat /\ plc.index \in Nat /\ received \in Seq(Block)
  BY DEF TypeOK, Nodes, PlcState
<1>2. \A k \in DOMAIN received : received[k].index \in Nat
  <2>1. \A k \in 1..Len(received) : received[k] \in Block
    BY <1>1, ElementOfSeq
  <2>. QED
    BY <1>1, <2>1 DEF Block
<1>3. TakenNos \in Seq(Nat) /\ Len(TakenNos) = Len(received)
  BY <1>1, <1>2 DEF TakenNos
<1>4. OfferedNo \in Nat
  BY <1>1 DEF OfferedNo
<1>. QED
  BY <1>1, <1>3, <1>4 DEF Taken

(* The block on offer is the successor of the last one taken.               *)
LEMMA OfferedIsNext ==
  Agreed => OfferedNo = IF OnOffer THEN Taken + 1 ELSE 0
BY DEF OfferedNo, Agreed

(* Both, of the state after a step.                                         *)
LEMMA OfferedAfter ==
  /\ TypeOK' => OfferedNo' \in Nat /\ TakenNos' \in Seq(Nat)
  /\ Agreed' => OfferedNo' = IF OnOffer' THEN Taken' + 1 ELSE 0
<1>1. TypeOK' => (OfferedNo \in Nat /\ TakenNos \in Seq(Nat))'
  BY OfferedType, PTL
<1>2. Agreed' => (OfferedNo = IF OnOffer THEN Taken + 1 ELSE 0)'
  BY OfferedIsNext, PTL
<1>. QED
  BY <1>1, <1>2

(* A transfer begins: late or not, as Prepare has found the PLC.            *)
LEMMA DeliveryStarts ==
  ASSUME MaxFaults = 0, TypeOK, ProgressInv, Prepare, TypeOK'
  PROVE  Delivery!Next
<1>1. sps \in Nodes /\ sps' \in Nodes /\ records \in Nat /\ faults' = 0
  BY TransferAssumption DEF TypeOK, ServiceOK
<1>2. ~Running /\ Running' /\ TakenNos' = <<>> /\ late' = ~Quiet /\ plc' = plc
  BY DEF Prepare, At, Running, InTransfer, InLoop, TakenNos
<1>3. anz' \in Nat \ {0}
  BY <1>1, BlockCountType DEF Prepare, At, ProgressInv
<1>4. sps'.WriteData = sps.WriteData
  BY <1>1, NoFault DEF Prepare, Nodes
<1>5. CASE Quiet
  <2>1. OfferedNo = 0 /\ OfferedNo' = 0
    BY <1>2, <1>4, <1>5 DEF Quiet, OfferedNo, OnOffer
  <2>. QED
    BY <1>2, <1>3, <1>5, <2>1 DEF Delivery!Start, Delivery!Next
<1>6. CASE ~Quiet
  BY <1>2, <1>3, <1>6, OfferedAfter DEF Delivery!StartLate, Delivery!Next
<1>. QED
  BY <1>5, <1>6

(* What ends a transfer leaves the offer and the blocks taken as they are.  *)
LEMMA DeliveryEnds ==
  ASSUME MaxFaults = 0, TypeOK, [Next]_vars, ~Prepare, TypeOK'
  PROVE  /\ anz' = anz
         /\ Running' # Running =>
              Running /\ ~Running' /\ OfferedNo' = OfferedNo /\ TakenNos' = TakenNos
<1>1. faults' = 0 /\ sps \in Nodes
  BY DEF TypeOK
<1>2. CASE LoopHead \/ ClearAbort \/ BlockFails \/ AckWriteData \/ AckReadData \/ AckClear
           \/ Crash
  <2>1. UNCHANGED <<anz, received, plc>> /\ sps'.WriteData = sps.WriteData
        /\ sps'.IndexData = sps.IndexData
    BY <1>1, <1>2, NodeWrite
       DEF LoopHead, ClearAbort, BlockFails, AckWriteData, AckReadData, AckClear, Crash, envVars
  <2>2. OfferedNo' = OfferedNo /\ TakenNos' = TakenNos
    BY <2>1 DEF OfferedNo, OnOffer, TakenNos
  <2>3. Running' => Running
    BY <1>2 DEF LoopHead, ClearAbort, BlockFails, AckWriteData, AckReadData, AckClear, Crash,
                At, Running, InTransfer, InLoop
  <2>. QED
    BY <2>1, <2>2, <2>3 DEF Running
<1>3. CASE Poll \/ ShowFails \/ ShowInfo \/ SecondName \/ StartFlags \/ PollReadData
           \/ ClearReadData \/ WriteIndex \/ WriteBlock \/ Offer \/ EndFlags
           \/ ClearRequest \/ Restart
  <2>1. anz' = anz
    BY <1>3 DEF Poll, ShowFails, ShowInfo, SecondName, StartFlags, PollReadData,
                ClearReadData, WriteIndex, WriteBlock, Offer, EndFlags, ClearRequest, Restart
  <2>2. Running' <=> Running
    BY <1>3 DEF Poll, ShowFails, ShowInfo, SecondName, StartFlags, PollReadData,
                ClearReadData, WriteIndex, WriteBlock, Offer, EndFlags, ClearRequest, Restart,
                At, Running, InTransfer, InLoop
  <2>. QED
    BY <2>1, <2>2 DEF Running
<1>4. CASE PlcHandshake \/ UNCHANGED vars
  BY <1>4 DEF PlcHandshake, PlcSees, PlcReadsIndex, PlcReadsBlock, PlcClears, PlcAsksNext,
              vars, svcVars, Running
<1>5. CASE Environment /\ ~Crash
  BY <1>5 DEF Environment, PlcRequests, Rename, EditFile, SetAbort, svcVars, Running
<1>. QED
  BY <1>2, <1>3, <1>4, <1>5 DEF Next, Service

(* Steps that leave the offer, the blocks taken and the transfer as they    *)
(* are: polling, flags the PLC has no part in, names, files.                *)
LEMMA DeliveryStutter ==
  ASSUME Agreed, Agreed', UNCHANGED <<anz, received, late>>, OnOffer' = OnOffer,
         Running' = Running
  PROVE  UNCHANGED Delivery!vars
<1>1. Taken' = Taken /\ TakenNos' = TakenNos
  BY DEF Taken, TakenNos
<1>. QED
  BY <1>1, OfferedIsNext, OfferedAfter DEF Delivery!vars

(* A step of a transfer that is not late, or of the time after it.          *)
LEMMA DeliveryOnTime ==
  ASSUME MaxFaults = 0, TypeOK, Agreed, ProgressInv, [Next]_vars, ~Prepare, late' = late,
         TypeOK', Agreed'
  PROVE  [Delivery!Next]_(Delivery!vars)
<1>. DEFINE Same == /\ UNCHANGED <<anz, received>>
                    /\ OnOffer' = OnOffer /\ Running' = Running
<1>0. Same => UNCHANGED Delivery!vars
  BY DeliveryStutter
<1>00. faults' = 0
  BY DEF TypeOK
<1>01. ~Fault /\ \A n : Send(n) => sps' = n
  BY <1>00, NoFault
<1>02. sps \in Nodes /\ plc \in PlcState /\ received \in Seq(Block)
       /\ cur \in Nat /\ anz \in Nat /\ records \in Nat
  BY TransferAssumption DEF TypeOK, ServiceOK
<1>03. /\ OfferedNo = IF OnOffer THEN Taken + 1 ELSE 0
       /\ Len(TakenNos) = Taken /\ Taken \in Nat
       /\ OfferedNo' = IF OnOffer' THEN Taken' + 1 ELSE 0
  BY OfferedType, OfferedIsNext, OfferedAfter
<1>1. CASE Poll \/ SecondName \/ PollReadData \/ Restart
  <2>1. Same
    BY <1>1 DEF Poll, SecondName, PollReadData, Restart, At, envVars, OnOffer, Running,
                InTransfer, InLoop
  <2>. QED
    BY <1>0, <2>1
<1>2. CASE ShowFails \/ ShowInfo \/ StartFlags \/ ClearReadData \/ WriteIndex
           \/ WriteBlock \/ ClearRequest
  <2>1. sps'.WriteData = sps.WriteData \/ (~sps.WriteData /\ ~sps'.WriteData)
    BY <1>01, <1>02, <1>2, <1>00, NodeWrite
       DEF ShowFails, ShowInfo, StartFlags, ClearReadData, WriteIndex, WriteBlock,
           ClearRequest, Write, Nodes, At, Agreed, Quiet
  <2>2. UNCHANGED <<anz, received, plc>>
    BY <1>2 DEF ShowFails, ShowInfo, StartFlags, ClearReadData, WriteIndex,
                WriteBlock, ClearRequest, envVars
  <2>3. Running' <=> Running
    BY <1>2 DEF ShowFails, ShowInfo, StartFlags, ClearReadData, WriteIndex,
                WriteBlock, ClearRequest, At, Running, InTransfer, InLoop
  <2>4. Same
    BY <1>02, <2>1, <2>2, <2>3 DEF OnOffer, Nodes
  <2>. QED
    BY <1>0, <2>4
<1>4. CASE LoopHead \/ ClearAbort \/ BlockFails \/ AckWriteData \/ AckReadData \/ AckClear \/ Crash
  <2>1. UNCHANGED <<anz, received, plc>> /\ sps'.WriteData = sps.WriteData
    BY <1>01, <1>4, <1>00, NodeWrite DEF LoopHead, ClearAbort, BlockFails, AckWriteData, AckReadData, AckClear,
                                  Crash, envVars
  <2>2. CASE Running' = Running
    BY <1>0, <2>1, <2>2 DEF OnOffer
  <2>3. CASE Running' # Running
    BY <2>3, DeliveryEnds DEF Delivery!End, Delivery!Next
  <2>. QED
    BY <2>2, <2>3
<1>5. CASE Offer
  <2>1. sps'.WriteData /\ plc.pc = "idle" /\ ~OnOffer /\ Taken < anz
        /\ UNCHANGED <<anz, received, plc>>
    BY <1>02, <1>5, <1>00, NodeWrite
       DEF Offer, At, envVars, Agreed, Quiet, OnOffer, ProgressInv, InTransfer, InLoop
  <2>2. OnOffer' /\ Taken' = Taken /\ TakenNos' = TakenNos
    BY <2>1 DEF OnOffer, Taken, TakenNos
  <2>3. Running /\ Running' = Running
    BY <1>5 DEF Offer, At, Running, InTransfer, InLoop
  <2>4. Delivery!Offer
    BY <1>03, <2>1, <2>2, <2>3 DEF Delivery!Offer
  <2>. QED
    BY <2>4 DEF Delivery!Next
<1>6. CASE EndFlags
  <2>1. UNCHANGED <<anz, received, plc>> /\ (sps'.WriteData => sps.WriteData)
    BY <1>6, <1>00, NodeWrite DEF EndFlags, envVars
  <2>2. Running' <=> Running
    BY <1>6 DEF EndFlags, At, Running, InTransfer, InLoop
  <2>3. CASE OnOffer' = OnOffer
    BY <1>0, <2>1, <2>2, <2>3
  <2>4. CASE OnOffer' # OnOffer
    <3>1. OnOffer /\ ~OnOffer'
      BY <2>1, <2>4 DEF OnOffer
    <3>2. TakenNos' = TakenNos
      BY <2>1 DEF TakenNos
    <3>3. OfferedNo # 0 /\ OfferedNo' = 0
      BY <1>03, <3>1
    <3>4. Delivery!Withdraw
      BY <2>1, <2>2, <3>2, <3>3 DEF Delivery!Withdraw
    <3>. QED
      BY <3>4 DEF Delivery!Next
  <2>. QED
    BY <2>3, <2>4
<1>7. CASE PlcSees \/ PlcReadsIndex
  <2>1. Same
    BY <1>02, <1>7 DEF PlcSees, PlcReadsIndex, PlcAt, PlcState, svcVars, OnOffer, Running
  <2>. QED
    BY <1>0, <2>1
<1>8. CASE PlcReadsBlock
  <2>. DEFINE blk == [index |-> plc.index, data |-> sps.DataArray]
  <2>1. plc.pc = "array" /\ plc'.pc = "clear" /\ OnOffer /\ ~OnOffer'
    BY <1>02, <1>8 DEF PlcReadsBlock, PlcAt, PlcState, OnOffer
  <2>2. OfferedNo = plc.index /\ OfferedNo # 0 /\ OfferedNo' = 0
    BY <1>03, <2>1 DEF OfferedNo
  <2>3. blk.index = plc.index
    OBVIOUS
  <2>4. blk \in Block
    BY <1>02 DEF Block, PlcState, Nodes
  <2>. HIDE DEF blk
  <2>5. received' = Append(received, blk)
    BY <1>8 DEF PlcReadsBlock, blk
  <2>6. TakenNos' = Append(TakenNos, OfferedNo)
    BY <1>02, <2>2, <2>3, <2>4, <2>5 DEF TakenNos
  <2>7. UNCHANGED <<anz, Running>>
    BY <1>8 DEF PlcReadsBlock, svcVars, Running
  <2>8. Delivery!Take
    BY <2>2, <2>6, <2>7 DEF Delivery!Take
  <2>. QED
    BY <2>8 DEF Delivery!Next
<1>9. CASE PlcClears \/ PlcAsksNext
  <2>1. plc.pc \notin {"index", "array"} /\ plc'.pc \notin {"index", "array"}
        /\ ~OnOffer
    BY <1>02, <1>9 DEF PlcClears, PlcAsksNext, PlcAt, PlcState, OnOffer
  <2>2. ~sps'.WriteData
    BY <1>02, <1>9 DEF PlcClears, PlcAsksNext, PlcAt, Nodes, Agreed
  <2>3. Same
    BY <1>9, <2>1, <2>2 DEF PlcClears, PlcAsksNext, svcVars, OnOffer, Running
  <2>. QED
    BY <1>0, <2>3
<1>10. ASSUME NEW p \in Names, PlcRequests(p) \/ Rename(p)
       PROVE  Same
  <2>1. sps'.WriteData = sps.WriteData
    BY <1>02, <1>10 DEF PlcRequests, Rename, Nodes
  <2>. QED
    BY <1>10, <2>1 DEF PlcRequests, Rename, svcVars, envVars, OnOffer, Running
<1>11. ASSUME NEW p \in Projects, NEW m \in Lengths, EditFile(p, m)
       PROVE  Same
  BY <1>11 DEF EditFile, svcVars, OnOffer, Running
<1>12. CASE SetAbort
  <2>1. sps'.WriteData = sps.WriteData
    BY <1>02, <1>12 DEF SetAbort, Nodes
  <2>2. Same
    BY <1>12, <2>1 DEF SetAbort, svcVars, envVars, OnOffer, Running
  <2>. QED
    BY <1>0, <2>2
<1>13. CASE UNCHANGED vars
  <2>1. Same
    BY <1>13 DEF vars, svcVars, envVars, OnOffer, Running
  <2>. QED
    BY <1>0, <2>1
<1>14. Environment => Same \/ SetAbort \/ Crash
  BY <1>10, <1>11 DEF Environment
<1>. HIDE DEF Same
<1>. QED
  BY <1>0, <1>1, <1>2, <1>4, <1>5, <1>6, <1>7, <1>8, <1>9, <1>12, <1>13, <1>14
     DEF Next, Service, PlcHandshake

(* Each step of the code is a step of BlockDelivery or leaves it alone.     *)
LEMMA DeliveryStep ==
  ASSUME MaxFaults = 0, TypeOK, HandshakeInv, ProgressInv, [Next]_vars,
         TypeOK', HandshakeInv'
  PROVE  [Delivery!Next]_(Delivery!vars)
<1>1. CASE Prepare
  BY <1>1, DeliveryStarts
<1>2. CASE ~Prepare /\ ~late
  BY <1>2, LateKept, DeliveryOnTime DEF HandshakeInv
<1>3. CASE ~Prepare /\ late
  <2>1. late' = late
    BY <1>3, LateKept
  <2>2. CASE Running' = Running
    BY <1>3, <2>1, <2>2, DeliveryEnds, OfferedAfter DEF Delivery!Muddle, Delivery!Next
  <2>3. CASE Running' # Running
    BY <1>3, <2>1, <2>3, DeliveryEnds DEF Delivery!End, Delivery!Next
  <2>. QED
    BY <2>2, <2>3
<1>. QED
  BY <1>1, <1>2, <1>3

(* Whatever the interleaving, and whatever stops a transfer, the blocks     *)
(* reach the PLC the way BlockDelivery promises; a late transfer is one in  *)
(* which it promises nothing of them.                                       *)
THEOREM DeliveryImplemented ==
  ASSUME MaxFaults = 0
  PROVE  Spec => DeliverySpec
<1>1. Init => Delivery!Init
  BY DEF Init, Delivery!Init, OfferedNo, OnOffer, TakenNos, Running, InTransfer, InLoop
<1>2. /\ TypeOK /\ HandshakeInv /\ ProgressInv /\ [Next]_vars /\ TypeOK' /\ HandshakeInv'
      => [Delivery!Next]_(Delivery!vars)
  BY DeliveryStep
<1>. QED
  BY <1>1, <1>2, TypeCorrect, HandshakeCorrect, ProgressCorrect, PTL DEF Spec, DeliverySpec, Delivery!Spec
=============================================================================
