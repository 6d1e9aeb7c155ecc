-------------------------- MODULE WebServiceProofs --------------------------
(***************************************************************************)
(* What TLAPS proves of WebService for any number of handlers, any lists   *)
(* of addresses and any bounds.                                            *)
(*                                                                         *)
(* HandlerScope follows from where the server is: a handler works only     *)
(* while the thread listens or is closing, there is a thread only while    *)
(* there is an object, and none while main is starting one.  CertHealed    *)
(* needs what every stage of the generation leaves on the disk, and that   *)
(* an unfinished certificate is always betrayed by cert.hosts: the         *)
(* addresses asked for cannot change while no server runs.                 *)
(***************************************************************************)
EXTENDS WebService, TLAPS

AllIdle == \A h \in Handlers : handler[h] = "idle"

\* Server object, thread and handlers in step.
InStep ==
  /\ thr \in {"listening", "closing"} \/ AllIdle
  /\ thr # "none" => srv.kind # "none"
  /\ pc \in Starting \cup {"down"} => thr = "none" /\ srv.kind = "none"

\* What main is starting, and for which addresses.
AskedFor ==
  /\ pc \in Starting \ {"plain"} => prefer
  /\ pc = "plain" => ~prefer
  /\ pc \in Starting \ {"check", "plain"} => asked = hosts

\* What each stage leaves on the disk when nothing has gone wrong.
Stages ==
  ~botched =>
    /\ Finished \/ named # hosts
    /\ pc \in {"keyOpen", "keyWrite", "certOpen"} => ~cert.valid \/ named # hosts
    /\ pc \in {"certOpen", "certWrite"} => key = "new"
    /\ pc = "certWrite" => ~cert.valid
    /\ pc \in {"hostsOpen", "hostsWrite", "tls"} =>
         cert.valid /\ cert.hosts = asked /\ key = "cert"

IInv == TypeOK /\ InStep /\ AskedFor /\ Stages /\ CertHealed

LEMMA InitIInv == Init => IInv
<1> SUFFICES ASSUME Init PROVE IInv
  OBVIOUS
<1> USE WebAssumption DEF WebAssumption, Init
<1>1. FlagsOK
  BY Zenon DEF FlagsOK
<1>2. ValuesOK
  <2>1. cert \in [valid : BOOLEAN, hosts : HostLists]
    BY Zenon
  <2> QED BY <2>1 DEF ValuesOK, Starting, Waiting, Quiet, NoServer, Requests, Workers
<1>3. InStep /\ AskedFor /\ CertHealed
  BY DEF InStep, AskedFor, CertHealed, AllIdle, Starting, Quiet, NoServer
<1>4. Stages
  BY DEF Stages, Finished
<1> QED BY <1>1, <1>2, <1>3, <1>4 DEF IInv, TypeOK

\* Every action keeps the flags Boolean.
LEMMA FlagsStep == FlagsOK /\ [Next]_vars => FlagsOK'
<1> SUFFICES ASSUME FlagsOK, [Next]_vars PROVE FlagsOK'
  OBVIOUS
<1> USE DEF FlagsOK
<1> USE DEF disk, store, plan, web, life, world
<1>1. CASE Boot BY <1>1, Zenon DEF Boot, FirstStep
<1>2. CASE Start
  <2>1. CASE CheckCert BY <2>1, Zenon DEF CheckCert, Go
  <2>2. CASE KeyOpen BY <2>2, Zenon DEF KeyOpen, Go, Fault, NoFault
  <2>3. CASE KeyWrite BY <2>3, Zenon DEF KeyWrite, Go, Fault, NoFault
  <2>4. CASE CertOpen BY <2>4, Zenon DEF CertOpen, Go, Fault, NoFault
  <2>5. CASE CertWrite BY <2>5, Zenon DEF CertWrite, Go, Fault, NoFault
  <2>6. CASE HostsOpen BY <2>6, Zenon DEF HostsOpen, Go, Fault, NoFault
  <2>7. CASE HostsWrite BY <2>7, Zenon DEF HostsWrite, Go, Fault, NoFault
  <2>8. CASE UseCert BY <2>8, Zenon DEF UseCert, Started
  <2>9. CASE Plain BY <2>9, Zenon DEF Plain, Started
  <2> QED BY <1>2, <2>1, <2>2, <2>3, <2>4, <2>5, <2>6, <2>7, <2>8, <2>9 DEF Start
<1>3. CASE Main
  <2>1. CASE StartWorkers BY <2>1, Zenon DEF StartWorkers, Go
  <2>2. CASE FirstLook BY <2>2, Zenon DEF FirstLook, Go
  <2>3. CASE Watch BY <2>3, Zenon DEF Watch
  <2>4. CASE Look BY <2>4, Zenon DEF Look
  <2>5. CASE StopOld BY <2>5, Zenon DEF StopOld, StopServer, Go
  <2>6. CASE JoinOld BY <2>6, Zenon DEF JoinOld, Go, FirstStep, NoServer
  <2>7. CASE JoinSps BY <2>7, Zenon DEF JoinSps, JoinWorker, Go
  <2>8. CASE JoinPreview BY <2>8, Zenon DEF JoinPreview, JoinWorker, Go
  <2>9. CASE StopLast BY <2>9, Zenon DEF StopLast, StopServer, Go
  <2>10. CASE JoinLast BY <2>10, Zenon DEF JoinLast, Go, NoServer
  <2> QED BY <1>3, <2>1, <2>2, <2>3, <2>4, <2>5, <2>6, <2>7, <2>8, <2>9, <2>10 DEF Main
<1>4. CASE Listen BY <1>4, Zenon DEF Listen
<1>5. CASE ListenEnds BY <1>5, Zenon DEF ListenEnds
<1>6. ASSUME NEW h \in Handlers, Accept(h) PROVE FlagsOK'
  BY <1>6, Zenon DEF Accept
<1>7. ASSUME NEW h \in Handlers, Serve(h) PROVE FlagsOK'
  <2>1. CASE PutSettings(h) BY <2>1, Zenon DEF PutSettings, Answer
  <2>2. CASE RequestShutdown(h) BY <2>2, Zenon DEF RequestShutdown, Answer
  <2> QED BY <1>7, <2>1, <2>2 DEF Serve
<1>8. ASSUME NEW w \in Workers, WorkerEnds(w) PROVE FlagsOK'
  BY <1>8, Zenon DEF WorkerEnds
<1>9. CASE Signal BY <1>9, Zenon DEF Signal
<1>10. CASE Crash BY <1>10, Zenon DEF Crash, NoServer, Quiet
<1>11. CASE Expire BY <1>11, Zenon DEF Expire
<1>12. CASE PortFlips BY <1>12, Zenon DEF PortFlips
<1>13. CASE UNCHANGED vars BY <1>13, Zenon DEF vars
<1> QED BY <1>1, <1>2, <1>3, <1>4, <1>5, <1>6, <1>7, <1>8, <1>9, <1>10, <1>11, <1>12, <1>13 DEF Next

\* Every action keeps the other types.
LEMMA ValuesStep == ValuesOK /\ [Next]_vars => ValuesOK'
<1> SUFFICES ASSUME ValuesOK, [Next]_vars PROVE ValuesOK'
  OBVIOUS
<1> USE WebAssumption DEF WebAssumption, ValuesOK, Starting, Waiting, Requests, Workers
<1> USE DEF disk, store, plan, web, life, world
<1>1. CASE Boot BY <1>1 DEF Boot, FirstStep
<1>2. CASE Start
  <2>1. CASE CheckCert BY <2>1 DEF CheckCert, Go
  <2>2. CASE KeyOpen BY <2>2 DEF KeyOpen, Go, Fault, NoFault
  <2>3. CASE KeyWrite BY <2>3 DEF KeyWrite, Go, Fault, NoFault
  <2>4. CASE CertOpen
    <3>1. cert' \in [valid : BOOLEAN, hosts : HostLists]
      BY <2>4, Zenon DEF CertOpen
    <3> QED BY <2>4, <3>1 DEF CertOpen, Go, Fault, NoFault
  <2>5. CASE CertWrite
    <3>1. [valid |-> TRUE, hosts |-> asked] \in [valid : BOOLEAN, hosts : HostLists]
      BY Zenon
    <3>2. cert' = [valid |-> TRUE, hosts |-> asked] \/ cert' = cert
      BY <2>5 DEF CertWrite
    <3>3. cert' \in [valid : BOOLEAN, hosts : HostLists]
      BY <3>1, <3>2, Zenon
    <3> QED BY <2>5, <3>3 DEF CertWrite, Go, Fault, NoFault
  <2>6. CASE HostsOpen BY <2>6 DEF HostsOpen, Go, Fault, NoFault
  <2>7. CASE HostsWrite BY <2>7 DEF HostsWrite, Go, Fault, NoFault
  <2>8. CASE UseCert BY <2>8 DEF UseCert, Started
  <2>9. CASE Plain BY <2>9 DEF Plain, Started
  <2> QED BY <1>2, <2>1, <2>2, <2>3, <2>4, <2>5, <2>6, <2>7, <2>8, <2>9 DEF Start
<1>3. CASE Main
  <2>1. CASE StartWorkers BY <2>1 DEF StartWorkers, Go
  <2>2. CASE FirstLook BY <2>2 DEF FirstLook, Go
  <2>3. CASE Watch BY <2>3 DEF Watch
  <2>4. CASE Look BY <2>4 DEF Look
  <2>5. CASE StopOld BY <2>5 DEF StopOld, StopServer, Go
  <2>6. CASE JoinOld BY <2>6 DEF JoinOld, Go, FirstStep, NoServer
  <2>7. CASE JoinSps BY <2>7 DEF JoinSps, JoinWorker, Go
  <2>8. CASE JoinPreview BY <2>8 DEF JoinPreview, JoinWorker, Go
  <2>9. CASE StopLast BY <2>9 DEF StopLast, StopServer, Go
  <2>10. CASE JoinLast BY <2>10 DEF JoinLast, Go, NoServer
  <2> QED BY <1>3, <2>1, <2>2, <2>3, <2>4, <2>5, <2>6, <2>7, <2>8, <2>9, <2>10 DEF Main
<1>4. CASE Listen BY <1>4 DEF Listen
<1>5. CASE ListenEnds BY <1>5 DEF ListenEnds
<1>6. ASSUME NEW h \in Handlers, Accept(h) PROVE ValuesOK'
  BY <1>6 DEF Accept
<1>7. ASSUME NEW h \in Handlers, Serve(h) PROVE ValuesOK'
  <2>1. CASE PutSettings(h) BY <2>1 DEF PutSettings, Answer
  <2>2. CASE RequestShutdown(h) BY <2>2 DEF RequestShutdown, Answer
  <2> QED BY <1>7, <2>1, <2>2 DEF Serve
<1>8. ASSUME NEW w \in Workers, WorkerEnds(w) PROVE ValuesOK'
  BY <1>8 DEF WorkerEnds
<1>9. CASE Signal BY <1>9 DEF Signal
<1>10. CASE Crash BY <1>10 DEF Crash, NoServer, Quiet
<1>11. CASE Expire BY <1>11 DEF Expire
<1>12. CASE PortFlips BY <1>12 DEF PortFlips
<1>13. CASE UNCHANGED vars BY <1>13 DEF vars
<1> QED BY <1>1, <1>2, <1>3, <1>4, <1>5, <1>6, <1>7, <1>8, <1>9, <1>10, <1>11, <1>12, <1>13 DEF Next

LEMMA TypeStep == TypeOK /\ [Next]_vars => TypeOK'
  BY FlagsStep, ValuesStep DEF TypeOK

\* Server, thread and handlers stay in step: only a listening thread takes a
\* request, it ends when none is left, and main deletes the object after that.
LEMMA ServedStep == TypeOK /\ InStep /\ [Next]_vars => InStep'
<1> SUFFICES ASSUME TypeOK, InStep, [Next]_vars PROVE InStep'
  OBVIOUS
<1> USE DEF TypeOK, ValuesOK, InStep, AllIdle, Starting, Waiting
<1> USE DEF disk, store, plan, web, life, world
<1>1. CASE Boot BY <1>1 DEF Boot
<1>2. CASE Start
  <2>1. CASE UseCert \/ Plain BY <2>1 DEF UseCert, Plain, Started
  <2>2. CASE ~(UseCert \/ Plain)
    BY <1>2, <2>2 DEF Start, CheckCert, KeyOpen, KeyWrite, CertOpen, CertWrite,
       HostsOpen, HostsWrite, Go
  <2> QED BY <2>1, <2>2
<1>3. CASE Main
  <2>1. CASE JoinOld \/ JoinLast
    BY <2>1 DEF JoinOld, JoinLast, Go, NoServer
  <2>2. CASE StopOld \/ StopLast
    BY <2>2 DEF StopOld, StopLast, StopServer, Go
  <2>3. CASE StartWorkers \/ FirstLook \/ Watch \/ Look
    BY <2>3 DEF StartWorkers, FirstLook, Watch, Look, Go
  <2>4. CASE JoinSps \/ JoinPreview
    BY <2>4 DEF JoinSps, JoinPreview, JoinWorker, Go
  <2> QED BY <1>3, <2>1, <2>2, <2>3, <2>4 DEF Main
<1>4. CASE Listen BY <1>4 DEF Listen
<1>5. CASE ListenEnds BY <1>5 DEF ListenEnds, Quiet
<1>6. ASSUME NEW h \in Handlers, Accept(h) PROVE InStep'
  BY <1>6 DEF Accept
<1>7. ASSUME NEW h \in Handlers, Serve(h) PROVE InStep'
  BY <1>7 DEF Serve, PutSettings, RequestShutdown, Answer
<1>8. ASSUME NEW w \in Workers, WorkerEnds(w) PROVE InStep'
  BY <1>8 DEF WorkerEnds
<1>9. CASE Signal BY <1>9 DEF Signal
<1>10. CASE Crash BY <1>10 DEF Crash, NoServer, Quiet
<1>11. CASE Expire BY <1>11 DEF Expire
<1>12. CASE PortFlips BY <1>12 DEF PortFlips
<1>13. CASE UNCHANGED vars BY <1>13 DEF vars
<1> QED BY <1>1, <1>2, <1>3, <1>4, <1>5, <1>6, <1>7, <1>8, <1>9, <1>10, <1>11, <1>12, <1>13 DEF Next

\* While main is starting a server no handler runs, so the addresses it has
\* read stay the ones that are set.
LEMMA AskedStep == TypeOK /\ InStep /\ AskedFor /\ [Next]_vars => AskedFor'
<1> SUFFICES ASSUME TypeOK, InStep, AskedFor, [Next]_vars PROVE AskedFor'
  OBVIOUS
<1> USE DEF AskedFor, Starting, disk, store, plan, web, life, world
<1>1. CASE Boot BY <1>1 DEF Boot, FirstStep
<1>2. CASE Start
  BY <1>2 DEF Start, CheckCert, KeyOpen, KeyWrite, CertOpen, CertWrite,
     HostsOpen, HostsWrite, UseCert, Plain, Started, Go
<1>3. CASE Main
  BY <1>3 DEF Main, StartWorkers, FirstLook, Watch, Look, StopOld, JoinOld, JoinSps,
     JoinPreview, StopLast, JoinLast, StopServer, JoinWorker, Go, FirstStep
<1>4. CASE Listen \/ ListenEnds BY <1>4 DEF Listen, ListenEnds
<1>5. ASSUME NEW h \in Handlers, Accept(h) PROVE AskedFor'
  BY <1>5 DEF Accept
<1>6. ASSUME NEW h \in Handlers, Serve(h) PROVE AskedFor'
  <2>1. pc \notin Starting
    BY <1>6 DEF Serve, PutSettings, RequestShutdown, InStep, AllIdle
  <2> QED BY <1>6, <2>1 DEF Serve, PutSettings, RequestShutdown
<1>7. ASSUME NEW w \in Workers, WorkerEnds(w) PROVE AskedFor'
  BY <1>7 DEF WorkerEnds
<1>8. CASE Signal \/ Crash \/ Expire \/ PortFlips
  BY <1>8 DEF Signal, Crash, Expire, PortFlips
<1>9. CASE UNCHANGED vars BY <1>9 DEF vars
<1> QED BY <1>1, <1>2, <1>3, <1>4, <1>5, <1>6, <1>7, <1>8, <1>9 DEF Next

\* The disk, stage by stage.
LEMMA DiskStep == TypeOK /\ InStep /\ AskedFor /\ Stages /\ [Next]_vars => Stages'
<1> SUFFICES ASSUME TypeOK, InStep, AskedFor, Stages, [Next]_vars PROVE Stages'
  OBVIOUS
<1> USE DEF Stages, Finished, Starting, disk, store, plan, web, life, world
<1>1. CASE Boot BY <1>1 DEF Boot, FirstStep
<1>2. CASE Start
  <2> USE DEF AskedFor, Go, Fault, NoFault
  <2>1. CASE CheckCert BY <2>1 DEF CheckCert, TypeOK, FlagsOK
  <2>2. CASE KeyOpen BY <2>2 DEF KeyOpen
  <2>3. CASE KeyWrite BY <2>3 DEF KeyWrite
  <2>4. CASE CertOpen BY <2>4 DEF CertOpen, TypeOK, ValuesOK
  <2>5. CASE CertWrite BY <2>5 DEF CertWrite
  <2>6. CASE HostsOpen BY <2>6 DEF HostsOpen
  <2>7. CASE HostsWrite BY <2>7 DEF HostsWrite
  <2>8. CASE UseCert \/ Plain BY <2>8 DEF UseCert, Plain, Started
  <2> QED BY <1>2, <2>1, <2>2, <2>3, <2>4, <2>5, <2>6, <2>7, <2>8 DEF Start
<1>3. CASE Main
  BY <1>3 DEF Main, StartWorkers, FirstLook, Watch, Look, StopOld, JoinOld, JoinSps,
     JoinPreview, StopLast, JoinLast, StopServer, JoinWorker, Go, FirstStep
<1>4. CASE Listen \/ ListenEnds BY <1>4 DEF Listen, ListenEnds
<1>5. ASSUME NEW h \in Handlers, Accept(h) PROVE Stages'
  BY <1>5 DEF Accept
<1>6. ASSUME NEW h \in Handlers, Serve(h) PROVE Stages'
  <2>1. pc \notin Starting
    BY <1>6 DEF Serve, PutSettings, RequestShutdown, InStep, AllIdle
  <2>2. CASE RequestShutdown(h) BY <2>2 DEF RequestShutdown
  <2>3. CASE PutSettings(h)
    <3>1. CASE botched' BY <3>1
    <3>2. CASE ~botched'
      <4>1. CASE UNCHANGED <<hosts, botched>>
        BY <2>1, <2>3, <3>2, <4>1 DEF PutSettings
      <4>2. CASE botched' = (botched \/ (~Finished /\ hosts' = named))
        <5>1. ~botched /\ (Finished \/ hosts' # named)
          BY <3>2, <4>2
        <5> QED BY <2>1, <2>3, <5>1 DEF PutSettings
      <4> QED BY <2>3, <4>1, <4>2 DEF PutSettings
    <3> QED BY <3>1, <3>2
  <2> QED BY <1>6, <2>2, <2>3 DEF Serve
<1>7. ASSUME NEW w \in Workers, WorkerEnds(w) PROVE Stages'
  BY <1>7 DEF WorkerEnds
<1>8. CASE Signal \/ Crash \/ PortFlips BY <1>8 DEF Signal, Crash, PortFlips
<1>9. CASE Expire BY <1>9 DEF Expire, TypeOK, ValuesOK
<1>10. CASE UNCHANGED vars BY <1>10 DEF vars
<1> QED BY <1>1, <1>2, <1>3, <1>4, <1>5, <1>6, <1>7, <1>8, <1>9, <1>10 DEF Next

\* What a server was started with stays with it.
LEMMA HealedStep == IInv /\ [Next]_vars => CertHealed'
<1> SUFFICES ASSUME IInv, [Next]_vars PROVE CertHealed'
  OBVIOUS
<1> USE DEF IInv, CertHealed, Starting, disk, store, plan, web, life, world
<1>1. CASE Boot BY <1>1 DEF Boot, InStep
<1>2. CASE Start
  <2>1. CASE UseCert BY <2>1 DEF UseCert, Started, Stages
  <2>2. CASE Plain BY <2>2 DEF Plain, Started, Stages, AskedFor
  <2>3. CASE ~(UseCert \/ Plain)
    BY <1>2, <2>3 DEF Start, CheckCert, KeyOpen, KeyWrite, CertOpen, CertWrite,
       HostsOpen, HostsWrite, Go, InStep
  <2> QED BY <2>1, <2>2, <2>3
<1>3. CASE Main
  <2>1. CASE JoinOld \/ JoinLast
    <3>1. srv'.kind = "none"
      BY <2>1 DEF JoinOld, JoinLast, NoServer
    <3> QED BY <3>1
  <2>2. CASE ~(JoinOld \/ JoinLast)
    <3>1. UNCHANGED <<prefer, asked, botched, srv>>
      BY <1>3, <2>2 DEF Main, StartWorkers, FirstLook, Watch, Look, StopOld, JoinSps,
         JoinPreview, StopLast, StopServer, JoinWorker
    <3> QED BY <3>1
  <2> QED BY <2>1, <2>2
<1>4. CASE Listen \/ ListenEnds BY <1>4 DEF Listen, ListenEnds
<1>5. ASSUME NEW h \in Handlers, Accept(h) \/ Serve(h) PROVE CertHealed'
  BY <1>5 DEF Accept, Serve, PutSettings, RequestShutdown
<1>6. ASSUME NEW w \in Workers, WorkerEnds(w) PROVE CertHealed'
  BY <1>6 DEF WorkerEnds
<1>7. CASE Signal \/ Crash \/ Expire \/ PortFlips
  <2>1. srv'.kind = "none" \/ UNCHANGED <<prefer, asked, botched, srv>>
    BY <1>7 DEF Signal, Crash, Expire, PortFlips, NoServer
  <2> QED BY <2>1
<1>8. CASE UNCHANGED vars BY <1>8 DEF vars
<1> QED BY <1>1, <1>2, <1>3, <1>4, <1>5, <1>6, <1>7, <1>8 DEF Next

\* The invariant holds of the specification.
THEOREM IInvHolds == Spec => []IInv
<1>1. IInv /\ [Next]_vars => IInv'
  BY TypeStep, ServedStep, AskedStep, DiskStep, HealedStep DEF IInv
<1> QED BY InitIInv, <1>1, PTL DEF Spec

\* Types.
THEOREM TypeHolds == Spec => []TypeOK
<1>1. IInv => TypeOK
  BY DEF IInv
<1> QED BY IInvHolds, <1>1, PTL

\* No handler outlives the server whose routes it runs.
THEOREM HandlerScopeHolds == Spec => []HandlerScope
<1>1. IInv => HandlerScope
  BY DEF IInv, InStep, AllIdle, HandlerScope
<1> QED BY IInvHolds, <1>1, PTL

\* A crash between the files of the certificate is healed by the next start.
THEOREM CertHealedHolds == Spec => []CertHealed
<1>1. IInv => CertHealed
  BY DEF IInv
<1> QED BY IInvHolds, <1>1, PTL
=============================================================================
