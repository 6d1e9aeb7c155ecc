----------------------------- MODULE WebService -----------------------------
(***************************************************************************)
(* The life of the process and of its web server: main (src/src/main.cpp), *)
(* the start, switch and stop of the server with the files of its          *)
(* certificate (src/src/web/http_server.cpp), the pool of request handlers *)
(* and the two worker threads as far as main waits for them.               *)
(*                                                                         *)
(*   main      boot, start, watch webUseTls; stop, join, delete, start     *)
(*             again; at the end join the workers, then stop the server    *)
(*   server    one thread: bind, listen until stopped, wait for handlers   *)
(*   handlers  PUT /api/settings, POST /shutdown and the rest              *)
(*   disk      key.pem, cert.pem, cert.hosts: written one after the other, *)
(*             each emptied before it is written; outlives the process     *)
(*                                                                         *)
(* What the handlers do to the previews and to the settings in detail is   *)
(* in PreviewJobs and SettingsStore.                                       *)
(***************************************************************************)
EXTENDS Naturals

CONSTANTS
  Handlers,     \* threads of the server's pool
  HostLists,    \* values of the setting webCertHosts
  NoHosts,      \* the empty one; also what a missing cert.hosts reads as
  Prompt,       \* the server thread gets to listen() within main's pause of 200 ms
  MaxPuts,      \* bound: changes of the settings
  MaxFaults,    \* bound: failing uses of a file, ports taken by another program
  MaxStarts     \* bound: starts of the process

ASSUME WebAssumption ==
  /\ NoHosts \in HostLists /\ Prompt \in BOOLEAN
  /\ {MaxPuts, MaxFaults, MaxStarts} \subseteq Nat

Workers == {"sps", "preview"}
NoServer == [kind |-> "none", hosts |-> NoHosts]

VARIABLES
  key,        \* key.pem: "cert" fits cert.pem, "new" a certificate not written yet,
              \* "none" missing or damaged
  cert,       \* cert.pem: valid or not, the hosts it was made for
  named,      \* cert.hosts
  wantTls,    \* setting webUseTls, in the settings file
  hosts,      \* setting webCertHosts
  pc,         \* the main thread
  prefer,     \* preferTls of the server made last
  asked,      \* hosts, as read when that server was started
  seen,       \* tlsWanted
  srv,        \* the server object: none, plain or tls with its certificate's hosts
  thr,        \* its thread
  handler,    \* what each thread of the pool works on
  workers,    \* worker threads that run
  begun,      \* main has started the workers
  running,    \* g_running
  shutdown,   \* AppState::shutdown_
  taken,      \* another program listens on the port
  botched,    \* history: since a certificate was last begun a use of a file has failed,
              \* or the hosts were set back while it was unfinished
  puts, faults, starts

disk  == <<key, cert, named, botched>>
store == <<wantTls, hosts, puts>>
plan  == <<prefer, asked, seen, begun>>
web   == <<srv, thr, handler>>
life  == <<workers, running, shutdown>>
world == <<taken, faults, starts>>
vars  == <<disk, store, pc, plan, web, life, world>>

Quiet == [h \in Handlers |-> "idle"]

Init ==
  /\ key = "none" /\ cert = [valid |-> FALSE, hosts |-> NoHosts] /\ named = NoHosts
  /\ botched = FALSE
  /\ wantTls \in BOOLEAN /\ hosts \in HostLists /\ puts = 0
  /\ pc = "down" /\ prefer = FALSE /\ asked = NoHosts /\ seen = FALSE
  /\ begun = FALSE
  /\ srv = NoServer /\ thr = "none" /\ handler = Quiet
  /\ workers = {} /\ running = TRUE /\ shutdown = FALSE
  /\ taken = FALSE /\ faults = 0 /\ starts = 0

-----------------------------------------------------------------------------
(* HttpServer::start.                                                      *)

Go(from, to) == pc = from /\ pc' = to

\* A server that is to use TLS looks at the certificate first.
FirstStep(tls) == IF tls THEN "check" ELSE "plain"

\* A use of a file fails: no space, no permission.  Everything that was to be
\* in the file is missing.
Fault == faults < MaxFaults /\ faults' = faults + 1 /\ botched' = TRUE
NoFault == UNCHANGED <<faults, botched>>

\* The certificate is made anew when it is missing, damaged or expired, or
\* when cert.hosts does not read as the setting does.
\* Faulty: the hosts are noted before the certificate is there.
CheckCertNotes ==
  /\ IF ~cert.valid \/ named # hosts
       THEN Go("check", "keyOpen") /\ botched' = FALSE
       ELSE Go("check", "tls") /\ UNCHANGED botched
  /\ asked' = hosts /\ named' = hosts
  /\ UNCHANGED <<key, cert, store, prefer, seen, begun, web, life, world>>

CheckCert ==
  /\ IF ~cert.valid \/ named # hosts
       THEN Go("check", "keyOpen") /\ botched' = FALSE
       ELSE Go("check", "tls") /\ UNCHANGED botched
  /\ asked' = hosts
  /\ UNCHANGED <<key, cert, named, store, prefer, seen, begun, web, life, world>>

\* fopen(.., "wb") empties the file or fails, which ends the generation.
KeyOpen ==
  /\ \/ Go("keyOpen", "keyWrite") /\ NoFault /\ key' = "none"
     \/ Go("keyOpen", "tls") /\ Fault /\ UNCHANGED key
  /\ UNCHANGED <<cert, named, store, plan, web, life, taken, starts>>

\* The text is written by fclose, whose result is not looked at: when it
\* fails, the file stays empty and the generation goes on.
KeyWrite ==
  /\ Go("keyWrite", "certOpen")
  /\ \/ NoFault /\ key' = "new"
     \/ Fault /\ UNCHANGED key
  /\ UNCHANGED <<cert, named, store, plan, web, life, taken, starts>>

CertOpen ==
  /\ \/ Go("certOpen", "certWrite") /\ NoFault /\ cert' = [cert EXCEPT !.valid = FALSE]
     \/ Go("certOpen", "tls") /\ Fault /\ UNCHANGED cert
  /\ UNCHANGED <<key, named, store, plan, web, life, taken, starts>>

CertWrite ==
  /\ Go("certWrite", "hostsOpen")
  /\ \/ /\ NoFault
        /\ cert' = [valid |-> TRUE, hosts |-> asked]
        /\ key' = IF key = "new" THEN "cert" ELSE key
     \/ Fault /\ UNCHANGED <<cert, key>>
  /\ UNCHANGED <<named, store, plan, web, life, taken, starts>>

HostsOpen ==
  /\ \/ Go("hostsOpen", "hostsWrite") /\ NoFault /\ named' = NoHosts
     \/ Go("hostsOpen", "tls") /\ Fault /\ UNCHANGED named
  /\ UNCHANGED <<key, cert, store, plan, web, life, taken, starts>>

HostsWrite ==
  /\ Go("hostsWrite", "tls")
  /\ \/ NoFault /\ named' = asked
     \/ Fault /\ UNCHANGED named
  /\ UNCHANGED <<key, cert, store, plan, web, life, taken, starts>>

\* Once the server stands, main goes on: the first time with the workers,
\* later with the next look.
Started(s) ==
  /\ srv' = s /\ thr' = "spawned"
  /\ pc' = IF begun THEN "watch" ELSE "workers"
  /\ UNCHANGED <<disk, store, plan, handler, life, world>>

\* SSLServer takes certificate and key only when they fit.
UseCert ==
  /\ pc = "tls" /\ cert.valid /\ key = "cert"
  /\ Started([kind |-> "tls", hosts |-> cert.hosts])

\* Faulty: without a usable certificate there is no server.
PlainNone ==
  /\ \/ pc = "plain"
     \/ pc = "tls" /\ ~(cert.valid /\ key = "cert")
  /\ srv' = [kind |-> "plain", hosts |-> NoHosts]
  /\ thr' = IF pc = "plain" THEN "spawned" ELSE "none"
  /\ pc' = IF begun THEN "watch" ELSE "workers"
  /\ UNCHANGED <<disk, store, plan, handler, life, world>>

\* HTTP, as wanted or for want of a usable certificate.
Plain ==
  /\ \/ pc = "plain"
     \/ pc = "tls" /\ ~(cert.valid /\ key = "cert")
  /\ Started([kind |-> "plain", hosts |-> NoHosts])

-----------------------------------------------------------------------------
(* main.                                                                   *)

\* The process starts, for the first time, after a crash or after its end.
Boot ==
  /\ pc = "down" /\ starts < MaxStarts
  /\ starts' = starts + 1
  /\ prefer' = wantTls /\ pc' = FirstStep(wantTls)
  /\ begun' = FALSE /\ running' = TRUE /\ shutdown' = FALSE
  /\ UNCHANGED <<disk, store, asked, seen, web, workers, taken, faults>>

StartWorkers ==
  /\ Go("workers", "first")
  /\ workers' = Workers /\ begun' = TRUE
  /\ UNCHANGED <<disk, store, prefer, asked, seen, web, running, shutdown, world>>

\* webUseTls is read a second time for the comparisons to come.
FirstLook ==
  /\ Go("first", "watch")
  /\ seen' = wantTls
  /\ UNCHANGED <<disk, store, prefer, asked, begun, web, life, world>>

\* The head of the loop.
\* Faulty: only the page can end the process.
WatchPage ==
  /\ pc = "watch"
  /\ IF shutdown
       THEN pc' = "joinSps" /\ running' = FALSE
       ELSE pc' = "look" /\ UNCHANGED running
  /\ UNCHANGED <<disk, store, plan, web, workers, shutdown, world>>

Watch ==
  /\ pc = "watch"
  /\ IF ~running \/ shutdown
       THEN pc' = "joinSps" /\ running' = FALSE
       ELSE pc' = "look" /\ UNCHANGED running
  /\ UNCHANGED <<disk, store, plan, web, workers, shutdown, world>>

Settled == Prompt => thr # "spawned"

\* After 200 ms.
Look ==
  /\ pc = "look" /\ Settled
  /\ pc' = IF wantTls # seen THEN "stop" ELSE "watch"
  /\ seen' = wantTls
  /\ UNCHANGED <<disk, store, prefer, asked, begun, web, life, world>>

\* httplib's stop() closes the socket of a server that listens, and does
\* nothing to one that does not listen yet.
StopServer(from, to) ==
  /\ Go(from, to)
  /\ thr' = IF thr = "listening" THEN "closing" ELSE thr
  /\ UNCHANGED <<disk, store, plan, srv, handler, life, world>>

StopOld  == StopServer("stop", "join")
StopLast == Settled /\ StopServer("stopLast", "joinLast")

\* The server's thread is joined, then the object deleted.
\* Faulty: the object is deleted without waiting for its thread.
JoinOldDetached ==
  /\ Go("join", FirstStep(seen))
  /\ srv' = NoServer /\ thr' = "none" /\ prefer' = seen
  /\ UNCHANGED <<disk, store, asked, seen, begun, handler, life, world>>

\* Faulty: the new server is made like the old one.
JoinOldSame ==
  /\ Go("join", FirstStep(prefer)) /\ thr = "ended"
  /\ srv' = NoServer /\ thr' = "none"
  /\ UNCHANGED <<disk, store, plan, handler, life, world>>

JoinOld ==
  /\ Go("join", FirstStep(seen)) /\ thr = "ended"
  /\ srv' = NoServer /\ thr' = "none" /\ prefer' = seen
  /\ UNCHANGED <<disk, store, asked, seen, begun, handler, life, world>>

JoinWorker(from, w, to) ==
  /\ Go(from, to) /\ w \notin workers
  /\ UNCHANGED <<disk, store, plan, web, life, world>>

JoinSps     == JoinWorker("joinSps", "sps", "joinPreview")
JoinPreview == JoinWorker("joinPreview", "preview", "stopLast")

JoinLast ==
  /\ Go("joinLast", "down") /\ thr = "ended"
  /\ srv' = NoServer /\ thr' = "none"
  /\ UNCHANGED <<disk, store, plan, handler, life, world>>

-----------------------------------------------------------------------------
(* The server's thread, its pool, the workers.                             *)

\* listen(): a port that cannot be bound ends the thread; nobody looks.
Listen ==
  /\ thr = "spawned" /\ thr' = IF taken THEN "ended" ELSE "listening"
  /\ UNCHANGED <<disk, store, pc, plan, srv, handler, life, world>>

\* It returns when the pool has finished.
ListenEnds ==
  /\ thr = "closing" /\ handler = Quiet
  /\ thr' = "ended"
  /\ UNCHANGED <<disk, store, pc, plan, srv, handler, life, world>>

\* A page that changes nothing is like a PUT that is refused.
Requests == {"put", "shutdown"}

Accept(h) ==
  /\ thr = "listening" /\ handler[h] = "idle"
  /\ \E r \in Requests : handler' = [handler EXCEPT ![h] = r]
  /\ UNCHANGED <<disk, store, pc, plan, srv, thr, life, world>>

Answer(h) == handler' = [handler EXCEPT ![h] = "idle"]

\* What lies on the disk, when it has a certificate, belongs together.
Finished == cert.valid => key = "cert" /\ cert.hosts = named

\* One setting is changed at a time, or the request holds no valid one.
PutSettings(h) ==
  /\ handler[h] = "put" /\ Answer(h)
  /\ \/ /\ puts < MaxPuts /\ puts' = puts + 1
        /\ \/ wantTls' = ~wantTls /\ UNCHANGED <<hosts, botched>>
           \/ \E l \in HostLists \ {hosts} :
                /\ hosts' = l /\ UNCHANGED wantTls
                /\ botched' = (botched \/ (~Finished /\ l = named))
     \/ UNCHANGED <<store, botched>>
  /\ UNCHANGED <<key, cert, named, pc, plan, srv, thr, life, world>>

RequestShutdown(h) ==
  /\ handler[h] = "shutdown" /\ Answer(h)
  /\ shutdown' = TRUE
  /\ UNCHANGED <<disk, store, pc, plan, srv, thr, workers, running, world>>

Serve(h) == PutSettings(h) \/ RequestShutdown(h)

\* Both loops end when g_running has been cleared.
WorkerEnds(w) ==
  /\ ~running /\ w \in workers
  /\ workers' = workers \ {w}
  /\ UNCHANGED <<disk, store, pc, plan, web, running, shutdown, world>>

-----------------------------------------------------------------------------
(* Surroundings.                                                           *)

\* SIGINT, SIGTERM or SIGHUP.
Signal ==
  /\ pc # "down" /\ running' = FALSE
  /\ UNCHANGED <<disk, store, pc, plan, web, workers, shutdown, world>>

\* The process is killed; files and settings stay as they are.
Crash ==
  /\ pc # "down" /\ pc' = "down"
  /\ srv' = NoServer /\ thr' = "none" /\ handler' = Quiet /\ workers' = {}
  /\ UNCHANGED <<disk, store, plan, running, shutdown, world>>

\* A year goes by, and not just while a server is being started.
Expire ==
  /\ pc \in {"down", "watch", "look"} /\ cert.valid
  /\ cert' = [cert EXCEPT !.valid = FALSE]
  /\ UNCHANGED <<key, named, botched, store, pc, plan, web, life, world>>

\* Another program takes the port or leaves it.
PortFlips ==
  /\ thr # "listening" /\ faults < MaxFaults /\ faults' = faults + 1
  /\ taken' = ~taken
  /\ UNCHANGED <<disk, store, pc, plan, web, life, starts>>

Start == CheckCert \/ KeyOpen \/ KeyWrite \/ CertOpen \/ CertWrite
           \/ HostsOpen \/ HostsWrite \/ UseCert \/ Plain
Main == StartWorkers \/ FirstLook \/ Watch \/ Look \/ StopOld \/ JoinOld
          \/ JoinSps \/ JoinPreview \/ StopLast \/ JoinLast

Next == Boot \/ Start \/ Main \/ Listen \/ ListenEnds
          \/ (\E h \in Handlers : Accept(h) \/ Serve(h))
          \/ (\E w \in Workers : WorkerEnds(w))
          \/ Signal \/ Crash \/ Expire \/ PortFlips

Spec == Init /\ [][Next]_vars

\* Threads are scheduled, handlers return, and the workers end once told to
\* (SpsConnection's ShutdownEnds, PreviewJobs' ShutdownEnds).
Fairness ==
  /\ WF_vars(Start \/ Main)
  /\ WF_vars(Listen \/ ListenEnds)
  /\ \A h \in Handlers : WF_vars(Serve(h))
  /\ \A w \in Workers : WF_vars(WorkerEnds(w))

FairSpec == Spec /\ Fairness

-----------------------------------------------------------------------------
(* Properties.                                                             *)

Starting == {"check", "keyOpen", "keyWrite", "certOpen", "certWrite",
             "hostsOpen", "hostsWrite", "tls", "plain"}
Waiting  == {"workers", "first", "watch", "look", "stop", "join",
             "joinSps", "joinPreview", "stopLast", "joinLast"}

FlagsOK ==
  /\ botched \in BOOLEAN /\ wantTls \in BOOLEAN /\ prefer \in BOOLEAN
  /\ seen \in BOOLEAN /\ begun \in BOOLEAN /\ running \in BOOLEAN
  /\ shutdown \in BOOLEAN /\ taken \in BOOLEAN

ValuesOK ==
  /\ key \in {"none", "new", "cert"}
  /\ cert \in [valid : BOOLEAN, hosts : HostLists]
  /\ named \in HostLists /\ hosts \in HostLists /\ asked \in HostLists
  /\ pc \in Starting \cup Waiting \cup {"down"}
  /\ srv \in [kind : {"none", "plain", "tls"}, hosts : HostLists]
  /\ thr \in {"none", "spawned", "listening", "closing", "ended"}
  /\ handler \in [Handlers -> Requests \cup {"idle"}]
  /\ workers \subseteq Workers
  /\ puts \in Nat /\ faults \in Nat /\ starts \in Nat

\* Every variable keeps to its type.
TypeOK == FlagsOK /\ ValuesOK

\* The routes hold a pointer to the server's Impl (http_server.cpp, routes):
\* no handler runs once main has deleted the server, on a switch, at the end
\* or while the next one is being started.
HandlerScope ==
  (\E h \in Handlers : handler[h] # "idle") =>
    srv.kind # "none" /\ thr \in {"listening", "closing"}

\* HttpServer::start: whatever a crash has left of key.pem, cert.pem and
\* cert.hosts, a server that is to use TLS does use it, with a certificate
\* made for the addresses set at its start - provided that since a certificate
\* was last begun no use of these files has failed, and the addresses have not
\* been set back to those of cert.hosts over an unfinished one: cert.hosts then
\* reads as the setting, and nothing is made anew.
CertHealed ==
  (prefer /\ srv.kind # "none" /\ ~botched) =>
    srv.kind = "tls" /\ srv.hosts = asked

\* "Aenderung wirkt sofort" (webUseTls): a change main can see is followed by
\* a server of the other kind, unless the process ends.  A change between the
\* two first readings (main.cpp 1003, 1047) is not seen: then seen # prefer.
TlsFollows ==
  (pc = "watch" /\ seen = prefer /\ wantTls # prefer)
    ~> (wantTls = prefer \/ pc = "down" \/ ~running \/ shutdown)

\* A running process comes to listen after its start and after every switch,
\* unless the port was taken when the server's thread tried to bind it.
Blind == thr = "ended" /\ pc \in {"workers", "first", "watch", "look"}

Served == (pc \in Starting \cup {"workers", "first"})
            ~> (thr = "listening" \/ Blind \/ taken \/ pc = "down")

\* A signal or POST /shutdown ends the process, whatever the requests, a
\* switch under way and the workers do.
Exits == (pc # "down" /\ (~running \/ shutdown)) ~> (pc = "down")
=============================================================================
