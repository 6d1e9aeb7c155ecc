# Verification of the CNC data service

TLA+ models, TLC runs and TLAPS proofs for the service in `src/` that hands CNC
project files to a PLC ("SPS") over OPC UA and shows them in a web interface.
The code is the reference; where a comment or a document promises something
the code does not do, this is said under "Deviations".

In this document M is `src/src/CNC_Daten/cnc_projekt_manager.cpp` and MAIN is
`src/src/main.cpp`.

## 1. The system

Threads of the process: the **SPS thread** (`spsWorkerLoop`), a **watchdog** per
OPC UA session, the **preview worker** (`previewWorkerLoop`), the threads of the
**HTTP server**, and the main thread. Outside of it: the PLC program, the
operator at the panel, browsers, the folder of project files, the settings file.

```
 browser --HTTP--> HttpServer --setMany--> SettingsStore --bootRev--> SPS thread --OPC UA--> PLC
    |                  |                        |  ^                    |    ^
    |                  +--enqueue, requestStop  |  +-- SQLite file      |    +-- watchdog
    +--polls status--> AppState <---------------|-- status, diagnosis --+
                         ^                      v
                         +-- images, gen -- preview worker -- .tap files -- SPS thread
```

| Component | State | Operations | Hard because | Correct if |
|---|---|---|---|---|
| Block transfer (M, OPC_UA_Arrays.cpp) | nodes on the PLC; block counter, timers | poll ReadProjekt, announce, offer block by block, wait for the last acknowledgement, signal the end | service and PLC interleave between any two calls, aborts, timeouts, crashes, changed files | every announced row arrives once and in order, but for one transfer after a crash; every request is answered |
| Project files (project_file_reader, gcode_parser, arc_flatten.h) | none (files) | count, cut into blocks, parse, flatten arcs | three loops must agree on what a record is | blocks = records; past the header drawn = sent |
| SPS connection (MAIN 573-927) | session, active endpoint, seen revision, watchdog, status, diagnosis | apply, probe, connect, set up, operate, tear down | two threads and the settings; calls that hang | stored endpoint comes into use; nothing shown outlives its session |
| Preview jobs (MAIN 320-570, app_state, preview.html) | one command, stop flag, generation, image, status | post, replace, stop, draw, test run | one slot for all pages, polling between separate stores | the last job is shown; stops and ends reach the pages |
| Settings store (settings_store.cpp) | cache, file, two counters | init, setMany, get | several web threads, crash, failing file | memory = file; each change announced once |
| HTTP server (http_server.cpp) and main thread (MAIN 980-1090) | server object, its thread and pool, certificate files, `webUseTls` as last seen | start, TLS switch, stop, shutdown, joins | stop against listen, handlers against delete, a crash between two files | the port is served after a switch, the certificate fits, the process ends |
| Triggers (MAIN 883-902, M 42-123, 310-346) | trigger nodes, list, infos | write list, show info | the PLC asks again meanwhile, single calls fail | the answer belongs to the request |
| Variable registry (SPSController, SPSDialog) | variables of a session | set up, diagnose | some of 38 nodes are missing or wrong | the verdict and the diagnosis are right |
| OPC UA client (OPC_UA.cpp, OPC_UA_Arrays.cpp) | none but the session | typed reads and writes, windows of arrays | limits, strides, unchecked types | a call has its effect or reports failure; no cell is lost |
| Renderer | canvas | draw | floating point | out of scope but for arc or line |

Everything else in the repository (test server, image processing and OCR, ADS
client, vendored open62541 and ic4, earlier Python service) is listed in
`PROJECT.json` with the reason why it is not modelled.

## 2. Modules

| Module | Models | Code |
|---|---|---|
| `BlockDelivery` | what a transfer promises: offer and take blocks 1, 2, 3, ...; nothing if it starts while one of an earlier transfer is still being taken (`StartLate`, `Muddle`) | abstract |
| `BlockTransfer` | the handshake, the PLC program, operator, files, crashes | M 63-346, MAIN 748-767, 902-912 |
| `BlockTransferProofs` | its theorems | |
| `ProjectFiles` | the loops over a file, flattening, arc or line | project_file_reader, gcode_parser, arc_flatten.h, preview_renderer 235-303 |
| `ProjectFilesProofs` | its theorems | |
| `SpsConnection` | SPS thread, watchdog, settings as far as they matter to it | MAIN 573-927 |
| `SpsConnectionProofs` | its theorems | |
| `PreviewJobs` | preview worker, AppState, page | MAIN 320-570, app_state, preview.html |
| `SettingsStore` | setMany, init, file, counters | settings_store.cpp |
| `SettingsStoreProofs` | its theorems | |
| `PreviewJobsProofs` | the theorems of `PreviewJobs` | |
| `PlcNodes` | registering, reading and patching nodes, as operators | OPC_UA.cpp, OPC_UA_Arrays.cpp |
| `PlcSession` | set-up, diagnosis, list and info triggers of one session | MAIN 690-902, SPSController, SPSDialog, M 42-123, 310-374, preview_renderer 9-103 |
| `PlcWindowProofs` | theorems: windows of arrays, for every array and every window | |
| `PlcSessionProofs` | the theorems of `PlcSession` | |
| `WebService` | main thread, web server, certificate files, pool | MAIN 980-1090, http_server.cpp 97-210, 312-354, 482-541 |
| `WebServiceProofs` | its theorems | |
| `MC...` | the instances for TLC: small sets with a name | |

A definition that models code has an entry in the `map` of `PROJECT.json`. A
definition with "Faulty:" above it is a plausible mistake in the code below it;
`PROJECT.json` pairs it with the property that has to notice it. It is no part
of the model.

**State and code.** `BlockTransfer`: `sps` holds the nodes under their names in
the settings (`AnzDatenbloecke` for `AnzDatenblöcke`), `pc` is the next OPC UA
call of the SPS thread, `records`, `anz`, `proj`, `cur` are the locals
`recordCount`, `anzBlocke`, `info`, `currentBlock`; `plc` is the program of the
integration test's simulator; `received`, `pending`, `late` and `died` are history.
`Restart` is a new process that polls at once: MAIN 748-767 neither waits for the PLC
nor resets a flag, so it may find a block on offer and the PLC taking it. A transfer
that begins then is `late`. One action
is one call, so that the PLC can do anything between two. `SpsConnection`: `pc`
walks through the loop body, `wd` through the watchdog's, `global` and
`connected` are `g_sps_connected` and `AppState::spsConnected_`. `PreviewJobs`:
AppState locks every method, so one method call is one step. `SettingsStore`:
the part under the lock is two steps, memory and file, since the process can die
between them. `ProjectFiles`: an action is one turn of a `getline` loop. `PlcSession`: `plc` holds
the nodes with type, form, access rights, dimensions and elements, `regd` is
`variableMap`, `diag` what `nodeDiagnostics` publishes, `cur` the locals of the
trigger at work; a call of the OPC UA client is one step and a write of an array
is two, since `writeStringArray` reads the array, patches its copy and writes
all of it back. `WebService`: `pc` is the main thread, `thr` the thread of
the server, `handler` its pool; `key`, `cert` and `named` are `key.pem`, `cert.pem` and
`cert.hosts`, each emptied and written in separate steps.

**How the modules fit together.** `SpsConnection` keeps the SPS thread in a
state "transfer" from which it returns: `BlockTransfer` shows that it does
(`RequestAnswered`). `BlockTransfer` takes a row as an indivisible value:
`ProjectFiles` shows which line that is. `SpsConnection` has the set-up and the
triggers as one step each; `PlcSession` takes them apart, and has in turn one
session at a time and no watchdog. `WebService` waits for the worker threads,
which end after a shutdown by `ShutdownEnds` of `SpsConnection` and `PreviewJobs`.
`SpsConnection` and `PreviewJobs` see a
settings change as a new value followed by a new revision: `SettingsStore` shows
that each is counted exactly once (`Counted`).

## 3. Runs

| Run | Question | Instance |
|---|---|---|
| `transfer_steady` | Is every row delivered in order, does the handshake implement `BlockDelivery`, whatever aborts, lost links, crashes and restarts come in between, late transfers excepted? How does one become late? | two projects, up to 5 records, blocks of 2; 1 round of patience |
| `transfer_disturbed` | Does the thread come back and signal the end while operator, files and one failing call get in the way and the PLC may fall silent? | one project, up to 2 records, blocks of 1; one fault |
| `lost_request` | *violated*: a PLC that asks again at UebertgarungBeendet | one project |
| `project_files` | Do the three loops agree, and is past the header drawn what is sent? | all files of up to 5 lines over six kinds of line, blocks of 1 and 2, flattening off and on |
| `plc_session` | Are verdict and diagnosis right, do list and infos belong to the request, are windows exact? | two projects, one too long for the int16 of 8 values; arrays of two dimensions and of one, a limit below, at and above the list; one event |
| `connection` | Are session, watchdog, status and diagnosis kept together, is a loss shown, do stored settings and shutdown come into effect? | two endpoints, two changes, one event at a server, calls that hang |
| `missed_change` | *violated*: a change between applySettings and bootstrapRevision() | two endpoints, one change |
| `preview_jobs` | Is the last job shown, are stops, shutdown and ends noticed, does the worker end? | two pages, two posts, three steps, lists, SPS images, a vanishing file |
| `unanswered_page` | *violated*: a job for a missing project | one page |
| `settings_store` | Do memory, file and counters agree with two threads and a crash anywhere? | three keys, two values, three requests, one crash, one failing use of the file |
| `lost_setting` | *violated*: a failing write to the file | the same, one request |
| `web_service` | Do handlers outlive their server, does a certificate heal, is the port served, does the process end? | two handlers, two lists of hosts, two changes, one fault, two starts |

**Bounds.** Five records in blocks of two are two full blocks and a partial one:
a first, a middle and a last block, and a stale tail. Two projects are enough for a
selection that changes. Patience only has to be long enough for the PLC to
answer before and after it has run out; one round is, since the PLC may take any
number of steps in it. The PLC's array
has as many elements as a block has rows. A change of endpoints needs two of
them, a test run three steps so that there is a first, an inner and a last one,
with `StopStride` 2 for the stride of 128. Two pages can replace each other's
job; two threads can race in `setMany`, and a request of two keys can be torn.
In `plc_session` a `size_t` has 16 values and an int16 eight, so that both
limits are met; one event per behaviour is enough for a node that is wrong
before or during a session, a link that breaks, a file that goes or a pause at
any call, and wrong nodes can be put right and go wrong in the next session.
In `web_service` two starts are a crash and what is found after it, two changes
a switch and its reversal.
Counters (`MaxPosts`, `MaxPuts`, `MaxChanges`, `MaxFlips`, `MaxFaults`,
`MaxCrashes`, `MaxEvents`, `MaxStarts`) bound what the surroundings do, never
what the service does. `Disturb` names what besides normal operation happens in
a run; each set is defined in an MC module. `connection` leaves out a change
that falls between applying the settings and reading their revision, the
subject of `missed_change`.

**Deadlock.** Runs in which the surroundings may have used up their bounds or
the service has ended (`CHECK_DEADLOCK FALSE`) really can stop; in
`transfer_steady` and `plc_session` the service polls for ever and deadlock is
checked.

**Fairness.** Threads of the process are scheduled: weak fairness of `Service`,
`Worker`, `Watchdog` and, in `PlcSession`, of the SPS thread's steps as a whole,
never of a single branch of theirs, with two exceptions: a heartbeat falls due
once a second, hence strong fairness of `Heartbeat` and `BeatFails`, and a
transfer ends, which `RequestAnswered` shows. A setMany under way finishes
(`BumpBootRev`). A waiting page polls every 180 ms (`SeeDone`). In
`WebService` the main thread, the server's thread, each handler and each worker
are scheduled, as `std::thread` and the pool of httplib are. Nothing is assumed
of the speed of the PLC, neither in a wait nor between a crash and the restart, nor
of the operator, the network or a crashed process. In `SpsConnection`
an OPC UA call on a server that is lost may hang for ever (`Hang`): the
properties that need the SPS thread say so, and `LossShown` holds without it.

`Prompt` in `WebService` says that the thread of a new server gets to `listen`
within the 200 ms the main thread sleeps. Nothing in the code waits for it; without
it `Exits` is false, see "Deviations".

## 4. Proofs

TLAPS proves, for all values of the constants that satisfy the assumptions
`TransferAssumption`, `StoreAssumption`, `ConnectionAssumption`,
`PreviewAssumption`, `FileAssumption`, `WebAssumption`, `SizeAssumption` (a
`size_t` has more than five values) and `SessionAssumption` (finitely many
projects, arrays of one or two dimensions, a limit that a `size_t` can hold):

* `BlockTransferProofs`: type correctness (`TypeCorrect`); that service, nodes
  and PLC agree on whose turn it is (`HandshakeCorrect`), from which follow one
  owner for every block, the order of the blocks and that the array is never
  written while the PLC reads it; that `currentBlock` never passes `anzBlocke` and
  an acknowledged end means everything was delivered (`ProgressCorrect`,
  `CompleteCorrect`); that every behaviour is one of `BlockDelivery`
  (`DeliveryImplemented`). `OneOwner` and `IndexOrder` are not inductive: that the
  PLC sees the next number needs to know that it is idle, that the flags are
  clear and how many blocks it has taken at every single call. `Agreed` says
  so call by call.
  * *Crashes.* All of these except a transfer that is `late`, one begun while the PLC
    was still at a block of the dead process: there the code promises nothing, see
    "Deviations". What makes a transfer late is proved as well. `Punctual` says that a
    transfer whose end was signalled leaves nothing on offer, and that the PLC asks
    again only between two blocks; hence `LateAfterCrashOnly` (one crash spoils one
    transfer at most; no timeout, abort or lost link spoils any) and
    `NeverLateWithoutCrash` (with "crash" not in `Disturb` the exception is void).
    `HandshakeInv` is `Punctual` with `Agreed` for the transfers that are not late.
  * *Failing calls.* `HandshakeInv` and `ProgressInv` are kept by every step, disturbed
    or not, until the first call fails (`HandshakeUntilFault`), hence `InOrderUntilFault`
    under every disturbance; after a failed call the code promises no more. Where
    the property itself has no such clause (`NoOverwrite`, `RowsInOrder`,
    `DeliverySpec`), `MaxFaults = 0` is an explicit hypothesis, and that of the run.
  What is proved of these (`TypeOK`, `OneOwner`, `IndexOrder`, `HandshakeInv`,
  `ProgressInv`) no run repeats; the runs keep to what follows from them.
  * `NoRequestLost`, from `RequestInv`: the request bit stays set from the poll that
    saw it to ClearRequest, so a PLC that waits for it to be cleared
    (`AskWhen = "cleared"`) cannot ask in between. The hypothesis is needed:
    `lost_request` shows the other PLC losing one. Failed calls are allowed.
  * `AnnouncedFits`, from `SelectionInv`: the file measured is the file announced is
    the file sent. It needs that neither the selection nor a file changes during
    a transfer (no "rename", no "edit"); both are among the deviations below.
  * `RowsInOrder` and `FileDelivered` (every row of the file has reached the PLC
    when a transfer that is not late ends with "ok"), from `RowsInv`: `DataArray` holds the block
    after those taken, and the stale tail of a partial block is none of its rows.
  * `EndSignalled`, the safety half of `StartedIsSignalled`: until a call fails, a
    thread that is done with a transfer it had begun has set
    UebertgarungBeendet. `EndInv` follows the end flags through all ways out of the loop.
* `PlcWindowProofs`: `ReadsExact` and `WritesExact`, whose statements `WindowExact` checks on
  small arrays, for every array of one or two dimensions, every window and
  every rectangle of values: a read returns exactly the cells of the window that
  exist, unless its end wraps round in `size_t`; a write that fits into the array
  changes the cells of its rectangle and no other, one that does not fit is refused. The lemmas (`Quotient`, `Place`, `RowPart`,
  `Patched`) say where row and column of a cell are in the flat vector the PLC keeps.
* `PlcSessionProofs`: none of the invariants of `PlcSession` is inductive.
  `TypeInv` says that a node of the PLC holds values of its type in its form, through
  every change of program; with it `SetupInv` (what is registered fits the nodes as
  long as the program is the same; after a failed set-up some node is at fault)
  gives `SetupVerdict`, and `ParamsInv` gives `TypeSafe`. `ListInv` takes the list from
  the folder through the copy that is patched to the array (`ListComplete`, and
  with `WritesExact` `WindowExact`), `InfoInv` the infos call by call (`InfoOrError`).
  `HeldInv` and `ListAnswered` are the safety half of `ListServed`: a request that was
  taken is in the hands of the handler, and he lets go of it only by answering or
  losing it.
* `SettingsStoreProofs`: `Durable` and `AllOrNothing`, from an invariant that
  splits a request at the lock. Outside it, memory is what the file holds; inside it,
  the file still holds the old settings and memory these with the request
  applied. `Counted` from a second one (`CInv`): the number of threads that still owe
  an increment of `bootRev_`, by the theorems on cardinalities, for any finite
  number of threads; it needs that only a thread on its way to that increment
  is at "boot", and that none is anywhere while the process is down.
* `SpsConnectionProofs`: `WatchdogScope` and `NothingStale`. Neither is
  inductive: the status is TRUE, a finding is shown or the watchdog runs only in
  certain places of the SPS thread's loop, and these are places with a session.
  `IInv` says which places those are; the watchdog, which writes status and
  diagnosis concurrently, only ever takes them back. In the window between
  closing the session and clearing the status (`pc = "clear"`) both may still
  stand; the property names it.
* `PreviewJobsProofs`: `LatestShown`, `FreshParams`, `StopNotLost`, `StopPrompt` and
  `FinalBeforeEnd`, from an invariant that says, place by place in the worker's loop,
  where the last command is (in the slot, at work, shown), how old the parameters of
  a command can be and what has become of a stop. `FinalBeforeEnd` is about the status
  of a job and its own image; of a page that takes its job for ended it says only that it
  finds a final image, since that may be an earlier job's. `StopPrompt` bounds a
  run after a stop, if it pauses between its steps, and after a shutdown at any pace.
* `WebServiceProofs`: `HandlerScope` and `CertHealed`. The invariant ties handlers
  and server object to the states of the server's thread, and says for every step
  of the generation of a certificate what a crash right there leaves behind: at
  no time do a valid certificate, a fitting key and a note of the hosts stand
  together that do not belong together, unless a use of a file has failed.
* `ProjectFilesProofs`: `BlocksCover`, `SteadyShift` and `DrawnAsSent`, for files of
  every length, every size of a block and every limit for arcs. `Row(i)`, the number of records up
  to line `i`, is what the counter of each loop has to be; the invariant says how
  each of them stands to it (`Counting`), that a command has the number of its row
  (`Numbered`), that a motion the parser has passed is a command or an error
  (`Noted`), that the block under construction holds the rows past those sent
  (`Cutting`), and what the blocks sent hold (`Delivered`). The lemmas on `Row`
  rest on the theorems on cardinalities; no recursion is needed.

Every safety property of the passing runs is stated by a theorem. Only
model-checked is what is temporal with fairness: `RequestAnswered`,
`StartedIsSignalled`, `InUse`, `SwitchedOff`, `LossShown`, `ShutdownEnds`, `WaitEnds`,
`ListServed`, `TlsFollows`, `Served` and `Exits`. Liveness is out of the prover's
reach; of `StartedIsSignalled` and `ListServed` the safety half is proved.

## 5. Deviations

With a run: a lost request (`lost_request`), a settings change that is not noticed
(`missed_change`), a page that waits for ever (`unanswered_page`), a setting that
is acknowledged and lost (`lost_setting`). Met while reading and modelling, without
a run:

*Transfer*

* M:195 looks at ubertragenAbbrechen and resets it only at the head of the block loop.
  Raised after the last look (`lateAbort` in `BlockTransfer`) it stays set and
  ends the next transfer before its first block;
  `tests/integration_test_full_flow.cpp:383` expects that the service resets it.
* MAIN 748-767 resets no flag of the handshake, and M:152-171 sets IndexData to 0
  before it withdraws what is on offer. If the process dies with WriteData set and the
  still set ReadProjekt starts a transfer again before the PLC is through with that
  block (M:185 allows it 30 s), the PLC takes the stale array, possibly under
  the number 0, and its late clearing of WriteData acknowledges a block of the new
  transfer that it never took. `late` marks that transfer; the next one is sound again
  (`LateAfterCrashOnly`).
* M:131-148 returns before the flags are set and never sets UebertgarungBeendet,
  which `docs/KONFIGURATION.md:85` describes as "Übertragung beendet, Dienst wieder frei".
* M:137 reads ProjektName a second time; a selection in between announces the
  length of one file and sends another.
* M:230 drops the results of the calls that offer a block.

*List and infos*

* MAIN:889 clears UpdateProjektList before the list is made; if the link breaks
  meanwhile, the request is lost with it (`owed = "lost"` in `PlcSession`).
* MAIN:901 sets ProjektInfoWrote whatever showProjectInfo returned, and the results of
  the writes of LenProjekt, ProjektVorhanden and AnzDatenblöcke are ignored:
  with a node the PLC has declared read-only, an old length stands beside a new
  name and no error is shown. `InfoOrError` leaves these nodes aside.
* M:336 and M:341 cast to int16: a file of more than 32767 records is announced
  with a negative length.
* A shorter list leaves the tail of the one before in ProjektArray; nothing says
  how many entries are valid (`docs/KONFIGURATION.md` speaks of the list).
* "Zu viele Projekte" cannot be reached: the list is cut to the limit before.
* `docs/KONFIGURATION.md` lists the colours as [G,B,R], the code reads [R,G,B], and a
  "float array" there is the string array DataArray.

*OPC UA client*

* The readers of arrays in `OPC_UA_Arrays.cpp` never ask for the element type. The check
  at registration is the only one: after a changed program is loaded during a
  session, bytes of another type are used as values, and the diagnosis of a
  failed set-up cannot show an array of the wrong type (`Shown` in `PlcSession`).
* A window that starts above 0 and leaves the count at its default wraps round in
  size_t and is empty. No caller does so; `ReadsExactly` names it.
* A write of an array is a read and a write: what the PLC changes in between is
  overwritten with its old value.
* `writeBoolArray` is not implemented (-100); `writeChars` copies 255 bytes
  whatever the text; `SPSDialog::readInt32` (SPSDialog.cpp:61-75) returns its success the
  wrong way round. None has a caller in the service.

*Files and preview*

* `gcode_parser.cpp:44` says records are numbered as in readDataBlock, but the
  header line counts here and not there (`SteadyShift`: always by one).
* A G word after another one in the same line, or a number that cannot be read,
  is treated differently by `flattenArcLine` and the parser. The model assumes
  one motion per line. For a number that cannot be read, parseFile reports failure:
  the SPS thread's preview then draws nothing (preview_renderer.cpp:113), the web
  preview does not look (MAIN:422) and draws the remaining commands.
* A motion in the first line is drawn (parseFile takes the header for a line like any
  other) and never sent (readDataBlock skips it), although `arc_flatten.h:13-14` wants
  picture and data "garantiert identisch". `DrawnAsSent` is about the lines after it.
* MAIN:396 may bring back a cleared "connected" for as long as the next job takes.
* MAIN:420 raises the generation before the job is shown as running: a page
  that polls in between takes it for ended and shows the image of an earlier job,
  and so does one that takes the end of another page's job for that of its own.
* MAIN:1034 gives the preview worker the folder once; `ANLEITUNG.md:200-201`
  says a changed folder is used at once.
* GET /api/projects asks the worker for a new list and answers with the old one.

*Settings and web server*

* `webUseTls` and `webCertHosts` are not live keys and break the PLC connection,
  although `settings_store.h` names only ipSPS, ns, node indices and paths.
* A change of `webUseTls` between the readings at MAIN:1003 and MAIN:1047 is taken
  for seen: the server stays of the old kind (`seen # prefer` in `WebService`).
* A change of `webCertHosts` acts at the next start of the server only, although
  `settings_schema.inc:104` says it makes the certificate anew.
* MAIN:1058: a server that is stopped before it listens cannot be joined, and the
  process hangs (`Prompt = FALSE`), e.g. with a SIGTERM right after the start. One
  that fails to bind is not noticed: its thread ends and start has returned true.
* http_server.cpp:171-195 does not look at fclose, where the text meets the disk, and
  goes on to the next file. A failed generation
  leaves key and certificate that do not fit; the server falls back to HTTP, and
  for ever so if the hosts are then set back to those of `cert.hosts`. The same
  holds after a crash in the generation and a change taken back: a certificate
  for other hosts is accepted. `botched` names these cases.
* MAIN:74: the signal handler logs under the logger's mutex and can wait for the
  thread it has interrupted.

## 6. Abstractions and what is not modelled

Time is a count of rounds or a choice; numbers are unbounded except where a module
says otherwise (`SizeMod`, `Int16Mod` in `PlcNodes` and `PlcSession`); an OPC UA call
of `BlockTransfer` succeeds or fails without effect; a row, an image or a setting
is a value that says what it was made from. Render parameters are saved in one
step. In `PlcSession` registration and diagnosis are one step each, the texts and
numbers of Info_Text, StatusCode and Heartbeat and the published image are left
out, the PLC asks for infos only when none of its requests is being worked on,
arrays are not empty, and the order of a directory is fixed. In `WebService`
failures to create a thread and changes of the computer's own address are left
out, and a certificate does not expire while a server is being started.

Not modelled:

* geometry and pixels of the renderer, coordinates of the parser (floating point);
* JSON, HTML, routes that only read, wording of messages, `ErrorLogger`;
* browsing of the server's address space and `SPSDialog` calls nothing uses;
* `LiveImage` (no trigger reaches it), the OPC UA test server (a stand-in for the PLC);
* what the build of the service does not contain or only vendors: the headers of
  the ic4 camera library (`src/include/ic4`, the largest part of the code
  outside this list), open62541, `legacy_python`, `bildverarbeitung` with the OCR,
  the TwinCAT ADS client and its dialogs.

## 7. Open

* *Composition* of `SettingsStore` with `SpsConnection` through the two revisions,
  and of `PlcSession` with the watchdog.
