---------------------------- MODULE PreviewJobs ----------------------------
(***************************************************************************)
(* Previews in the web interface.  HTTP handlers put commands and stop     *)
(* requests into AppState, previewWorkerLoop takes them and publishes      *)
(* images and a status, and the page preview.html polls until its job has  *)
(* ended.  AppState locks every call, so one call is one step; what is not *)
(* atomic is everything between two calls.                                 *)
(*                                                                         *)
(*   page                      AppState                   worker           *)
(*   saveRenderParams, post -> pending            ------> takeCommand      *)
(*   stopRun                -> stop               ------> takeStop         *)
(*   awaitJob               <- gen, running,image <------ bumpGeneration,  *)
(*                                                setStatus, publishImage  *)
(*                                                                         *)
(* Abstracted: drawing.  An image is the post it shows, the revision of    *)
(* the render parameters it was drawn with, and whether it is the last one *)
(* of its job.  A test run has Steps commands of the parsed program.       *)
(***************************************************************************)
EXTENDS Integers

CONSTANTS
  Pages,        \* open browser pages
  None,         \* no command, no image
  MaxPosts,     \* bound: jobs posted in a behaviour
  Steps,        \* commands in the project (total)
  StopStride,   \* fast mode looks for a stop every StopStride steps (128)
  Disturb       \* what else happens: "list", "missing", "sps", "shutdown"

NotYet == -1   \* stopSeen: neither a stop nor a shutdown

ASSUME PreviewAssumption ==
  /\ MaxPosts \in Nat /\ Steps \in Nat /\ StopStride \in Nat \ {0}
  /\ Disturb \subseteq {"list", "missing", "sps", "shutdown"}

VARIABLES
  pending,   \* pending_: the command in the queue of length one
  stop,      \* stop_
  running,   \* running_
  gen,       \* gen_
  image,     \* image_
  saved,     \* revision of the render parameters in the settings store
  on,        \* g_running
  exists,    \* the project file is there
  pc,        \* the preview worker: the call it makes next
  cmd,       \* the command it works on
  drawnWith, \* revision of the parameters of this job
  step,      \* k of the sweep
  halted,    \* stopped
  page,      \* per page: where it is, gen0, its post and the revision it saved
  posts,     \* commands posted so far
  latest,    \* the last command put into the queue
  stopSeen   \* the step at which this test run, shown as running, was told to end

state == <<pending, stop, running, gen, image>>
worker == <<pc, cmd, drawnWith, step, halted>>
web == <<page, posts, latest>>
world == <<saved, on, exists>>
vars == <<state, worker, web, world, stopSeen>>

----------------------------------------------------------------------------
(* Commands and images.                                                    *)

ListCmd == [action |-> "list", post |-> 0, interval |-> 0]
Jobs == [action : {"render"}, post : 1..MaxPosts, interval : {0}]
          \cup [action : {"testrun"}, post : 1..MaxPosts, interval : {0, 1}]
Commands == Jobs \cup {ListCmd}

ASSUME NoneAssumption == None \notin Commands

Shown(final) == [post |-> cmd.post, with |-> drawnWith, final |-> final]
Images == [post : 0..MaxPosts, with : Nat, final : BOOLEAN]

At(label, next) == pc = label /\ pc' = next

\* The locals of a job are gone when the worker looks for the next command.
ScopeEnds == cmd' = ListCmd /\ drawnWith' = 0 /\ step' = 0 /\ halted' = FALSE

----------------------------------------------------------------------------
(* previewWorkerLoop                                                       *)

\* takeCommand; a "list" command only refreshes the list of projects.
Take ==
  /\ pc = "idle" /\ on /\ pending # None
  /\ pending' = None
  /\ cmd' = IF pending.action = "list" THEN cmd ELSE pending
  /\ pc' = IF pending.action = "list" THEN "idle" ELSE "lookup"
  /\ UNCHANGED <<stop, running, gen, image, drawnWith, step, halted, web, world, stopSeen>>

\* No such project: the status says so, the generation stays.
NotFound ==
  /\ At("lookup", "idle")
  /\ ~exists
  /\ running' = FALSE
  /\ ScopeEnds
  /\ UNCHANGED <<pending, stop, gen, image, web, world, stopSeen>>

\* Faulty: a test run does not mark a new job.
BumpRenderOnly ==
  /\ At("lookup", "parse")
  /\ exists
  /\ gen' = IF cmd.action = "render" THEN gen + 1 ELSE gen
  /\ UNCHANGED <<pending, stop, running, image, cmd, drawnWith, step, halted, web, world, stopSeen>>

Bump ==
  /\ At("lookup", "parse")
  /\ exists
  /\ gen' = gen + 1
  /\ UNCHANGED <<pending, stop, running, image, cmd, drawnWith, step, halted, web, world, stopSeen>>

\* Faulty: the parameters of the first job are kept for the later ones.
ParseCachesParams ==
  /\ At("parse", IF cmd.action = "render" THEN "begin" ELSE "reset")
  /\ drawnWith' = IF gen = 1 THEN saved ELSE drawnWith
  /\ step' = 0 /\ halted' = FALSE
  /\ UNCHANGED <<state, cmd, web, world, stopSeen>>

\* Parsing takes its time; afterwards makeParams reads the settings afresh.
Parse ==
  /\ At("parse", IF cmd.action = "render" THEN "begin" ELSE "reset")
  /\ drawnWith' = saved
  /\ step' = 0 /\ halted' = FALSE
  /\ UNCHANGED <<state, cmd, web, world, stopSeen>>

RenderBegin ==
  /\ At("begin", "final")
  /\ running' = TRUE
  /\ UNCHANGED <<pending, stop, gen, image, cmd, drawnWith, step, halted, web, world, stopSeen>>

\* A stop requested before the run is thrown away.
ResetStop ==
  /\ At("reset", "started")
  /\ stop' = FALSE
  /\ UNCHANGED <<pending, running, gen, image, cmd, drawnWith, step, halted, web, world, stopSeen>>

\* Faulty: the stop flag is cleared after the run is shown as running.
StartedDropsStop ==
  /\ pc = "started"
  /\ \/ ~running /\ running' = TRUE /\ pc' = "started" /\ UNCHANGED stop
     \/ running /\ stop' = FALSE /\ pc' = "base" /\ UNCHANGED running
  /\ UNCHANGED <<pending, gen, image, cmd, drawnWith, step, halted, web, world, stopSeen>>

Started ==
  /\ At("started", "base")
  /\ running' = TRUE
  /\ UNCHANGED <<pending, stop, gen, image, cmd, drawnWith, step, halted, web, world, stopSeen>>

\* The base image: the whole tool path, nothing done yet.
Base ==
  /\ At("base", "sweep")
  /\ image' = Shown(FALSE)
  /\ UNCHANGED <<pending, stop, running, gen, cmd, drawnWith, step, halted, web, world, stopSeen>>

\* Faulty: the sweep goes on while the service ends.
SweepToTheEnd ==
  /\ pc = "sweep"
  /\ pc' = IF step < Steps /\ ~halted THEN "frame" ELSE "final"
  /\ UNCHANGED <<state, cmd, drawnWith, step, halted, web, world, stopSeen>>

\* The head of the sweep loop, and the colouring of one command.
Sweep ==
  /\ pc = "sweep"
  /\ pc' = IF step < Steps /\ on /\ ~halted THEN "frame" ELSE "final"
  /\ UNCHANGED <<state, cmd, drawnWith, step, halted, web, world, stopSeen>>

\* Whether a frame is due depends on the clock; its status changes the step only.
Frame ==
  /\ At("frame", "pause")
  /\ image' \in {image, Shown(FALSE)}
  /\ UNCHANGED <<pending, stop, running, gen, cmd, drawnWith, step, halted, web, world, stopSeen>>

\* The pause of a step: takeStop in every chunk of it, in fast mode now and then.
Pause ==
  /\ At("pause", "sweep")
  /\ step' = step + 1
  /\ IF IF cmd.interval > 0 THEN on ELSE step % StopStride = 0
     THEN stop' = FALSE /\ halted' = stop
     ELSE UNCHANGED <<stop, halted>>
  /\ UNCHANGED <<pending, running, gen, image, cmd, drawnWith, web, world, stopSeen>>

\* Faulty: the status is set back along with the image, in the wrong order.
FinalStatusFirst ==
  /\ pc = "final"
  /\ \/ running /\ running' = FALSE /\ UNCHANGED <<image, pc>>
     \/ ~running /\ image' = Shown(TRUE) /\ pc' = "finish" /\ UNCHANGED running
  /\ UNCHANGED <<pending, stop, gen, cmd, drawnWith, step, halted, web, world, stopSeen>>

FinalImage ==
  /\ At("final", "finish")
  /\ image' = Shown(TRUE)
  /\ UNCHANGED <<pending, stop, running, gen, cmd, drawnWith, step, halted, web, world, stopSeen>>

Finish ==
  /\ At("finish", "idle")
  /\ running' = FALSE
  /\ stopSeen' = NotYet
  /\ ScopeEnds
  /\ UNCHANGED <<pending, stop, gen, image, web, world>>

\* Faulty: an idle worker sleeps until a command wakes it.
ExitWhenWoken ==
  /\ At("idle", "exit")
  /\ ~on /\ pending # None
  /\ UNCHANGED <<state, cmd, drawnWith, step, halted, web, world, stopSeen>>

Exit ==
  /\ At("idle", "exit")
  /\ ~on
  /\ UNCHANGED <<state, cmd, drawnWith, step, halted, web, world, stopSeen>>

Worker ==
  \/ Take \/ NotFound \/ Bump \/ Parse \/ RenderBegin \/ ResetStop
  \/ Started \/ Base \/ Sweep \/ Frame \/ Pause \/ FinalImage \/ Finish \/ Exit

----------------------------------------------------------------------------
(* preview.html and the HTTP handlers it calls                             *)

PageAt(c, label, next) == page[c].pc = label /\ page' = [page EXCEPT ![c].pc = next]

\* Faulty: a command in the queue is not replaced by a newer one.
EnqueueIfFree(command) ==
  /\ pending' = IF pending = None THEN command ELSE pending
  /\ latest' = command

\* enqueue: a command still in the queue is replaced.
Enqueue(command) == pending' = command /\ latest' = command

\* render() and startRun(): currentGen, saveRenderParams, post, awaitJob.  A page
\* may ask again while it waits.
Prepare(c) ==
  /\ page[c].pc # "post"
  /\ posts < MaxPosts
  /\ saved' = saved + 1
  /\ page' = [page EXCEPT ![c] = [pc |-> "post", gen0 |-> gen, post |-> 0, saved |-> saved']]
  /\ UNCHANGED <<state, worker, posts, latest, on, exists, stopSeen>>

Post(c) ==
  /\ page[c].pc = "post" /\ posts < MaxPosts
  /\ posts' = posts + 1
  /\ \E job \in Jobs : job.post = posts' /\ Enqueue(job)
  /\ page' = [page EXCEPT ![c].pc = "wait", ![c].post = posts']
  /\ UNCHANGED <<stop, running, gen, image, worker, world, stopSeen>>

\* awaitJob: a newer generation that is not running is taken for the end.
SeeDone(c) ==
  /\ PageAt(c, "wait", "done")
  /\ gen > page[c].gen0 /\ ~running
  /\ UNCHANGED <<state, worker, posts, latest, world, stopSeen>>

ClickStop ==
  /\ ~stop
  /\ stop' = TRUE
  /\ stopSeen' = IF stopSeen = NotYet /\ running /\ cmd.action = "testrun"
                 THEN step ELSE stopSeen
  /\ UNCHANGED <<pending, running, gen, image, worker, web, world>>

\* GET /api/projects: opening the page asks the worker for a fresh list.
LoadProjects ==
  /\ "list" \in Disturb
  /\ Enqueue(ListCmd)
  /\ UNCHANGED <<stop, running, gen, image, worker, page, posts, world, stopSeen>>

\* showProjectInfo and the transfer publish into the same image.
SpsShows ==
  /\ "sps" \in Disturb
  /\ image' = [post |-> 0, with |-> 0, final |-> TRUE]
  /\ UNCHANGED <<pending, stop, running, gen, worker, web, world, stopSeen>>

\* The project file is deleted or renamed.
Vanish ==
  /\ "missing" \in Disturb
  /\ exists /\ exists' = FALSE
  /\ UNCHANGED <<state, worker, web, saved, on, stopSeen>>

\* In fast mode a stop may go unnoticed for StopStride steps, a shutdown may not.
Shutdown ==
  /\ "shutdown" \in Disturb
  /\ on /\ on' = FALSE
  /\ stopSeen' = IF /\ running /\ cmd.action = "testrun"
                    /\ stopSeen = NotYet \/ cmd.interval = 0
                 THEN step ELSE stopSeen
  /\ UNCHANGED <<state, worker, web, saved, exists>>

Web ==
  \/ \E c \in Pages : Prepare(c) \/ Post(c) \/ SeeDone(c)
  \/ ClickStop \/ LoadProjects \/ SpsShows \/ Vanish \/ Shutdown

----------------------------------------------------------------------------
\* The worker lists the projects once before it takes commands.
Init ==
  /\ pending = None /\ stop = FALSE /\ running = FALSE /\ gen = 0
  /\ image = [post |-> 0, with |-> 0, final |-> TRUE]
  /\ saved = 0 /\ on = TRUE /\ exists = TRUE
  /\ pc = "idle" /\ cmd = ListCmd /\ drawnWith = 0 /\ step = 0 /\ halted = FALSE
  /\ page = [c \in Pages |-> [pc |-> "idle", gen0 |-> 0, post |-> 0, saved |-> 0]]
  /\ posts = 0 /\ latest = ListCmd
  /\ stopSeen = NotYet

Next == Worker \/ Web

Spec == Init /\ [][Next]_vars

\* The worker thread is scheduled, and a waiting page polls every 180 ms; an
\* end that stays visible is therefore seen.
FairSpec == Spec /\ WF_vars(Worker) /\ \A c \in Pages : WF_vars(SeeDone(c))

----------------------------------------------------------------------------
WorkerPcs == {"idle", "lookup", "parse", "begin", "reset", "started", "base",
              "sweep", "frame", "pause", "final", "finish", "exit"}

TypeOK ==
  /\ pending \in Commands \cup {None} /\ cmd \in Commands /\ latest \in Commands
  /\ stop \in BOOLEAN /\ running \in BOOLEAN /\ on \in BOOLEAN /\ exists \in BOOLEAN
  /\ halted \in BOOLEAN /\ stopSeen \in {NotYet} \cup 0..Steps
  /\ image \in Images
  /\ pc \in WorkerPcs
  /\ gen \in 0..MaxPosts /\ saved \in Nat /\ drawnWith \in 0..saved
  /\ step \in 0..Steps /\ posts \in 0..MaxPosts
  /\ page \in [Pages -> [pc : {"idle", "post", "wait", "done"},
                         gen0 : Nat, post : 0..MaxPosts, saved : Nat]]

\* Once the worker has nothing left to do, the final image of the last command
\* is the one on show, unless the SPS thread has drawn over it: "es zaehlt immer
\* nur der zuletzt gesetzte Befehl" (app_state.h), but that one always counts.
LatestShown ==
  pc = "idle" /\ on /\ exists /\ pending = None /\ latest # ListCmd =>
    image.post \in {0, latest.post} /\ image.final /\ ~running

\* When a job's status falls back, its own last image is in place (or one of the
\* SPS thread); and a page that takes its job for ended never shows a mere frame
\* as the result, though it may show the final image of an earlier job.
FinalBeforeEnd ==
  [][/\ running /\ ~running' => image.final /\ image.post \in {0, cmd.post}
     /\ \A c \in Pages : SeeDone(c) => image.final]_vars

\* An image is never drawn with older parameters than the page had saved
\* before it posted the job ("FRISCH aus der Settings-DB").
FreshParams ==
  \A c \in Pages :
    page[c].post # 0 /\ image.post = page[c].post => image.with >= page[c].saved

\* A stop requested while a test run is shown as running is not lost: until the
\* run ends the flag is still set or the run has taken it, or the service ends.
StopNotLost == stopSeen # NotYet => stop \/ halted \/ ~on

\* A test run begins no step after the one it was about to make when it was told
\* to end: by a stop, if it pauses between the steps, or by a shutdown, at any pace.
StopPrompt ==
  stopSeen # NotYet /\ (cmd.interval > 0 \/ ~on) /\ pc \in {"frame", "pause"} =>
    step <= stopSeen

\* A page that waits for its job stops waiting, also when another page's job has
\* replaced its own; not so once a page load has replaced it, the project has
\* vanished or the service ends.
WaitEnds ==
  \A c \in Pages :
    page[c].pc = "wait" ~> page[c].pc # "wait" \/ latest = ListCmd \/ ~exists \/ ~on

\* After the shutdown the worker thread ends, also from inside a test run.
ShutdownEnds == ~on ~> pc = "exit"

\* "Wartet ueber den Generations-Zaehler zuverlaessig auf das Auftragsende"
\* (preview.html): the worker is alive, so every waiting page learns of an end.
EveryJobEnds == \A c \in Pages : page[c].pc = "wait" ~> page[c].pc # "wait"
=============================================================================
