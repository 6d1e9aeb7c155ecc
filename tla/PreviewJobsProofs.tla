------------------------- MODULE PreviewJobsProofs -------------------------
(***************************************************************************)
(* What PreviewJobs promises of stops, parameters and images, for any      *)
(* number of pages, jobs and steps.  The invariants follow the worker      *)
(* through its loop: where a job may be shown as running, what a stop has  *)
(* been turned into, with which parameters a job is drawn, and which       *)
(* command the queue, the worker or the image stands for.                  *)
(***************************************************************************)
EXTENDS PreviewJobs, TLAPS

RunPcs == {"base", "sweep", "frame", "pause", "final", "finish"}
DrawnPcs == {"begin", "reset", "started"} \cup RunPcs

FlagsOK ==
  /\ stop \in BOOLEAN /\ running \in BOOLEAN /\ on \in BOOLEAN /\ exists \in BOOLEAN
  /\ halted \in BOOLEAN

CommandsOK == pending \in Commands \cup {None} /\ cmd \in Commands /\ latest \in Commands

CountsOK ==
  /\ pc \in WorkerPcs
  /\ saved \in Nat /\ drawnWith \in 0..saved /\ posts \in 0..MaxPosts
  /\ step \in 0..Steps /\ (pc \in {"frame", "pause"} => step < Steps)
  /\ stopSeen \in {NotYet} \cup 0..Steps

\* A job is shown as running only from its begin to its end, a stop is remembered
\* only while one is, and only a test run sweeps.
RunPlace ==
  /\ running <=> pc \in RunPcs
  /\ stopSeen # NotYet => running /\ (stop \/ halted \/ ~on)
  /\ pc \in {"frame", "pause"} => ~halted
  /\ pc \in {"lookup", "parse"} => cmd.action # "list"
  /\ pc \in {"reset", "started", "base", "sweep", "frame", "pause"} =>
       cmd.action = "testrun"

\* How far a run has come since it was told to end.
StopPlace ==
  /\ pc \in {"begin", "reset", "started", "base"} => step = 0
  /\ stopSeen # NotYet /\ (cmd.interval > 0 \/ ~on) =>
       /\ pc \in {"frame", "pause"} => step <= stopSeen
       /\ pc = "sweep" => halted \/ ~on \/ step <= stopSeen

\* Posts are numbered; whatever carries a number has been posted.
PostsPlace ==
  /\ cmd.post <= posts /\ image.post <= posts
  /\ pending # None => pending.post <= posts
  /\ \A c \in Pages : page[c].saved <= saved

\* The parameters of the job at work are not older than its page's.
DrawnPlace ==
  pc \in DrawnPcs =>
    \A c \in Pages :
      page[c].post # 0 /\ cmd.post = page[c].post => drawnWith >= page[c].saved

\* Frames are on show during a sweep only; the last image is in place before the
\* end of the job is shown.
EndPlace ==
  /\ pc \notin {"sweep", "frame", "pause", "final"} => image.final
  /\ pc = "finish" => image.post \in {0, cmd.post}

\* Where the latest command is: in the queue, at work, or on show.
LatestPlace ==
  /\ pending # None => pending = latest
  /\ pending = None /\ latest # ListCmd =>
       /\ pc \notin {"idle", "exit"} => cmd = latest
       /\ pc = "idle" /\ exists => image.post \in {0, latest.post} /\ image.final

PagesOK ==
  /\ image \in Images
  /\ page \in [Pages -> [pc : {"idle", "post", "wait", "done"},
                         gen0 : Nat, post : 0..MaxPosts, saved : Nat]]
  /\ gen \in Nat

\* Every generation is a post; those in the queue or not looked up have none yet.
GenPlace ==
  gen + (IF pending \in Jobs THEN 1 ELSE 0) + (IF pc = "lookup" THEN 1 ELSE 0) <= posts

TypesOK == FlagsOK /\ CommandsOK /\ CountsOK /\ PagesOK

IInv == TypesOK /\ RunPlace /\ StopPlace /\ PostsPlace /\ DrawnPlace /\ EndPlace
          /\ LatestPlace /\ GenPlace /\ FreshParams

----------------------------------------------------------------------------
\* What a command carries.
LEMMA CommandFields ==
  ASSUME NEW d \in Commands
  PROVE  /\ d.post \in 0..MaxPosts /\ d.interval \in Nat
         /\ d.action \in {"list", "render", "testrun"}
BY PreviewAssumption DEF PreviewAssumption, Commands, Jobs, ListCmd

\* What a published image carries.
LEMMA ShownImage ==
  ASSUME CommandsOK, CountsOK, NEW final \in BOOLEAN
  PROVE  /\ Shown(final) \in Images
         /\ Shown(final).post = cmd.post /\ Shown(final).with = drawnWith
         /\ Shown(final).final = final
BY CommandFields, PreviewAssumption DEF CommandsOK, CountsOK, Shown, Images,
    PreviewAssumption

\* A posted page waits with its number.
LEMMA PostedPage ==
  ASSUME PagesOK, NEW c \in Pages, NEW n \in 0..MaxPosts
  PROVE  [page EXCEPT ![c].pc = "wait", ![c].post = n]
           \in [Pages -> [pc : {"idle", "post", "wait", "done"},
                         gen0 : Nat, post : 0..MaxPosts, saved : Nat]]
BY DEF PagesOK

\* Every action keeps the flags Boolean.
LEMMA FlagsStep == FlagsOK /\ [Next]_vars => FlagsOK'
<1> SUFFICES ASSUME FlagsOK, [Next]_vars PROVE FlagsOK'
  OBVIOUS
<1> USE DEF FlagsOK, At, PageAt, Enqueue, ScopeEnds, state, worker, web, world
<1>1. CASE Worker
  <2>1. CASE Take BY <2>1, Zenon DEF Take
  <2>2. CASE NotFound BY <2>2, Zenon DEF NotFound
  <2>3. CASE Bump BY <2>3, Zenon DEF Bump
  <2>4. CASE Parse BY <2>4, Zenon DEF Parse
  <2>5. CASE RenderBegin BY <2>5, Zenon DEF RenderBegin
  <2>6. CASE ResetStop BY <2>6, Zenon DEF ResetStop
  <2>7. CASE Started BY <2>7, Zenon DEF Started
  <2>8. CASE Base BY <2>8, Zenon DEF Base
  <2>9. CASE Sweep BY <2>9, Zenon DEF Sweep
  <2>10. CASE Frame BY <2>10, Zenon DEF Frame
  <2>11. CASE Pause BY <2>11, Zenon DEF Pause
  <2>12. CASE FinalImage BY <2>12, Zenon DEF FinalImage
  <2>13. CASE Finish BY <2>13, Zenon DEF Finish
  <2>14. CASE Exit BY <2>14, Zenon DEF Exit
  <2> QED BY <1>1, <2>1, <2>2, <2>3, <2>4, <2>5, <2>6, <2>7, <2>8, <2>9, <2>10, <2>11,
      <2>12, <2>13, <2>14 DEF Worker
<1>2. ASSUME NEW c \in Pages, Prepare(c) PROVE FlagsOK'
  BY <1>2, Zenon DEF Prepare
<1>3. ASSUME NEW c \in Pages, Post(c) PROVE FlagsOK'
  BY <1>3, Zenon DEF Post
<1>4. ASSUME NEW c \in Pages, SeeDone(c) PROVE FlagsOK'
  BY <1>4, Zenon DEF SeeDone
<1>5. CASE ClickStop BY <1>5, Zenon DEF ClickStop
<1>6. CASE LoadProjects BY <1>6, Zenon DEF LoadProjects
<1>7. CASE SpsShows BY <1>7, Zenon DEF SpsShows
<1>8. CASE Vanish BY <1>8, Zenon DEF Vanish
<1>9. CASE Shutdown BY <1>9, Zenon DEF Shutdown
<1>10. CASE UNCHANGED vars BY <1>10, Zenon DEF vars
<1> QED BY <1>1, <1>2, <1>3, <1>4, <1>5, <1>6, <1>7, <1>8, <1>9, <1>10 DEF Next, Web

\* Every action keeps commands commands.
LEMMA CommandsStep == CommandsOK /\ [Next]_vars => CommandsOK'
<1> SUFFICES ASSUME CommandsOK, [Next]_vars PROVE CommandsOK'
  OBVIOUS
<1> USE PreviewAssumption, NoneAssumption DEF CommandsOK, Commands, ListCmd, At, PageAt,
    Enqueue, ScopeEnds, state, worker, web, world
<1>1. CASE Worker
  <2>1. CASE Take BY <2>1 DEF Take
  <2>2. CASE NotFound BY <2>2 DEF NotFound
  <2>3. CASE Bump BY <2>3 DEF Bump
  <2>4. CASE Parse BY <2>4 DEF Parse
  <2>5. CASE RenderBegin BY <2>5 DEF RenderBegin
  <2>6. CASE ResetStop BY <2>6 DEF ResetStop
  <2>7. CASE Started BY <2>7 DEF Started
  <2>8. CASE Base BY <2>8 DEF Base
  <2>9. CASE Sweep BY <2>9 DEF Sweep
  <2>10. CASE Frame BY <2>10 DEF Frame
  <2>11. CASE Pause BY <2>11 DEF Pause
  <2>12. CASE FinalImage BY <2>12 DEF FinalImage
  <2>13. CASE Finish BY <2>13 DEF Finish
  <2>14. CASE Exit BY <2>14 DEF Exit
  <2> QED BY <1>1, <2>1, <2>2, <2>3, <2>4, <2>5, <2>6, <2>7, <2>8, <2>9, <2>10, <2>11,
      <2>12, <2>13, <2>14 DEF Worker
<1>2. ASSUME NEW c \in Pages, Prepare(c) PROVE CommandsOK'
  BY <1>2 DEF Prepare
<1>3. ASSUME NEW c \in Pages, Post(c) PROVE CommandsOK'
  BY <1>3 DEF Post
<1>4. ASSUME NEW c \in Pages, SeeDone(c) PROVE CommandsOK'
  BY <1>4 DEF SeeDone
<1>5. CASE ClickStop BY <1>5 DEF ClickStop
<1>6. CASE LoadProjects BY <1>6 DEF LoadProjects
<1>7. CASE SpsShows BY <1>7 DEF SpsShows
<1>8. CASE Vanish BY <1>8 DEF Vanish
<1>9. CASE Shutdown BY <1>9 DEF Shutdown
<1>10. CASE UNCHANGED vars BY <1>10 DEF vars
<1> QED BY <1>1, <1>2, <1>3, <1>4, <1>5, <1>6, <1>7, <1>8, <1>9, <1>10 DEF Next, Web

\* Every action keeps the counters.
LEMMA CountsStep == CountsOK /\ [Next]_vars => CountsOK'
<1> SUFFICES ASSUME CountsOK, [Next]_vars PROVE CountsOK'
  OBVIOUS
<1> USE PreviewAssumption, NoneAssumption DEF CountsOK, WorkerPcs, NotYet,
    PreviewAssumption, At, PageAt, Enqueue, ScopeEnds, state, worker, web, world
<1>1. CASE Worker
  <2>1. CASE Take BY <2>1 DEF Take
  <2>2. CASE NotFound BY <2>2 DEF NotFound
  <2>3. CASE Bump BY <2>3 DEF Bump
  <2>4. CASE Parse BY <2>4 DEF Parse
  <2>5. CASE RenderBegin BY <2>5 DEF RenderBegin
  <2>6. CASE ResetStop BY <2>6 DEF ResetStop
  <2>7. CASE Started BY <2>7 DEF Started
  <2>8. CASE Base BY <2>8 DEF Base
  <2>9. CASE Sweep BY <2>9 DEF Sweep
  <2>10. CASE Frame BY <2>10 DEF Frame
  <2>11. CASE Pause BY <2>11 DEF Pause
  <2>12. CASE FinalImage BY <2>12 DEF FinalImage
  <2>13. CASE Finish BY <2>13 DEF Finish
  <2>14. CASE Exit BY <2>14 DEF Exit
  <2> QED BY <1>1, <2>1, <2>2, <2>3, <2>4, <2>5, <2>6, <2>7, <2>8, <2>9, <2>10, <2>11,
      <2>12, <2>13, <2>14 DEF Worker
<1>2. ASSUME NEW c \in Pages, Prepare(c) PROVE CountsOK'
  BY <1>2 DEF Prepare
<1>3. ASSUME NEW c \in Pages, Post(c) PROVE CountsOK'
  BY <1>3 DEF Post
<1>4. ASSUME NEW c \in Pages, SeeDone(c) PROVE CountsOK'
  BY <1>4 DEF SeeDone
<1>5. CASE ClickStop BY <1>5 DEF ClickStop
<1>6. CASE LoadProjects BY <1>6 DEF LoadProjects
<1>7. CASE SpsShows BY <1>7 DEF SpsShows
<1>8. CASE Vanish BY <1>8 DEF Vanish
<1>9. CASE Shutdown BY <1>9 DEF Shutdown
<1>10. CASE UNCHANGED vars BY <1>10 DEF vars
<1> QED BY <1>1, <1>2, <1>3, <1>4, <1>5, <1>6, <1>7, <1>8, <1>9, <1>10 DEF Next, Web

\* Every action keeps images, pages and the generation what they are.
LEMMA PagesStep == TypesOK /\ [Next]_vars => PagesOK'
<1> SUFFICES ASSUME TypesOK, [Next]_vars PROVE PagesOK'
  OBVIOUS
<1> USE PreviewAssumption, NoneAssumption DEF PagesOK, CommandsOK, CountsOK, TypesOK,
    Shown, Images, PreviewAssumption, At, PageAt, Enqueue, ScopeEnds, state, worker, web,
    world
<1>1. CASE Worker
  <2>1. CASE Take BY <2>1, CommandFields DEF Take
  <2>2. CASE NotFound BY <2>2, CommandFields DEF NotFound
  <2>3. CASE Bump BY <2>3, CommandFields DEF Bump
  <2>4. CASE Parse BY <2>4, CommandFields DEF Parse
  <2>5. CASE RenderBegin BY <2>5, CommandFields DEF RenderBegin
  <2>6. CASE ResetStop BY <2>6, CommandFields DEF ResetStop
  <2>7. CASE Started BY <2>7, CommandFields DEF Started
  <2>8. CASE Base BY <2>8, CommandFields DEF Base
  <2>9. CASE Sweep BY <2>9, CommandFields DEF Sweep
  <2>10. CASE Frame BY <2>10, ShownImage DEF Frame
  <2>11. CASE Pause BY <2>11, CommandFields DEF Pause
  <2>12. CASE FinalImage BY <2>12, CommandFields DEF FinalImage
  <2>13. CASE Finish BY <2>13, CommandFields DEF Finish
  <2>14. CASE Exit BY <2>14, CommandFields DEF Exit
  <2> QED BY <1>1, <2>1, <2>2, <2>3, <2>4, <2>5, <2>6, <2>7, <2>8, <2>9, <2>10, <2>11,
      <2>12, <2>13, <2>14 DEF Worker
<1>2. ASSUME NEW c \in Pages, Prepare(c) PROVE PagesOK'
  BY <1>2, CommandFields DEF Prepare
<1>3. ASSUME NEW c \in Pages, Post(c) PROVE PagesOK'
  <2>1. posts' \in 0..MaxPosts /\ image' = image /\ gen' = gen BY <1>3 DEF Post
  <2>2. page' = [page EXCEPT ![c].pc = "wait", ![c].post = posts'] BY <1>3 DEF Post
  <2> QED BY <2>1, <2>2, PostedPage
<1>4. ASSUME NEW c \in Pages, SeeDone(c) PROVE PagesOK'
  BY <1>4, CommandFields DEF SeeDone
<1>5. CASE ClickStop BY <1>5, CommandFields DEF ClickStop
<1>6. CASE LoadProjects BY <1>6, CommandFields DEF LoadProjects
<1>7. CASE SpsShows BY <1>7, CommandFields DEF SpsShows
<1>8. CASE Vanish BY <1>8, CommandFields DEF Vanish
<1>9. CASE Shutdown BY <1>9, CommandFields DEF Shutdown
<1>10. CASE UNCHANGED vars BY <1>10, CommandFields DEF vars
<1> QED BY <1>1, <1>2, <1>3, <1>4, <1>5, <1>6, <1>7, <1>8, <1>9, <1>10 DEF Next, Web

\* Running, stops and the sweep keep to their places.
LEMMA RunStep == TypesOK /\ RunPlace /\ [Next]_vars => RunPlace'
<1> SUFFICES ASSUME TypesOK /\ RunPlace, [Next]_vars PROVE RunPlace'
  OBVIOUS
<1> USE PreviewAssumption, NoneAssumption DEF RunPlace, RunPcs, TypesOK, FlagsOK,
    CountsOK, NotYet, At, PageAt, Enqueue, ScopeEnds, state, worker, web, world
<1>1. CASE Worker
  <2>1. CASE Take BY <2>1, CommandFields DEF Take, CommandsOK
  <2>2. CASE NotFound BY <2>2 DEF NotFound
  <2>3. CASE Bump BY <2>3 DEF Bump
  <2>4. CASE Parse BY <2>4, CommandFields DEF Parse, CommandsOK
  <2>5. CASE RenderBegin BY <2>5 DEF RenderBegin
  <2>6. CASE ResetStop BY <2>6 DEF ResetStop
  <2>7. CASE Started BY <2>7 DEF Started
  <2>8. CASE Base BY <2>8 DEF Base
  <2>9. CASE Sweep BY <2>9 DEF Sweep
  <2>10. CASE Frame BY <2>10 DEF Frame
  <2>11. CASE Pause BY <2>11 DEF Pause
  <2>12. CASE FinalImage BY <2>12 DEF FinalImage
  <2>13. CASE Finish BY <2>13 DEF Finish
  <2>14. CASE Exit BY <2>14 DEF Exit
  <2> QED BY <1>1, <2>1, <2>2, <2>3, <2>4, <2>5, <2>6, <2>7, <2>8, <2>9, <2>10, <2>11,
      <2>12, <2>13, <2>14 DEF Worker
<1>2. ASSUME NEW c \in Pages, Prepare(c) PROVE RunPlace'
  BY <1>2 DEF Prepare
<1>3. ASSUME NEW c \in Pages, Post(c) PROVE RunPlace'
  BY <1>3 DEF Post
<1>4. ASSUME NEW c \in Pages, SeeDone(c) PROVE RunPlace'
  BY <1>4 DEF SeeDone
<1>5. CASE ClickStop BY <1>5 DEF ClickStop
<1>6. CASE LoadProjects BY <1>6 DEF LoadProjects
<1>7. CASE SpsShows BY <1>7 DEF SpsShows
<1>8. CASE Vanish BY <1>8 DEF Vanish
<1>9. CASE Shutdown BY <1>9 DEF Shutdown
<1>10. CASE UNCHANGED vars BY <1>10 DEF vars
<1> QED BY <1>1, <1>2, <1>3, <1>4, <1>5, <1>6, <1>7, <1>8, <1>9, <1>10 DEF Next, Web

\* A stopped run does not come further than one step.
LEMMA StopStep == TypesOK /\ RunPlace /\ StopPlace /\ [Next]_vars => StopPlace'
<1> SUFFICES ASSUME TypesOK /\ RunPlace /\ StopPlace, [Next]_vars PROVE StopPlace'
  OBVIOUS
<1> USE PreviewAssumption, NoneAssumption DEF StopPlace, RunPlace, RunPcs, TypesOK,
    CountsOK, NotYet, At, PageAt, Enqueue, ScopeEnds, state, worker, web, world
<1>1. CASE Worker
  <2>1. CASE Take BY <2>1, CommandFields DEF Take
  <2>2. CASE NotFound BY <2>2, CommandFields DEF NotFound
  <2>3. CASE Bump BY <2>3, CommandFields DEF Bump
  <2>4. CASE Parse BY <2>4, CommandFields DEF Parse
  <2>5. CASE RenderBegin BY <2>5, CommandFields DEF RenderBegin
  <2>6. CASE ResetStop BY <2>6, CommandFields DEF ResetStop
  <2>7. CASE Started BY <2>7, CommandFields DEF Started
  <2>8. CASE Base BY <2>8, CommandFields DEF Base
  <2>9. CASE Sweep BY <2>9, CommandFields DEF Sweep
  <2>10. CASE Frame BY <2>10, CommandFields DEF Frame
  <2>11. CASE Pause BY <2>11, CommandFields DEF Pause
  <2>12. CASE FinalImage BY <2>12, CommandFields DEF FinalImage
  <2>13. CASE Finish BY <2>13, CommandFields DEF Finish
  <2>14. CASE Exit BY <2>14, CommandFields DEF Exit
  <2> QED BY <1>1, <2>1, <2>2, <2>3, <2>4, <2>5, <2>6, <2>7, <2>8, <2>9, <2>10, <2>11,
      <2>12, <2>13, <2>14 DEF Worker
<1>2. ASSUME NEW c \in Pages, Prepare(c) PROVE StopPlace'
  BY <1>2, CommandFields DEF Prepare
<1>3. ASSUME NEW c \in Pages, Post(c) PROVE StopPlace'
  BY <1>3, CommandFields DEF Post
<1>4. ASSUME NEW c \in Pages, SeeDone(c) PROVE StopPlace'
  BY <1>4, CommandFields DEF SeeDone
<1>5. CASE ClickStop BY <1>5, CommandFields DEF ClickStop
<1>6. CASE LoadProjects BY <1>6, CommandFields DEF LoadProjects
<1>7. CASE SpsShows BY <1>7, CommandFields DEF SpsShows
<1>8. CASE Vanish BY <1>8, CommandFields DEF Vanish
<1>9. CASE Shutdown BY <1>9, CommandFields DEF Shutdown, CommandsOK
<1>10. CASE UNCHANGED vars BY <1>10, CommandFields DEF vars
<1> QED BY <1>1, <1>2, <1>3, <1>4, <1>5, <1>6, <1>7, <1>8, <1>9, <1>10 DEF Next, Web

\* Numbers are not used before they are given.
LEMMA PostsStep == TypesOK /\ PostsPlace /\ [Next]_vars => PostsPlace'
<1> SUFFICES ASSUME TypesOK /\ PostsPlace, [Next]_vars PROVE PostsPlace'
  OBVIOUS
<1> USE PreviewAssumption, NoneAssumption DEF PostsPlace, TypesOK, CommandsOK, CountsOK,
    PagesOK, Images, ListCmd, At, PageAt, Enqueue, ScopeEnds, state, worker, web, world
<1>1. CASE Worker
  <2>1. CASE Take BY <2>1, CommandFields DEF Take
  <2>2. CASE NotFound BY <2>2, CommandFields DEF NotFound
  <2>3. CASE Bump BY <2>3, CommandFields DEF Bump
  <2>4. CASE Parse BY <2>4, CommandFields DEF Parse
  <2>5. CASE RenderBegin BY <2>5, CommandFields DEF RenderBegin
  <2>6. CASE ResetStop BY <2>6, CommandFields DEF ResetStop
  <2>7. CASE Started BY <2>7, CommandFields DEF Started
  <2>8. CASE Base BY <2>8, CommandFields, ShownImage DEF Base
  <2>9. CASE Sweep BY <2>9, CommandFields DEF Sweep
  <2>10. CASE Frame BY <2>10, CommandFields, ShownImage DEF Frame
  <2>11. CASE Pause BY <2>11, CommandFields DEF Pause
  <2>12. CASE FinalImage BY <2>12, CommandFields, ShownImage DEF FinalImage
  <2>13. CASE Finish BY <2>13, CommandFields DEF Finish
  <2>14. CASE Exit BY <2>14, CommandFields DEF Exit
  <2> QED BY <1>1, <2>1, <2>2, <2>3, <2>4, <2>5, <2>6, <2>7, <2>8, <2>9, <2>10, <2>11,
      <2>12, <2>13, <2>14 DEF Worker
<1>2. ASSUME NEW c \in Pages, Prepare(c) PROVE PostsPlace'
  BY <1>2, CommandFields DEF Prepare
<1>3. ASSUME NEW c \in Pages, Post(c) PROVE PostsPlace'
  BY <1>3, CommandFields DEF Post
<1>4. ASSUME NEW c \in Pages, SeeDone(c) PROVE PostsPlace'
  BY <1>4, CommandFields DEF SeeDone
<1>5. CASE ClickStop BY <1>5, CommandFields DEF ClickStop
<1>6. CASE LoadProjects BY <1>6, CommandFields DEF LoadProjects
<1>7. CASE SpsShows BY <1>7, CommandFields DEF SpsShows
<1>8. CASE Vanish BY <1>8, CommandFields DEF Vanish
<1>9. CASE Shutdown BY <1>9, CommandFields DEF Shutdown
<1>10. CASE UNCHANGED vars BY <1>10, CommandFields DEF vars
<1> QED BY <1>1, <1>2, <1>3, <1>4, <1>5, <1>6, <1>7, <1>8, <1>9, <1>10 DEF Next, Web

\* A job is drawn with what its page had saved.
LEMMA DrawnStep == TypesOK /\ PostsPlace /\ DrawnPlace /\ [Next]_vars => DrawnPlace'
<1> SUFFICES ASSUME TypesOK /\ PostsPlace /\ DrawnPlace, [Next]_vars PROVE DrawnPlace'
  OBVIOUS
<1> USE PreviewAssumption, NoneAssumption DEF DrawnPlace, DrawnPcs, RunPcs, PostsPlace,
    TypesOK, CommandsOK, CountsOK, PagesOK, At, PageAt, Enqueue, ScopeEnds, state, worker,
    web, world
<1>1. CASE Worker
  <2>1. CASE Take BY <2>1, CommandFields DEF Take
  <2>2. CASE NotFound BY <2>2, CommandFields DEF NotFound
  <2>3. CASE Bump BY <2>3, CommandFields DEF Bump
  <2>4. CASE Parse BY <2>4, CommandFields DEF Parse
  <2>5. CASE RenderBegin BY <2>5, CommandFields DEF RenderBegin
  <2>6. CASE ResetStop BY <2>6, CommandFields DEF ResetStop
  <2>7. CASE Started BY <2>7, CommandFields DEF Started
  <2>8. CASE Base BY <2>8, CommandFields DEF Base
  <2>9. CASE Sweep BY <2>9, CommandFields DEF Sweep
  <2>10. CASE Frame BY <2>10, CommandFields DEF Frame
  <2>11. CASE Pause BY <2>11, CommandFields DEF Pause
  <2>12. CASE FinalImage BY <2>12, CommandFields DEF FinalImage
  <2>13. CASE Finish BY <2>13, CommandFields DEF Finish
  <2>14. CASE Exit BY <2>14, CommandFields DEF Exit
  <2> QED BY <1>1, <2>1, <2>2, <2>3, <2>4, <2>5, <2>6, <2>7, <2>8, <2>9, <2>10, <2>11,
      <2>12, <2>13, <2>14 DEF Worker
<1>2. ASSUME NEW c \in Pages, Prepare(c) PROVE DrawnPlace'
  BY <1>2, CommandFields DEF Prepare
<1>3. ASSUME NEW c \in Pages, Post(c) PROVE DrawnPlace'
  BY <1>3, CommandFields DEF Post
<1>4. ASSUME NEW c \in Pages, SeeDone(c) PROVE DrawnPlace'
  BY <1>4, CommandFields DEF SeeDone
<1>5. CASE ClickStop BY <1>5, CommandFields DEF ClickStop
<1>6. CASE LoadProjects BY <1>6, CommandFields DEF LoadProjects
<1>7. CASE SpsShows BY <1>7, CommandFields DEF SpsShows
<1>8. CASE Vanish BY <1>8, CommandFields DEF Vanish
<1>9. CASE Shutdown BY <1>9, CommandFields DEF Shutdown
<1>10. CASE UNCHANGED vars BY <1>10, CommandFields DEF vars
<1> QED BY <1>1, <1>2, <1>3, <1>4, <1>5, <1>6, <1>7, <1>8, <1>9, <1>10 DEF Next, Web

\* The last image is published before the end.
LEMMA EndStep == TypesOK /\ EndPlace /\ [Next]_vars => EndPlace'
<1> SUFFICES ASSUME TypesOK /\ EndPlace, [Next]_vars PROVE EndPlace'
  OBVIOUS
<1> USE PreviewAssumption, NoneAssumption DEF EndPlace, TypesOK, PagesOK, Shown, Images,
    At, PageAt, Enqueue, ScopeEnds, state, worker, web, world
<1>1. CASE Worker
  <2>1. CASE Take BY <2>1 DEF Take
  <2>2. CASE NotFound BY <2>2 DEF NotFound
  <2>3. CASE Bump BY <2>3 DEF Bump
  <2>4. CASE Parse BY <2>4 DEF Parse
  <2>5. CASE RenderBegin BY <2>5 DEF RenderBegin
  <2>6. CASE ResetStop BY <2>6 DEF ResetStop
  <2>7. CASE Started BY <2>7 DEF Started
  <2>8. CASE Base BY <2>8 DEF Base
  <2>9. CASE Sweep BY <2>9 DEF Sweep
  <2>10. CASE Frame BY <2>10 DEF Frame
  <2>11. CASE Pause BY <2>11 DEF Pause
  <2>12. CASE FinalImage BY <2>12 DEF FinalImage
  <2>13. CASE Finish BY <2>13 DEF Finish
  <2>14. CASE Exit BY <2>14 DEF Exit
  <2> QED BY <1>1, <2>1, <2>2, <2>3, <2>4, <2>5, <2>6, <2>7, <2>8, <2>9, <2>10, <2>11,
      <2>12, <2>13, <2>14 DEF Worker
<1>2. ASSUME NEW c \in Pages, Prepare(c) PROVE EndPlace'
  BY <1>2 DEF Prepare
<1>3. ASSUME NEW c \in Pages, Post(c) PROVE EndPlace'
  BY <1>3 DEF Post
<1>4. ASSUME NEW c \in Pages, SeeDone(c) PROVE EndPlace'
  BY <1>4 DEF SeeDone
<1>5. CASE ClickStop BY <1>5 DEF ClickStop
<1>6. CASE LoadProjects BY <1>6 DEF LoadProjects
<1>7. CASE SpsShows BY <1>7 DEF SpsShows
<1>8. CASE Vanish BY <1>8 DEF Vanish
<1>9. CASE Shutdown BY <1>9 DEF Shutdown
<1>10. CASE UNCHANGED vars BY <1>10 DEF vars
<1> QED BY <1>1, <1>2, <1>3, <1>4, <1>5, <1>6, <1>7, <1>8, <1>9, <1>10 DEF Next, Web

\* The latest command is in the queue, at work or on show.
LEMMA LatestStep == TypesOK /\ EndPlace /\ LatestPlace /\ [Next]_vars => LatestPlace'
<1> SUFFICES ASSUME TypesOK /\ EndPlace /\ LatestPlace, [Next]_vars PROVE LatestPlace'
  OBVIOUS
<1> USE PreviewAssumption, NoneAssumption DEF LatestPlace, EndPlace, TypesOK, CommandsOK,
    CountsOK, WorkerPcs, ListCmd, Commands, Jobs, At, PageAt, Enqueue, ScopeEnds, state,
    worker, web, world
<1>1. CASE Worker
  <2>1. CASE Take BY <2>1 DEF Take
  <2>2. CASE NotFound BY <2>2 DEF NotFound
  <2>3. CASE Bump BY <2>3 DEF Bump
  <2>4. CASE Parse BY <2>4 DEF Parse
  <2>5. CASE RenderBegin BY <2>5 DEF RenderBegin
  <2>6. CASE ResetStop BY <2>6 DEF ResetStop
  <2>7. CASE Started BY <2>7 DEF Started
  <2>8. CASE Base BY <2>8 DEF Base
  <2>9. CASE Sweep BY <2>9 DEF Sweep
  <2>10. CASE Frame BY <2>10 DEF Frame
  <2>11. CASE Pause BY <2>11 DEF Pause
  <2>12. CASE FinalImage BY <2>12 DEF FinalImage
  <2>13. CASE Finish BY <2>13 DEF Finish
  <2>14. CASE Exit BY <2>14 DEF Exit
  <2> QED BY <1>1, <2>1, <2>2, <2>3, <2>4, <2>5, <2>6, <2>7, <2>8, <2>9, <2>10, <2>11,
      <2>12, <2>13, <2>14 DEF Worker
<1>2. ASSUME NEW c \in Pages, Prepare(c) PROVE LatestPlace'
  BY <1>2 DEF Prepare
<1>3. ASSUME NEW c \in Pages, Post(c) PROVE LatestPlace'
  BY <1>3 DEF Post
<1>4. ASSUME NEW c \in Pages, SeeDone(c) PROVE LatestPlace'
  BY <1>4 DEF SeeDone
<1>5. CASE ClickStop BY <1>5 DEF ClickStop
<1>6. CASE LoadProjects BY <1>6 DEF LoadProjects
<1>7. CASE SpsShows BY <1>7 DEF SpsShows
<1>8. CASE Vanish BY <1>8 DEF Vanish
<1>9. CASE Shutdown BY <1>9 DEF Shutdown
<1>10. CASE UNCHANGED vars BY <1>10 DEF vars
<1> QED BY <1>1, <1>2, <1>3, <1>4, <1>5, <1>6, <1>7, <1>8, <1>9, <1>10 DEF Next, Web

\* A job has at most one generation.
LEMMA GenStep == TypesOK /\ GenPlace /\ [Next]_vars => GenPlace'
<1> SUFFICES ASSUME TypesOK /\ GenPlace, [Next]_vars PROVE GenPlace'
  OBVIOUS
<1> USE PreviewAssumption, NoneAssumption DEF GenPlace, TypesOK, CommandsOK, CountsOK,
    PagesOK, WorkerPcs, ListCmd, Commands, Jobs, At, PageAt, Enqueue, ScopeEnds, state,
    worker, web, world
<1>1. CASE Worker
  <2>1. CASE Take BY <2>1 DEF Take
  <2>2. CASE NotFound BY <2>2 DEF NotFound
  <2>3. CASE Bump BY <2>3 DEF Bump
  <2>4. CASE Parse BY <2>4 DEF Parse
  <2>5. CASE RenderBegin BY <2>5 DEF RenderBegin
  <2>6. CASE ResetStop BY <2>6 DEF ResetStop
  <2>7. CASE Started BY <2>7 DEF Started
  <2>8. CASE Base BY <2>8 DEF Base
  <2>9. CASE Sweep BY <2>9 DEF Sweep
  <2>10. CASE Frame BY <2>10 DEF Frame
  <2>11. CASE Pause BY <2>11 DEF Pause
  <2>12. CASE FinalImage BY <2>12 DEF FinalImage
  <2>13. CASE Finish BY <2>13 DEF Finish
  <2>14. CASE Exit BY <2>14 DEF Exit
  <2> QED BY <1>1, <2>1, <2>2, <2>3, <2>4, <2>5, <2>6, <2>7, <2>8, <2>9, <2>10, <2>11,
      <2>12, <2>13, <2>14 DEF Worker
<1>2. ASSUME NEW c \in Pages, Prepare(c) PROVE GenPlace'
  BY <1>2 DEF Prepare
<1>3. ASSUME NEW c \in Pages, Post(c) PROVE GenPlace'
  BY <1>3 DEF Post
<1>4. ASSUME NEW c \in Pages, SeeDone(c) PROVE GenPlace'
  BY <1>4 DEF SeeDone
<1>5. CASE ClickStop BY <1>5 DEF ClickStop
<1>6. CASE LoadProjects BY <1>6 DEF LoadProjects
<1>7. CASE SpsShows BY <1>7 DEF SpsShows
<1>8. CASE Vanish BY <1>8 DEF Vanish
<1>9. CASE Shutdown BY <1>9 DEF Shutdown
<1>10. CASE UNCHANGED vars BY <1>10 DEF vars
<1> QED BY <1>1, <1>2, <1>3, <1>4, <1>5, <1>6, <1>7, <1>8, <1>9, <1>10 DEF Next, Web

\* What is drawn is not older than what was saved.
LEMMA FreshStep == TypesOK /\ PostsPlace /\ DrawnPlace /\ FreshParams /\ [Next]_vars =>
    FreshParams'
<1> SUFFICES ASSUME TypesOK /\ PostsPlace /\ DrawnPlace /\ FreshParams, [Next]_vars PROVE
    FreshParams'
  OBVIOUS
<1> USE PreviewAssumption, NoneAssumption DEF FreshParams, DrawnPlace, DrawnPcs, RunPcs,
    PostsPlace, TypesOK, CommandsOK, CountsOK, PagesOK, Images, Shown, At, PageAt,
    Enqueue, ScopeEnds, state, worker, web, world
<1>1. CASE Worker
  <2>1. CASE Take BY <2>1, CommandFields DEF Take
  <2>2. CASE NotFound BY <2>2, CommandFields DEF NotFound
  <2>3. CASE Bump BY <2>3, CommandFields DEF Bump
  <2>4. CASE Parse BY <2>4, CommandFields DEF Parse
  <2>5. CASE RenderBegin BY <2>5, CommandFields DEF RenderBegin
  <2>6. CASE ResetStop BY <2>6, CommandFields DEF ResetStop
  <2>7. CASE Started BY <2>7, CommandFields DEF Started
  <2>8. CASE Base BY <2>8, CommandFields DEF Base
  <2>9. CASE Sweep BY <2>9, CommandFields DEF Sweep
  <2>10. CASE Frame BY <2>10, CommandFields DEF Frame
  <2>11. CASE Pause BY <2>11, CommandFields DEF Pause
  <2>12. CASE FinalImage BY <2>12, CommandFields DEF FinalImage
  <2>13. CASE Finish BY <2>13, CommandFields DEF Finish
  <2>14. CASE Exit BY <2>14, CommandFields DEF Exit
  <2> QED BY <1>1, <2>1, <2>2, <2>3, <2>4, <2>5, <2>6, <2>7, <2>8, <2>9, <2>10, <2>11,
      <2>12, <2>13, <2>14 DEF Worker
<1>2. ASSUME NEW c \in Pages, Prepare(c) PROVE FreshParams'
  BY <1>2, CommandFields DEF Prepare
<1>3. ASSUME NEW c \in Pages, Post(c) PROVE FreshParams'
  BY <1>3, CommandFields DEF Post
<1>4. ASSUME NEW c \in Pages, SeeDone(c) PROVE FreshParams'
  BY <1>4, CommandFields DEF SeeDone
<1>5. CASE ClickStop BY <1>5, CommandFields DEF ClickStop
<1>6. CASE LoadProjects BY <1>6, CommandFields DEF LoadProjects
<1>7. CASE SpsShows BY <1>7, CommandFields DEF SpsShows
<1>8. CASE Vanish BY <1>8, CommandFields DEF Vanish
<1>9. CASE Shutdown BY <1>9, CommandFields DEF Shutdown
<1>10. CASE UNCHANGED vars BY <1>10, CommandFields DEF vars
<1> QED BY <1>1, <1>2, <1>3, <1>4, <1>5, <1>6, <1>7, <1>8, <1>9, <1>10 DEF Next, Web

----------------------------------------------------------------------------
LEMMA InitInv == Init => IInv
<1> SUFFICES ASSUME Init PROVE IInv
  OBVIOUS
<1> USE PreviewAssumption, NoneAssumption DEF PreviewAssumption, Init
<1>1. TypesOK
  <2>1. FlagsOK BY Zenon DEF FlagsOK
  <2>2. CountsOK BY DEF CountsOK, WorkerPcs, NotYet
  <2>3. CommandsOK BY DEF CommandsOK, Commands
  <2>4. PagesOK BY DEF PagesOK, Images
  <2> QED BY <2>1, <2>2, <2>3, <2>4 DEF TypesOK
<1>2. RunPlace /\ StopPlace /\ EndPlace
  BY DEF RunPlace, StopPlace, EndPlace, RunPcs, NotYet
<1>3. PostsPlace /\ DrawnPlace /\ FreshParams
  BY DEF PostsPlace, DrawnPlace, DrawnPcs, RunPcs, FreshParams, ListCmd
<1>4. LatestPlace
  BY DEF LatestPlace
<1>5. GenPlace
  BY DEF GenPlace, Jobs, Commands
<1> QED BY <1>1, <1>2, <1>3, <1>4, <1>5 DEF IInv

LEMMA StepInv == IInv /\ [Next]_vars => IInv'
BY FlagsStep, CommandsStep, CountsStep, PagesStep, RunStep, StopStep, PostsStep,
   DrawnStep, EndStep, LatestStep, GenStep, FreshStep DEF IInv, TypesOK

\* The strengthening of the invariants below is inductive.
THEOREM IInvHolds == Spec => []IInv
BY InitInv, StepInv, PTL DEF Spec

\* Generations, steps and posts stay within the bounds, images are of posts.
THEOREM TypeHolds == Spec => []TypeOK
<1>1. IInv => TypeOK
  <2> SUFFICES ASSUME IInv PROVE TypeOK
    OBVIOUS
  <2>1. gen \in 0..MaxPosts
    BY PreviewAssumption DEF IInv, TypesOK, PagesOK, CountsOK, GenPlace, PreviewAssumption
  <2> QED BY <2>1 DEF IInv, TypesOK, FlagsOK, CommandsOK, CountsOK, PagesOK, TypeOK
<1> QED BY <1>1, IInvHolds, PTL

\* Once the worker is idle the image of the last command is on show.
THEOREM LatestShownHolds == Spec => []LatestShown
<1>1. IInv => LatestShown
  BY DEF IInv, TypesOK, CommandsOK, LatestPlace, RunPlace, RunPcs, LatestShown
<1> QED BY <1>1, IInvHolds, PTL

\* No image is drawn with older parameters than its page had saved.
THEOREM FreshParamsHolds == Spec => []FreshParams
BY IInvHolds, PTL DEF IInv

\* A stop of a running test run stays set until the run has taken it.
THEOREM StopNotLostHolds == Spec => []StopNotLost
<1>1. IInv => StopNotLost
  BY DEF IInv, RunPlace, StopNotLost
<1> QED BY <1>1, IInvHolds, PTL

\* A test run begins no further step once it was told to end: by a stop, with
\* pauses between the steps, or by a shutdown.
THEOREM StopPromptHolds == Spec => []StopPrompt
<1>1. IInv => StopPrompt
  <2> SUFFICES ASSUME IInv, stopSeen # NotYet, cmd.interval > 0 \/ ~on,
                      pc \in {"frame", "pause"}
               PROVE  step <= stopSeen
    BY DEF StopPrompt
  <2> QED BY DEF IInv, TypesOK, CountsOK, StopPlace, NotYet
<1> QED BY <1>1, IInvHolds, PTL

\* The end of a job is shown when its final image is in place, never before; and no
\* page takes a frame for a result.
THEOREM FinalBeforeEndHolds == Spec => FinalBeforeEnd
<1> DEFINE Falls == running /\ ~running' => image.final /\ image.post \in {0, cmd.post}
           Seen  == \A c \in Pages : SeeDone(c) => image.final
<1>1. IInv /\ [Next]_vars => [Falls /\ Seen]_vars
  <2> SUFFICES ASSUME IInv, [Next]_vars PROVE Falls /\ Seen
    OBVIOUS
  <2> USE DEF IInv, RunPlace, RunPcs, EndPlace
  <2>1. ASSUME running, ~running' PROVE image.final /\ image.post \in {0, cmd.post}
    <3> USE <2>1 DEF At, PageAt, Enqueue, state, worker, web, world
    <3>1. CASE NotFound BY <3>1 DEF NotFound
    <3>2. CASE Finish BY <3>2 DEF Finish
    <3>3. CASE Worker /\ ~NotFound /\ ~Finish
      BY <3>3 DEF Worker, Take, Bump, Parse, RenderBegin, ResetStop, Started, Base, Sweep,
                  Frame, Pause, FinalImage, Exit
    <3>4. CASE Web
      BY <3>4 DEF Web, Prepare, Post, SeeDone, ClickStop, LoadProjects, SpsShows, Vanish,
          Shutdown
    <3>5. CASE UNCHANGED vars BY <3>5 DEF vars
    <3> QED BY <3>1, <3>2, <3>3, <3>4, <3>5 DEF Next
  <2>2. ASSUME NEW c \in Pages, SeeDone(c) PROVE image.final
    BY <2>2 DEF SeeDone
  <2> QED BY <2>1, <2>2
<1> QED BY <1>1, IInvHolds, PTL DEF Spec, FinalBeforeEnd
=============================================================================
