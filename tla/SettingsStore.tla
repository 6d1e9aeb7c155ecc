--------------------------- MODULE SettingsStore ---------------------------
(***************************************************************************)
(* SettingsStore: the settings in memory (cache_) and in the SQLite file,  *)
(* changed by setMany from the threads of the web server, read back by     *)
(* init after a restart, announced by two revision counters.               *)
(*                                                                         *)
(* setMany changes cache_ and writes the file under one lock, in two steps *)
(* here, because the process may die between them; the counters and the    *)
(* answer follow without the lock.  The file is written in one transaction *)
(* no return code of which is looked at: when the disk is full or the file *)
(* is locked, any part of it may be missing.                               *)
(***************************************************************************)
EXTENDS Integers, FiniteSets

CONSTANTS
  Writers,      \* threads of the web server that may serve a PUT
  Keys,         \* known settings (kDefaults)
  LiveKeys,     \* those in effect without a new connection (kLiveKeys)
  Values,       \* values a setting may have
  Default,      \* every setting's default
  Absent,       \* the file has no row for the key
  Free,         \* nobody holds mtx_
  MaxPuts,      \* bound: PUT requests
  MaxCrashes,   \* bound: times the process dies
  MaxFaults     \* bound: uses of the file that fail

ASSUME StoreAssumption ==
  /\ LiveKeys \subseteq Keys
  /\ Default \in Values /\ Absent \notin Values
  /\ IsFiniteSet(Writers) /\ Free \notin Writers
  /\ MaxPuts \in Nat /\ MaxCrashes \in Nat /\ MaxFaults \in Nat

VARIABLES
  cache,      \* cache_; after a crash, what it was
  db,         \* rows of the table settings
  rev,        \* rev_
  bootRev,    \* bootRev_
  up,         \* the process runs
  lock,       \* holder of mtx_
  writer,     \* per thread: its place in setMany and what it has accepted
  puts, crashes, faults,
  settled,    \* ghost: cache_ when the lock was last given back
  disturbing  \* ghost: requests since the start that changed more than live keys

vars == <<cache, db, rev, bootRev, up, lock, writer, puts, crashes, faults,
          settled, disturbing>>

----------------------------------------------------------------------------
\* Values for some of the keys: a request, or what is accepted of one.
Partial == UNION {[keys -> Values] : keys \in SUBSET Keys}

NoValues == [k \in {} |-> Default]
Resting == [pc |-> "rest", accepted |-> NoValues]

Updated(settings, values) ==
  [k \in Keys |-> IF k \in DOMAIN values THEN values[k] ELSE settings[k]]

\* What init makes of the rows: defaults for the missing ones.
Restored(rows) == [k \in Keys |-> IF rows[k] = Absent THEN Default ELSE rows[k]]

\* The part of a request that changes something.
Accepts(request) ==
  [k \in {key \in DOMAIN request : request[key] # cache[key]} |-> request[k]]

\* Faulty: a live key among the changed ones hides the others.
NeedsAll(accepted) == DOMAIN accepted # {} /\ DOMAIN accepted \cap LiveKeys = {}

\* The connection to the PLC is made anew if any changed key is not a live one.
NeedsReconnect(accepted) == DOMAIN accepted \ LiveKeys # {}

Fault == faults < MaxFaults /\ faults' = faults + 1

----------------------------------------------------------------------------
(* setMany                                                                 *)

WriterAt(t, label) == up /\ writer[t].pc = label
WriterGoes(t, label) == writer' = [writer EXCEPT ![t].pc = label]

\* Faulty: the file is written without the lock.
PutUnlocked(t) ==
  /\ WriterAt(t, "rest")
  /\ puts < MaxPuts /\ puts' = puts + 1
  /\ \E request \in Partial \ {NoValues} :
       /\ cache' = Updated(cache, Accepts(request))
       /\ writer' = [writer EXCEPT ![t] = [pc |-> "file", accepted |-> Accepts(request)]]
  /\ UNCHANGED <<db, rev, bootRev, up, lock, crashes, faults, settled, disturbing>>

\* A request without known keys never gets here; one without changes is done.
Put(t) ==
  /\ WriterAt(t, "rest") /\ lock = Free
  /\ puts < MaxPuts /\ puts' = puts + 1
  /\ \E request \in Partial \ {NoValues} :
       LET accepted == Accepts(request) IN
       /\ cache' = Updated(cache, accepted)
       /\ IF accepted = NoValues
          THEN WriterGoes(t, "answer") /\ UNCHANGED lock
          ELSE /\ writer' = [writer EXCEPT ![t] = [pc |-> "file", accepted |-> accepted]]
               /\ lock' = t
       /\ disturbing' = disturbing
            + (IF \E k \in Keys \ LiveKeys : cache'[k] # cache[k] THEN 1 ELSE 0)
  /\ UNCHANGED <<db, rev, bootRev, up, crashes, faults, settled>>

\* Faulty: every row is a transaction of its own.
WriteRows(t) ==
  /\ WriterAt(t, "file")
  /\ \E k \in DOMAIN writer[t].accepted :
       LET values == writer[t].accepted
           rest == {key \in DOMAIN values : db[key] # values[key]} \ {k} IN
       /\ db' = [db EXCEPT ![k] = values[k]]
       /\ IF rest = {} THEN WriterGoes(t, "rev") /\ lock' = Free /\ settled' = cache
                       ELSE UNCHANGED <<writer, lock, settled>>
  /\ UNCHANGED <<cache, rev, bootRev, up, puts, crashes, faults, disturbing>>

\* writeToDb, then the lock is given back.
WriteToDb(t) ==
  /\ WriterAt(t, "file") /\ WriterGoes(t, "rev")
  /\ lock' = Free
  /\ settled' = cache
  /\ LET accepted == writer[t].accepted IN
     \/ db' = Updated(db, accepted) /\ UNCHANGED faults
     \/ /\ Fault
        /\ \E written \in SUBSET DOMAIN accepted :
             db' = [k \in Keys |-> IF k \in written THEN accepted[k] ELSE db[k]]
  /\ UNCHANGED <<cache, rev, bootRev, up, puts, crashes, disturbing>>

CountRev(t) ==
  /\ WriterAt(t, "rev")
  /\ WriterGoes(t, IF NeedsReconnect(writer[t].accepted) THEN "boot" ELSE "answer")
  /\ rev' = rev + 1
  /\ UNCHANGED <<cache, db, bootRev, up, lock, puts, crashes, faults, settled, disturbing>>

CountBootRev(t) ==
  /\ WriterAt(t, "boot") /\ WriterGoes(t, "answer")
  /\ bootRev' = bootRev + 1
  /\ UNCHANGED <<cache, db, rev, up, lock, puts, crashes, faults, settled, disturbing>>

\* "status": "ok", whatever became of the file.
Answer(t) ==
  /\ WriterAt(t, "answer")
  /\ writer' = [writer EXCEPT ![t] = Resting]
  /\ UNCHANGED <<cache, db, rev, bootRev, up, lock, puts, crashes, faults, settled, disturbing>>

----------------------------------------------------------------------------
(* The process dies and is started again.                                  *)

\* An open transaction is rolled back: the rows are those of the last commit.
Crash ==
  /\ up /\ up' = FALSE
  /\ crashes < MaxCrashes /\ crashes' = crashes + 1
  /\ lock' = Free
  /\ writer' = [t \in Writers |-> Resting]
  /\ UNCHANGED <<cache, db, rev, bootRev, puts, faults, settled, disturbing>>

\* init.  When the file cannot be opened the service runs on the defaults (main
\* does not look at the result); a missing row may stay missing.
Start ==
  /\ ~up /\ up' = TRUE
  /\ bootRev' = 0 /\ disturbing' = 0
  /\ \/ /\ cache' = Restored(db) /\ rev' = 1
        /\ \/ db' = Restored(db) /\ UNCHANGED faults
           \/ /\ Fault
              /\ \E missing \in SUBSET Keys :
                   db' = [k \in Keys |-> IF k \in missing THEN db[k] ELSE Restored(db)[k]]
     \/ /\ cache' = [k \in Keys |-> Default] /\ rev' = 0
        /\ Fault /\ UNCHANGED db
  /\ settled' = cache'
  /\ UNCHANGED <<lock, writer, puts, crashes>>

----------------------------------------------------------------------------
\* The first start, on the file of an earlier installation or on none.
Init ==
  /\ up = FALSE
  /\ db \in [Keys -> Values \cup {Absent}]
  /\ cache = Restored(db)
  /\ settled = cache
  /\ rev = 0 /\ bootRev = 0
  /\ lock = Free
  /\ writer = [t \in Writers |-> Resting]
  /\ puts = 0 /\ crashes = 0 /\ faults = 0 /\ disturbing = 0

Next ==
  \/ \E t \in Writers : \/ Put(t) \/ WriteToDb(t)
                        \/ CountRev(t) \/ CountBootRev(t) \/ Answer(t)
  \/ Crash \/ Start

Spec == Init /\ [][Next]_vars

----------------------------------------------------------------------------
TypeOK ==
  /\ cache \in [Keys -> Values] /\ settled \in [Keys -> Values]
  /\ db \in [Keys -> Values \cup {Absent}]
  /\ rev \in Nat /\ bootRev \in 0..rev
  /\ up \in BOOLEAN /\ lock \in Writers \cup {Free}
  /\ writer \in [Writers -> [pc : {"rest", "file", "rev", "boot", "answer"},
                             accepted : Partial]]
  /\ puts \in 0..MaxPuts /\ crashes \in 0..MaxCrashes /\ faults \in 0..MaxFaults
  /\ disturbing \in 0..MaxPuts

\* While nobody is inside setMany's lock, the file holds what the threads of the
\* service read, in whatever order several of them save: settings_store.h, "alle
\* oeffentlichen Methoden sind durch mtx_ geschuetzt".  (A failed use of the file
\* is looked at in Saved.)
Durable == up /\ lock = Free /\ faults = 0 => Restored(db) = cache

\* A restart brings back the settings as they were, or, if a request was being
\* written, as they were before it: never a mixture, wherever the process dies.
AllOrNothing == [][~up /\ up' /\ faults' = 0 => cache' \in {cache, settled}]_vars

\* Each request that changes more than live settings makes the connection anew
\* exactly once, and no other request does, concurrent ones included: what has
\* not been counted yet, a thread is about to count.
Counted ==
  up => LET counting == {t \in Writers : /\ writer[t].pc \in {"file", "rev", "boot"}
                                         /\ NeedsReconnect(writer[t].accepted)}
        IN disturbing = bootRev + Cardinality(counting)

\* "in einer kleinen Datenbank gespeichert (bleibt ueber Neustarts erhalten)"
\* (ANLEITUNG.md): a request that is answered with "ok" is in the file.
Saved ==
  \A t \in Writers : WriterAt(t, "answer") /\ lock = Free =>
    \A k \in DOMAIN writer[t].accepted : Restored(db)[k] = cache[k]
=============================================================================
