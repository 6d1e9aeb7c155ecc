------------------------ MODULE SettingsStoreProofs ------------------------
(***************************************************************************)
(* What SettingsStore promises for any number of threads, settings,        *)
(* requests and crashes.  The inductive invariant splits a request at the  *)
(* lock: outside it, memory is what the file holds; inside it, the file    *)
(* still holds the old settings and memory these with the request applied. *)
(***************************************************************************)
EXTENDS SettingsStore, FiniteSetTheorems, TLAPS

Shapes ==
  /\ cache \in [Keys -> Values] /\ settled \in [Keys -> Values]
  /\ db \in [Keys -> Values \cup {Absent}]
  /\ up \in BOOLEAN /\ lock \in Writers \cup {Free}
  /\ writer \in [Writers -> [pc : {"rest", "file", "rev", "boot", "answer"},
                             accepted : Partial]]
  /\ faults \in Nat

\* Only the holder of the lock is between memory and file.
Locked ==
  /\ \A t \in Writers : writer[t].pc = "file" => lock = t
  /\ ~up => lock = Free

Agreed ==
  /\ up /\ lock = Free => cache = settled
  /\ \A t \in Writers : writer[t].pc = "file" => cache = Updated(settled, writer[t].accepted)
  /\ faults = 0 => Restored(db) = settled

IInv == Shapes /\ Locked /\ Agreed

----------------------------------------------------------------------------
\* Reading back what has just been written: the rows of a request, over the others.
LEMMA RestoredUpdated ==
  ASSUME NEW rows \in [Keys -> Values \cup {Absent}], NEW values \in Partial
  PROVE  Restored(Updated(rows, values)) = Updated(Restored(rows), values)
<1>1. PICK keys \in SUBSET Keys : values \in [keys -> Values]
  BY DEF Partial
<1>2. \A k \in DOMAIN values : values[k] # Absent
  BY <1>1, StoreAssumption
<1> QED BY <1>2 DEF Restored, Updated

\* What init reads and what it seeds are settings and rows.
LEMMA RestoredShape ==
  ASSUME NEW rows \in [Keys -> Values \cup {Absent}]
  PROVE  /\ Restored(rows) \in [Keys -> Values]
         /\ Restored(Restored(rows)) = Restored(rows)
BY StoreAssumption DEF Restored

\* A request changes settings into settings, and rows into rows.
LEMMA UpdatedShape ==
  ASSUME NEW old, NEW S, Values \subseteq S, old \in [Keys -> S], NEW values \in Partial
  PROVE  Updated(old, values) \in [Keys -> S]
<1>1. PICK keys \in SUBSET Keys : values \in [keys -> Values]
  BY DEF Partial
<1> QED BY <1>1 DEF Updated

\* The changing part of a request is again one.
LEMMA AcceptsShape ==
  ASSUME NEW request \in Partial
  PROVE  Accepts(request) \in Partial
<1>1. PICK keys \in SUBSET Keys : request \in [keys -> Values]
  BY DEF Partial
<1> DEFINE changed == {key \in DOMAIN request : request[key] # cache[key]}
<1>2. changed \in SUBSET Keys /\ Accepts(request) \in [changed -> Values]
  BY <1>1 DEF Accepts
<1> QED BY <1>2 DEF Partial

\* A thread that serves no request.
LEMMA RestingShape ==
  Resting \in [pc : {"rest", "file", "rev", "boot", "answer"}, accepted : Partial]
<1>1. NoValues \in [{} -> Values]
  BY DEF NoValues
<1> QED BY <1>1 DEF Resting, Partial

----------------------------------------------------------------------------
LEMMA InitEstablishes == Init => IInv
<1> SUFFICES ASSUME Init PROVE IInv OBVIOUS
<1>1. cache \in [Keys -> Values]
  BY RestoredShape DEF Init
<1> QED BY <1>1, RestingShape DEF Init, IInv, Shapes, Locked, Agreed, Resting

LEMMA PutPreserves ==
  ASSUME IInv, NEW t \in Writers, Put(t)
  PROVE  IInv'
<1> USE DEF IInv, Shapes, Locked, Agreed
<1>1. PICK request \in Partial \ {NoValues} :
        /\ cache' = Updated(cache, Accepts(request))
        /\ IF Accepts(request) = NoValues
           THEN WriterGoes(t, "answer") /\ UNCHANGED lock
           ELSE /\ writer' = [writer EXCEPT ![t] = [pc |-> "file",
                                                    accepted |-> Accepts(request)]]
                /\ lock' = t
  BY DEF Put
<1>2. Accepts(request) \in Partial
  BY <1>1, AcceptsShape
<1>3. cache' \in [Keys -> Values]
  BY <1>1, <1>2, UpdatedShape
<1>4. up /\ lock = Free /\ cache = settled /\ \A s \in Writers : writer[s].pc # "file"
  BY StoreAssumption DEF Put, WriterAt
<1>5. CASE Accepts(request) = NoValues
  <2>1. cache' = cache
    BY <1>1, <1>5, <1>3 DEF Updated, NoValues
  <2>2. \A s \in Writers : writer'[s].pc # "file"
    BY <1>1, <1>4, <1>5 DEF WriterGoes
  <2>3. writer' \in [Writers -> [pc : {"rest", "file", "rev", "boot", "answer"},
                                accepted : Partial]]
    BY <1>1, <1>5 DEF WriterGoes
  <2>4. UNCHANGED <<db, up, lock, faults, settled>>
    BY <1>1, <1>5 DEF Put
  <2> QED BY <1>4, <2>1, <2>2, <2>3, <2>4 DEF Restored
<1>6. CASE Accepts(request) # NoValues
  <2> DEFINE place == [pc |-> "file", accepted |-> Accepts(request)]
  <2>1. writer' = [writer EXCEPT ![t] = place] /\ lock' = t
    BY <1>1, <1>6
  <2>2. place \in [pc : {"rest", "file", "rev", "boot", "answer"}, accepted : Partial]
    BY <1>2
  <2>3. writer' \in [Writers -> [pc : {"rest", "file", "rev", "boot", "answer"},
                                accepted : Partial]]
    BY <2>1, <2>2
  <2>4. /\ writer'[t] = place
        /\ \A s \in Writers : writer'[s].pc = "file" => s = t
    BY <2>1, <1>4
  <2>5. UNCHANGED <<db, up, faults, settled>> /\ cache' = Updated(settled, Accepts(request))
    BY <1>1, <1>4 DEF Put
  <2>6. lock' # Free
    BY <2>1, StoreAssumption
  <2> QED BY <1>3, <1>4, <2>1, <2>3, <2>4, <2>5, <2>6 DEF Restored, Updated
<1> QED BY <1>5, <1>6

LEMMA WritePreserves ==
  ASSUME IInv, NEW t \in Writers, WriteToDb(t)
  PROVE  IInv'
<1> USE DEF IInv, Shapes, Locked, Agreed
<1> DEFINE accepted == writer[t].accepted
<1>1. /\ lock = t /\ lock' = Free /\ UNCHANGED <<cache, up>> /\ settled' = cache
      /\ writer' = [writer EXCEPT ![t].pc = "rev"]
  BY DEF WriteToDb, WriterAt, WriterGoes
<1>2. \A s \in Writers : writer'[s].pc # "file" /\ writer'[s].accepted = writer[s].accepted
  BY <1>1
<1>3. /\ db' \in [Keys -> Values \cup {Absent}] /\ faults' \in Nat
      /\ faults' = 0 => Restored(db') = cache
  <2>1. CASE db' = Updated(db, accepted) /\ UNCHANGED faults
    <3>1. db' \in [Keys -> Values \cup {Absent}]
      BY <2>1, UpdatedShape
    <3>2. Restored(db') = Updated(Restored(db), accepted)
      BY <2>1, RestoredUpdated
    <3>3. cache = Updated(settled, accepted)
      BY DEF WriteToDb, WriterAt
    <3> QED BY <2>1, <3>1, <3>2, <3>3
  <2>2. CASE Fault /\ \E written \in SUBSET DOMAIN accepted :
               db' = [k \in Keys |-> IF k \in written THEN accepted[k] ELSE db[k]]
    <3>1. faults' \in Nat /\ faults' # 0
      BY <2>2, StoreAssumption DEF Fault
    <3>2. PICK keys \in SUBSET Keys : accepted \in [keys -> Values]
      BY DEF Partial
    <3>3. db' \in [Keys -> Values \cup {Absent}]
      BY <2>2, <3>2
    <3> QED BY <3>1, <3>3
  <2> QED BY <2>1, <2>2 DEF WriteToDb
<1> QED BY <1>1, <1>2, <1>3

LEMMA RestPreserves ==
  ASSUME IInv, NEW t \in Writers, CountRev(t) \/ CountBootRev(t) \/ Answer(t)
  PROVE  IInv'
<1> USE DEF IInv, Shapes, Locked, Agreed
<1>1. Resting \in [pc : {"rest", "file", "rev", "boot", "answer"}, accepted : Partial]
  BY RestingShape
<1>2. UNCHANGED <<cache, db, up, lock, faults, settled>>
  BY DEF CountRev, CountBootRev, Answer
<1>3. writer' \in [Writers -> [pc : {"rest", "file", "rev", "boot", "answer"},
                              accepted : Partial]]
  BY <1>1 DEF CountRev, CountBootRev, Answer, WriterGoes
<1>4. \A s \in Writers : writer'[s].pc = "file" => writer'[s] = writer[s]
  BY DEF CountRev, CountBootRev, Answer, WriterGoes, Resting
<1> QED BY <1>2, <1>3, <1>4 DEF Restored, Updated

LEMMA CrashPreserves == IInv /\ Crash => IInv'
<1> SUFFICES ASSUME IInv, Crash PROVE IInv' OBVIOUS
<1> USE DEF IInv, Shapes, Locked, Agreed
<1>1. writer' \in [Writers -> [pc : {"rest", "file", "rev", "boot", "answer"},
                              accepted : Partial]]
  BY RestingShape DEF Crash
<1>2. \A s \in Writers : writer'[s].pc # "file"
  BY DEF Crash, Resting
<1>3. UNCHANGED <<cache, db, faults, settled>> /\ ~up' /\ lock' = Free /\ up' \in BOOLEAN
  BY DEF Crash
<1> QED BY <1>1, <1>2, <1>3 DEF Restored

LEMMA StartPreserves == IInv /\ Start => IInv'
<1> SUFFICES ASSUME IInv, Start PROVE IInv' OBVIOUS
<1> USE DEF IInv, Shapes, Locked, Agreed
<1>1. /\ Restored(db) \in [Keys -> Values]
      /\ Restored(Restored(db)) = Restored(db)
  BY RestoredShape
<1>2. /\ cache' \in [Keys -> Values] /\ settled' = cache' /\ up' /\ lock' = Free
      /\ \A s \in Writers : writer'[s].pc # "file"
      /\ writer' = writer
  BY <1>1, StoreAssumption DEF Start
<1>3. /\ db' \in [Keys -> Values \cup {Absent}] /\ faults' \in Nat
      /\ faults' = 0 => Restored(db') = cache'
  BY <1>1, StoreAssumption DEF Start, Fault
<1> QED BY <1>2, <1>3

\* Every action keeps memory, file and lock in step.
THEOREM IInvHolds == Spec => []IInv
<1>1. IInv /\ [Next]_vars => IInv'
  <2> SUFFICES ASSUME IInv, [Next]_vars PROVE IInv' OBVIOUS
  <2>1. CASE \E t \in Writers : Put(t)
    BY <2>1, PutPreserves
  <2>2. CASE \E t \in Writers : WriteToDb(t)
    BY <2>2, WritePreserves
  <2>3. CASE \E t \in Writers : CountRev(t) \/ CountBootRev(t) \/ Answer(t)
    BY <2>3, RestPreserves
  <2>4. CASE Crash
    BY <2>4, CrashPreserves
  <2>5. CASE Start
    BY <2>5, StartPreserves
  <2>6. CASE UNCHANGED vars
    BY <2>6 DEF vars, IInv, Shapes, Locked, Agreed, Restored, Updated
  <2> QED BY <2>1, <2>2, <2>3, <2>4, <2>5, <2>6 DEF Next
<1> QED BY <1>1, InitEstablishes, PTL DEF Spec

\* Outside setMany's lock the file holds what the threads read.
THEOREM DurableHolds == Spec => []Durable
<1>1. IInv => Durable
  BY DEF IInv, Agreed, Durable
<1> QED BY <1>1, IInvHolds, PTL

\* A restart (init) finds the settings before or after a request, never a mixture.
THEOREM AllOrNothingHolds == Spec => AllOrNothing
<1>1. IInv /\ [Next]_vars => [~up /\ up' /\ faults' = 0 => cache' \in {cache, settled}]_vars
  <2> SUFFICES ASSUME IInv, Next, ~up, up', faults' = 0
               PROVE  cache' \in {cache, settled}
    BY DEF vars
  <2>1. Start
    BY DEF Next, Put, WriteToDb, CountRev, CountBootRev, Answer, WriterAt, Crash
  <2>2. faults = 0 /\ cache' = Restored(db)
    BY <2>1, StoreAssumption DEF Start, Fault, IInv, Shapes
  <2> QED BY <2>2 DEF IInv, Agreed
<1> QED BY <1>1, IInvHolds, PTL DEF Spec, AllOrNothing

----------------------------------------------------------------------------
(* The counters.  A request that changes more than live settings is owed   *)
(* an increment of bootRev_ until its thread has made it.                  *)

Counting == {t \in Writers : /\ writer[t].pc \in {"file", "rev", "boot"}
                             /\ NeedsReconnect(writer[t].accepted)}
Booting == {t \in Writers : writer[t].pc = "boot"}

Bounds ==
  /\ rev \in Nat /\ bootRev \in Nat
  /\ puts \in 0..MaxPuts /\ crashes \in 0..MaxCrashes /\ faults \in 0..MaxFaults
  /\ disturbing \in 0..puts

Places ==
  /\ \A t \in Writers : writer[t].pc = "boot" => NeedsReconnect(writer[t].accepted)
  /\ ~up => \A t \in Writers : writer[t].pc = "rest"

Owed ==
  /\ up => disturbing = bootRev + Cardinality(Counting)
  /\ bootRev + Cardinality(Booting) <= rev

CInv == IInv /\ Bounds /\ Places /\ Owed

\* The threads are finitely many, and so are those that owe an increment.
LEMMA CountingFinite ==
  /\ IsFiniteSet(Counting) /\ Cardinality(Counting) \in Nat
  /\ IsFiniteSet(Booting) /\ Cardinality(Booting) \in Nat
BY StoreAssumption, FS_Subset, FS_CardinalityType DEF Counting, Booting

\* When all threads rest, none owes anything.
LEMMA RestingOwesNothing ==
  ASSUME \A t \in Writers : writer[t].pc = "rest"
  PROVE  Cardinality(Counting) = 0 /\ Cardinality(Booting) = 0
<1>1. Counting = {} /\ Booting = {}
  BY DEF Counting, Booting
<1> QED BY <1>1, FS_EmptySet

LEMMA InitCounts == Init => CInv
<1> SUFFICES ASSUME Init PROVE CInv OBVIOUS
<1>1. IInv
  BY InitEstablishes
<1>2. \A t \in Writers : writer[t].pc = "rest"
  BY DEF Init, Resting
<1>3. Bounds /\ Places
  BY <1>2, StoreAssumption DEF Init, Bounds, Places
<1>4. Owed
  BY <1>2, RestingOwesNothing DEF Init, Owed
<1> QED BY <1>1, <1>3, <1>4 DEF CInv

\* A request owes an increment exactly if it changes more than live settings.
LEMMA AcceptedNeeds ==
  ASSUME IInv, NEW request \in Partial, cache' = Updated(cache, Accepts(request))
  PROVE  NeedsReconnect(Accepts(request)) <=> \E k \in Keys \ LiveKeys : cache'[k] # cache[k]
<1>1. PICK keys \in SUBSET Keys : request \in [keys -> Values]
  BY DEF Partial
<1>2. /\ DOMAIN Accepts(request) = {key \in keys : request[key] # cache[key]}
      /\ \A k \in DOMAIN Accepts(request) : Accepts(request)[k] = request[k]
  BY <1>1 DEF Accepts
<1>3. \A k \in Keys : cache'[k] # cache[k] <=> k \in DOMAIN Accepts(request)
  BY <1>1, <1>2 DEF Updated
<1> QED BY <1>1, <1>2, <1>3 DEF NeedsReconnect

LEMMA PutCounts ==
  ASSUME CInv, NEW t \in Writers, Put(t)
  PROVE  Bounds' /\ Places' /\ Owed'
<1> USE DEF CInv
<1>1. PICK request \in Partial \ {NoValues} :
        /\ cache' = Updated(cache, Accepts(request))
        /\ IF Accepts(request) = NoValues
           THEN WriterGoes(t, "answer") /\ UNCHANGED lock
           ELSE /\ writer' = [writer EXCEPT ![t] = [pc |-> "file",
                                                    accepted |-> Accepts(request)]]
                /\ lock' = t
        /\ disturbing' = disturbing
             + (IF \E k \in Keys \ LiveKeys : cache'[k] # cache[k] THEN 1 ELSE 0)
  BY DEF Put
<1>2. /\ up /\ up' /\ writer[t].pc = "rest" /\ puts < MaxPuts /\ puts' = puts + 1
      /\ UNCHANGED <<rev, bootRev, crashes, faults>>
  BY DEF Put, WriterAt
<1>3. disturbing' = disturbing + (IF NeedsReconnect(Accepts(request)) THEN 1 ELSE 0)
  BY <1>1, AcceptedNeeds
<1>4. Bounds'
  BY <1>2, <1>3, StoreAssumption DEF Bounds
<1>5. writer \in [Writers -> [pc : {"rest", "file", "rev", "boot", "answer"}, accepted : Partial]]
  BY DEF IInv, Shapes
<1>6. \A s \in Writers \ {t} : writer'[s] = writer[s]
  BY <1>1, <1>5 DEF WriterGoes
<1>7. CASE Accepts(request) = NoValues
  <2>1. writer'[t].pc = "answer"
    BY <1>1, <1>5, <1>7 DEF WriterGoes
  <2>2. Counting' = Counting /\ Booting' = Booting
    BY <1>2, <1>6, <2>1 DEF Counting, Booting
  <2>3. ~NeedsReconnect(Accepts(request))
    BY <1>7 DEF NeedsReconnect, NoValues
  <2>4. Places'
    BY <1>2, <1>6, <2>1 DEF Places
  <2> QED BY <1>2, <1>3, <1>4, <2>2, <2>3, <2>4, CountingFinite DEF Owed, Bounds
<1>8. CASE Accepts(request) # NoValues
  <2>1. writer'[t] = [pc |-> "file", accepted |-> Accepts(request)]
    BY <1>1, <1>5, <1>8
  <2>2. Booting' = Booting /\ t \notin Counting
    BY <1>2, <1>6, <2>1 DEF Counting, Booting
  <2>3. Counting' = IF NeedsReconnect(Accepts(request)) THEN Counting \cup {t} ELSE Counting
    BY <1>2, <1>6, <2>1 DEF Counting
  <2>4. Cardinality(Counting') = Cardinality(Counting)
                                   + (IF NeedsReconnect(Accepts(request)) THEN 1 ELSE 0)
    <3>1. CASE NeedsReconnect(Accepts(request))
      <4>1. Cardinality(Counting \cup {t}) = Cardinality(Counting) + 1
        BY <2>2, CountingFinite, FS_AddElement
      <4> QED BY <2>3, <3>1, <4>1
    <3>2. CASE ~NeedsReconnect(Accepts(request))
      BY <2>3, <3>2, CountingFinite
    <3> QED BY <3>1, <3>2
  <2>5. Places'
    BY <1>2, <1>6, <2>1 DEF Places
  <2> QED BY <1>2, <1>3, <1>4, <2>2, <2>4, <2>5, CountingFinite DEF Owed, Bounds
<1> QED BY <1>7, <1>8

LEMMA SaveCounts ==
  ASSUME CInv, NEW t \in Writers, WriteToDb(t) \/ CountRev(t) \/ CountBootRev(t) \/ Answer(t)
  PROVE  Bounds' /\ Places' /\ Owed'
<1> USE DEF CInv
<1>1. writer \in [Writers -> [pc : {"rest", "file", "rev", "boot", "answer"}, accepted : Partial]]
  BY DEF IInv, Shapes
<1>2. CASE WriteToDb(t)
  <2>1. /\ up /\ up' /\ writer[t].pc = "file" /\ writer' = [writer EXCEPT ![t].pc = "rev"]
        /\ UNCHANGED <<rev, bootRev, puts, crashes, disturbing>>
    BY <1>2 DEF WriteToDb, WriterAt, WriterGoes
  <2>2. faults' \in 0..MaxFaults
    BY <1>2, StoreAssumption DEF WriteToDb, Fault, Bounds
  <2>3. Counting' = Counting /\ Booting' = Booting
    BY <1>1, <2>1 DEF Counting, Booting
  <2>4. Places'
    BY <1>1, <2>1 DEF Places
  <2> QED BY <2>1, <2>2, <2>3, <2>4 DEF Bounds, Owed
<1>3. CASE CountRev(t)
  <2> DEFINE next == IF NeedsReconnect(writer[t].accepted) THEN "boot" ELSE "answer"
  <2>1. /\ up /\ up' /\ writer[t].pc = "rev" /\ writer' = [writer EXCEPT ![t].pc = next]
        /\ rev' = rev + 1 /\ UNCHANGED <<bootRev, puts, crashes, faults, disturbing>>
    BY <1>3 DEF CountRev, WriterAt, WriterGoes
  <2>2. Counting' = Counting /\ t \notin Booting
    BY <1>1, <2>1 DEF Counting, Booting
  <2>3. Booting' = IF NeedsReconnect(writer[t].accepted) THEN Booting \cup {t} ELSE Booting
    BY <1>1, <2>1 DEF Booting
  <2>4. Cardinality(Booting') <= Cardinality(Booting) + 1 /\ Cardinality(Booting') \in Nat
    <3>1. Cardinality(Booting \cup {t}) = Cardinality(Booting) + 1
      BY <2>2, CountingFinite, FS_AddElement
    <3>2. Booting' = Booting \cup {t} \/ Booting' = Booting
      BY <2>3
    <3>3. CASE Booting' = Booting \cup {t}
      BY <3>1, <3>3, CountingFinite
    <3>4. CASE Booting' = Booting
      BY <3>4, CountingFinite
    <3> QED BY <3>2, <3>3, <3>4
  <2>5. Places'
    BY <1>1, <2>1 DEF Places
  <2> QED BY <2>1, <2>2, <2>4, <2>5, CountingFinite DEF Bounds, Owed
<1>4. CASE CountBootRev(t)
  <2>1. /\ up /\ up' /\ writer[t].pc = "boot" /\ writer' = [writer EXCEPT ![t].pc = "answer"]
        /\ bootRev' = bootRev + 1 /\ UNCHANGED <<rev, puts, crashes, faults, disturbing>>
    BY <1>4 DEF CountBootRev, WriterAt, WriterGoes
  <2>2. t \in Counting /\ t \in Booting
    BY <2>1 DEF Counting, Booting, Places
  <2>3. Counting' = Counting \ {t} /\ Booting' = Booting \ {t}
    BY <1>1, <2>1 DEF Counting, Booting
  <2>4. /\ Cardinality(Counting') = Cardinality(Counting) - 1
        /\ Cardinality(Booting') = Cardinality(Booting) - 1
    BY <2>2, <2>3, CountingFinite, FS_RemoveElement
  <2>5. Places'
    BY <1>1, <2>1 DEF Places
  <2> QED BY <2>1, <2>4, <2>5, CountingFinite DEF Bounds, Owed
<1>5. CASE Answer(t)
  <2>1. /\ up /\ up' /\ writer[t].pc = "answer" /\ writer' = [writer EXCEPT ![t] = Resting]
        /\ UNCHANGED <<rev, bootRev, puts, crashes, faults, disturbing>>
    BY <1>5 DEF Answer, WriterAt
  <2>2. Counting' = Counting /\ Booting' = Booting
    BY <1>1, <2>1 DEF Counting, Booting, Resting
  <2>3. Places'
    BY <1>1, <2>1 DEF Places, Resting
  <2> QED BY <2>1, <2>2, <2>3 DEF Bounds, Owed
<1> QED BY <1>2, <1>3, <1>4, <1>5

LEMMA RestartCounts ==
  ASSUME CInv, Crash \/ Start
  PROVE  Bounds' /\ Places' /\ Owed'
<1> USE DEF CInv
<1>1. CASE Crash
  <2>1. /\ ~up' /\ writer' = [t \in Writers |-> Resting]
        /\ UNCHANGED <<rev, bootRev, puts, faults, disturbing>>
        /\ crashes < MaxCrashes /\ crashes' = crashes + 1
    BY <1>1 DEF Crash
  <2>2. \A t \in Writers : writer'[t].pc = "rest"
    BY <2>1 DEF Resting
  <2>3. Booting' = {}
    BY <2>2 DEF Booting
  <2>4. Cardinality(Booting') = 0
    BY <2>3, FS_EmptySet
  <2>5. Bounds' /\ Places'
    BY <2>1, <2>2, StoreAssumption DEF Bounds, Places
  <2>6. bootRev' + Cardinality(Booting') <= rev'
    BY <2>1, <2>4, CountingFinite DEF Bounds, Owed
  <2> QED BY <2>1, <2>5, <2>6 DEF Owed
<1>2. CASE Start
  <2>1. /\ ~up /\ up' /\ bootRev' = 0 /\ disturbing' = 0 /\ rev' \in {0, 1}
        /\ UNCHANGED <<writer, puts, crashes>>
    BY <1>2 DEF Start
  <2>2. faults' \in 0..MaxFaults
    BY <1>2, StoreAssumption DEF Start, Fault, Bounds
  <2>3. \A t \in Writers : writer[t].pc = "rest"
    BY <2>1 DEF Places
  <2>4. Counting' = Counting /\ Booting' = Booting
    BY <2>1 DEF Counting, Booting
  <2>5. Cardinality(Counting') = 0 /\ Cardinality(Booting') = 0
    BY <2>3, <2>4, RestingOwesNothing
  <2>6. Bounds' /\ Places'
    BY <2>1, <2>2, <2>3 DEF Bounds, Places
  <2> QED BY <2>1, <2>5, <2>6 DEF Owed
<1> QED BY <1>1, <1>2

\* The counters are in step with the requests.
THEOREM CInvHolds == Spec => []CInv
<1>1. CInv /\ [Next]_vars => Bounds' /\ Places' /\ Owed'
  <2> SUFFICES ASSUME CInv, [Next]_vars PROVE Bounds' /\ Places' /\ Owed' OBVIOUS
  <2>1. CASE \E t \in Writers : Put(t)
    BY <2>1, PutCounts
  <2>2. CASE \E t \in Writers : WriteToDb(t) \/ CountRev(t) \/ CountBootRev(t) \/ Answer(t)
    BY <2>2, SaveCounts
  <2>3. CASE Crash \/ Start
    BY <2>3, RestartCounts
  <2>4. CASE UNCHANGED vars
    BY <2>4 DEF vars, CInv, Bounds, Places, Owed, Counting, Booting
  <2> QED BY <2>1, <2>2, <2>3, <2>4 DEF Next
<1>2. CInv /\ IInv' /\ Bounds' /\ Places' /\ Owed' => CInv'
  BY DEF CInv
<1> QED BY <1>1, <1>2, InitCounts, IInvHolds, PTL DEF Spec

\* Every request that changes more than live settings is counted exactly once.
THEOREM CountedHolds == Spec => []Counted
<1>1. CInv => Counted
  BY DEF CInv, Owed, Counted, Counting
<1> QED BY <1>1, CInvHolds, PTL

\* Types; no new connection is counted that has not been counted as a change.
THEOREM TypeHolds == Spec => []TypeOK
<1>1. CInv => TypeOK
  <2> SUFFICES ASSUME CInv PROVE TypeOK OBVIOUS
  <2>1. bootRev \in 0..rev /\ disturbing \in 0..MaxPuts
    BY CountingFinite, StoreAssumption DEF CInv, Bounds, Owed
  <2> QED BY <2>1 DEF CInv, IInv, Shapes, Bounds, TypeOK
<1> QED BY <1>1, CInvHolds, PTL
=============================================================================
