------------------------- MODULE SpaceCleanupProofs -------------------------
(***************************************************************************)
(* Theorems about SpaceCleanup for every set of Spaces, whatever fails,    *)
(* with one browser on the data.                                           *)
(***************************************************************************)
EXTENDS SpaceCleanup, TLAPS

OneBrowser == \A i, j \in Instances : i = j

\* What a browser that is down or not sweeping has not; that it removes one
\* Space at a time; and what a sweep has before it: what is queued, with every
\* deletion that is not committed.
Between(i) ==
    /\ state[i] # "running" => known[i] = {} /\ i \notin stale
    /\ state[i] = "down" => sweep[i].stage = "none"
    /\ sweep[i].stage # "sweep" => sweep[i].victim = {}
    /\ \A s, t \in sweep[i].victim : s = t
    /\ sweep[i].stage = "sweep" =>
        /\ sweep[i].todo \subseteq Queued
        /\ \A s \in Spaces : job[i][s] = "delete" => s \in dropped \cup sweep[i].todo

\* The inductive invariant.
IInv ==
    /\ Consistent /\ DeletionRemembered /\ CleanedIsGone
    /\ \A i \in Instances : Between(i)

-----------------------------------------------------------------------------
\* At first there is no Space.
THEOREM InitIInv == Init => IInv
<1> SUFFICES ASSUME Init PROVE IInv
  OBVIOUS
<1> USE NobodyAssumption DEF Init, NoSweep, Stages, Jobs, Sweeps
<1>1. TypeOK
  BY DEF TypeOK
<1>2. OnDisk /\ DeletionRemembered /\ CleanedIsGone
  BY DEF OnDisk, DeletionRemembered, CleanedIsGone
<1>3. ASSUME NEW i \in Instances PROVE InMemory(i) /\ InSweep(i) /\ Between(i)
  BY DEF InMemory, InSweep, Between
<1>4. ASSUME NEW i \in Instances, NEW s \in Spaces PROVE OfSpace(i, s)
  BY DEF OfSpace
<1> QED
  BY <1>1, <1>2, <1>3, <1>4 DEF IInv, Consistent

\* Every edit writes what is in memory, which is the store.
LEMMA EditStep ==
    ASSUME IInv, OneBrowser, NEW i \in Instances, Edit(i)
    PROVE  IInv'
<1> USE DEF Edit, memory, Ready, Save
<1>1. TypeOK /\ OnDisk /\ InMemory(i) /\ InSweep(i) /\ Between(i)
  BY DEF IInv, Consistent
<1>2. DeletionRemembered /\ CleanedIsGone /\ \A s \in Spaces : OfSpace(i, s)
  BY DEF IInv, Consistent
<1>3. TypeOK'
  BY <1>1 DEF TypeOK, Stages, Jobs, Sweeps
<1>4. OnDisk'
  BY <1>1 DEF OnDisk, InMemory
<1>5. InMemory(i)'
  BY <1>1 DEF TypeOK, InMemory
<1>6. InSweep(i)'
  BY <1>1 DEF TypeOK, InMemory, InSweep, Queued
<1>7. \A s \in Spaces : OfSpace(i, s)'
  BY <1>1, <1>2 DEF TypeOK, OfSpace, InMemory
<1>8. Between(i)'
  BY <1>1 DEF TypeOK, Between, Queued
<1>9. DeletionRemembered'
  BY <1>2 DEF DeletionRemembered
<1>10. CleanedIsGone'
  BY <1>2 DEF CleanedIsGone
<1> QED
  BY <1>3, <1>4, <1>5, <1>6, <1>7, <1>8, <1>9, <1>10 DEF OneBrowser, IInv, Consistent

\* A browser that was down holds nothing.
LEMMA StartStep ==
    ASSUME IInv, OneBrowser, NEW i \in Instances, Start(i)
    PROVE  IInv'
<1> USE NobodyAssumption DEF Start, disk, memory, history
<1>1. TypeOK /\ OnDisk /\ InMemory(i) /\ InSweep(i) /\ Between(i)
  BY DEF IInv, Consistent
<1>2. DeletionRemembered /\ CleanedIsGone /\ \A s \in Spaces : OfSpace(i, s)
  BY DEF IInv, Consistent
<1>3. TypeOK'
  <2>1. sweep[i] \in Sweeps /\ sweep \in [Instances -> Sweeps]
    BY <1>1 DEF TypeOK
  <2>2. [sweep[i] EXCEPT !.stage = "begin"] \in Sweeps
    BY <1>1, <2>1 DEF Sweeps, TypeOK, Stages
  <2>3. sweep' = [sweep EXCEPT ![i] = [sweep[i] EXCEPT !.stage = "begin"]]
    BY <2>1
  <2>4. sweep' \in [Instances -> Sweeps]
    BY <2>1, <2>2, <2>3
  <2> QED
    BY <1>1, <2>4 DEF TypeOK
<1>4. OnDisk'
  BY <1>1 DEF OnDisk, InMemory
<1>5. InMemory(i)'
  BY <1>1 DEF TypeOK, InMemory, Between
<1>6. InSweep(i)'
  BY <1>1 DEF TypeOK, InMemory, InSweep, Queued
<1>7. \A s \in Spaces : OfSpace(i, s)'
  BY <1>1, <1>2 DEF TypeOK, OfSpace
<1>8. Between(i)'
  BY <1>1 DEF TypeOK, Between, Queued
<1>9. DeletionRemembered'
  BY <1>2 DEF DeletionRemembered
<1>10. CleanedIsGone'
  BY <1>2 DEF CleanedIsGone
<1> QED
  BY <1>3, <1>4, <1>5, <1>6, <1>7, <1>8, <1>9, <1>10 DEF OneBrowser, IInv, Consistent

\* Memory becomes what the store is.
LEMMA LoadStep ==
    ASSUME IInv, OneBrowser, NEW i \in Instances, Load(i)
    PROVE  IInv'
<1> USE DEF Load, disk, history
<1>1. TypeOK /\ OnDisk /\ InMemory(i) /\ InSweep(i) /\ Between(i)
  BY DEF IInv, Consistent
<1>2. DeletionRemembered /\ CleanedIsGone /\ \A s \in Spaces : OfSpace(i, s)
  BY DEF IInv, Consistent
<1>3. TypeOK'
  <2>1. sweep[i] \in Sweeps /\ sweep \in [Instances -> Sweeps]
    BY <1>1 DEF TypeOK
  <2>2. [sweep[i] EXCEPT !.stage = "none"] \in Sweeps
    BY <1>1, <2>1 DEF Sweeps, TypeOK, Stages
  <2>3. sweep' = [sweep EXCEPT ![i] = [sweep[i] EXCEPT !.stage = "none"]]
    BY <2>1
  <2>4. sweep' \in [Instances -> Sweeps]
    BY <2>1, <2>2, <2>3
  <2> QED
    BY <1>1, <2>4 DEF TypeOK
<1>4. OnDisk'
  BY <1>1 DEF OnDisk, InMemory
<1>5. InMemory(i)'
  BY <1>1 DEF TypeOK, InMemory, Between
<1>6. InSweep(i)'
  BY <1>1 DEF TypeOK, InMemory, InSweep, Queued
<1>7. \A s \in Spaces : OfSpace(i, s)'
  BY <1>1, <1>2 DEF TypeOK, OfSpace
<1>8. Between(i)'
  BY <1>1 DEF TypeOK, Between, Queued
<1>9. DeletionRemembered'
  BY <1>2 DEF DeletionRemembered
<1>10. CleanedIsGone'
  BY <1>2 DEF CleanedIsGone
<1> QED
  BY <1>3, <1>4, <1>5, <1>6, <1>7, <1>8, <1>9, <1>10 DEF OneBrowser, IInv, Consistent

\* The store that is given up is what is lost.
LEMMA LoadFailsStep ==
    ASSUME IInv, OneBrowser, NEW i \in Instances, LoadFails(i)
    PROVE  IInv'
<1> USE DEF LoadFails, memory, Save
<1>1. TypeOK /\ OnDisk /\ InMemory(i) /\ InSweep(i) /\ Between(i)
  BY DEF IInv, Consistent
<1>2. DeletionRemembered /\ CleanedIsGone /\ \A s \in Spaces : OfSpace(i, s)
  BY DEF IInv, Consistent
<1>3. TypeOK'
  <2>1. sweep[i] \in Sweeps /\ sweep \in [Instances -> Sweeps]
    BY <1>1 DEF TypeOK
  <2>2. [sweep[i] EXCEPT !.stage = "none"] \in Sweeps
    BY <1>1, <2>1 DEF Sweeps, TypeOK, Stages
  <2>3. sweep' = [sweep EXCEPT ![i] = [sweep[i] EXCEPT !.stage = "none"]]
    BY <2>1
  <2>4. sweep' \in [Instances -> Sweeps]
    BY <2>1, <2>2, <2>3
  <2> QED
    BY <1>1, <2>4 DEF TypeOK
<1>4. OnDisk'
  BY <1>1 DEF TypeOK, OnDisk, InMemory, Between
<1>5. InMemory(i)'
  BY <1>1 DEF TypeOK, InMemory, Between
<1>6. InSweep(i)'
  BY <1>1 DEF TypeOK, InMemory, InSweep, Queued
<1>7. \A s \in Spaces : OfSpace(i, s)'
  BY <1>1, <1>2 DEF TypeOK, OfSpace, InMemory
<1>8. Between(i)'
  BY <1>1 DEF TypeOK, Between, Queued
<1>9. DeletionRemembered'
  BY <1>2 DEF DeletionRemembered
<1>10. CleanedIsGone'
  BY <1>2 DEF CleanedIsGone
<1> QED
  BY <1>3, <1>4, <1>5, <1>6, <1>7, <1>8, <1>9, <1>10 DEF OneBrowser, IInv, Consistent

\* What is in memory goes with the browser, the lock too.
LEMMA StopStep ==
    ASSUME IInv, OneBrowser, NEW i \in Instances, Stop(i)
    PROVE  IInv'
<1> USE NobodyAssumption DEF Stop, disk, NoSweep
<1>1. TypeOK /\ OnDisk /\ InMemory(i) /\ InSweep(i) /\ Between(i)
  BY DEF IInv, Consistent
<1>2. DeletionRemembered /\ CleanedIsGone /\ \A s \in Spaces : OfSpace(i, s)
  BY DEF IInv, Consistent
<1>3. TypeOK'
  BY <1>1 DEF TypeOK, Stages, Jobs, Sweeps
<1>4. OnDisk'
  BY <1>1 DEF OnDisk, InMemory
<1>5. InMemory(i)'
  BY <1>1 DEF TypeOK, InMemory
<1>6. InSweep(i)'
  BY <1>1 DEF TypeOK, InMemory, InSweep, Queued
<1>7. \A s \in Spaces : OfSpace(i, s)'
  BY <1>1, <1>2 DEF TypeOK, OfSpace
<1>8. Between(i)'
  BY <1>1 DEF TypeOK, Between, Queued
<1>9. DeletionRemembered'
  BY <1>2 DEF DeletionRemembered
<1>10. CleanedIsGone'
  BY <1>2 DEF CleanedIsGone
<1> QED
  BY <1>3, <1>4, <1>5, <1>6, <1>7, <1>8, <1>9, <1>10 DEF OneBrowser, IInv, Consistent

\* A sweep has all that is queued before it.
LEMMA SweepBeginsStep ==
    ASSUME IInv, OneBrowser, NEW i \in Instances, SweepBegins(i)
    PROVE  IInv'
<1> USE NobodyAssumption DEF SweepBegins, disk, memory, history, Queued
<1>1. TypeOK /\ OnDisk /\ InMemory(i) /\ InSweep(i) /\ Between(i)
  BY DEF IInv, Consistent
<1>2. DeletionRemembered /\ CleanedIsGone /\ \A s \in Spaces : OfSpace(i, s)
  BY DEF IInv, Consistent
<1>3. TypeOK'
  <2>1. sweep[i] \in Sweeps /\ sweep \in [Instances -> Sweeps]
    BY <1>1 DEF TypeOK
  <2>2. [sweep[i] EXCEPT !.stage = "sweep", !.todo = Queued, !.active = store] \in Sweeps
    BY <1>1, <2>1 DEF Sweeps, TypeOK, Stages, Queued
  <2>3. sweep' = [sweep EXCEPT ![i] = [sweep[i] EXCEPT !.stage = "sweep", !.todo = Queued,
                                                        !.active = store]]
    BY <2>1
  <2>4. sweep' \in [Instances -> Sweeps]
    BY <2>1, <2>2, <2>3
  <2> QED
    BY <1>1, <2>4 DEF TypeOK
<1>. /\ sweep'[i].stage = "sweep" /\ sweep'[i].todo = Queued /\ sweep'[i].active = store
     /\ sweep'[i].left = sweep[i].left /\ sweep'[i].victim = sweep[i].victim
  <2> DEFINE n == [sweep[i] EXCEPT !.stage = "sweep", !.todo = Queued, !.active = store]
  <2>1. sweep[i] \in Sweeps /\ sweep' = [sweep EXCEPT ![i] = n] /\ i \in DOMAIN sweep
    BY <1>1 DEF TypeOK
  <2>2. sweep'[i] = n
    BY <2>1
  <2> HIDE DEF SweepBegins, Queued
  <2> QED
    BY <2>1, <2>2 DEF Sweeps
<1>4. OnDisk'
  BY <1>1 DEF OnDisk, InMemory
<1>5. InMemory(i)'
  BY <1>1 DEF TypeOK, InMemory
<1>6. InSweep(i)'
  BY <1>1 DEF TypeOK, InMemory, InSweep, Between, Queued
<1>7. \A s \in Spaces : OfSpace(i, s)'
  BY <1>1, <1>2 DEF TypeOK, OfSpace
<1>8. Between(i)'
  BY <1>1, <1>2 DEF TypeOK, Between, InMemory, OfSpace, Queued
<1>9. DeletionRemembered'
  BY <1>2 DEF DeletionRemembered
<1>10. CleanedIsGone'
  BY <1>2 DEF CleanedIsGone
<1> QED
  BY <1>3, <1>4, <1>5, <1>6, <1>7, <1>8, <1>9, <1>10 DEF OneBrowser, IInv, Consistent

\* A sweep that is refused has removed nothing.
LEMMA SweepRefusedStep ==
    ASSUME IInv, OneBrowser, NEW i \in Instances, SweepRefused(i)
    PROVE  IInv'
<1> USE DEF SweepRefused, disk, memory, history
<1>1. TypeOK /\ OnDisk /\ InMemory(i) /\ InSweep(i) /\ Between(i)
  BY DEF IInv, Consistent
<1>2. DeletionRemembered /\ CleanedIsGone /\ \A s \in Spaces : OfSpace(i, s)
  BY DEF IInv, Consistent
<1>3. TypeOK'
  <2>1. sweep[i] \in Sweeps /\ sweep \in [Instances -> Sweeps]
    BY <1>1 DEF TypeOK
  <2>2. [sweep[i] EXCEPT !.stage = "verify"] \in Sweeps
    BY <1>1, <2>1 DEF Sweeps, TypeOK, Stages
  <2>3. sweep' = [sweep EXCEPT ![i] = [sweep[i] EXCEPT !.stage = "verify"]]
    BY <2>1
  <2>4. sweep' \in [Instances -> Sweeps]
    BY <2>1, <2>2, <2>3
  <2> QED
    BY <1>1, <2>4 DEF TypeOK
<1>4. OnDisk'
  BY <1>1 DEF OnDisk, InMemory
<1>5. InMemory(i)'
  BY <1>1 DEF TypeOK, InMemory
<1>6. InSweep(i)'
  BY <1>1 DEF TypeOK, InMemory, InSweep, Queued
<1>7. \A s \in Spaces : OfSpace(i, s)'
  BY <1>1, <1>2 DEF TypeOK, OfSpace
<1>8. Between(i)'
  BY <1>1 DEF TypeOK, Between, Queued
<1>9. DeletionRemembered'
  BY <1>2 DEF DeletionRemembered
<1>10. CleanedIsGone'
  BY <1>2 DEF CleanedIsGone
<1> QED
  BY <1>3, <1>4, <1>5, <1>6, <1>7, <1>8, <1>9, <1>10 DEF OneBrowser, IInv, Consistent

\* Only the entry of a Space that exists is dropped.
LEMMA DropEntryStep ==
    ASSUME IInv, OneBrowser, NEW i \in Instances, NEW t \in Spaces, DropEntry(i, t)
    PROVE  IInv'
<1> USE DEF DropEntry, disk, memory, Sweeping, Uncommitted
<1>1. TypeOK /\ OnDisk /\ InMemory(i) /\ InSweep(i) /\ Between(i)
  BY DEF IInv, Consistent
<1>2. DeletionRemembered /\ CleanedIsGone /\ \A s \in Spaces : OfSpace(i, s)
  BY DEF IInv, Consistent
<1>3. TypeOK'
  <2>1. sweep[i] \in Sweeps /\ sweep \in [Instances -> Sweeps]
    BY <1>1 DEF TypeOK
  <2>2. [sweep[i] EXCEPT !.todo = @ \ {t}] \in Sweeps
    BY <1>1, <2>1 DEF Sweeps, TypeOK
  <2>3. sweep' = [sweep EXCEPT ![i] = [sweep[i] EXCEPT !.todo = @ \ {t}]]
    BY <2>1
  <2>4. sweep' \in [Instances -> Sweeps]
    BY <2>1, <2>2, <2>3
  <2> QED
    BY <1>1, <2>4 DEF TypeOK
<1>4. OnDisk'
  BY <1>1 DEF OnDisk, InMemory
<1>5. InMemory(i)'
  BY <1>1 DEF TypeOK, InMemory
<1>6. InSweep(i)'
  BY <1>1 DEF TypeOK, InMemory, InSweep, Queued
<1>7. \A s \in Spaces : OfSpace(i, s)'
  BY <1>1, <1>2 DEF TypeOK, OfSpace
<1>8. Between(i)'
  BY <1>1 DEF TypeOK, Between, Queued
<1>9. DeletionRemembered'
  BY <1>2 DEF DeletionRemembered
<1>10. CleanedIsGone'
  BY <1>2 DEF CleanedIsGone
<1> QED
  BY <1>3, <1>4, <1>5, <1>6, <1>7, <1>8, <1>9, <1>10 DEF OneBrowser, IInv, Consistent

\* An entry that is deferred is left in the journal.
LEMMA DeferEntryStep ==
    ASSUME IInv, OneBrowser, NEW i \in Instances, NEW t \in Spaces, DeferEntry(i, t)
    PROVE  IInv'
<1> USE DEF DeferEntry, disk, memory, history, Sweeping, Uncommitted, Live
<1>1. TypeOK /\ OnDisk /\ InMemory(i) /\ InSweep(i) /\ Between(i)
  BY DEF IInv, Consistent
<1>2. DeletionRemembered /\ CleanedIsGone /\ \A s \in Spaces : OfSpace(i, s)
  BY DEF IInv, Consistent
<1>3. TypeOK'
  <2>1. sweep[i] \in Sweeps /\ sweep \in [Instances -> Sweeps]
    BY <1>1 DEF TypeOK
  <2>2. [sweep[i] EXCEPT !.todo = @ \ {t}, !.left = @ \cup {t}] \in Sweeps
    BY <1>1, <2>1 DEF Sweeps, TypeOK
  <2>3. sweep' = [sweep EXCEPT ![i] = [sweep[i] EXCEPT !.todo = @ \ {t}, !.left = @ \cup {t}]]
    BY <2>1
  <2>4. sweep' \in [Instances -> Sweeps]
    BY <2>1, <2>2, <2>3
  <2> QED
    BY <1>1, <2>4 DEF TypeOK
<1>4. OnDisk'
  BY <1>1 DEF OnDisk, InMemory
<1>5. InMemory(i)'
  BY <1>1 DEF TypeOK, InMemory
<1>6. InSweep(i)'
  BY <1>1 DEF TypeOK, InMemory, InSweep, Queued
<1>7. \A s \in Spaces : OfSpace(i, s)'
  BY <1>1, <1>2 DEF TypeOK, OfSpace
<1>8. Between(i)'
  BY <1>1, <1>2 DEF TypeOK, OnDisk, InMemory, OfSpace, InSweep, Between, DeletionRemembered, CleanedIsGone, Queued
<1>9. DeletionRemembered'
  BY <1>2 DEF DeletionRemembered
<1>10. CleanedIsGone'
  BY <1>2 DEF CleanedIsGone
<1> QED
  BY <1>3, <1>4, <1>5, <1>6, <1>7, <1>8, <1>9, <1>10 DEF OneBrowser, IInv, Consistent

\* What is removed next is closed and was cleared, deleted or lost.
LEMMA ProbeEntryStep ==
    ASSUME IInv, OneBrowser, NEW i \in Instances, NEW t \in Spaces, ProbeEntry(i, t)
    PROVE  IInv'
<1> USE DEF ProbeEntry, disk, memory, history, Sweeping, Uncommitted, Live
<1>1. TypeOK /\ OnDisk /\ InMemory(i) /\ InSweep(i) /\ Between(i)
  BY DEF IInv, Consistent
<1>2. DeletionRemembered /\ CleanedIsGone /\ \A s \in Spaces : OfSpace(i, s)
  BY DEF IInv, Consistent
<1>3. TypeOK'
  <2>1. sweep[i] \in Sweeps /\ sweep \in [Instances -> Sweeps]
    BY <1>1 DEF TypeOK
  <2>2. [sweep[i] EXCEPT !.todo = @ \ {t}, !.victim = {t}] \in Sweeps
    BY <1>1, <2>1 DEF Sweeps, TypeOK
  <2>3. sweep' = [sweep EXCEPT ![i] = [sweep[i] EXCEPT !.todo = @ \ {t}, !.victim = {t}]]
    BY <2>1
  <2>4. sweep' \in [Instances -> Sweeps]
    BY <2>1, <2>2, <2>3
  <2> QED
    BY <1>1, <2>4 DEF TypeOK
<1>4. OnDisk'
  BY <1>1 DEF OnDisk, InMemory
<1>5. InMemory(i)'
  BY <1>1 DEF TypeOK, InMemory
<1>6. InSweep(i)'
  BY <1>1 DEF TypeOK, InMemory, InSweep, Between, OnDisk, Queued
<1>7. \A s \in Spaces : OfSpace(i, s)'
  BY <1>1, <1>2 DEF TypeOK, OfSpace
<1>8. Between(i)'
  BY <1>1, <1>2 DEF TypeOK, OnDisk, InMemory, OfSpace, InSweep, Between, DeletionRemembered, CleanedIsGone, Queued
<1>9. DeletionRemembered'
  BY <1>2 DEF DeletionRemembered
<1>10. CleanedIsGone'
  BY <1>2 DEF CleanedIsGone
<1> QED
  BY <1>3, <1>4, <1>5, <1>6, <1>7, <1>8, <1>9, <1>10 DEF OneBrowser, IInv, Consistent

\* What was removed is gone, and it was the only one.
LEMMA RemoveTreeStep ==
    ASSUME IInv, OneBrowser, NEW i \in Instances, NEW t \in Spaces, RemoveTree(i, t)
    PROVE  IInv'
<1> USE DEF RemoveTree, memory, history
<1>1. TypeOK /\ OnDisk /\ InMemory(i) /\ InSweep(i) /\ Between(i)
  BY DEF IInv, Consistent
<1>2. DeletionRemembered /\ CleanedIsGone /\ \A s \in Spaces : OfSpace(i, s)
  BY DEF IInv, Consistent
<1>3. TypeOK'
  <2>1. sweep[i] \in Sweeps /\ sweep \in [Instances -> Sweeps]
    BY <1>1 DEF TypeOK
  <2>2. [sweep[i] EXCEPT !.victim = {}] \in Sweeps
    BY <1>1, <2>1 DEF Sweeps, TypeOK
  <2>3. sweep' = [sweep EXCEPT ![i] = [sweep[i] EXCEPT !.victim = {}]]
    BY <2>1
  <2>4. sweep' \in [Instances -> Sweeps]
    BY <2>1, <2>2, <2>3
  <2> QED
    BY <1>1, <2>4 DEF TypeOK
<1>4. OnDisk'
  BY <1>1 DEF OnDisk, InMemory
<1>5. InMemory(i)'
  BY <1>1 DEF TypeOK, InMemory
<1>6. InSweep(i)'
  BY <1>1 DEF TypeOK, InMemory, InSweep, Between, Queued
<1>7. \A s \in Spaces : OfSpace(i, s)'
  BY <1>1, <1>2 DEF TypeOK, OfSpace
<1>8. Between(i)'
  BY <1>1 DEF TypeOK, Between, Queued
<1>9. DeletionRemembered'
  BY <1>2 DEF DeletionRemembered
<1>10. CleanedIsGone'
  BY <1>2 DEF CleanedIsGone
<1> QED
  BY <1>3, <1>4, <1>5, <1>6, <1>7, <1>8, <1>9, <1>10 DEF OneBrowser, IInv, Consistent

\* What could not be removed is left in the journal.
LEMMA RemovalFailsStep ==
    ASSUME IInv, OneBrowser, NEW i \in Instances, NEW t \in Spaces, RemovalFails(i, t)
    PROVE  IInv'
<1> USE DEF RemovalFails, disk, memory, history
<1>1. TypeOK /\ OnDisk /\ InMemory(i) /\ InSweep(i) /\ Between(i)
  BY DEF IInv, Consistent
<1>2. DeletionRemembered /\ CleanedIsGone /\ \A s \in Spaces : OfSpace(i, s)
  BY DEF IInv, Consistent
<1>3. TypeOK'
  <2>1. sweep[i] \in Sweeps /\ sweep \in [Instances -> Sweeps]
    BY <1>1 DEF TypeOK
  <2>2. [sweep[i] EXCEPT !.left = @ \cup {t}, !.victim = {}] \in Sweeps
    BY <1>1, <2>1 DEF Sweeps, TypeOK
  <2>3. sweep' = [sweep EXCEPT ![i] = [sweep[i] EXCEPT !.left = @ \cup {t}, !.victim = {}]]
    BY <2>1
  <2>4. sweep' \in [Instances -> Sweeps]
    BY <2>1, <2>2, <2>3
  <2> QED
    BY <1>1, <2>4 DEF TypeOK
<1>4. OnDisk'
  BY <1>1 DEF OnDisk, InMemory
<1>5. InMemory(i)'
  BY <1>1 DEF TypeOK, InMemory
<1>6. InSweep(i)'
  BY <1>1 DEF TypeOK, InMemory, InSweep, Between, Queued
<1>7. \A s \in Spaces : OfSpace(i, s)'
  BY <1>1, <1>2 DEF TypeOK, OfSpace
<1>8. Between(i)'
  BY <1>1 DEF TypeOK, Between, Queued
<1>9. DeletionRemembered'
  BY <1>2 DEF DeletionRemembered
<1>10. CleanedIsGone'
  BY <1>2 DEF CleanedIsGone
<1> QED
  BY <1>3, <1>4, <1>5, <1>6, <1>7, <1>8, <1>9, <1>10 DEF OneBrowser, IInv, Consistent

\* What is dropped from the journal was removed or was not deleted.
LEMMA SweepEndsStep ==
    ASSUME IInv, OneBrowser, NEW i \in Instances, SweepEnds(i)
    PROVE  IInv'
<1> USE NobodyAssumption DEF SweepEnds, memory, history, NoSweep, Remaining
<1>1. TypeOK /\ OnDisk /\ InMemory(i) /\ InSweep(i) /\ Between(i)
  BY DEF IInv, Consistent
<1>2. DeletionRemembered /\ CleanedIsGone /\ \A s \in Spaces : OfSpace(i, s)
  BY DEF IInv, Consistent
<1>3. TypeOK'
  <2>1. journal' \in [Spaces -> {"none", "delete", "clear"}]
    BY <1>1 DEF TypeOK
  <2>2. sweep' \in [Instances -> Sweeps]
    BY <1>1 DEF TypeOK, Sweeps, Stages
  <2> QED
    BY <1>1, <2>1, <2>2 DEF TypeOK
<1>4. OnDisk'
  BY <1>1 DEF OnDisk, InMemory
<1>5. InMemory(i)'
  BY <1>1 DEF TypeOK, InMemory
<1>6. InSweep(i)'
  BY <1>1 DEF TypeOK, InMemory, InSweep, Queued
<1>7. \A s \in Spaces : OfSpace(i, s)'
  BY <1>1, <1>2 DEF TypeOK, OfSpace, InMemory, Between
<1>8. Between(i)'
  BY <1>1 DEF TypeOK, Between, Queued
<1>9. DeletionRemembered'
  <2>1. SUFFICES ASSUME NEW s \in deleted \cap data, journal[s] = "delete", s \notin dropped
                 PROVE  journal'[s] = "delete"
    BY <1>2 DEF DeletionRemembered
  <2>2. s \in Spaces /\ s \notin store
    BY <1>1 DEF OnDisk, TypeOK
  <2>3. s \in sweep[i].left
    BY <1>1, <2>1, <2>2 DEF InSweep, Queued
  <2> QED
    BY <2>1, <2>2, <2>3
<1>10. CleanedIsGone'
  BY <1>2 DEF CleanedIsGone
<1> QED
  BY <1>3, <1>4, <1>5, <1>6, <1>7, <1>8, <1>9, <1>10 DEF OneBrowser, IInv, Consistent

\* A new identifier belongs to no Space that was deleted.
LEMMA CreateStep ==
    ASSUME IInv, OneBrowser, NEW i \in Instances, NEW t \in Spaces, Create(i, t)
    PROVE  IInv'
<1> USE DEF Create, Ready, Save
<1>1. TypeOK /\ OnDisk /\ InMemory(i) /\ InSweep(i) /\ Between(i)
  BY DEF IInv, Consistent
<1>2. DeletionRemembered /\ CleanedIsGone /\ \A s \in Spaces : OfSpace(i, s)
  BY DEF IInv, Consistent
<1>3. TypeOK'
  BY <1>1 DEF TypeOK, Stages, Jobs, Sweeps
<1>4. OnDisk'
  BY <1>1 DEF OnDisk, InMemory
<1>5. InMemory(i)'
  BY <1>1 DEF TypeOK, InMemory
<1>6. InSweep(i)'
  BY <1>1 DEF TypeOK, InMemory, InSweep, Queued
<1>7. \A s \in Spaces : OfSpace(i, s)'
  BY <1>1, <1>2 DEF TypeOK, OfSpace, InMemory
<1>8. Between(i)'
  BY <1>1 DEF TypeOK, Between, Queued
<1>9. DeletionRemembered'
  BY <1>2 DEF DeletionRemembered
<1>10. CleanedIsGone'
  BY <1>2 DEF CleanedIsGone
<1> QED
  BY <1>3, <1>4, <1>5, <1>6, <1>7, <1>8, <1>9, <1>10 DEF OneBrowser, IInv, Consistent

\* Only a Space that is in the store and not closing is opened.
LEMMA OpenProfileStep ==
    ASSUME IInv, OneBrowser, NEW i \in Instances, NEW t \in Spaces, OpenProfile(i, t)
    PROVE  IInv'
<1> USE DEF OpenProfile, history, Ready
<1>1. TypeOK /\ OnDisk /\ InMemory(i) /\ InSweep(i) /\ Between(i)
  BY DEF IInv, Consistent
<1>2. DeletionRemembered /\ CleanedIsGone /\ \A s \in Spaces : OfSpace(i, s)
  BY DEF IInv, Consistent
<1>3. TypeOK'
  BY <1>1 DEF TypeOK, Stages, Jobs, Sweeps
<1>4. OnDisk'
  BY <1>1 DEF OnDisk, InMemory
<1>5. InMemory(i)'
  BY <1>1 DEF TypeOK, InMemory
<1>6. InSweep(i)'
  BY <1>1 DEF TypeOK, InMemory, InSweep, Queued
<1>7. \A s \in Spaces : OfSpace(i, s)'
  BY <1>1, <1>2 DEF TypeOK, OfSpace
<1>8. Between(i)'
  BY <1>1 DEF TypeOK, Between, Queued
<1>9. DeletionRemembered'
  BY <1>1, <1>2 DEF DeletionRemembered, OnDisk, InMemory
<1>10. CleanedIsGone'
  BY <1>1, <1>2 DEF CleanedIsGone, InMemory, OnDisk
<1> QED
  BY <1>3, <1>4, <1>5, <1>6, <1>7, <1>8, <1>9, <1>10 DEF OneBrowser, IInv, Consistent

\* The entry is written before anything else.
LEMMA BeginDeleteStep ==
    ASSUME IInv, OneBrowser, NEW i \in Instances, NEW t \in Spaces, Begin(i, t, "delete")
    PROVE  IInv'
<1> USE DEF Begin, Ready
<1>1. TypeOK /\ OnDisk /\ InMemory(i) /\ InSweep(i) /\ Between(i)
  BY DEF IInv, Consistent
<1>2. DeletionRemembered /\ CleanedIsGone /\ \A s \in Spaces : OfSpace(i, s)
  BY DEF IInv, Consistent
<1>3. TypeOK'
  BY <1>1 DEF TypeOK, Stages, Jobs, Sweeps
<1>4. OnDisk'
  BY <1>1 DEF OnDisk, InMemory
<1>5. InMemory(i)'
  BY <1>1 DEF TypeOK, InMemory
<1>6. InSweep(i)'
  BY <1>1 DEF TypeOK, InMemory, InSweep, Queued
<1>7. \A s \in Spaces : OfSpace(i, s)'
  BY <1>1, <1>2 DEF TypeOK, OfSpace, InMemory
<1>8. Between(i)'
  BY <1>1 DEF TypeOK, Between, Queued
<1>9. DeletionRemembered'
  BY <1>2 DEF DeletionRemembered
<1>10. CleanedIsGone'
  BY <1>2 DEF CleanedIsGone
<1> QED
  BY <1>3, <1>4, <1>5, <1>6, <1>7, <1>8, <1>9, <1>10 DEF OneBrowser, IInv, Consistent

\* A clear changes the entry of a Space that was not deleted.
LEMMA BeginClearStep ==
    ASSUME IInv, OneBrowser, NEW i \in Instances, NEW t \in Spaces, Begin(i, t, "clear")
    PROVE  IInv'
<1> USE DEF Begin, Ready
<1>1. TypeOK /\ OnDisk /\ InMemory(i) /\ InSweep(i) /\ Between(i)
  BY DEF IInv, Consistent
<1>2. DeletionRemembered /\ CleanedIsGone /\ \A s \in Spaces : OfSpace(i, s)
  BY DEF IInv, Consistent
<1>3. TypeOK'
  BY <1>1 DEF TypeOK, Stages, Jobs, Sweeps
<1>4. OnDisk'
  BY <1>1 DEF OnDisk, InMemory
<1>5. InMemory(i)'
  BY <1>1 DEF TypeOK, InMemory
<1>6. InSweep(i)'
  BY <1>1 DEF TypeOK, InMemory, InSweep, Queued
<1>7. \A s \in Spaces : OfSpace(i, s)'
  BY <1>1, <1>2 DEF TypeOK, OfSpace
<1>8. Between(i)'
  BY <1>1 DEF TypeOK, Between, Queued
<1>9. DeletionRemembered'
  BY <1>1, <1>2 DEF DeletionRemembered, OnDisk, InMemory
<1>10. CleanedIsGone'
  BY <1>2 DEF CleanedIsGone
<1> QED
  BY <1>3, <1>4, <1>5, <1>6, <1>7, <1>8, <1>9, <1>10 DEF OneBrowser, IInv, Consistent

\* The Space leaves memory and store at once, and has its entry unless one was dropped.
LEMMA CommitDeletionStep ==
    ASSUME IInv, OneBrowser, NEW i \in Instances, NEW t \in Spaces, CommitDeletion(i, t)
    PROVE  IInv'
<1> USE DEF CommitDeletion, Ready, Save
<1>1. TypeOK /\ OnDisk /\ InMemory(i) /\ InSweep(i) /\ Between(i)
  BY DEF IInv, Consistent
<1>2. DeletionRemembered /\ CleanedIsGone /\ \A s \in Spaces : OfSpace(i, s)
  BY DEF IInv, Consistent
<1>3. TypeOK'
  BY <1>1 DEF TypeOK, Stages, Jobs, Sweeps
<1>4. OnDisk'
  BY <1>1, <1>2 DEF OnDisk, InMemory, OfSpace, TypeOK
<1>5. InMemory(i)'
  BY <1>1 DEF TypeOK, InMemory
<1>6. InSweep(i)'
  BY <1>1 DEF TypeOK, InMemory, InSweep, Queued
<1>7. \A s \in Spaces : OfSpace(i, s)'
  BY <1>1, <1>2 DEF TypeOK, OfSpace, InMemory
<1>8. Between(i)'
  BY <1>1 DEF TypeOK, Between, Queued
<1>9. DeletionRemembered'
  BY <1>1, <1>2 DEF DeletionRemembered, OnDisk, InMemory, OfSpace, InSweep
<1>10. CleanedIsGone'
  BY <1>1, <1>2 DEF CleanedIsGone, InMemory, OnDisk, OfSpace, DeletionRemembered
<1> QED
  BY <1>3, <1>4, <1>5, <1>6, <1>7, <1>8, <1>9, <1>10 DEF OneBrowser, IInv, Consistent

\* The entry that is taken back is one of a Space that stays.
LEMMA DeletionFailsStep ==
    ASSUME IInv, OneBrowser, NEW i \in Instances, NEW t \in Spaces, DeletionFails(i, t)
    PROVE  IInv'
<1> USE DEF DeletionFails, history, Ready
<1>1. TypeOK /\ OnDisk /\ InMemory(i) /\ InSweep(i) /\ Between(i)
  BY DEF IInv, Consistent
<1>2. DeletionRemembered /\ CleanedIsGone /\ \A s \in Spaces : OfSpace(i, s)
  BY DEF IInv, Consistent
<1>3. TypeOK'
  BY <1>1 DEF TypeOK, Stages, Jobs, Sweeps
<1>4. OnDisk'
  BY <1>1, <1>2 DEF OnDisk, InMemory, OfSpace, TypeOK
<1>5. InMemory(i)'
  BY <1>1 DEF TypeOK, InMemory
<1>6. InSweep(i)'
  BY <1>1 DEF TypeOK, InMemory, InSweep, Queued
<1>7. \A s \in Spaces : OfSpace(i, s)'
  BY <1>1, <1>2 DEF TypeOK, OfSpace
<1>8. Between(i)'
  BY <1>1 DEF TypeOK, Between, Queued
<1>9. DeletionRemembered'
  BY <1>1, <1>2 DEF TypeOK, OnDisk, InMemory, OfSpace, InSweep, Between, DeletionRemembered, CleanedIsGone
<1>10. CleanedIsGone'
  BY <1>2 DEF CleanedIsGone
<1> QED
  BY <1>3, <1>4, <1>5, <1>6, <1>7, <1>8, <1>9, <1>10 DEF OneBrowser, IInv, Consistent

\* A clear goes on to the release.
LEMMA CommitClearStep ==
    ASSUME IInv, OneBrowser, NEW i \in Instances, NEW t \in Spaces, CommitClear(i, t)
    PROVE  IInv'
<1> USE DEF CommitClear, disk, history, Ready
<1>1. TypeOK /\ OnDisk /\ InMemory(i) /\ InSweep(i) /\ Between(i)
  BY DEF IInv, Consistent
<1>2. DeletionRemembered /\ CleanedIsGone /\ \A s \in Spaces : OfSpace(i, s)
  BY DEF IInv, Consistent
<1>3. TypeOK'
  BY <1>1 DEF TypeOK, Stages, Jobs, Sweeps
<1>4. OnDisk'
  BY <1>1 DEF OnDisk, InMemory
<1>5. InMemory(i)'
  BY <1>1 DEF TypeOK, InMemory
<1>6. InSweep(i)'
  BY <1>1 DEF TypeOK, InMemory, InSweep, Queued
<1>7. \A s \in Spaces : OfSpace(i, s)'
  BY <1>1, <1>2 DEF TypeOK, OfSpace
<1>8. Between(i)'
  BY <1>1 DEF TypeOK, Between, Queued
<1>9. DeletionRemembered'
  BY <1>2 DEF DeletionRemembered
<1>10. CleanedIsGone'
  BY <1>2 DEF CleanedIsGone
<1> QED
  BY <1>3, <1>4, <1>5, <1>6, <1>7, <1>8, <1>9, <1>10 DEF OneBrowser, IInv, Consistent

\* The profiles are closed before the timer is set.
LEMMA ReleaseProfileStep ==
    ASSUME IInv, OneBrowser, NEW i \in Instances, NEW t \in Spaces, ReleaseProfile(i, t)
    PROVE  IInv'
<1> USE DEF ReleaseProfile, disk, history, Ready
<1>1. TypeOK /\ OnDisk /\ InMemory(i) /\ InSweep(i) /\ Between(i)
  BY DEF IInv, Consistent
<1>2. DeletionRemembered /\ CleanedIsGone /\ \A s \in Spaces : OfSpace(i, s)
  BY DEF IInv, Consistent
<1>3. TypeOK'
  BY <1>1 DEF TypeOK, Stages, Jobs, Sweeps
<1>4. OnDisk'
  BY <1>1 DEF OnDisk, InMemory
<1>5. InMemory(i)'
  BY <1>1 DEF TypeOK, InMemory
<1>6. InSweep(i)'
  BY <1>1 DEF TypeOK, InMemory, InSweep, Queued
<1>7. \A s \in Spaces : OfSpace(i, s)'
  BY <1>1, <1>2 DEF TypeOK, OfSpace
<1>8. Between(i)'
  BY <1>1 DEF TypeOK, Between, Queued
<1>9. DeletionRemembered'
  BY <1>2 DEF DeletionRemembered
<1>10. CleanedIsGone'
  BY <1>2 DEF CleanedIsGone
<1> QED
  BY <1>3, <1>4, <1>5, <1>6, <1>7, <1>8, <1>9, <1>10 DEF OneBrowser, IInv, Consistent

\* The timer begins a sweep.
LEMMA CleanupTimerStep ==
    ASSUME IInv, OneBrowser, NEW i \in Instances, NEW t \in Spaces, CleanupTimer(i, t)
    PROVE  IInv'
<1> USE DEF CleanupTimer, disk, history, Ready
<1>1. TypeOK /\ OnDisk /\ InMemory(i) /\ InSweep(i) /\ Between(i)
  BY DEF IInv, Consistent
<1>2. DeletionRemembered /\ CleanedIsGone /\ \A s \in Spaces : OfSpace(i, s)
  BY DEF IInv, Consistent
<1>3. TypeOK'
  <2>1. sweep[i] \in Sweeps /\ sweep \in [Instances -> Sweeps]
    BY <1>1 DEF TypeOK
  <2>2. [sweep[i] EXCEPT !.stage = "begin"] \in Sweeps
    BY <1>1, <2>1 DEF Sweeps, TypeOK, Stages
  <2>3. sweep' = [sweep EXCEPT ![i] = [sweep[i] EXCEPT !.stage = "begin"]]
    BY <2>1
  <2>4. sweep' \in [Instances -> Sweeps]
    BY <2>1, <2>2, <2>3
  <2> QED
    BY <1>1, <2>4 DEF TypeOK, Jobs
<1>4. OnDisk'
  BY <1>1 DEF OnDisk, InMemory
<1>5. InMemory(i)'
  BY <1>1 DEF TypeOK, InMemory
<1>6. InSweep(i)'
  BY <1>1 DEF TypeOK, InMemory, InSweep, Queued
<1>7. \A s \in Spaces : OfSpace(i, s)'
  BY <1>1, <1>2 DEF TypeOK, OfSpace
<1>8. Between(i)'
  BY <1>1 DEF TypeOK, Between, Queued
<1>9. DeletionRemembered'
  BY <1>2 DEF DeletionRemembered
<1>10. CleanedIsGone'
  BY <1>2 DEF CleanedIsGone
<1> QED
  BY <1>3, <1>4, <1>5, <1>6, <1>7, <1>8, <1>9, <1>10 DEF OneBrowser, IInv, Consistent

\* A Space without an entry is gone, or its entry was dropped.
LEMMA CleanedStep ==
    ASSUME IInv, OneBrowser, NEW i \in Instances, NEW t \in Spaces, Cleaned(i, t)
    PROVE  IInv'
<1> USE DEF Cleaned, disk
<1>1. TypeOK /\ OnDisk /\ InMemory(i) /\ InSweep(i) /\ Between(i)
  BY DEF IInv, Consistent
<1>2. DeletionRemembered /\ CleanedIsGone /\ \A s \in Spaces : OfSpace(i, s)
  BY DEF IInv, Consistent
<1>3. TypeOK'
  <2>1. sweep[i] \in Sweeps /\ sweep \in [Instances -> Sweeps]
    BY <1>1 DEF TypeOK
  <2>2. [sweep[i] EXCEPT !.stage = "none"] \in Sweeps
    BY <1>1, <2>1 DEF Sweeps, TypeOK, Stages
  <2>3. sweep' = [sweep EXCEPT ![i] = [sweep[i] EXCEPT !.stage = "none"]]
    BY <2>1
  <2>4. sweep' \in [Instances -> Sweeps]
    BY <2>1, <2>2, <2>3
  <2> QED
    BY <1>1, <2>4 DEF TypeOK, Jobs
<1>4. OnDisk'
  BY <1>1 DEF OnDisk, InMemory
<1>5. InMemory(i)'
  BY <1>1 DEF TypeOK, InMemory
<1>6. InSweep(i)'
  BY <1>1 DEF TypeOK, InMemory, InSweep, Queued
<1>7. \A s \in Spaces : OfSpace(i, s)'
  BY <1>1, <1>2 DEF TypeOK, OfSpace
<1>8. Between(i)'
  BY <1>1 DEF TypeOK, Between, Queued
<1>9. DeletionRemembered'
  BY <1>2 DEF DeletionRemembered
<1>10. CleanedIsGone'
  BY <1>1, <1>2 DEF CleanedIsGone, InMemory, OnDisk, OfSpace, DeletionRemembered
<1> QED
  BY <1>3, <1>4, <1>5, <1>6, <1>7, <1>8, <1>9, <1>10 DEF OneBrowser, IInv, Consistent

\* The Space stays closed.
LEMMA StillPendingStep ==
    ASSUME IInv, OneBrowser, NEW i \in Instances, NEW t \in Spaces, StillPending(i, t)
    PROVE  IInv'
<1> USE DEF StillPending, disk
<1>1. TypeOK /\ OnDisk /\ InMemory(i) /\ InSweep(i) /\ Between(i)
  BY DEF IInv, Consistent
<1>2. DeletionRemembered /\ CleanedIsGone /\ \A s \in Spaces : OfSpace(i, s)
  BY DEF IInv, Consistent
<1>3. TypeOK'
  <2>1. sweep[i] \in Sweeps /\ sweep \in [Instances -> Sweeps]
    BY <1>1 DEF TypeOK
  <2>2. [sweep[i] EXCEPT !.stage = "none"] \in Sweeps
    BY <1>1, <2>1 DEF Sweeps, TypeOK, Stages
  <2>3. sweep' = [sweep EXCEPT ![i] = [sweep[i] EXCEPT !.stage = "none"]]
    BY <2>1
  <2>4. sweep' \in [Instances -> Sweeps]
    BY <2>1, <2>2, <2>3
  <2> QED
    BY <1>1, <2>4 DEF TypeOK, Jobs
<1>4. OnDisk'
  BY <1>1 DEF OnDisk, InMemory
<1>5. InMemory(i)'
  BY <1>1 DEF TypeOK, InMemory
<1>6. InSweep(i)'
  BY <1>1 DEF TypeOK, InMemory, InSweep, Queued
<1>7. \A s \in Spaces : OfSpace(i, s)'
  BY <1>1, <1>2 DEF TypeOK, OfSpace
<1>8. Between(i)'
  BY <1>1 DEF TypeOK, Between, Queued
<1>9. DeletionRemembered'
  BY <1>2 DEF DeletionRemembered
<1>10. CleanedIsGone'
  BY <1>2 DEF CleanedIsGone
<1> QED
  BY <1>3, <1>4, <1>5, <1>6, <1>7, <1>8, <1>9, <1>10 DEF OneBrowser, IInv, Consistent

\* Every step of the one browser preserves the inductive invariant.
THEOREM NextIInv == ASSUME OneBrowser PROVE IInv /\ [Next]_vars => IInv'
<1> SUFFICES ASSUME IInv, [Next]_vars PROVE IInv'
  OBVIOUS
<1>1. CASE UNCHANGED vars
  BY <1>1 DEF vars, disk, memory, history, IInv, Consistent, TypeOK, OnDisk, InMemory, OfSpace,
     InSweep, Between, DeletionRemembered, CleanedIsGone, Queued
<1>2. ASSUME NEW i \in Instances, Edit(i) \/ Start(i) \/ Load(i) \/ LoadFails(i) \/ Stop(i)
      PROVE  IInv'
  BY <1>2, OneBrowser, EditStep, StartStep, LoadStep, LoadFailsStep, StopStep
<1>3. ASSUME NEW i \in Instances, SweepBegins(i) \/ SweepRefused(i) \/ SweepEnds(i)
      PROVE  IInv'
  BY <1>3, OneBrowser, SweepBeginsStep, SweepRefusedStep, SweepEndsStep
<1>4. ASSUME NEW i \in Instances, NEW t \in Spaces,
             SweepEntry(i, t) \/ RemoveTree(i, t) \/ RemovalFails(i, t)
      PROVE  IInv'
  BY <1>4, OneBrowser, DropEntryStep, DeferEntryStep, ProbeEntryStep, RemoveTreeStep,
     RemovalFailsStep DEF SweepEntry
<1>5. ASSUME NEW i \in Instances, NEW t \in Spaces,
             \/ Create(i, t) \/ OpenProfile(i, t)
             \/ Begin(i, t, "delete") \/ Begin(i, t, "clear") \/ CommitDeletion(i, t)
      PROVE  IInv'
  BY <1>5, OneBrowser, CreateStep, OpenProfileStep, BeginDeleteStep, BeginClearStep,
     CommitDeletionStep
<1>6. ASSUME NEW i \in Instances, NEW t \in Spaces,
             \/ DeletionFails(i, t) \/ CommitClear(i, t) \/ ReleaseProfile(i, t)
             \/ CleanupTimer(i, t) \/ Cleaned(i, t) \/ StillPending(i, t)
      PROVE  IInv'
  BY <1>6, OneBrowser, DeletionFailsStep, CommitClearStep, ReleaseProfileStep, CleanupTimerStep,
     CleanedStep, StillPendingStep
<1> QED
  BY <1>1, <1>2, <1>3, <1>4, <1>5, <1>6 DEF Next, SweepStep, SpaceStep

\* The inductive invariant holds in every reachable state.
THEOREM AlwaysIInv == ASSUME OneBrowser PROVE Spec => []IInv
<1>1. IInv /\ [Next]_vars => IInv'
  BY OneBrowser, NextIInv
<1> QED
  BY <1>1, InitIInv, PTL DEF Spec

\* What the browser has in memory agrees with the store, the journal and the
\* directories, through every crash and failure.
THEOREM AlwaysConsistent == ASSUME OneBrowser PROVE Spec => []Consistent
<1>1. Spec => []IInv
  BY OneBrowser, AlwaysIInv
<1> QED
  BY <1>1, PTL DEF IInv

\* A Space that was deleted is journaled as long as it has data.
THEOREM AlwaysDeletionRemembered == ASSUME OneBrowser PROVE Spec => []DeletionRemembered
<1>1. Spec => []IInv
  BY OneBrowser, AlwaysIInv
<1> QED
  BY <1>1, PTL DEF IInv

\* A Space that is reported as cleaned after its deletion is gone.
THEOREM AlwaysCleanedIsGone == ASSUME OneBrowser PROVE Spec => []CleanedIsGone
<1>1. Spec => []IInv
  BY OneBrowser, AlwaysIInv
<1> QED
  BY <1>1, PTL DEF IInv

\* Only a clear that is journaled or a deletion that was committed takes data.
THEOREM AlwaysUncommittedKeepsData == ASSUME OneBrowser PROVE Spec => UncommittedKeepsData
<1> DEFINE A == \A s \in data \ data' : journal[s] = "clear" \/ s \in deleted \cup lost
<1>1. IInv /\ [Next]_vars => [A]_vars
  <2> SUFFICES ASSUME IInv, Next, NEW s \in data \ data'
               PROVE  journal[s] = "clear" \/ s \in deleted \cup lost
    BY DEF vars
  <2>1. PICK i \in Instances :
          \/ Edit(i) \/ Start(i) \/ Load(i) \/ LoadFails(i) \/ Stop(i)
          \/ SweepStep(i)
          \/ \E t \in Spaces : SpaceStep(i, t)
    BY DEF Next
  <2>2. PICK t \in Spaces : RemoveTree(i, t)
    <3>1. ~(Edit(i) \/ Start(i) \/ Load(i) \/ LoadFails(i) \/ Stop(i))
      BY DEF Edit, Start, Load, LoadFails, Stop, disk
    <3>2. ~(SweepBegins(i) \/ SweepRefused(i) \/ SweepEnds(i))
      BY DEF SweepBegins, SweepRefused, SweepEnds, disk
    <3>3. ~\E t \in Spaces : SweepEntry(i, t) \/ RemovalFails(i, t)
      BY DEF SweepEntry, DropEntry, DeferEntry, ProbeEntry, RemovalFails, disk
    <3>4. ~\E t \in Spaces : SpaceStep(i, t)
      <4> SUFFICES ASSUME NEW t \in Spaces, SpaceStep(i, t) PROVE data \subseteq data'
        OBVIOUS
      <4>1. CASE OpenProfile(i, t)
        BY <4>1 DEF OpenProfile
      <4>2. CASE ~OpenProfile(i, t)
        BY <4>2 DEF SpaceStep, Create, Begin, CommitDeletion, DeletionFails, CommitClear,
           ReleaseProfile, CleanupTimer, Cleaned, StillPending, disk
      <4> QED
        BY <4>1, <4>2
    <3> QED
      BY <2>1, <3>1, <3>2, <3>3, <3>4 DEF SweepStep
  <2>3. s \in sweep[i].victim
    BY <2>2 DEF RemoveTree
  <2>4. sweep[i].stage = "sweep"
    BY <2>3 DEF IInv, Between
  <2> QED
    BY <2>3, <2>4 DEF IInv, Consistent, InSweep
<1>2. Spec => []IInv
  BY OneBrowser, AlwaysIInv
<1> QED
  BY <1>1, <1>2, PTL DEF Spec, UncommittedKeepsData
=============================================================================
