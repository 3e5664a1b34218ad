---------------------------- MODULE SpaceCleanup ----------------------------
(***************************************************************************)
(* How a Space (a container with browser profiles of its own) is created,  *)
(* cleared and deleted (src/granger/containers/ContainerManager.cpp), over *)
(* three things on disk that survive a crash: the store with the Spaces    *)
(* that exist, the journal of the cleanups still to be done, and the       *)
(* directories of the Spaces.                                              *)
(*                                                                         *)
(* A deletion is begun (journaled), its tabs close, it is committed (the   *)
(* Space leaves the store), its profiles are destroyed, and a zero timer   *)
(* sweeps the whole journal.  Every start of the browser sweeps it first.  *)
(* A sweep holds the lock file of the journal and is one step per entry:   *)
(* the browser may be killed, and another instance may act, in between.    *)
(* Everything else in an instance waits for its sweep to end.              *)
(*                                                                         *)
(* The "state" of a journal entry is written and never read, and is left   *)
(* out.  The profiles of a Space (standard, Tor, onion) are one, as are    *)
(* its two directories: a directory that stays makes the whole removal     *)
(* fail.  A lease is a lock file that its owner keeps open, so it is gone  *)
(* when the instance is, and only then.                                    *)
(***************************************************************************)

CONSTANTS Spaces,      \* the identifiers, none of them the default Space's
          Instances,   \* browsers that run on the same data
          Nobody,      \* no instance
          Faults       \* "save", "journal", "read", "remove" and "load" may fail

ASSUME NobodyAssumption == Nobody \notin Instances
ASSUME FaultsAssumption == Faults \subseteq {"save", "journal", "read", "remove", "load"}

VARIABLES
    store,      \* the Spaces in the store file
    journal,    \* the pending cleanup of each Space
    data,       \* the Spaces whose directories exist
    lock,       \* the instance that holds the lock file of the journal
    state,      \* of each instance: down, starting or running
    known,      \* m_containers of each instance
    closing,    \* m_closingContainers
    open,       \* the Spaces with a profile, hence a lease
    job,        \* how far the cleanup of each Space is in each instance
    sweep,      \* applyPendingCleanup() and what follows it, in each instance
    created,    \* history: the identifiers given out
    deleted,    \* history: the Spaces whose deletion was committed
    dropped,    \* history: those whose entry a sweep dropped before the commit
    told,       \* history: the Spaces last reported as cleaned
    lost,       \* history: those that a save dropped though nobody deleted them
    stale       \* history: the instances that could neither read the store nor
                \* replace it, and have not saved since: it is not what they know

disk == <<store, journal, data>>
memory == <<known, closing, open, job>>
history == <<created, deleted, dropped, told, lost, stale>>
vars == <<disk, lock, state, memory, sweep, history>>

Stages == {"none", "begin", "sweep", "verify"}
NoSweep == [stage |-> "none", todo |-> {}, left |-> {}, active |-> {}, victim |-> {}]
Sweeps == [stage : Stages, todo : SUBSET Spaces, left : SUBSET Spaces,
           active : SUBSET Spaces, victim : SUBSET Spaces]
Jobs == {"idle", "delete", "clear", "release", "timer", "sweeping", "waiting"}

TypeOK ==
    /\ store \subseteq Spaces /\ data \subseteq Spaces
    /\ journal \in [Spaces -> {"none", "delete", "clear"}]
    /\ lock \in Instances \cup {Nobody}
    /\ state \in [Instances -> {"down", "starting", "running"}]
    /\ known \in [Instances -> SUBSET Spaces]
    /\ closing \in [Instances -> SUBSET Spaces]
    /\ open \in [Instances -> SUBSET Spaces]
    /\ job \in [Instances -> [Spaces -> Jobs]]
    /\ sweep \in [Instances -> Sweeps]
    /\ created \subseteq Spaces /\ deleted \subseteq Spaces
    /\ dropped \subseteq Spaces /\ told \subseteq Spaces /\ lost \subseteq Spaces
    /\ stale \subseteq Instances

Init ==
    /\ store = {} /\ data = {} /\ lock = Nobody
    /\ journal = [s \in Spaces |-> "none"]
    /\ state = [i \in Instances |-> "down"]
    /\ known = [i \in Instances |-> {}]
    /\ closing = [i \in Instances |-> {}]
    /\ open = [i \in Instances |-> {}]
    /\ job = [i \in Instances |-> [s \in Spaces |-> "idle"]]
    /\ sweep = [i \in Instances |-> NoSweep]
    /\ created = {} /\ deleted = {} /\ dropped = {} /\ told = {} /\ lost = {}
    /\ stale = {}

Ready(i) == state[i] = "running" /\ sweep[i].stage = "none"

Queued == {s \in Spaces : journal[s] # "none"}

-----------------------------------------------------------------------------
(* Spaces and profiles                                                     *)

\* All that is in memory replaces the store, whatever was in it.
Save(i) ==
    /\ store' = known'[i]
    /\ stale' = stale \ {i}
    /\ lost' = lost \cup (store \ (store' \cup deleted'))

\* A new Space has an identifier of its own.  A save that fails undoes it.
Create(i, s) ==
    /\ Ready(i) /\ s \notin created
    /\ created' = created \cup {s}
    /\ known' = [known EXCEPT ![i] = @ \cup {s}]
    /\ UNCHANGED <<journal, data, lock, state, closing, open, job, sweep, deleted, dropped, told>>
    /\ Save(i)

\* Every other edit (name, look, order, sites) saves.
Edit(i) ==
    /\ Ready(i)
    /\ UNCHANGED <<journal, data, lock, state, memory, sweep, created, deleted, dropped, told>>
    /\ Save(i)

OpenProfile(i, s) ==
    /\ Ready(i) /\ s \in known[i] \ closing[i]
    /\ open' = [open EXCEPT ![i] = @ \cup {s}]
    /\ data' = data \cup {s}
    /\ UNCHANGED <<store, journal, lock, state, known, closing, job, sweep, history>>

-----------------------------------------------------------------------------
(* Clearing and deleting                                                   *)

\* A journal that is busy or cannot be written leaves everything as it is.
Begin(i, s, operation) ==
    /\ Ready(i) /\ s \in known[i] \ closing[i]
    /\ lock = Nobody
    /\ journal' = [journal EXCEPT ![s] = operation]
    /\ closing' = [closing EXCEPT ![i] = @ \cup {s}]
    /\ job' = [job EXCEPT ![i][s] = operation]
    /\ told' = told \ {s}
    /\ UNCHANGED <<store, data, lock, state, known, open, sweep, created, deleted, dropped, lost, stale>>

\* A bug that this module must notice: the store is written at the next edit.
CommitDeletionUnsaved(i, s) ==
    /\ Ready(i) /\ job[i][s] = "delete"
    /\ known' = [known EXCEPT ![i] = @ \ {s}]
    /\ job' = [job EXCEPT ![i][s] = "release"]
    /\ deleted' = deleted \cup {s}
    /\ UNCHANGED <<store, journal, data, lock, state, closing, open, sweep, created, dropped, told, lost, stale>>

\* The tabs are closed.  Whether the entry is still there makes no difference.
CommitDeletion(i, s) ==
    /\ Ready(i) /\ job[i][s] = "delete"
    /\ known' = [known EXCEPT ![i] = @ \ {s}]
    /\ job' = [job EXCEPT ![i][s] = "release"]
    /\ deleted' = deleted \cup {s}
    /\ UNCHANGED <<journal, data, lock, state, closing, open, sweep, created, dropped, told>>
    /\ Save(i)

\* The store cannot be written: the deletion is taken back, and so is its entry
\* when the journal can be.
DeletionFails(i, s) ==
    /\ "save" \in Faults
    /\ Ready(i) /\ job[i][s] = "delete"
    /\ closing' = [closing EXCEPT ![i] = @ \ {s}]
    /\ job' = [job EXCEPT ![i][s] = "idle"]
    /\ \/ lock = Nobody /\ journal' = [journal EXCEPT ![s] = "none"]
       \/ (lock # Nobody \/ "journal" \in Faults) /\ journal' = journal
    /\ UNCHANGED <<store, data, lock, state, known, open, sweep, history>>

CommitClear(i, s) ==
    /\ Ready(i) /\ job[i][s] = "clear"
    /\ job' = [job EXCEPT ![i][s] = "release"]
    /\ UNCHANGED <<disk, lock, state, known, closing, open, sweep, history>>

\* The downloads have ended and the profiles are destroyed; the timer is set.
ReleaseProfile(i, s) ==
    /\ Ready(i) /\ job[i][s] = "release"
    /\ open' = [open EXCEPT ![i] = @ \ {s}]
    /\ job' = [job EXCEPT ![i][s] = "timer"]
    /\ UNCHANGED <<disk, lock, state, known, closing, sweep, history>>

CleanupTimer(i, s) ==
    /\ Ready(i) /\ job[i][s] = "timer"
    /\ job' = [job EXCEPT ![i][s] = "sweeping"]
    /\ sweep' = [sweep EXCEPT ![i].stage = "begin"]
    /\ UNCHANGED <<disk, lock, state, known, closing, open, history>>

-----------------------------------------------------------------------------
(* The sweep of the journal, and what follows it                           *)

SweepBegins(i) ==
    /\ sweep[i].stage = "begin" /\ lock = Nobody
    /\ lock' = i
    /\ sweep' = [sweep EXCEPT ![i].stage = "sweep", ![i].todo = Queued, ![i].active = store]
    /\ UNCHANGED <<disk, state, memory, history>>

\* The journal is busy, or it or the store cannot be read.
SweepRefused(i) ==
    /\ sweep[i].stage = "begin" /\ (lock # Nobody \/ "read" \in Faults)
    /\ sweep' = [sweep EXCEPT ![i].stage = "verify"]
    /\ UNCHANGED <<disk, lock, state, memory, history>>

\* A bug that this module must notice: every entry is taken for committed.
UncommittedIgnored(i, s) == FALSE

Uncommitted(i, s) == journal[s] = "delete" /\ s \in sweep[i].active

Sweeping(i, s) == sweep[i].stage = "sweep" /\ sweep[i].victim = {} /\ s \in sweep[i].todo

\* The deletion of a Space that exists was never committed.
DropEntry(i, s) ==
    /\ Sweeping(i, s) /\ Uncommitted(i, s)
    /\ sweep' = [sweep EXCEPT ![i].todo = @ \ {s}]
    /\ dropped' = IF \E j \in Instances : job[j][s] = "delete" THEN dropped \cup {s} ELSE dropped
    /\ UNCHANGED <<disk, lock, state, memory, created, deleted, told, lost, stale>>

Live(s) == \E j \in Instances : s \in open[j]

DeferEntry(i, s) ==
    /\ Sweeping(i, s) /\ ~Uncommitted(i, s) /\ Live(s)
    /\ sweep' = [sweep EXCEPT ![i].todo = @ \ {s}, ![i].left = @ \cup {s}]
    /\ UNCHANGED <<disk, lock, state, memory, history>>

\* No lease is held: the directories are removed next.
ProbeEntry(i, s) ==
    /\ Sweeping(i, s) /\ ~Uncommitted(i, s) /\ ~Live(s)
    /\ sweep' = [sweep EXCEPT ![i].todo = @ \ {s}, ![i].victim = {s}]
    /\ UNCHANGED <<disk, lock, state, memory, history>>

SweepEntry(i, s) == DropEntry(i, s) \/ DeferEntry(i, s) \/ ProbeEntry(i, s)

RemoveTree(i, s) ==
    /\ s \in sweep[i].victim
    /\ data' = data \ {s}
    /\ sweep' = [sweep EXCEPT ![i].victim = {}]
    /\ UNCHANGED <<store, journal, lock, state, memory, history>>

\* A bug that this module must notice: what could not be removed is forgotten.
RemovalFailsOnce(i, s) ==
    /\ "remove" \in Faults /\ s \in sweep[i].victim
    /\ sweep' = [sweep EXCEPT ![i].victim = {}]
    /\ UNCHANGED <<disk, lock, state, memory, history>>

RemovalFails(i, s) ==
    /\ "remove" \in Faults /\ s \in sweep[i].victim
    /\ sweep' = [sweep EXCEPT ![i].left = @ \cup {s}, ![i].victim = {}]
    /\ UNCHANGED <<disk, lock, state, memory, history>>

Remaining(i) == [s \in Spaces |-> IF s \in sweep[i].left THEN journal[s] ELSE "none"]

\* The journal is written, if it can be, and let go.
SweepEnds(i) ==
    /\ sweep[i].stage = "sweep" /\ sweep[i].todo = {} /\ sweep[i].victim = {}
    /\ journal' = Remaining(i) \/ ("journal" \in Faults /\ journal' = journal)
    /\ lock' = Nobody
    /\ sweep' = [sweep EXCEPT ![i] = [NoSweep EXCEPT !.stage = "verify"]]
    /\ UNCHANGED <<store, data, state, memory, history>>

\* A bug that this module must notice: the sweep that ended did its work.
CleanedAnyway(i, s) ==
    /\ job[i][s] = "sweeping" /\ sweep[i].stage = "verify"
    /\ closing' = [closing EXCEPT ![i] = @ \ {s}]
    /\ job' = [job EXCEPT ![i][s] = "idle"]
    /\ sweep' = [sweep EXCEPT ![i].stage = "none"]
    /\ told' = told \cup {s}
    /\ UNCHANGED <<disk, lock, state, known, open, created, deleted, dropped, lost, stale>>

\* The timer looks up its own Space: no entry is left, so it was cleaned.
Cleaned(i, s) ==
    /\ job[i][s] = "sweeping" /\ sweep[i].stage = "verify"
    /\ lock = Nobody /\ journal[s] = "none"
    /\ closing' = [closing EXCEPT ![i] = @ \ {s}]
    /\ job' = [job EXCEPT ![i][s] = "idle"]
    /\ sweep' = [sweep EXCEPT ![i].stage = "none"]
    /\ told' = told \cup {s}
    /\ UNCHANGED <<disk, lock, state, known, open, created, deleted, dropped, lost, stale>>

\* It stays closed until the browser is started again.
StillPending(i, s) ==
    /\ job[i][s] = "sweeping" /\ sweep[i].stage = "verify"
    /\ journal[s] # "none" \/ lock # Nobody \/ "read" \in Faults
    /\ job' = [job EXCEPT ![i][s] = "waiting"]
    /\ sweep' = [sweep EXCEPT ![i].stage = "none"]
    /\ told' = told \ {s}
    /\ UNCHANGED <<disk, lock, state, known, closing, open, created, deleted, dropped, lost, stale>>

-----------------------------------------------------------------------------
(* Starting and stopping                                                   *)

\* A bug that this module must notice: only the manager sweeps.
StartUnswept(i) ==
    /\ state[i] = "down"
    /\ state' = [state EXCEPT ![i] = "starting"]
    /\ sweep' = [sweep EXCEPT ![i].stage = "verify"]
    /\ UNCHANGED <<disk, lock, memory, history>>

\* main() sweeps before it builds the manager.
Start(i) ==
    /\ state[i] = "down"
    /\ state' = [state EXCEPT ![i] = "starting"]
    /\ sweep' = [sweep EXCEPT ![i].stage = "begin"]
    /\ UNCHANGED <<disk, lock, memory, history>>

Load(i) ==
    /\ state[i] = "starting" /\ sweep[i].stage = "verify"
    /\ state' = [state EXCEPT ![i] = "running"]
    /\ known' = [known EXCEPT ![i] = store]
    /\ sweep' = [sweep EXCEPT ![i].stage = "none"]
    /\ UNCHANGED <<disk, lock, closing, open, job, history>>

\* A store that cannot be read is taken for an empty one, and that is saved.
\* Nobody looks at whether the save failed: then the store stays as it is on
\* disk until the next save of this browser replaces it.
LoadFails(i) ==
    /\ "load" \in Faults
    /\ state[i] = "starting" /\ sweep[i].stage = "verify"
    /\ state' = [state EXCEPT ![i] = "running"]
    /\ sweep' = [sweep EXCEPT ![i].stage = "none"]
    /\ UNCHANGED <<journal, data, lock, memory, created, deleted, dropped, told>>
    /\ \/ Save(i)
       \/ "save" \in Faults /\ stale' = stale \cup {i} /\ UNCHANGED <<store, lost>>

\* The browser is closed or killed, wherever it stands.
Stop(i) ==
    /\ state[i] # "down"
    /\ state' = [state EXCEPT ![i] = "down"]
    /\ lock' = IF lock = i THEN Nobody ELSE lock
    /\ known' = [known EXCEPT ![i] = {}]
    /\ closing' = [closing EXCEPT ![i] = {}]
    /\ open' = [open EXCEPT ![i] = {}]
    /\ job' = [job EXCEPT ![i] = [s \in Spaces |-> "idle"]]
    /\ sweep' = [sweep EXCEPT ![i] = NoSweep]
    /\ stale' = stale \ {i}
    /\ UNCHANGED <<disk, created, deleted, dropped, told, lost>>

SpaceStep(i, s) ==
    \/ Create(i, s) \/ OpenProfile(i, s)
    \/ Begin(i, s, "delete") \/ Begin(i, s, "clear")
    \/ CommitDeletion(i, s) \/ DeletionFails(i, s) \/ CommitClear(i, s)
    \/ ReleaseProfile(i, s) \/ CleanupTimer(i, s)
    \/ Cleaned(i, s) \/ StillPending(i, s)

SweepStep(i) ==
    \/ SweepBegins(i) \/ SweepRefused(i)
    \/ \E s \in Spaces : SweepEntry(i, s) \/ RemoveTree(i, s) \/ RemovalFails(i, s)
    \/ SweepEnds(i)

Next ==
    \E i \in Instances :
        \/ Edit(i) \/ Start(i) \/ Load(i) \/ LoadFails(i) \/ Stop(i)
        \/ SweepStep(i)
        \/ \E s \in Spaces : SpaceStep(i, s)

Spec == Init /\ [][Next]_vars

\* The browser is started and closed again and again, and not for ever before its
\* sweep has got to a given entry; a removal or a look at the journal that is
\* tried for ever succeeds in the end.
Fairness ==
    \A i \in Instances :
        /\ WF_vars(Start(i)) /\ WF_vars(Load(i) \/ LoadFails(i)) /\ WF_vars(Stop(i))
        /\ WF_vars(SweepStep(i))
        /\ SF_vars(SweepBegins(i))
        /\ \A s \in Spaces : SF_vars(SweepEntry(i, s)) /\ SF_vars(RemoveTree(i, s))

FairSpec == Spec /\ Fairness

-----------------------------------------------------------------------------
(* Properties                                                              *)

OnDisk ==
    /\ store \subseteq created /\ deleted \subseteq created
    /\ deleted \cap store = {}
    /\ \A s \in Spaces : journal[s] = "delete" => s \in store \cup deleted \cup lost

InMemory(i) ==
    /\ lock = i <=> sweep[i].stage = "sweep"
    /\ state[i] = "running" /\ i \notin stale => known[i] = store
    /\ i \in stale => known[i] = {} /\ closing[i] = {}
    /\ state[i] # "running" => closing[i] = {} /\ open[i] = {}

OfSpace(i, s) ==
    /\ s \in closing[i] <=> job[i][s] # "idle"
    /\ job[i][s] \in {"timer", "sweeping", "waiting"} => s \notin open[i]
    /\ job[i][s] = "delete" => s \in store /\ (journal[s] = "delete" \/ s \in dropped)
    /\ job[i][s] # "idle" => s \notin told

InSweep(i) ==
    sweep[i].stage = "sweep" =>
        /\ sweep[i].active = store
        /\ \A s \in sweep[i].victim :
            s \notin open[i] /\ (journal[s] = "clear" \/ s \in deleted \cup lost)
        /\ \A s \in Queued \ (sweep[i].todo \cup sweep[i].left \cup sweep[i].victim) :
            s \notin data \/ (s \in store /\ (job[i][s] = "delete" => s \in dropped))

\* What one browser keeps true of its memory and the disk: the lock is held
\* through a sweep and no longer; a Space is closed to new profiles from the
\* beginning of its cleanup to the report that it is cleaned; the store is what
\* is in memory, except in a browser that could neither read nor replace it and
\* has not saved since: it has no Space and cleans none; a deletion that was begun
\* and not committed is one of a Space in the store, with an entry unless a sweep
\* dropped it; what a sweep has dealt with was removed, is left in the journal, or
\* was not deleted.
Consistent ==
    /\ TypeOK /\ OnDisk
    /\ \A i \in Instances :
        /\ InMemory(i) /\ InSweep(i)
        /\ \A s \in Spaces : OfSpace(i, s)

\* What is in a Space goes only when a clear of it is in the journal or its
\* deletion was committed: a deletion that was begun and never committed takes
\* nothing, whatever crash, failed write or sweep comes between.  The one
\* exception is a Space that a save dropped from a store that a start could not
\* read, whether the start saved at once or an edit or a creation did later.
UncommittedKeepsData ==
    [][\A s \in data \ data' : journal[s] = "clear" \/ s \in deleted \cup lost]_vars

\* A Space that was deleted is in the journal for as long as it has data, over
\* failed removals, failed writes and restarts.  The one exception is an entry
\* dropped by the sweep of another Space between its Begin and its commit.
DeletionRemembered ==
    \A s \in deleted \cap data : journal[s] = "delete" \/ s \in dropped

\* The user is told that a deleted Space is cleaned only when it is, with the
\* same exception.
CleanedIsGone == \A s \in told \cap deleted : s \notin data \/ s \in dropped

\* A cleanup that was refused, failed or was cut short is done in the end.
DeletionCompletes ==
    \A s \in Spaces : s \in deleted /\ journal[s] = "delete" ~> s \notin data
=============================================================================
