-------------------------- MODULE ProfileLifecycle --------------------------
(***************************************************************************)
(* What happens to a profile before the browser opens its window: the      *)
(* profile of the browser's former name is imported                        *)
(* (src/granger/core/BrandMigration.cpp), and a wipe the user asked for in *)
(* an earlier session is carried out                                       *)
(* (src/granger/core/EmergencyWipeManager.cpp).  main() calls them in this *)
(* order and gives up when one of them fails; the next start begins again. *)
(* A step is one operation on the file system or the settings.  The        *)
(* process may be killed between any two, and any operation may fail.      *)
(*                                                                         *)
(* A directory that is empty and one that is missing are the same here.    *)
(* The legacy profile is only ever read, but for the mark that it was      *)
(* imported.  Paths, links, hashes and the text of the files are left out, *)
(* and so are what the user deletes and a second instance.                 *)
(***************************************************************************)
EXTENDS Naturals

CONSTANTS Files,      \* what is copied of the legacy profile
          Downloads   \* files the browser may have downloaded

\* "marker" is state/brand-migration.json, "own" what the current browser wrote.
Profile == Files \cup {"marker", "own"}

ASSUME ProfileAssumption ==
    /\ {"marker", "own", "cache"} \cap (Files \cup Downloads) = {}
    /\ Files \cap Downloads = {}

VARIABLES
    at,         \* where the process is
    legacy,     \* the legacy profile: whether it exists, is marked, has settings
    data,       \* what the data root holds
    staging,    \* what this process has copied beside the data root
    settings,   \* the settings: "old" ones imported, "new" ones, their "version"
    cache,      \* whether the cache root exists
    downloads,  \* the downloaded files that exist
    wipe,       \* the manifest: whether it exists, and the downloads it lists
    sweep,      \* what applyPendingWipe() has still to remove, and its "ok"
    imports     \* how often a legacy profile was activated

vars == <<at, legacy, data, staging, settings, cache, downloads, wipe, sweep, imports>>

Places == {"off", "migrate", "copy", "activate", "consume", "settings", "wipe",
           "sweep", "legacy settings", "forget", "layout", "running", "closing"}

NoWipe == [pending |-> FALSE, listed |-> {}]
NoSweep == [todo |-> {}, ok |-> TRUE]

TypeOK ==
    /\ at \in Places
    /\ legacy \in [present : BOOLEAN, consumed : BOOLEAN, settings : BOOLEAN]
    /\ data \subseteq Profile /\ staging \subseteq Profile
    /\ settings \subseteq {"old", "new", "version"}
    /\ cache \in BOOLEAN /\ downloads \subseteq Downloads
    /\ wipe \in [pending : BOOLEAN, listed : SUBSET Downloads]
    /\ sweep \in [todo : SUBSET (Profile \cup Downloads \cup {"cache"}), ok : BOOLEAN]
    /\ imports \in 0 .. 2

\* The first start of a version that imports, with or without a profile of its own.
Init ==
    /\ at = "off"
    /\ legacy \in [present : BOOLEAN, consumed : {FALSE}, settings : BOOLEAN]
    /\ data \in {{}, {"own"}} /\ staging = {}
    /\ settings \in {{}, {"new"}} /\ cache = FALSE
    /\ downloads = {} /\ wipe = NoWipe /\ sweep = NoSweep
    /\ imports = 0

-----------------------------------------------------------------------------
(* The import                                                              *)

Start ==
    /\ at = "off"
    /\ at' = "migrate"
    /\ UNCHANGED <<legacy, data, staging, settings, cache, downloads, wipe, sweep, imports>>

Exit ==
    /\ at' = "off" /\ staging' = {} /\ sweep' = NoSweep
    /\ UNCHANGED <<legacy, data, settings, cache, downloads, wipe, imports>>

\* The browser closes, or main() returns because the wipe was not complete.
End ==
    /\ at \in {"running", "closing"} \/ (at = "forget" /\ ~sweep.ok)
    /\ Exit

\* Any step of a start may fail, and main() returns; or the process is killed.
\* A copy that failed is removed, and one left behind is never looked at again.
Fail ==
    /\ at \notin {"off", "running", "closing"}
    /\ at = "forget" => sweep.ok
    /\ Exit

\* A bug that this module must notice: the mark is not looked at.
MigrateDataReplays ==
    /\ at = "migrate"
    /\ \/ legacy.present /\ data = {} /\ at' = "copy"
       \/ legacy.present /\ "marker" \in data /\ ~legacy.consumed /\ at' = "consume"
       \/ /\ ~legacy.present \/ (data # {} /\ ("marker" \notin data \/ legacy.consumed))
          /\ at' = "settings"
    /\ UNCHANGED <<legacy, data, staging, settings, cache, downloads, wipe, sweep, imports>>

\* A profile that has data is kept as it is.  With its marker, it may be one that was
\* activated by a process that died before it marked the legacy profile.
MigrateData ==
    /\ at = "migrate"
    /\ \/ legacy.present /\ data = {} /\ ~legacy.consumed /\ at' = "copy"
       \/ legacy.present /\ "marker" \in data /\ ~legacy.consumed /\ at' = "consume"
       \/ /\ \/ ~legacy.present \/ legacy.consumed
             \/ data # {} /\ "marker" \notin data
          /\ at' = "settings"
    /\ UNCHANGED <<legacy, data, staging, settings, cache, downloads, wipe, sweep, imports>>

CopyFile(f) ==
    /\ at = "copy" /\ f \notin staging
    /\ staging' = staging \cup {f}
    /\ UNCHANGED <<at, legacy, data, settings, cache, downloads, wipe, sweep, imports>>

WriteMarker ==
    /\ at = "copy" /\ Files \subseteq staging
    /\ staging' = staging \cup {"marker"}
    /\ at' = "activate"
    /\ UNCHANGED <<legacy, data, settings, cache, downloads, wipe, sweep, imports>>

\* The copy is renamed to the data root.
Activate ==
    /\ at = "activate" /\ data = {}
    /\ data' = staging /\ staging' = {}
    /\ imports' = IF imports = 2 THEN 2 ELSE imports + 1
    /\ at' = "consume"
    /\ UNCHANGED <<legacy, settings, cache, downloads, wipe, sweep>>

WriteLegacyConsumedMarker ==
    /\ at = "consume" /\ "marker" \in data
    /\ legacy' = [legacy EXCEPT !.consumed = TRUE]
    /\ at' = "settings"
    /\ UNCHANGED <<data, staging, settings, cache, downloads, wipe, sweep, imports>>

\* Settings the current browser has are kept.
MigrateNativeSettings ==
    /\ at = "settings"
    /\ settings' = IF "version" \in settings THEN settings
                   ELSE settings \cup {"version"} \cup (IF legacy.settings THEN {"old"} ELSE {})
    /\ at' = "wipe"
    /\ UNCHANGED <<legacy, data, staging, cache, downloads, wipe, sweep, imports>>

-----------------------------------------------------------------------------
(* The wipe                                                                *)

ApplyPendingWipe ==
    /\ at = "wipe"
    /\ IF wipe.pending
         THEN /\ sweep' = [todo |-> wipe.listed \cup data \cup (IF cache THEN {"cache"} ELSE {}),
                           ok |-> TRUE]
              /\ at' = "sweep"
         ELSE at' = "layout" /\ UNCHANGED sweep
    /\ UNCHANGED <<legacy, data, staging, settings, cache, downloads, wipe, imports>>

\* First the downloads, then the cache, then the data root.
Turn ==
    IF sweep.todo \cap Downloads # {} THEN sweep.todo \cap Downloads
    ELSE IF "cache" \in sweep.todo THEN {"cache"} ELSE sweep.todo

Done(x, ok) == sweep' = [todo |-> sweep.todo \ {x}, ok |-> ok]

\* A bug that this module must notice: a download that is gone already is an error.
RemoveExisting(x) ==
    /\ at = "sweep" /\ x \in Turn /\ x \in downloads \cup data \cup {"cache"}
    /\ data' = data \ {x} /\ downloads' = downloads \ {x}
    /\ cache' = (cache /\ x # "cache")
    /\ Done(x, sweep.ok)
    /\ UNCHANGED <<at, legacy, staging, settings, wipe, imports>>

\* A file, which a wipe that was interrupted may have removed already.
Remove(x) ==
    /\ at = "sweep" /\ x \in Turn
    /\ data' = data \ {x} /\ downloads' = downloads \ {x}
    /\ cache' = (cache /\ x # "cache")
    /\ Done(x, sweep.ok)
    /\ UNCHANGED <<at, legacy, staging, settings, wipe, imports>>

\* A bug that this module must notice: the failure is not remembered.
RemoveFailsUnnoticed(x) ==
    /\ at = "sweep" /\ x \in Turn
    /\ Done(x, sweep.ok)
    /\ UNCHANGED <<at, legacy, data, staging, settings, cache, downloads, wipe, imports>>

\* A file in use: the wipe goes on with the next one.
RemoveFails(x) ==
    /\ at = "sweep" /\ x \in Turn
    /\ Done(x, FALSE)
    /\ UNCHANGED <<at, legacy, data, staging, settings, cache, downloads, wipe, imports>>

ClearSettings ==
    /\ at = "sweep" /\ sweep.todo = {}
    /\ settings' = {}
    /\ at' = "legacy settings"
    /\ UNCHANGED <<legacy, data, staging, cache, downloads, wipe, sweep, imports>>

ClearLegacySettings ==
    /\ at = "legacy settings"
    /\ legacy' = [legacy EXCEPT !.settings = FALSE]
    /\ at' = "forget"
    /\ UNCHANGED <<data, staging, settings, cache, downloads, wipe, sweep, imports>>

\* The manifest is removed only when nothing failed.
ConsumeManifest ==
    /\ at = "forget" /\ sweep.ok
    /\ wipe' = NoWipe /\ sweep' = NoSweep
    /\ at' = "layout"
    /\ UNCHANGED <<legacy, data, staging, settings, cache, downloads, imports>>

-----------------------------------------------------------------------------
(* The session                                                             *)

\* From here on the data root is never empty.
EnsureWritableLayout ==
    /\ at = "layout"
    /\ data' = data \cup {"own"}
    /\ at' = "running"
    /\ UNCHANGED <<legacy, staging, settings, cache, downloads, wipe, sweep, imports>>

\* A browser that closes may still write, but no settings.
Browse ==
    /\ at \in {"running", "closing"}
    /\ data' = data \cup {"own"} /\ cache' = TRUE
    /\ settings' = IF at = "running" THEN settings \cup {"new"} ELSE settings
    /\ \E d \in SUBSET Downloads : downloads' = downloads \cup d
    /\ UNCHANGED <<at, legacy, staging, wipe, sweep, imports>>

\* Confirmed by the user, with the downloads that are finished, or without.
CreatePendingWipe ==
    /\ at = "running"
    /\ \E listed \in SUBSET downloads : wipe' = [pending |-> TRUE, listed |-> listed]
    /\ at' = "closing"
    /\ UNCHANGED <<legacy, data, staging, settings, cache, downloads, sweep, imports>>

Removable == Profile \cup Downloads \cup {"cache"}

ImportStep ==
    \/ MigrateData \/ WriteMarker \/ Activate \/ WriteLegacyConsumedMarker
    \/ \E f \in Files : CopyFile(f)
    \/ MigrateNativeSettings

WipeStep ==
    \/ ApplyPendingWipe
    \/ \E x \in Removable : Remove(x)
    \/ ClearSettings \/ ClearLegacySettings \/ ConsumeManifest

Fault == Fail \/ \E x \in Removable : RemoveFails(x)

Next ==
    \/ Start \/ ImportStep \/ WipeStep \/ EnsureWritableLayout
    \/ Browse \/ CreatePendingWipe \/ End
    \/ Fault

Spec == Init /\ [][Next]_vars

\* The browser is started again after a wipe was asked for, and operations that are
\* tried over and over fail no more in the end.
Fairness ==
    /\ WF_vars(Start) /\ WF_vars(at # "running" /\ End)
    /\ WF_vars(ImportStep) /\ WF_vars(WipeStep)
    /\ <>[][~Fault]_vars

FairSpec == Spec /\ Fairness

-----------------------------------------------------------------------------
(* Properties                                                              *)

\* A legacy profile is activated at most once, whatever was interrupted or wiped
\* since, and marked only if it was.  A profile that carries the marker of an import
\* is a whole copy, unless it is being wiped.
ImportedOnce ==
    /\ TypeOK
    /\ imports <= 1
    /\ legacy.consumed => imports = 1
    /\ imports = 1 /\ ~legacy.consumed => "marker" \in data
    /\ "marker" \in data => imports = 1 /\ (wipe.pending \/ Files \subseteq data)

\* No step takes data or a download unless a wipe was asked for that covers it, and
\* a wipe is forgotten only when all it covers is gone, over however many starts.
GoneExactlyWithAWipe ==
    [][/\ ~wipe.pending => data \subseteq data'
       /\ downloads \ wipe.listed \subseteq downloads'
       /\ wipe.pending /\ ~wipe'.pending =>
            /\ data' = {} /\ ~cache' /\ settings' = {} /\ ~legacy'.settings
            /\ wipe.listed \cap downloads' = {}]_vars

\* A wipe that was asked for comes to its end.
WipeCompletes == wipe.pending ~> ~wipe.pending
=============================================================================
