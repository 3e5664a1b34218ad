---------------------- MODULE ProfileLifecycleProofs ----------------------
(***************************************************************************)
(* Theorems about ProfileLifecycle, for every set of files and downloads:  *)
(* a legacy profile is imported at most once and whole, and data goes      *)
(* exactly with a wipe that was asked for.                                 *)
(***************************************************************************)
EXTENDS ProfileLifecycle, TLAPS

\* The legacy profile exists if it was imported, and is marked before anything
\* but the import goes on: a wipe finds nothing that a later start would replay.
Marked ==
    /\ imports = 1 => legacy.present
    /\ at \notin {"off", "migrate", "consume"} /\ imports = 1 => legacy.consumed

\* The copy that is activated is a whole one and replaces nothing.
Staged ==
    /\ at \in {"copy", "activate"} =>
        legacy.present /\ data = {} /\ ~legacy.consumed /\ imports = 0
    /\ at \notin {"copy", "activate"} => staging = {}
    /\ at = "copy" => staging \subseteq Files
    /\ at = "activate" => staging = Files \cup {"marker"}

\* As long as nothing failed, all that the wipe has done is gone: what is there
\* is still to be removed.
Swept ==
    /\ at \in {"sweep", "legacy settings", "forget"} => wipe.pending
    /\ at = "sweep" => sweep.todo \cap Downloads \subseteq wipe.listed
    /\ at \in {"sweep", "legacy settings", "forget"} /\ sweep.ok =>
        /\ data \subseteq sweep.todo
        /\ cache => "cache" \in sweep.todo
        /\ wipe.listed \cap downloads \subseteq sweep.todo
    /\ at \in {"legacy settings", "forget"} => sweep.todo = {} /\ settings = {}
    /\ at = "forget" => ~legacy.settings

\* The inductive invariant.
IInv == ImportedOnce /\ Marked /\ Staged /\ Swept

-----------------------------------------------------------------------------
\* Initially nothing is imported and no wipe is asked for.
THEOREM InitIInv == Init => IInv
<1> SUFFICES ASSUME Init PROVE IInv
  OBVIOUS
<1>1. data \subseteq {"own"} /\ settings \subseteq {"new"} /\ legacy.consumed = FALSE
  BY DEF Init
<1>2. TypeOK
  <2>1. legacy \in [present : BOOLEAN, consumed : BOOLEAN, settings : BOOLEAN]
    BY DEF Init
  <2>2. wipe \in [pending : BOOLEAN, listed : SUBSET Downloads]
    BY DEF Init, NoWipe
  <2>3. sweep \in [todo : SUBSET (Profile \cup Downloads \cup {"cache"}), ok : BOOLEAN]
    BY DEF Init, NoSweep
  <2>4. /\ at = "off" /\ staging = {} /\ cache \in BOOLEAN
        /\ downloads = {} /\ imports = 0
    BY DEF Init
  <2> QED
    BY <1>1, <2>1, <2>2, <2>3, <2>4 DEF TypeOK, Profile, Places
<1>3. ImportedOnce /\ Marked
  BY <1>1, <1>2 DEF Init, ImportedOnce, Marked
<1>4. Staged /\ Swept
  BY DEF Init, Staged, Swept
<1> QED
  BY <1>3, <1>4 DEF IInv

\* Every step preserves the inductive invariant.
THEOREM NextIInv == IInv /\ [Next]_vars => IInv'
<1> SUFFICES ASSUME IInv, [Next]_vars PROVE IInv'
  OBVIOUS
<1> USE ProfileAssumption
<1>1. CASE Start
  BY <1>1 DEF ImportedOnce, Marked, Staged, Swept, TypeOK, IInv, Profile, Places, Start
<1>2. CASE MigrateData
  <2>1. TypeOK' /\ UNCHANGED <<legacy, data, staging, settings, cache, downloads, wipe, sweep, imports>>
    BY <1>2 DEF MigrateData, IInv, ImportedOnce, TypeOK, Places
  <2>2. Marked' /\ Staged'
    BY <1>2, <2>1 DEF MigrateData, IInv, ImportedOnce, Marked, Staged, TypeOK
  <2>3. ImportedOnce' /\ Swept'
    BY <1>2, <2>1 DEF MigrateData, IInv, ImportedOnce, Swept
  <2> QED
    BY <2>2, <2>3 DEF IInv
<1>3. CASE WriteMarker
  BY <1>3 DEF ImportedOnce, Marked, Staged, Swept, TypeOK, IInv, Profile, Places, WriteMarker
<1>4. CASE Activate
  BY <1>4 DEF ImportedOnce, Marked, Staged, Swept, TypeOK, IInv, Profile, Places, Activate
<1>5. CASE WriteLegacyConsumedMarker
  BY <1>5 DEF ImportedOnce, Marked, Staged, Swept, TypeOK, IInv, Profile, Places, WriteLegacyConsumedMarker
<1>6. ASSUME NEW f \in Files, CopyFile(f) PROVE IInv'
  BY <1>6 DEF ImportedOnce, Marked, Staged, Swept, TypeOK, IInv, Profile, Places, CopyFile
<1>7. CASE MigrateNativeSettings
  BY <1>7 DEF ImportedOnce, Marked, Staged, Swept, TypeOK, IInv, Profile, Places, MigrateNativeSettings
<1>8. CASE ApplyPendingWipe
  <2> DEFINE todo == wipe.listed \cup data \cup (IF cache THEN {"cache"} ELSE {})
  <2>1. CASE wipe.pending
    <3>1. /\ at' = "sweep" /\ sweep' = [todo |-> todo, ok |-> TRUE]
          /\ UNCHANGED <<legacy, data, staging, settings, cache, downloads, wipe, imports>>
      BY <1>8, <2>1 DEF ApplyPendingWipe
    <3>2. todo \subseteq Profile \cup Downloads \cup {"cache"} /\ todo \cap Downloads \subseteq wipe.listed
      BY DEF IInv, ImportedOnce, TypeOK, Profile
    <3> HIDE DEF todo
    <3>3. TypeOK'
      BY <3>1, <3>2 DEF IInv, ImportedOnce, TypeOK, Places
    <3>4. ImportedOnce' /\ Marked' /\ Staged'
      BY <1>8, <3>1, <3>3 DEF ApplyPendingWipe, IInv, ImportedOnce, Marked, Staged
    <3>5. Swept'
      BY <2>1, <3>1, <3>2 DEF Swept, todo
    <3> QED
      BY <3>4, <3>5 DEF IInv
  <2>2. CASE ~wipe.pending
    BY <1>8, <2>2 DEF ApplyPendingWipe, IInv, ImportedOnce, Marked, Staged, Swept, TypeOK, Places
  <2> QED
    BY <2>1, <2>2
<1>9. ASSUME NEW x \in Removable, Remove(x) PROVE IInv'
  BY <1>9 DEF ImportedOnce, Marked, Staged, Swept, TypeOK, IInv, Profile, Places, Remove, Done, Turn, Removable
<1>10. CASE ClearSettings
  BY <1>10 DEF ImportedOnce, Marked, Staged, Swept, TypeOK, IInv, Profile, Places, ClearSettings
<1>11. CASE ClearLegacySettings
  BY <1>11 DEF ImportedOnce, Marked, Staged, Swept, TypeOK, IInv, Profile, Places, ClearLegacySettings
<1>12. CASE ConsumeManifest
  BY <1>12 DEF ImportedOnce, Marked, Staged, Swept, TypeOK, IInv, Profile, Places, ConsumeManifest, NoWipe, NoSweep
<1>13. CASE EnsureWritableLayout
  BY <1>13 DEF ImportedOnce, Marked, Staged, Swept, TypeOK, IInv, Profile, Places, EnsureWritableLayout
<1>14. CASE Browse
  BY <1>14 DEF ImportedOnce, Marked, Staged, Swept, TypeOK, IInv, Profile, Places, Browse
<1>15. CASE CreatePendingWipe
  BY <1>15 DEF ImportedOnce, Marked, Staged, Swept, TypeOK, IInv, Profile, Places, CreatePendingWipe
<1>16. CASE End
  BY <1>16 DEF ImportedOnce, Marked, Staged, Swept, TypeOK, IInv, Profile, Places, End, Exit, NoSweep
<1>17. CASE Fail
  BY <1>17 DEF ImportedOnce, Marked, Staged, Swept, TypeOK, IInv, Profile, Places, Fail, Exit, NoSweep
<1>18. ASSUME NEW x \in Removable, RemoveFails(x) PROVE IInv'
  BY <1>18 DEF ImportedOnce, Marked, Staged, Swept, TypeOK, IInv, Profile, Places, RemoveFails, Done, Turn, Removable
<1>19. CASE UNCHANGED vars
  <2>1. ImportedOnce'
    BY <1>19 DEF IInv, ImportedOnce, TypeOK, vars
  <2>2. Marked' /\ Staged' /\ Swept'
    BY <1>19 DEF IInv, Marked, Staged, Swept, vars
  <2> QED
    BY <2>1, <2>2 DEF IInv
<1> QED
  BY <1>1, <1>2, <1>3, <1>4, <1>5, <1>6, <1>7, <1>8, <1>9, <1>10, <1>11, <1>12, <1>13, <1>14, <1>15, <1>16, <1>17, <1>18, <1>19 DEF Next, ImportStep, WipeStep, Fault

\* The inductive invariant holds in every reachable state.
THEOREM AlwaysIInv == Spec => []IInv
BY InitIInv, NextIInv, PTL DEF Spec

\* A legacy profile is imported at most once and whole, whatever is killed or fails.
THEOREM AlwaysImportedOnce == Spec => []ImportedOnce
BY AlwaysIInv, PTL DEF IInv

\* Data goes exactly with a wipe that was asked for, and a wipe that is forgotten
\* has removed all that it covers.
THEOREM AlwaysGoneExactlyWithAWipe == Spec => GoneExactlyWithAWipe
<1> DEFINE A == /\ ~wipe.pending => data \subseteq data'
                /\ downloads \ wipe.listed \subseteq downloads'
                /\ wipe.pending /\ ~wipe'.pending =>
                     /\ data' = {} /\ ~cache' /\ settings' = {} /\ ~legacy'.settings
                     /\ wipe.listed \cap downloads' = {}
<1>1. IInv /\ [Next]_vars => [A]_vars
  <2> SUFFICES ASSUME IInv, Next PROVE A
    BY DEF vars
  <2>1. CASE UNCHANGED <<data, downloads, wipe>>
    BY <2>1
  <2>2. CASE Activate
    BY <2>2 DEF Activate, IInv, ImportedOnce, TypeOK
  <2>3. ASSUME NEW x \in Removable, Remove(x) PROVE A
    <3>1. wipe.pending /\ wipe' = wipe
      BY <2>3 DEF Remove, IInv, Swept
    <3>2. x \in downloads => x \in wipe.listed
      BY <2>3 DEF Remove, Turn, IInv, Swept, ImportedOnce, TypeOK
    <3> QED
      BY <2>3, <3>1, <3>2 DEF Remove
  <2>4. CASE ConsumeManifest
    BY <2>4 DEF ConsumeManifest, NoWipe, IInv, Swept, ImportedOnce, TypeOK
  <2>5. CASE EnsureWritableLayout
    BY <2>5 DEF EnsureWritableLayout
  <2>6. CASE Browse
    BY <2>6 DEF Browse
  <2>7. CASE CreatePendingWipe
    BY <2>7 DEF CreatePendingWipe
  <2> QED
    BY <2>1, <2>2, <2>3, <2>4, <2>5, <2>6, <2>7
    DEF Next, ImportStep, WipeStep, Fault, Start, MigrateData, WriteMarker, CopyFile,
        WriteLegacyConsumedMarker, MigrateNativeSettings, ApplyPendingWipe, ClearSettings,
        ClearLegacySettings, End, Fail, Exit, RemoveFails
<1> QED
  BY <1>1, AlwaysIInv, PTL DEF Spec, GoneExactlyWithAWipe
=============================================================================
