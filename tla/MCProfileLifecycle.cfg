\* Two files to import, so that a copy and a wipe may stop half-way; two downloads,
\* one of which the manifest need not list.
SPECIFICATION FairSpec
CONSTANTS
    Files = {f1, f2}
    Downloads = {d1, d2}
INVARIANT ImportedOnce
PROPERTIES
    GoneExactlyWithAWipe
    WipeCompletes
