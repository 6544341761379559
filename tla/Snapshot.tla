------------------------------- MODULE Snapshot -------------------------------
(***************************************************************************)
(* What a store that saves itself to a file promises: the file is absent,  *)
(* or incomplete and known to be, or holds all that the store held when    *)
(* the save began.  While a save is under way the store does not change.   *)
(* The process may end at any moment; what it held in memory is gone.      *)
(***************************************************************************)
CONSTANTS
    Empty                       \* what a new store holds

VARIABLES
    held,                       \* what the store holds
    found,                      \* what a reader finds in the file: {x} or {}
    saving

snapshotVars == <<held, found, saving>>

SnapshotInit ==
    /\ held = Empty
    /\ found = {}
    /\ saving = FALSE

\* A change of the store may be followed at once by a save of the new contents.
Change ==
    /\ ~saving
    /\ \/ UNCHANGED <<found, saving>>
       \/ found' = {} /\ saving' = TRUE

\* A save ends with the whole, or with nothing of use.
EndSave ==
    /\ saving
    /\ saving' = FALSE
    /\ found' \in {{held}, {}}
    /\ UNCHANGED held

Restart ==
    /\ held' = Empty
    /\ saving' = FALSE
    /\ UNCHANGED found

SnapshotNext == Change \/ EndSave \/ Restart

SnapshotSpec == SnapshotInit /\ [][SnapshotNext]_snapshotVars

=============================================================================
