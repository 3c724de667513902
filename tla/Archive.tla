------------------------------- MODULE Archive -------------------------------
(***************************************************************************)
(* What the run database promises to everybody who shares it: a history    *)
(* of whole validation runs.  A run enters it complete and in one step,    *)
(* stays as it is, and leaves it completely once it is older than the      *)
(* retention period.  store.py: "Writes are one transaction per run".      *)
(***************************************************************************)
EXTENDS Naturals

CONSTANTS
    Runs,      \* ids of validation runs
    Parts,     \* the tables a complete run has rows in
    KeepDays   \* retention period

VARIABLES
    contents,  \* run -> the tables that hold rows of it
    began,     \* run -> the day it started
    today

archiveVars == <<contents, began, today>>

Init ==
    /\ contents \in [Runs -> SUBSET Parts]
    /\ began \in [Runs -> Nat]
    /\ today \in Nat

\* A run is stored, all of it at once.
Keep(r) ==
    /\ contents' = [contents EXCEPT ![r] = Parts]
    /\ UNCHANGED <<began, today>>

\* Runs that had outlived the retention period when the cut was decided leave.
Expire ==
    /\ \E cut \in 0..today :
        contents' = [r \in Runs |-> IF began[r] + KeepDays < cut THEN {}
                                    ELSE contents[r]]
    /\ UNCHANGED <<began, today>>

\* A run that is not stored yet starts.
Start(r) ==
    /\ contents[r] = {}
    /\ began' = [began EXCEPT ![r] = today]
    /\ UNCHANGED <<contents, today>>

NextDay == today' = today + 1 /\ UNCHANGED <<contents, began>>

Next == NextDay \/ Expire \/ \E r \in Runs : Keep(r) \/ Start(r)

Spec == Init /\ [][Next]_archiveVars

=============================================================================
