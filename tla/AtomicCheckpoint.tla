-------------------------- MODULE AtomicCheckpoint --------------------------
(***************************************************************************)
(* What a checkpoint of F2FS promises of a table such as the SIT: it saves *)
(* the table as it is at one moment, all of it or nothing, and after a     *)
(* power failure the table is what was saved last.                         *)
(***************************************************************************)
CONSTANTS Entries, Values, InitialValue

VARIABLES
    sit,    \* the value of every entry
    saved,  \* the values the last complete checkpoint holds
    up      \* is the file system mounted

vars == <<sit, saved, up>>

Init ==
    /\ sit = [e \in Entries |-> InitialValue]
    /\ saved = sit
    /\ up = TRUE

Update(e, v) ==
    /\ up
    /\ sit' = [sit EXCEPT ![e] = v]
    /\ UNCHANGED <<saved, up>>

Save ==
    /\ up
    /\ saved' = sit
    /\ UNCHANGED <<sit, up>>

PowerFail ==
    /\ up
    /\ up' = FALSE
    /\ sit' = saved
    /\ UNCHANGED saved

Mount ==
    /\ ~up
    /\ up' = TRUE
    /\ UNCHANGED <<sit, saved>>

Next ==
    \/ \E e \in Entries, v \in Values : Update(e, v)
    \/ Save \/ PowerFail \/ Mount

Spec == Init /\ [][Next]_vars
=============================================================================
