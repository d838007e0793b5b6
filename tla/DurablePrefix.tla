--------------------------- MODULE DurablePrefix ----------------------------
(***************************************************************************)
(* What a receiver promises of a task's checkpoint, without sessions,      *)
(* flushes or files: a position per file from which a restart resumes.     *)
(* The position only grows, and what has been called durable is never      *)
(* beyond it, until the task is cancelled; then every promise is void and  *)
(* the data goes.                                                          *)
(***************************************************************************)
EXTENDS Naturals

CONSTANT Files

VARIABLES kept,    \* per file, the position a restart resumes from
          told,    \* per file, the largest position called durable
          voided   \* the task is being cancelled

vars == <<kept, told, voided>>

Init ==
    /\ kept = [f \in Files |-> 0]
    /\ told = [f \in Files |-> 0]
    /\ voided = FALSE

\* A checkpoint of some files; the others keep their position.
Save ==
    /\ ~voided
    /\ DOMAIN kept' = Files
    /\ \A f \in Files : kept'[f] >= kept[f]
    /\ UNCHANGED <<told, voided>>

Promise(f) ==
    /\ ~voided
    /\ DOMAIN told' = Files
    /\ told[f] <= told'[f] /\ told'[f] <= kept[f]
    /\ \A g \in Files \ {f} : told'[g] = told[g]
    /\ UNCHANGED <<kept, voided>>

Cancel ==
    /\ told' = [f \in Files |-> 0]
    /\ voided' = TRUE
    /\ UNCHANGED kept

Discard(f) ==
    /\ voided
    /\ kept' = [kept EXCEPT ![f] = 0]
    /\ UNCHANGED <<told, voided>>

\* The cancel is complete, or a restart has taken stock of what it left.
Settle ==
    /\ voided
    /\ voided' = FALSE
    /\ UNCHANGED <<kept, told>>

Next == Save \/ Cancel \/ Settle \/ \E f \in Files : Promise(f) \/ Discard(f)

Spec == Init /\ [][Next]_vars
=============================================================================
