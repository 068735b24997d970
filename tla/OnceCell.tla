------------------------------ MODULE OnceCell -------------------------------
(***************************************************************************)
(* What CachedService promises: a cell that is filled at most once between *)
(* two clearings, and whose readers are only ever handed its content.      *)
(* There is no initialization in progress here, no lock and no race.       *)
(***************************************************************************)
EXTENDS Naturals

CONSTANTS
    Task,
    Service,    \* the service instances there can be
    NoService

VARIABLES
    cell,       \* the instance in the cell, or NoService
    epoch,      \* how often the cell was cleared
    answer      \* answer[t]: <<epoch, instance>> of the latest answer to t

cellVars == <<cell, epoch, answer>>

Init ==
    /\ cell = NoService
    /\ epoch = 0
    /\ answer = [t \in Task |-> <<0, NoService>>]

Answer(t, s) == answer' = [answer EXCEPT ![t] = <<epoch, s>>]

Read(t) ==
    /\ cell # NoService
    /\ Answer(t, cell)
    /\ UNCHANGED <<cell, epoch>>

Fill(t) ==
    /\ cell = NoService
    /\ cell' \in Service
    /\ Answer(t, cell')
    /\ UNCHANGED epoch

Clear ==
    /\ cell' = NoService
    /\ epoch' = epoch + 1
    /\ UNCHANGED answer

Next == Clear \/ \E t \in Task : Read(t) \/ Fill(t)

Spec == Init /\ [][Next]_cellVars
=============================================================================
