----------------------------- MODULE ListService -----------------------------
(***************************************************************************)
(* The requests on the source list, a validation and a streamed search     *)
(* next to each other: they share the list, the table and the selection.   *)
(* A validation and a stream take no part in engineMutex; a validation     *)
(* changes grades, a stream reads.                                         *)
(***************************************************************************)
EXTENDS SourceValidation, SearchStream

listServiceVars == <<listVars, validationVars, streamVars>>

ListServiceInit == ListInit /\ ValidationInit /\ StreamInit

ListServiceNext ==
    \/ ListNext /\ UNCHANGED <<validationVars, streamVars>>
    \/ ValidationNext /\ UNCHANGED streamVars
    \/ StreamNext /\ UNCHANGED validationVars

ListServiceSpec == ListServiceInit /\ [][ListServiceNext]_listServiceVars
=============================================================================
