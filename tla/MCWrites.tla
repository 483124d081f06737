-------------------------------- MODULE MCWrites --------------------------------
(* The receipts of writes and the page that sends them while its session     *)
(* expires, checked side by side: focus says which one a behaviour is about, *)
(* and the other stays in its initial state.                                 *)
EXTENDS MutationReceipt, AuthRecovery

\* The grace period of this run is long enough, as that of the code is not.
ASSUME LongGrace == GraceSuffices

VARIABLE focus

WritesInit ==
    /\ focus \in {"receipt", "page"}
    /\ Init /\ AuthInit
    \* A machine that rests does so in one state.
    /\ focus # "page" => sessionLive
    /\ focus # "receipt" => asked = CHOOSE a \in [Clients -> [key : Keys, body : Bodies]] : TRUE

WritesNext ==
    /\ UNCHANGED focus
    /\ IF focus = "receipt" THEN Next ELSE UNCHANGED vars
    /\ IF focus = "page" THEN AuthNext ELSE UNCHANGED authVars

WritesSpec == WritesInit /\ [][WritesNext]_<<focus, vars, authVars>>

=================================================================================
