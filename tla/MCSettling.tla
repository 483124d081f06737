------------------------------- MODULE MCSettling -------------------------------
(* The handlers of a mutation, the login requests and the watch of a page,   *)
(* checked side by side under their fairness: focus says which one a         *)
(* behaviour is about, and the others stay in their initial states, where    *)
(* nothing of them is owed.                                                  *)
EXTENDS MutationReceipt, LoginRequests, AuthRecovery

\* The grace period of this run is long enough, as that of the code is not.
ASSUME LongGrace == GraceSuffices

VARIABLE focus

SettlingInit ==
    /\ focus \in {"receipt", "login", "page"}
    /\ Init /\ LoginInit /\ AuthInit
    \* A machine that rests does so in one state.
    /\ focus # "page" => sessionLive

SettlingNext ==
    /\ UNCHANGED focus
    /\ IF focus = "receipt" THEN Next ELSE UNCHANGED vars
    /\ IF focus = "login" THEN LoginNext ELSE UNCHANGED loginVars
    /\ IF focus = "page" THEN AuthNext ELSE UNCHANGED authVars

SettlingSpec ==
    /\ SettlingInit
    /\ [][SettlingNext]_<<focus, vars, loginVars, authVars>>
    /\ Fairness /\ LoginFairness /\ AuthFairness

=================================================================================
