-------------------------------- MODULE MCReaders --------------------------------
(* The readers of the cache and the verdict on the session, checked side by  *)
(* side under their fairness: focus says which one a behaviour is about, and *)
(* the other stays in its initial state, where nothing of it is owed.        *)
EXTENDS SharedCache, SessionVerdict

VARIABLE focus

ReadersInit ==
    /\ focus \in {"cache", "verdict"} /\ Init /\ VerdictInit
    \* A machine that rests does so in one state.
    /\ focus # "verdict" => jiraSession = "valid"

ReadersNext ==
    /\ UNCHANGED focus
    /\ IF focus = "cache" THEN Next ELSE UNCHANGED vars
    /\ IF focus = "verdict" THEN VerdictNext ELSE UNCHANGED verdictVars

ReadersSpec ==
    /\ ReadersInit
    /\ [][ReadersNext]_<<focus, vars, verdictVars>>
    /\ Fairness /\ VerdictFairness

==================================================================================
