--------------------------------- MODULE MCReads ---------------------------------
(* The cache, the searches that fill it and the configuration files, checked *)
(* side by side: focus says which one a behaviour is about, and the others   *)
(* stay in their initial states.  The cache is looked at twice: one reader,  *)
(* two keys under the one fence and everything that can happen to them, and  *)
(* two readers who share the flights of a key that one command writes.       *)
EXTENDS SharedCache, JqlCache, WorkspaceConfig

CONSTANTS
    strict,    \* the reader that reads strictly where two read, and rests where one does
    other      \* the search that rests while the second write goes on

VARIABLE focus

\* Copies that are dead as soon as their row is stale, so that every second store purges some.
Brief == INSTANCE SharedCache WITH DisplayTtl <- Ttl, PurgeEvery <- 2

\* The key that list reads fill is read, denied and forgotten, and does not change.
TwoKeys ==
    /\ Brief!Next
    /\ pc'[strict] = "idle"
    /\ \A k \in ThroughKeys : jira'[k] = jira[k]

\* One command writes the guarded key; one invalidation, by it or by a refresh of everything.
SharedFlights ==
    /\ Next
    /\ \A p \in Procs : pc'[p] # "idle" => req'[p].key \notin ThroughKeys
    /\ \A r \in Readers : pc'[r] # "idle" => req'[r].strict = (r = strict)
    /\ jira' # jira => written' # written
    /\ \A k \in ThroughKeys : jira'[k] = jira[k]
    /\ gone' = gone
    /\ fence' \in {fence, 1}

\* List reads while a command writes once, before a restart.
Searching ==
    /\ JqlNext
    /\ issue' <= 2 \/ search'[other].place = "idle"
    /\ \A s \in Searches : search'[s].place = "listed" => s = other /\ restarts' = 0

ReadsInit ==
    /\ focus \in {"keys", "flights", "search", "workspace"}
    /\ Init /\ JqlInit /\ WorkspaceInit
    /\ config = [wbs |-> NoPlan, people |-> CHOOSE roster \in Rosters : TRUE]

ReadsNext ==
    /\ UNCHANGED focus
    /\ CASE focus = "keys" -> TwoKeys
         [] focus = "flights" -> SharedFlights
         [] OTHER -> UNCHANGED vars
    /\ IF focus = "search" THEN Searching ELSE UNCHANGED jqlVars
    /\ IF focus = "workspace" THEN WorkspaceNext ELSE UNCHANGED workspaceVars

ReadsSpec == ReadsInit /\ [][ReadsNext]_<<focus, vars, jqlVars, workspaceVars>>

==================================================================================
