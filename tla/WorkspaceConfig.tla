----------------------------- MODULE WorkspaceConfig -----------------------------
(***************************************************************************)
(* The plan and the people of a workspace, two YAML files that the         *)
(* settings screen and MCP tools change (services/workspace_config.py),    *)
(* and the memory that lookups of people are answered from                 *)
(* (infra/settings.py, _PEOPLE_CACHE).  Saves exclude each other by a lock *)
(* and carry the revision of the state they were made from, a hash of both *)
(* files: here it is that state.  Lookups take no lock.                    *)
(*                                                                         *)
(* The plan has one task and the people are those of one module.           *)
(***************************************************************************)
EXTENDS Naturals

CONSTANTS
    Screens,      \* clients that save
    Lookups,      \* threads that look people up
    Plans,        \* what the task can be
    NoPlan,       \* that it is not there
    Rosters,      \* what people.yaml can hold
    NoRoster,     \* nothing in memory
    MaxReplaced   \* bound: files replaced

ASSUME WorkspaceAssumption ==
    NoPlan \notin Plans /\ NoRoster \notin Rosters /\ MaxReplaced \in Nat

VARIABLES
    config,       \* the two files
    display,      \* the last state each screen was answered
    wanted,       \* what it has asked for, until it is answered
    saving,       \* how far the save of it is, under _LOCK
    outgoing,     \* the state that save replaces
    replaced,     \* how many files were replaced
    people,       \* _PEOPLE_CACHE["data"]
    directory,    \* _PEOPLE_CACHE["dir"]
    lookup,       \* where each lookup is and what it holds
    since         \* history: the rosters that were current since it began

files == <<config, replaced>>
clients == <<display, wanted, saving, outgoing>>
memory == <<people, directory>>
readers == <<lookup, since>>
workspaceVars == <<files, clients, memory, readers>>

States == [wbs : Plans \cup {NoPlan}, people : Rosters]

\* create_task, update_task, delete_task; module_people.
Changes ==
    [kind : {"create", "update"}, wbs : Plans] \cup [kind : {"delete"}, wbs : {NoPlan}]
    \cup [kind : {"people"}, people : Rosters]

NoState == [wbs |-> NoPlan, people |-> NoRoster]
NoRequest == [change |-> [kind |-> "none"], revision |-> NoState]
Outside == [place |-> "out", roster |-> NoRoster, whole |-> FALSE]

WorkspaceInit ==
    /\ config \in States
    /\ display = [s \in Screens |-> config]
    /\ wanted = [s \in Screens |-> NoRequest]
    /\ saving = [s \in Screens |-> "no"]
    /\ outgoing = [s \in Screens |-> NoState]
    /\ replaced = 0
    /\ people = NoRoster /\ directory = NoRoster
    /\ lookup = [l \in Lookups |-> Outside]
    /\ since = [l \in Lookups |-> {}]

SaveGoes(s, place) == saving' = [saving EXCEPT ![s] = place]
Ends(s) == SaveGoes(s, "no") /\ outgoing' = [outgoing EXCEPT ![s] = NoState]
StillWaits(s) == wanted[s] # NoRequest /\ saving[s] = "no"

-----------------------------------------------------------------------------
(* A save *)

\* A change of the state the screen shows, with its revision.
Submit(s) ==
    /\ wanted[s] = NoRequest
    /\ \E change \in Changes :
          wanted' = [wanted EXCEPT ![s] = [change |-> change, revision |-> display[s]]]
    /\ UNCHANGED <<files, display, saving, outgoing, memory, readers>>

\* Slip: the state is read before _LOCK is taken.
AnyTime == TRUE

\* _LOCK is free.
LockFree == \A s \in Screens : saving[s] = "no"

\* read, and the end of a save.
Show(s) ==
    /\ display' = [display EXCEPT ![s] = config]
    /\ wanted' = [wanted EXCEPT ![s] = NoRequest]

Refuse(s) == wanted' = [wanted EXCEPT ![s] = NoRequest] /\ UNCHANGED display

Desired(change) ==
    IF change.kind = "people" THEN [config EXCEPT !.people = change.people]
                              ELSE [config EXCEPT !.wbs = change.wbs]

\* A task that is there with other contents cannot be created, one that is not there cannot
\* be updated.
Impossible(change) ==
    \/ change.kind = "create" /\ config.wbs \notin {NoPlan, change.wbs}
    \/ change.kind = "update" /\ config.wbs = NoPlan

ReadConfig(s) ==
    /\ LockFree /\ wanted[s] = NoRequest /\ Show(s)
    /\ UNCHANGED <<files, saving, outgoing, memory, readers>>

\* A request that finds what it wants is answered with the state, one of another revision is
\* refused.
SaveLocked(s) ==
    LET change == wanted[s].change
        possible == ~Impossible(change)
    IN
    /\ StillWaits(s) /\ LockFree
    /\ \/ ~possible /\ Refuse(s) /\ UNCHANGED <<saving, outgoing>>
       \/ possible /\ Desired(change) = config /\ Show(s) /\ UNCHANGED <<saving, outgoing>>
       \/ /\ possible /\ Desired(change) # config /\ wanted[s].revision # config
          /\ Refuse(s) /\ UNCHANGED <<saving, outgoing>>
       \/ /\ possible /\ Desired(change) # config /\ wanted[s].revision = config
          /\ SaveGoes(s, "deciding") /\ outgoing' = [outgoing EXCEPT ![s] = config]
          /\ UNCHANGED <<display, wanted>>
    /\ UNCHANGED <<files, memory, readers>>

\* The backup and the file, in one replacement, or an OSError before it.
Replace(s) ==
    /\ saving[s] = "deciding" /\ replaced < MaxReplaced
    /\ config' = IF wanted[s].change.kind = "people"
                   THEN [outgoing[s] EXCEPT !.people = wanted[s].change.people]
                   ELSE [outgoing[s] EXCEPT !.wbs = wanted[s].change.wbs]
    /\ replaced' = replaced + 1
    /\ since' = [l \in Lookups |-> since[l] \cup {config'.people}]
    /\ SaveGoes(s, "replaced")
    /\ UNCHANGED <<display, wanted, outgoing, memory, lookup>>

CannotWrite(s) ==
    /\ saving[s] = "deciding" /\ Ends(s) /\ Refuse(s)
    /\ UNCHANGED <<files, memory, readers>>

\* reload_people.
ForgetPeople(s) ==
    /\ saving[s] = "replaced" /\ SaveGoes(s, "reloading") /\ people' = NoRoster
    /\ UNCHANGED <<files, display, wanted, outgoing, directory, readers>>

ForgetDirectory(s) ==
    /\ saving[s] = "reloading" /\ SaveGoes(s, "saved") /\ directory' = NoRoster
    /\ UNCHANGED <<files, display, wanted, outgoing, people, readers>>

\* The state is read again and answered, or the answer is lost: the screen still waits, and
\* asks again or gives up.
AnswerSave(s) ==
    /\ saving[s] = "saved" /\ Ends(s)
    /\ Show(s) \/ UNCHANGED <<display, wanted>>
    /\ UNCHANGED <<files, memory, readers>>

GiveUp(s) ==
    /\ StillWaits(s) /\ Refuse(s)
    /\ UNCHANGED <<files, saving, outgoing, memory, readers>>

\* The process ends and starts again; the screens stay and wait.
RestartSaves ==
    /\ saving' = [s \in Screens |-> "no"] /\ outgoing' = [s \in Screens |-> NoState]
    /\ people' = NoRoster /\ directory' = NoRoster
    /\ lookup' = [l \in Lookups |-> Outside] /\ since' = [l \in Lookups |-> {}]
    /\ UNCHANGED <<files, display, wanted>>

-----------------------------------------------------------------------------
(* A lookup: load_people, or module_dir that builds on it (whole) *)

Goes(l, place) == lookup' = [lookup EXCEPT ![l].place = place]
Takes(l, place, roster) == lookup' = [lookup EXCEPT ![l].place = place, ![l].roster = roster]

\* It begins: what is current, or being replaced by a save that has not answered.
Look(l, whole) ==
    /\ lookup[l].place = "out"
    /\ lookup' = [lookup EXCEPT ![l] =
          IF whole /\ directory # NoRoster
            THEN [place |-> "answered", roster |-> directory, whole |-> TRUE]
            ELSE [place |-> "checking", roster |-> NoRoster, whole |-> whole]]
    /\ since' = [since EXCEPT ![l] = {config.people} \cup
          {outgoing[s].people : s \in {c \in Screens : saving[c] # "no"}}]
    /\ UNCHANGED <<files, clients, memory>>

CheckMemory(l) ==
    /\ lookup[l].place = "checking"
    /\ Goes(l, IF people = NoRoster THEN "reading" ELSE "loaded")
    /\ UNCHANGED <<files, clients, memory, since>>

ReadFile(l) ==
    /\ lookup[l].place = "reading" /\ Takes(l, "read", config.people)
    /\ UNCHANGED <<files, clients, memory, since>>

StorePeople(l) ==
    /\ lookup[l].place = "read" /\ Goes(l, "loaded")
    /\ people' = lookup[l].roster
    /\ UNCHANGED <<files, clients, directory, since>>

\* What is in memory now: nothing, if a reload came between.
ReturnPeople(l) ==
    /\ lookup[l].place = "loaded"
    /\ IF lookup[l].whole /\ people # NoRoster
         THEN Takes(l, "deriving", people)
         ELSE Takes(l, "answered", people)
    /\ UNCHANGED <<files, clients, memory, since>>

StoreDirectory(l) ==
    /\ lookup[l].place = "deriving" /\ Goes(l, "answered")
    /\ directory' = lookup[l].roster
    /\ UNCHANGED <<files, clients, people, since>>

Done(l) ==
    /\ lookup[l].place = "answered"
    /\ lookup' = [lookup EXCEPT ![l] = Outside] /\ since' = [since EXCEPT ![l] = {}]
    /\ UNCHANGED <<files, clients, memory>>

SaveStep(s) ==
    \/ Submit(s) \/ ReadConfig(s) \/ SaveLocked(s) \/ Replace(s) \/ CannotWrite(s)
    \/ ForgetPeople(s) \/ ForgetDirectory(s) \/ AnswerSave(s) \/ GiveUp(s)

LookupStep(l) ==
    \/ \E whole \in BOOLEAN : Look(l, whole)
    \/ CheckMemory(l) \/ ReadFile(l) \/ StorePeople(l) \/ ReturnPeople(l) \/ StoreDirectory(l)
    \/ Done(l)

WorkspaceNext ==
    \/ \E s \in Screens : SaveStep(s)
    \/ \E l \in Lookups : LookupStep(l)
    \/ RestartSaves

WorkspaceSpec == WorkspaceInit /\ [][WorkspaceNext]_workspaceVars

-----------------------------------------------------------------------------
(* Properties *)

(* The screen that replaces a file had been shown what the files hold in that *)
(* moment: no save is lost under another one, however requests are repeated   *)
(* after lost answers, failures and restarts (_LOCK and the revision).        *)
NothingUnseenIsLost ==
    [][config' # config =>
          \E s \in Screens : display[s] = config /\ saving[s] # saving'[s]]_workspaceVars

(* A lookup that begins after a save was answered does not answer with the    *)
(* people from before it.                                                     *)
PeopleFollowTheFile ==
    \A l \in Lookups :
        lookup[l].place = "answered" => lookup[l].roster \in since[l] \cup {NoRoster}

==================================================================================
