-------------------------------- MODULE Launcher --------------------------------
(***************************************************************************)
(* One application per machine: a start of run.py looks for an application *)
(* that runs already, has an older one quit, or supervises a worker of its *)
(* own, which is the same program and looks again.  Several starts may be  *)
(* under way at once, one of them the restart after an update.             *)
(*                                                                         *)
(* Sources: src/run.py (main, _serve_bg, the tray's restart and quit),     *)
(* launcher/instance.py, launcher/supervisor.py, request_quit in main.py.  *)
(* The windows, the installation of packages and the launch under another  *)
(* process name, which looks once more, are left out; a tray is present    *)
(* and answers over the loopback are not lost.                             *)
(***************************************************************************)
EXTENDS Naturals

CONSTANTS
    Starts,          \* starts of run.py, the one that runs already among them
    First,           \* the latter, of an older revision than the disk
    NoProcess,
    RestartLimit,
    MaxFaults        \* bound: workers that crash or hang

ASSUME LauncherAssumption ==
    /\ First \in Starts /\ NoProcess \notin Starts \X {"main", "worker"}
    /\ RestartLimit \in Nat /\ MaxFaults \in Nat

MainOf(s) == <<s, "main">>
WorkerOf(s) == <<s, "worker">>
Processes == Starts \X {"main", "worker"}

VARIABLES
    stage,           \* how far each process is
    port,            \* the process that listens on the application's port
    older,           \* workers of an older revision than the one on disk
    leaving,         \* workers that were asked to quit and answered so
    afterUpdate,     \* starts with LAKE_RESTART
    updater,         \* the worker whose processes these still belong to, if any
    restarts,        \* how many restarts of its worker a supervisor remembers
    faults,
    userQuit         \* history: the user has quit an application

launchVars == <<stage, port, older, leaving, afterUpdate, updater, restarts, faults,
                userQuit>>
world == <<afterUpdate, updater, faults, userQuit>>

LauncherInit ==
    /\ stage = [p \in Processes |-> CASE p = MainOf(First) -> "supervising"
                                      [] p = WorkerOf(First) -> "up"
                                      [] OTHER -> "off"]
    /\ port = WorkerOf(First) /\ older = {WorkerOf(First)} /\ leaving = {}
    /\ afterUpdate = {} /\ updater = NoProcess
    /\ restarts = [s \in Starts |-> 0]
    /\ faults = 0 /\ userQuit = FALSE

Goes(p, place) == stage' = [stage EXCEPT ![p] = place]

\* The process on the port answers.
Answers == port # NoProcess /\ stage[port] = "up"

-----------------------------------------------------------------------------
(* A process until it serves or ends.  "gone": exit code 0, nothing is shown;  *)
(* "broken": a message and exit code 1.                                        *)

\* Slip: a restart looks for a running application like any other start.
LooksAlways(s) == "looking"

\* A restart does not look, it waits for the port; its workers inherit that.
FirstStage(s) == IF s \in afterUpdate THEN "freeing" ELSE "looking"

\* ltm_health(); an answer may take too long.
Look(p) ==
    /\ stage[p] = "looking"
    /\ \/ Answers /\ Goes(p, "found")
       \/ Goes(p, "binding")
    /\ UNCHANGED <<port, older, leaving, restarts, world>>

\* Without two revisions to compare, it focuses what runs, or ran, and ends.
CompareRevisions(p) ==
    /\ stage[p] = "found"
    /\ \/ Answers /\ port \in older /\ Goes(p, "outdated")
       \/ Goes(p, "gone")
    /\ UNCHANGED <<port, older, leaving, restarts, world>>

\* Whoever has the port by now answers the request to quit, and quits a moment later.
AskToQuit(p) ==
    /\ stage[p] = "outdated"
    /\ \/ Answers /\ leaving' = leaving \cup {port} /\ Goes(p, "freeing")
       \/ ~Answers /\ Goes(p, "gone") /\ UNCHANGED leaving
    /\ UNCHANGED <<port, older, restarts, world>>

\* wait_port_free(): twelve seconds are enough for a worker that is leaving.  Otherwise a
\* start uses the application that does not quit, and a restart fails.
AwaitPort(p) ==
    /\ stage[p] = "freeing"
    /\ \/ port = NoProcess /\ Goes(p, "binding")
       \/ /\ port # NoProcess /\ port \notin leaving
          /\ Goes(p, IF p[1] \in afterUpdate THEN "broken" ELSE "gone")
    /\ UNCHANGED <<port, older, leaving, restarts, world>>

\* port_is_listening(); then a start becomes a supervisor, and a worker begins to serve.
CheckPort(p) ==
    /\ stage[p] = "binding"
    /\ IF port # NoProcess THEN Goes(p, "broken")
       ELSE \/ p[2] = "worker" /\ Goes(p, "serving")
            \/ /\ p[2] = "main"
               /\ stage' = [stage EXCEPT ![p] = "supervising",
                                         ![WorkerOf(p[1])] = FirstStage(p[1])]
            \/ p[2] = "main" /\ Goes(p, "broken")     \* no worker could be created
    /\ UNCHANGED <<port, older, leaving, restarts, world>>

\* The server's thread takes the port, or ends and leaves the tray without a server.
TakePort(p) ==
    /\ stage[p] = "serving"
    /\ IF port = NoProcess THEN port' = p /\ Goes(p, "up")
       ELSE Goes(p, "deaf") /\ UNCHANGED port
    /\ UNCHANGED <<older, leaving, restarts, world>>

\* Processes that end give the port back.
Released(ps) ==
    /\ port' = (IF port \in ps THEN NoProcess ELSE port)
    /\ older' = older \ ps /\ leaving' = leaving \ ps

EndAsAsked(p) ==
    /\ p \in leaving /\ Goes(p, "gone") /\ Released({p})
    /\ UNCHANGED <<restarts, world>>

-----------------------------------------------------------------------------
(* The supervisor *)

\* A worker that ended normally ends the application; an update it began goes on by itself.
WorkerQuits(s) ==
    /\ stage[MainOf(s)] = "supervising" /\ stage[WorkerOf(s)] = "gone"
    /\ Goes(MainOf(s), "gone")
    /\ updater' = (IF updater = WorkerOf(s) THEN NoProcess ELSE updater)
    /\ UNCHANGED <<port, older, leaving, afterUpdate, restarts, faults, userQuit>>

\* The start after an update that a worker began is a process of its job.
InItsJob(s) == IF updater = WorkerOf(s) THEN afterUpdate \X {"main", "worker"} ELSE {}

\* A worker that crashed, or does not answer with its own identity, is killed with all it began
\* and replaced, unless that happened too often lately.  A worker has a minute to begin: its
\* waits until it takes the port are shorter together.
Recover(s) ==
    LET killed == [p \in Processes |->
                    IF p \in InItsJob(s) /\ stage[p] # "broken" THEN "gone" ELSE stage[p]]
    IN  /\ stage[MainOf(s)] = "supervising"
        /\ stage[WorkerOf(s)] \in {"broken", "hung", "serving", "deaf"}
        /\ Released({WorkerOf(s)} \cup InItsJob(s))
        /\ updater' = (IF updater = WorkerOf(s) THEN NoProcess ELSE updater)
        /\ IF restarts[s] < RestartLimit
             THEN /\ stage' = [killed EXCEPT ![WorkerOf(s)] = FirstStage(s)]
                  /\ restarts' = [restarts EXCEPT ![s] = @ + 1]
             ELSE /\ stage' = [killed EXCEPT ![MainOf(s)] = "broken", ![WorkerOf(s)] = "off"]
                  /\ UNCHANGED restarts
        /\ UNCHANGED <<afterUpdate, faults, userQuit>>

\* The window of ten minutes moves on while a worker serves; one that does not is replaced
\* within seconds.
RestartsAge(s) ==
    /\ stage[WorkerOf(s)] = "up" /\ restarts[s] > 0
    /\ restarts' = [restarts EXCEPT ![s] = @ - 1]
    /\ UNCHANGED <<stage, port, older, leaving, world>>

-----------------------------------------------------------------------------
(* What comes from outside *)

StartByUser(s) ==
    /\ stage[MainOf(s)] = "off" /\ stage[WorkerOf(s)] = "off" /\ Goes(MainOf(s), "looking")
    /\ UNCHANGED <<port, older, leaving, restarts, world>>

\* "Update and restart" in the tray: run.bat is started with LAKE_RESTART, as a process of the
\* worker, which then quits.
\* Bound: once.
UpdateAndRestart(s) ==
    /\ afterUpdate = {} /\ stage[MainOf(s)] = "off" /\ Answers
    /\ afterUpdate' = {s} /\ updater' = port
    /\ older' = older \cup {port} /\ leaving' = leaving \cup {port}
    /\ stage' = [stage EXCEPT ![MainOf(s)] = FirstStage(s)']
    /\ UNCHANGED <<port, restarts, faults, userQuit>>

QuitByUser ==
    /\ Answers /\ leaving' = leaving \cup {port} /\ userQuit' = TRUE
    /\ UNCHANGED <<stage, port, older, afterUpdate, updater, restarts, faults>>

WorkerFails(s) ==
    /\ stage[WorkerOf(s)] = "up" /\ faults < MaxFaults /\ faults' = faults + 1
    /\ \/ Goes(WorkerOf(s), "broken") /\ Released({WorkerOf(s)})
       \/ Goes(WorkerOf(s), "hung") /\ UNCHANGED <<port, older, leaving>>
    /\ UNCHANGED <<afterUpdate, updater, restarts, userQuit>>

-----------------------------------------------------------------------------
ProcessSteps(p) ==
    \/ Look(p) \/ CompareRevisions(p) \/ AskToQuit(p) \/ AwaitPort(p) \/ CheckPort(p)
    \/ TakePort(p) \/ EndAsAsked(p)

LauncherRuns ==
    \/ \E p \in Processes : ProcessSteps(p)
    \/ \E s \in Starts : WorkerQuits(s) \/ Recover(s)

LauncherNext ==
    \/ LauncherRuns
    \/ \E s \in Starts : RestartsAge(s) \/ StartByUser(s) \/ UpdateAndRestart(s) \/ WorkerFails(s)
    \/ QuitByUser

LauncherSpec == LauncherInit /\ [][LauncherNext]_launchVars

-----------------------------------------------------------------------------
(* Properties *)

Serves(s) == stage[MainOf(s)] = "supervising" /\ port = WorkerOf(s) /\ stage[WorkerOf(s)] = "up"

StartsSettled == \A s \in Starts : stage[MainOf(s)] \in {"off", "gone", "broken"} \/ Serves(s)

\* The guards of LauncherRuns: a process goes on by itself, or a supervisor with its worker.
GoesOn(p) ==
    \/ stage[p] \in {"looking", "found", "outdated", "binding", "serving"} \/ p \in leaving
    \/ stage[p] = "freeing" /\ (port = NoProcess \/ port \notin leaving)

Attends(s) ==
    /\ stage[MainOf(s)] = "supervising"
    /\ stage[WorkerOf(s)] \in {"gone", "broken", "hung", "serving", "deaf"}

CanRun == (\E p \in Processes : GoesOn(p)) \/ \E s \in Starts : Attends(s)

(* However many starts, restarts, faults and requests to quit meet: unless a  *)
(* process can still go on, every start has ended or serves, and none serves  *)
(* only if the user has quit, or one of them has shown a failure.             *)
OneApplicationStays ==
    \/ /\ StartsSettled
       /\ userQuit \/ \E s \in Starts : Serves(s) \/ stage[MainOf(s)] = "broken"
    \/ CanRun

=============================================================================
