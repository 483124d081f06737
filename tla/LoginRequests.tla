----------------------------- MODULE LoginRequests -----------------------------
(***************************************************************************)
(* Interactive logins (auth/login_requests.py) and who carries them out:   *)
(* the window of the application (run.py), or a background thread with a   *)
(* login browser of its own (main.py).  A request is queued and given to   *)
(* both: the window is focused or opened, and a timer falls back to a      *)
(* background thread.  The first to claim the attempt logs in, for as long *)
(* as a human takes, and completes it.                                     *)
(***************************************************************************)
EXTENDS Naturals

CONSTANTS
    Services,      \* services with a login
    MaxAttempts,   \* bound: attempts that are started
    Tray           \* TRUE if the tray installed open_window as the hook

ASSUME LoginAssumption == MaxAttempts \in Nat /\ Tray \in BOOLEAN

VARIABLES
    attempts,      \* _attempts: number, state and outcome
    nextId,        \* _next_id
    requested,     \* the event the window looks at
    dispatching,   \* attempts whose request() has left its lock
    fallbacks,     \* timers and threads that are to run _login_in_background
    logins,        \* logins under way: for which attempt, by whom
    appWindow,     \* "none", "opening" or "open": it counts as live from "opening" on
    failures       \* history: services one of whose attempts could not be dispatched

loginVars == <<attempts, nextId, requested, dispatching, fallbacks, logins, appWindow, failures>>


LoginInit ==
    /\ attempts = [s \in Services |-> [id |-> 0, state |-> "idle"]]
    /\ nextId = 0
    /\ requested = FALSE
    /\ dispatching = {} /\ fallbacks = {} /\ logins = {}
    /\ appWindow = "none"
    /\ failures = {}

Pending(s) == attempts[s].state \in {"queued", "running"}
SomeQueued(book_) == \E s \in Services : book_[s].state = "queued"
SetAttempt(s, state) == attempts' = [attempts EXCEPT ![s] = [id |-> @.id, state |-> state]]

\* complete(): ignored for an attempt that is not the current one any more.
Complete(s, id) ==
    IF attempts[s].id = id /\ Pending(s)
      THEN /\ SetAttempt(s, "completed")
           /\ requested' = (requested /\ SomeQueued(attempts'))
      ELSE UNCHANGED <<attempts, requested>>

-----------------------------------------------------------------------------

\* request(), by the user, the tray, MCP or a window that opens; it joins an attempt
\* that is pending.
RequestLogin(s) ==
    /\ ~Pending(s) /\ nextId < MaxAttempts
    /\ nextId' = nextId + 1
    /\ attempts' = [attempts EXCEPT ![s] = [id |-> nextId + 1, state |-> "queued"]]
    /\ requested' = TRUE
    /\ dispatching' = dispatching \cup {[service |-> s, id |-> nextId + 1]}
    /\ UNCHANGED <<fallbacks, logins, appWindow, failures>>

\* Slip: a window that is asked needs no fallback.
DispatchToWindow(d) ==
    /\ dispatching' = dispatching \ {d}
    /\ fallbacks' = IF appWindow # "none" \/ Tray THEN fallbacks ELSE fallbacks \cup {d}
    /\ appWindow' \in {appWindow} \cup {w \in {"opening"} : Tray /\ appWindow = "none"}
    /\ UNCHANGED <<attempts, nextId, requested, logins, failures>>

\* _dispatch_login: focus the window, or let the tray open it, which may come to nothing;
\* either way, or without a window, a background thread is to look after the attempt.
DispatchLogin(d) ==
    /\ dispatching' = dispatching \ {d}
    /\ fallbacks' = fallbacks \cup {d}
    /\ appWindow' \in {appWindow} \cup {w \in {"opening"} : Tray /\ appWindow = "none"}
    /\ UNCHANGED <<attempts, nextId, requested, logins, failures>>

\* No thread can be started: the attempt ends.
DispatchFails(d) ==
    /\ dispatching' = dispatching \ {d}
    /\ Complete(d.service, d.id)
    /\ failures' = failures \cup {d.service}
    /\ UNCHANGED <<nextId, fallbacks, logins, appWindow>>

\* Slip: whoever comes may have the attempt while it is pending.
ClaimPending(s, who) ==
    /\ Pending(s)
    /\ SetAttempt(s, "running")
    /\ requested' = (requested /\ SomeQueued(attempts'))
    /\ logins' = logins \cup {[service |-> s, by |-> who, id |-> 0]}

\* claim(): a queued attempt, for the window or for the fallback of some attempt.
claim(s, who) ==
    /\ attempts[s].state = "queued"
    /\ SetAttempt(s, "running")
    /\ requested' = (requested /\ SomeQueued(attempts'))
    /\ logins' = logins \cup {[service |-> s, by |-> who, id |-> 0]}

\* _login_in_background: the fallback names the service and not the attempt.
FallBack(d) ==
    /\ fallbacks' = fallbacks \ {d}
    /\ \/ claim(d.service, d.id)
       \/ attempts[d.service].state # "queued" /\ UNCHANGED <<attempts, requested, logins>>
    /\ UNCHANGED <<nextId, dispatching, appWindow, failures>>

\* The loop of the window, _run_pending_login: one login at a time.
WindowLooks ==
    /\ appWindow = "open" /\ requested
    /\ \A l \in logins : l.by # 0
    /\ \E s \in Services : claim(s, 0)
    /\ UNCHANGED <<nextId, dispatching, fallbacks, appWindow, failures>>

\* The number of the attempt is read after it was claimed.
ReadAttempt(l) ==
    /\ l.id = 0
    /\ logins' = (logins \ {l}) \cup {[l EXCEPT !.id = attempts[l.service].id]}
    /\ UNCHANGED <<attempts, nextId, requested, dispatching, fallbacks, appWindow, failures>>

\* The login succeeds, fails, raises or runs out of its five minutes: finally, complete.
EndLogin(l) ==
    /\ l.id # 0
    /\ logins' = logins \ {l}
    /\ Complete(l.service, l.id)
    /\ UNCHANGED <<nextId, dispatching, fallbacks, appWindow, failures>>

\* _window_session: the window opens, fails to, or is closed; not in the midst of a login.
WindowChanges ==
    /\ \A l \in logins : l.by # 0
    /\ \/ appWindow = "none" /\ appWindow' = "opening"
       \/ appWindow = "opening" /\ appWindow' \in {"open", "none"}
       \/ appWindow = "open" /\ appWindow' = "none"
    /\ UNCHANGED <<attempts, nextId, requested, dispatching, fallbacks, logins, failures>>

LoginNext ==
    \/ \E s \in Services : RequestLogin(s)
    \/ \E d \in dispatching : DispatchLogin(d) \/ DispatchFails(d)
    \/ \E d \in fallbacks : FallBack(d)
    \/ \E l \in logins : ReadAttempt(l) \/ EndLogin(l)
    \/ WindowLooks \/ WindowChanges

LoginSpec == LoginInit /\ [][LoginNext]_loginVars

\* Threads run, timers go off, and a login has a time limit.  A window owes nothing.
LoginFairness ==
    \A s \in Services, i \in 1..MaxAttempts :
        LET d == [service |-> s, id |-> i] IN
        /\ WF_loginVars(d \in dispatching /\ (DispatchLogin(d) \/ DispatchFails(d)))
        /\ WF_loginVars(d \in fallbacks /\ FallBack(d))
        /\ WF_loginVars(\E l \in logins : l.by \in {0, i} /\ l.service = s /\ (ReadAttempt(l) \/ EndLogin(l)))

-----------------------------------------------------------------------------
(* Properties *)

(* One login window per service: the timer of an attempt, of an earlier one too, *)
(* and the window of the application never both log in, unless a login went on   *)
(* whose attempt had been given up because its dispatch failed.                  *)
OneLoginWindow == \A l, k \in logins : l.service = k.service => l = k \/ l.service \in failures

(* An attempt ends, whether the window is closed, cannot open, or was never there: *)
(* otherwise every later request of the service would join it.                     *)
LoginEnds == \A s \in Services : Pending(s) ~> ~Pending(s)

=============================================================================
