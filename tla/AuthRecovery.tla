------------------------------ MODULE AuthRecovery ------------------------------
(***************************************************************************)
(* How a page recovers from an expired Jira session (static/lib/apiAuth.js *)
(* and api.js, LoginOverlay.js, authActivity.js).  Requests that Jira      *)
(* refused join one silent probe; only when the probe says that a human is *)
(* needed does the page show its notice and watch the status until the     *)
(* session is back, wherever the login took place.                         *)
(*                                                                         *)
(* generation is kept as what it is compared for: whether it moved since a *)
(* request or the probe was sent, and likewise _authGeneration for a poll. *)
(* JavaScript runs one task at a time: an action is a task with all the    *)
(* promises it settles.  The notice stands for LoginOverlay's show; a user *)
(* who hides it has seen it.  The server's view of the session is the      *)
(* session itself (SessionVerdict models how the two part for a while).    *)
(***************************************************************************)
CONSTANTS
    Reads,     \* GET requests, repeated once by the page
    Writes     \* requests that change something, never repeated by the page

Calls == Reads \cup Writes

VARIABLES
    sessionLive,     \* whether the server has a session that Jira accepts
    calls,           \* where each request is, or how it ended
    behind,          \* requests sent under an older generation than the page's
    latest,          \* the last result: "none", "ok", "needLogin" or "degraded"
    latestIsRecent,  \* it is less than five seconds old
    notified,        \* the login was asked for, and nothing has answered that yet
    notice,          \* the notice is up, and its button offers a login
    silentProbe,     \* "idle", "asked" or the answer that is on its way
    overtaken,       \* the generation moved since the probe was sent
    activity,        \* the answer to the probe of a returning user that is on its way
    watching,        \* "on" while the interval of watchAuth runs, "over" when its fifteen
                     \* minutes have passed and the interval has not noticed, "off"
    statusPoll,      \* "none", "sent", "live" or "dead": a poll and its answer on their way
    pollIsOld,       \* a login was begun after the poll was sent
    overlay,         \* "free", "asking" (POST /api/login), "late" (its answer does not matter
                     \* any more) or "busy" (a login is under way)
    deadSince        \* history: the session was dead at some time since authenticated()

recovery == <<latest, latestIsRecent, notified, notice>>
probes == <<silentProbe, overtaken>>
watch == <<watching, statusPoll, pollIsOld>>
authVars == <<sessionLive, calls, behind, recovery, probes, activity, watch, overlay, deadSince>>

\* "idle": answered, given up or not sent; "failed": told to try again.
Ended == {"idle", "failed", "needLogin"}

\* A page loads with or without a session; without one it watches.
AuthInit ==
    /\ sessionLive \in BOOLEAN
    /\ calls = [c \in Calls |-> "idle"] /\ behind = {}
    /\ latest = "none" /\ latestIsRecent = FALSE
    /\ notified = FALSE /\ notice = FALSE
    /\ silentProbe = "idle" /\ overtaken = FALSE
    /\ activity = "none"
    /\ watching = (IF sessionLive THEN "off" ELSE "on") /\ statusPoll = "none" /\ pollIsOld = FALSE
    /\ overlay = "free"
    /\ deadSince = ~sessionLive

Underway(place) == {c \in Calls : place[c] \notin Ended}

CallGoes(c, place) ==
    /\ calls' = [calls EXCEPT ![c] = place]
    /\ behind' = behind \ {d \in {c} : place \in Ended}

\* generation++: everything that is under way was sent before.
NextGeneration(place) ==
    /\ behind' = Underway(place)
    /\ overtaken' = (silentProbe' # "idle")

-----------------------------------------------------------------------------
(* What the events do. *)

\* requireLogin() with loginRequired() and watchAuth(): once until authenticated().
requireLogin ==
    /\ notified' = TRUE
    /\ notice' = (notice \/ ~notified)
    /\ watching' = IF notified THEN watching ELSE "on"

\* The listeners of auth-ok: authenticated() and stopAuthWatch() in api.js, the notice in
\* LoginOverlay.  The generation moves with it.
AuthOk ==
    /\ latest' = "ok" /\ notified' = FALSE
    /\ notice' = FALSE /\ watching' = "off"
    /\ overlay' = IF overlay \in {"asking", "late"} THEN "late" ELSE "free"
    /\ deadSince' = ~sessionLive

\* Once the session is recovered a read goes out again, a write does not.
After(c, result) ==
    IF result = "needLogin" THEN "needLogin"
    ELSE IF result = "ok" /\ c \in Reads THEN "again" ELSE "failed"

\* Those who wait for the probe hear its result.
Settled(result) ==
    [c \in Calls |-> IF calls[c] = "waiting" THEN After(c, result) ELSE calls[c]]

\* recover(): join the probe under way, take the last result, or start a probe.
TakesLatest(c) ==
    /\ silentProbe = "idle" /\ latest # "none"
    /\ c \in behind \/ (latest # "ok" /\ latestIsRecent)

StartProbe ==
    /\ silentProbe' = IF silentProbe = "idle" THEN "asked" ELSE silentProbe
    /\ UNCHANGED overtaken

-----------------------------------------------------------------------------
(* A request (fetchWithAuth) *)

SendCall(c) ==
    /\ calls[c] \in Ended /\ CallGoes(c, "sent")
    /\ UNCHANGED <<sessionLive, recovery, probes, activity, watch, overlay, deadSince>>

\* The server answers a request, sent for the first or the second time.
ServeCall(c) ==
    /\ \/ calls[c] = "sent" /\ CallGoes(c, IF sessionLive THEN "idle" ELSE "refused")
       \/ calls[c] = "again" /\ CallGoes(c, IF sessionLive THEN "idle" ELSE "refusedAgain")
    /\ UNCHANGED <<sessionLive, recovery, probes, activity, watch, overlay, deadSince>>

RefusalTakesLatest(c) ==
    /\ calls[c] = "refused" /\ TakesLatest(c)
    /\ CallGoes(c, After(c, latest))
    /\ UNCHANGED <<sessionLive, recovery, probes, activity, watch, overlay, deadSince>>

RefusalWaits(c) ==
    /\ calls[c] = "refused" /\ ~TakesLatest(c)
    /\ CallGoes(c, "waiting") /\ StartProbe
    /\ UNCHANGED <<sessionLive, recovery, activity, watch, overlay, deadSince>>

\* One retry is the limit, even if the renewal appeared successful.
RetryIsRefused(c) ==
    /\ calls[c] = "refusedAgain" /\ CallGoes(c, "needLogin")
    /\ requireLogin
    /\ UNCHANGED <<sessionLive, latest, latestIsRecent, probes, activity, statusPoll, pollIsOld,
                   overlay, deadSince>>

\* The caller gives up or runs out of time; the probe goes on for the others.
AbortCall(c) ==
    /\ calls[c] \notin Ended /\ CallGoes(c, "idle")
    /\ UNCHANGED <<sessionLive, recovery, probes, activity, watch, overlay, deadSince>>

-----------------------------------------------------------------------------
(* The silent probe *)

\* recoverAuth(): by the overlay, the refresh button or the start page, unless a result other
\* than ok is recent.
RecoverAuth ==
    /\ silentProbe = "idle" /\ ~(latest \in {"needLogin", "degraded"} /\ latestIsRecent)
    /\ StartProbe
    /\ UNCHANGED <<sessionLive, calls, behind, recovery, activity, watch, overlay, deadSince>>

\* /api/auth/probe?recover=1: a check, a silent renewal, a second check; or no answer.
AnswerProbe ==
    /\ silentProbe = "asked"
    /\ \/ silentProbe' = "ok" /\ sessionLive' = TRUE
       \/ silentProbe' = "needLogin" /\ ~sessionLive /\ UNCHANGED sessionLive
       \/ silentProbe' = "degraded" /\ UNCHANGED sessionLive
    /\ UNCHANGED <<calls, behind, recovery, overtaken, activity, watch, overlay, deadSince>>

\* Slip: the answer is believed whatever happened since the probe was sent.
ResultAsAnswered == silentProbe

\* A visible login may finish while an older silent probe is still returning.
ResultOfProbe == IF overtaken /\ latest = "ok" THEN "ok" ELSE silentProbe

ProbeReturns ==
    LET result == ResultOfProbe
    IN  /\ silentProbe \notin {"idle", "asked"} /\ silentProbe' = "idle"
        /\ calls' = Settled(result) /\ NextGeneration(Settled(result))
        /\ latestIsRecent' = TRUE
        /\ \/ result = "ok" /\ AuthOk
           \/ /\ result = "needLogin" /\ latest' = result /\ requireLogin
              /\ UNCHANGED <<overlay, deadSince>>
           \/ /\ result = "degraded" /\ latest' = result
              /\ UNCHANGED <<notified, notice, watching, overlay, deadSince>>
        /\ UNCHANGED <<sessionLive, activity, statusPoll, pollIsOld>>

ResultAges ==
    /\ latestIsRecent /\ latestIsRecent' = FALSE
    /\ UNCHANGED <<sessionLive, calls, behind, latest, notified, notice, probes, activity, watch,
                   overlay, deadSince>>

\* auth-ok from outside the recovery.
AuthOkArrives ==
    /\ AuthOk
    /\ UNCHANGED <<sessionLive, calls, latestIsRecent>>
    /\ silentProbe' = silentProbe /\ NextGeneration(calls)

-----------------------------------------------------------------------------
(* The user comes back (authActivity.js): a probe of its own, which does not *)
(* wait and renews in silence; a refusal makes the overlay call recoverAuth().*)

AskOnActivity ==
    /\ activity = "none"
    /\ \/ activity' = "recovered" /\ ~sessionLive /\ sessionLive' = TRUE
       \/ activity' = "needLogin" /\ ~sessionLive /\ UNCHANGED sessionLive
    /\ UNCHANGED <<calls, behind, recovery, probes, watch, overlay, deadSince>>

ActivityAnswered ==
    /\ activity' = "none"
    /\ \/ /\ activity = "recovered" /\ AuthOkArrives
          /\ UNCHANGED <<statusPoll, pollIsOld>>
       \/ /\ activity = "needLogin"
          /\ UNCHANGED <<sessionLive, calls, behind, recovery, probes, watch, overlay,
                          deadSince>>

-----------------------------------------------------------------------------
(* The login and the watch for it *)

\* doLogin: the notice stays up until the login is confirmed.
UserLogin ==
    /\ notice /\ overlay \in {"free", "late"} /\ overlay' = "asking"
    /\ pollIsOld' = (statusPoll # "none")
    /\ UNCHANGED <<sessionLive, calls, behind, recovery, probes, activity, watching, statusPoll,
                   deadSince>>

\* The attempt is pending, and the page watches for what comes of it, fifteen minutes from now.
LoginAnswered ==
    /\ overlay \in {"asking", "late"}
    /\ overlay' = IF overlay = "asking" THEN "busy" ELSE "free"
    /\ watching' = "on"
    /\ UNCHANGED <<sessionLive, calls, behind, recovery, probes, activity, statusPoll, pollIsOld,
                   deadSince>>

\* Every 2.5 seconds; one poll at a time is enough to be late.
SendPoll ==
    /\ watching = "on" /\ statusPoll = "none"
    /\ statusPoll' = "sent" /\ pollIsOld' = FALSE
    /\ UNCHANGED <<sessionLive, calls, behind, recovery, probes, activity, watching, overlay,
                   deadSince>>

AnswerPoll ==
    /\ statusPoll = "sent"
    /\ statusPoll' = IF sessionLive THEN "live" ELSE "dead"
    /\ UNCHANGED <<sessionLive, calls, behind, recovery, probes, activity, watching, pollIsOld,
                   overlay, deadSince>>

\* A poll is lost; the next one takes its place, if there is one.
LosePoll ==
    /\ statusPoll = "sent"
    /\ statusPoll' = (IF watching = "on" THEN "sent" ELSE "none") /\ pollIsOld' = FALSE
    /\ UNCHANGED <<sessionLive, calls, behind, recovery, probes, activity, watching, overlay,
                   deadSince>>

\* Slip: the watch ends with the first answer, whatever it says.
PollEndsWatch ==
    /\ statusPoll \in {"live", "dead"}
    /\ statusPoll' = "none" /\ pollIsOld' = FALSE
    /\ \/ statusPoll = "live" /\ ~pollIsOld /\ AuthOkArrives
       \/ /\ statusPoll = "dead" \/ pollIsOld
          /\ watching' = "off"
          /\ UNCHANGED <<sessionLive, calls, behind, recovery, probes, overlay, deadSince>>
    /\ UNCHANGED activity

\* An old poll cannot finish a newer login; one that finds the session wakes the screens, and
\* one that finds the attempt failed frees the button.
PollReturns ==
    /\ statusPoll \in {"live", "dead"}
    /\ statusPoll' = "none" /\ pollIsOld' = FALSE
    /\ \/ statusPoll = "live" /\ ~pollIsOld /\ AuthOkArrives
       \/ /\ statusPoll = "dead" \/ pollIsOld
          /\ overlay' \in {overlay} \cup {o \in {"free"} : overlay = "busy" /\ ~pollIsOld}
          /\ UNCHANGED <<sessionLive, calls, behind, recovery, probes, watching, deadSince>>
    /\ UNCHANGED activity

\* Fifteen minutes after the page began to watch, or asked for a login once more, whether or
\* not there is a session by now: also while the machine sleeps.
DeadlinePasses ==
    /\ watching = "on" /\ watching' = "over"
    /\ UNCHANGED <<sessionLive, calls, behind, recovery, probes, activity, statusPoll, pollIsOld,
                   overlay, deadSince>>

\* The interval looks at the deadline before it polls.
WatchExpires ==
    /\ watching = "over" /\ watching' = "off"
    /\ UNCHANGED <<sessionLive, calls, behind, recovery, probes, activity, statusPoll, pollIsOld,
                   overlay, deadSince>>

\* A login in this application's window, in the tray, by another client; a session expires.
SessionChanges ==
    /\ sessionLive' = ~sessionLive
    /\ deadSince' = (deadSince \/ ~sessionLive')
    /\ UNCHANGED <<calls, behind, recovery, probes, activity, watch, overlay>>

-----------------------------------------------------------------------------
Call(c) ==
    \/ SendCall(c) \/ ServeCall(c) \/ RefusalTakesLatest(c) \/ RefusalWaits(c)
    \/ RetryIsRefused(c) \/ AbortCall(c)

AuthNext ==
    \/ \E c \in Calls : Call(c)
    \/ RecoverAuth \/ AnswerProbe \/ ProbeReturns \/ ResultAges
    \/ AskOnActivity \/ ActivityAnswered
    \/ UserLogin \/ LoginAnswered
    \/ SendPoll \/ AnswerPoll \/ LosePoll \/ PollReturns
    \/ DeadlinePasses \/ WatchExpires
    \/ SessionChanges

AuthSpec == AuthInit /\ [][AuthNext]_authVars

\* Timers fire and tasks run, and the server on this machine does not lose every poll.
AuthFairness == WF_authVars(SendPoll \/ AnswerPoll \/ PollReturns)

-----------------------------------------------------------------------------
(* Properties *)

NoRefusalIsSilent ==
    \A c \in Calls : calls[c] # "needLogin" /\ calls'[c] = "needLogin" => notice'

NoLateProbeAsks ==
    silentProbe # "idle" /\ silentProbe' = "idle" /\ ~notified /\ notified' => deadSince

(* A request fails for want of a login only under the notice that offers one;  *)
(* and the silent probe raises it only over a session that was dead at some    *)
(* time since the page last knew to be signed in, however late its answer is.  *)
LoginIsAskedJustly == [][NoRefusalIsSilent /\ NoLateProbeAsks]_authVars

(* The notice of a page that watches does not outlast the return of the       *)
(* session, whoever logged in and wherever, although polls are lost or late,   *)
(* unless the fifteen minutes of the watch run out first.                      *)
NoticeIsLifted ==
    (notice /\ watching = "on") ~> (~notice \/ ~sessionLive \/ watching = "over")

=============================================================================
