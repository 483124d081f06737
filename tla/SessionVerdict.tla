----------------------------- MODULE SessionVerdict -----------------------------
(***************************************************************************)
(* Whether the Jira session is alive (jira/identity_service.py): a mark    *)
(* sessionDead that the application shows as "login needed", set and       *)
(* cleared by ordinary identity reads (current_user), by probes            *)
(* (proactive_auth_probe: a check, a silent renewal, a second check) and   *)
(* by logins (reset_provider).  Probes exclude each other, remember their  *)
(* result for a while and share it with those that waited.                 *)
(***************************************************************************)
EXTENDS Naturals

CONSTANTS
    Probers,       \* who probes: timers, the window that comes back, MCP
    Forced,        \* those that force a check and wait for the one under way
    Recheck,       \* session_recheck_async
    NoProber,
    MaxLogins      \* bound: logins

ASSUME VerdictAssumption ==
    /\ Forced \subseteq Probers /\ Recheck \in Probers \ Forced /\ NoProber \notin Probers
    /\ MaxLogins \in Nat

VARIABLES
    jiraSession,   \* what Jira thinks of the session: "valid" or "expired"
    reachable,     \* whether the network is up
    generation,    \* _provider_generation
    sessionDead,   \* _session_dead
    upstreamDown,  \* upstream_down()
    recent,        \* whether _auth_probe_result is there and still recent
    sharing,       \* waiting probers to whom _auth_probe_completed_result is new
    probeLock,     \* _auth_probe_lock
    probing,       \* where each prober is
    word,          \* what it heard from Jira
    before,        \* the generation it asked with
    judged,        \* what direct_session_state made of it
    reading,       \* what current_user heard from Jira, or "none"
    resetting,     \* reset_provider has replaced the provider and not yet cleared the marks
    standing,      \* history: the last check was refused, and no login has followed
    refusals       \* history: the refusals of this probe that stood when they were judged

outside == <<jiraSession, reachable>>
marks == <<sessionDead, upstreamDown, recent, sharing>>
heard == <<word, before, judged, standing, refusals>>
verdictVars == <<outside, generation, marks, probeLock, probing, heard, reading, resetting>>

VerdictInit ==
    /\ jiraSession \in {"valid", "expired"} /\ reachable = TRUE
    /\ generation = 0
    /\ sessionDead = FALSE /\ upstreamDown = FALSE
    /\ recent = FALSE /\ sharing = {}
    /\ probeLock = NoProber
    /\ probing = [p \in Probers |-> "idle"]
    /\ word = "unknown" /\ before = 0 /\ judged = "unknown"
    /\ reading = "none"
    /\ resetting = FALSE
    /\ standing = FALSE /\ refusals = 0

\* /rest/api/2/myself.
Heard ==
    IF ~reachable THEN "unknown" ELSE IF jiraSession = "valid" THEN "alive" ELSE "expired"

mark_session_alive ==
    /\ sessionDead' = FALSE /\ upstreamDown' = FALSE /\ recent' = FALSE
    /\ UNCHANGED sharing

mark_session_dead ==
    /\ sessionDead' = TRUE /\ upstreamDown' = TRUE
    /\ recent' = FALSE /\ sharing' = {}

MovesTo(p, place) == probing' = [probing EXCEPT ![p] = place]

-----------------------------------------------------------------------------
(* proactive_auth_probe.  One probe at a time is past the gate: word, before *)
(* and judged are its own, and forgotten with it.                            *)

ForgetWord ==
    /\ word' = "unknown" /\ before' = 0 /\ judged' = "unknown"
    /\ standing' = FALSE /\ refusals' = 0

\* Slip: a session is rechecked only while the circuit is open.
RecheckedIfDown == upstreamDown

needs_recheck == sessionDead \/ upstreamDown

Probe(p) ==
    /\ probing[p] = "idle"
    /\ p = Recheck => needs_recheck
    /\ p \in Forced \/ ~recent
    /\ MovesTo(p, "gate")
    /\ UNCHANGED <<outside, generation, marks, probeLock, heard, reading, resetting>>

\* The gate: a result that was completed meanwhile is shared.
PassGate(p) ==
    /\ probing[p] = "gate" /\ probeLock = NoProber
    /\ sharing' = sharing \ {p}
    /\ IF p \in sharing \/ (p \notin Forced /\ recent)
         THEN MovesTo(p, "idle") /\ UNCHANGED probeLock
         ELSE MovesTo(p, "first") /\ probeLock' = p
    /\ UNCHANGED <<outside, generation, sessionDead, upstreamDown, recent, heard,
                   reading, resetting>>

\* Another probe is under way: at once, or after AUTH_PROBE_WAIT_SECONDS.
GiveUp(p) ==
    /\ probing[p] = "gate" /\ probeLock # NoProber
    /\ sharing' = sharing \ {p}
    /\ MovesTo(p, "idle")
    /\ UNCHANGED <<outside, generation, sessionDead, upstreamDown, recent, probeLock, heard,
                   reading, resetting>>

\* direct_session_state asks Jira.
Ask(p) ==
    /\ \/ probing[p] = "first" /\ MovesTo(p, "heard")
       \/ probing[p] = "second" /\ MovesTo(p, "heardAgain")
    /\ word' = Heard /\ before' = generation /\ standing' = (Heard = "expired")
    /\ UNCHANGED <<outside, generation, marks, probeLock, judged, refusals, reading, resetting>>

\* Slip: an answer to the session of before counts for the one of now.
WordOnly == word

\* An answer to a provider that was replaced meanwhile tells nothing.
StateOfSession == IF before # generation THEN "unknown" ELSE word

\* direct_session_state judges what it heard; alive is marked under the provider's lock.
Judge(p) ==
    /\ \/ probing[p] = "heard" /\ MovesTo(p, "judged")
       \/ probing[p] = "heardAgain" /\ MovesTo(p, "judgedAgain")
    /\ judged' = StateOfSession
    /\ refusals' = IF standing THEN refusals + 1 ELSE refusals
    /\ IF StateOfSession = "alive" THEN mark_session_alive ELSE UNCHANGED marks
    /\ UNCHANGED <<outside, generation, probeLock, word, before, standing, reading, resetting>>

\* The session is renewed without a window, if the identity provider still knows the user.
Renew(p) ==
    /\ probing[p] = "judged" /\ judged = "expired"
    /\ jiraSession' \in {jiraSession} \cup {s \in {"valid"} : reachable}
    /\ MovesTo(p, "second")
    /\ UNCHANGED <<reachable, generation, marks, probeLock, heard, reading, resetting>>

Conclude(p) ==
    /\ \/ probing[p] = "judged" /\ judged # "expired"
       \/ probing[p] = "judgedAgain"
    /\ \/ judged = "alive" /\ mark_session_alive /\ MovesTo(p, "ok")
       \/ judged = "unknown" /\ UNCHANGED marks /\ MovesTo(p, "degraded")
       \/ judged = "expired" /\ mark_session_dead /\ MovesTo(p, "needLogin")
    /\ UNCHANGED <<outside, generation, probeLock, heard, reading, resetting>>

\* The result is remembered, and new to those who wait.
StoreResult(p) ==
    /\ probing[p] \in {"ok", "degraded", "needLogin"}
    /\ recent' = TRUE
    /\ sharing' = {q \in Probers : probing[q] = "gate"}
    /\ probeLock' = NoProber /\ MovesTo(p, "idle") /\ ForgetWord
    /\ UNCHANGED <<outside, generation, sessionDead, upstreamDown, reading, resetting>>

\* The queue refuses a check or the renewal: there is no result at all.
Busy(p) ==
    /\ \/ probing[p] \in {"first", "second"}
       \/ probing[p] = "judged" /\ judged = "expired"
    /\ recent' = FALSE /\ sharing' = {}
    /\ probeLock' = NoProber /\ MovesTo(p, "idle") /\ ForgetWord
    /\ UNCHANGED <<outside, generation, sessionDead, upstreamDown, reading, resetting>>

-----------------------------------------------------------------------------
(* The others. *)

\* current_user asks Jira ...
ReadUser ==
    /\ reading = "none"
    /\ reading' = Heard
    /\ UNCHANGED <<outside, generation, marks, probeLock, probing, heard, resetting>>

\* ... and marks what it heard, of whatever session.
MarkRead ==
    /\ reading # "none" /\ reading' = "none"
    /\ \/ reading = "alive" /\ mark_session_alive
       \/ reading = "expired" /\ mark_session_dead
       \/ /\ reading = "unknown" /\ upstreamDown' = TRUE
          /\ UNCHANGED <<sessionDead, recent, sharing>>
    /\ UNCHANGED <<outside, generation, probeLock, probing, heard, resetting>>

\* reset_provider after a login: the provider is replaced, then the marks are cleared.
SignIn ==
    /\ generation < MaxLogins /\ ~resetting /\ reachable
    /\ jiraSession' = "valid" /\ generation' = generation + 1
    /\ resetting' = TRUE /\ standing' = FALSE
    /\ UNCHANGED <<reachable, marks, probeLock, probing, word, before, judged, refusals, reading>>

ClearMarks ==
    /\ resetting /\ resetting' = FALSE
    /\ mark_session_alive
    /\ UNCHANGED <<outside, generation, probeLock, probing, heard, reading>>

\* The circuit closes after UPSTREAM_DOWN_FOR or with any success.
mark_transport_ok ==
    /\ upstreamDown' = FALSE
    /\ UNCHANGED <<outside, generation, sessionDead, recent, sharing, probeLock, probing, heard,
                   reading, resetting>>

\* A result is recent for PROACTIVE_PROBE_CACHE_SEC.
VerdictAges ==
    /\ recent' = FALSE
    /\ UNCHANGED <<outside, generation, sessionDead, upstreamDown, sharing, probeLock, probing,
                   heard, reading, resetting>>

WorldChanges ==
    /\ \/ jiraSession' = "expired" /\ UNCHANGED reachable
       \/ reachable' = ~reachable /\ UNCHANGED jiraSession
    /\ UNCHANGED <<generation, marks, probeLock, probing, heard, reading, resetting>>

\* What a probe that is past the gate does, but for the refusals of the queue.
Proceed(p) == Ask(p) \/ Judge(p) \/ Renew(p) \/ Conclude(p) \/ StoreResult(p)

VerdictNext ==
    \/ \E p \in Probers : Probe(p) \/ PassGate(p) \/ GiveUp(p) \/ Proceed(p) \/ Busy(p)
    \/ ReadUser \/ MarkRead \/ SignIn \/ ClearMarks
    \/ mark_transport_ok \/ VerdictAges \/ WorldChanges

VerdictSpec == VerdictInit /\ [][VerdictNext]_verdictVars

\* Threads finish what they began, and the queue does not refuse a probe for ever; the
\* status poll starts a recheck whenever one is due, which passes a gate that stays open;
\* results grow old.
VerdictFairness ==
    /\ \A p \in Probers : SF_verdictVars(Proceed(p))
    /\ WF_verdictVars(Probe(Recheck)) /\ WF_verdictVars(PassGate(Recheck))
    /\ WF_verdictVars(MarkRead) /\ WF_verdictVars(ClearMarks) /\ WF_verdictVars(VerdictAges)

-----------------------------------------------------------------------------
(* Properties *)

(* A probe marks the session dead and asks for a login only if Jira itself    *)
(* refused it twice, before and after the silent renewal, and neither refusal *)
(* was of a session that a login had replaced when it was judged: no broken   *)
(* network and no login under way is taken for an expired session.            *)
VerdictIsEarned ==
    [][\A p \in Probers :
          probing[p] # "needLogin" /\ probing'[p] = "needLogin" => refusals = 2]_verdictVars

(* A session that Jira accepts does not stay marked dead, although a stale    *)
(* refusal may mark it after a login and a result may hide the mark a while.  *)
DeadHeals == sessionDead ~> (~sessionDead \/ jiraSession = "expired" \/ ~reachable)

=============================================================================
