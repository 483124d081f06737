------------------------------ MODULE SsoSession ------------------------------
(***************************************************************************)
(* The SSO provider of app/auth/sso_session.py: Playwright lives in one    *)
(* owner thread, and every call of every request thread is a job on a      *)
(* bounded priority queue that this thread serves.                         *)
(*                                                                         *)
(* A caller waits for its job with a limit on the queue and then one on    *)
(* the run.  A job that is late in the queue is cancelled; one that runs   *)
(* over its budget retires the whole provider (_mark_broken), which wakes  *)
(* whoever waits behind it and tells the owner to stop; the owner itself   *)
(* cannot be interrupted, and a write it has dispatched may still commit.  *)
(*                                                                         *)
(* An action is one queue operation, one critical section of a job's lock, *)
(* one look at an event, or one return of the browser.  Time is the clock  *)
(* of each request: early, late (its queue deadline passed) or overrun     *)
(* (its running budget passed too).                                        *)
(***************************************************************************)
EXTENDS Naturals, FiniteSets

CONSTANTS
    Requests,     \* calls of the provider, each by a thread of its own
    Writes,       \* those submitted with may_commit
    Priority,     \* priority of each request, smaller goes first
    Closers,      \* the threads that close the provider
    NoRequest,    \* no job
    Limit         \* MAX_QUEUED_JOBS

Threads == Requests \cup Closers

ASSUME WritesAssumption == Writes \subseteq Requests
ASSUME ClosersAssumption == Closers \cap Requests = {}
ASSUME NoRequestAssumption == NoRequest \notin Requests
ASSUME PriorityAssumption == Priority \in [Requests -> Nat]
ASSUME LimitAssumption == Limit \in Nat \ {0}

VARIABLES
    queue,        \* _jobs: the requests in it
    stops,        \* the sentinels in _jobs, which go before every job
    broken,       \* _broken
    closed,       \* _closed
    owner,        \* where the owner thread is
    job,          \* the request it has taken, if any
    pc,           \* where each caller is
    after,        \* what a caller that retires the provider gets then, or that it waits on
    clock,        \* how far the time of each request has run
    started,      \* job_state["started"]
    cancelled,    \* job_state["cancelled"]
    dispatched,   \* job_state["dispatched"]
    done,         \* requests whose done event is set
    box,          \* the result, or the kind of the error, of each request
    answer        \* what each caller got

jobs == <<queue, stops>>
health == <<broken, closed>>
state == <<started, cancelled, dispatched>>
results == <<done, box>>
callers == <<pc, after, answer>>
vars == <<jobs, health, owner, job, callers, clock, state, results>>

Init ==
    /\ queue = {}
    /\ stops = 0
    /\ broken = FALSE
    /\ closed = FALSE
    /\ owner = "waiting"
    /\ job = NoRequest
    /\ pc = [t \in Threads |-> "new"]
    /\ after = [t \in Threads |-> "waits"]
    /\ clock = [r \in Requests |-> "early"]
    /\ started = {}
    /\ cancelled = {}
    /\ dispatched = {}
    /\ done = {}
    /\ box = [r \in Requests |-> "nothing"]
    /\ answer = [t \in Threads |-> "nothing"]

Broken == broken \/ closed

Goto(t, place) == pc' = [pc EXCEPT ![t] = place]
Leave(t, what) == Goto(t, "answered") /\ answer' = [answer EXCEPT ![t] = what]

\* The jobs that the priority queue may give out.  Between two of one priority the
\* code takes the one that was put first, which no property here depends on.
Foremost == {r \in queue : \A s \in queue : Priority[r] <= Priority[s]}

\* done.set() with what the box then holds: a reply is a result or an error that
\* the caller gets as it is.
Settle(r, what) ==
    /\ box' = [box EXCEPT ![r] = what]
    /\ done' = done \cup {r}

\* UpstreamUnavailable with the reason of the retirement, whose text may itself
\* look like a transport error (_is_transport_error).
Refusals == {"unavailable", "transport"}

-----------------------------------------------------------------------------
(* _mark_broken: the provider is retired, and the queue emptied item by item. *)

\* The first step of it, in whatever step discovers the reason.
Retire(t, next) ==
    /\ broken' = TRUE
    /\ Goto(t, "draining")
    /\ after' = [after EXCEPT ![t] = next]

DrainOne(t) ==
    /\ pc[t] = "draining"
    /\ \/ /\ stops > 0
          /\ stops' = stops - 1
          /\ UNCHANGED <<queue, results>>
       \/ /\ stops = 0
          /\ \E r \in Foremost, error \in Refusals : queue' = queue \ {r} /\ Settle(r, error)
          /\ UNCHANGED stops
    /\ UNCHANGED <<health, owner, job, callers, clock, state>>

DrainEnd(t) ==
    /\ pc[t] = "draining"
    /\ queue = {} /\ stops = 0
    /\ Goto(t, "waking")
    /\ UNCHANGED <<jobs, health, owner, job, after, answer, clock, state, results>>

\* _mark_broken returns, and its caller raises or goes on to wait.
EndRetirement(t, woken) ==
    /\ pc[t] = "waking"
    /\ stops' = stops + woken
    /\ after' = [after EXCEPT ![t] = "waits"]
    /\ IF after[t] = "waits" THEN Goto(t, "waiting") /\ UNCHANGED answer ELSE Leave(t, after[t])
    /\ UNCHANGED <<queue, health, owner, job, clock, state, results>>

\* Slip: no sentinel wakes the owner.
WakeNobody(t) == EndRetirement(t, 0)

\* The sentinel that wakes an idle owner, unless the queue has filled up again.
Wake(t) == EndRetirement(t, IF Cardinality(queue) + stops < Limit THEN 1 ELSE 0)

Close(t) ==
    /\ pc[t] = "new"
    /\ closed' = TRUE
    /\ Retire(t, "closed")
    /\ UNCHANGED <<jobs, owner, job, answer, clock, state, results>>

-----------------------------------------------------------------------------
(* _submit, in the caller's thread. *)

CheckHealth(r) ==
    /\ pc[r] = "new"
    /\ IF Broken THEN Leave(r, "unavailable") ELSE Goto(r, "healthy") /\ UNCHANGED answer
    /\ UNCHANGED <<jobs, health, owner, job, after, clock, state, results>>

CheckThread(r) ==
    /\ pc[r] = "healthy"
    /\ IF owner = "stopped"
         THEN Retire(r, "unavailable")
         ELSE Goto(r, "ready") /\ UNCHANGED <<broken, after>>
    /\ UNCHANGED <<jobs, closed, owner, job, answer, clock, state, results>>

\* put_nowait(), which refuses when the queue is at its limit.
Put(r) ==
    /\ pc[r] = "ready"
    /\ queue' = queue \cup {r}
    /\ Goto(r, "queued")
    /\ UNCHANGED <<stops, health, owner, job, after, answer, clock, state, results>>

Enqueue(r) == Cardinality(queue) + stops < Limit /\ Put(r)

QueueFull(r) ==
    /\ pc[r] = "ready"
    /\ Cardinality(queue) + stops >= Limit
    /\ Leave(r, "busy")
    /\ UNCHANGED <<jobs, health, owner, job, after, clock, state, results>>

\* Slip: the health is not looked at again.
TrustHealth(r) ==
    /\ pc[r] = "queued"
    /\ Goto(r, "waiting")
    /\ UNCHANGED <<jobs, health, owner, job, after, answer, clock, state, results>>

\* Retirement may have raced the first health check before this enqueue.
Recheck(r) ==
    /\ pc[r] = "queued"
    /\ IF Broken
         THEN Retire(r, "waits")
         ELSE Goto(r, "waiting") /\ UNCHANGED <<broken, after>>
    /\ UNCHANGED <<jobs, closed, owner, job, answer, clock, state, results>>

\* done.wait(limit) comes back without the event ...
WaitTimesOut(r) ==
    /\ pc[r] = "waiting"
    /\ r \notin done
    /\ clock[r] # "early"
    /\ Goto(r, "late")
    /\ UNCHANGED <<jobs, health, owner, job, after, answer, clock, state, results>>

\* ... and under the job's lock the caller sees whether the job has begun.
LeaveQueue(r, hopeless) ==
    /\ pc[r] = "late"
    /\ IF hopeless
         THEN cancelled' = cancelled \cup {r} /\ Leave(r, "busy")
         ELSE Goto(r, "running") /\ UNCHANGED <<cancelled, answer>>
    /\ UNCHANGED <<jobs, health, owner, job, after, clock, started, dispatched, results>>

Late(r) == LeaveQueue(r, r \notin started)

\* Slip: the run is waited for without a limit.
RunUnlimited(r) ==
    /\ pc[r] = "running"
    /\ r \in done
    /\ Goto(r, "overdue")
    /\ UNCHANGED <<jobs, health, owner, job, after, answer, clock, state, results>>

RunTimesOut(r) ==
    /\ pc[r] = "running"
    /\ r \notin done
    /\ clock[r] = "overrun"
    /\ Goto(r, "overdue")
    /\ UNCHANGED <<jobs, health, owner, job, after, answer, clock, state, results>>

GiveUp(r, told) ==
    /\ pc[r] = "overdue"
    /\ cancelled' = cancelled \cup {r}
    /\ Retire(r, told)
    /\ UNCHANGED <<jobs, closed, owner, job, answer, clock, started, dispatched, results>>

\* A write that was dispatched is handed to the caller as a pending operation.
Overdue(r) == GiveUp(r, IF r \in Writes \cap dispatched THEN "pending" ELSE "unavailable")

\* The event is set: a transport error retires the provider, the rest is passed on.
Collect(r) ==
    /\ pc[r] \in {"waiting", "running"}
    /\ r \in done
    /\ IF box[r] = "transport"
         THEN Retire(r, "unavailable") /\ UNCHANGED answer
         ELSE Leave(r, box[r]) /\ UNCHANGED <<broken, after>>
    /\ UNCHANGED <<jobs, closed, owner, job, clock, state, results>>

-----------------------------------------------------------------------------
(* _loop, in the owner thread. *)

Take ==
    /\ owner = "waiting"
    /\ \/ /\ stops > 0
          /\ stops' = stops - 1
          /\ owner' = "stopped"
          /\ UNCHANGED <<queue, job>>
       \/ /\ stops = 0
          /\ \E r \in Foremost : queue' = queue \ {r} /\ job' = r
          /\ owner' = "taken"
          /\ UNCHANGED stops
    /\ UNCHANGED <<health, callers, clock, state, results>>

\* The owner is done with its job.
Deliver(what) == owner' = "waiting" /\ job' = NoRequest /\ Settle(job, what)

LookAtHealth ==
    /\ owner = "taken"
    /\ IF Broken
         THEN \E error \in Refusals : Deliver(error)
         ELSE owner' = "entering" /\ UNCHANGED <<job, results>>
    /\ UNCHANGED <<jobs, health, callers, clock, state>>

\* execute(): a cancelled or late job is not begun.
EnterJob ==
    /\ owner = "entering"
    /\ \/ job \in cancelled /\ Deliver("nothing") /\ UNCHANGED <<started, cancelled>>
       \/ /\ job \notin cancelled /\ clock[job] # "early"
          /\ cancelled' = cancelled \cup {job}
          /\ Deliver("busy")
          /\ UNCHANGED started
       \/ /\ job \notin cancelled /\ clock[job] = "early"
          /\ started' = started \cup {job}
          /\ owner' = "begun"
          /\ UNCHANGED <<job, cancelled, results>>
    /\ UNCHANGED <<jobs, health, callers, clock, dispatched>>

\* The browser is connected, or is launched again, or cannot be.
Recover ==
    /\ owner = "begun"
    /\ \/ owner' = "connected" /\ UNCHANGED <<job, results>>
       \/ \E outcome \in {"reply", "transport"} : Deliver(outcome)
    /\ UNCHANGED <<jobs, health, callers, clock, state>>

SendUnless(stopped) ==
    /\ owner = "connected"
    /\ IF stopped
         THEN Deliver("unavailable") /\ UNCHANGED dispatched
         ELSE /\ dispatched' = dispatched \cup {job}
              /\ owner' = "sending"
              /\ UNCHANGED <<job, results>>
    /\ UNCHANGED <<jobs, health, callers, clock, started, cancelled>>

\* Slip: the recovery is not followed by another look at the job.
DispatchAnyway == SendUnless(FALSE)

Dispatch == SendUnless(job \in cancelled \/ Broken)

\* fn() comes back, with Jira's answer or without one.
Finish ==
    /\ owner = "sending"
    /\ \E outcome \in {"reply", "transport"} : Deliver(outcome)
    /\ UNCHANGED <<jobs, health, callers, clock, state>>

-----------------------------------------------------------------------------

\* The queue deadline of a request passes, or the budget of its run.
RunLate(r) ==
    /\ \/ pc[r] \in {"ready", "queued", "draining", "waking", "waiting"} /\ clock[r] = "early"
          /\ clock' = [clock EXCEPT ![r] = "late"]
       \/ pc[r] # "answered" /\ r \in started /\ clock[r] = "late"
          /\ clock' = [clock EXCEPT ![r] = "overrun"]
    /\ UNCHANGED <<jobs, health, owner, job, callers, state, results>>

Caller(r) ==
    \/ CheckHealth(r) \/ CheckThread(r) \/ Enqueue(r) \/ QueueFull(r) \/ Recheck(r)
    \/ WaitTimesOut(r) \/ Late(r) \/ RunTimesOut(r) \/ Overdue(r) \/ Collect(r)

Drain(t) == DrainOne(t) \/ DrainEnd(t) \/ Wake(t)

Owner == Take \/ LookAtHealth \/ EnterJob \/ Recover \/ Dispatch \/ Finish

Next ==
    \/ \E r \in Requests : Caller(r) \/ RunLate(r)
    \/ \E t \in Threads : Drain(t)
    \/ Owner
    \/ \E t \in Closers : Close(t)

Spec == Init /\ [][Next]_vars

(* Callers run and their time passes, whatever the owner thread does: it may *)
(* hang in Playwright for ever.                                              *)
FairSpec ==
    /\ Spec
    /\ \A r \in Requests : WF_vars(Caller(r)) /\ WF_vars(RunLate(r))
    /\ \A t \in Threads : WF_vars(Drain(t))

-----------------------------------------------------------------------------
(* Properties *)

Places == {"new", "healthy", "ready", "queued", "waiting", "late", "running", "overdue",
           "draining", "waking", "answered"}
OwnerPlaces == {"waiting", "taken", "entering", "begun", "connected", "sending", "stopped"}
Results == {"nothing", "reply", "transport", "busy", "unavailable"}
Answers == {"nothing", "reply", "busy", "unavailable", "pending", "closed"}

(* The state stays well formed and the queue within its limit, sentinels included. *)
TypeOK ==
    /\ queue \subseteq Requests
    /\ stops \in Nat
    /\ Cardinality(queue) + stops <= Limit
    /\ broken \in BOOLEAN
    /\ closed \in BOOLEAN
    /\ owner \in OwnerPlaces
    /\ job \in Requests \cup {NoRequest}
    /\ pc \in [Threads -> Places]
    /\ after \in [Threads -> {"waits", "unavailable", "pending", "closed"}]
    /\ clock \in [Requests -> {"early", "late", "overrun"}]
    /\ started \subseteq Requests
    /\ cancelled \subseteq Requests
    /\ dispatched \subseteq started
    /\ done \subseteq Requests
    /\ box \in [Requests -> Results]
    /\ answer \in [Threads -> Answers]

(* UpstreamBusy is proof that the refused request did not reach Jira and     *)
(* never will (base.py): the circuit stays closed on it, and a write whose   *)
(* preflight read ends in it gives up its receipt (MutationPreflightBusy).   *)
BusyIsUnsent == \A r \in Requests : answer[r] = "busy" => r \notin dispatched

(* While a write is still out in the browser after its caller was answered,  *)
(* the caller holds its pending operation and not a plain failure: otherwise *)
(* a retry could overlap it.                                                 *)
RunningWriteIsPending ==
    owner = "sending" /\ job \in Writes /\ pc[job] = "answered" => answer[job] = "pending"

(* Once the provider is retired and whoever raced the retirement has looked  *)
(* again, no job is left in the queue: none waits out its limit for nothing. *)
NoneStranded ==
    Broken /\ (\A t \in Threads : pc[t] \notin {"queued", "draining"}) => queue = {}

(* A retired owner that idles in its queue finds something there that wakes  *)
(* it, so that it can release its browser.                                   *)
OwnerIsWoken ==
    /\ Broken
    /\ owner = "waiting"
    /\ \A t \in Threads : pc[t] \notin {"queued", "draining", "waking"}
    => stops > 0

(* What the callers rely on: see UpstreamCall. *)
Told(r) ==
    IF pc[r] # "answered" THEN "nothing"
    ELSE IF answer[r] = "busy" \/ r \notin dispatched THEN "refused"
    ELSE IF answer[r] = "pending" \/ (answer[r] = "unavailable" /\ r \notin Writes) THEN "abandoned"
    ELSE "answered"

Contract == INSTANCE UpstreamCall WITH
    sent <- dispatched,
    finished <- {r \in dispatched : ~(owner = "sending" /\ job = r)},
    told <- [r \in Requests |-> Told(r)]

(* The provider implements the contract: a request is sent at most once and  *)
(* never after its caller was answered, and a caller is told the truth.      *)
ContractSpec == Contract!Spec

(* Every caller is answered in bounded time, even if the owner hangs. *)
CallersAreAnswered == \A r \in Requests : pc[r] # "new" ~> pc[r] = "answered"

=============================================================================
