---------------------------- MODULE ProviderStartup ----------------------------
(***************************************************************************)
(* The provider of a JiraClient (app/jira/jira_client.py, provider and     *)
(* reset_provider): it is built by the first thread that needs it, shared  *)
(* by all, replaced when it broke, and thrown away when a login finishes.  *)
(*                                                                         *)
(* Building it launches a browser, which takes up to twenty seconds, so    *)
(* the state lock is not held meanwhile.  One thread launches, the others  *)
(* wait for its future for a second; a login that finishes meanwhile makes *)
(* the attempt obsolete, and its browser is closed when it arrives.        *)
(*                                                                         *)
(* The same lock fences the writing of rolling cookies to disk             *)
(* (_persist_jira_session_state), which must not undo a newer login.       *)
(*                                                                         *)
(* A thread asks for the provider once.  The attempt it may start, and the *)
(* provider it may build, are named by the thread.  Sessions are numbered  *)
(* by the login that wrote them.                                           *)
(***************************************************************************)
EXTENDS Naturals

CONSTANTS
    Callers,      \* threads that ask for the provider
    Savers,       \* those of them that then persist its rolling cookies
    Logins,       \* threads that log in, each once
    Nobody        \* no provider, no attempt

Threads == Callers \cup Logins
OrNobody(set) == set \cup {Nobody}

ASSUME SaversAssumption == Savers \subseteq Callers
ASSUME ThreadsAssumption == Callers \cap Logins = {} /\ Nobody \notin Threads

VARIABLES
    provider,     \* _provider, and _provider_built when there is one
    generation,   \* _provider_generation
    startup,      \* _provider_startup: whose attempt is under way
    attempt,      \* the generation of each attempt
    future,       \* the future of each attempt
    cooling,      \* _provider_startup_failure and its time has not passed
    down,         \* upstream_down()
    made,         \* providers whose browser was launched
    broken,       \* those that retired themselves
    closed,       \* those that were closed
    context,      \* the session each provider was built from
    pc,           \* where each thread is
    held,         \* the provider that a thread has in hand
    joined,       \* the attempt that a caller waits for
    answer,       \* what a caller got
    disk,         \* the session in the store
    revision,     \* its revision
    seen,         \* generation and revision that a saver has read
    logins,       \* logins that were written to the store
    fresh,        \* the newest of them that also reset the provider
    floor,        \* the value of fresh when a caller began
    known,        \* the value of logins when a saver read its fences
    lost          \* cookies of an older session replaced a login

state == <<provider, generation, startup, cooling>>
attempts == <<attempt, future, joined>>
browsers == <<made, broken, closed, context>>
store == <<disk, revision, seen, logins>>
history == <<fresh, floor, known, lost>>
vars == <<state, attempts, browsers, store, history, down, pc, held, answer>>

Init ==
    /\ provider = Nobody
    /\ generation = 0
    /\ startup = Nobody
    /\ attempt = [c \in Callers |-> 0]
    /\ future = [c \in Callers |-> "none"]
    /\ cooling = FALSE
    /\ down = FALSE
    /\ made = {}
    /\ broken = {}
    /\ closed = {}
    /\ context = [c \in Callers |-> 0]
    /\ pc = [t \in Threads |-> "new"]
    /\ held = [t \in Threads |-> Nobody]
    /\ joined = [c \in Callers |-> Nobody]
    /\ answer = [c \in Callers |-> "nothing"]
    /\ disk = 0
    /\ revision = 0
    /\ seen = [c \in Callers |-> <<0, 0>>]
    /\ logins = 0
    /\ fresh = 0
    /\ floor = [c \in Callers |-> 0]
    /\ known = [c \in Callers |-> 0]
    /\ lost = FALSE

Healthy(p) == p # Nobody /\ p \notin broken \cup closed

Goto(t, place) == pc' = [pc EXCEPT ![t] = place]
Hold(t, p) == held' = [held EXCEPT ![t] = p]
Resolve(a, result) == future' = [future EXCEPT ![a] = result]

\* The call returns provider p, which stays in the caller's hand, or raises.
Return(c, p) ==
    /\ Hold(c, p)
    /\ answer' = [answer EXCEPT ![c] = "provider"]
    /\ Goto(c, "returned")
Raise(c, error) ==
    /\ answer' = [answer EXCEPT ![c] = error]
    /\ Goto(c, "done")

-----------------------------------------------------------------------------
(* provider, the fast path without the lock. *)

Capture(c) ==
    /\ pc[c] = "new"
    /\ Hold(c, provider)
    /\ floor' = [floor EXCEPT ![c] = fresh]
    /\ Goto(c, "captured")
    /\ UNCHANGED <<state, attempts, browsers, store, fresh, known, lost, down, answer>>

LookHealthy(c) ==
    /\ pc[c] = "captured"
    /\ Goto(c, IF Healthy(held[c]) THEN "healthy" ELSE "deciding")
    /\ UNCHANGED <<state, attempts, browsers, store, history, down, held, answer>>

\* The captured provider must still be the provider.
LookSame(c) ==
    /\ pc[c] = "healthy"
    /\ IF held[c] = provider
         THEN Return(c, held[c])
         ELSE Goto(c, "deciding") /\ UNCHANGED <<held, answer>>
    /\ UNCHANGED <<state, attempts, browsers, store, history, down>>

-----------------------------------------------------------------------------
(* provider, the first section under the lock. *)

\* A broken provider is taken out; without one the caller has nothing to close.
Detach(c) ==
    /\ Hold(c, provider)
    /\ provider' = Nobody
    /\ generation' = IF provider = Nobody THEN generation ELSE generation + 1

AfterDetach(c) == Goto(c, IF provider = Nobody THEN "ready" ELSE "closing")

TakeHealthy(c) ==
    /\ pc[c] = "deciding"
    /\ Healthy(provider)
    /\ Return(c, provider)
    /\ UNCHANGED <<state, attempts, browsers, store, history, down>>

RefuseWhileDown(c) ==
    /\ pc[c] = "deciding"
    /\ provider # Nobody /\ ~Healthy(provider)
    /\ down
    /\ Raise(c, "unavailable")
    /\ UNCHANGED <<state, attempts, browsers, store, history, down, held>>

MayStart(c) ==
    /\ pc[c] = "deciding"
    /\ ~Healthy(provider)
    /\ provider = Nobody \/ ~down

\* The last launch failed less than twenty seconds ago.
RefuseWhileCooling(c) ==
    /\ MayStart(c)
    /\ cooling
    /\ Detach(c)
    /\ Raise(c, "unavailable")
    /\ UNCHANGED <<startup, cooling, attempts, browsers, store, history, down>>

StartAttempt(c) ==
    /\ Detach(c)
    /\ startup' = c
    /\ attempt' = [attempt EXCEPT ![c] = generation']
    /\ Resolve(c, "pending")
    /\ joined' = [joined EXCEPT ![c] = c]
    /\ AfterDetach(c)
    /\ UNCHANGED <<cooling, browsers, store, history, down, answer>>

\* Slip: a caller starts an attempt of its own whether or not one is under way.
OwnAlways(c) == MayStart(c) /\ ~cooling /\ StartAttempt(c)

Own(c) == MayStart(c) /\ ~cooling /\ startup = Nobody /\ StartAttempt(c)

Join(c) ==
    /\ MayStart(c)
    /\ ~cooling
    /\ startup # Nobody
    /\ Detach(c)
    /\ joined' = [joined EXCEPT ![c] = startup]
    /\ AfterDetach(c)
    /\ UNCHANGED <<startup, cooling, attempt, future, browsers, store, history, down, answer>>

\* old.close(), outside the lock.
CloseOld(c) ==
    /\ pc[c] = "closing"
    /\ closed' = closed \cup {held[c]}
    /\ Goto(c, "ready")
    /\ UNCHANGED <<state, attempts, made, broken, context, store, history, down, held, answer>>

-----------------------------------------------------------------------------
(* provider, the launch by the owner of the attempt. *)

\* The constructor of the provider reads the store and starts the browser.
ReadSession(c) ==
    /\ pc[c] = "ready"
    /\ joined[c] = c
    /\ context' = [context EXCEPT ![c] = disk]
    /\ Goto(c, "launching")
    /\ UNCHANGED <<state, attempts, made, broken, closed, store, history, down, held, answer>>

\* Slip: whoever has launched a browser installs it.
CurrentAlways(c) == TRUE

Current(c) == startup = c /\ generation = attempt[c]

LaunchFails(c) ==
    /\ pc[c] = "launching"
    /\ IF Current(c)
         THEN startup' = Nobody /\ cooling' = TRUE /\ Resolve(c, "failed")
         ELSE /\ IF future[c] = "pending" THEN Resolve(c, "superseded") ELSE UNCHANGED future
              /\ UNCHANGED <<startup, cooling>>
    /\ Goto(c, "awaiting")
    /\ UNCHANGED <<provider, generation, attempt, joined, browsers, store, history, down, held, answer>>

Publish(c) ==
    /\ pc[c] = "launching"
    /\ Current(c)
    /\ made' = made \cup {c}
    /\ startup' = Nobody
    /\ provider' = c
    /\ generation' = generation + 1
    /\ cooling' = FALSE
    /\ Resolve(c, "ready")
    /\ Goto(c, "awaiting")
    /\ UNCHANGED <<attempt, joined, broken, closed, context, store, history, down, held, answer>>

\* An obsolete attempt has launched its browser all the same.
Obsolete(c, next) ==
    /\ pc[c] = "launching"
    /\ ~Current(c)
    /\ made' = made \cup {c}
    /\ IF future[c] = "pending" THEN Resolve(c, "superseded") ELSE UNCHANGED future
    /\ Goto(c, next)
    /\ UNCHANGED <<state, attempt, joined, broken, closed, context, store, history, down, held, answer>>

\* Slip: that browser is forgotten.
ForgetObsolete(c) == Obsolete(c, "awaiting")

Discard(c) == Obsolete(c, "discarding")

CloseDiscarded(c) ==
    /\ pc[c] = "discarding"
    /\ closed' = closed \cup {c}
    /\ Goto(c, "awaiting")
    /\ UNCHANGED <<state, attempts, made, broken, context, store, history, down, held, answer>>

Awaiting(c) == pc[c] = "awaiting" \/ (pc[c] = "ready" /\ joined[c] # c)

Await(c) ==
    /\ Awaiting(c)
    /\ \/ future[joined[c]] = "ready" /\ Return(c, joined[c])
       \/ future[joined[c]] = "failed" /\ Raise(c, "unavailable") /\ UNCHANGED held
       \/ future[joined[c]] = "superseded" /\ Raise(c, "busy") /\ UNCHANGED held
    /\ UNCHANGED <<state, attempts, browsers, store, history, down>>

AwaitTimesOut(c) ==
    /\ Awaiting(c)
    /\ future[joined[c]] = "pending"
    /\ Raise(c, "busy")
    /\ UNCHANGED <<state, attempts, browsers, store, history, down, held>>

-----------------------------------------------------------------------------
(* A login and reset_provider. *)

\* The login window saves its session in the store.
Login(l) ==
    /\ pc[l] = "new"
    /\ logins' = logins + 1
    /\ disk' = logins + 1
    /\ revision' = revision + 1
    /\ Goto(l, "saved")
    /\ UNCHANGED <<state, attempts, browsers, seen, history, down, held, answer>>

\* What the lock section does besides dropping the attempt under way.
DropProvider(l) ==
    /\ pc[l] = "saved"
    /\ Hold(l, provider)
    /\ provider' = Nobody
    /\ generation' = generation + 1
    /\ cooling' = FALSE
    /\ fresh' = logins
    /\ Goto(l, "resetting")
    /\ UNCHANGED <<attempt, joined, browsers, store, known, floor, lost, down, answer>>

\* Slip: the attempt is dropped and its future left alone.
ResetQuietly(l) == DropProvider(l) /\ startup' = Nobody /\ UNCHANGED future

Reset(l) ==
    /\ DropProvider(l)
    /\ startup' = Nobody
    /\ IF startup # Nobody /\ future[startup] = "pending"
         THEN Resolve(startup, "superseded")
         ELSE UNCHANGED future

CloseReset(l, providers) ==
    /\ pc[l] = "resetting"
    /\ closed' = closed \cup providers
    /\ down' = FALSE
    /\ Goto(l, "done")
    /\ UNCHANGED <<state, attempts, made, broken, context, store, history, held, answer>>

\* Outside the lock the old provider is closed; the new session counts as alive.
ResetClose(l) == CloseReset(l, {held[l]} \ {Nobody})

-----------------------------------------------------------------------------
(* _persist_jira_session_state: one saver at a time, others skip it. *)

Saving == {"fenced", "captured_cookies"}

ReadFences(c) ==
    /\ pc[c] = "returned" /\ c \in Savers
    /\ \A d \in Savers : pc[d] \notin Saving
    /\ seen' = [seen EXCEPT ![c] = <<generation, revision>>]
    /\ known' = [known EXCEPT ![c] = logins]
    /\ Goto(c, "fenced")
    /\ UNCHANGED <<state, attempts, browsers, disk, revision, logins, fresh, floor, lost, down, held, answer>>

\* The snapshot is taken by the owner thread of the provider, if that still works.
CaptureCookies(c) ==
    /\ pc[c] = "fenced"
    /\ Goto(c, IF Healthy(held[c]) THEN "captured_cookies" ELSE "done")
    /\ UNCHANGED <<state, attempts, browsers, store, history, down, held, answer>>

SaveIf(c, allowed) ==
    /\ pc[c] = "captured_cookies"
    /\ IF allowed
         THEN /\ disk' = context[held[c]]
              /\ revision' = revision + 1
              /\ lost' = (lost \/ disk' < disk)
         ELSE UNCHANGED <<disk, revision, lost>>
    /\ Goto(c, "done")
    /\ UNCHANGED <<state, attempts, browsers, seen, logins, fresh, floor, known, down, held, answer>>

StillProvider(c) == held[c] = provider /\ generation = seen[c][1] /\ Healthy(held[c])

\* Slip: the revision of the file is not compared.
SaveOverAnything(c) == SaveIf(c, StillProvider(c))

Save(c) == SaveIf(c, StillProvider(c) /\ revision = seen[c][2])

-----------------------------------------------------------------------------
(* Surroundings *)

\* A provider retires itself; who saw it opens the circuit breaker.
Break(p) ==
    /\ p \in made \ (broken \cup closed)
    /\ broken' = broken \cup {p}
    /\ down' = TRUE
    /\ UNCHANGED <<state, attempts, made, closed, context, store, history, pc, held, answer>>

\* Twenty seconds pass.
BreakerCloses ==
    /\ down
    /\ down' = FALSE
    /\ UNCHANGED <<state, attempts, browsers, store, history, pc, held, answer>>
CooldownEnds ==
    /\ cooling
    /\ cooling' = FALSE
    /\ UNCHANGED <<provider, generation, startup, attempts, browsers, store, history, down, pc, held, answer>>

Fast(c) == Capture(c) \/ LookHealthy(c) \/ LookSame(c)
Decide(c) == TakeHealthy(c) \/ RefuseWhileDown(c) \/ RefuseWhileCooling(c) \/ Own(c) \/ Join(c)
Launch(c) ==
    CloseOld(c) \/ ReadSession(c) \/ LaunchFails(c) \/ Publish(c) \/ Discard(c) \/ CloseDiscarded(c)
Wait(c) == Await(c) \/ AwaitTimesOut(c)
Persist(c) == ReadFences(c) \/ CaptureCookies(c) \/ Save(c)
LogIn(l) == Login(l) \/ Reset(l) \/ ResetClose(l)

Next ==
    \/ \E c \in Callers : Fast(c) \/ Decide(c) \/ Launch(c) \/ Wait(c) \/ Persist(c)
    \/ \E l \in Logins : LogIn(l)
    \/ \E p \in Callers : Break(p)
    \/ BreakerCloses
    \/ CooldownEnds

Spec == Init /\ [][Next]_vars

-----------------------------------------------------------------------------
(* Properties *)

Places == {"new", "captured", "healthy", "deciding", "closing", "ready", "launching", "discarding",
           "awaiting", "returned", "done", "saved", "resetting"} \cup Saving

(* The state stays well formed. *)
TypeOK ==
    /\ provider \in OrNobody(Callers)
    /\ generation \in Nat
    /\ startup \in OrNobody(Callers)
    /\ attempt \in [Callers -> Nat]
    /\ future \in [Callers -> {"none", "pending", "ready", "failed", "superseded"}]
    /\ cooling \in BOOLEAN
    /\ down \in BOOLEAN
    /\ made \subseteq Callers
    /\ broken \subseteq made
    /\ closed \subseteq made
    /\ context \in [Callers -> Nat]
    /\ pc \in [Threads -> Places]
    /\ held \in [Threads -> OrNobody(Callers)]
    /\ joined \in [Callers -> OrNobody(Callers)]
    /\ answer \in [Callers -> {"nothing", "provider", "unavailable", "busy"}]
    /\ disk \in Nat
    /\ revision \in Nat
    /\ seen \in [Callers -> Nat \X Nat]
    /\ logins \in Nat
    /\ fresh \in Nat
    /\ floor \in [Callers -> Nat]
    /\ known \in [Callers -> Nat]
    /\ lost \in BOOLEAN

(* No browser is abandoned: each one launched is the provider, or is closed, *)
(* or is in the hand of the thread that is about to close it.                *)
NoneAbandoned ==
    \A p \in made :
        \/ p = provider
        \/ p \in closed
        \/ pc[p] = "discarding"
        \/ \E t \in Threads : pc[t] \in {"closing", "resetting"} /\ held[t] = p

(* Two browsers are never launched for one session: of two launches at a     *)
(* time a login has made at least one obsolete.                              *)
SingleLaunch ==
    \A c, d \in Callers :
        pc[c] = "launching" /\ pc[d] = "launching" /\ c # d =>
            future[c] = "superseded" \/ future[d] = "superseded"

(* Nobody waits for an attempt that was dropped: a future that is pending    *)
(* belongs to the attempt under way.                                         *)
PendingIsUnderWay == \A c \in Callers : future[c] = "pending" => startup = c

(* Whoever asks after a login has finished gets a provider of that login's   *)
(* session or a newer one, never one whose launch began before, unless       *)
(* rolling cookies have replaced a login in the store.                       *)
NewLoginIsUsed ==
    ~lost => \A c \in Callers : pc[c] = "returned" => context[held[c]] >= floor[c]

(* Rolling cookies of an older session replace a newer login at most while   *)
(* that login is between saving its session and resetting the provider, and  *)
(* only if their saver began after the login was saved.                      *)
LoginIsKeptOutsideReset ==
    [][disk' < disk =>
          /\ \E l \in Logins : pc[l] = "saved"
          /\ \A c \in Savers : pc'[c] # pc[c] => known[c] = logins]_vars

(* Rolling cookies of an older session never replace a newer login: the two  *)
(* fences that _persist_jira_session_state is documented to have.            *)
LoginIsKept == [][disk' >= disk]_vars

=============================================================================
