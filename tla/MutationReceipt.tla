---- MODULE MutationReceipt ----
(***************************************************************************)
(* MutationReceiptStore.execute (app/jira/mutation_recovery.py): one Jira  *)
(* write per client mutation id, although the HTTP response, the waiting   *)
(* handler or the whole process may be lost at any point.                  *)
(*                                                                         *)
(* A handler (one FastAPI worker thread) takes the lock of its mutation    *)
(* id, decides from the durable receipt and from the in-memory handle of   *)
(* a timed-out worker what may be done, and writes, reconciles or replays. *)
(* The receipt table survives a crash; locks, handles and handlers do not. *)
(* Jira is the environment: a request it was sent becomes an object or is  *)
(* dropped, whether or not anybody still waits for the answer.             *)
(*                                                                         *)
(* Time is counted in ticks up to Grace, which is as far as the code       *)
(* compares it; a bound beyond Grace bounds nothing.                       *)
(***************************************************************************)
EXTENDS Naturals

CONSTANTS
    Keys,           \* receipt keys: kind and client mutation id
    Clients,        \* request handlers that may run at the same time
    Bodies,         \* logical payloads with their recovery context, up to
                    \* the fingerprint
    RequestIds,     \* names of the write requests that reach Jira
    NoClient,       \* nobody holds the lock
    NoRequest,      \* no write request
    NoBody,         \* no payload: the receipt row does not exist
    Grace,          \* ABSENT_RETRY_GRACE_SECONDS, in ticks
    MaxAttempt,     \* longest time from attemptedAt to the end of its write
    Settle,         \* longest time a lost request stays undecided in Jira
    ReadTime,       \* longest time from Jira's read to the decision on it
    DiskFaults      \* TRUE if storing a receipt may fail

ASSUME ReceiptAssumption ==
    /\ NoClient \notin Clients
    /\ NoBody \notin Bodies
    /\ NoRequest \notin [id : RequestIds, body : Bodies]
    /\ {Grace, MaxAttempt, Settle, ReadTime} \subseteq Nat
    /\ DiskFaults \in BOOLEAN

Request == [id : RequestIds, body : Bodies]
ReceiptState == {"none", "pending", "committed", "success"}
WorkerState == {"none", "running", "returned", "broken"}
Phase == {"idle", "reconciling", "deciding", "writing", "cleaning"}
Verdict == {"found", "absent", "unknown"}
Reply == {"none", "ok", "unknown", "login", "conflict", "failed"}

VARIABLES
    receipt,    \* durable row of the receipt table: state and fingerprint
    age,        \* ticks since receipt.attemptedAt, counted up to Grace
    quiet,      \* history: ticks since a request that was sent lost the last thread
                \* that waited for its answer, up to Grace, which also says that none did
    lock,       \* per-key lock of this process
    worker,     \* in-memory handle of a timed-out write (the _inflight map)
    pc, asked,  \* phase of each handler; the key and payload it serves
    call,       \* the write request the handler waits for
    seen,       \* what its reconciling read showed
    waited,     \* ticks since that read
    reply,      \* what the browser was last told
    sent,       \* requests in Jira's hands, not yet decided
    objects     \* Jira objects, each named by the request that made it

store == <<receipt, age>>
handler == <<pc, asked, call, seen, waited, reply>>
jira == <<sent, objects>>
vars == <<receipt, age, quiet, lock, worker, pc, asked, call, seen, waited,
          reply, sent, objects>>

NoReceipt == [state |-> "none", body |-> NoBody]
NoWorker == [state |-> "none", req |-> NoRequest]

TypeOK ==
    /\ receipt \in [Keys -> [state : ReceiptState, body : Bodies \cup {NoBody}]]
    /\ age \in [Keys -> 0..Grace]
    /\ quiet \in [Keys -> 0..Grace]
    /\ lock \in [Keys -> Clients \cup {NoClient}]
    /\ worker \in [Keys -> [state : WorkerState, req : Request \cup {NoRequest}]]
    /\ pc \in [Clients -> Phase]
    /\ asked \in [Clients -> [key : Keys, body : Bodies]]
    /\ call \in [Clients -> Request \cup {NoRequest}]
    /\ seen \in [Clients -> Verdict]
    /\ waited \in [Clients -> 0..ReadTime]
    /\ reply \in [Clients -> Reply]
    /\ sent \in [Keys -> SUBSET Request]
    /\ objects \in [Keys -> SUBSET Request]

Init ==
    /\ receipt = [k \in Keys |-> NoReceipt]
    /\ age = [k \in Keys |-> 0]
    /\ quiet = [k \in Keys |-> Grace]
    /\ lock = [k \in Keys |-> NoClient]
    /\ worker = [k \in Keys |-> NoWorker]
    /\ pc = [c \in Clients |-> "idle"]
    /\ asked \in [Clients -> [key : Keys, body : Bodies]]
    /\ call = [c \in Clients |-> NoRequest]
    /\ seen = [c \in Clients |-> "unknown"]
    /\ waited = [c \in Clients |-> 0]
    /\ reply = [c \in Clients |-> "none"]
    /\ sent = [k \in Keys |-> {}]
    /\ objects = [k \in Keys |-> {}]

----------------------------------------------------------------------------
(* Helpers.                                                                *)

KeyOf(c) == asked[c].key

\* Some thread still waits for the answer to a write on k.
Writing(k) == \E c \in Clients : pc[c] = "writing" /\ KeyOf(c) = k
Attended(k) == Writing(k) \/ worker[k].state = "running"

\* A request of k was sent, and some thread waits for the answer.
Awaiting(k) ==
    \/ \E c \in Clients : pc[c] = "writing" /\ KeyOf(c) = k /\ call[c] # NoRequest
    \/ worker[k].state = "running"

\* A stored fingerprint, if there is one, is that of the submitted payload.
SamePayload(k, b) ==
    /\ worker[k].state # "none" => worker[k].req.body = b
    /\ receipt[k].state # "none" => receipt[k].body = b

SetReceipt(k, state, b) ==
    receipt' = [receipt EXCEPT ![k] = [state |-> state, body |-> b]]

DeleteReceipt(k) == receipt' = [receipt EXCEPT ![k] = NoReceipt]

SetWorker(k, state, r) ==
    worker' = [worker EXCEPT ![k] = [state |-> state, req |-> r]]

\* Handler c takes the free lock for its request and enters phase p.
Enter(c, k, b, p) ==
    /\ pc[c] = "idle"
    /\ lock[k] = NoClient
    /\ lock' = [lock EXCEPT ![k] = c]
    /\ pc' = [pc EXCEPT ![c] = p]
    /\ asked' = [asked EXCEPT ![c] = [key |-> k, body |-> b]]
    /\ reply' = [reply EXCEPT ![c] = "none"]
    /\ UNCHANGED <<call, seen, waited>>

\* Handler c finds everything it needs under the lock and answers r at once.
AnswerAtOnce(c, k, b, r) ==
    /\ pc[c] = "idle"
    /\ lock[k] = NoClient
    /\ asked' = [asked EXCEPT ![c] = [key |-> k, body |-> b]]
    /\ reply' = [reply EXCEPT ![c] = r]
    /\ UNCHANGED <<lock, pc, call, seen, waited>>

Goto(c, p) ==
    /\ pc' = [pc EXCEPT ![c] = p]
    /\ call' = [call EXCEPT ![c] = NoRequest]
    /\ seen' = [seen EXCEPT ![c] = "unknown"]
    /\ waited' = [waited EXCEPT ![c] = 0]
    /\ UNCHANGED <<asked, reply, lock>>

\* Handler c leaves execute() with answer r and releases the lock.
Leave(c, r) ==
    /\ pc' = [pc EXCEPT ![c] = "idle"]
    /\ lock' = [lock EXCEPT ![KeyOf(c)] = NoClient]
    /\ reply' = [reply EXCEPT ![c] = r]
    /\ call' = [call EXCEPT ![c] = NoRequest]
    /\ seen' = [seen EXCEPT ![c] = "unknown"]
    /\ waited' = [waited EXCEPT ![c] = 0]
    /\ UNCHANGED asked

----------------------------------------------------------------------------
(* Entry: the decisions execute() takes under the lock before any I/O.     *)

\* The id was used for a different payload: ValueError, nothing changes.
RefuseReuse(c, k, b) ==
    /\ ~SamePayload(k, b)
    /\ AnswerAtOnce(c, k, b, "conflict")
    /\ UNCHANGED <<store, quiet, worker, jira>>

ReplaySuccess(c, k, b) ==
    /\ SamePayload(k, b)
    /\ receipt[k].state = "success"
    /\ AnswerAtOnce(c, k, b, "ok")
    /\ UNCHANGED <<store, quiet, worker, jira>>

\* Jira's answer is on record: only the local cleanup is repeated.
ResumeCleanup(c, k, b) ==
    /\ SamePayload(k, b)
    /\ receipt[k].state = "committed"
    /\ Enter(c, k, b, "cleaning")
    /\ UNCHANGED <<store, quiet, worker, jira>>

\* The worker of a timed-out write may still commit: nothing is attempted.
AwaitWorker(c, k, b) ==
    /\ SamePayload(k, b)
    /\ worker[k].state = "running"
    /\ AnswerAtOnce(c, k, b, "unknown")
    /\ UNCHANGED <<store, quiet, worker, jira>>

\* The worker finished with a result: record it, then drop the handle.
RecoverResult(c, k, b) ==
    /\ SamePayload(k, b)
    /\ worker[k].state = "returned"
    /\ Enter(c, k, b, "cleaning")
    /\ SetReceipt(k, "committed", b)
    /\ worker' = [worker EXCEPT ![k] = NoWorker]
    /\ UNCHANGED <<age, quiet, jira>>

\* The receipt table refuses the row of RecoverResult or of BeginWrite.  The
\* handle stays for the next retry; the error itself leaves execute().
EntryStoreFails(c, k, b) ==
    /\ DiskFaults
    /\ SamePayload(k, b)
    /\ \/ worker[k].state = "returned"
       \/ worker[k].state = "none" /\ receipt[k].state = "none"
    /\ AnswerAtOnce(c, k, b, "failed")
    /\ UNCHANGED <<store, quiet, worker, jira>>

\* Mutant: the exception of the old worker is passed on, its handle kept.
RaiseFailure(c, k, b) ==
    /\ SamePayload(k, b)
    /\ worker[k].state = "broken"
    /\ AnswerAtOnce(c, k, b, "unknown")
    /\ UNCHANGED <<store, quiet, worker, jira>>

\* The worker finished with an exception, which proves nothing about Jira:
\* drop the handle and ask Jira.
RecoverFailure(c, k, b) ==
    /\ SamePayload(k, b)
    /\ worker[k].state = "broken"
    /\ Enter(c, k, b, "reconciling")
    /\ worker' = [worker EXCEPT ![k] = NoWorker]
    /\ UNCHANGED <<store, quiet, jira>>

BeginReconcile(c, k, b) ==
    /\ SamePayload(k, b)
    /\ worker[k].state = "none"
    /\ receipt[k].state = "pending"
    /\ Enter(c, k, b, "reconciling")
    /\ UNCHANGED <<store, quiet, worker, jira>>

\* Mutant: a retry of a pending mutation is written like a first use.
BeginWriteAgain(c, k, b) ==
    /\ SamePayload(k, b)
    /\ receipt[k].state \in {"none", "pending"}
    /\ Enter(c, k, b, "writing")
    /\ SetReceipt(k, "pending", b)
    /\ age' = [age EXCEPT ![k] = 0]
    /\ UNCHANGED <<quiet, worker, jira>>

\* First use of the id: the pending receipt is stored before the write.
BeginWrite(c, k, b) ==
    /\ SamePayload(k, b)
    /\ worker[k].state = "none"
    /\ receipt[k].state = "none"
    /\ Enter(c, k, b, "writing")
    /\ SetReceipt(k, "pending", b)
    /\ age' = [age EXCEPT ![k] = 0]
    /\ UNCHANGED <<quiet, worker, jira>>

----------------------------------------------------------------------------
(* Reconciliation of a pending receipt.                                    *)

\* The objects that the reconciler of handler c takes for its own: it compares
\* what was submitted.
Matching(c) == {o \in objects[KeyOf(c)] : o.body = asked[c].body}

\* Jira answers the reconciling read.  It may always be inconclusive; found
\* needs exactly one matching object and absent a complete page without one.
ReadJira(c) ==
    /\ pc[c] = "reconciling"
    /\ pc' = [pc EXCEPT ![c] = "deciding"]
    /\ \E v \in Verdict :
        /\ v = "found" => \E o \in Matching(c) : Matching(c) = {o}
        /\ v = "absent" => Matching(c) = {}
        /\ seen' = [seen EXCEPT ![c] = v]
    /\ waited' = [waited EXCEPT ![c] = 0]
    /\ UNCHANGED <<store, quiet, lock, worker, asked, call, reply, jira>>

\* Mutant: an unreadable Jira counts as a definite failure.
ReconcileGivesUp(c) ==
    /\ pc[c] = "reconciling"
    /\ Leave(c, "failed")
    /\ UNCHANGED <<store, quiet, worker, jira>>

\* The read itself fails; an authentication refusal is passed on as it is.
ReconcileFails(c) ==
    /\ pc[c] = "reconciling"
    /\ \E r \in {"unknown", "login"} : Leave(c, r)
    /\ UNCHANGED <<store, quiet, worker, jira>>

\* Mutant: any conclusive read closes the mutation.
ConfirmConclusive(c) ==
    /\ pc[c] = "deciding"
    /\ seen[c] # "unknown"
    /\ SetReceipt(KeyOf(c), "committed", asked[c].body)
    /\ Goto(c, "cleaning")
    /\ UNCHANGED <<age, quiet, worker, jira>>

ConfirmFound(c) ==
    /\ pc[c] = "deciding"
    /\ seen[c] = "found"
    /\ SetReceipt(KeyOf(c), "committed", asked[c].body)
    /\ Goto(c, "cleaning")
    /\ UNCHANGED <<age, quiet, worker, jira>>

\* Mutant: an empty read is believed at once.
AbsentAtOnce(c) == seen[c] = "absent"

\* The evidence for absence allows a new write.
ProvenAbsent(c) == seen[c] = "absent" /\ age[KeyOf(c)] >= Grace

\* Mutant: absence within the grace period is forgotten.
StayUnknown(c) ==
    /\ pc[c] = "deciding"
    /\ seen[c] = "unknown"
    /\ Leave(c, "unknown")
    /\ UNCHANGED <<store, quiet, worker, jira>>

StayUncertain(c) ==
    /\ pc[c] = "deciding"
    /\ seen[c] # "found"
    /\ ~ProvenAbsent(c)
    /\ Leave(c, "unknown")
    /\ UNCHANGED <<store, quiet, worker, jira>>

\* before_retry refuses: other Jira connection, login, or no answer.
RetryRefused(c) ==
    /\ pc[c] = "deciding"
    /\ ProvenAbsent(c)
    /\ \E r \in {"unknown", "login", "failed"} : Leave(c, r)
    /\ UNCHANGED <<store, quiet, worker, jira>>

Rewrite(c) ==
    /\ pc[c] = "deciding"
    /\ ProvenAbsent(c)
    /\ SetReceipt(KeyOf(c), "pending", asked[c].body)
    /\ age' = [age EXCEPT ![KeyOf(c)] = 0]
    /\ Goto(c, "writing")
    /\ UNCHANGED <<quiet, worker, jira>>

----------------------------------------------------------------------------
(* The write callback and its outcomes.                                    *)

\* The provider sends the request.
Dispatch(c) ==
    /\ pc[c] = "writing"
    /\ call[c] = NoRequest
    /\ \E i \in RequestIds :
        LET r == [id |-> i, body |-> asked[c].body] IN
        /\ \A k \in Keys, b \in Bodies :
               [id |-> i, body |-> b] \notin sent[k] \cup objects[k]
        /\ call' = [call EXCEPT ![c] = r]
        /\ sent' = [sent EXCEPT ![KeyOf(c)] = @ \cup {r}]
    /\ UNCHANGED <<store, quiet, lock, worker, pc, asked, seen, waited, reply,
                   objects>>

\* A preflight read, the login check or validation ended the write before
\* the request was sent: the receipt is deleted.
RefusedBeforeSend(c) ==
    /\ pc[c] = "writing"
    /\ call[c] = NoRequest
    /\ DeleteReceipt(KeyOf(c))
    /\ \E r \in {"failed", "login"} : Leave(c, r)
    /\ UNCHANGED <<age, quiet, worker, jira>>

\* The provider's queue was full or too slow (UpstreamBusy): not sent, but a
\* multi-step write may have sent an earlier step, so the receipt stays.
BusyBeforeSend(c) ==
    /\ pc[c] = "writing"
    /\ call[c] = NoRequest
    /\ Leave(c, "unknown")
    /\ UNCHANGED <<store, quiet, worker, jira>>

\* Jira's success response: recorded before the local cleanup runs.
Answered(c) ==
    /\ pc[c] = "writing"
    /\ call[c] \in objects[KeyOf(c)]
    /\ SetReceipt(KeyOf(c), "committed", asked[c].body)
    /\ Goto(c, "cleaning")
    /\ UNCHANGED <<age, quiet, worker, jira>>

\* Jira refused the request (authentication, 4xx): the receipt is deleted.
Rejected(c) ==
    /\ pc[c] = "writing"
    /\ call[c] # NoRequest
    /\ call[c] \notin sent[KeyOf(c)] \cup objects[KeyOf(c)]
    /\ DeleteReceipt(KeyOf(c))
    /\ \E r \in {"failed", "login"} : Leave(c, r)
    /\ UNCHANGED <<age, quiet, worker, jira>>

\* 5xx, transport error or socket timeout: Jira may or may not have it.
LoseResponse(c) ==
    /\ pc[c] = "writing"
    /\ call[c] # NoRequest
    /\ Leave(c, "unknown")
    /\ quiet' = [quiet EXCEPT ![KeyOf(c)] = 0]
    /\ UNCHANGED <<store, worker, jira>>

\* The handler stops waiting while the provider's owner thread is still in
\* the call: its handle is remembered.
LeaveToWorker(c) ==
    /\ pc[c] = "writing"
    /\ call[c] # NoRequest
    /\ SetWorker(KeyOf(c), "running", call[c])
    /\ Leave(c, "unknown")
    /\ UNCHANGED <<store, quiet, jira>>

\* after_success ran: the receipt becomes final.
FinishCleanup(c) ==
    /\ pc[c] = "cleaning"
    /\ SetReceipt(KeyOf(c), "success", asked[c].body)
    /\ Leave(c, "ok")
    /\ UNCHANGED <<age, quiet, worker, jira>>

CleanupFails(c) ==
    /\ pc[c] = "cleaning"
    /\ Leave(c, "unknown")
    /\ UNCHANGED <<store, quiet, worker, jira>>

\* The receipt table refuses a row the handler was about to store or delete:
\* the error leaves execute() as it is.
StoreFails(c) ==
    /\ DiskFaults
    /\ \/ pc[c] = "deciding" /\ (seen[c] = "found" \/ ProvenAbsent(c))
       \/ pc[c] = "writing" /\ call[c] \notin sent[KeyOf(c)]
       \/ pc[c] = "cleaning"
    /\ Leave(c, "failed")
    /\ UNCHANGED <<store, quiet, worker, jira>>

----------------------------------------------------------------------------
(* The owner thread of a timed-out write, Jira, the clock and the process. *)

WorkerReturns(k) ==
    /\ worker[k].state = "running"
    /\ worker[k].req \in objects[k]
    /\ SetWorker(k, "returned", worker[k].req)
    /\ UNCHANGED <<store, quiet, lock, handler, jira>>

WorkerBreaks(k) ==
    /\ worker[k].state = "running"
    /\ SetWorker(k, "broken", worker[k].req)
    /\ quiet' = [quiet EXCEPT ![k] = 0]
    /\ UNCHANGED <<store, lock, handler, jira>>

JiraCreates(k) ==
    /\ \E r \in sent[k] :
        /\ sent' = [sent EXCEPT ![k] = @ \ {r}]
        /\ objects' = [objects EXCEPT ![k] = @ \cup {r}]
    /\ UNCHANGED <<store, quiet, lock, worker, handler>>

JiraDrops(k) ==
    /\ \E r \in sent[k] : sent' = [sent EXCEPT ![k] = @ \ {r}]
    /\ UNCHANGED <<store, quiet, lock, worker, handler, objects>>

\* Time passes, within what is assumed of the attempts, of Jira and of reads.
Tick ==
    /\ \A k \in Keys :
        /\ Attended(k) => age[k] < MaxAttempt
        /\ sent[k] # {} /\ ~Attended(k) => quiet[k] < Settle
    /\ \A c \in Clients : pc[c] = "deciding" => waited[c] < ReadTime
    /\ age' = [k \in Keys |-> IF age[k] < Grace THEN age[k] + 1 ELSE age[k]]
    /\ quiet' = [k \in Keys |-> IF quiet[k] < Grace THEN quiet[k] + 1 ELSE quiet[k]]
    /\ waited' = [c \in Clients |->
                    IF pc[c] = "deciding" THEN waited[c] + 1 ELSE waited[c]]
    /\ UNCHANGED <<receipt, lock, worker, pc, asked, call, seen, reply, jira>>

\* The process dies and is started again: only the receipts remain.
Crash ==
    /\ lock' = [k \in Keys |-> NoClient]
    /\ worker' = [k \in Keys |-> NoWorker]
    /\ quiet' = [k \in Keys |-> IF Awaiting(k) THEN 0 ELSE quiet[k]]
    /\ pc' = [c \in Clients |-> "idle"]
    /\ call' = [c \in Clients |-> NoRequest]
    /\ seen' = [c \in Clients |-> "unknown"]
    /\ waited' = [c \in Clients |-> 0]
    /\ reply' = [c \in Clients |-> IF pc[c] = "idle" THEN reply[c] ELSE "unknown"]
    /\ UNCHANGED <<store, asked, jira>>

----------------------------------------------------------------------------

Submit(c, k, b) ==
    \/ RefuseReuse(c, k, b)
    \/ ReplaySuccess(c, k, b)
    \/ ResumeCleanup(c, k, b)
    \/ AwaitWorker(c, k, b)
    \/ RecoverResult(c, k, b)
    \/ EntryStoreFails(c, k, b)
    \/ RecoverFailure(c, k, b)
    \/ BeginReconcile(c, k, b)
    \/ BeginWrite(c, k, b)

Handle(c) ==
    \/ ReadJira(c)
    \/ ReconcileFails(c)
    \/ ConfirmFound(c)
    \/ StayUncertain(c)
    \/ RetryRefused(c)
    \/ Rewrite(c)
    \/ Dispatch(c)
    \/ RefusedBeforeSend(c)
    \/ BusyBeforeSend(c)
    \/ Answered(c)
    \/ Rejected(c)
    \/ LoseResponse(c)
    \/ LeaveToWorker(c)
    \/ FinishCleanup(c)
    \/ CleanupFails(c)
    \/ StoreFails(c)

Environment(k) ==
    \/ WorkerReturns(k)
    \/ WorkerBreaks(k)
    \/ JiraCreates(k)
    \/ JiraDrops(k)

Next ==
    \/ \E c \in Clients, k \in Keys, b \in Bodies : Submit(c, k, b)
    \/ \E c \in Clients : Handle(c)
    \/ \E k \in Keys : Environment(k)
    \/ Tick
    \/ Crash

Spec == Init /\ [][Next]_vars

\* What the environment is trusted with, for liveness only: handlers and the
\* provider thread keep running, the user retries the unresolved payload, and
\* a step that can succeed again and again does succeed in the end.
Fairness ==
    /\ \A c \in Clients :
        /\ WF_vars(Handle(c))
        /\ SF_vars(ReadJira(c) /\ seen'[c] # "unknown")
        /\ SF_vars(ConfirmFound(c))
        /\ SF_vars(Rewrite(c))
        /\ SF_vars(Dispatch(c))
        /\ SF_vars(FinishCleanup(c))
    /\ \A k \in Keys :
        /\ WF_vars(WorkerReturns(k) \/ WorkerBreaks(k))
        /\ SF_vars(JiraCreates(k))
        /\ SF_vars(\E c \in Clients, b \in Bodies :
                        /\ receipt[k].state \in {"pending", "committed"}
                        /\ SamePayload(k, b) /\ Submit(c, k, b))
    /\ SF_vars((\E k \in Keys : receipt[k].state # "none") /\ Tick)

----------------------------------------------------------------------------
(* Properties.                                                             *)

\* What a reconciler promises with ABSENT, and execute() with the grace period it
\* waits: when absence counts as proven, nothing of the mutation is at Jira or on
\* its way there.  The properties below that rest on it say so.
AbsenceIsTrue ==
    \A c \in Clients :
        pc[c] = "deciding" /\ ProvenAbsent(c) => sent[KeyOf(c)] = {} /\ objects[KeyOf(c)] = {}

\* A grace period that is long enough for that covers the slowest attempt, the
\* slowest settling of a lost request and the delay between Jira's read and the
\* decision on it.  That of the code is not: RewriteWaitsAfterLoss.
GraceSuffices == MaxAttempt + Settle + ReadTime < Grace

\* One mutation id makes at most one Jira object, whatever is retried, lost,
\* late or restarted (rests on AbsenceIsTrue).
AtMostOneObject ==
    \A k \in Keys : \A o1, o2 \in objects[k] : o1 = o2

\* An object of the mutation was made from payload b.
Backed(k, b) == \E o \in objects[k] : o.body = b

\* A receipt that records a result (committed, success) is backed by an object
\* made from the very payload it is bound to.
ClosedHasObject ==
    \A k \in Keys : receipt[k].state \in {"committed", "success"} =>
        Backed(k, receipt[k].body)

\* Once a result is recorded no request of the mutation is still on its way to
\* Jira, where it would make a second object (rests on AbsenceIsTrue).
ClosedIsFinal ==
    \A k \in Keys : receipt[k].state \in {"committed", "success"} => sent[k] = {}

\* Where execute() keeps no receipt the id is free to be written again: no
\* request of it is in Jira's hands and none became an object (rests on
\* AbsenceIsTrue).
NoReceiptNoRequest ==
    \A k \in Keys : receipt[k].state = "none" => sent[k] = {} /\ objects[k] = {}

\* A handler writes only when no other handler writes the same id and no
\* timed-out worker of that id can still commit.
NoOverlappingWrite ==
    \A c \in Clients : pc[c] = "writing" =>
        /\ worker[KeyOf(c)].state # "running"
        /\ \A d \in Clients \ {c} : pc[d] = "writing" => KeyOf(d) # KeyOf(c)

\* A browser that was told ok finds the object made from what it submitted,
\* also when the answer is a replay of another request with the same id.
OkMeansCreated ==
    \A c \in Clients : reply[c] = "ok" => Backed(KeyOf(c), asked[c].body)

\* A definite failure makes the browser drop the id and submit anew: then
\* nothing of the mutation exists and nothing may still appear (rests on
\* AbsenceIsTrue and on a receipt table that works).
FailedMeansNothing ==
    [][\A c \in Clients :
        pc[c] # "idle" /\ pc'[c] = "idle" /\ reply'[c] = "failed"
            => sent'[KeyOf(c)] = {} /\ objects'[KeyOf(c)] = {}]_vars

\* A recorded result is never lost again and a success is final: no crash,
\* failed cleanup or competing retry reopens the mutation.
ResultIsKept ==
    [][\A k \in Keys :
        /\ receipt[k].state = "committed" => receipt'[k].state \in {"committed", "success"}
        /\ receipt[k].state = "success" => receipt'[k] = receipt[k]]_vars

\* The receipts implement the at-most-once contract of CreateOnce (rests on
\* AbsenceIsTrue).
Contract == INSTANCE CreateOnce WITH
    made <- objects,
    closed <- {k \in Keys : receipt[k].state \in {"committed", "success"}}

ContractSpec == Contract!Spec

\* Every request handler gives an answer, so the lock of an id is always
\* released again.
HandlerAnswers == \A c \in Clients : pc[c] # "idle" ~> pc[c] = "idle"

\* A mutation whose outcome was left open is settled in the end when the user
\* keeps retrying: it succeeds or is known to have failed.
OpenIsSettled ==
    \A k \in Keys : receipt[k].state = "pending" ~> receipt[k].state \in {"success", "none"}

\* What the comment on ABSENT_RETRY_GRACE_SECONDS says: after the answer to a
\* request was lost, an empty read authorises no new write until the grace period
\* has passed since that loss.
RewriteWaitsAfterLoss ==
    [][\A c \in Clients :
        pc[c] = "deciding" /\ pc'[c] = "writing" => quiet[KeyOf(c)] >= Grace]_vars
====
