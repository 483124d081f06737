---- MODULE MutationReceiptProofs ----
(***************************************************************************)
(* Proofs about MutationReceipt for every number of keys, handlers,        *)
(* payloads and requests.                                                  *)
(*                                                                         *)
(* The first half assumes nothing of the environment: the types, the locks *)
(* and phases of the handlers, and what backs a recorded result.  The      *)
(* second half is for behaviours in which a proven absence is true         *)
(* (AbsenceIsTrue, the contract of the reconcilers): there is never a      *)
(* second request, and the receipts implement CreateOnce.  The last part   *)
(* shows how long a grace period makes every behaviour such a one.         *)
(***************************************************************************)
EXTENDS MutationReceipt, TLAPS

(* Typing.                                                                 *)

LEMMA TypeInit == Init => TypeOK
BY ReceiptAssumption DEF Init, TypeOK, NoReceipt, NoWorker, ReceiptState, WorkerState, Phase,
   Verdict, Reply, Request

LEMMA TypeNext == TypeOK /\ [Next]_vars => TypeOK'
<1> SUFFICES ASSUME TypeOK, [Next]_vars PROVE TypeOK'
  OBVIOUS
<1> USE ReceiptAssumption DEF TypeOK, NoReceipt, NoWorker, ReceiptState, WorkerState, Phase,
        Verdict, Reply, Request, store, handler, jira, KeyOf, SetReceipt, DeleteReceipt, SetWorker
<1>1. ASSUME NEW c \in Clients, NEW k \in Keys, NEW b \in Bodies, Submit(c, k, b)
      PROVE  TypeOK'
  <2> USE DEF Enter, AnswerAtOnce
  <2>1. CASE RefuseReuse(c, k, b) BY <2>1 DEF RefuseReuse
  <2>2. CASE ReplaySuccess(c, k, b) BY <2>2 DEF ReplaySuccess
  <2>3. CASE ResumeCleanup(c, k, b) BY <2>3 DEF ResumeCleanup
  <2>4. CASE AwaitWorker(c, k, b) BY <2>4 DEF AwaitWorker
  <2>5. CASE RecoverResult(c, k, b) BY <2>5 DEF RecoverResult
  <2>6. CASE EntryStoreFails(c, k, b) BY <2>6 DEF EntryStoreFails
  <2>7. CASE RecoverFailure(c, k, b) BY <2>7 DEF RecoverFailure
  <2>8. CASE BeginReconcile(c, k, b) BY <2>8 DEF BeginReconcile
  <2>9. CASE BeginWrite(c, k, b) BY <2>9 DEF BeginWrite
  <2> QED
    BY <1>1, <2>1, <2>2, <2>3, <2>4, <2>5, <2>6, <2>7, <2>8, <2>9 DEF Submit
<1>2. ASSUME NEW c \in Clients, Handle(c)
      PROVE  TypeOK'
  <2> USE DEF Goto, Leave
  <2>1. CASE ReadJira(c) BY <2>1 DEF ReadJira
  <2>2. CASE ReconcileFails(c) BY <2>2 DEF ReconcileFails
  <2>3. CASE ConfirmFound(c) BY <2>3 DEF ConfirmFound
  <2>4. CASE StayUncertain(c) BY <2>4 DEF StayUncertain
  <2>5. CASE RetryRefused(c) BY <2>5 DEF RetryRefused
  <2>6. CASE Rewrite(c) BY <2>6 DEF Rewrite
  <2>7. CASE Dispatch(c) BY <2>7 DEF Dispatch
  <2>8. CASE RefusedBeforeSend(c) BY <2>8 DEF RefusedBeforeSend
  <2>9. CASE BusyBeforeSend(c) BY <2>9 DEF BusyBeforeSend
  <2>10. CASE Answered(c) BY <2>10 DEF Answered
  <2>11. CASE Rejected(c) BY <2>11 DEF Rejected
  <2>12. CASE LoseResponse(c) BY <2>12 DEF LoseResponse
  <2>13. CASE LeaveToWorker(c) BY <2>13 DEF LeaveToWorker
  <2>14. CASE FinishCleanup(c) BY <2>14 DEF FinishCleanup
  <2>15. CASE CleanupFails(c) BY <2>15 DEF CleanupFails
  <2>16. CASE StoreFails(c) BY <2>16 DEF StoreFails
  <2> QED
    BY <1>2, <2>1, <2>2, <2>3, <2>4, <2>5, <2>6, <2>7, <2>8, <2>9, <2>10, <2>11, <2>12,
       <2>13, <2>14, <2>15, <2>16 DEF Handle
<1>3. ASSUME NEW k \in Keys, Environment(k)
      PROVE  TypeOK'
  <2>1. CASE WorkerReturns(k) BY <2>1 DEF WorkerReturns
  <2>2. CASE WorkerBreaks(k) BY <2>2 DEF WorkerBreaks
  <2>3. CASE JiraCreates(k) BY <2>3 DEF JiraCreates
  <2>4. CASE JiraDrops(k) BY <2>4 DEF JiraDrops
  <2> QED BY <1>3, <2>1, <2>2, <2>3, <2>4 DEF Environment
<1>4. CASE Tick BY <1>4 DEF Tick
<1>5. CASE Crash BY <1>5 DEF Crash
<1>6. CASE UNCHANGED vars BY <1>6 DEF vars
<1> QED BY <1>1, <1>2, <1>3, <1>4, <1>5, <1>6 DEF Next

\* Every variable keeps its type: in particular a receipt never records a
\* payload without a state, and a handle always names its request.
THEOREM TypeCorrect == Spec => []TypeOK
BY TypeInit, TypeNext, PTL DEF Spec

----------------------------------------------------------------------------
(* What holds whatever Jira, the reads and the clock do.                   *)

\* A handler that is past its entry checks holds the lock of its key.
LockOK(c) == pc[c] # "idle" => lock[KeyOf(c)] = c

\* What the phase of a handler says about its receipt and about the worker.
PhaseOK(c) ==
    /\ pc[c] \in {"reconciling", "deciding", "writing"} =>
        /\ receipt[KeyOf(c)] = [state |-> "pending", body |-> asked[c].body]
        /\ worker[KeyOf(c)].state = "none"
    /\ pc[c] = "cleaning" =>
        receipt[KeyOf(c)] = [state |-> "committed", body |-> asked[c].body]
    /\ call[c] # NoRequest => pc[c] = "writing" /\ call[c].body = asked[c].body

\* What a read found is still there when it is acted upon.
FoundOK(c) == pc[c] = "deciding" /\ seen[c] = "found" => Backed(KeyOf(c), asked[c].body)

Serving(c) == LockOK(c) /\ PhaseOK(c) /\ FoundOK(c)

\* A handle is kept while its mutation is open, and its result is an object.
HandleOK(k) ==
    worker[k].state # "none" =>
        /\ receipt[k].state = "pending"
        /\ worker[k].req \in Request
        /\ worker[k].req.body = receipt[k].body
        /\ worker[k].state = "returned" => worker[k].req \in objects[k]

ResultOK(k) ==
    receipt[k].state \in {"committed", "success"} => Backed(k, receipt[k].body)

Kept(k) == HandleOK(k) /\ ResultOK(k)

BaseInv ==
    /\ TypeOK
    /\ \A c \in Clients : Serving(c)
    /\ \A k \in Keys : Kept(k)

\* Nothing but handler c and key k changes, and no other handler owns k.
Frame(c, k) ==
    /\ lock[k] \in {c, NoClient}
    /\ pc[c] # "idle" => KeyOf(c) = k
    /\ KeyOf(c)' = k
    /\ \A d \in Clients \ {c} :
        /\ pc'[d] = pc[d] /\ asked'[d] = asked[d] /\ call'[d] = call[d]
        /\ seen'[d] = seen[d] /\ waited'[d] = waited[d]
    /\ \A j \in Keys \ {k} :
        /\ receipt'[j] = receipt[j] /\ age'[j] = age[j] /\ quiet'[j] = quiet[j]
        /\ lock'[j] = lock[j] /\ worker'[j] = worker[j]
        /\ sent'[j] = sent[j] /\ objects'[j] = objects[j]

\* A handler stays where its key is not touched.
LEMMA ServesAnotherKey ==
    ASSUME BaseInv, NEW c \in Clients, NEW k \in Keys, Frame(c, k), NEW d \in Clients \ {c}
    PROVE  /\ Serving(d)'
           /\ pc'[d] = pc[d] /\ KeyOf(d)' = KeyOf(d) /\ KeyOf(d) \in Keys
           /\ pc[d] # "idle" => KeyOf(d) # k
<1>1. Serving(d) /\ KeyOf(d) \in Keys
  BY DEF BaseInv, TypeOK, KeyOf
<1>2. pc'[d] = pc[d] /\ KeyOf(d)' = KeyOf(d)
  BY DEF Frame, KeyOf
<1>3. pc[d] # "idle" => KeyOf(d) # k
  BY <1>1, ReceiptAssumption DEF Serving, LockOK, Frame
<1>4. Serving(d)'
  <2>1. CASE pc[d] = "idle"
    BY <1>1, <1>2, <2>1 DEF Frame, Serving, LockOK, PhaseOK, FoundOK
  <2>2. CASE pc[d] # "idle"
    BY <1>1, <1>2, <1>3, <2>2 DEF Frame, Serving, LockOK, PhaseOK, FoundOK, Backed
  <2> QED BY <2>1, <2>2
<1> QED BY <1>1, <1>2, <1>3, <1>4

LEMMA KeepsAnotherKey ==
    ASSUME BaseInv, NEW c \in Clients, NEW k \in Keys, Frame(c, k), NEW j \in Keys \ {k}
    PROVE  Kept(j)'
BY DEF BaseInv, Frame, Kept, HandleOK, ResultOK, Backed

LEMMA BaseStep ==
    ASSUME BaseInv, TypeOK', NEW c \in Clients, NEW k \in Keys, Frame(c, k),
           Serving(c)', Kept(k)'
    PROVE  BaseInv'
BY ServesAnotherKey, KeepsAnotherKey DEF BaseInv

LEMMA SubmitFrame ==
    ASSUME BaseInv, NEW c \in Clients, NEW k \in Keys, NEW b \in Bodies, Submit(c, k, b)
    PROVE  Frame(c, k) /\ UNCHANGED jira /\ pc[c] = "idle"
BY DEF BaseInv, Frame, TypeOK, KeyOf, store, jira, Submit, RefuseReuse, ReplaySuccess,
   ResumeCleanup, AwaitWorker, RecoverResult, EntryStoreFails, RecoverFailure, BeginReconcile,
   BeginWrite, Enter, AnswerAtOnce, SetReceipt

LEMMA BaseSubmit ==
    ASSUME BaseInv, TypeOK', NEW c \in Clients, NEW k \in Keys, NEW b \in Bodies,
           Submit(c, k, b)
    PROVE  BaseInv'
<1> USE ReceiptAssumption DEF store, jira, KeyOf
<1>0. TypeOK /\ Serving(c) /\ Kept(k)
  BY DEF BaseInv
<1>1. Frame(c, k)
  BY SubmitFrame
<1>2. objects' = objects
  BY SubmitFrame
<1>3. CASE \/ RefuseReuse(c, k, b) \/ ReplaySuccess(c, k, b) \/ AwaitWorker(c, k, b)
           \/ EntryStoreFails(c, k, b)
  <2>1. /\ pc[c] = "idle" /\ UNCHANGED <<receipt, lock, worker, pc, call, seen>>
    BY <1>3 DEF RefuseReuse, ReplaySuccess, AwaitWorker, EntryStoreFails, AnswerAtOnce
  <2>2. Serving(c)'
    BY <1>0, <2>1 DEF Serving, LockOK, PhaseOK, FoundOK
  <2>3. Kept(k)'
    BY <1>0, <1>2, <2>1 DEF Kept, HandleOK, ResultOK, Backed
  <2> QED BY <1>1, <2>2, <2>3, BaseStep
<1>4. CASE ResumeCleanup(c, k, b)
  <2>1. receipt[k] = [state |-> "committed", body |-> b]
    BY <1>0, <1>4 DEF ResumeCleanup, SamePayload, TypeOK
  <2>2. Serving(c)'
    BY <1>0, <1>4, <2>1 DEF ResumeCleanup, Enter, TypeOK, Serving, LockOK, PhaseOK, FoundOK
  <2>3. Kept(k)'
    BY <1>0, <1>2, <1>4 DEF ResumeCleanup, Kept, HandleOK, ResultOK, Backed
  <2> QED BY <1>1, <2>2, <2>3, BaseStep
<1>5. CASE RecoverResult(c, k, b)
  <2>1. Backed(k, b)
    BY <1>0, <1>5 DEF RecoverResult, SamePayload, Kept, HandleOK, Backed
  <2>2. Serving(c)'
    BY <1>0, <1>5 DEF RecoverResult, Enter, SetReceipt, NoWorker, TypeOK, Serving, LockOK,
       PhaseOK, FoundOK
  <2>3. receipt'[k] = [state |-> "committed", body |-> b] /\ worker'[k].state = "none"
    BY <1>0, <1>5 DEF RecoverResult, SetReceipt, NoWorker, TypeOK
  <2>4. Kept(k)'
    BY <1>2, <2>1, <2>3 DEF Kept, HandleOK, ResultOK, Backed
  <2> QED BY <1>1, <2>2, <2>4, BaseStep
<1>6. CASE RecoverFailure(c, k, b) \/ BeginReconcile(c, k, b)
  <2>1. receipt[k] = [state |-> "pending", body |-> b] /\ worker'[k].state = "none"
    BY <1>0, <1>6 DEF RecoverFailure, BeginReconcile, NoWorker, SamePayload, Kept, HandleOK, TypeOK
  <2>2. Enter(c, k, b, "reconciling") /\ receipt' = receipt
    BY <1>6 DEF RecoverFailure, BeginReconcile
  <2>3. Serving(c)'
    BY <1>0, <2>1, <2>2 DEF Enter, TypeOK, Serving, LockOK, PhaseOK, FoundOK
  <2>4. Kept(k)'
    BY <2>1, <2>2 DEF Kept, HandleOK, ResultOK
  <2> QED BY <1>1, <2>3, <2>4, BaseStep
<1>7. CASE BeginWrite(c, k, b)
  <2>1. receipt'[k] = [state |-> "pending", body |-> b] /\ worker'[k].state = "none"
    BY <1>0, <1>7 DEF BeginWrite, SetReceipt, TypeOK
  <2>2. Serving(c)'
    BY <1>0, <1>7, <2>1 DEF BeginWrite, Enter, TypeOK, Serving, LockOK, PhaseOK, FoundOK
  <2>3. Kept(k)'
    BY <2>1 DEF Kept, HandleOK, ResultOK
  <2> QED BY <1>1, <2>2, <2>3, BaseStep
<1> QED BY <1>3, <1>4, <1>5, <1>6, <1>7 DEF Submit

LEMMA HandleFrame ==
    ASSUME BaseInv, NEW c \in Clients, Handle(c)
    PROVE  Frame(c, KeyOf(c)) /\ objects' = objects /\ UNCHANGED asked /\ pc[c] # "idle"
<1> USE DEF store, jira, KeyOf
<1>0. TypeOK /\ LockOK(c)
  BY DEF BaseInv, Serving
<1>1. objects' = objects /\ UNCHANGED asked /\ pc[c] # "idle"
  BY DEF Handle, ReadJira, ReconcileFails, ConfirmFound, StayUncertain, RetryRefused, Rewrite,
     Dispatch, RefusedBeforeSend, BusyBeforeSend, Answered, Rejected, LoseResponse, LeaveToWorker,
     FinishCleanup, CleanupFails, StoreFails, Leave, Goto
<1> USE <1>0, <1>1, ReceiptAssumption DEF Frame, TypeOK, LockOK
<1>2. CASE ReadJira(c) BY <1>2 DEF ReadJira
<1>3. CASE ConfirmFound(c) \/ Rewrite(c) \/ Answered(c)
  BY <1>3 DEF ConfirmFound, Rewrite, Answered, Goto, SetReceipt
<1>4. CASE ReconcileFails(c) \/ StayUncertain(c) \/ RetryRefused(c) \/ CleanupFails(c) \/ StoreFails(c)
  BY <1>4 DEF ReconcileFails, StayUncertain, RetryRefused, CleanupFails, StoreFails, Leave
<1>5. CASE Dispatch(c) BY <1>5 DEF Dispatch
<1>6. CASE RefusedBeforeSend(c) \/ Rejected(c)
  BY <1>6 DEF RefusedBeforeSend, Rejected, DeleteReceipt, Leave
<1>7. CASE BusyBeforeSend(c) \/ LoseResponse(c) BY <1>7 DEF BusyBeforeSend, LoseResponse, Leave
<1>8. CASE LeaveToWorker(c) BY <1>8 DEF LeaveToWorker, SetWorker, Leave
<1>9. CASE FinishCleanup(c) BY <1>9 DEF FinishCleanup, SetReceipt, Leave
<1> QED BY <1>2, <1>3, <1>4, <1>5, <1>6, <1>7, <1>8, <1>9 DEF Handle

\* A handler that leaves is owed nothing any more.
LEMMA LeavesServed ==
    ASSUME TypeOK, NEW c \in Clients, NEW r, Leave(c, r)
    PROVE  Serving(c)' /\ pc'[c] = "idle"
BY DEF TypeOK, Leave, Serving, LockOK, PhaseOK, FoundOK

LEMMA BaseHandle ==
    ASSUME BaseInv, TypeOK', NEW c \in Clients, Handle(c)
    PROVE  BaseInv'
<1> USE ReceiptAssumption DEF store, jira
<1>0. PICK k \in Keys : k = KeyOf(c)
  BY DEF BaseInv, TypeOK, KeyOf
<1>1. TypeOK /\ Serving(c) /\ Kept(k)
  BY DEF BaseInv
<1>2. /\ Frame(c, k) /\ KeyOf(c)' = k /\ pc[c] # "idle"
      /\ objects' = objects /\ asked' = asked
  BY <1>0, HandleFrame DEF KeyOf
<1> SUFFICES Serving(c)' /\ Kept(k)'
  BY <1>2, BaseStep
\* What stays when the receipt and the handle do.
<1>3. ASSUME receipt' = receipt, worker' = worker
      PROVE  Kept(k)'
  BY <1>1, <1>2, <1>3 DEF Kept, HandleOK, ResultOK, Backed
<1>4. CASE ReadJira(c)
  <2>1. Serving(c)'
    <3>1. LockOK(c)' /\ PhaseOK(c)'
      BY <1>1, <1>2, <1>4 DEF ReadJira, Serving, LockOK, PhaseOK, KeyOf, TypeOK
    <3>2. seen'[c] = "found" => Backed(k, asked[c].body)
      BY <1>0, <1>1, <1>4 DEF ReadJira, Matching, Backed, TypeOK
    <3>3. FoundOK(c)'
      BY <1>2, <3>2 DEF FoundOK, Backed
    <3> QED BY <3>1, <3>3 DEF Serving
  <2> QED BY <1>3, <1>4, <2>1 DEF ReadJira
<1>5. CASE \/ ReconcileFails(c) \/ StayUncertain(c) \/ RetryRefused(c) \/ CleanupFails(c)
           \/ StoreFails(c) \/ BusyBeforeSend(c) \/ LoseResponse(c)
  <2>1. \E r : Leave(c, r)
    BY <1>5 DEF ReconcileFails, StayUncertain, RetryRefused, CleanupFails, StoreFails,
       BusyBeforeSend, LoseResponse
  <2>2. receipt' = receipt /\ worker' = worker
    BY <1>5 DEF ReconcileFails, StayUncertain, RetryRefused, CleanupFails, StoreFails,
       BusyBeforeSend, LoseResponse
  <2> QED BY <1>1, <1>3, <2>1, <2>2, LeavesServed
<1>6. CASE ConfirmFound(c) \/ Answered(c)
  <2>1. Backed(k, asked[c].body) /\ worker[k].state = "none"
    <3>1. CASE ConfirmFound(c)
      BY <1>0, <1>1, <3>1 DEF ConfirmFound, Serving, FoundOK, PhaseOK
    <3>2. CASE Answered(c)
      <4>1. call[c] \in objects[k] /\ call[c] # NoRequest
        BY <1>0, <1>1, <3>2 DEF Answered, TypeOK, Request
      <4> QED BY <1>0, <1>1, <3>2, <4>1 DEF Answered, Serving, PhaseOK, Backed
    <3> QED BY <1>6, <3>1, <3>2
  <2>2. Goto(c, "cleaning") /\ worker' = worker
    BY <1>6 DEF ConfirmFound, Answered
  <2>3. receipt'[k] = [state |-> "committed", body |-> asked[c].body]
    BY <1>0, <1>1, <1>6 DEF ConfirmFound, Answered, SetReceipt, TypeOK
  <2>4. Serving(c)'
    BY <1>1, <1>2, <2>2, <2>3 DEF Goto, TypeOK, Serving, LockOK, PhaseOK, FoundOK, KeyOf
  <2>5. Kept(k)'
    BY <1>2, <2>1, <2>2, <2>3 DEF Kept, HandleOK, ResultOK, Backed
  <2> QED BY <2>4, <2>5
<1>7. CASE Rewrite(c)
  <2>1. Goto(c, "writing") /\ worker' = worker /\ worker[k].state = "none"
    BY <1>0, <1>1, <1>7 DEF Rewrite, Serving, PhaseOK
  <2>2. receipt'[k] = [state |-> "pending", body |-> asked[c].body]
    BY <1>0, <1>1, <1>7 DEF Rewrite, SetReceipt, TypeOK
  <2>3. Serving(c)'
    BY <1>1, <1>2, <2>1, <2>2 DEF Goto, TypeOK, Serving, LockOK, PhaseOK, FoundOK, KeyOf
  <2>4. Kept(k)'
    BY <2>1, <2>2 DEF Kept, HandleOK, ResultOK
  <2> QED BY <2>3, <2>4
<1>8. CASE Dispatch(c)
  <2>1. Serving(c)'
    <3>1. call'[c].body = asked[c].body /\ pc[c] = "writing"
      BY <1>1, <1>8 DEF Dispatch, TypeOK
    <3>2. UNCHANGED <<receipt, worker, lock, pc, seen>>
      BY <1>8 DEF Dispatch
    <3> QED BY <1>1, <1>2, <3>1, <3>2 DEF Serving, LockOK, PhaseOK, FoundOK, KeyOf
  <2> QED BY <1>3, <1>8, <2>1 DEF Dispatch
<1>9. CASE RefusedBeforeSend(c) \/ Rejected(c)
  <2>1. worker' = worker /\ worker[k].state = "none" /\ receipt'[k].state = "none"
    BY <1>0, <1>1, <1>9 DEF RefusedBeforeSend, Rejected, DeleteReceipt, NoReceipt, Serving,
       PhaseOK, TypeOK
  <2>2. Kept(k)'
    BY <2>1 DEF Kept, HandleOK, ResultOK
  <2>3. \E r : Leave(c, r)
    BY <1>9 DEF RefusedBeforeSend, Rejected
  <2> QED BY <1>1, <2>2, <2>3, LeavesServed
<1>10. CASE LeaveToWorker(c)
  <2>1. /\ receipt' = receipt /\ receipt[k] = [state |-> "pending", body |-> asked[c].body]
        /\ call[c] \in Request /\ call[c].body = asked[c].body
    BY <1>0, <1>1, <1>10 DEF LeaveToWorker, Serving, PhaseOK, TypeOK
  <2>2. worker'[k] = [state |-> "running", req |-> call[c]]
    BY <1>0, <1>1, <1>10 DEF LeaveToWorker, SetWorker, TypeOK
  <2>3. Kept(k)'
    BY <2>1, <2>2 DEF Kept, HandleOK, ResultOK
  <2> QED BY <1>1, <1>10, <2>3, LeavesServed DEF LeaveToWorker
<1>11. CASE FinishCleanup(c)
  <2>1. receipt[k] = [state |-> "committed", body |-> asked[c].body]
    BY <1>0, <1>1, <1>11 DEF FinishCleanup, Serving, PhaseOK
  <2>2. receipt'[k] = [state |-> "success", body |-> asked[c].body] /\ worker' = worker
    BY <1>0, <1>1, <1>11 DEF FinishCleanup, SetReceipt, TypeOK
  <2>3. Kept(k)'
    BY <1>1, <1>2, <2>1, <2>2 DEF Kept, HandleOK, ResultOK, Backed
  <2> QED BY <1>1, <1>11, <2>3, LeavesServed DEF FinishCleanup
<1> QED
  BY <1>4, <1>5, <1>6, <1>7, <1>8, <1>9, <1>10, <1>11 DEF Handle

\* What one key's worker and Jira change: nobody works on a key with a worker.
LEMMA BaseEnvironment ==
    ASSUME BaseInv, TypeOK', NEW k \in Keys, Environment(k)
    PROVE  BaseInv'
<1> USE DEF store, handler, jira
<1>0. TypeOK /\ Kept(k)
  BY DEF BaseInv
<1>1. /\ UNCHANGED <<receipt, lock, pc, asked, call, seen>>
      /\ \A j \in Keys : objects[j] \subseteq objects'[j]
      /\ \A j \in Keys \ {k} : worker'[j] = worker[j]
      /\ \/ worker'[k] = worker[k]
         \/ /\ worker[k].state # "none" /\ worker'[k].req = worker[k].req
            /\ worker'[k].state = "returned" => worker[k].req \in objects[k]
  <2>1. CASE WorkerReturns(k) \/ WorkerBreaks(k)
    BY <1>0, <2>1 DEF WorkerReturns, WorkerBreaks, SetWorker, TypeOK
  <2>2. CASE JiraCreates(k)
    <3>1. PICK r \in sent[k] : objects' = [objects EXCEPT ![k] = @ \cup {r}]
      BY <2>2 DEF JiraCreates
    <3>2. \A j \in Keys : objects[j] \subseteq objects'[j]
      BY <1>0, <3>1 DEF TypeOK
    <3> QED BY <2>2, <3>2 DEF JiraCreates
  <2>3. CASE JiraDrops(k)
    BY <2>3 DEF JiraDrops
  <2> QED BY <2>1, <2>2, <2>3 DEF Environment
<1>2. ASSUME NEW j \in Keys PROVE Kept(j)'
  <2>1. Kept(j)
    BY DEF BaseInv
  <2> QED BY <1>1, <2>1 DEF Kept, HandleOK, ResultOK, Backed
<1>3. ASSUME NEW d \in Clients PROVE Serving(d)'
  <2>1. Serving(d) /\ KeyOf(d) \in Keys /\ KeyOf(d)' = KeyOf(d) /\ pc[d] \in Phase
    BY <1>1 DEF BaseInv, TypeOK, KeyOf
  <2>2. worker'[KeyOf(d)].state = "none" \/ ~(pc[d] \in {"reconciling", "deciding", "writing"})
    BY <1>0, <1>1, <2>1 DEF Serving, PhaseOK, Kept, HandleOK
  <2> QED BY <1>1, <2>1, <2>2 DEF Serving, LockOK, PhaseOK, FoundOK, Backed
<1> QED BY <1>2, <1>3 DEF BaseInv

LEMMA BaseNext == BaseInv /\ [Next]_vars => BaseInv'
<1> SUFFICES ASSUME BaseInv, [Next]_vars PROVE BaseInv'
  OBVIOUS
<1>0. TypeOK'
  BY TypeNext DEF BaseInv
<1>1. CASE Tick \/ UNCHANGED vars
  <2>1. UNCHANGED <<receipt, lock, worker, pc, asked, call, seen, objects>>
    BY <1>1 DEF Tick, vars, jira
  <2>2. ASSUME NEW c \in Clients PROVE Serving(c)'
    BY <2>1 DEF BaseInv, Serving, LockOK, PhaseOK, FoundOK, Backed, KeyOf
  <2>3. ASSUME NEW k \in Keys PROVE Kept(k)'
    BY <2>1 DEF BaseInv, Kept, HandleOK, ResultOK, Backed
  <2> QED BY <1>0, <2>2, <2>3 DEF BaseInv
<1>2. CASE Crash
  <2>1. ASSUME NEW c \in Clients PROVE Serving(c)'
    BY <1>2 DEF Crash, Serving, LockOK, PhaseOK, FoundOK
  <2>2. ASSUME NEW k \in Keys PROVE Kept(k)'
    BY <1>2 DEF Crash, BaseInv, Kept, HandleOK, ResultOK, Backed, NoWorker, store, jira
  <2> QED BY <1>0, <2>1, <2>2 DEF BaseInv
<1> QED BY <1>0, <1>1, <1>2, BaseSubmit, BaseHandle, BaseEnvironment DEF Next

THEOREM BaseInductive == Spec => []BaseInv
<1>1. Init => BaseInv
  <2> SUFFICES ASSUME Init PROVE BaseInv
    OBVIOUS
  <2>1. TypeOK
    BY TypeInit
  <2>2. ASSUME NEW c \in Clients PROVE Serving(c)
    BY DEF Init, Serving, LockOK, PhaseOK, FoundOK
  <2>3. ASSUME NEW k \in Keys PROVE Kept(k)
    BY DEF Init, Kept, HandleOK, ResultOK, NoWorker, NoReceipt
  <2> QED BY <2>1, <2>2, <2>3 DEF BaseInv
<1> QED BY <1>1, BaseNext, PTL DEF Spec

----------------------------------------------------------------------------
(* What a step does to objects, to receipts and to the browser's answers.  *)

LEMMA ObjectsStay ==
    ASSUME TypeOK, [Next]_vars, NEW k \in Keys
    PROVE  objects[k] \subseteq objects'[k]
<1> USE DEF jira
<1>1. ASSUME NEW c \in Clients, NEW j \in Keys, NEW b \in Bodies, Submit(c, j, b)
      PROVE  objects' = objects
  BY <1>1 DEF Submit, RefuseReuse, ReplaySuccess, ResumeCleanup, AwaitWorker, RecoverResult,
     EntryStoreFails, RecoverFailure, BeginReconcile, BeginWrite
<1>2. ASSUME NEW c \in Clients, Handle(c)
      PROVE  objects' = objects
  BY <1>2 DEF Handle, ReadJira, ReconcileFails, ConfirmFound, StayUncertain, RetryRefused, Rewrite,
     Dispatch, RefusedBeforeSend, BusyBeforeSend, Answered, Rejected, LoseResponse, LeaveToWorker,
     FinishCleanup, CleanupFails, StoreFails
<1>3. ASSUME NEW j \in Keys, Environment(j)
      PROVE  objects[k] \subseteq objects'[k]
  <2>1. CASE JiraCreates(j)
    BY <2>1 DEF JiraCreates, TypeOK
  <2> QED BY <1>3, <2>1 DEF Environment, WorkerReturns, WorkerBreaks, JiraDrops
<1>4. CASE Tick \/ Crash \/ UNCHANGED vars
  BY <1>4 DEF Tick, Crash, vars
<1> QED BY <1>1, <1>2, <1>3, <1>4 DEF Next

LEMMA WhoIsToldOk ==
    ASSUME TypeOK, [Next]_vars, NEW d \in Clients, reply'[d] = "ok"
    PROVE  \/ reply[d] = "ok" /\ asked'[d] = asked[d]
           \/ \E k \in Keys, b \in Bodies : ReplaySuccess(d, k, b)
           \/ FinishCleanup(d)
<1>1. ASSUME NEW c \in Clients, NEW k \in Keys, NEW b \in Bodies, Submit(c, k, b)
      PROVE  \/ reply[d] = "ok" /\ asked'[d] = asked[d]
             \/ c = d /\ ReplaySuccess(c, k, b)
  BY <1>1 DEF TypeOK, Submit, RefuseReuse, ReplaySuccess, ResumeCleanup, AwaitWorker, RecoverResult,
     EntryStoreFails, RecoverFailure, BeginReconcile, BeginWrite, Enter, AnswerAtOnce
<1>2. ASSUME NEW c \in Clients, Handle(c)
      PROVE  \/ reply[d] = "ok" /\ asked'[d] = asked[d]
             \/ c = d /\ FinishCleanup(c)
  BY <1>2 DEF TypeOK, Handle, ReadJira, ReconcileFails, ConfirmFound, StayUncertain, RetryRefused,
     Rewrite, Dispatch, RefusedBeforeSend, BusyBeforeSend, Answered, Rejected, LoseResponse,
     LeaveToWorker, FinishCleanup, CleanupFails, StoreFails, Goto, Leave
<1>3. ASSUME NEW j \in Keys, Environment(j)
      PROVE  reply' = reply /\ asked' = asked
  BY <1>3 DEF Environment, WorkerReturns, WorkerBreaks, JiraCreates, JiraDrops, handler
<1>4. CASE Tick \/ UNCHANGED vars
  BY <1>4 DEF Tick, vars
<1>5. CASE Crash
  BY <1>5 DEF Crash, TypeOK
<1> QED BY <1>1, <1>2, <1>3, <1>4, <1>5 DEF Next

\* The life of a receipt: a recorded result stays, and a result is recorded
\* only where a write was pending.
ReceiptGrows(k) ==
    /\ receipt[k].state = "committed" => receipt'[k].state \in {"committed", "success"}
    /\ receipt[k].state = "success" => receipt'[k] = receipt[k]

LEMMA ReceiptStep ==
    ASSUME BaseInv, [Next]_vars, NEW k \in Keys
    PROVE  ReceiptGrows(k)
<1> USE DEF store, ReceiptGrows
<1>0. TypeOK /\ HandleOK(k) /\ \A c \in Clients : PhaseOK(c)
  BY DEF BaseInv, Kept, Serving
<1>1. ASSUME NEW c \in Clients, NEW j \in Keys, NEW b \in Bodies, Submit(c, j, b)
      PROVE  ReceiptGrows(k)
  <2>1. CASE RecoverResult(c, j, b)
    BY <1>0, <2>1 DEF RecoverResult, SetReceipt, HandleOK, TypeOK
  <2>2. CASE BeginWrite(c, j, b)
    BY <1>0, <2>2 DEF BeginWrite, SetReceipt, TypeOK
  <2> QED
    BY <1>1, <2>1, <2>2 DEF Submit, RefuseReuse, ReplaySuccess, ResumeCleanup, AwaitWorker,
       EntryStoreFails, RecoverFailure, BeginReconcile
<1>2. ASSUME NEW c \in Clients, Handle(c)
      PROVE  ReceiptGrows(k)
  <2>0. KeyOf(c) \in Keys /\ PhaseOK(c)
    BY <1>0 DEF TypeOK, KeyOf
  <2>1. CASE ConfirmFound(c) \/ Rewrite(c) \/ Answered(c) \/ FinishCleanup(c)
    BY <1>0, <2>0, <2>1 DEF ConfirmFound, Rewrite, Answered, FinishCleanup, SetReceipt, PhaseOK, TypeOK
  <2>2. CASE RefusedBeforeSend(c) \/ Rejected(c)
    BY <1>0, <2>0, <2>2 DEF RefusedBeforeSend, Rejected, DeleteReceipt, PhaseOK, TypeOK
  <2> QED
    BY <1>2, <2>1, <2>2 DEF Handle, ReadJira, ReconcileFails, StayUncertain, RetryRefused,
       Dispatch, BusyBeforeSend, LoseResponse, LeaveToWorker, CleanupFails, StoreFails
<1>3. ASSUME NEW j \in Keys, Environment(j)
      PROVE  receipt' = receipt
  BY <1>3 DEF Environment, WorkerReturns, WorkerBreaks, JiraCreates, JiraDrops
<1>4. CASE Tick \/ Crash \/ UNCHANGED vars
  BY <1>4 DEF Tick, Crash, vars
<1> QED BY <1>1, <1>2, <1>3, <1>4 DEF Next

----------------------------------------------------------------------------
(* What follows for every behaviour.                                        *)

\* The lock and the handle of a timed-out worker keep two writes of one id
\* apart.
THEOREM WritesAreApart == Spec => []NoOverlappingWrite
<1>1. BaseInv => NoOverlappingWrite
  <2> SUFFICES ASSUME BaseInv, NEW c \in Clients, pc[c] = "writing",
                      NEW d \in Clients \ {c}, pc[d] = "writing", KeyOf(d) = KeyOf(c)
               PROVE  FALSE
    BY DEF BaseInv, Serving, PhaseOK, NoOverlappingWrite
  <2> QED BY DEF BaseInv, Serving, LockOK
<1> QED BY <1>1, BaseInductive, PTL

\* A committed or successful receipt is backed by an object of its payload,
\* however it came to be recorded: by an answer, a reconciling read or a late
\* worker.
THEOREM ClosedIsBacked == Spec => []ClosedHasObject
<1>1. BaseInv => ClosedHasObject
  BY DEF BaseInv, Kept, ResultOK, ClosedHasObject
<1> QED BY <1>1, BaseInductive, PTL

\* Whoever was told ok finds the object of the payload it submitted.
THEOREM OkIsTrue == Spec => []OkMeansCreated
<1>1. Init => OkMeansCreated
  BY DEF Init, OkMeansCreated
<1>2. BaseInv /\ OkMeansCreated /\ [Next]_vars => OkMeansCreated'
  <2> SUFFICES ASSUME BaseInv, OkMeansCreated, [Next]_vars, NEW d \in Clients, reply'[d] = "ok"
               PROVE  \E o \in objects'[KeyOf(d)'] : o.body = asked'[d].body
    BY DEF OkMeansCreated, Backed, KeyOf
  <2>0. TypeOK
    BY DEF BaseInv
  <2>1. \A k \in Keys : objects[k] \subseteq objects'[k]
    BY <2>0, ObjectsStay
  <2>2. CASE reply[d] = "ok" /\ asked'[d] = asked[d]
    BY <2>0, <2>1, <2>2 DEF OkMeansCreated, Backed, TypeOK, KeyOf
  <2>3. CASE \E k \in Keys, b \in Bodies : ReplaySuccess(d, k, b)
    <3>1. PICK k \in Keys, b \in Bodies : ReplaySuccess(d, k, b)
      BY <2>3
    <3>2. asked'[d] = [key |-> k, body |-> b] /\ receipt[k].state = "success" /\ receipt[k].body = b
      BY <2>0, <3>1 DEF ReplaySuccess, AnswerAtOnce, SamePayload, TypeOK
    <3> QED BY <2>1, <3>2 DEF BaseInv, Kept, ResultOK, Backed, KeyOf
  <2>4. CASE FinishCleanup(d)
    <3>1. KeyOf(d) \in Keys /\ receipt[KeyOf(d)] = [state |-> "committed", body |-> asked[d].body]
      BY <2>0, <2>4 DEF FinishCleanup, BaseInv, Serving, PhaseOK, TypeOK, KeyOf
    <3>2. asked' = asked
      BY <2>4 DEF FinishCleanup, Leave
    <3> QED BY <2>1, <3>1, <3>2 DEF BaseInv, Kept, ResultOK, Backed, KeyOf
  <2> QED BY <2>0, <2>2, <2>3, <2>4, WhoIsToldOk
<1> QED BY <1>1, <1>2, BaseInductive, PTL DEF Spec

\* A recorded result is never lost and a success never changes, in any step of
\* a handler, the environment, the clock or a crash.
THEOREM ResultStays == Spec => ResultIsKept
<1>1. BaseInv /\ [Next]_vars => [\A k \in Keys : ReceiptGrows(k)]_vars
  BY ReceiptStep
<1>2. [\A k \in Keys : ReceiptGrows(k)]_vars =>
        [\A k \in Keys :
            /\ receipt[k].state = "committed" => receipt'[k].state \in {"committed", "success"}
            /\ receipt[k].state = "success" => receipt'[k] = receipt[k]]_vars
  BY DEF ReceiptGrows
<1> QED BY <1>1, <1>2, BaseInductive, PTL DEF Spec, ResultIsKept

----------------------------------------------------------------------------
(* Behaviours in which a proven absence is true: one request at a time.    *)

\* What was ever sent to Jira under key k and not dropped by it.
Live(k) == sent[k] \cup objects[k]

\* Whoever waits for an answer waits for the only request of its key.
CallOK(c) ==
    pc[c] = "writing" =>
        IF call[c] = NoRequest THEN Live(KeyOf(c)) = {}
                               ELSE Live(KeyOf(c)) \subseteq {call[c]}

WorkerOK(k) == worker[k].state # "none" => Live(k) \subseteq {worker[k].req}

\* At most one request per key, made from the payload the receipt is bound to.
RecordOK(k) ==
    /\ \A r1, r2 \in Live(k) : r1 = r2
    /\ \A r \in Live(k) : r.body = receipt[k].body
    /\ sent[k] \cap objects[k] = {}
    /\ receipt[k].state = "none" => Live(k) = {}
    /\ receipt[k].state \in {"committed", "success"} => sent[k] = {}

OneRequest ==
    /\ \A c \in Clients : CallOK(c)
    /\ \A k \in Keys : WorkerOK(k) /\ RecordOK(k)

LEMMA OneStep ==
    ASSUME BaseInv, OneRequest, NEW c \in Clients, NEW k \in Keys, Frame(c, k),
           CallOK(c)', WorkerOK(k)', RecordOK(k)'
    PROVE  OneRequest'
<1>1. ASSUME NEW d \in Clients \ {c} PROVE CallOK(d)'
  <2>1. /\ pc'[d] = pc[d] /\ KeyOf(d)' = KeyOf(d) /\ KeyOf(d) \in Keys
        /\ pc[d] # "idle" => KeyOf(d) # k
    BY ServesAnotherKey
  <2> QED BY <2>1 DEF OneRequest, CallOK, Frame, Live
<1>2. ASSUME NEW j \in Keys \ {k} PROVE WorkerOK(j)' /\ RecordOK(j)'
  BY DEF OneRequest, WorkerOK, RecordOK, Frame, Live
<1> QED BY <1>1, <1>2 DEF OneRequest

LEMMA OneSubmit ==
    ASSUME BaseInv, OneRequest, NEW c \in Clients, NEW k \in Keys, NEW b \in Bodies,
           Submit(c, k, b)
    PROVE  OneRequest'
<1> USE DEF store, jira
<1>0. TypeOK /\ Serving(c) /\ Kept(k) /\ WorkerOK(k) /\ RecordOK(k)
  BY DEF BaseInv, OneRequest
<1>1. Frame(c, k) /\ UNCHANGED <<sent, objects>> /\ pc[c] = "idle"
  BY SubmitFrame
<1>2. CASE BeginWrite(c, k, b)
  <2>1. Live(k) = {} /\ Live(k)' = {}
    BY <1>0, <1>1, <1>2 DEF BeginWrite, RecordOK, Live
  <2>2. /\ receipt'[k] = [state |-> "pending", body |-> b] /\ worker' = worker
        /\ KeyOf(c)' = k /\ call' = call /\ call[c] = NoRequest
    BY <1>0, <1>1, <1>2 DEF BeginWrite, Enter, SetReceipt, TypeOK, Serving, PhaseOK, KeyOf
  <2>3. CallOK(c)' /\ WorkerOK(k)' /\ RecordOK(k)'
    BY <2>1, <2>2 DEF CallOK, WorkerOK, RecordOK, Live
  <2> QED BY <1>1, <2>3, OneStep
<1>3. CASE RecoverResult(c, k, b)
  <2>1. sent[k] = {} /\ receipt[k].body = b
    BY <1>0, <1>3 DEF RecoverResult, SamePayload, Kept, HandleOK, WorkerOK, RecordOK, Live
  <2>2. /\ receipt'[k] = [state |-> "committed", body |-> b] /\ worker'[k].state = "none"
        /\ pc'[c] # "writing"
    BY <1>0, <1>3 DEF RecoverResult, Enter, SetReceipt, NoWorker, TypeOK
  <2>3. CallOK(c)' /\ WorkerOK(k)' /\ RecordOK(k)'
    BY <1>0, <1>1, <2>1, <2>2 DEF CallOK, WorkerOK, RecordOK, Live
  <2> QED BY <1>1, <2>3, OneStep
<1>4. CASE \/ RefuseReuse(c, k, b) \/ ReplaySuccess(c, k, b) \/ ResumeCleanup(c, k, b)
           \/ AwaitWorker(c, k, b) \/ EntryStoreFails(c, k, b) \/ RecoverFailure(c, k, b)
           \/ BeginReconcile(c, k, b)
  <2>1. pc'[c] # "writing" /\ receipt' = receipt
    BY <1>0, <1>1, <1>4 DEF RefuseReuse, ReplaySuccess, ResumeCleanup, AwaitWorker,
       EntryStoreFails, RecoverFailure, BeginReconcile, Enter, AnswerAtOnce, TypeOK
  <2>2. worker' = worker \/ worker'[k].state = "none"
    BY <1>0, <1>4 DEF RefuseReuse, ReplaySuccess, ResumeCleanup, AwaitWorker, EntryStoreFails,
       RecoverFailure, BeginReconcile, NoWorker, TypeOK
  <2>3. CallOK(c)' /\ WorkerOK(k)' /\ RecordOK(k)'
    BY <1>0, <1>1, <2>1, <2>2 DEF CallOK, WorkerOK, RecordOK, Live
  <2> QED BY <1>1, <2>3, OneStep
<1> QED BY <1>2, <1>3, <1>4 DEF Submit

LEMMA OneHandle ==
    ASSUME BaseInv, OneRequest, AbsenceIsTrue, NEW c \in Clients, Handle(c)
    PROVE  OneRequest'
<1> USE ReceiptAssumption DEF store, jira
<1>0. PICK k \in Keys : k = KeyOf(c)
  BY DEF BaseInv, TypeOK, KeyOf
<1>1. TypeOK /\ Serving(c) /\ Kept(k) /\ CallOK(c) /\ WorkerOK(k) /\ RecordOK(k)
  BY DEF BaseInv, OneRequest
<1>2. /\ Frame(c, k) /\ KeyOf(c)' = k /\ pc[c] # "idle"
      /\ objects' = objects /\ asked' = asked
  BY <1>0, HandleFrame DEF KeyOf
<1> SUFFICES CallOK(c)' /\ WorkerOK(k)' /\ RecordOK(k)'
  BY <1>2, OneStep
<1>3. CASE \/ ReadJira(c) \/ ReconcileFails(c) \/ StayUncertain(c) \/ RetryRefused(c)
           \/ BusyBeforeSend(c) \/ LoseResponse(c) \/ CleanupFails(c) \/ StoreFails(c)
  <2>1. pc'[c] # "writing" /\ UNCHANGED <<receipt, worker, sent>>
    BY <1>1, <1>3 DEF ReadJira, ReconcileFails, StayUncertain, RetryRefused, BusyBeforeSend,
       LoseResponse, CleanupFails, StoreFails, Leave, TypeOK
  <2> QED BY <1>1, <1>2, <2>1 DEF CallOK, WorkerOK, RecordOK, Live
<1>4. CASE ConfirmFound(c) \/ Answered(c) \/ FinishCleanup(c)
  <2>1. sent[k] = {} /\ worker' = worker /\ sent' = sent
    <3>1. CASE ConfirmFound(c)
      BY <1>0, <1>1, <3>1 DEF ConfirmFound, Serving, FoundOK, Backed, RecordOK, Live
    <3>2. CASE Answered(c)
      BY <1>0, <1>1, <3>2 DEF Answered, RecordOK, Live
    <3>3. CASE FinishCleanup(c)
      BY <1>0, <1>1, <3>3 DEF FinishCleanup, Serving, PhaseOK, RecordOK
    <3> QED BY <1>4, <3>1, <3>2, <3>3 DEF ConfirmFound, Answered, FinishCleanup
  <2>2. receipt[k].body = asked[c].body
    BY <1>0, <1>1, <1>4 DEF ConfirmFound, Answered, FinishCleanup, Serving, PhaseOK
  <2>3. pc'[c] # "writing" /\ receipt'[k].body = asked[c].body /\ receipt'[k].state # "none"
    BY <1>0, <1>1, <1>4 DEF ConfirmFound, Answered, FinishCleanup, SetReceipt, Goto, Leave, TypeOK
  <2> QED BY <1>1, <1>2, <2>1, <2>2, <2>3 DEF CallOK, WorkerOK, RecordOK, Live
<1>5. CASE Rewrite(c)
  <2>1. Live(k) = {} /\ UNCHANGED <<worker, sent>>
    BY <1>0, <1>5 DEF Rewrite, AbsenceIsTrue, Live
  <2>2. call'[c] = NoRequest /\ receipt'[k].state = "pending"
    BY <1>0, <1>1, <1>5 DEF Rewrite, Goto, SetReceipt, TypeOK
  <2> QED BY <1>1, <1>2, <2>1, <2>2 DEF CallOK, WorkerOK, RecordOK, Live
<1>6. CASE Dispatch(c)
  <2>1. Live(k) = {} /\ worker[k].state = "none" /\ receipt[k].state = "pending"
    BY <1>0, <1>1, <1>6 DEF Dispatch, CallOK, Serving, PhaseOK
  <2>2. PICK i \in RequestIds :
            /\ call' = [call EXCEPT ![c] = [id |-> i, body |-> asked[c].body]]
            /\ sent' = [sent EXCEPT ![k] = @ \cup {[id |-> i, body |-> asked[c].body]}]
    BY <1>0, <1>6 DEF Dispatch
  <2> DEFINE r == [id |-> i, body |-> asked[c].body]
  <2>3. /\ call'[c] = r /\ sent'[k] = {r} /\ objects'[k] = {} /\ UNCHANGED <<receipt, worker>>
        /\ r # NoRequest
    BY <1>1, <1>2, <1>6, <2>1, <2>2 DEF Dispatch, TypeOK, Live
  <2>4. r.body = receipt[k].body
    BY <1>0, <1>1, <1>6 DEF Dispatch, Serving, PhaseOK
  <2> HIDE DEF r
  <2> QED BY <1>2, <2>1, <2>3, <2>4 DEF CallOK, WorkerOK, RecordOK, Live
<1>7. CASE RefusedBeforeSend(c) \/ Rejected(c)
  <2>1. Live(k) = {} /\ UNCHANGED <<worker, sent>>
    BY <1>0, <1>1, <1>7 DEF RefusedBeforeSend, Rejected, CallOK, Live
  <2>2. pc'[c] # "writing"
    BY <1>1, <1>7 DEF RefusedBeforeSend, Rejected, Leave, TypeOK
  <2> QED BY <1>1, <1>2, <2>1, <2>2 DEF CallOK, WorkerOK, RecordOK, Live
<1>8. CASE LeaveToWorker(c)
  <2>1. Live(k) \subseteq {call[c]} /\ UNCHANGED <<receipt, sent>> /\ pc'[c] # "writing"
    BY <1>0, <1>1, <1>8 DEF LeaveToWorker, CallOK, Leave, TypeOK
  <2>2. worker'[k].req = call[c]
    BY <1>0, <1>1, <1>8 DEF LeaveToWorker, SetWorker, TypeOK
  <2> QED BY <1>1, <1>2, <2>1, <2>2 DEF CallOK, WorkerOK, RecordOK, Live
<1> QED
  BY <1>3, <1>4, <1>5, <1>6, <1>7, <1>8 DEF Handle

LEMMA OneEnvironment ==
    ASSUME BaseInv, OneRequest, NEW k \in Keys, Environment(k)
    PROVE  OneRequest'
<1> USE DEF store, handler, jira
<1>0. TypeOK
  BY DEF BaseInv
<1>1. UNCHANGED <<receipt, pc, asked, call>>
  BY DEF Environment, WorkerReturns, WorkerBreaks, JiraCreates, JiraDrops
<1>2. ASSUME NEW j \in Keys
      PROVE  /\ Live(j)' \subseteq Live(j) /\ sent'[j] \subseteq sent[j]
             /\ sent[j] \cap objects[j] = {} => sent'[j] \cap objects'[j] = {}
             /\ worker'[j].req = worker[j].req
             /\ worker'[j].state # "none" => worker[j].state # "none"
  <2>1. CASE WorkerReturns(k) \/ WorkerBreaks(k)
    <3>1. UNCHANGED <<sent, objects>>
      BY <2>1 DEF WorkerReturns, WorkerBreaks
    <3>2. \/ j # k /\ worker'[j] = worker[j]
          \/ j = k /\ worker'[j].req = worker[j].req /\ worker[j].state = "running"
      BY <1>0, <2>1 DEF WorkerReturns, WorkerBreaks, SetWorker, TypeOK
    <3> QED BY <3>1, <3>2 DEF Live
  <2>2. CASE JiraCreates(k)
    <3>1. PICK r \in sent[k] : /\ sent' = [sent EXCEPT ![k] = @ \ {r}]
                               /\ objects' = [objects EXCEPT ![k] = @ \cup {r}]
      BY <2>2 DEF JiraCreates
    <3>2. /\ Live(j)' \subseteq Live(j) /\ sent'[j] \subseteq sent[j]
          /\ sent[j] \cap objects[j] = {} => sent'[j] \cap objects'[j] = {}
      BY <1>0, <3>1 DEF TypeOK, Live
    <3> QED BY <2>2, <3>2 DEF JiraCreates
  <2>3. CASE JiraDrops(k)
    <3>1. PICK r \in sent[k] : sent' = [sent EXCEPT ![k] = @ \ {r}] /\ objects' = objects
      BY <2>3 DEF JiraDrops
    <3>2. /\ Live(j)' \subseteq Live(j) /\ sent'[j] \subseteq sent[j]
          /\ sent[j] \cap objects[j] = {} => sent'[j] \cap objects'[j] = {}
      BY <1>0, <3>1 DEF TypeOK, Live
    <3> QED BY <2>3, <3>2 DEF JiraDrops
  <2> QED BY <2>1, <2>2, <2>3 DEF Environment
<1>3. ASSUME NEW j \in Keys PROVE WorkerOK(j)' /\ RecordOK(j)'
  BY <1>1, <1>2 DEF OneRequest, WorkerOK, RecordOK
<1>4. ASSUME NEW c \in Clients PROVE CallOK(c)'
  <2>1. KeyOf(c) \in Keys /\ KeyOf(c)' = KeyOf(c)
    BY <1>0, <1>1 DEF TypeOK, KeyOf
  <2>2. PICK j \in Keys : j = KeyOf(c)
    BY <2>1
  <2> QED BY <1>1, <1>2, <2>1, <2>2 DEF OneRequest, CallOK, Live
<1> QED BY <1>3, <1>4 DEF OneRequest

LEMMA OneNext == BaseInv /\ OneRequest /\ AbsenceIsTrue /\ [Next]_vars => OneRequest'
<1> SUFFICES ASSUME BaseInv, OneRequest, AbsenceIsTrue, [Next]_vars PROVE OneRequest'
  OBVIOUS
<1>1. CASE Tick \/ UNCHANGED vars
  <2>1. UNCHANGED <<receipt, worker, pc, asked, call, sent, objects>>
    BY <1>1 DEF Tick, vars, jira
  <2> QED BY <2>1 DEF OneRequest, CallOK, WorkerOK, RecordOK, Live, KeyOf
<1>2. CASE Crash
  <2>1. ASSUME NEW c \in Clients PROVE CallOK(c)'
    BY <1>2 DEF Crash, CallOK
  <2>2. ASSUME NEW k \in Keys PROVE WorkerOK(k)' /\ RecordOK(k)'
    BY <1>2 DEF Crash, OneRequest, WorkerOK, RecordOK, Live, NoWorker, store, jira
  <2> QED BY <2>1, <2>2 DEF OneRequest
<1> QED BY <1>1, <1>2, OneSubmit, OneHandle, OneEnvironment DEF Next

LEMMA OneInit == Init => OneRequest
BY DEF Init, OneRequest, CallOK, WorkerOK, RecordOK, Live, NoWorker, NoReceipt

THEOREM OneRequestAtATime == Spec /\ []AbsenceIsTrue => [](BaseInv /\ OneRequest)
BY BaseInductive, OneInit, OneNext, PTL DEF Spec

----------------------------------------------------------------------------
(* The steps at the level of the contract, and the ways to be told failed. *)

Closed(k) == receipt[k].state \in {"committed", "success"}

\* How the three kinds of steps look at the level of the contract.
LEMMA StutterMaps ==
    ASSUME objects' = objects, \A j \in Keys : Closed(j)' <=> Closed(j)
    PROVE  UNCHANGED Contract!vars
BY DEF Contract!vars, Closed

LEMMA CloseMaps ==
    ASSUME objects' = objects, NEW k \in Keys, ~Closed(k), Closed(k)', objects[k] # {},
           \A j \in Keys \ {k} : Closed(j)' <=> Closed(j)
    PROVE  Contract!Close(k)
BY DEF Contract!Close, Closed

LEMMA CreateMaps ==
    ASSUME NEW k \in Keys, NEW r, ~Closed(k), objects[k] = {},
           objects' = [objects EXCEPT ![k] = {r}], receipt' = receipt
    PROVE  Contract!Create(k, r)
BY DEF Contract!Create, Closed

LEMMA InitMaps == Init => Contract!Init
BY DEF Init, Contract!Init, NoReceipt

LEMMA ContractStep ==
    ASSUME BaseInv, OneRequest, [Next]_vars
    PROVE  [Contract!Next]_(Contract!vars)
<1> USE DEF store, jira
<1>0. TypeOK
  BY DEF BaseInv
<1>1. ASSUME NEW c \in Clients, NEW k \in Keys, NEW b \in Bodies, Submit(c, k, b)
      PROVE  [Contract!Next]_(Contract!vars)
  <2>1. CASE RecoverResult(c, k, b)
    <3>1. HandleOK(k)
      BY DEF BaseInv, Kept
    <3>2. /\ objects' = objects /\ ~Closed(k) /\ Closed(k)' /\ objects[k] # {}
          /\ \A j \in Keys \ {k} : Closed(j)' <=> Closed(j)
      BY <1>0, <2>1, <3>1 DEF RecoverResult, SetReceipt, HandleOK, TypeOK, Closed
    <3> QED BY <3>2, CloseMaps DEF Contract!Next
  <2>2. CASE BeginWrite(c, k, b)
    <3>1. objects' = objects /\ \A j \in Keys : Closed(j)' <=> Closed(j)
      BY <1>0, <2>2 DEF BeginWrite, SetReceipt, TypeOK, Closed
    <3> QED BY <3>1, StutterMaps
  <2> QED
    BY <1>1, <2>1, <2>2, StutterMaps DEF Submit, RefuseReuse, ReplaySuccess, ResumeCleanup,
       AwaitWorker, EntryStoreFails, RecoverFailure, BeginReconcile, Closed
<1>2. ASSUME NEW c \in Clients, Handle(c)
      PROVE  [Contract!Next]_(Contract!vars)
  <2>0. PICK k \in Keys : k = KeyOf(c)
    BY <1>0 DEF TypeOK, KeyOf
  <2>1. PhaseOK(c) /\ FoundOK(c)
    BY DEF BaseInv, Serving
  <2>2. CASE ConfirmFound(c) \/ Answered(c)
    <3>1. receipt[k].state = "pending"
      BY <2>0, <2>1, <2>2 DEF ConfirmFound, Answered, PhaseOK
    <3>2. receipt' = [receipt EXCEPT ![k] = [state |-> "committed", body |-> asked[c].body]]
      BY <2>0, <2>2 DEF ConfirmFound, Answered, SetReceipt
    <3>3. /\ ~Closed(k) /\ Closed(k)'
          /\ \A j \in Keys \ {k} : Closed(j)' <=> Closed(j)
      BY <1>0, <3>1, <3>2 DEF TypeOK, Closed
    <3>4. objects' = objects /\ objects[k] # {}
      BY <2>0, <2>1, <2>2 DEF ConfirmFound, Answered, FoundOK, Backed
    <3> QED BY <3>3, <3>4, CloseMaps DEF Contract!Next
  <2>3. CASE Rewrite(c) \/ RefusedBeforeSend(c) \/ Rejected(c)
    <3>1. receipt[k].state = "pending"
      BY <2>0, <2>1, <2>3 DEF Rewrite, RefusedBeforeSend, Rejected, PhaseOK
    <3>2. \/ receipt' = [receipt EXCEPT ![k] = [state |-> "pending", body |-> asked[c].body]]
          \/ receipt' = [receipt EXCEPT ![k] = NoReceipt]
      BY <2>0, <2>3 DEF Rewrite, RefusedBeforeSend, Rejected, SetReceipt, DeleteReceipt
    <3>3. \A j \in Keys : Closed(j)' <=> Closed(j)
      <4>1. CASE receipt' = [receipt EXCEPT ![k] = NoReceipt]
        BY <1>0, <3>1, <4>1 DEF TypeOK, NoReceipt, Closed
      <4>2. CASE receipt' = [receipt EXCEPT ![k] = [state |-> "pending", body |-> asked[c].body]]
        BY <1>0, <3>1, <4>2 DEF TypeOK, Closed
      <4> QED BY <3>2, <4>1, <4>2
    <3>4. objects' = objects
      BY <2>3 DEF Rewrite, RefusedBeforeSend, Rejected
    <3> QED BY <3>3, <3>4, StutterMaps
  <2>4. CASE FinishCleanup(c)
    <3>1. receipt[k].state = "committed"
      BY <2>0, <2>1, <2>4 DEF FinishCleanup, PhaseOK
    <3>2. receipt' = [receipt EXCEPT ![k] = [state |-> "success", body |-> asked[c].body]]
      BY <2>0, <2>4 DEF FinishCleanup, SetReceipt
    <3>3. \A j \in Keys : Closed(j)' <=> Closed(j)
      BY <1>0, <3>1, <3>2 DEF TypeOK, Closed
    <3> QED BY <2>4, <3>3, StutterMaps DEF FinishCleanup
  <2> QED
    BY <1>2, <2>2, <2>3, <2>4, StutterMaps DEF Handle, ReadJira, ReconcileFails, StayUncertain,
       RetryRefused, Dispatch, BusyBeforeSend, LoseResponse, LeaveToWorker, CleanupFails,
       StoreFails, Closed
<1>3. ASSUME NEW k \in Keys, Environment(k)
      PROVE  [Contract!Next]_(Contract!vars)
  <2>1. CASE JiraCreates(k)
    <3>1. PICK r \in sent[k] : /\ sent' = [sent EXCEPT ![k] = @ \ {r}]
                               /\ objects' = [objects EXCEPT ![k] = @ \cup {r}]
                               /\ receipt' = receipt
      BY <2>1 DEF JiraCreates
    <3>2. RecordOK(k) /\ r \in Request
      BY <1>0 DEF OneRequest, TypeOK
    <3>3. objects[k] = {} /\ ~Closed(k)
      BY <1>0, <3>1, <3>2 DEF RecordOK, Live, Closed
    <3>4. objects' = [objects EXCEPT ![k] = {r}]
      BY <1>0, <3>1, <3>3 DEF TypeOK
    <3> QED BY <3>1, <3>2, <3>3, <3>4, CreateMaps DEF Contract!Next
  <2> QED
    BY <1>3, <2>1, StutterMaps DEF Environment, WorkerReturns, WorkerBreaks, JiraDrops, Closed
<1>4. CASE Tick \/ Crash \/ UNCHANGED vars
  BY <1>4, StutterMaps DEF Tick, Crash, vars, Closed
<1> QED BY <1>1, <1>2, <1>3, <1>4 DEF Next

\* A definite failure of handler c means that nothing exists.
DefiniteFailure(c) ==
    pc[c] # "idle" /\ pc'[c] = "idle" /\ reply'[c] = "failed"
        => sent'[KeyOf(c)] = {} /\ objects'[KeyOf(c)] = {}

\* It is told by a refusal before or after the request was sent, or by the
\* receipt table when that fails.
LEMMA FailureStep ==
    ASSUME BaseInv, OneRequest, AbsenceIsTrue, [Next]_vars, NEW d \in Clients
    PROVE  DefiniteFailure(d) \/ StoreFails(d)
<1> SUFFICES ASSUME pc[d] # "idle", pc'[d] = "idle", reply'[d] = "failed", ~StoreFails(d)
             PROVE  sent'[KeyOf(d)] = {} /\ objects'[KeyOf(d)] = {}
  BY DEF DefiniteFailure
<1> USE DEF jira
<1>0. TypeOK /\ CallOK(d)
  BY DEF BaseInv, OneRequest
<1>1. ASSUME NEW c \in Clients, NEW k \in Keys, NEW b \in Bodies, Submit(c, k, b)
      PROVE  FALSE
  BY <1>0, <1>1 DEF TypeOK, Submit, RefuseReuse, ReplaySuccess, ResumeCleanup, AwaitWorker,
     RecoverResult, EntryStoreFails, RecoverFailure, BeginReconcile, BeginWrite, Enter, AnswerAtOnce
<1>2. ASSUME NEW c \in Clients, Handle(c)
      PROVE  c = d /\ (RetryRefused(d) \/ RefusedBeforeSend(d) \/ Rejected(d))
  <2>1. c = d
    BY <1>0, <1>2, HandleFrame DEF Frame
  <2> QED
    BY <1>0, <1>2, <2>1 DEF TypeOK, Handle, ReadJira, ReconcileFails, ConfirmFound, StayUncertain,
       Rewrite, Dispatch, BusyBeforeSend, Answered, LoseResponse, LeaveToWorker, FinishCleanup,
       CleanupFails, Goto, Leave
<1>3. CASE RetryRefused(d)
  BY <1>3 DEF RetryRefused, AbsenceIsTrue
<1>4. CASE RefusedBeforeSend(d) \/ Rejected(d)
  BY <1>0, <1>4 DEF RefusedBeforeSend, Rejected, CallOK, Live
<1>5. ASSUME NEW k \in Keys, Environment(k)
      PROVE  FALSE
  BY <1>5 DEF Environment, WorkerReturns, WorkerBreaks, JiraCreates, JiraDrops, handler
<1>6. CASE Tick \/ UNCHANGED vars
  BY <1>6 DEF Tick, vars
<1>7. CASE Crash
  BY <1>0, <1>7 DEF Crash, TypeOK
<1> QED BY <1>1, <1>2, <1>3, <1>4, <1>5, <1>6, <1>7 DEF Next

----------------------------------------------------------------------------
(* What follows where a proven absence is true.                            *)

\* One mutation id makes at most one Jira object: the only way to a second one
\* is a read that proves an absence which is not there.  Lost responses, late
\* workers, restarts, failing storage and competing retries are not enough.
THEOREM AtMostOnce == Spec /\ []AbsenceIsTrue => []AtMostOneObject
<1>1. OneRequest => AtMostOneObject
  BY DEF OneRequest, RecordOK, Live, AtMostOneObject
<1> QED BY <1>1, OneRequestAtATime, PTL

\* Every path that deletes the receipt, or never stored one, leaves nothing in
\* Jira.
THEOREM DeletedMeansNothing == Spec /\ []AbsenceIsTrue => []NoReceiptNoRequest
<1>1. OneRequest => NoReceiptNoRequest
  BY DEF OneRequest, RecordOK, Live, NoReceiptNoRequest
<1> QED BY <1>1, OneRequestAtATime, PTL

\* A recorded result leaves no request that could still become an object.
THEOREM ClosedStaysFinal == Spec /\ []AbsenceIsTrue => []ClosedIsFinal
<1>1. OneRequest => ClosedIsFinal
  BY DEF OneRequest, RecordOK, ClosedIsFinal
<1> QED BY <1>1, OneRequestAtATime, PTL

\* The browser is told failed only when nothing of the mutation exists or may
\* still appear, so that dropping the id is safe, unless the receipt table
\* itself failed in that very step; where it works, always.
THEOREM FailureIsDefinite ==
    /\ Spec /\ []AbsenceIsTrue => [][\A c \in Clients : DefiniteFailure(c) \/ StoreFails(c)]_vars
    /\ ~DiskFaults /\ Spec /\ []AbsenceIsTrue => FailedMeansNothing
<1>1. BaseInv /\ OneRequest /\ AbsenceIsTrue /\ [Next]_vars
        => [\A c \in Clients : DefiniteFailure(c) \/ StoreFails(c)]_vars
  BY FailureStep
<1>2. Spec /\ []AbsenceIsTrue => [][\A c \in Clients : DefiniteFailure(c) \/ StoreFails(c)]_vars
  BY <1>1, OneRequestAtATime, PTL DEF Spec
<1>3. ASSUME ~DiskFaults PROVE Spec /\ []AbsenceIsTrue => FailedMeansNothing
  <2>1. [\A c \in Clients : DefiniteFailure(c) \/ StoreFails(c)]_vars =>
          [\A c \in Clients :
              pc[c] # "idle" /\ pc'[c] = "idle" /\ reply'[c] = "failed"
                  => sent'[KeyOf(c)] = {} /\ objects'[KeyOf(c)] = {}]_vars
    BY <1>3 DEF DefiniteFailure, StoreFails
  <2> QED BY <1>2, <2>1, PTL DEF FailedMeansNothing
<1> QED BY <1>2, <1>3

\* The receipts implement the at-most-once contract: a request that becomes an
\* object is the contract's Create, recording the result its Close, and every
\* other step, crashes included, is a stutter of it.
THEOREM ImplementsCreateOnce == Spec /\ []AbsenceIsTrue => ContractSpec
<1>1. Init => Contract!Init
  BY InitMaps
<1>2. BaseInv /\ OneRequest /\ [Next]_vars => [Contract!Next]_(Contract!vars)
  BY ContractStep
<1> QED BY <1>1, <1>2, OneRequestAtATime, PTL DEF Spec, ContractSpec, Contract!Spec

----------------------------------------------------------------------------
(* How long a grace period is long enough.                                 *)

\* How old the receipt of an undecided request can be.
AgeOK(k) ==
    /\ Attended(k) => age[k] <= MaxAttempt
    /\ sent[k] # {} /\ ~Attended(k) =>
        quiet[k] <= Settle /\ age[k] <= MaxAttempt + quiet[k]

\* What an empty read still says when it is acted upon.
VerdictOK(c) ==
    pc[c] = "deciding" /\ seen[c] = "absent" =>
        \/ Live(KeyOf(c)) = {}
        \/ age[KeyOf(c)] <= MaxAttempt + Settle + waited[c]

TimeInv ==
    /\ \A k \in Keys : AgeOK(k)
    /\ \A c \in Clients : VerdictOK(c)

LEMMA OldAbsenceIsTrue == GraceSuffices /\ BaseInv /\ TimeInv => AbsenceIsTrue
<1> SUFFICES ASSUME GraceSuffices, BaseInv, TimeInv, NEW c \in Clients,
                    pc[c] = "deciding", ProvenAbsent(c)
             PROVE  Live(KeyOf(c)) = {}
  BY DEF AbsenceIsTrue, Live
<1>1. VerdictOK(c) /\ KeyOf(c) \in Keys /\ age[KeyOf(c)] \in Nat /\ waited[c] \in 0..ReadTime
  BY DEF TimeInv, BaseInv, TypeOK, KeyOf
<1> QED BY <1>1, ReceiptAssumption DEF VerdictOK, ProvenAbsent, GraceSuffices

\* AgeOK for the key of the stepping handler, which alone can be writing there.
Awaited(c, k) == pc[c] = "writing" \/ worker[k].state = "running"
OwnAgeOK(c, k) ==
    /\ Awaited(c, k) => age[k] <= MaxAttempt
    /\ sent[k] # {} /\ ~Awaited(c, k) =>
        quiet[k] <= Settle /\ age[k] <= MaxAttempt + quiet[k]

LEMMA OwnWriting ==
    ASSUME BaseInv, NEW c \in Clients, NEW k \in Keys, Frame(c, k)
    PROVE  /\ pc[c] # "idle" => (Attended(k) <=> Awaited(c, k))
           /\ pc[c] = "idle" => (Attended(k) <=> worker[k].state = "running")
           /\ Attended(k)' <=> Awaited(c, k)'
<1>1. ASSUME NEW d \in Clients \ {c}
      PROVE  ~(pc[d] = "writing" /\ KeyOf(d) = k) /\ ~(pc[d] = "writing" /\ KeyOf(d) = k)'
  BY ServesAnotherKey
<1>2. KeyOf(c)' = k /\ (pc[c] # "idle" => KeyOf(c) = k)
  BY DEF Frame
<1> QED BY <1>1, <1>2 DEF Attended, Writing, Awaited

LEMMA TimeStep ==
    ASSUME BaseInv, TimeInv, NEW c \in Clients, NEW k \in Keys, Frame(c, k),
           OwnAgeOK(c, k)', VerdictOK(c)'
    PROVE  TimeInv'
<1>1. AgeOK(k)'
  BY OwnWriting DEF OwnAgeOK, AgeOK
<1>2. ASSUME NEW j \in Keys \ {k} PROVE AgeOK(j)'
  <2>1. \A d \in Clients \ {c} :
            (pc[d] = "writing" /\ KeyOf(d) = j)' <=> (pc[d] = "writing" /\ KeyOf(d) = j)
    BY DEF Frame, KeyOf
  <2>2. ~(pc[c] = "writing" /\ KeyOf(c) = j) /\ ~(pc[c] = "writing" /\ KeyOf(c) = j)'
    BY DEF Frame
  <2>3. Writing(j)' <=> Writing(j)
    BY <2>1, <2>2 DEF Writing
  <2> QED BY <2>3 DEF Frame, TimeInv, AgeOK, Attended
<1>3. ASSUME NEW d \in Clients \ {c} PROVE VerdictOK(d)'
  <2>1. /\ pc'[d] = pc[d] /\ KeyOf(d)' = KeyOf(d) /\ KeyOf(d) \in Keys
        /\ pc[d] # "idle" => KeyOf(d) # k
    BY ServesAnotherKey
  <2> QED BY <2>1 DEF TimeInv, VerdictOK, Frame, Live
<1> QED BY <1>1, <1>2, <1>3 DEF TimeInv

LEMMA TimeSubmit ==
    ASSUME BaseInv, TimeInv, NEW c \in Clients, NEW k \in Keys, NEW b \in Bodies,
           Submit(c, k, b)
    PROVE  TimeInv'
<1> USE ReceiptAssumption DEF store, jira
<1>0. TypeOK /\ AgeOK(k)
  BY DEF BaseInv, TimeInv
<1>1. Frame(c, k) /\ UNCHANGED <<sent, objects>> /\ pc[c] = "idle"
  BY SubmitFrame
<1>2. Attended(k) <=> worker[k].state = "running"
  BY <1>1, OwnWriting
<1>3. VerdictOK(c)'
  <2>1. pc'[c] # "deciding"
    BY <1>0, <1>1 DEF TypeOK, Submit, RefuseReuse, ReplaySuccess, ResumeCleanup, AwaitWorker,
       RecoverResult, EntryStoreFails, RecoverFailure, BeginReconcile, BeginWrite, Enter,
       AnswerAtOnce
  <2> QED BY <2>1 DEF VerdictOK
<1>4. CASE BeginWrite(c, k, b)
  <2>1. pc'[c] = "writing" /\ age'[k] = 0
    BY <1>0, <1>4 DEF BeginWrite, Enter, TypeOK
  <2>2. OwnAgeOK(c, k)'
    BY <2>1 DEF OwnAgeOK, Awaited
  <2> QED BY <1>1, <1>3, <2>2, TimeStep
<1>5. CASE ~BeginWrite(c, k, b)
  <2>1. /\ pc'[c] # "writing" /\ UNCHANGED <<age, quiet>>
        /\ worker'[k].state = "running" <=> worker[k].state = "running"
    BY <1>0, <1>1, <1>5 DEF TypeOK, Submit, RefuseReuse, ReplaySuccess, ResumeCleanup,
       AwaitWorker, RecoverResult, EntryStoreFails, RecoverFailure, BeginReconcile, Enter,
       AnswerAtOnce, NoWorker
  <2>2. OwnAgeOK(c, k)'
    BY <1>0, <1>1, <1>2, <2>1 DEF AgeOK, OwnAgeOK, Awaited
  <2> QED BY <1>1, <1>3, <2>2, TimeStep
<1> QED BY <1>4, <1>5

LEMMA TimeHandle ==
    ASSUME BaseInv, OneRequest, TimeInv, NEW c \in Clients, Handle(c)
    PROVE  TimeInv'
<1> USE ReceiptAssumption DEF store, jira
<1>0. PICK k \in Keys : k = KeyOf(c)
  BY DEF BaseInv, TypeOK, KeyOf
<1>1. TypeOK /\ Serving(c) /\ CallOK(c) /\ RecordOK(k) /\ AgeOK(k)
  BY DEF BaseInv, OneRequest, TimeInv
<1>2. /\ Frame(c, k) /\ KeyOf(c)' = k /\ pc[c] # "idle"
      /\ objects' = objects /\ asked' = asked
  BY <1>0, HandleFrame DEF KeyOf
<1>3. Attended(k) <=> Awaited(c, k)
  BY <1>2, OwnWriting
<1>4. CASE ReadJira(c)
  <2>1. worker[k].state = "none" /\ pc[c] = "reconciling" /\ receipt[k].body = asked[c].body
    BY <1>0, <1>1, <1>4 DEF ReadJira, Serving, PhaseOK
  <2>2. /\ UNCHANGED <<age, quiet, worker, sent>> /\ pc'[c] = "deciding" /\ waited'[c] = 0
        /\ seen'[c] = "absent" => Matching(c) = {}
    BY <1>1, <1>4 DEF ReadJira, TypeOK
  <2>3. sent[k] # {} => age[k] <= MaxAttempt + Settle
    BY <1>1, <1>3, <2>1 DEF AgeOK, Awaited, TypeOK
  <2>4. seen'[c] = "absent" => objects[k] = {}
    BY <1>0, <1>1, <2>1, <2>2 DEF Matching, RecordOK, Live
  <2>5. VerdictOK(c)'
    BY <1>1, <1>2, <2>2, <2>3, <2>4 DEF VerdictOK, Live, TypeOK
  <2>6. OwnAgeOK(c, k)'
    BY <1>1, <1>3, <2>1, <2>2 DEF AgeOK, OwnAgeOK, Awaited
  <2> QED BY <1>2, <2>5, <2>6, TimeStep
<1>5. ASSUME ~ReadJira(c) PROVE VerdictOK(c)'
  <2>1. pc'[c] # "deciding"
    BY <1>1, <1>5 DEF TypeOK, Handle, ReconcileFails, ConfirmFound, StayUncertain, RetryRefused,
       Rewrite, Dispatch, RefusedBeforeSend, BusyBeforeSend, Answered, Rejected, LoseResponse,
       LeaveToWorker, FinishCleanup, CleanupFails, StoreFails, Goto, Leave
  <2> QED BY <2>1 DEF VerdictOK
<1>6. CASE \/ ReconcileFails(c) \/ StayUncertain(c) \/ RetryRefused(c) \/ FinishCleanup(c)
           \/ CleanupFails(c) \/ ConfirmFound(c) \/ (StoreFails(c) /\ pc[c] # "writing")
  <2>1. /\ pc[c] # "writing" /\ pc'[c] # "writing" /\ UNCHANGED <<age, quiet, worker, sent>>
        /\ ~ReadJira(c)
    BY <1>1, <1>6 DEF ReadJira, ReconcileFails, StayUncertain, RetryRefused, FinishCleanup,
       CleanupFails, ConfirmFound, StoreFails, Goto, Leave, TypeOK
  <2>2. OwnAgeOK(c, k)'
    BY <1>1, <1>3, <2>1 DEF AgeOK, OwnAgeOK, Awaited
  <2> QED BY <1>2, <1>5, <2>1, <2>2, TimeStep
<1>7. CASE Rewrite(c)
  <2>1. pc'[c] = "writing" /\ age'[k] = 0 /\ ~ReadJira(c)
    BY <1>0, <1>1, <1>7 DEF Rewrite, ReadJira, Goto, TypeOK
  <2>2. OwnAgeOK(c, k)'
    BY <2>1 DEF OwnAgeOK, Awaited
  <2> QED BY <1>2, <1>5, <2>1, <2>2, TimeStep
<1>8. CASE Dispatch(c) \/ LeaveToWorker(c)
  <2>1. Awaited(c, k) /\ Awaited(c, k)' /\ age' = age /\ ~ReadJira(c)
    BY <1>0, <1>1, <1>8 DEF Dispatch, LeaveToWorker, ReadJira, SetWorker, Awaited, TypeOK
  <2>2. OwnAgeOK(c, k)'
    BY <1>1, <1>3, <2>1 DEF AgeOK, OwnAgeOK
  <2> QED BY <1>2, <1>5, <2>1, <2>2, TimeStep
<1>9. CASE \/ RefusedBeforeSend(c) \/ BusyBeforeSend(c) \/ Answered(c) \/ Rejected(c)
           \/ (StoreFails(c) /\ pc[c] = "writing")
  <2>1. /\ pc[c] = "writing" /\ pc'[c] # "writing" /\ worker[k].state = "none"
        /\ UNCHANGED <<age, quiet, worker, sent>> /\ ~ReadJira(c)
    BY <1>0, <1>1, <1>9 DEF RefusedBeforeSend, BusyBeforeSend, Answered, Rejected, StoreFails,
       ReadJira, Goto, Leave, TypeOK, Serving, PhaseOK
  <2>2. sent[k] = {}
    BY <1>0, <1>1, <1>9, <2>1 DEF RefusedBeforeSend, BusyBeforeSend, Answered, Rejected,
       StoreFails, CallOK, RecordOK, Live
  <2>3. OwnAgeOK(c, k)'
    BY <2>1, <2>2 DEF OwnAgeOK, Awaited
  <2> QED BY <1>2, <1>5, <2>1, <2>3, TimeStep
<1>10. CASE LoseResponse(c)
  <2>1. /\ pc[c] = "writing" /\ age' = age /\ quiet'[k] = 0 /\ ~ReadJira(c)
        /\ pc'[c] # "writing" /\ worker[k].state = "none" /\ worker' = worker
    BY <1>0, <1>1, <1>10 DEF LoseResponse, ReadJira, Leave, TypeOK, Serving, PhaseOK
  <2>2. OwnAgeOK(c, k)'
    BY <1>1, <1>3, <2>1 DEF AgeOK, OwnAgeOK, Awaited, TypeOK
  <2> QED BY <1>2, <1>5, <2>1, <2>2, TimeStep
<1> QED
  BY <1>4, <1>6, <1>7, <1>8, <1>9, <1>10 DEF Handle

LEMMA TimeEnvironment ==
    ASSUME BaseInv, OneRequest, TimeInv, NEW k \in Keys, Environment(k)
    PROVE  TimeInv'
<1> USE ReceiptAssumption DEF store, handler, jira
<1>0. TypeOK /\ Kept(k) /\ WorkerOK(k) /\ RecordOK(k) /\ AgeOK(k)
  BY DEF BaseInv, OneRequest, TimeInv
<1>1. /\ UNCHANGED <<age, pc, asked, call, seen, waited>>
      /\ \A j \in Keys : Live(j)' \subseteq Live(j) /\ sent'[j] \subseteq sent[j]
  <2>1. CASE WorkerReturns(k) \/ WorkerBreaks(k)
    BY <2>1 DEF WorkerReturns, WorkerBreaks, Live
  <2>2. CASE JiraCreates(k)
    <3>1. PICK r \in sent[k] : /\ sent' = [sent EXCEPT ![k] = @ \ {r}]
                               /\ objects' = [objects EXCEPT ![k] = @ \cup {r}]
      BY <2>2 DEF JiraCreates
    <3>2. \A j \in Keys : Live(j)' \subseteq Live(j) /\ sent'[j] \subseteq sent[j]
      BY <1>0, <3>1 DEF TypeOK, Live
    <3> QED BY <2>2, <3>2 DEF JiraCreates
  <2>3. CASE JiraDrops(k)
    <3>1. PICK r \in sent[k] : sent' = [sent EXCEPT ![k] = @ \ {r}] /\ objects' = objects
      BY <2>3 DEF JiraDrops
    <3>2. \A j \in Keys : Live(j)' \subseteq Live(j) /\ sent'[j] \subseteq sent[j]
      BY <1>0, <3>1 DEF TypeOK, Live
    <3> QED BY <2>3, <3>2 DEF JiraDrops
  <2> QED BY <2>1, <2>2, <2>3 DEF Environment
<1>2. ASSUME NEW c \in Clients PROVE VerdictOK(c)'
  <2>1. PICK j \in Keys : j = KeyOf(c) /\ j = KeyOf(c)'
    BY <1>0, <1>1 DEF TypeOK, KeyOf
  <2> QED BY <1>1, <2>1 DEF TimeInv, VerdictOK
<1>3. \A j \in Keys : Writing(j)' <=> Writing(j)
  BY <1>1 DEF Writing, KeyOf
<1>4. ASSUME NEW j \in Keys,
             quiet'[j] = quiet[j], worker'[j].state = "running" <=> worker[j].state = "running"
      PROVE  AgeOK(j)'
  BY <1>1, <1>3, <1>4 DEF TimeInv, AgeOK, Attended
<1>5. ASSUME NEW j \in Keys \ {k}
      PROVE  /\ quiet'[j] = quiet[j]
             /\ worker'[j].state = "running" <=> worker[j].state = "running"
  <2>1. CASE WorkerReturns(k) \/ WorkerBreaks(k)
    BY <1>0, <2>1 DEF WorkerReturns, WorkerBreaks, SetWorker, TypeOK
  <2>2. CASE JiraCreates(k) \/ JiraDrops(k)
    BY <2>2 DEF JiraCreates, JiraDrops
  <2> QED BY <2>1, <2>2 DEF Environment
<1>6. AgeOK(k)'
  <2>1. CASE WorkerReturns(k)
    <3>1. sent'[k] = {} /\ worker'[k].state = "returned"
      BY <1>0, <2>1 DEF WorkerReturns, SetWorker, WorkerOK, RecordOK, Live, TypeOK
    <3>2. ~Attended(k)'
      <4>1. ~Writing(k)
        BY <2>1 DEF WorkerReturns, BaseInv, Serving, PhaseOK, Writing
      <4> QED BY <1>3, <3>1, <4>1 DEF Attended
    <3> QED BY <3>1, <3>2 DEF AgeOK
  <2>2. CASE WorkerBreaks(k)
    <3>1. quiet'[k] = 0 /\ Attended(k)
      BY <1>0, <2>2 DEF WorkerBreaks, Attended, TypeOK
    <3> QED BY <1>0, <1>1, <3>1 DEF AgeOK, TypeOK
  <2>3. CASE JiraCreates(k) \/ JiraDrops(k)
    BY <1>4, <2>3 DEF JiraCreates, JiraDrops
  <2> QED BY <2>1, <2>2, <2>3 DEF Environment
<1> QED BY <1>2, <1>4, <1>5, <1>6 DEF TimeInv

LEMMA TimeTick ==
    ASSUME BaseInv, TimeInv, TypeOK', GraceSuffices, Tick
    PROVE  TimeInv'
<1> USE ReceiptAssumption DEF jira
<1>0. TypeOK
  BY DEF BaseInv
<1>1. ASSUME NEW c \in Clients PROVE VerdictOK(c)'
  <2>1. PICK k \in Keys : k = KeyOf(c) /\ k = KeyOf(c)'
    BY <1>0 DEF Tick, TypeOK, KeyOf
  <2>2. /\ age[k] \in Nat /\ age'[k] \in Nat /\ age'[k] <= age[k] + 1
        /\ waited[c] \in Nat /\ (pc[c] = "deciding" => waited'[c] = waited[c] + 1)
    BY <1>0 DEF Tick, TypeOK
  <2>3. VerdictOK(c) /\ UNCHANGED <<pc, seen>> /\ Live(k)' = Live(k)
    BY DEF Tick, TimeInv, Live
  <2>4. pc[c] = "deciding" /\ age[k] <= MaxAttempt + Settle + waited[c]
            => age'[k] <= MaxAttempt + Settle + waited'[c]
    BY <2>2, <2>3
  <2> QED BY <2>1, <2>3, <2>4 DEF VerdictOK
<1>2. ASSUME NEW j \in Keys PROVE AgeOK(j)'
  <2>1. AgeOK(j)
    BY DEF TimeInv
  <2>2. Attended(j)' <=> Attended(j)
    BY DEF Tick, Attended, Writing, KeyOf
  <2>3. /\ age[j] \in Nat /\ age'[j] \in Nat /\ age'[j] <= age[j] + 1
        /\ quiet[j] \in Nat /\ quiet'[j] \in Nat
        /\ quiet[j] < Settle => quiet'[j] = quiet[j] + 1
    BY <1>0 DEF Tick, TypeOK, GraceSuffices
  <2>4. /\ Attended(j) => age[j] < MaxAttempt
        /\ sent[j] # {} /\ ~Attended(j) => quiet[j] < Settle
        /\ sent' = sent
    BY DEF Tick
  <2> QED BY <2>1, <2>2, <2>3, <2>4 DEF AgeOK
<1> QED BY <1>1, <1>2 DEF TimeInv

LEMMA TimeCrash ==
    ASSUME BaseInv, OneRequest, TimeInv, Crash
    PROVE  TimeInv'
<1> USE ReceiptAssumption DEF store, jira
<1>0. TypeOK
  BY DEF BaseInv
<1>1. ASSUME NEW c \in Clients PROVE VerdictOK(c)'
  BY DEF Crash, VerdictOK
<1>2. ASSUME NEW j \in Keys PROVE AgeOK(j)'
  <2>1. AgeOK(j) /\ ~Attended(j)' /\ UNCHANGED <<age, sent>>
    BY DEF TimeInv, Crash, Attended, Writing, NoWorker
  <2>2. CASE Awaiting(j)
    <3>1. Attended(j) /\ quiet'[j] = 0
      BY <2>2 DEF Crash, Awaiting, Attended, Writing
    <3> QED BY <1>0, <2>1, <3>1 DEF AgeOK, TypeOK
  <2>3. CASE ~Awaiting(j) /\ Attended(j)
    <3>1. PICK c \in Clients : pc[c] = "writing" /\ KeyOf(c) = j /\ call[c] = NoRequest
      BY <2>3 DEF Awaiting, Attended, Writing
    <3>2. sent[j] = {}
      BY <3>1 DEF OneRequest, CallOK, Live
    <3> QED BY <2>1, <3>2 DEF AgeOK
  <2>4. CASE ~Awaiting(j) /\ ~Attended(j)
    <3>1. quiet'[j] = quiet[j]
      BY <2>4 DEF Crash
    <3> QED BY <2>1, <2>4, <3>1 DEF AgeOK
  <2> QED BY <2>2, <2>3, <2>4
<1> QED BY <1>1, <1>2 DEF TimeInv

LEMMA TimeNext ==
    GraceSuffices /\ BaseInv /\ OneRequest /\ TimeInv /\ [Next]_vars => TimeInv'
<1> SUFFICES ASSUME GraceSuffices, BaseInv, OneRequest, TimeInv, [Next]_vars PROVE TimeInv'
  OBVIOUS
<1>1. TypeOK'
  BY TypeNext DEF BaseInv
<1>2. CASE UNCHANGED vars
  BY <1>2 DEF vars, TimeInv, AgeOK, VerdictOK, Attended, Writing, Live, KeyOf
<1> QED
  BY <1>1, <1>2, TimeSubmit, TimeHandle, TimeEnvironment, TimeTick, TimeCrash DEF Next

\* A grace period beyond the slowest attempt, settling and read together makes
\* every proven absence true.
THEOREM GraceCovers == ASSUME GraceSuffices PROVE Spec => []AbsenceIsTrue
<1>1. Init => TimeInv
  BY ReceiptAssumption DEF Init, TimeInv, AgeOK, VerdictOK, Attended, Writing, NoWorker
<1>2. /\ BaseInv /\ TimeInv => AbsenceIsTrue
      /\ BaseInv /\ OneRequest /\ TimeInv /\ [Next]_vars => OneRequest' /\ TimeInv'
  BY OldAbsenceIsTrue, OneNext, TimeNext
<1> QED BY <1>1, <1>2, BaseInductive, OneInit, PTL DEF Spec
====
