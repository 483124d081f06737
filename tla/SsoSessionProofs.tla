--------------------------- MODULE SsoSessionProofs ---------------------------
(***************************************************************************)
(* Proofs about SsoSession for every number of requests and closing        *)
(* threads and every size of the queue: its inductive invariant, the       *)
(* safety properties that follow from it, and that it implements           *)
(* UpstreamCall.                                                           *)
(***************************************************************************)
EXTENDS SsoSession, FiniteSetTheorems, TLAPS

(* The inductive invariant. *)

\* A job is in one place only, and is done once it has left the owner.
JobOK(r) ==
    /\ pc[r] \in {"new", "healthy", "ready"} =>
        r \notin queue \cup started \cup cancelled \cup done /\ job # r
    /\ r \in queue => r \notin started \cup done /\ job # r
    /\ job = r => r \notin done
    /\ r \in started /\ job # r => r \in done
    /\ box[r] = "busy" => r \notin started /\ r \in done
    /\ pc[r] \in {"running", "overdue"} => r \in started
    /\ answer[r] # "nothing" => pc[r] = "answered"

\* What the place of the owner says about its job.
OwnerOK ==
    /\ job = NoRequest <=> owner \in {"waiting", "stopped"}
    /\ owner \in {"taken", "entering"} => job \notin started
    /\ owner \in {"begun", "connected"} => job \in started \ dispatched
    /\ owner = "sending" => job \in dispatched

\* The caller has been answered, or will be when it has retired the provider.
Ended(r) == pc[r] = "answered" \/ (pc[r] \in {"draining", "waking"} /\ after[r] # "waits")
Outcome(r) == IF pc[r] = "answered" THEN answer[r] ELSE after[r]

\* A job that outlives its caller is cancelled before it is sent, or was sent and is a
\* write whose caller was told so.
EndedOK(r) ==
    Ended(r) =>
        /\ r \in queue \/ job = r => r \in cancelled
        /\ Outcome(r) = "busy" => r \notin started
        /\ Outcome(r) # "closed"
        /\ Outcome(r) = "pending" => r \in Writes \cap dispatched
        /\ owner = "sending" /\ job = r /\ r \in Writes => Outcome(r) = "pending"

\* The queue of a retired provider has somebody who will empty it, and then its owner
\* a sentinel.
Retiring(places) == \E t \in Threads : pc[t] \in places
RetiredOK ==
    Broken =>
        /\ queue = {} \/ Retiring({"queued", "draining"})
        /\ owner = "stopped" \/ stops > 0 \/ Retiring({"queued", "draining", "waking"})

IInv ==
    /\ TypeOK
    /\ IsFiniteSet(queue)
    /\ OwnerOK
    /\ \A r \in Requests : JobOK(r) /\ EndedOK(r)
    /\ RetiredOK

\* The part of the type that needs the finiteness of the queue.
QueueOK == IsFiniteSet(queue) /\ stops \in Nat /\ Cardinality(queue) + stops <= Limit

----------------------------------------------------------------------------
(* Every step preserves each part of it. *)

\* One job less leaves room for the rest.
LEMMA Removed ==
    ASSUME TypeOK, IsFiniteSet(queue), NEW r \in queue, queue' = queue \ {r}, stops' = stops
    PROVE  QueueOK'
<1>1. IsFiniteSet(queue \ {r}) BY FS_RemoveElement
<1>2. Cardinality(queue \ {r}) = Cardinality(queue) - 1 BY FS_RemoveElement
<1>3. Cardinality(queue) \in Nat /\ Cardinality(queue \ {r}) \in Nat BY <1>1, FS_CardinalityType
<1> QED BY <1>1, <1>2, <1>3, LimitAssumption DEF TypeOK, QueueOK

\* The queue stays finite and within its limit.
LEMMA QueueStep == IInv /\ [Next]_vars => QueueOK'
<1> SUFFICES ASSUME IInv, [Next]_vars PROVE QueueOK'
  OBVIOUS
<1>0. IsFiniteSet(queue) /\ Cardinality(queue) \in Nat BY FS_CardinalityType DEF IInv
<1> USE NoRequestAssumption, ClosersAssumption, WritesAssumption, LimitAssumption
    DEF IInv, TypeOK, QueueOK,
        jobs, health, state, results, callers, Threads, Goto
<1>1. ASSUME NEW r \in Requests, Caller(r) \/ RunLate(r)
      PROVE  QueueOK'
  <2>1. CASE CheckHealth(r) BY <2>1 DEF CheckHealth, Leave
  <2>2. CASE CheckThread(r) BY <2>2 DEF CheckThread, Retire
  <2>3. CASE Enqueue(r)
    <3>1. IsFiniteSet(queue \cup {r}) BY <1>0, FS_AddElement
    <3>2. Cardinality(queue \cup {r}) \in {Cardinality(queue), Cardinality(queue) + 1}
      BY <1>0, FS_AddElement
    <3>3. Cardinality(queue \cup {r}) \in Nat BY <3>1, FS_CardinalityType
    <3> QED BY <2>3, <1>0, <3>1, <3>2, <3>3 DEF Enqueue, Put
  <2>4. CASE QueueFull(r) BY <2>4 DEF QueueFull, Leave
  <2>5. CASE Recheck(r) BY <2>5 DEF Recheck, Retire
  <2>6. CASE WaitTimesOut(r) BY <2>6 DEF WaitTimesOut
  <2>7. CASE Late(r) BY <2>7 DEF Late, LeaveQueue, Leave
  <2>8. CASE RunTimesOut(r) BY <2>8 DEF RunTimesOut
  <2>9. CASE Overdue(r) BY <2>9 DEF Overdue, GiveUp, Retire
  <2>10. CASE Collect(r) BY <2>10 DEF Collect, Retire, Leave
  <2>11. CASE RunLate(r) BY <2>11 DEF RunLate
  <2> QED
    BY <1>1, <2>1, <2>2, <2>3, <2>4, <2>5, <2>6, <2>7, <2>8, <2>9, <2>10, <2>11 DEF Caller
<1>2. ASSUME NEW t \in Threads, Drain(t)
      PROVE  QueueOK'
  <2>1. CASE DrainOne(t)
    <3>1. CASE stops > 0
      <4>1. queue' = queue /\ stops' = stops - 1 BY <2>1, <3>1 DEF DrainOne
      <4> QED BY <1>0, <3>1, <4>1 DEF IInv, TypeOK
    <3>2. ASSUME NEW r \in queue, queue' = queue \ {r}, stops' = stops
          PROVE  QueueOK'
      BY <3>2, Removed
    <3> QED BY <2>1, <3>1, <3>2 DEF DrainOne, Foremost
  <2>2. CASE DrainEnd(t) BY <2>2 DEF DrainEnd
  <2>3. CASE Wake(t)
    <3>1. queue' = queue BY <2>3 DEF Wake, EndRetirement
    <3>2. CASE Cardinality(queue) + stops < Limit
      <4>1. stops' = stops + 1 BY <2>3, <3>2 DEF Wake, EndRetirement
      <4> QED BY <1>0, <3>1, <3>2, <4>1
    <3>3. CASE ~(Cardinality(queue) + stops < Limit)
      <4>1. stops' = stops BY <2>3, <3>3 DEF Wake, EndRetirement
      <4> QED BY <1>0, <3>1, <4>1
    <3> QED BY <3>2, <3>3
  <2> QED BY <1>2, <2>1, <2>2, <2>3 DEF Drain
<1>3. ASSUME Owner
      PROVE  QueueOK'
  <2>1. CASE Take
    <3>1. CASE stops > 0
      <4>1. queue' = queue /\ stops' = stops - 1 BY <2>1, <3>1 DEF Take
      <4> QED BY <1>0, <3>1, <4>1 DEF IInv, TypeOK
    <3>2. ASSUME NEW r \in queue, queue' = queue \ {r}, stops' = stops
          PROVE  QueueOK'
      BY <3>2, Removed
    <3> QED BY <2>1, <3>1, <3>2 DEF Take, Foremost
  <2>2. CASE LookAtHealth BY <2>2 DEF LookAtHealth, Deliver, Settle, Refusals
  <2>3. CASE EnterJob BY <2>3 DEF EnterJob, Deliver, Settle
  <2>4. CASE Recover BY <2>4 DEF Recover, Deliver, Settle
  <2>5. CASE Dispatch BY <2>5 DEF Dispatch, SendUnless, Deliver, Settle
  <2>6. CASE Finish BY <2>6 DEF Finish, Deliver, Settle
  <2> QED BY <1>3, <2>1, <2>2, <2>3, <2>4, <2>5, <2>6 DEF Owner
<1>4. ASSUME NEW t \in Closers, Close(t)
      PROVE  QueueOK'
  BY <1>4 DEF Close, Retire
<1>5. CASE UNCHANGED vars BY <1>5 DEF vars
<1> QED BY <1>1, <1>2, <1>3, <1>4, <1>5 DEF Next

\* The other variables keep their types.
LEMMA TypeStep == IInv /\ [Next]_vars => TypeOK'
<1> SUFFICES ASSUME IInv, [Next]_vars PROVE TypeOK'
  OBVIOUS
<1> USE NoRequestAssumption, ClosersAssumption, WritesAssumption, LimitAssumption, QueueStep
    DEF QueueOK, IInv, TypeOK, OwnerOK,
        OwnerPlaces, Places, Results, Answers, jobs, health, state, results, callers, Threads,
            Goto
<1>1. ASSUME NEW r \in Requests, Caller(r) \/ RunLate(r)
      PROVE  TypeOK'
  <2>1. CASE CheckHealth(r) BY <2>1 DEF CheckHealth, Leave
  <2>2. CASE CheckThread(r)
    <3>1. CASE owner = "stopped" BY <2>2, <3>1 DEF CheckThread, Retire
    <3>2. CASE owner # "stopped" BY <2>2, <3>2 DEF CheckThread
    <3> QED BY <3>1, <3>2
  <2>3. CASE Enqueue(r) BY <2>3 DEF Enqueue, Put
  <2>4. CASE QueueFull(r) BY <2>4 DEF QueueFull, Leave
  <2>5. CASE Recheck(r)
    <3>1. CASE Broken BY <2>5, <3>1 DEF Recheck, Retire
    <3>2. CASE ~Broken BY <2>5, <3>2 DEF Recheck
    <3> QED BY <3>1, <3>2
  <2>6. CASE WaitTimesOut(r) BY <2>6 DEF WaitTimesOut
  <2>7. CASE Late(r) BY <2>7 DEF Late, LeaveQueue, Leave
  <2>8. CASE RunTimesOut(r) BY <2>8 DEF RunTimesOut
  <2>9. CASE Overdue(r) BY <2>9 DEF Overdue, GiveUp, Retire
  <2>10. CASE Collect(r)
    <3>1. CASE box[r] = "transport" BY <2>10, <3>1 DEF Collect, Retire
    <3>2. CASE box[r] # "transport"
      <4>1. box[r] \in Answers BY <3>2
      <4>2. answer' \in [Threads -> Answers] BY <2>10, <3>2, <4>1 DEF Collect, Leave
      <4> QED BY <2>10, <3>2, <4>2 DEF Collect, Leave
    <3> QED BY <3>1, <3>2
  <2>11. CASE RunLate(r) BY <2>11 DEF RunLate
  <2> QED
    BY <1>1, <2>1, <2>2, <2>3, <2>4, <2>5, <2>6, <2>7, <2>8, <2>9, <2>10, <2>11 DEF Caller
<1>2. ASSUME NEW t \in Threads, Drain(t)
      PROVE  TypeOK'
  <2>1. CASE DrainOne(t) BY <2>1 DEF DrainOne, Settle, Foremost, Refusals
  <2>2. CASE DrainEnd(t) BY <2>2 DEF DrainEnd
  <2>3. CASE Wake(t) BY <2>3 DEF Wake, EndRetirement, Leave
  <2> QED BY <1>2, <2>1, <2>2, <2>3 DEF Drain
<1>3. ASSUME Owner
      PROVE  TypeOK'
  <2>1. CASE Take BY <2>1 DEF Take, Foremost
  <2>2. CASE LookAtHealth BY <2>2 DEF LookAtHealth, Deliver, Settle, Refusals
  <2>3. CASE EnterJob BY <2>3 DEF EnterJob, Deliver, Settle
  <2>4. CASE Recover BY <2>4 DEF Recover, Deliver, Settle
  <2>5. CASE Dispatch BY <2>5 DEF Dispatch, SendUnless, Deliver, Settle
  <2>6. CASE Finish BY <2>6 DEF Finish, Deliver, Settle
  <2> QED BY <1>3, <2>1, <2>2, <2>3, <2>4, <2>5, <2>6 DEF Owner
<1>4. ASSUME NEW t \in Closers, Close(t)
      PROVE  TypeOK'
  BY <1>4 DEF Close, Retire
<1>5. CASE UNCHANGED vars BY <1>5 DEF vars
<1> QED BY <1>1, <1>2, <1>3, <1>4, <1>5 DEF Next

\* The owner's place goes with its job.
LEMMA OwnerStep == IInv /\ [Next]_vars => OwnerOK'
<1> SUFFICES ASSUME IInv, [Next]_vars PROVE OwnerOK'
  OBVIOUS
<1> USE NoRequestAssumption, ClosersAssumption, WritesAssumption, LimitAssumption
    DEF IInv, TypeOK, OwnerOK, JobOK,
        jobs, health, state, results, callers, Threads, Goto
<1>1. ASSUME NEW r \in Requests, Caller(r) \/ RunLate(r)
      PROVE  OwnerOK'
  <2>1. CASE CheckHealth(r) BY <2>1 DEF CheckHealth, Leave
  <2>2. CASE CheckThread(r) BY <2>2 DEF CheckThread, Retire
  <2>3. CASE Enqueue(r) BY <2>3 DEF Enqueue, Put
  <2>4. CASE QueueFull(r) BY <2>4 DEF QueueFull, Leave
  <2>5. CASE Recheck(r) BY <2>5 DEF Recheck, Retire
  <2>6. CASE WaitTimesOut(r) BY <2>6 DEF WaitTimesOut
  <2>7. CASE Late(r) BY <2>7 DEF Late, LeaveQueue, Leave
  <2>8. CASE RunTimesOut(r) BY <2>8 DEF RunTimesOut
  <2>9. CASE Overdue(r) BY <2>9 DEF Overdue, GiveUp, Retire
  <2>10. CASE Collect(r) BY <2>10 DEF Collect, Retire, Leave
  <2>11. CASE RunLate(r) BY <2>11 DEF RunLate
  <2> QED
    BY <1>1, <2>1, <2>2, <2>3, <2>4, <2>5, <2>6, <2>7, <2>8, <2>9, <2>10, <2>11 DEF Caller
<1>2. ASSUME NEW t \in Threads, Drain(t)
      PROVE  OwnerOK'
  <2>1. CASE DrainOne(t) BY <2>1 DEF DrainOne, Settle, Foremost, Refusals
  <2>2. CASE DrainEnd(t) BY <2>2 DEF DrainEnd
  <2>3. CASE Wake(t) BY <2>3 DEF Wake, EndRetirement, Leave
  <2> QED BY <1>2, <2>1, <2>2, <2>3 DEF Drain
<1>3. ASSUME Owner
      PROVE  OwnerOK'
  <2>1. CASE Take BY <2>1 DEF Take, Foremost
  <2>2. CASE LookAtHealth BY <2>2 DEF LookAtHealth, Deliver, Settle, Refusals
  <2>3. CASE EnterJob BY <2>3 DEF EnterJob, Deliver, Settle
  <2>4. CASE Recover BY <2>4 DEF Recover, Deliver, Settle
  <2>5. CASE Dispatch BY <2>5 DEF Dispatch, SendUnless, Deliver, Settle
  <2>6. CASE Finish BY <2>6 DEF Finish, Deliver, Settle
  <2> QED BY <1>3, <2>1, <2>2, <2>3, <2>4, <2>5, <2>6 DEF Owner
<1>4. ASSUME NEW t \in Closers, Close(t)
      PROVE  OwnerOK'
  BY <1>4 DEF Close, Retire
<1>5. CASE UNCHANGED vars BY <1>5 DEF vars
<1> QED BY <1>1, <1>2, <1>3, <1>4, <1>5 DEF Next

\* A job is in one place, and settled when it leaves the owner.
LEMMA JobStep == IInv /\ [Next]_vars => \A x \in Requests : JobOK(x)'
<1> SUFFICES ASSUME IInv, [Next]_vars PROVE \A x \in Requests : JobOK(x)'
  OBVIOUS
<1> TAKE x \in Requests
<1> USE NoRequestAssumption, ClosersAssumption, WritesAssumption, LimitAssumption
    DEF IInv, TypeOK, OwnerOK, JobOK,
        jobs, health, state, results, callers, Threads, Goto
<1>1. ASSUME NEW r \in Requests, Caller(r) \/ RunLate(r)
      PROVE  JobOK(x)'
  <2>1. CASE CheckHealth(r) BY <2>1 DEF CheckHealth, Leave
  <2>2. CASE CheckThread(r) BY <2>2 DEF CheckThread, Retire
  <2>3. CASE Enqueue(r) BY <2>3 DEF Enqueue, Put
  <2>4. CASE QueueFull(r) BY <2>4 DEF QueueFull, Leave
  <2>5. CASE Recheck(r) BY <2>5 DEF Recheck, Retire
  <2>6. CASE WaitTimesOut(r) BY <2>6 DEF WaitTimesOut
  <2>7. CASE Late(r) BY <2>7 DEF Late, LeaveQueue, Leave
  <2>8. CASE RunTimesOut(r) BY <2>8 DEF RunTimesOut
  <2>9. CASE Overdue(r) BY <2>9 DEF Overdue, GiveUp, Retire
  <2>10. CASE Collect(r) BY <2>10 DEF Collect, Retire, Leave
  <2>11. CASE RunLate(r) BY <2>11 DEF RunLate
  <2> QED
    BY <1>1, <2>1, <2>2, <2>3, <2>4, <2>5, <2>6, <2>7, <2>8, <2>9, <2>10, <2>11 DEF Caller
<1>2. ASSUME NEW t \in Threads, Drain(t)
      PROVE  JobOK(x)'
  <2>1. CASE DrainOne(t) BY <2>1 DEF DrainOne, Settle, Foremost, Refusals
  <2>2. CASE DrainEnd(t) BY <2>2 DEF DrainEnd
  <2>3. CASE Wake(t) BY <2>3 DEF Wake, EndRetirement, Leave
  <2> QED BY <1>2, <2>1, <2>2, <2>3 DEF Drain
<1>3. ASSUME Owner
      PROVE  JobOK(x)'
  <2>1. CASE Take BY <2>1 DEF Take, Foremost
  <2>2. CASE LookAtHealth BY <2>2 DEF LookAtHealth, Deliver, Settle, Refusals
  <2>3. CASE EnterJob BY <2>3 DEF EnterJob, Deliver, Settle
  <2>4. CASE Recover BY <2>4 DEF Recover, Deliver, Settle
  <2>5. CASE Dispatch BY <2>5 DEF Dispatch, SendUnless, Deliver, Settle
  <2>6. CASE Finish BY <2>6 DEF Finish, Deliver, Settle
  <2> QED BY <1>3, <2>1, <2>2, <2>3, <2>4, <2>5, <2>6 DEF Owner
<1>4. ASSUME NEW t \in Closers, Close(t)
      PROVE  JobOK(x)'
  BY <1>4 DEF Close, Retire
<1>5. CASE UNCHANGED vars BY <1>5 DEF vars
<1> QED BY <1>1, <1>2, <1>3, <1>4, <1>5 DEF Next

\* What an answered caller was told stays true of its job.
LEMMA EndedStep == IInv /\ [Next]_vars => \A x \in Requests : EndedOK(x)'
<1> SUFFICES ASSUME IInv, [Next]_vars PROVE \A x \in Requests : EndedOK(x)'
  OBVIOUS
<1> TAKE x \in Requests
<1> USE NoRequestAssumption, ClosersAssumption, WritesAssumption, LimitAssumption
    DEF IInv, TypeOK, OwnerOK, JobOK, EndedOK,
        Ended, Outcome, Results, jobs, health, state, results, callers, Threads, Goto
<1>1. ASSUME NEW r \in Requests, Caller(r) \/ RunLate(r)
      PROVE  EndedOK(x)'
  <2>1. CASE CheckHealth(r) BY <2>1 DEF CheckHealth, Leave
  <2>2. CASE CheckThread(r) BY <2>2 DEF CheckThread, Retire
  <2>3. CASE Enqueue(r) BY <2>3 DEF Enqueue, Put
  <2>4. CASE QueueFull(r) BY <2>4 DEF QueueFull, Leave
  <2>5. CASE Recheck(r) BY <2>5 DEF Recheck, Retire
  <2>6. CASE WaitTimesOut(r) BY <2>6 DEF WaitTimesOut
  <2>7. CASE Late(r) BY <2>7 DEF Late, LeaveQueue, Leave
  <2>8. CASE RunTimesOut(r) BY <2>8 DEF RunTimesOut
  <2>9. CASE Overdue(r) BY <2>9 DEF Overdue, GiveUp, Retire
  <2>10. CASE Collect(r) BY <2>10 DEF Collect, Retire, Leave
  <2>11. CASE RunLate(r) BY <2>11 DEF RunLate
  <2> QED
    BY <1>1, <2>1, <2>2, <2>3, <2>4, <2>5, <2>6, <2>7, <2>8, <2>9, <2>10, <2>11 DEF Caller
<1>2. ASSUME NEW t \in Threads, Drain(t)
      PROVE  EndedOK(x)'
  <2>1. CASE DrainOne(t) BY <2>1 DEF DrainOne, Settle, Foremost, Refusals
  <2>2. CASE DrainEnd(t) BY <2>2 DEF DrainEnd
  <2>3. CASE Wake(t) BY <2>3 DEF Wake, EndRetirement, Leave
  <2> QED BY <1>2, <2>1, <2>2, <2>3 DEF Drain
<1>3. ASSUME Owner
      PROVE  EndedOK(x)'
  <2>1. CASE Take BY <2>1 DEF Take, Foremost
  <2>2. CASE LookAtHealth BY <2>2 DEF LookAtHealth, Deliver, Settle, Refusals
  <2>3. CASE EnterJob BY <2>3 DEF EnterJob, Deliver, Settle
  <2>4. CASE Recover BY <2>4 DEF Recover, Deliver, Settle
  <2>5. CASE Dispatch BY <2>5 DEF Dispatch, SendUnless, Deliver, Settle
  <2>6. CASE Finish BY <2>6 DEF Finish, Deliver, Settle
  <2> QED BY <1>3, <2>1, <2>2, <2>3, <2>4, <2>5, <2>6 DEF Owner
<1>4. ASSUME NEW t \in Closers, Close(t)
      PROVE  EndedOK(x)'
  BY <1>4 DEF Close, Retire
<1>5. CASE UNCHANGED vars BY <1>5 DEF vars
<1> QED BY <1>1, <1>2, <1>3, <1>4, <1>5 DEF Next

\* Somebody empties the queue of a retired provider and wakes its owner.
LEMMA RetiredStep == IInv /\ [Next]_vars => RetiredOK'
<1> SUFFICES ASSUME IInv, [Next]_vars PROVE RetiredOK'
  OBVIOUS
<1> USE NoRequestAssumption, ClosersAssumption, WritesAssumption, LimitAssumption
    DEF IInv, TypeOK, RetiredOK, Retiring, Broken,
        jobs, health, state, results, callers, Threads, Goto
<1>1. ASSUME NEW r \in Requests, Caller(r) \/ RunLate(r)
      PROVE  RetiredOK'
  <2>1. CASE CheckHealth(r) BY <2>1 DEF CheckHealth, Leave
  <2>2. CASE CheckThread(r) BY <2>2 DEF CheckThread, Retire
  <2>3. CASE Enqueue(r) BY <2>3 DEF Enqueue, Put
  <2>4. CASE QueueFull(r) BY <2>4 DEF QueueFull, Leave
  <2>5. CASE Recheck(r) BY <2>5 DEF Recheck, Retire
  <2>6. CASE WaitTimesOut(r) BY <2>6 DEF WaitTimesOut
  <2>7. CASE Late(r) BY <2>7 DEF Late, LeaveQueue, Leave
  <2>8. CASE RunTimesOut(r) BY <2>8 DEF RunTimesOut
  <2>9. CASE Overdue(r) BY <2>9 DEF Overdue, GiveUp, Retire
  <2>10. CASE Collect(r) BY <2>10 DEF Collect, Retire, Leave
  <2>11. CASE RunLate(r) BY <2>11 DEF RunLate
  <2> QED
    BY <1>1, <2>1, <2>2, <2>3, <2>4, <2>5, <2>6, <2>7, <2>8, <2>9, <2>10, <2>11 DEF Caller
<1>2. ASSUME NEW t \in Threads, Drain(t)
      PROVE  RetiredOK'
  <2>1. CASE DrainOne(t) BY <2>1 DEF DrainOne, Settle, Foremost, Refusals
  <2>2. CASE DrainEnd(t) BY <2>2 DEF DrainEnd
  <2>3. CASE Wake(t)
    <3>1. queue = {} => Cardinality(queue) = 0 BY FS_EmptySet
    <3>2. queue' = queue /\ broken' = broken /\ closed' = closed /\ owner' = owner
      BY <2>3 DEF Wake, EndRetirement
    <3>3. \A u \in Threads : u # t => pc'[u] = pc[u] BY <2>3 DEF Wake, EndRetirement, Leave
    <3>4. Retiring({"queued", "draining"}) => Retiring({"queued", "draining"})'
      BY <2>3, <3>3 DEF Wake, EndRetirement
    <3>5. CASE Cardinality(queue) + stops < Limit
      <4>1. stops' = stops + 1 BY <2>3, <3>5 DEF Wake, EndRetirement
      <4> QED BY <3>2, <3>4, <4>1
    <3>6. CASE ~(Cardinality(queue) + stops < Limit)
      <4>1. stops' = stops BY <2>3, <3>6 DEF Wake, EndRetirement
      <4>2. queue = {} => stops > 0 BY <3>1, <3>6
      <4> QED BY <3>2, <3>4, <4>1, <4>2
    <3> QED BY <3>5, <3>6
  <2> QED BY <1>2, <2>1, <2>2, <2>3 DEF Drain
<1>3. ASSUME Owner
      PROVE  RetiredOK'
  <2>1. CASE Take BY <2>1 DEF Take, Foremost
  <2>2. CASE LookAtHealth BY <2>2 DEF LookAtHealth, Deliver, Settle, Refusals
  <2>3. CASE EnterJob BY <2>3 DEF EnterJob, Deliver, Settle
  <2>4. CASE Recover BY <2>4 DEF Recover, Deliver, Settle
  <2>5. CASE Dispatch BY <2>5 DEF Dispatch, SendUnless, Deliver, Settle
  <2>6. CASE Finish BY <2>6 DEF Finish, Deliver, Settle
  <2> QED BY <1>3, <2>1, <2>2, <2>3, <2>4, <2>5, <2>6 DEF Owner
<1>4. ASSUME NEW t \in Closers, Close(t)
      PROVE  RetiredOK'
  BY <1>4 DEF Close, Retire
<1>5. CASE UNCHANGED vars BY <1>5 DEF vars
<1> QED BY <1>1, <1>2, <1>3, <1>4, <1>5 DEF Next

\* It holds at the start.
LEMMA Initial == Init => IInv
<1> SUFFICES ASSUME Init PROVE IInv
  OBVIOUS
<1> USE NoRequestAssumption, LimitAssumption DEF Init
<1>1. IsFiniteSet(queue) /\ Cardinality(queue) = 0 BY FS_EmptySet
<1>0. TypeOK
  <2>1. pc \in [Threads -> Places] /\ answer \in [Threads -> Answers] BY DEF Places, Answers
  <2>2. after \in [Threads -> {"waits", "unavailable", "pending", "closed"}] OBVIOUS
  <2>3. clock \in [Requests -> {"early", "late", "overrun"}] /\ box \in [Requests -> Results]
      BY DEF Results
  <2>4. Cardinality(queue) + stops <= Limit BY <1>1
  <2> QED BY <2>1, <2>2, <2>3, <2>4 DEF TypeOK, OwnerPlaces
<1>2. OwnerOK BY DEF OwnerOK
<1>3. \A r \in Requests : JobOK(r) /\ EndedOK(r) BY DEF JobOK, EndedOK, Ended, Threads
<1>4. RetiredOK BY DEF RetiredOK, Broken
<1> QED BY <1>0, <1>1, <1>2, <1>3, <1>4 DEF IInv

\* The invariant holds in every reachable state.
THEOREM Inductive == Spec => []IInv
<1>1. IInv /\ [Next]_vars => IInv'
  BY QueueStep, TypeStep, OwnerStep, JobStep, EndedStep, RetiredStep DEF IInv, QueueOK
<1> QED BY Initial, <1>1, PTL DEF Spec

----------------------------------------------------------------------------
(* What follows from it. *)

\* Every variable keeps its type, and the queue its limit, sentinels included.
THEOREM TypeCorrect == Spec => []TypeOK
<1>1. IInv => TypeOK BY DEF IInv
<1> QED BY Inductive, <1>1, PTL

\* UpstreamBusy means that the request did not reach Jira and never will (_submit).
THEOREM BusyMeansUnsent == Spec => []BusyIsUnsent
<1>1. IInv => BusyIsUnsent
  BY DEF IInv, TypeOK, JobOK, EndedOK, Ended, Outcome, BusyIsUnsent
<1> QED BY Inductive, <1>1, PTL

\* The caller of a write that is still out in the browser holds its pending operation
\* (_submit at its running budget).
THEOREM WriteIsReported == Spec => []RunningWriteIsPending
<1>1. IInv => RunningWriteIsPending
  BY DEF IInv, OwnerOK, TypeOK, EndedOK, Ended, Outcome, RunningWriteIsPending
<1> QED BY Inductive, <1>1, PTL

\* A retired provider keeps no job in its queue (_mark_broken, and the second look at the
\* health in _submit).
THEOREM NobodyIsStranded == Spec => []NoneStranded
<1>1. IInv => NoneStranded BY DEF IInv, RetiredOK, Retiring, NoneStranded
<1> QED BY Inductive, <1>1, PTL

\* The owner of a retired provider is woken (_mark_broken).
THEOREM OwnerGetsSentinel == Spec => []OwnerIsWoken
<1>1. IInv => OwnerIsWoken BY DEF IInv, RetiredOK, Retiring, OwnerIsWoken
<1> QED BY Inductive, <1>1, PTL

----------------------------------------------------------------------------
(* The provider implements UpstreamCall. *)

Finished == {r \in dispatched : ~(owner = "sending" /\ job = r)}
Unseen ==
    /\ dispatched' = dispatched
    /\ Finished' = Finished
    /\ \A r \in Requests : Told(r)' = Told(r)

\* A step that only moves jobs and callers about is a stutter of the contract.
LEMMA Quiet ==
    ASSUME Unseen
    PROVE  UNCHANGED Contract!vars
BY DEF Contract!vars, Finished, Unseen

\* A caller leaves with an answer that is true of its request.
LEMMA LeaveStep ==
    ASSUME IInv, NEW r \in Requests, NEW what, Leave(r, what), pc[r] # "answered",
           UNCHANGED <<dispatched, owner, job>>,
           what = "busy" => r \notin dispatched,
           what = "pending" => r \in dispatched,
           r \in dispatched => \/ what = "pending"
                               \/ what = "unavailable" /\ r \notin Writes
                               \/ r \in Finished
    PROVE  Contract!Next
<1> DEFINE t == [x \in Requests |-> Told(x)]
<1>1. Told(r) = "nothing" BY DEF Told
<1>2. /\ Told(r)' \in {"refused", "abandoned", "answered"}
      /\ pc'[r] = "answered"
      /\ answer'[r] = what
  BY DEF Leave, Goto, IInv, TypeOK, Threads, Told
<1>3. \A x \in Requests : x # r => Told(x)' = Told(x)
  BY DEF Leave, Goto, IInv, TypeOK, Threads, Told
<1>4. t' = [t EXCEPT ![r] = Told(r)'] BY <1>3
<1>5. t[r] = "nothing" BY <1>1
<1>6. Finished' = Finished BY DEF Finished
<1>7. CASE Told(r)' = "refused"
  <2>1. r \notin dispatched BY <1>2, <1>7 DEF Told
  <2>2. Contract!Refuse(r)
      BY <1>4, <1>5, <1>6, <1>7, <2>1 DEF Contract!Refuse, Contract!Tell, Finished
  <2> QED BY <2>2 DEF Contract!Next
<1>8. CASE Told(r)' = "abandoned"
  <2>1. r \in dispatched BY <1>2, <1>8 DEF Told
  <2>2. Contract!Abandon(r)
      BY <1>4, <1>5, <1>6, <1>8, <2>1 DEF Contract!Abandon, Contract!Tell, Finished
  <2> QED BY <2>2 DEF Contract!Next
<1>9. CASE Told(r)' = "answered"
  <2>1. r \in Finished BY <1>2, <1>9 DEF Told
  <2>2. Contract!Answer(r)
      BY <1>4, <1>5, <1>6, <1>9, <2>1 DEF Contract!Answer, Contract!Tell, Finished
  <2> QED BY <2>2 DEF Contract!Next
<1> QED BY <1>2, <1>7, <1>8, <1>9

\* Every step is one of the contract or a stutter of it.
LEMMA ContractStep == IInv /\ [Next]_vars => [Contract!Next]_Contract!vars
<1> SUFFICES ASSUME IInv, [Next]_vars PROVE [Contract!Next]_Contract!vars
  OBVIOUS
<1> USE NoRequestAssumption, ClosersAssumption, WritesAssumption
    DEF IInv, TypeOK, OwnerOK, JobOK, Finished, Unseen, Told, jobs, health, state, results,
        callers, Threads, Goto
<1>1. ASSUME NEW r \in Requests, Caller(r) \/ RunLate(r)
      PROVE  [Contract!Next]_Contract!vars
  <2>1. CASE CheckHealth(r)
    <3>1. CASE Broken BY <2>1, <3>1, LeaveStep DEF CheckHealth
    <3>2. CASE ~Broken
      <4>1. Unseen BY <2>1, <3>2 DEF CheckHealth
      <4> QED BY <4>1, Quiet
    <3> QED BY <3>1, <3>2
  <2>2. CASE CheckThread(r)
    <3>1. Unseen BY <2>2 DEF CheckThread, Retire
    <3> QED BY <3>1, Quiet
  <2>3. CASE Enqueue(r)
    <3>1. Unseen BY <2>3 DEF Enqueue, Put
    <3> QED BY <3>1, Quiet
  <2>4. CASE QueueFull(r) BY <2>4, LeaveStep DEF QueueFull
  <2>5. CASE Recheck(r)
    <3>1. Unseen BY <2>5 DEF Recheck, Retire
    <3> QED BY <3>1, Quiet
  <2>6. CASE WaitTimesOut(r)
    <3>1. Unseen BY <2>6 DEF WaitTimesOut
    <3> QED BY <3>1, Quiet
  <2>7. CASE Late(r)
    <3>1. CASE r \notin started BY <2>7, <3>1, LeaveStep DEF Late, LeaveQueue
    <3>2. CASE r \in started
      <4>1. Unseen BY <2>7, <3>2 DEF Late, LeaveQueue
      <4> QED BY <4>1, Quiet
    <3> QED BY <3>1, <3>2
  <2>8. CASE RunTimesOut(r)
    <3>1. Unseen BY <2>8 DEF RunTimesOut
    <3> QED BY <3>1, Quiet
  <2>9. CASE Overdue(r)
    <3>1. Unseen BY <2>9 DEF Overdue, GiveUp, Retire
    <3> QED BY <3>1, Quiet
  <2>10. CASE Collect(r)
    <3>1. CASE box[r] = "transport"
      <4>1. Unseen BY <2>10, <3>1 DEF Collect, Retire
      <4> QED BY <4>1, Quiet
    <3>2. CASE box[r] # "transport"
      <4>1. r \in dispatched => r \in Finished BY <2>10 DEF Collect
      <4>2. box[r] = "busy" => r \notin dispatched BY <2>10 DEF Collect
      <4>3. box[r] # "pending" BY DEF Results
      <4>4. Leave(r, box[r]) /\ pc[r] # "answered" /\ UNCHANGED <<dispatched, owner, job>>
        BY <2>10, <3>2 DEF Collect
      <4> HIDE DEF IInv, Finished, Goto
      <4> QED BY <4>1, <4>2, <4>3, <4>4, LeaveStep
    <3> QED BY <3>1, <3>2
  <2>11. CASE RunLate(r)
    <3>1. Unseen BY <2>11 DEF RunLate
    <3> QED BY <3>1, Quiet
  <2> QED
    BY <1>1, <2>1, <2>2, <2>3, <2>4, <2>5, <2>6, <2>7, <2>8, <2>9, <2>10, <2>11 DEF Caller
<1>2. ASSUME NEW c \in Threads, Drain(c)
      PROVE  [Contract!Next]_Contract!vars
  <2>1. CASE DrainOne(c)
    <3>1. Unseen BY <2>1 DEF DrainOne, Settle, Foremost, Refusals
    <3> QED BY <3>1, Quiet
  <2>2. CASE DrainEnd(c)
    <3>1. Unseen BY <2>2 DEF DrainEnd
    <3> QED BY <3>1, Quiet
  <2>3. CASE Wake(c)
    <3>1. CASE c \in Requests /\ after[c] # "waits"
      <4>1. Leave(c, after[c]) /\ pc[c] # "answered" /\ UNCHANGED <<dispatched, owner, job>>
        BY <2>3, <3>1 DEF Wake, EndRetirement
      <4>2. after[c] = "pending" => c \in dispatched
        BY <2>3, <3>1 DEF Wake, EndRetirement, EndedOK, Ended, Outcome
      <4>3. after[c] \in {"unavailable", "pending"}
        BY <2>3, <3>1 DEF Wake, EndRetirement, EndedOK, Ended, Outcome
      <4>4. c \in dispatched /\ c \in Writes /\ after[c] # "pending" => c \in Finished
        BY <2>3, <3>1 DEF Wake, EndRetirement, EndedOK, Ended, Outcome
      <4> HIDE DEF IInv, Finished, Goto
      <4> QED BY <3>1, <4>1, <4>2, <4>3, <4>4, LeaveStep
    <3>2. CASE ~(c \in Requests /\ after[c] # "waits")
      <4>1. Unseen BY <2>3, <3>2 DEF Wake, EndRetirement, Leave
      <4> QED BY <4>1, Quiet
    <3> QED BY <3>1, <3>2
  <2> QED BY <1>2, <2>1, <2>2, <2>3 DEF Drain
<1>3. ASSUME Owner
      PROVE  [Contract!Next]_Contract!vars
  <2>1. CASE Take
    <3>1. Unseen BY <2>1 DEF Take, Foremost
    <3> QED BY <3>1, Quiet
  <2>2. CASE LookAtHealth
    <3>1. Unseen BY <2>2 DEF LookAtHealth, Deliver, Settle, Refusals
    <3> QED BY <3>1, Quiet
  <2>3. CASE EnterJob
    <3>1. Unseen BY <2>3 DEF EnterJob, Deliver, Settle
    <3> QED BY <3>1, Quiet
  <2>4. CASE Recover
    <3>1. Unseen BY <2>4 DEF Recover, Deliver, Settle
    <3> QED BY <3>1, Quiet
  <2>5. CASE Dispatch
    <3>1. CASE job \in cancelled \/ Broken
      <4>1. Unseen BY <2>5, <3>1 DEF Dispatch, SendUnless, Deliver, Settle
      <4> QED BY <4>1, Quiet
    <3>2. CASE ~(job \in cancelled \/ Broken)
      <4>1. job \in Requests \ dispatched BY <2>5 DEF Dispatch, SendUnless
      <4>2. dispatched' = dispatched \cup {job} /\ job' = job /\ owner' = "sending"
        BY <2>5, <3>2 DEF Dispatch, SendUnless
      <4>3. Finished' = Finished BY <2>5, <4>1, <4>2 DEF Dispatch, SendUnless
      <4>4. Told(job) = "nothing" BY <2>5, <3>2, <4>1 DEF Dispatch, SendUnless, EndedOK, Ended
      <4>5. \A x \in Requests : Told(x)' = Told(x)
        BY <2>5, <4>1, <4>2, <4>4 DEF Dispatch, SendUnless
      <4>6. Contract!Send(job) BY <4>1, <4>2, <4>3, <4>4, <4>5 DEF Contract!Send
      <4> QED BY <4>1, <4>6 DEF Contract!Next
    <3> QED BY <3>1, <3>2
  <2>6. CASE Finish
    <3>1. PICK r \in Requests : r = job /\ r \in dispatched /\ r \notin Finished
        BY <2>6 DEF Finish
    <3>2. dispatched' = dispatched /\ Finished' = Finished \cup {r}
      BY <2>6, <3>1 DEF Finish, Deliver
    <3>3. \A x \in Requests : Told(x)' = Told(x) BY <2>6 DEF Finish, Deliver
    <3>4. Contract!Finish(r) BY <3>1, <3>2, <3>3 DEF Contract!Finish
    <3> QED BY <3>4 DEF Contract!Next
  <2> QED BY <1>3, <2>1, <2>2, <2>3, <2>4, <2>5, <2>6 DEF Owner
<1>4. ASSUME NEW c \in Closers, Close(c)
      PROVE  [Contract!Next]_Contract!vars
  <2>1. Unseen BY <1>4 DEF Close, Retire
  <2> QED BY <2>1, Quiet
<1>5. CASE UNCHANGED vars
  <2>1. Unseen BY <1>5 DEF vars
  <2> QED BY <2>1, Quiet
<1> QED BY <1>1, <1>2, <1>3, <1>4, <1>5 DEF Next

\* The initial states agree.
LEMMA ContractInitial == Init => Contract!Init
BY DEF Init, Contract!Init, Told, Threads

\* A request is sent at most once, never after its caller was answered, and every caller
\* is told the truth about it (_submit, _loop, _mark_broken).
THEOREM ImplementsUpstreamCall == Spec => ContractSpec
BY Inductive, ContractInitial, ContractStep, PTL DEF Spec, ContractSpec, Contract!Spec

=============================================================================
