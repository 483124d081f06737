-------------------------- MODULE SharedCacheProofs --------------------------
(***************************************************************************)
(* Proofs about SharedCache for every set of keys, every number of readers *)
(* and every limit: its inductive invariant and the safety properties that *)
(* follow from it.                                                         *)
(*                                                                         *)
(* What was invalidated does not come back because a producer whose fence  *)
(* is not older than its key's last invalidation has read what that one    *)
(* demands (ProducedOK), and no other may store.  A follower is answered   *)
(* by a producer of its own key and generation, which satisfies it too     *)
(* (WaitOK); the table of flights is that of the running producers         *)
(* (FlightsOK).                                                            *)
(***************************************************************************)
EXTENDS SharedCache, SequenceTheorems, TLAPS

ProducingPlaces == {"produce", "store", "settle", "retire"}
Valued(p) == got[p].outcome \in {"value", "partial"}

----------------------------------------------------------------------------
\* The records of the threads, as sets of their own.
ReqSet == [key : Keys, strict : BOOLEAN, alive : BOOLEAN, floor : Nat]
FlySet == [fence : Nat, started : Nat, owner : Procs]
AnswerSet == [outcome : Outcomes, version : Nat, seen : Nat, flag : Flags]
FlightSet == [key : Keys, fence : Nat, owner : Procs]
JobSet == [key : Keys, fence : Nat]
CopySet == Copies \cup {NoCopy}

Typing ==
    /\ now \in Nat /\ fence \in Nat /\ setCount \in 0..(PurgeEvery - 1)
    /\ jira \in [Keys -> Nat] /\ cut \in [Keys -> Nat] /\ floor \in [Keys -> Nat]
    /\ gone \subseteq Keys /\ written \subseteq Keys /\ removed \subseteq Keys /\ forgotten \subseteq Keys
    /\ row \in [Keys -> CopySet] /\ shown \in [Keys -> CopySet]
    /\ flights \subseteq FlightSet /\ queue \in Seq(JobSet)
    /\ pc \in [Procs -> Places] /\ req \in [Procs -> ReqSet] /\ fly \in [Procs -> FlySet]
    /\ got \in [Procs -> AnswerSet]

LEMMA TypeIsTyping == (TypeOK <=> Typing) /\ (TypeOK' <=> Typing')
BY DEF TypeOK, Typing, ReqSet, FlySet, AnswerSet, FlightSet, JobSet, CopySet

LEMMA Reqs ==
    /\ NoReq \in ReqSet
    /\ \A k \in Keys, s, a \in BOOLEAN, f \in Nat :
          [key |-> k, strict |-> s, alive |-> a, floor |-> f] \in ReqSet
    /\ \A r \in ReqSet : r.key \in Keys /\ r.strict \in BOOLEAN /\ r.alive \in BOOLEAN /\ r.floor \in Nat
BY KeysAssumption DEF NoReq, ReqSet

LEMMA Flies ==
    /\ NoFly \in FlySet
    /\ \A f, s \in Nat, p \in Procs : [fence |-> f, started |-> s, owner |-> p] \in FlySet
    /\ \A x \in FlySet : x.fence \in Nat /\ x.started \in Nat /\ x.owner \in Procs
BY DEF NoFly, FlySet, Procs

LEMMA Answers ==
    /\ Nothing \in AnswerSet
    /\ \A o \in Outcomes, v, s \in Nat, f \in Flags :
          [outcome |-> o, version |-> v, seen |-> s, flag |-> f] \in AnswerSet
    /\ \A x \in AnswerSet :
          x.outcome \in Outcomes /\ x.version \in Nat /\ x.seen \in Nat /\ x.flag \in Flags
    /\ {"none", "value", "partial", "failed", "gone"} \subseteq Outcomes
    /\ {"none", "fresh", "stale", "invalidated"} \subseteq Flags
BY DEF Nothing, AnswerSet, Outcomes, Flags

LEMMA Flights ==
    /\ \A k \in Keys, f \in Nat, p \in Procs : [key |-> k, fence |-> f, owner |-> p] \in FlightSet
    /\ \A x \in FlightSet : x.key \in Keys /\ x.fence \in Nat /\ x.owner \in Procs
BY DEF FlightSet

LEMMA Jobs ==
    /\ \A k \in Keys, f \in Nat : [key |-> k, fence |-> f] \in JobSet
    /\ \A x \in JobSet : x.key \in Keys /\ x.fence \in Nat
BY DEF JobSet

LEMMA CopiesTyped ==
    /\ NoCopy \in CopySet
    /\ \A v, t \in Nat : [version |-> v, at |-> t] \in CopySet /\ [version |-> v, at |-> t] # NoCopy
    /\ \A c \in CopySet : c # NoCopy => c.version \in Nat /\ c.at \in Nat
BY CopyAssumption DEF CopySet, Copies

LEMMA PutTyped ==
    ASSUME Typing, NEW k \in Keys, NEW copy \in CopySet, Put(k, copy)
    PROVE  row' \in [Keys -> CopySet] /\ shown' \in [Keys -> CopySet] /\ setCount' \in 0..(PurgeEvery - 1)
BY TimesAssumption, CopiesTyped DEF Put, Purged, Typing

LEMMA ShownTyped ==
    ASSUME Typing, NEW k \in Keys, NEW copy \in CopySet, copy # NoCopy
    PROVE  Shown(k, copy) \in AnswerSet
BY CopiesTyped, Answers DEF Shown, FlagOf

LEMMA AliveTyped == ASSUME Typing, NEW k \in Keys PROVE Alive(k) \in CopySet
BY CopiesTyped DEF Alive, Typing

LEMMA PlacesTyped ==
    Places = {"idle", "missed", "schedule", "refresh", "wait", "produce", "store", "settle",
              "retire", "resume", "done", "fetched"}
BY DEF Places

LEMMA ForgetTyped ==
    ASSUME Typing, NEW k \in Keys, Forget(k)
    PROVE  /\ row' \in [Keys -> CopySet] /\ shown' \in [Keys -> CopySet]
           /\ setCount' \in 0..(PurgeEvery - 1) /\ fence' \in Nat
           /\ cut' \in [Keys -> Nat] /\ floor' \in [Keys -> Nat] /\ forgotten' \subseteq Keys
<1>1. NoCopy \in CopySet BY CopiesTyped
<1>2. row' \in [Keys -> CopySet] /\ shown' \in [Keys -> CopySet] BY <1>1 DEF Forget, Typing
<1>3. fence + 1 \in Nat /\ jira[k] \in Nat BY DEF Typing
<1>4. cut' \in [Keys -> Nat] /\ floor' \in [Keys -> Nat] BY <1>3 DEF Forget, Typing
<1> QED BY <1>2, <1>3, <1>4 DEF Forget, Typing

LEMMA TypingStep == Typing /\ [Next]_vars => Typing'
<1> SUFFICES ASSUME Typing, [Next]_vars PROVE Typing'
  OBVIOUS
<1> USE CopiesTyped, Reqs, Flies, Answers, Flights, Jobs, PlacesTyped
<1> USE DEF Typing, world, tables, threads, history, Goto, Give
<1>1. ASSUME NEW p \in Procs, Step(p) PROVE Typing'
  <2>1. CASE Join(p)
    <3>1. PICK x \in flights :
            IF pc[x.owner] = "retire"
              THEN Goto(p, "resume") /\ Give(p, got[x.owner]) /\ UNCHANGED fly
              ELSE /\ Goto(p, "wait")
                   /\ fly' = [fly EXCEPT ![p] = [fence |-> fence, started |-> 0, owner |-> x.owner]]
                   /\ UNCHANGED got
      BY <2>1 DEF Join, FlightOf
    <3>2. x.owner \in Procs OBVIOUS
    <3>3. got' \in [Procs -> AnswerSet] /\ fly' \in [Procs -> FlySet] /\ pc' \in [Procs -> Places]
      <4>1. got[x.owner] \in AnswerSet BY <3>2
      <4>2. [fence |-> fence, started |-> 0, owner |-> x.owner] \in FlySet BY <3>2
      <4>3. pc' \in [Procs -> Places] BY <3>1
      <4>4. got' \in [Procs -> AnswerSet] BY <3>1, <4>1
      <4>5. fly' \in [Procs -> FlySet] BY <3>1, <4>2
      <4> QED BY <4>3, <4>4, <4>5
    <3> QED BY <2>1, <3>3 DEF Join
  <2>2. CASE HitLate(p)
    <3>1. Shown(req[p].key, row[req[p].key]) \in AnswerSet
      BY <2>2, ShownTyped DEF HitLate, Fresh
    <3> QED BY <2>2, <3>1 DEF HitLate
  <2>3. CASE Own(p)
    <3>1. [key |-> req[p].key, fence |-> fence, owner |-> p] \in FlightSet OBVIOUS
    <3>2. [fence |-> fence, started |-> now, owner |-> p] \in FlySet OBVIOUS
    <3>3. flights' \subseteq FlightSet BY <2>3, <3>1 DEF Own
    <3>4. fly' \in [Procs -> FlySet] BY <2>3, <3>2 DEF Own
    <3>5. pc' \in [Procs -> Places] BY <2>3 DEF Own
    <3> QED BY <2>3, <3>3, <3>4, <3>5 DEF Own
  <2>4. CASE Produce(p)
    <3>1. got' \in [Procs -> AnswerSet]
      <4>1. jira[req[p].key] \in Nat OBVIOUS
      <4>2. \A o \in {"value", "partial"} :
              [outcome |-> o, version |-> jira[req[p].key], seen |-> now, flag |-> "none"] \in AnswerSet
        BY <4>1
      <4>3. \A o \in {"failed", "gone"} :
              [outcome |-> o, version |-> 0, seen |-> 0, flag |-> "none"] \in AnswerSet
        OBVIOUS
      <4>4. \E a \in AnswerSet : Give(p, a) BY <2>4, <4>2, <4>3 DEF Produce
      <4> QED BY <4>4
    <3>2. pc' \in [Procs -> Places] BY <2>4 DEF Produce
    <3> QED BY <2>4, <3>1, <3>2 DEF Produce
  <2>5. CASE Store(p)
    <3>0. /\ pc' \in [Procs -> Places] /\ UNCHANGED <<world, flights, queue, req, fly>>
      BY <2>5 DEF Store
    <3>1. got' \in [Procs -> AnswerSet]
      <4>1. \A flag \in Flags : Label(p, flag) => got' \in [Procs -> AnswerSet]
        <5> TAKE flag \in Flags
        <5>1. [outcome |-> got[p].outcome, version |-> got[p].version, seen |-> 0, flag |-> flag]
                \in AnswerSet
          OBVIOUS
        <5> QED BY <5>1 DEF Label
      <4>2. \E flag \in {"none", "fresh", "stale", "invalidated"} : Label(p, flag)
        BY <2>5 DEF Store, StoreValue, SkipStore, ForgetDenied, StoreNothing
      <4> QED BY <4>1, <4>2
    <3>2. CASE StoreValue(p)
      <4>1. [version |-> got[p].version, at |-> fly[p].started] \in CopySet OBVIOUS
      <4>2. Put(req[p].key, [version |-> got[p].version, at |-> fly[p].started]) BY <3>2 DEF StoreValue
      <4>3. /\ row' \in [Keys -> CopySet]
            /\ shown' \in [Keys -> CopySet]
            /\ setCount' \in 0..(PurgeEvery - 1)
        BY <4>1, <4>2, PutTyped
      <4> QED BY <3>0, <3>1, <3>2, <4>3 DEF StoreValue
    <3>3. CASE SkipStore(p) BY <3>0, <3>1, <3>3 DEF SkipStore
    <3>4. CASE ForgetDenied(p)
      <4>1. Forget(req[p].key) BY <3>4 DEF ForgetDenied
      <4> QED BY <3>0, <3>1, <4>1, ForgetTyped
    <3>5. CASE StoreNothing(p) BY <3>0, <3>1, <3>5 DEF StoreNothing
    <3> QED BY <2>5, <3>2, <3>3, <3>4, <3>5 DEF Store
  <2>6. CASE Settle(p) BY <2>6 DEF Settle, Followers
  <2>7. CASE Retire(p) BY <2>7 DEF Retire
  <2>8. CASE Resume(p)
    <3>1. Alive(req[p].key) \in CopySet BY AliveTyped
    <3>2. Alive(req[p].key) # NoCopy =>
            Shown(req[p].key, Alive(req[p].key)) \in AnswerSet
      BY <3>1, ShownTyped
    <3> QED BY <2>8, <3>2 DEF Resume
  <2>9. CASE Return(p) BY <2>9 DEF Return
  <2> QED BY <1>1, <2>1, <2>2, <2>3, <2>4, <2>5, <2>6, <2>7, <2>8, <2>9 DEF Step
<1>2. ASSUME NEW r \in Readers, ReaderStep(r) PROVE Typing'
  <2>0. r \in Procs BY DEF Procs
  <2>1. CASE Snapshot(r)
    <3>1. Alive(req[r].key) \in CopySet BY <2>0, AliveTyped
    <3>2. Alive(req[r].key) # NoCopy =>
            Shown(req[r].key, Alive(req[r].key)) \in AnswerSet
      BY <2>0, <3>1, ShownTyped
    <3>3. pc' \in [Procs -> Places] BY <2>0, <2>1 DEF Snapshot
    <3>4. got' \in [Procs -> AnswerSet] BY <2>0, <2>1, <3>2 DEF Snapshot
    <3>5. req' \in [Procs -> ReqSet]
      <4>1. \A b \in BOOLEAN : [key |-> req[r].key, strict |-> req[r].strict, alive |-> b,
                                floor |-> req[r].floor] \in ReqSet
        BY <2>0
      <4>2. \/ UNCHANGED req
            \/ \E b \in BOOLEAN :
                 req' = [req EXCEPT ![r] = [key |-> req[r].key, strict |-> req[r].strict,
                                            alive |-> b, floor |-> req[r].floor]]
        <5>1. (~req[r].strict /\ Alive(req[r].key) # NoCopy) \in BOOLEAN OBVIOUS
        <5> HIDE DEF Typing
        <5> QED BY <2>1, <5>1, Zenon DEF Snapshot
      <4> QED BY <4>1, <4>2
    <3> QED BY <2>1, <3>3, <3>4, <3>5 DEF Snapshot
  <2>2. CASE Schedule(r)
    <3>1. Append(queue, [key |-> req[r].key, fence |-> fence]) \in Seq(JobSet)
      BY <2>0, AppendProperties
    <3> QED BY <2>0, <2>2, <3>1 DEF Schedule
  <2>3. CASE SetThrough(r)
    <3>1. [version |-> got[r].version, at |-> now] \in CopySet BY <2>0
    <3>2. /\ row' \in [Keys -> CopySet]
          /\ shown' \in [Keys -> CopySet]
          /\ setCount' \in 0..(PurgeEvery - 1)
      BY <2>0, <2>3, <3>1, PutTyped DEF SetThrough
    <3> QED BY <2>0, <2>3, <3>2 DEF SetThrough
  <2> QED BY <1>2, <2>1, <2>2, <2>3 DEF ReaderStep
<1>3. ASSUME NEW r \in Readers, NEW k \in Keys, FetchMany(r, k) PROVE Typing'
  <2>0. r \in Procs BY DEF Procs
  <2> QED BY <1>3, <2>0 DEF FetchMany
<1>4. ASSUME NEW r \in Readers, NEW k \in Keys, NEW strict \in Modes, Read(r, k, strict) PROVE Typing'
  <2>0. r \in Procs /\ strict \in BOOLEAN BY ModesAssumption DEF Procs
  <2>1. Fresh(k) => Shown(k, row[k]) \in AnswerSet
    BY ShownTyped DEF Fresh
  <2>2. [key |-> k, strict |-> strict, alive |-> FALSE, floor |-> floor[k]] \in ReqSet BY <2>0
  <2>3. req' \in [Procs -> ReqSet] BY <1>4, <2>2 DEF Read
  <2>4. pc' \in [Procs -> Places] BY <1>4 DEF Read
  <2>5. got' \in [Procs -> AnswerSet] BY <1>4, <2>1 DEF Read
  <2> QED BY <1>4, <2>3, <2>4, <2>5 DEF Read
<1>5. CASE TakeJob
  <2>1. Tail(queue) \in Seq(JobSet) /\ Head(queue) \in JobSet
    BY <1>5, HeadTailProperties DEF TakeJob
  <2>2. /\ pc' \in [Procs -> Places] /\ req' \in [Procs -> ReqSet]
    <3>1. [key |-> Head(queue).key, strict |-> TRUE, alive |-> FALSE, floor |-> 0] \in ReqSet
      BY <2>1
    <3>2. pc' \in [Procs -> Places] BY <1>5 DEF TakeJob
    <3>3. req' \in [Procs -> ReqSet] BY <1>5, <3>1 DEF TakeJob
    <3> QED BY <3>2, <3>3
  <2> QED BY <1>5, <2>1, <2>2 DEF TakeJob
<1>6. CASE World
  <2>1. ASSUME NEW k \in Keys, Invalidate(k) PROVE Typing' BY <2>1 DEF Invalidate, Archive
  <2>2. ASSUME NEW k \in Keys, ForgetDeleted(k) PROVE Typing'
    BY <2>2, ForgetTyped DEF ForgetDeleted
  <2>3. ASSUME NEW k \in Keys, Write(k) \/ Delete(k) \/ Edit(k) \/ Deny(k) PROVE Typing'
    <3>0. jira[k] + 1 \in Nat OBVIOUS
    <3>1. jira' \in [Keys -> Nat] BY <2>3, <3>0 DEF Write, Delete, Edit, Deny
    <3>2. gone' \subseteq Keys /\ written' \subseteq Keys /\ removed' \subseteq Keys
      BY <2>3 DEF Write, Delete, Edit, Deny
    <3>3. UNCHANGED <<now, tables, fence, flights, queue, threads, history>>
      BY <2>3 DEF Write, Delete, Edit, Deny
    <3> QED BY <3>1, <3>2, <3>3
  <2>4. CASE InvalidateAll BY <2>4 DEF InvalidateAll
  <2>5. CASE Tick
    <3>1. now' \in Nat BY <2>5 DEF Tick
    <3> QED BY <2>5, <3>1 DEF Tick
  <2>6. CASE Restart
    <3>1. setCount' \in 0..(PurgeEvery - 1) BY <2>6, TimesAssumption DEF Restart
    <3>2. queue' \in Seq(JobSet) BY <2>6 DEF Restart
    <3>3. /\ pc' \in [Procs -> Places] /\ req' \in [Procs -> ReqSet]
          /\ fly' \in [Procs -> FlySet] /\ got' \in [Procs -> AnswerSet]
      BY <2>6 DEF Restart
    <3> QED BY <2>6, <3>1, <3>2, <3>3 DEF Restart
  <2> QED BY <1>6, <2>1, <2>2, <2>3, <2>4, <2>5, <2>6 DEF World
<1>7. CASE UNCHANGED vars BY <1>7 DEF vars
<1> QED BY <1>1, <1>2, <1>3, <1>4, <1>5, <1>6, <1>7 DEF Next


----------------------------------------------------------------------------
(* The inductive invariant, in parts. *)

(* A row is not older than its key's last invalidation, a forgotten key has no copy, and a
   generation that began is not later than the counter. *)
KeyOK(k) ==
    /\ cut[k] <= fence
    /\ floor[k] <= jira[k]
    /\ k \in FencedKeys /\ row[k] # NoCopy => row[k].version >= floor[k]
    /\ k \in removed \cup forgotten => k \in gone
    /\ k \in forgotten \cap FencedKeys => row[k] = NoCopy /\ shown[k] = NoCopy
    /\ row[k] = NoCopy \/ shown[k] = NoCopy

ThreadOK(p) ==
    /\ fly[p].fence <= fence /\ fly[p].started <= now
    /\ req[p].floor <= floor[req[p].key]
    /\ pc[p] = "fetched" => req[p].key \in ThroughKeys
    /\ pc[p] = "schedule" => ~req[p].strict

(* A producer that read Jira after its key's last invalidation read what that one demands. *)
ProducedOK(p) ==
    pc[p] \in {"store", "settle", "retire"} =>
        /\ Valued(p) /\ cut[req[p].key] <= fly[p].fence =>
              got[p].version >= floor[req[p].key] /\ req[p].key \notin forgotten
        /\ pc[p] = "store" /\ got[p].outcome = "value" => fly[p].started <= got[p].seen
        /\ got[p].outcome = "gone" => req[p].key \in gone
        /\ Valued(p) => got[p].version >= req[p].floor

(* A follower waits for an unsettled producer, whose result is also new enough for it. *)
WaitOK(q) ==
    pc[q] = "wait" =>
        /\ pc[fly[q].owner] \in {"produce", "store", "settle"}
        /\ req[fly[q].owner].key = req[q].key
        /\ fly[fly[q].owner].fence = fly[q].fence
        /\ pc[fly[q].owner] # "produce" /\ Valued(fly[q].owner) =>
              got[fly[q].owner].version >= req[q].floor

AnswerOK(p) ==
    /\ pc[p] \in {"schedule", "resume", "done"}
    /\ req[p].key \in FencedKeys /\ Valued(p)
    /\ req[p].strict \/ got[p].flag # "invalidated"
    => got[p].version >= req[p].floor

ThreadInv(p) == ThreadOK(p) /\ ProducedOK(p) /\ WaitOK(p) /\ AnswerOK(p)

OwnFlight(p) == [key |-> req[p].key, fence |-> fly[p].fence, owner |-> p]

(* The table of flights is that of the running producers, one per key and generation. *)
FlightsOK ==
    /\ \A p \in Procs : pc[p] \in ProducingPlaces => OwnFlight(p) \in flights
    /\ \A x \in flights : pc[x.owner] \in ProducingPlaces /\ x = OwnFlight(x.owner)
    /\ \A x, y \in flights : x.key = y.key /\ x.fence = y.fence => x = y

IInv ==
    /\ Typing
    /\ FlightsOK
    /\ \A k \in Keys : KeyOK(k)
    /\ \A p \in Procs : ThreadInv(p)

----------------------------------------------------------------------------
(* What most steps leave alone. *)

LEMMA Fields ==
    ASSUME Typing
    PROVE  /\ now \in Nat /\ fence \in Nat
           /\ \A k \in Keys : /\ jira[k] \in Nat /\ cut[k] \in Nat /\ floor[k] \in Nat
                              /\ row[k] # NoCopy => row[k].version \in Nat /\ row[k].at \in Nat
           /\ \A p \in Procs : /\ req[p].key \in Keys /\ req[p].floor \in Nat
                               /\ req[p].strict \in BOOLEAN /\ req[p].alive \in BOOLEAN
                               /\ fly[p].fence \in Nat /\ fly[p].started \in Nat
                               /\ fly[p].owner \in Procs
                               /\ got[p].version \in Nat /\ got[p].seen \in Nat
           /\ \A x \in flights : x.key \in Keys /\ x.fence \in Nat /\ x.owner \in Procs
<1>1. now \in Nat /\ fence \in Nat BY DEF Typing
<1>2. \A k \in Keys : /\ jira[k] \in Nat /\ cut[k] \in Nat /\ floor[k] \in Nat
                      /\ row[k] # NoCopy => row[k].version \in Nat /\ row[k].at \in Nat
  BY CopiesTyped DEF Typing
<1>3. \A p \in Procs : req[p] \in ReqSet /\ fly[p] \in FlySet /\ got[p] \in AnswerSet
  BY DEF Typing
<1>4. \A x \in flights : x \in FlightSet BY DEF Typing
<1> QED BY <1>1, <1>2, <1>3, <1>4, Reqs, Flies, Answers, Flights

\* The generation, the clock and the demands on each key only grow; a key is invalidated
\* under a generation of its own.
Grow ==
    /\ fence' \in Nat /\ fence <= fence'
    /\ now' \in Nat /\ now <= now'
    /\ gone \subseteq gone'
    /\ \A k \in Keys :
         /\ floor'[k] \in Nat /\ floor[k] <= floor'[k]
         /\ cut'[k] \in Nat
         /\ \/ cut'[k] = cut[k] /\ floor'[k] = floor[k] /\ (k \in forgotten' => k \in forgotten)
            \/ cut'[k] > fence

Same(q) == pc'[q] = pc[q] /\ req'[q] = req[q] /\ fly'[q] = fly[q] /\ got'[q] = got[q]

(* A thread that does not move keeps what is known of it, whatever another one does. *)
LEMMA Stays ==
    ASSUME Typing, Grow, NEW q \in Procs, ThreadOK(q), ProducedOK(q), AnswerOK(q), Same(q)
    PROVE  ThreadOK(q)' /\ ProducedOK(q)' /\ AnswerOK(q)'
<1> USE Fields
<1>1. ThreadOK(q)' BY DEF ThreadOK, Grow, Same
<1>2. AnswerOK(q)' BY DEF AnswerOK, Valued, Same
<1>3. ProducedOK(q)'
  <2>1. cut'[req[q].key] <= fly[q].fence =>
          /\ cut[req[q].key] <= fly[q].fence
          /\ floor'[req[q].key] = floor[req[q].key]
          /\ req[q].key \in forgotten' => req[q].key \in forgotten
    BY DEF ThreadOK, Grow
  <2> QED BY <2>1 DEF ProducedOK, Valued, Same, Grow
<1> QED BY <1>1, <1>2, <1>3

LEMMA FollowerStays ==
    ASSUME NEW q \in Procs, WaitOK(q), Same(q), pc[q] = "wait" => Same(fly[q].owner)
    PROVE  WaitOK(q)'
BY DEF WaitOK, Same, Valued

(* One thread moves. *)
LEMMA OneMoves ==
    ASSUME IInv, Grow, NEW p \in Procs,
           \A q \in Procs : q # p => Same(q),
           ThreadInv(p)',
           \A q \in Procs : q # p /\ pc[q] = "wait" /\ fly[q].owner = p => WaitOK(q)'
    PROVE  \A q \in Procs : ThreadInv(q)'
<1> SUFFICES ASSUME NEW q \in Procs, q # p PROVE ThreadInv(q)'
  OBVIOUS
<1>1. Same(q) /\ ThreadInv(q) /\ Typing BY DEF IInv
<1>2. ThreadOK(q)' /\ ProducedOK(q)' /\ AnswerOK(q)' BY <1>1, Stays DEF ThreadInv
<1>3. WaitOK(q)'
  <2>1. CASE pc[q] = "wait" /\ fly[q].owner = p BY <2>1
  <2>2. CASE ~(pc[q] = "wait" /\ fly[q].owner = p)
    <3>1. fly[q].owner \in Procs BY <1>1, Fields
    <3>2. pc[q] = "wait" => Same(fly[q].owner) BY <2>2, <3>1
    <3> QED BY <1>1, <3>2, FollowerStays DEF ThreadInv
  <2> QED BY <2>1, <2>2
<1> QED BY <1>2, <1>3 DEF ThreadInv

LEMMA FlightsStay ==
    ASSUME IInv, flights' = flights,
           \A q \in Procs : /\ pc[q] \in ProducingPlaces <=> pc'[q] \in ProducingPlaces
                            /\ pc[q] \in ProducingPlaces =>
                                  req'[q].key = req[q].key /\ fly'[q] = fly[q]
    PROVE  FlightsOK'
<1>1. \A x \in flights : x.owner \in Procs BY Fields DEF IInv
<1>2. \A q \in Procs : pc[q] \in ProducingPlaces => OwnFlight(q)' = OwnFlight(q)
  BY DEF OwnFlight
<1>3. \A x \in flights : pc[x.owner] \in ProducingPlaces /\ x = OwnFlight(x.owner)
  BY DEF IInv, FlightsOK
<1>4. \A x \in flights : OwnFlight(x.owner)' = x
  BY <1>1, <1>2, <1>3
<1>5. \A p \in Procs : (pc[p] \in ProducingPlaces)' => OwnFlight(p)' \in flights
  BY <1>2 DEF IInv, FlightsOK
<1> QED BY <1>1, <1>3, <1>4, <1>5 DEF IInv, FlightsOK

(* Outside the producing places nobody waits for a thread and it has no flight. *)
LEMMA OutsiderMoves ==
    ASSUME IInv, Grow, NEW p \in Procs,
           \A q \in Procs : q # p => Same(q),
           flights' = flights,
           pc[p] \notin ProducingPlaces, pc'[p] \notin ProducingPlaces,
           ThreadOK(p)', WaitOK(p)', AnswerOK(p)'
    PROVE  FlightsOK' /\ \A q \in Procs : ThreadInv(q)'
<1>1. ProducedOK(p)' BY DEF ProducedOK, ProducingPlaces
<1>2. \A q \in Procs : ~(pc[q] = "wait" /\ fly[q].owner = p)
  BY DEF IInv, ThreadInv, WaitOK, ProducingPlaces
<1>3. \A q \in Procs : ThreadInv(q)' BY <1>1, <1>2, OneMoves DEF ThreadInv
<1>4. FlightsOK' BY FlightsStay DEF Same
<1> QED BY <1>3, <1>4

LEMMA Quiet ==
    ASSUME IInv, UNCHANGED <<world, tables, fence, history>>
    PROVE  Grow /\ \A k \in Keys : KeyOK(k)'
<1>1. Grow BY Fields DEF IInv, Grow, world, history
<1>2. \A k \in Keys : KeyOK(k)' BY DEF IInv, KeyOK, world, tables, history
<1> QED BY <1>1, <1>2

(* A copy handed out is not older than the key's last invalidation, or says so. *)
LEMMA AliveIsNew ==
    ASSUME IInv, NEW k \in FencedKeys, row[k] # NoCopy
    PROVE  row[k].version >= floor[k] /\ Alive(k) \in {row[k], NoCopy}
BY DEF IInv, KeyOK, FencedKeys, Alive

----------------------------------------------------------------------------
(* The steps of a read that runs no producer. *)

Kept == FlightsOK' /\ (\A k \in Keys : KeyOK(k)') /\ \A q \in Procs : ThreadInv(q)'

LEMMA ReadKeeps ==
    ASSUME IInv, NEW r \in Readers, NEW k \in Keys, NEW strict \in Modes, Read(r, k, strict)
    PROVE  Kept
<1> USE Fields
<1>0. r \in Procs /\ Typing BY DEF IInv, Procs
<1>1. Grow /\ \A j \in Keys : KeyOK(j)' BY Quiet DEF Read
<1>2. /\ \A q \in Procs : q # r => Same(q)
      /\ flights' = flights /\ pc[r] = "idle" /\ fly'[r] = fly[r]
      /\ req'[r].key = k /\ req'[r].floor = floor[k] /\ floor' = floor
      /\ pc'[r] \in {"missed", "done"}
      /\ pc'[r] = "done" => Fresh(k) /\ got'[r] = Shown(k, row[k])
  BY <1>0 DEF Read, Goto, Give, Same, Typing, history
<1>3. ThreadOK(r)' BY <1>0, <1>1, <1>2 DEF IInv, ThreadInv, ThreadOK, Grow
<1>4. AnswerOK(r)'
  <2>1. SUFFICES ASSUME k \in FencedKeys, pc'[r] = "done" PROVE got'[r].version >= floor[k]
    BY <1>2 DEF AnswerOK
  <2>2. row[k] # NoCopy /\ got'[r].version = row[k].version BY <1>2, <2>1 DEF Fresh, Shown
  <2> QED BY <2>1, <2>2, AliveIsNew
<1>5. WaitOK(r)' BY <1>2 DEF WaitOK
<1> QED BY <1>0, <1>1, <1>2, <1>3, <1>4, <1>5, OutsiderMoves DEF Kept, ProducingPlaces

LEMMA SnapshotKeeps == ASSUME IInv, NEW r \in Readers, Snapshot(r) PROVE Kept
<1> USE Fields
<1> DEFINE k == req[r].key
<1>0. r \in Procs /\ Typing /\ k \in Keys BY DEF IInv, Procs
<1>1. Grow /\ \A j \in Keys : KeyOK(j)' BY Quiet DEF Snapshot
<1>2. /\ \A q \in Procs : q # r => Same(q)
      /\ flights' = flights /\ pc[r] = "missed" /\ fly'[r] = fly[r] /\ floor' = floor
      /\ req'[r].key = k /\ req'[r].floor = req[r].floor /\ req'[r].strict = req[r].strict
      /\ pc'[r] \in {"refresh", "schedule", "done"}
      /\ pc'[r] # "refresh" =>
            ~req[r].strict /\ Alive(k) # NoCopy /\ got'[r] = Shown(k, Alive(k))
  <2>1. /\ pc[r] = "missed"
        /\ UNCHANGED <<world, tables, fence, flights, queue, fly, history>>
    BY DEF Snapshot
  <2>2. \/ /\ pc' = [pc EXCEPT ![r] = "refresh"]
           /\ req' = [req EXCEPT ![r] = [key |-> k, strict |-> req[r].strict,
                                         alive |-> ~req[r].strict /\ Alive(k) # NoCopy,
                                         floor |-> req[r].floor]]
           /\ got' = got
        \/ /\ ~req[r].strict /\ Alive(k) # NoCopy
           /\ \E place \in {"schedule", "done"} : pc' = [pc EXCEPT ![r] = place]
           /\ got' = [got EXCEPT ![r] = Shown(k, Alive(k))]
           /\ req' = req
    BY DEF Snapshot, Goto, Give
  <2> QED BY <1>0, <2>1, <2>2 DEF Same, Typing, history
<1>3. ThreadOK(r)' BY <1>0, <1>1, <1>2 DEF IInv, ThreadInv, ThreadOK, Grow
<1>4. AnswerOK(r)'
  <2>1. SUFFICES ASSUME k \in FencedKeys, pc'[r] # "refresh", got'[r].flag # "invalidated"
                 PROVE  got'[r].version >= req[r].floor
    BY <1>2 DEF AnswerOK
  <2>2. row[k] # NoCopy BY <1>2, <2>1 DEF Shown, FlagOf
  <2>3. got'[r].version = row[k].version /\ row[k].version >= floor[k]
    BY <1>2, <2>1, <2>2, AliveIsNew DEF Shown
  <2>4. req[r].floor <= floor[k] BY <1>0 DEF IInv, ThreadInv, ThreadOK
  <2> QED BY <1>0, <2>2, <2>3, <2>4
<1>5. WaitOK(r)' BY <1>2 DEF WaitOK
<1> QED BY <1>0, <1>1, <1>2, <1>3, <1>4, <1>5, OutsiderMoves DEF Kept, ProducingPlaces

LEMMA ScheduleKeeps == ASSUME IInv, NEW r \in Readers, Schedule(r) PROVE Kept
<1> USE Fields
<1>0. r \in Procs /\ Typing BY DEF IInv, Procs
<1>1. Grow /\ \A j \in Keys : KeyOK(j)' BY Quiet DEF Schedule
<1>2. /\ \A q \in Procs : q # r => Same(q)
      /\ flights' = flights /\ pc[r] = "schedule" /\ pc'[r] = "done" /\ floor' = floor
      /\ fly'[r] = fly[r] /\ req'[r] = req[r] /\ got'[r] = got[r]
  BY <1>0 DEF Schedule, Goto, Same, Typing, history
<1>3. ThreadOK(r)' BY <1>0, <1>1, <1>2 DEF IInv, ThreadInv, ThreadOK, Grow
<1>4. AnswerOK(r)' BY <1>0, <1>2 DEF IInv, ThreadInv, AnswerOK, Valued
<1>5. WaitOK(r)' BY <1>2 DEF WaitOK
<1> QED BY <1>0, <1>1, <1>2, <1>3, <1>4, <1>5, OutsiderMoves DEF Kept, ProducingPlaces

LEMMA TakeJobKeeps == ASSUME IInv, TakeJob PROVE Kept
<1> USE Fields
<1>0. Worker \in Procs /\ Typing BY DEF IInv, Procs
<1>1. Grow /\ \A j \in Keys : KeyOK(j)' BY Quiet DEF TakeJob
<1>2. Head(queue).key \in Keys
  <2>1. Head(queue) \in JobSet BY <1>0, HeadTailProperties DEF TakeJob, Typing
  <2> QED BY <2>1, Jobs
<1>3. /\ \A q \in Procs : q # Worker => Same(q)
      /\ flights' = flights /\ pc[Worker] = "idle" /\ floor' = floor
      /\ fly'[Worker] = fly[Worker] /\ got'[Worker] = got[Worker]
      /\ pc'[Worker] \in {"idle", "refresh"}
      /\ \/ req'[Worker] = req[Worker]
         \/ req'[Worker].floor = 0 /\ req'[Worker].key = Head(queue).key
  BY <1>0 DEF TakeJob, Goto, Same, Typing, history
<1>4. ThreadOK(Worker)'
  BY <1>0, <1>1, <1>2, <1>3 DEF IInv, ThreadInv, ThreadOK, Grow
<1>5. AnswerOK(Worker)' /\ WaitOK(Worker)' BY <1>3 DEF AnswerOK, WaitOK
<1> QED BY <1>0, <1>1, <1>3, <1>4, <1>5, OutsiderMoves DEF Kept, ProducingPlaces

LEMMA HitLateKeeps == ASSUME IInv, NEW p \in Procs, HitLate(p) PROVE Kept
<1> USE Fields
<1> DEFINE k == req[p].key
<1>0. Typing /\ k \in Keys BY DEF IInv
<1>1. Grow /\ \A j \in Keys : KeyOK(j)' BY Quiet DEF HitLate
<1>2. /\ \A q \in Procs : q # p => Same(q)
      /\ flights' = flights /\ pc[p] = "refresh" /\ pc'[p] = "done" /\ floor' = floor
      /\ fly'[p] = fly[p] /\ req'[p] = req[p] /\ got'[p] = Shown(k, row[k])
      /\ row[k] # NoCopy
  BY <1>0 DEF HitLate, Fresh, Goto, Give, Same, Typing, history
<1>3. ThreadOK(p)' BY <1>0, <1>1, <1>2 DEF IInv, ThreadInv, ThreadOK, Grow
<1>4. AnswerOK(p)'
  <2>1. SUFFICES ASSUME k \in FencedKeys PROVE got'[p].version >= req[p].floor
    BY <1>2 DEF AnswerOK
  <2>2. got'[p].version = row[k].version /\ row[k].version >= floor[k]
    BY <1>2, <2>1, AliveIsNew DEF Shown
  <2>3. req[p].floor <= floor[k] BY <1>0 DEF IInv, ThreadInv, ThreadOK
  <2> QED BY <1>0, <1>2, <2>2, <2>3
<1>5. WaitOK(p)' BY <1>2 DEF WaitOK
<1> QED BY <1>0, <1>1, <1>2, <1>3, <1>4, <1>5, OutsiderMoves DEF Kept, ProducingPlaces

LEMMA ResumeKeeps == ASSUME IInv, NEW p \in Procs, Resume(p) PROVE Kept
<1> USE Fields
<1> DEFINE k == req[p].key
<1>0. Typing /\ k \in Keys BY DEF IInv
<1>1. Grow /\ \A j \in Keys : KeyOK(j)' BY Quiet DEF Resume
<1>2. /\ \A q \in Procs : q # p => Same(q)
      /\ flights' = flights /\ pc[p] = "resume" /\ pc'[p] = "done" /\ floor' = floor
      /\ fly'[p] = fly[p] /\ req'[p] = req[p]
      /\ \/ got'[p] = got[p]
         \/ ~req[p].strict /\ Alive(k) # NoCopy /\ got'[p] = Shown(k, Alive(k))
  BY <1>0 DEF Resume, Goto, Give, Same, Typing, history
<1>3. ThreadOK(p)' BY <1>0, <1>1, <1>2 DEF IInv, ThreadInv, ThreadOK, Grow
<1>4. AnswerOK(p)'
  <2>1. CASE got'[p] = got[p]
    BY <1>0, <1>2, <2>1 DEF IInv, ThreadInv, AnswerOK, Valued
  <2>2. CASE ~req[p].strict /\ Alive(k) # NoCopy /\ got'[p] = Shown(k, Alive(k))
    <3>1. SUFFICES ASSUME k \in FencedKeys, got'[p].flag # "invalidated"
                   PROVE  got'[p].version >= req[p].floor
      BY <1>2, <2>2 DEF AnswerOK
    <3>2. row[k] # NoCopy BY <2>2, <3>1 DEF Shown, FlagOf
    <3>3. got'[p].version = row[k].version /\ row[k].version >= floor[k]
      BY <2>2, <3>1, <3>2, AliveIsNew DEF Shown
    <3>4. req[p].floor <= floor[k] BY <1>0 DEF IInv, ThreadInv, ThreadOK
    <3> QED BY <1>0, <3>2, <3>3, <3>4
  <2> QED BY <1>2, <2>1, <2>2
<1>5. WaitOK(p)' BY <1>2 DEF WaitOK
<1> QED BY <1>0, <1>1, <1>2, <1>3, <1>4, <1>5, OutsiderMoves DEF Kept, ProducingPlaces

LEMMA ReturnKeeps == ASSUME IInv, NEW p \in Procs, Return(p) PROVE Kept
<1> USE Fields
<1>0. Typing BY DEF IInv
<1>1. Grow /\ \A j \in Keys : KeyOK(j)' BY Quiet DEF Return
<1>2. /\ \A q \in Procs : q # p => Same(q)
      /\ flights' = flights /\ pc[p] = "done" /\ pc'[p] = "idle" /\ floor' = floor
      /\ fly'[p] = fly[p] /\ req'[p] = NoReq
  BY <1>0 DEF Return, Goto, Give, Same, Typing, history
<1>3. NoReq.floor = 0 /\ NoReq.key \in Keys BY KeysAssumption DEF NoReq
<1>4. ThreadOK(p)' BY <1>0, <1>1, <1>2, <1>3 DEF IInv, ThreadInv, ThreadOK, Grow
<1>5. WaitOK(p)' /\ AnswerOK(p)' BY <1>2 DEF WaitOK, AnswerOK
<1> QED BY <1>0, <1>1, <1>2, <1>4, <1>5, OutsiderMoves DEF Kept, ProducingPlaces

LEMMA FetchManyKeeps ==
    ASSUME IInv, NEW r \in Readers, NEW k \in Keys, FetchMany(r, k)
    PROVE  Kept
<1> USE Fields
<1>0. r \in Procs /\ Typing BY DEF IInv, Procs
<1>1. Grow /\ \A j \in Keys : KeyOK(j)' BY Quiet DEF FetchMany
<1>2. /\ \A q \in Procs : q # r => Same(q)
      /\ flights' = flights /\ pc[r] = "idle" /\ pc'[r] = "fetched" /\ floor' = floor
      /\ fly'[r] = fly[r] /\ req'[r].key = k /\ req'[r].floor = floor[k] /\ k \in ThroughKeys
  BY <1>0 DEF FetchMany, Goto, Give, Same, Typing, history
<1>3. ThreadOK(r)' BY <1>0, <1>1, <1>2 DEF IInv, ThreadInv, ThreadOK, Grow
<1>4. WaitOK(r)' /\ AnswerOK(r)' BY <1>2 DEF WaitOK, AnswerOK
<1> QED BY <1>0, <1>1, <1>2, <1>3, <1>4, OutsiderMoves DEF Kept, ProducingPlaces

----------------------------------------------------------------------------
(* The flights. *)

LEMMA JoinKeeps == ASSUME IInv, NEW p \in Procs, Join(p) PROVE Kept
<1> USE Fields
<1> DEFINE k == req[p].key
<1>0. Typing /\ k \in Keys BY DEF IInv
<1>1. Grow /\ \A j \in Keys : KeyOK(j)' BY Quiet DEF Join
<1>2. PICK x \in flights :
        /\ x.key = k /\ x.fence = fence
        /\ IF pc[x.owner] = "retire"
             THEN Goto(p, "resume") /\ Give(p, got[x.owner]) /\ UNCHANGED fly
             ELSE /\ Goto(p, "wait")
                  /\ fly' = [fly EXCEPT ![p] = [fence |-> fence, started |-> 0, owner |-> x.owner]]
                  /\ UNCHANGED got
  BY DEF Join, FlightOf
<1> DEFINE o == x.owner
<1>3. /\ o \in Procs /\ pc[o] \in ProducingPlaces
      /\ req[o].key = k /\ fly[o].fence = fence
  <2>1. o \in Procs BY <1>0
  <2>2. pc[o] \in ProducingPlaces /\ x = OwnFlight(o) BY DEF IInv, FlightsOK
  <2> QED BY <1>2, <2>1, <2>2 DEF OwnFlight
<1>4. pc[p] = "refresh" /\ o # p /\ flights' = flights /\ req' = req /\ floor' = floor
  BY <1>3 DEF Join, ProducingPlaces, history
<1>5. \A q \in Procs : q # p => Same(q)
  BY <1>0, <1>2, <1>4 DEF Goto, Give, Same, Typing
\* The flight is of the present generation, so that its result is not older than it demands.
<1>6. pc[o] # "produce" /\ Valued(o) => got[o].version >= req[p].floor
  <2>1. cut[k] <= fence BY <1>0 DEF IInv, KeyOK
  <2>2. req[p].floor <= floor[k] BY DEF IInv, ThreadInv, ThreadOK
  <2>3. ProducedOK(o) BY <1>3 DEF IInv, ThreadInv
  <2> QED BY <1>0, <1>3, <2>1, <2>2, <2>3 DEF ProducedOK, ProducingPlaces
<1>7. CASE pc[o] = "retire"
  <2>1. pc'[p] = "resume" /\ got'[p] = got[o] /\ fly'[p] = fly[p]
    BY <1>0, <1>2, <1>7 DEF Goto, Give, Typing
  <2>2. ThreadOK(p)' BY <1>0, <1>1, <1>4, <2>1 DEF IInv, ThreadInv, ThreadOK, Grow
  <2>3. AnswerOK(p)' BY <1>4, <1>6, <1>7, <2>1 DEF AnswerOK, Valued
  <2>4. WaitOK(p)' BY <2>1 DEF WaitOK
  <2> QED BY <1>1, <1>4, <1>5, <2>1, <2>2, <2>3, <2>4, OutsiderMoves DEF Kept, ProducingPlaces
<1>8. CASE pc[o] # "retire"
  <2>1. /\ pc'[p] = "wait" /\ got' = got
        /\ fly'[p].fence = fence /\ fly'[p].started = 0 /\ fly'[p].owner = o
    BY <1>0, <1>2, <1>8 DEF Goto, Typing
  <2>2. ThreadOK(p)' BY <1>0, <1>1, <1>4, <2>1 DEF IInv, ThreadInv, ThreadOK, Grow
  <2>3. AnswerOK(p)' BY <2>1 DEF AnswerOK
  <2>4. Same(o) BY <1>3, <1>4, <1>5
  <2>5. WaitOK(p)'
    BY <1>3, <1>4, <1>6, <1>8, <2>1, <2>4 DEF WaitOK, Valued, Same, ProducingPlaces
  <2> QED BY <1>1, <1>4, <1>5, <2>1, <2>2, <2>3, <2>5, OutsiderMoves DEF Kept, ProducingPlaces
<1> QED BY <1>7, <1>8

LEMMA OwnKeeps == ASSUME IInv, NEW p \in Procs, Own(p) PROVE Kept
<1> USE Fields
<1> DEFINE k == req[p].key
           mine == [key |-> k, fence |-> fence, owner |-> p]
<1>0. Typing /\ k \in Keys BY DEF IInv
<1>1. Grow /\ \A j \in Keys : KeyOK(j)' BY Quiet DEF Own
<1>2. /\ \A q \in Procs : q # p => Same(q)
      /\ pc[p] = "refresh" /\ pc'[p] = "produce" /\ floor' = floor
      /\ req' = req /\ got' = got /\ flights' = flights \cup {mine}
      /\ fly'[p] = [fence |-> fence, started |-> now, owner |-> p]
  BY <1>0 DEF Own, Goto, Same, Typing, history
<1>3. ThreadInv(p)'
  <2>1. ThreadOK(p)' BY <1>0, <1>1, <1>2 DEF IInv, ThreadInv, ThreadOK, Grow
  <2> QED BY <1>2, <2>1 DEF ThreadInv, ProducedOK, WaitOK, AnswerOK
<1>4. \A q \in Procs : ~(pc[q] = "wait" /\ fly[q].owner = p)
  BY <1>2 DEF IInv, ThreadInv, WaitOK
<1>5. \A q \in Procs : ThreadInv(q)' BY <1>1, <1>2, <1>3, <1>4, OneMoves
<1>6. FlightsOK'
  <2>1. OwnFlight(p)' = mine BY <1>2 DEF OwnFlight
  <2>2. \A q \in Procs : q # p => OwnFlight(q)' = OwnFlight(q) /\ pc'[q] = pc[q]
    BY <1>2 DEF OwnFlight, Same
  <2>3. \A x \in flights : x.owner \in Procs /\ x.owner # p
    BY <1>0, <1>2 DEF IInv, FlightsOK, ProducingPlaces
  <2>4. \A x \in flights : ~(x.key = k /\ x.fence = fence) BY DEF Own, FlightOf
  <2>5. \A q \in Procs : pc'[q] \in ProducingPlaces => OwnFlight(q)' \in flights'
    BY <1>2, <2>1, <2>2 DEF IInv, FlightsOK
  <2>6. \A x \in flights' : pc'[x.owner] \in ProducingPlaces /\ x = OwnFlight(x.owner)'
    BY <1>2, <2>1, <2>2, <2>3 DEF IInv, FlightsOK, ProducingPlaces
  <2>7. \A x, y \in flights' : x.key = y.key /\ x.fence = y.fence => x = y
    BY <1>2, <2>4 DEF IInv, FlightsOK
  <2> QED BY <2>5, <2>6, <2>7 DEF FlightsOK
<1> QED BY <1>1, <1>5, <1>6 DEF Kept

LEMMA ProduceKeeps == ASSUME IInv, NEW p \in Procs, Produce(p) PROVE Kept
<1> USE Fields
<1> DEFINE k == req[p].key
<1>0. Typing /\ k \in Keys /\ KeyOK(k) /\ ThreadOK(p) BY DEF IInv, ThreadInv
<1>1. Grow /\ \A j \in Keys : KeyOK(j)' BY Quiet DEF Produce
<1>2. /\ \A q \in Procs : q # p => Same(q)
      /\ pc[p] = "produce" /\ pc'[p] = "store" /\ flights' = flights
      /\ floor' = floor /\ forgotten' = forgotten /\ gone' = gone
      /\ req' = req /\ fly' = fly
  BY <1>0 DEF Produce, Goto, Give, Same, Typing, history, world
<1>3. /\ Valued(p)' => got'[p].version = jira[k] /\ got'[p].seen = now /\ k \notin gone
      /\ got'[p].outcome = "gone" => k \in gone
  BY <1>0 DEF Produce, Give, Typing, Valued
<1>4. Valued(p)' => got'[p].version >= floor[k] /\ k \notin forgotten
  BY <1>0, <1>3 DEF KeyOK
<1>5. ThreadOK(p)' BY <1>0, <1>1, <1>2 DEF ThreadOK, Grow
<1>6. ProducedOK(p)'
  <2>1. req[p].floor <= floor[k] /\ fly[p].started <= now BY <1>0 DEF ThreadOK
  <2>2. Valued(p)' => got'[p].version >= req[p].floor /\ fly[p].started <= got'[p].seen
    BY <1>0, <1>3, <1>4, <2>1
  <2>3. got'[p].outcome = "value" => Valued(p)' BY DEF Valued
  <2> QED BY <1>2, <1>3, <1>4, <2>2, <2>3 DEF ProducedOK
<1>7. ThreadInv(p)' BY <1>2, <1>5, <1>6 DEF ThreadInv, WaitOK, AnswerOK
<1>8. ASSUME NEW q \in Procs, q # p, pc[q] = "wait", fly[q].owner = p PROVE WaitOK(q)'
  <2>1. WaitOK(q) /\ ThreadOK(q) /\ Same(q) BY <1>2, <1>8 DEF IInv, ThreadInv
  <2>2. req[q].key = k /\ fly[p].fence = fly[q].fence BY <1>8, <2>1 DEF WaitOK
  <2>3. req[q].floor <= floor[k] BY <2>1, <2>2 DEF ThreadOK
  <2>4. Valued(p)' => got'[p].version >= req[q].floor BY <1>0, <1>3, <1>4, <2>3
  <2> QED BY <1>2, <1>8, <2>1, <2>2, <2>4 DEF WaitOK, Same
<1>9. \A q \in Procs : ThreadInv(q)' BY <1>1, <1>2, <1>7, <1>8, OneMoves
<1>10. FlightsOK' BY <1>2, FlightsStay DEF Same, ProducingPlaces
<1> QED BY <1>1, <1>9, <1>10 DEF Kept

(* What a store leaves of the other rows. *)
LEMMA PutEffect ==
    ASSUME Typing, NEW k \in Keys, NEW copy \in CopySet, Put(k, copy)
    PROVE  \A j \in Keys :
             /\ row'[j] = NoCopy \/ row'[j] = IF j = k THEN copy ELSE row[j]
             /\ shown'[j] = NoCopy \/ (j # k /\ shown'[j] = shown[j])
BY DEF Typing, Put, Purged

LEMMA PutKeepsKeys ==
    ASSUME IInv, NEW k \in Keys, NEW copy \in CopySet, Put(k, copy),
           UNCHANGED <<world, fence, history>>,
           k \in FencedKeys => copy.version >= floor[k] /\ k \notin forgotten
    PROVE  \A j \in Keys : KeyOK(j)'
<1> TAKE j \in Keys
<1>1. /\ row'[j] = NoCopy \/ row'[j] = IF j = k THEN copy ELSE row[j]
      /\ shown'[j] = NoCopy \/ (j # k /\ shown'[j] = shown[j])
  BY PutEffect DEF IInv
<1>2. KeyOK(j) BY DEF IInv
<1>3. CASE j = k BY <1>1, <1>2, <1>3 DEF KeyOK, world, history
<1>4. CASE j # k BY <1>1, <1>2, <1>4 DEF KeyOK, world, history
<1> QED BY <1>3, <1>4

LEMMA SetThroughKeeps == ASSUME IInv, NEW r \in Readers, SetThrough(r) PROVE Kept
<1> USE Fields
<1>0. r \in Procs /\ Typing BY DEF IInv, Procs
<1>1. Grow BY <1>0 DEF SetThrough, Grow, IInv, world, history
<1>2. \A j \in Keys : KeyOK(j)'
  <2>1. req[r].key \notin FencedKeys
    BY <1>0 DEF IInv, ThreadInv, ThreadOK, SetThrough, FencedKeys
  <2>2. [version |-> got[r].version, at |-> now] \in CopySet BY <1>0, CopiesTyped
  <2> QED BY <1>0, <2>1, <2>2, PutKeepsKeys DEF SetThrough
<1>3. /\ \A q \in Procs : q # r => Same(q)
      /\ flights' = flights /\ pc[r] = "fetched" /\ pc'[r] = "idle" /\ floor' = floor
      /\ fly'[r] = fly[r] /\ req'[r] = NoReq
  BY <1>0 DEF SetThrough, Goto, Give, Same, Typing, history
<1>4. NoReq.floor = 0 /\ NoReq.key \in Keys BY KeysAssumption DEF NoReq
<1>5. ThreadOK(r)' BY <1>0, <1>1, <1>3, <1>4 DEF IInv, ThreadInv, ThreadOK, Grow
<1>6. WaitOK(r)' /\ AnswerOK(r)' BY <1>3 DEF WaitOK, AnswerOK
<1> QED BY <1>0, <1>1, <1>2, <1>3, <1>5, <1>6, OutsiderMoves DEF Kept, ProducingPlaces

LEMMA StoreKeeps == ASSUME IInv, NEW p \in Procs, Store(p) PROVE Kept
<1> USE Fields
<1> DEFINE k == req[p].key
<1>0. Typing /\ k \in Keys /\ KeyOK(k) /\ ThreadOK(p) /\ ProducedOK(p) BY DEF IInv, ThreadInv
<1>2. /\ \A q \in Procs : q # p => Same(q)
      /\ pc[p] = "store" /\ pc'[p] = "settle" /\ flights' = flights
      /\ UNCHANGED world /\ req' = req /\ fly' = fly
      /\ got'[p].outcome = got[p].outcome /\ got'[p].version = got[p].version
  BY <1>0 DEF Store, StoreValue, SkipStore, ForgetDenied, StoreNothing,
              Label, Goto, Give, Same, Typing
<1>3. Grow /\ \A j \in Keys : KeyOK(j)'
  <2>1. CASE StoreValue(p)
    <3>1. UNCHANGED <<world, fence, history>> BY <1>2, <2>1 DEF StoreValue
    <3>2. [version |-> got[p].version, at |-> fly[p].started] \in CopySet
      BY <1>0, CopiesTyped
    <3>3. got[p].version >= floor[k] /\ k \notin forgotten
      BY <1>0, <1>2, <2>1 DEF StoreValue, ProducedOK, KeyOK, Valued
    <3>4. \A j \in Keys : KeyOK(j)'
      BY <1>0, <2>1, <3>1, <3>2, <3>3, PutKeepsKeys DEF StoreValue
    <3>5. Grow BY <1>0, <3>1 DEF Grow, IInv, world, history
    <3> QED BY <3>4, <3>5
  <2>2. CASE SkipStore(p) BY <1>2, <2>2, Quiet DEF SkipStore
  <2>3. CASE StoreNothing(p) BY <1>2, <2>3, Quiet DEF StoreNothing
  <2>4. CASE ForgetDenied(p)
    <3>1. k \in gone BY <1>0, <1>2, <2>4 DEF ForgetDenied, ProducedOK
    <3>2. /\ fence' = fence + 1 /\ cut' = [cut EXCEPT ![k] = fence + 1]
          /\ row' = [row EXCEPT ![k] = NoCopy] /\ shown' = [shown EXCEPT ![k] = NoCopy]
          /\ floor' = [floor EXCEPT ![k] = jira[k]] /\ forgotten' = forgotten \cup {k}
      BY <2>4 DEF ForgetDenied, Forget
    <3>3. Grow
      BY <1>0, <1>2, <3>2 DEF Grow, IInv, KeyOK, Typing, world
    <3>4. ASSUME NEW j \in Keys PROVE KeyOK(j)'
      <4>1. KeyOK(j) BY DEF IInv
      <4>2. CASE j = k BY <1>0, <1>2, <3>1, <3>2, <4>2 DEF KeyOK, Typing, world
      <4>3. CASE j # k BY <1>0, <1>2, <3>2, <4>1, <4>3 DEF KeyOK, Typing, world
      <4> QED BY <4>2, <4>3
    <3> QED BY <3>3, <3>4
  <2> QED BY <2>1, <2>2, <2>3, <2>4 DEF Store
<1>4. ThreadOK(p)' BY <1>0, <1>2, <1>3 DEF ThreadOK, Grow
<1>5. ProducedOK(p)'
  <2>1. cut'[k] <= fly[p].fence =>
          /\ cut[k] <= fly[p].fence
          /\ floor'[k] = floor[k]
          /\ k \in forgotten' => k \in forgotten
    BY <1>0, <1>3 DEF ThreadOK, Grow
  <2> QED BY <1>0, <1>2, <1>3, <2>1 DEF ProducedOK, Valued, Grow
<1>6. ThreadInv(p)' BY <1>2, <1>4, <1>5 DEF ThreadInv, WaitOK, AnswerOK
<1>7. ASSUME NEW q \in Procs, q # p, pc[q] = "wait", fly[q].owner = p PROVE WaitOK(q)'
  <2>1. WaitOK(q) /\ Same(q) BY <1>2, <1>7 DEF IInv, ThreadInv
  <2> QED BY <1>2, <1>7, <2>1 DEF WaitOK, Same, Valued
<1>8. \A q \in Procs : ThreadInv(q)' BY <1>2, <1>3, <1>6, <1>7, OneMoves
<1>9. FlightsOK' BY <1>2, FlightsStay DEF Same, ProducingPlaces
<1> QED BY <1>3, <1>8, <1>9 DEF Kept

LEMMA SettleKeeps == ASSUME IInv, NEW p \in Procs, Settle(p) PROVE Kept
<1> USE Fields
<1>0. Typing /\ ThreadInv(p) BY DEF IInv
<1>1. Grow /\ \A j \in Keys : KeyOK(j)' BY Quiet DEF Settle
<1>2. /\ pc[p] = "settle" /\ flights' = flights /\ req' = req
      /\ floor' = floor /\ p \notin Followers(p)
  BY DEF Settle, Followers, history
<1>3. ASSUME NEW q \in Procs
      PROVE  /\ q \in Followers(p) => pc'[q] = "resume" /\ got'[q] = got[p] /\ fly'[q] = NoFly
             /\ q = p => pc'[q] = "retire" /\ got'[q] = got[q] /\ fly'[q] = fly[q]
             /\ q # p /\ q \notin Followers(p) => Same(q)
  BY <1>2 DEF Settle, Same
<1>4. ASSUME NEW q \in Procs PROVE ThreadInv(q)'
  <2>0. ThreadInv(q) BY DEF IInv
  <2>1. CASE q \in Followers(p)
    <3>1. pc[q] = "wait" /\ fly[q].owner = p BY <2>1 DEF Followers
    <3>2. ThreadOK(q)'
      BY <1>0, <1>1, <1>2, <1>3, <2>0, <2>1 DEF ThreadInv, ThreadOK, Grow, NoFly
    <3>3. AnswerOK(q)'
      BY <1>2, <1>3, <2>0, <2>1, <3>1 DEF ThreadInv, WaitOK, AnswerOK, Valued
    <3> QED BY <1>3, <2>1, <3>2, <3>3 DEF ThreadInv, WaitOK, ProducedOK
  <2>2. CASE q = p
    <3>1. ThreadOK(q)' BY <1>0, <1>1, <1>2, <1>3, <2>2 DEF ThreadInv, ThreadOK, Grow
    <3>2. ProducedOK(q)'
      <4>1. UNCHANGED <<cut, forgotten, gone>> BY DEF Settle, history, world
      <4> QED BY <1>0, <1>2, <1>3, <2>2, <4>1 DEF ThreadInv, ProducedOK, Valued
    <3> QED BY <1>3, <2>2, <3>1, <3>2 DEF ThreadInv, WaitOK, AnswerOK
  <2>3. CASE q # p /\ q \notin Followers(p)
    <3>1. Same(q) BY <1>3, <2>3
    <3>2. ThreadOK(q)' /\ ProducedOK(q)' /\ AnswerOK(q)'
      BY <1>0, <1>1, <2>0, <3>1, Stays DEF ThreadInv
    <3>3. pc[q] = "wait" => Same(fly[q].owner)
      <4>1. SUFFICES ASSUME pc[q] = "wait" PROVE Same(fly[q].owner)
        OBVIOUS
      <4>2. fly[q].owner \in Procs /\ fly[q].owner # p BY <1>0, <2>3, <4>1 DEF Followers
      <4>3. pc[fly[q].owner] # "wait" BY <2>0, <4>1 DEF ThreadInv, WaitOK
      <4> QED BY <1>3, <4>2, <4>3 DEF Followers
    <3> QED BY <2>0, <3>1, <3>2, <3>3, FollowerStays DEF ThreadInv
  <2> QED BY <2>1, <2>2, <2>3
<1>5. FlightsOK'
  <2>1. \A q \in Procs : /\ pc[q] \in ProducingPlaces <=> pc'[q] \in ProducingPlaces
                         /\ pc[q] \in ProducingPlaces => fly'[q] = fly[q]
    BY <1>2, <1>3 DEF Followers, Same, ProducingPlaces
  <2> QED BY <1>2, <2>1, FlightsStay
<1> QED BY <1>1, <1>4, <1>5 DEF Kept

LEMMA RetireKeeps == ASSUME IInv, NEW p \in Procs, Retire(p) PROVE Kept
<1> USE Fields
<1>0. Typing /\ ThreadOK(p) /\ ProducedOK(p) BY DEF IInv, ThreadInv
<1>1. Grow /\ \A j \in Keys : KeyOK(j)' BY Quiet DEF Retire
<1>2. /\ \A q \in Procs : q # p => Same(q)
      /\ pc[p] = "retire" /\ pc'[p] = "resume" /\ flights' = flights \ {OwnFlight(p)}
      /\ req' = req /\ got' = got /\ fly'[p] = NoFly /\ floor' = floor
  BY <1>0 DEF Retire, Goto, Same, Typing, history, OwnFlight
<1>3. ThreadInv(p)'
  <2>1. ThreadOK(p)' BY <1>0, <1>1, <1>2 DEF ThreadOK, Grow, NoFly
  <2>2. AnswerOK(p)' BY <1>0, <1>2 DEF ProducedOK, AnswerOK, Valued
  <2> QED BY <1>2, <2>1, <2>2 DEF ThreadInv, ProducedOK, WaitOK
<1>4. \A q \in Procs : ~(pc[q] = "wait" /\ fly[q].owner = p)
  BY <1>2 DEF IInv, ThreadInv, WaitOK
<1>5. \A q \in Procs : ThreadInv(q)' BY <1>1, <1>2, <1>3, <1>4, OneMoves
<1>6. FlightsOK'
  <2>1. \A q \in Procs : q # p => OwnFlight(q)' = OwnFlight(q) /\ pc'[q] = pc[q]
    BY <1>2 DEF OwnFlight, Same
  <2>2. \A x \in flights' : x \in flights /\ x.owner \in Procs /\ x.owner # p
    BY <1>0, <1>2 DEF IInv, FlightsOK
  <2>3. \A q \in Procs : q # p => OwnFlight(q) # OwnFlight(p)
    <3>1. \A q \in Procs : OwnFlight(q).owner = q BY DEF OwnFlight
    <3> QED BY <3>1
  <2>4. \A q \in Procs : pc'[q] \in ProducingPlaces => OwnFlight(q)' \in flights'
    BY <1>2, <2>1, <2>3 DEF IInv, FlightsOK, ProducingPlaces
  <2>5. \A x \in flights' : pc'[x.owner] \in ProducingPlaces /\ x = OwnFlight(x.owner)'
    BY <2>1, <2>2 DEF IInv, FlightsOK
  <2>6. \A x, y \in flights' : x.key = y.key /\ x.fence = y.fence => x = y
    BY <2>2 DEF IInv, FlightsOK
  <2> QED BY <2>4, <2>5, <2>6 DEF FlightsOK
<1> QED BY <1>1, <1>5, <1>6 DEF Kept

----------------------------------------------------------------------------
(* The world outside. *)

\* No thread moves.
LEMMA NobodyMoves ==
    ASSUME IInv, Grow, UNCHANGED <<threads, flights>>
    PROVE  FlightsOK' /\ \A q \in Procs : ThreadInv(q)'
<1>1. \A q \in Procs : Same(q) BY DEF Same, threads
<1>2. ASSUME NEW q \in Procs PROVE ThreadInv(q)'
  <2>1. ThreadInv(q) /\ Typing /\ fly[q].owner \in Procs BY Fields DEF IInv
  <2> QED BY <1>1, <2>1, Stays, FollowerStays DEF ThreadInv
<1>3. FlightsOK' BY <1>1, FlightsStay DEF Same
<1> QED BY <1>2, <1>3

\* Jira changes: what is known of it is not less recent for that.
LEMMA JiraMoves ==
    ASSUME IInv, NEW k \in Keys, Write(k) \/ Delete(k) \/ Edit(k) \/ Deny(k)
    PROVE  Kept
<1> USE Fields
<1>0. Typing BY DEF IInv
<1>1. UNCHANGED <<tables, fence, now, history, threads, flights>>
  BY DEF Write, Delete, Edit, Deny
<1>2. gone \subseteq gone' /\ (\A j \in removed' : j \in removed \/ j \in gone')
  BY DEF Write, Delete, Edit, Deny
<1>3. \A j \in Keys : jira[j] <= jira'[j] /\ jira'[j] \in Nat
  BY <1>0 DEF Write, Delete, Edit, Deny, Typing
<1>4. Grow BY <1>0, <1>1, <1>2 DEF Grow, history
<1>5. ASSUME NEW j \in Keys PROVE KeyOK(j)'
  <2>1. KeyOK(j) BY DEF IInv
  <2>2. floor[j] <= jira'[j] BY <1>0, <1>3, <2>1 DEF KeyOK
  <2> QED BY <1>1, <1>2, <2>1, <2>2 DEF KeyOK, tables, history
<1> QED BY <1>1, <1>4, <1>5, NobodyMoves DEF Kept

LEMMA InvalidateKeeps == ASSUME IInv, NEW k \in Keys, Invalidate(k) PROVE Kept
<1> USE Fields
<1>0. Typing BY DEF IInv
<1>1. /\ UNCHANGED <<now, jira, gone, removed, flights, threads, forgotten>>
      /\ fence' = fence + 1
      /\ cut' = [cut EXCEPT ![k] = fence + 1] /\ floor' = [floor EXCEPT ![k] = jira[k]]
      /\ row' = [row EXCEPT ![k] = NoCopy]
      /\ shown' = [shown EXCEPT ![k] = IF row[k] # NoCopy THEN row[k] ELSE shown[k]]
  BY DEF Invalidate, Archive
<1>2. Grow BY <1>0, <1>1 DEF Grow, IInv, KeyOK, Typing
<1>3. ASSUME NEW j \in Keys PROVE KeyOK(j)'
  <2>1. KeyOK(j) BY DEF IInv
  <2>2. CASE j = k BY <1>0, <1>1, <2>1, <2>2 DEF KeyOK, Typing
  <2>3. CASE j # k BY <1>0, <1>1, <2>1, <2>3 DEF KeyOK, Typing
  <2> QED BY <2>2, <2>3
<1> QED BY <1>1, <1>2, <1>3, NobodyMoves DEF Kept

LEMMA ForgetDeletedKeeps == ASSUME IInv, NEW k \in Keys, ForgetDeleted(k) PROVE Kept
<1> USE Fields
<1>0. Typing /\ k \in gone BY DEF IInv, KeyOK, ForgetDeleted
<1>1. /\ UNCHANGED <<now, jira, gone, flights, threads>>
      /\ removed' = removed \ {k} /\ fence' = fence + 1
      /\ cut' = [cut EXCEPT ![k] = fence + 1] /\ floor' = [floor EXCEPT ![k] = jira[k]]
      /\ row' = [row EXCEPT ![k] = NoCopy] /\ shown' = [shown EXCEPT ![k] = NoCopy]
      /\ forgotten' = forgotten \cup {k}
  BY DEF ForgetDeleted, Forget
<1>2. Grow BY <1>0, <1>1 DEF Grow, IInv, KeyOK, Typing
<1>3. ASSUME NEW j \in Keys PROVE KeyOK(j)'
  <2>1. KeyOK(j) BY DEF IInv
  <2>2. CASE j = k BY <1>0, <1>1, <2>1, <2>2 DEF KeyOK, Typing
  <2>3. CASE j # k BY <1>0, <1>1, <2>1, <2>3 DEF KeyOK, Typing
  <2> QED BY <2>2, <2>3
<1> QED BY <1>1, <1>2, <1>3, NobodyMoves DEF Kept

LEMMA InvalidateAllKeeps == ASSUME IInv, InvalidateAll PROVE Kept
<1> USE Fields
<1>0. Typing BY DEF IInv
<1>1. /\ UNCHANGED <<world, flights, threads, forgotten>>
      /\ fence' = fence + 1 /\ cut' = [k \in Keys |-> fence + 1] /\ floor' = jira
      /\ row' = [k \in Keys |-> NoCopy] /\ shown' = [k \in Keys |-> NoCopy]
  BY DEF InvalidateAll
<1>2. Grow BY <1>0, <1>1 DEF Grow, IInv, KeyOK, world
<1>3. \A j \in Keys : KeyOK(j)' BY <1>0, <1>1 DEF IInv, KeyOK, world
<1> QED BY <1>1, <1>2, <1>3, NobodyMoves DEF Kept

LEMMA TickKeeps == ASSUME IInv, Tick PROVE Kept
<1> USE Fields
<1>0. Typing BY DEF IInv
<1>1. /\ UNCHANGED <<jira, gone, written, removed, tables, fence, flights, threads, history>>
      /\ now' = now + 1
  BY DEF Tick
<1>2. Grow BY <1>0, <1>1 DEF Grow, history
<1>3. \A j \in Keys : KeyOK(j)' BY <1>1 DEF IInv, KeyOK, tables, history
<1> QED BY <1>1, <1>2, <1>3, NobodyMoves DEF Kept

(* The tables outlive the process; flights and threads do not. *)
LEMMA RestartKeeps == ASSUME IInv, Restart PROVE Kept
<1> USE Fields
<1>0. Typing BY DEF IInv
<1>1. \A j \in Keys : KeyOK(j)' BY <1>0 DEF IInv, KeyOK, Restart
<1>2. NoReq.floor = 0 /\ NoReq.key \in Keys BY KeysAssumption DEF NoReq
<1>3. ASSUME NEW q \in Procs PROVE ThreadInv(q)'
  <2>1. pc'[q] = "idle" /\ req'[q] = NoReq /\ fly'[q] = NoFly /\ fence' = 0 /\ floor' = floor
        /\ now' = now
    BY DEF Restart
  <2>2. ThreadOK(q)' BY <1>0, <1>2, <2>1 DEF ThreadOK, NoFly
  <2> QED BY <2>1, <2>2 DEF ThreadInv, ProducedOK, WaitOK, AnswerOK
<1>4. FlightsOK' BY DEF Restart, FlightsOK, ProducingPlaces
<1> QED BY <1>1, <1>3, <1>4 DEF Kept

----------------------------------------------------------------------------
(* The invariant. *)

LEMMA InitIInv == Init => IInv
<1> SUFFICES ASSUME Init PROVE IInv
  OBVIOUS
<1> USE DEF Init
<1>1. Typing
  <2>1. NoReq \in ReqSet /\ NoFly \in FlySet /\ Nothing \in AnswerSet /\ NoCopy \in CopySet
    BY Reqs, Flies, Answers, CopiesTyped
  <2>2. 0 \in 0..(PurgeEvery - 1) BY TimesAssumption
  <2>3. /\ pc \in [Procs -> Places] /\ req \in [Procs -> ReqSet]
        /\ fly \in [Procs -> FlySet] /\ got \in [Procs -> AnswerSet]
    BY <2>1, PlacesTyped
  <2>4. row \in [Keys -> CopySet] /\ shown \in [Keys -> CopySet] BY <2>1
  <2>5. flights \subseteq FlightSet /\ queue \in Seq(JobSet) OBVIOUS
  <2>6. /\ now \in Nat /\ fence \in Nat /\ setCount \in 0..(PurgeEvery - 1)
        /\ jira \in [Keys -> Nat] /\ cut \in [Keys -> Nat] /\ floor \in [Keys -> Nat]
        /\ gone \subseteq Keys /\ written \subseteq Keys
        /\ removed \subseteq Keys /\ forgotten \subseteq Keys
    BY <2>2
  <2> QED BY <2>3, <2>4, <2>5, <2>6 DEF Typing
<1>2. FlightsOK BY DEF FlightsOK, ProducingPlaces
<1>3. \A k \in Keys : KeyOK(k) BY DEF KeyOK
<1>4. ASSUME NEW p \in Procs PROVE ThreadInv(p)
  <2>1. NoReq.floor = 0 /\ NoReq.key \in Keys BY KeysAssumption DEF NoReq
  <2> QED BY <2>1 DEF ThreadInv, ThreadOK, ProducedOK, WaitOK, AnswerOK, NoFly
<1> QED BY <1>1, <1>2, <1>3, <1>4 DEF IInv

LEMMA StepIInv == IInv /\ [Next]_vars => IInv'
<1> SUFFICES ASSUME IInv, [Next]_vars PROVE IInv'
  OBVIOUS
<1>1. Typing' BY TypingStep DEF IInv
<1>2. Kept
  <2>1. ASSUME NEW p \in Procs, Step(p) PROVE Kept
    BY <2>1, JoinKeeps, HitLateKeeps, OwnKeeps, ProduceKeeps, StoreKeeps, SettleKeeps,
       RetireKeeps, ResumeKeeps, ReturnKeeps DEF Step
  <2>2. ASSUME NEW r \in Readers, ReaderStep(r) PROVE Kept
    BY <2>2, SnapshotKeeps, ScheduleKeeps, SetThroughKeeps DEF ReaderStep
  <2>3. ASSUME NEW r \in Readers, NEW k \in Keys,
               FetchMany(r, k) \/ \E strict \in Modes : Read(r, k, strict)
        PROVE  Kept
    BY <2>3, FetchManyKeeps, ReadKeeps
  <2>4. CASE TakeJob BY <2>4, TakeJobKeeps
  <2>5. CASE World
    BY <2>5, JiraMoves, InvalidateKeeps, ForgetDeletedKeeps, InvalidateAllKeeps, TickKeeps,
       RestartKeeps DEF World
  <2>6. CASE UNCHANGED vars
    <3>1. UNCHANGED <<world, tables, fence, history>> /\ UNCHANGED <<threads, flights>>
      BY <2>6 DEF vars
    <3> QED BY <3>1, Quiet, NobodyMoves DEF Kept
  <2> QED BY <2>1, <2>2, <2>3, <2>4, <2>5, <2>6 DEF Next
<1> QED BY <1>1, <1>2 DEF Kept, IInv

LEMMA SpecIInv == Spec => []IInv
BY InitIInv, StepIInv, PTL DEF Spec

(* Whatever is read, invalidated, forgotten or restarted, the tables, the flights and the *)
(* threads of the read cache stay well formed, and the purge count starts over.           *)
THEOREM TypeCorrect == Spec => []TypeOK
<1>1. IInv => TypeOK BY TypeIsTyping DEF IInv
<1> QED BY <1>1, SpecIInv, PTL

(* What a producer read before an invalidation never comes back into the cache after it, *)
(* for any number of readers, keys, generations and restarts (set_if_fence).             *)
THEOREM FenceHolds == Spec => []NoResurrection
<1>1. IInv => NoResurrection BY DEF IInv, KeyOK, NoResurrection, FencedKeys
<1> QED BY <1>1, SpecIInv, PTL

(* A reader that starts after a write was invalidated is never given the older version  *)
(* as current, whichever flight it joined and whatever it fell back to.                  *)
THEOREM WritesAreRead == Spec => []ReadYourWrites
<1>1. IInv => ReadYourWrites
  BY DEF IInv, ThreadInv, AnswerOK, Valued, ReadYourWrites, Procs
<1> QED BY <1>1, SpecIInv, PTL

(* A key forgotten as deleted or denied has no copy again: no earlier producer and no    *)
(* background refresh puts it back.                                                      *)
THEOREM ForgottenForGood == Spec => []ForgottenStays
<1>1. IInv => ForgottenStays BY DEF IInv, Typing, KeyOK, ForgottenStays
<1> QED BY <1>1, SpecIInv, PTL

(* One producer runs for a key in a generation, foreground and background together.      *)
THEOREM OneProducer == Spec => []SingleFlight
<1>1. IInv => SingleFlight
  <2> SUFFICES ASSUME IInv, NEW p \in Producing, NEW q \in Producing, p # q
               PROVE  <<req[p].key, fly[p].fence>> # <<req[q].key, fly[q].fence>>
    BY DEF SingleFlight
  <2>1. OwnFlight(p) \in flights /\ OwnFlight(q) \in flights
    BY DEF IInv, FlightsOK, Producing, ProducingPlaces
  <2>2. OwnFlight(p) # OwnFlight(q)
    <3>1. OwnFlight(p).owner = p /\ OwnFlight(q).owner = q BY DEF OwnFlight
    <3> QED BY <3>1
  <2> QED BY <2>1, <2>2 DEF IInv, FlightsOK, OwnFlight
<1> QED BY <1>1, SpecIInv, PTL

(* Whoever waits for a future waits for a producer of its key and generation that has    *)
(* still to settle it: no follower is left behind.                                       *)
THEOREM NoOrphans == Spec => []FollowersHaveOwner
<1>1. IInv => FollowersHaveOwner BY DEF IInv, ThreadInv, WaitOK, FollowersHaveOwner
<1> QED BY <1>1, SpecIInv, PTL

(* A key has a row or a display copy and never both: what is shown after a row expired   *)
(* is that row.                                                                          *)
THEOREM RowOrDisplay == Spec => []OneCopy
<1>1. IInv => OneCopy BY DEF IInv, KeyOK, OneCopy
<1> QED BY <1>1, SpecIInv, PTL

\* The row of a key that batches do not fill appears by set_if_fence alone.
LEMMA RowAppears ==
    ASSUME IInv, [Next]_vars, NEW k \in FencedKeys, row'[k] # row[k], row'[k] # NoCopy
    PROVE  \E p \in Procs : Store(p) /\ StoreValue(p) /\ req[p].key = k
<1> USE Fields
<1>0. Typing /\ k \in Keys BY DEF IInv, FencedKeys
<1>1. ASSUME NEW p \in Procs, Step(p)
      PROVE  Store(p) /\ StoreValue(p) /\ req[p].key = k
  <2>1. Store(p)
    BY <1>1 DEF Step, Join, HitLate, Own, Produce, Settle, Retire, Resume, Return, tables
  <2>2. ~SkipStore(p) /\ ~StoreNothing(p) BY DEF SkipStore, StoreNothing, tables
  <2>3. ~ForgetDenied(p) BY <1>0 DEF ForgetDenied, Forget, Typing
  <2>4. StoreValue(p) BY <2>1, <2>2, <2>3 DEF Store
  <2>5. [version |-> got[p].version, at |-> fly[p].started] \in CopySet
    BY <1>0, CopiesTyped
  <2>6. req[p].key = k BY <1>0, <2>4, <2>5, PutEffect DEF StoreValue
  <2> QED BY <2>1, <2>4, <2>6
<1>2. ASSUME NEW r \in Readers, ReaderStep(r) PROVE FALSE
  <2>1. SetThrough(r) BY <1>2 DEF ReaderStep, Snapshot, Schedule, tables
  <2>2. r \in Procs BY DEF Procs
  <2>3. req[r].key # k
    BY <2>1, <2>2 DEF SetThrough, IInv, ThreadInv, ThreadOK, FencedKeys
  <2>4. [version |-> got[r].version, at |-> now] \in CopySet BY <1>0, <2>2, CopiesTyped
  <2> QED BY <1>0, <2>1, <2>2, <2>3, <2>4, PutEffect DEF SetThrough
<1>3. \A r \in Readers, j \in Keys : ~FetchMany(r, j) /\ \A s \in Modes : ~Read(r, j, s)
  BY DEF FetchMany, Read, tables
<1>4. ~TakeJob BY DEF TakeJob, tables
<1>5. ~World
  <2>1. \A j \in Keys : ~Write(j) /\ ~Delete(j) /\ ~Edit(j) /\ ~Deny(j)
    BY DEF Write, Delete, Edit, Deny, tables
  <2>2. \A j \in Keys : ~Invalidate(j) BY <1>0 DEF Invalidate, Archive, Typing
  <2>3. \A j \in Keys : ~ForgetDeleted(j) BY <1>0 DEF ForgetDeleted, Forget, Typing
  <2>4. ~InvalidateAll /\ ~Tick /\ ~Restart BY <1>0 DEF InvalidateAll, Tick, Restart, tables
  <2> QED BY <2>1, <2>2, <2>3, <2>4 DEF World
<1>6. row = row' => FALSE OBVIOUS
<1> QED BY <1>1, <1>2, <1>3, <1>4, <1>5, <1>6 DEF Next, vars, tables

(* A row that appears was read by the producer that stores it and is dated no later than *)
(* Jira was really read, however long the producer took.                                 *)
THEOREM AgesAreHonest == Spec => AgeIsHonest
<1>1. ASSUME IInv, [Next]_vars
      PROVE  [\A k \in FencedKeys :
                 row'[k] # row[k] /\ row'[k] # NoCopy => DatedFromRead(k)]_vars
  <2> SUFFICES ASSUME NEW k \in FencedKeys, row'[k] # row[k], row'[k] # NoCopy
               PROVE  DatedFromRead(k)
    OBVIOUS
  <2>1. PICK p \in Procs : Store(p) /\ StoreValue(p) /\ req[p].key = k BY <1>1, RowAppears
  <2>2. Typing /\ ProducedOK(p) /\ k \in Keys BY <1>1 DEF IInv, ThreadInv, FencedKeys
  <2>3. [version |-> got[p].version, at |-> fly[p].started] \in CopySet
    BY <2>2, Fields, CopiesTyped
  <2>4. row'[k] = [version |-> got[p].version, at |-> fly[p].started]
    BY <2>1, <2>2, <2>3, PutEffect DEF StoreValue
  <2>5. fly[p].started <= got[p].seen BY <2>1, <2>2 DEF Store, StoreValue, ProducedOK
  <2> QED BY <2>1, <2>4, <2>5 DEF Store, DatedFromRead
<1> QED BY <1>1, SpecIInv, PTL DEF Spec, AgeIsHonest

=============================================================================
