----------------------------- MODULE SharedCache -----------------------------
(***************************************************************************)
(* The shared read cache of app/infra/cache.py: one SQLite file, one lock, *)
(* two tiers of rows and a table of flights.                               *)
(*                                                                         *)
(* A row of `cache` answers while it is fresh.  Past that it, or the copy  *)
(* an invalidation moved to `cache_display`, is still shown until it is    *)
(* dead.  Readers that miss share one producer per (key, generation); the  *)
(* generation is `_write_fence`, a counter of the process that every       *)
(* invalidation advances, and a producer stores only under the generation  *)
(* it started in.  Jira itself changes under the cache: by this program's  *)
(* writes, which invalidate once they have returned, and by other users.   *)
(*                                                                         *)
(* An action is one critical section of Cache._lock, one return of a Jira  *)
(* call, or one event of the world outside.                                *)
(***************************************************************************)
EXTENDS Naturals, Sequences, FiniteSets

CONSTANTS
    Keys,            \* cache keys, each a resource of Jira
    ThroughKeys,     \* those that list and batch reads also fill, by Cache.set
    Readers,         \* request threads
    Worker,          \* the background refresh thread (JiraClient._bg_pool)
    Modes,           \* the kinds of read made: TRUE for strict ones, FALSE for the others
    NoCopy,          \* no row
    Ttl,             \* how long a row is fresh
    DisplayTtl,      \* how long a row is shown (dead_ttl)
    PurgeEvery,      \* stores between two purges (PURGE_EVERY)
    MaxTime,         \* bound: clock ticks
    MaxVersion,      \* bound: changes of one resource
    MaxFence         \* bound: no read or refresh-all starts past this generation

Procs == Readers \cup {Worker}
Copies == [version : Nat, at : Nat]

ASSUME KeysAssumption == Keys # {} /\ ThroughKeys \subseteq Keys
ASSUME ModesAssumption == Modes \subseteq BOOLEAN
ASSUME WorkerAssumption == Worker \notin Readers
ASSUME CopyAssumption == NoCopy \notin Copies
ASSUME TimesAssumption ==
    /\ Ttl \in Nat
    /\ DisplayTtl \in Nat
    /\ Ttl <= DisplayTtl
    /\ PurgeEvery \in Nat \ {0}
    /\ MaxTime \in Nat
    /\ MaxVersion \in Nat
    /\ MaxFence \in Nat

VARIABLES
    now,         \* clock
    jira,        \* version of each resource in Jira
    gone,        \* resources Jira answers 403 or 404 for
    written,     \* resources this program wrote, their invalidation still to come
    removed,     \* resources this program deleted, to be forgotten still
    row,         \* table cache: the copy and its fetched_at
    shown,       \* table cache_display
    setCount,    \* _set_count
    fence,       \* _write_fence
    flights,     \* _flights: key and generation, and whose producer it is
    queue,       \* jobs waiting for the background thread
    pc,          \* where each thread is
    req,         \* what it reads
    fly,         \* the generation and start time of its flight, or whose flight it joined
    got,         \* what its producer, or the cache, gave it; `seen` is when Jira was read
    cut,         \* history: the generation that began when the key was last invalidated
    floor,       \* history: the version Jira had when the key was last invalidated
    forgotten    \* history: keys forgotten as deleted or denied

world == <<now, jira, gone, written, removed>>
tables == <<row, shown, setCount>>
threads == <<pc, req, fly, got>>
history == <<cut, floor, forgotten>>
vars == <<world, tables, fence, flights, queue, threads, history>>

NoReq == [key |-> CHOOSE k \in Keys : TRUE, strict |-> TRUE, alive |-> FALSE, floor |-> 0]
NoFly == [fence |-> 0, started |-> 0, owner |-> Worker]
Nothing == [outcome |-> "none", version |-> 0, seen |-> 0, flag |-> "none"]

Init ==
    /\ now = 0
    /\ jira = [k \in Keys |-> 0]
    /\ gone = {}
    /\ written = {}
    /\ removed = {}
    /\ row = [k \in Keys |-> NoCopy]
    /\ shown = [k \in Keys |-> NoCopy]
    /\ setCount = 0
    /\ fence = 0
    /\ flights = {}
    /\ queue = <<>>
    /\ pc = [p \in Procs |-> "idle"]
    /\ req = [p \in Procs |-> NoReq]
    /\ fly = [p \in Procs |-> NoFly]
    /\ got = [p \in Procs |-> Nothing]
    /\ cut = [k \in Keys |-> 0]
    /\ floor = [k \in Keys |-> 0]
    /\ forgotten = {}

-----------------------------------------------------------------------------
(* The tables. *)

Fresh(k) == row[k] # NoCopy /\ now - row[k].at <= Ttl

Dead(copy) == copy # NoCopy /\ now - copy.at > DisplayTtl

\* get_alive: the row if there is one, else the display copy; nothing once it is dead.
Alive(k) ==
    LET copy == IF row[k] # NoCopy THEN row[k] ELSE shown[k]
    IN  IF Dead(copy) THEN NoCopy ELSE copy

\* metadata: how a copy that is handed out describes itself.
FlagOf(k) ==
    IF row[k] = NoCopy THEN "invalidated" ELSE IF Fresh(k) THEN "fresh" ELSE "stale"

Purged(table) == [k \in Keys |-> IF Dead(table[k]) THEN NoCopy ELSE table[k]]

\* Every store drops the display copy, and every PurgeEvery-th also purges both tables.
Put(k, copy) ==
    LET rows == [row EXCEPT ![k] = copy]
        displays == [shown EXCEPT ![k] = NoCopy]
        purge == setCount + 1 >= PurgeEvery
    IN  /\ row' = IF purge THEN Purged(rows) ELSE rows
        /\ shown' = IF purge THEN Purged(displays) ELSE displays
        /\ setCount' = IF purge THEN 0 ELSE setCount + 1

\* Invalidation keeps what it takes away as a display copy.
Archive(k) ==
    /\ shown' = [shown EXCEPT ![k] = IF row[k] # NoCopy THEN row[k] ELSE shown[k]]
    /\ row' = [row EXCEPT ![k] = NoCopy]
    /\ UNCHANGED setCount

\* Slip: forgetting does not end the generation.
ForgetQuietly(k) ==
    /\ row' = [row EXCEPT ![k] = NoCopy]
    /\ shown' = [shown EXCEPT ![k] = NoCopy]
    /\ floor' = [floor EXCEPT ![k] = jira[k]]
    /\ forgotten' = forgotten \cup {k}
    /\ UNCHANGED <<setCount, fence, cut>>

\* forget: neither copy survives, and flights of this generation may no longer store.
Forget(k) ==
    /\ fence' = fence + 1
    /\ row' = [row EXCEPT ![k] = NoCopy]
    /\ shown' = [shown EXCEPT ![k] = NoCopy]
    /\ cut' = [cut EXCEPT ![k] = fence + 1]
    /\ floor' = [floor EXCEPT ![k] = jira[k]]
    /\ forgotten' = forgotten \cup {k}
    /\ UNCHANGED setCount

-----------------------------------------------------------------------------
(* A read: get, then the display copy, then the flight. *)

Goto(p, place) == pc' = [pc EXCEPT ![p] = place]
Give(p, answer) == got' = [got EXCEPT ![p] = answer]

\* A copy of k as an answer.
Shown(k, copy) ==
    [outcome |-> "value", version |-> copy.version, seen |-> 0, flag |-> FlagOf(k)]

\* get_or_set, get_or_set_swr and, with strict, get_or_set_strict or ?revalidate=1.
Read(r, k, strict) ==
    /\ pc[r] = "idle"
    /\ fence < MaxFence
    /\ req' = [req EXCEPT ![r] = [key |-> k, strict |-> strict, alive |-> FALSE, floor |-> floor[k]]]
    /\ IF Fresh(k)
         THEN Goto(r, "done") /\ Give(r, Shown(k, row[k]))
         ELSE Goto(r, "missed") /\ UNCHANGED got
    /\ UNCHANGED <<world, tables, fence, flights, queue, fly, history>>

\* _display_snapshot and what is decided on it.  Whether the upstream is taken to
\* be down is the circuit breaker's answer at this moment.
Snapshot(r) ==
    /\ pc[r] = "missed"
    /\ LET k == req[r].key
           copy == Alive(k)
       IN  \/ /\ req[r].strict \/ copy = NoCopy \/ row[k] = NoCopy
              /\ Goto(r, "refresh")
              /\ req' = [req EXCEPT ![r] = [key |-> k, strict |-> req[r].strict,
                                            alive |-> ~req[r].strict /\ copy # NoCopy,
                                            floor |-> req[r].floor]]
              /\ UNCHANGED got
           \/ /\ ~req[r].strict /\ copy # NoCopy /\ row[k] # NoCopy
              /\ Goto(r, "schedule")
              /\ Give(r, Shown(k, copy))
              /\ UNCHANGED req
           \/ /\ ~req[r].strict /\ copy # NoCopy        \* skip_producer
              /\ Goto(r, "done")
              /\ Give(r, Shown(k, copy))
              /\ UNCHANGED req
    /\ UNCHANGED <<world, tables, fence, flights, queue, fly, history>>

InFlightKeys == {queue[i].key : i \in DOMAIN queue}
                  \cup (IF pc[Worker] = "idle" THEN {} ELSE {req[Worker].key})

\* The stale copy is the answer; one refresh of the key is queued behind it.
Schedule(r) ==
    /\ pc[r] = "schedule"
    /\ queue' = IF req[r].key \in InFlightKeys THEN queue
                ELSE Append(queue, [key |-> req[r].key, fence |-> fence])
    /\ Goto(r, "done")
    /\ UNCHANGED <<world, tables, fence, flights, req, fly, got, history>>

\* The background thread drops a job that an invalidation or a fresh row overtook.
TakeJob ==
    /\ pc[Worker] = "idle"
    /\ queue # <<>>
    /\ queue' = Tail(queue)
    /\ LET job == Head(queue)
       IN  IF job.fence = fence /\ ~Fresh(job.key)
             THEN /\ Goto(Worker, "refresh")
                  /\ req' = [req EXCEPT ![Worker] =
                        [key |-> job.key, strict |-> TRUE, alive |-> FALSE, floor |-> 0]]
             ELSE UNCHANGED <<pc, req>>
    /\ UNCHANGED <<world, tables, fence, flights, fly, got, history>>

\* Slip: flights are looked up by key alone.
FlightOfAnyGeneration(k, f) == {x \in flights : x.key = k}

FlightOf(k, f) == {x \in flights : x.key = k /\ x.fence = f}

\* A future whose owner is already past set_result gives its result at once.
Join(p) ==
    /\ pc[p] = "refresh"
    /\ \E x \in FlightOf(req[p].key, fence) :
         IF pc[x.owner] = "retire"
           THEN /\ Goto(p, "resume")
                /\ Give(p, got[x.owner])
                /\ UNCHANGED fly
           ELSE /\ Goto(p, "wait")
                /\ fly' = [fly EXCEPT ![p] = [fence |-> fence, started |-> 0, owner |-> x.owner]]
                /\ UNCHANGED got
    /\ UNCHANGED <<world, tables, fence, flights, queue, req, history>>

\* A producer may have finished between the caller's miss and this lock.
HitLate(p) ==
    /\ pc[p] = "refresh"
    /\ FlightOf(req[p].key, fence) = {}
    /\ Fresh(req[p].key)
    /\ Goto(p, "done")
    /\ Give(p, Shown(req[p].key, row[req[p].key]))
    /\ UNCHANGED <<world, tables, fence, flights, queue, req, fly, history>>

Own(p) ==
    /\ pc[p] = "refresh"
    /\ FlightOf(req[p].key, fence) = {}
    /\ ~Fresh(req[p].key)
    /\ flights' = flights \cup {[key |-> req[p].key, fence |-> fence, owner |-> p]}
    /\ fly' = [fly EXCEPT ![p] = [fence |-> fence, started |-> now, owner |-> p]]
    /\ Goto(p, "produce")
    /\ UNCHANGED <<world, tables, fence, queue, req, got, history>>

-----------------------------------------------------------------------------
(* The owner of a flight. *)

\* The producer returns: Jira was read at this moment, or failed, or denied the key.
Produce(p) ==
    /\ pc[p] = "produce"
    /\ \/ /\ req[p].key \notin gone
          /\ \E outcome \in {"value", "partial"} :
               Give(p, [outcome |-> outcome, version |-> jira[req[p].key],
                        seen |-> now, flag |-> "none"])
       \/ Give(p, [outcome |-> "failed", version |-> 0, seen |-> 0, flag |-> "none"])
       \/ /\ req[p].key \in gone
          /\ Give(p, [outcome |-> "gone", version |-> 0, seen |-> 0, flag |-> "none"])
    /\ Goto(p, "store")
    /\ UNCHANGED <<world, tables, fence, flights, queue, req, fly, history>>

\* What the callers will have, and how it describes itself.
Label(p, flag) ==
    Give(p, [outcome |-> got[p].outcome, version |-> got[p].version, seen |-> 0, flag |-> flag])

\* Slip: the fence is not looked at.
StoreUnfenced(p) ==
    /\ got[p].outcome = "value"
    /\ Put(req[p].key, [version |-> got[p].version, at |-> fly[p].started])
    /\ Label(p, "fresh")
    /\ UNCHANGED <<fence, history>>

\* Slip: the row is dated from when it is stored.
StoreDatedNow(p) ==
    /\ got[p].outcome = "value"
    /\ fence = fly[p].fence
    /\ Put(req[p].key, [version |-> got[p].version, at |-> now])
    /\ Label(p, "fresh")
    /\ UNCHANGED <<fence, history>>

\* set_if_fence: the row is dated from before the producer ran.
StoreValue(p) ==
    /\ got[p].outcome = "value"
    /\ fence = fly[p].fence
    /\ Put(req[p].key, [version |-> got[p].version, at |-> fly[p].started])
    /\ Label(p, IF now - fly[p].started <= Ttl THEN "fresh" ELSE "stale")
    /\ UNCHANGED <<fence, history>>

\* An invalidation came in between: the callers may have the value, the cache may not.
SkipStore(p) ==
    /\ got[p].outcome = "value"
    /\ fence # fly[p].fence
    /\ Label(p, "invalidated")
    /\ UNCHANGED <<tables, fence, history>>

ForgetDenied(p) ==
    /\ got[p].outcome = "gone"
    /\ fence = fly[p].fence
    /\ Forget(req[p].key)
    /\ Label(p, "none")

StoreNothing(p) ==
    /\ \/ got[p].outcome \in {"partial", "failed"}
       \/ got[p].outcome = "gone" /\ fence # fly[p].fence
    /\ Label(p, "none")
    /\ UNCHANGED <<tables, fence, history>>

Store(p) ==
    /\ pc[p] = "store"
    /\ StoreValue(p) \/ SkipStore(p) \/ ForgetDenied(p) \/ StoreNothing(p)
    /\ Goto(p, "settle")
    /\ UNCHANGED <<world, flights, queue, req, fly>>

\* Slip: only a result is handed to the followers, an exception is not.
FollowersOfResult(p) ==
    {q \in Procs : pc[q] = "wait" /\ fly[q].owner = p /\ got[p].outcome # "failed"}

Followers(p) == {q \in Procs : pc[q] = "wait" /\ fly[q].owner = p}

\* set_result or set_exception: every follower has it.
Settle(p) ==
    /\ pc[p] = "settle"
    /\ pc' = [q \in Procs |-> IF q \in Followers(p) THEN "resume"
                              ELSE IF q = p THEN "retire" ELSE pc[q]]
    /\ got' = [q \in Procs |-> IF q \in Followers(p) THEN got[p] ELSE got[q]]
    /\ fly' = [q \in Procs |-> IF q \in Followers(p) THEN NoFly ELSE fly[q]]
    /\ UNCHANGED <<world, tables, fence, flights, queue, req, history>>

\* finally: the flight leaves the table.
Retire(p) ==
    /\ pc[p] = "retire"
    /\ flights' = flights \ {[key |-> req[p].key, fence |-> fly[p].fence, owner |-> p]}
    /\ fly' = [fly EXCEPT ![p] = NoFly]
    /\ Goto(p, "resume")
    /\ UNCHANGED <<world, tables, fence, queue, req, got, history>>

\* A failed refresh falls back to the display copy, if there was one before and still is.
Resume(p) ==
    /\ pc[p] = "resume"
    /\ LET k == req[p].key
           current == Alive(k)
       IN  IF /\ got[p].outcome \in {"failed", "gone"}
              /\ ~req[p].strict /\ req[p].alive /\ current # NoCopy
             THEN Give(p, Shown(k, current))
             ELSE UNCHANGED got
    /\ Goto(p, "done")
    /\ UNCHANGED <<world, tables, fence, flights, queue, req, fly, history>>

\* The caller has its answer.
Return(p) ==
    /\ pc[p] = "done"
    /\ Goto(p, "idle")
    /\ req' = [req EXCEPT ![p] = NoReq]
    /\ Give(p, Nothing)
    /\ UNCHANGED <<world, tables, fence, flights, queue, fly, history>>

-----------------------------------------------------------------------------
(* Lists and batches: prefetch_issues, the legacy searches, the epic's children and *)
(* the changelog batch read Jira and then set each row, whatever the fence says.    *)

FetchMany(r, k) ==
    /\ pc[r] = "idle"
    /\ fence < MaxFence
    /\ k \in ThroughKeys \ gone
    /\ ~Fresh(k)
    /\ Goto(r, "fetched")
    /\ req' = [req EXCEPT ![r] = [key |-> k, strict |-> TRUE, alive |-> FALSE, floor |-> floor[k]]]
    /\ Give(r, [outcome |-> "value", version |-> jira[k], seen |-> now, flag |-> "none"])
    /\ UNCHANGED <<world, tables, fence, flights, queue, fly, history>>

SetThrough(r) ==
    /\ pc[r] = "fetched"
    /\ Put(req[r].key, [version |-> got[r].version, at |-> now])
    /\ Goto(r, "idle")
    /\ req' = [req EXCEPT ![r] = NoReq]
    /\ Give(r, Nothing)
    /\ UNCHANGED <<world, fence, flights, queue, fly, history>>

-----------------------------------------------------------------------------
(* The world outside, and the writes of this program. *)

\* A write of this program commits in Jira ...
Write(k) ==
    /\ k \notin gone
    /\ jira[k] < MaxVersion
    /\ jira' = [jira EXCEPT ![k] = jira[k] + 1]
    /\ written' = written \cup {k}
    /\ UNCHANGED <<now, gone, removed, tables, fence, flights, queue, threads, history>>

\* ... and, once its answer is in, its keys are invalidated.
Invalidate(k) ==
    /\ k \in written
    /\ written' = written \ {k}
    /\ fence' = fence + 1
    /\ Archive(k)
    /\ cut' = [cut EXCEPT ![k] = fence + 1]
    /\ floor' = [floor EXCEPT ![k] = jira[k]]
    /\ UNCHANGED <<now, jira, gone, removed, flights, queue, threads, forgotten>>

\* A deletion by this program, and the forget that follows its answer.
Delete(k) ==
    /\ k \notin gone
    /\ jira[k] < MaxVersion
    /\ jira' = [jira EXCEPT ![k] = jira[k] + 1]
    /\ gone' = gone \cup {k}
    /\ removed' = removed \cup {k}
    /\ UNCHANGED <<now, written, tables, fence, flights, queue, threads, history>>

ForgetDeleted(k) ==
    /\ k \in removed
    /\ removed' = removed \ {k}
    /\ Forget(k)
    /\ UNCHANGED <<now, jira, gone, written, flights, queue, threads>>

\* /api/refresh: everything goes, display copies too.
InvalidateAll ==
    /\ fence < MaxFence
    /\ fence' = fence + 1
    /\ row' = [k \in Keys |-> NoCopy]
    /\ shown' = [k \in Keys |-> NoCopy]
    /\ cut' = [k \in Keys |-> fence + 1]
    /\ floor' = jira
    /\ UNCHANGED <<world, setCount, flights, queue, threads, forgotten>>

\* Another user of Jira changes, or takes away, a resource.
Edit(k) ==
    /\ k \notin gone
    /\ jira[k] < MaxVersion
    /\ jira' = [jira EXCEPT ![k] = jira[k] + 1]
    /\ UNCHANGED <<now, gone, written, removed, tables, fence, flights, queue, threads, history>>

Deny(k) ==
    /\ k \notin gone
    /\ gone' = gone \cup {k}
    /\ UNCHANGED <<now, jira, written, removed, tables, fence, flights, queue, threads, history>>

Tick ==
    /\ now < MaxTime
    /\ now' = now + 1
    /\ UNCHANGED <<jira, gone, written, removed, tables, fence, flights, queue, threads, history>>

\* The process ends and starts again: SQLite keeps the tables, memory starts anew.
Restart ==
    /\ fence' = 0
    /\ setCount' = 0
    /\ flights' = {}
    /\ queue' = <<>>
    /\ written' = {}
    /\ removed' = {}
    /\ pc' = [p \in Procs |-> "idle"]
    /\ req' = [p \in Procs |-> NoReq]
    /\ fly' = [p \in Procs |-> NoFly]
    /\ got' = [p \in Procs |-> Nothing]
    /\ cut' = [k \in Keys |-> 0]
    /\ UNCHANGED <<now, jira, gone, row, shown, floor, forgotten>>

-----------------------------------------------------------------------------

Step(p) ==
    \/ Join(p) \/ HitLate(p) \/ Own(p)
    \/ Produce(p) \/ Store(p) \/ Settle(p) \/ Retire(p) \/ Resume(p) \/ Return(p)

ReaderStep(r) == Snapshot(r) \/ Schedule(r) \/ SetThrough(r)

World ==
    \/ \E k \in Keys : \/ Write(k) \/ Invalidate(k) \/ Delete(k) \/ ForgetDeleted(k)
                       \/ Edit(k) \/ Deny(k)
    \/ InvalidateAll \/ Tick \/ Restart

Next ==
    \/ \E p \in Procs : Step(p)
    \/ \E r \in Readers : ReaderStep(r)
    \/ \E r \in Readers, k \in Keys : FetchMany(r, k) \/ \E strict \in Modes : Read(r, k, strict)
    \/ TakeJob
    \/ World

Spec == Init /\ [][Next]_vars

(* Threads run, and a producer returns: every Jira call has a time limit. *)
Fairness ==
    /\ \A p \in Procs : WF_vars(Step(p))
    /\ \A r \in Readers : WF_vars(ReaderStep(r))
    /\ WF_vars(TakeJob)

-----------------------------------------------------------------------------
(* Properties.  Keys that Cache.set also fills behind the fence's back are left out *)
(* where the fence is what the property rests on: see ResurrectionAnywhere.         *)

FencedKeys == Keys \ ThroughKeys

Outcomes == {"none", "value", "partial", "failed", "gone"}
Flags == {"none", "fresh", "stale", "invalidated"}
Places == {"idle", "missed", "schedule", "refresh", "wait", "produce", "store", "settle",
           "retire", "resume", "done", "fetched"}

(* The tables, the flights and the threads stay well formed; in particular *)
(* the count of stores between purges starts over at its limit.            *)
TypeOK ==
    /\ now \in Nat
    /\ jira \in [Keys -> Nat]
    /\ gone \subseteq Keys
    /\ written \subseteq Keys
    /\ removed \subseteq Keys
    /\ row \in [Keys -> Copies \cup {NoCopy}]
    /\ shown \in [Keys -> Copies \cup {NoCopy}]
    /\ setCount \in 0..(PurgeEvery - 1)
    /\ fence \in Nat
    /\ flights \subseteq [key : Keys, fence : Nat, owner : Procs]
    /\ queue \in Seq([key : Keys, fence : Nat])
    /\ pc \in [Procs -> Places]
    /\ req \in [Procs -> [key : Keys, strict : BOOLEAN, alive : BOOLEAN, floor : Nat]]
    /\ fly \in [Procs -> [fence : Nat, started : Nat, owner : Procs]]
    /\ got \in [Procs -> [outcome : Outcomes, version : Nat, seen : Nat, flag : Flags]]
    /\ cut \in [Keys -> Nat]
    /\ floor \in [Keys -> Nat]
    /\ forgotten \subseteq Keys

(* What a producer read before an invalidation never comes back into the   *)
(* cache after it, however late the producer returns and whoever shared it: *)
(* the promise of the fence in Cache.refresh and set_if_fence.             *)
NoResurrection ==
    \A k \in FencedKeys : row[k] # NoCopy => row[k].version >= floor[k]

(* A reader that starts after a write was invalidated is never given the   *)
(* older version as current: not by joining the flight of a reader that    *)
(* started before it, nor by a fallback, unless the answer says that it is *)
(* an invalidated copy - and a revalidating reader is not given it at all. *)
ReadYourWrites ==
    \A r \in Readers :
        /\ pc[r] = "done"
        /\ req[r].key \in FencedKeys
        /\ got[r].outcome \in {"value", "partial"}
        /\ req[r].strict \/ got[r].flag # "invalidated"
        => got[r].version >= req[r].floor

(* A row that appears was read by the producer that stores it, and its     *)
(* fetched_at is not later than the moment Jira was really read: a slow     *)
(* producer cannot make its result look younger than it is.                 *)
DatedFromRead(k) ==
    \E p \in Procs :
        /\ pc[p] = "store" /\ req[p].key = k
        /\ row'[k].version = got[p].version
        /\ row'[k].at <= got[p].seen

AgeIsHonest ==
    [][\A k \in FencedKeys :
          row'[k] # row[k] /\ row'[k] # NoCopy => DatedFromRead(k)]_vars

Producing == {p \in Procs : pc[p] \in {"produce", "store", "settle", "retire"}}

(* At most one producer runs for a key in a generation, foreground and     *)
(* background together.                                                    *)
SingleFlight ==
    \A p, q \in Producing :
        p # q => <<req[p].key, fly[p].fence>> # <<req[q].key, fly[q].fence>>

(* Whoever waits for a future waits for a producer of the same key that has *)
(* still to settle it: no follower is left behind.                          *)
FollowersHaveOwner ==
    \A q \in Procs :
        pc[q] = "wait" =>
            LET p == fly[q].owner
            IN  /\ pc[p] \in {"produce", "store", "settle"}
                /\ req[p].key = req[q].key
                /\ fly[p].fence = fly[q].fence

(* A resource forgotten as deleted or denied is not put back by a reader   *)
(* that had seen it before, nor by the background thread.                  *)
ForgottenStays ==
    \A k \in forgotten \cap FencedKeys : row[k] = NoCopy /\ shown[k] = NoCopy

(* A key has a row or a display copy, never both: what is shown when a row *)
(* expires is that row and not an older one.                               *)
OneCopy == \A k \in Keys : row[k] = NoCopy \/ shown[k] = NoCopy

(* Every read is answered, unless the process ends first. *)
ReadsAreAnswered ==
    \A r \in Readers : pc[r] = "missed" ~> pc[r] \in {"done", "idle"}

(* The same promise as NoResurrection for every key, also those that list and  *)
(* batch reads fill: no row is older than the last invalidation of its key.    *)
ResurrectionAnywhere ==
    \A k \in Keys : row[k] # NoCopy => row[k].version >= floor[k]

(* When Jira denied a resource to the request that asked for it, and nothing   *)
(* invalidated that resource since the request began, no copy of it is left    *)
(* to be shown.                                                                *)
DenialRemovesCopies ==
    \A p \in Procs :
        /\ pc[p] = "settle"
        /\ got[p].outcome = "gone"
        /\ cut[req[p].key] <= fly[p].fence
        => row[req[p].key] = NoCopy /\ shown[req[p].key] = NoCopy

=============================================================================
