-------------------------------- MODULE JqlCache --------------------------------
(***************************************************************************)
(* A search and what it leaves in the cache (jira/jira_client.py,          *)
(* jira/cache_policy.py): the issue keys of a leaf of the query, the rows  *)
(* of its issues, the snapshot whose pages are served.  Rows and snapshots *)
(* belong to a generation that every recorded write ends; a leaf outlives  *)
(* it unless its reverse index says that the write can change it.  One     *)
(* leaf and one issue; a version is the number of writes Jira had taken.   *)
(*                                                                         *)
(* The write fence is a counter that is only compared with itself: a       *)
(* search holds the fences it read that have not moved since.  Fences that *)
(* the code reads one after the other, with nothing of the search between, *)
(* are one.                                                                *)
(***************************************************************************)
EXTENDS Naturals

CONSTANTS
    Searches, Writers,
    MaxWrites,      \* bound: writes that Jira takes
    MaxRestarts     \* bound: restarts

ASSUME JqlAssumption ==
    MaxWrites \in Nat /\ MaxRestarts \in Nat

\* No version: versions count from 1.
None == 0
Versions == 1..(MaxWrites + 1)
Generations == 0..MaxWrites

VARIABLES
    issue,         \* Jira: the version of the issue
    membership,    \* and that of the last write that changed who is in the leaf
    generation,    \* the epoch in SQLite
    leaf,          \* jqlleaf: the version a leaf was read at
    edges,         \* whether the reverse index knows the leaf
    rows,          \* jqlrow
    shared,        \* the row of the issue in the cache of all others (issue, issueL)
    snapshot,      \* jqlcurrent with its jqlsnap
    search,        \* every search
    fences,        \* the fences it holds
    command,       \* every command that writes
    restarts,
    known,         \* history: the versions that recorded writes have left
    putBack        \* history: those that list reads stored after a write was invalidated

upstream == <<issue, membership>>
cached == <<leaf, edges, rows, shared, snapshot>>
others == <<command, restarts, known, putBack>>
jqlVars == <<upstream, generation, cached, search, fences, others>>

NoSnapshot == [leaf |-> None, row |-> None]

\* paged: one page of a snapshot is asked for, not a stream of leaves.
Resting == [place |-> "idle", paged |-> FALSE, generation |-> 0,
            leaf |-> None, row |-> None, floor |-> NoSnapshot]

Idle == [place |-> "idle", moved |-> FALSE, left |-> NoSnapshot, hit |-> FALSE]

JqlInit ==
    /\ issue = 1 /\ membership = 1
    /\ generation = 0
    /\ leaf = None /\ edges = FALSE
    /\ rows = [g \in Generations |-> None]
    /\ shared = None
    /\ snapshot = [g \in Generations |-> NoSnapshot]
    /\ search = [s \in Searches |-> Resting]
    /\ fences = [s \in Searches |-> {}]
    /\ command = [w \in Writers |-> Idle]
    /\ restarts = 0
    /\ known = NoSnapshot
    /\ putBack = {}

At(s, place) == search[s].place = place
Moves(s, now) == search' = [search EXCEPT ![s] = now]
MovesTo(s, place) == Moves(s, [search[s] EXCEPT !.place = place])
Fails(s) == Moves(s, [Resting EXCEPT !.place = "failed"])
Reads(s, name) == fences' = [fences EXCEPT ![s] = @ \cup {name}]
Holds(s, name) == name \in fences[s]

\* Keys of a past generation that no search has are never asked for again: they are left out.
Asked(g) ==
    \/ g = generation'
    \/ \E s \in Searches : search'[s].place \notin {"idle", "listed"} /\ search'[s].generation = g
ForgetPast ==
    /\ rows' = [g \in Generations |-> IF Asked(g) THEN rows[g] ELSE None]
    /\ snapshot' = [g \in Generations |-> IF Asked(g) THEN snapshot[g] ELSE NoSnapshot]

-----------------------------------------------------------------------------
(* _jql_snapshot: the generation is read, then the lock of its key is taken  *)

\* A search begins.  floor: what it must not fall behind.
Begin(s, paged) ==
    /\ At(s, "idle")
    /\ Moves(s, [Resting EXCEPT !.place = IF paged THEN "begun" ELSE "leaf", !.paged = paged,
                                !.generation = generation, !.floor = known])
    /\ UNCHANGED <<upstream, generation, cached, fences, others>>

HasSnapshotLock(s) ==
    search[s].paged /\ search[s].place \notin {"idle", "begun", "answered", "failed", "listed"}

\* A snapshot of this generation, or the fence of the one to build.
FindSnapshot(s) ==
    LET g == search[s].generation IN
    /\ At(s, "begun")
    /\ ~\E t \in Searches : HasSnapshotLock(t) /\ search[t].generation = g
    /\ IF snapshot[g] # NoSnapshot
         THEN /\ Moves(s, [search[s] EXCEPT !.place = "answered", !.leaf = snapshot[g].leaf,
                                            !.row = snapshot[g].row])
              /\ UNCHANGED fences
         ELSE MovesTo(s, "leaf") /\ Reads(s, "snapshot")
    /\ UNCHANGED <<upstream, generation, cached, others>>

-----------------------------------------------------------------------------
(* _cached_jql_leaf *)

HasLeafLock(s) == search[s].place \in {"asked", "replied", "kept", "found", "hydrating",
                                       "rowAsked", "rowReplied"}

\* The lock of the leaf's key: the leaf is there, or its fetch begins (_fetch_exhaustive_jql).
EnterLeaf(s) ==
    /\ At(s, "leaf") /\ ~\E t \in Searches : HasLeafLock(t)
    /\ Moves(s, [search[s] EXCEPT !.place = IF leaf = None THEN "asked" ELSE "found", !.leaf = leaf])
    /\ Reads(s, "leaf")
    /\ UNCHANGED <<upstream, generation, cached, others>>

\* All pages of the leaf, with its rows.
ReplyLeaf(s) ==
    /\ At(s, "asked")
    /\ Moves(s, [search[s] EXCEPT !.place = "replied", !.leaf = issue, !.row = issue])
    /\ UNCHANGED <<upstream, generation, cached, fences, others>>

\* A failure: pages that do not fit together, Jira that does not answer.
FailFetch(s) ==
    /\ search[s].place \in {"asked", "rowAsked"}
    /\ Fails(s) /\ fences' = [fences EXCEPT ![s] = {}]
    /\ UNCHANGED <<upstream, generation, cached, others>>

\* The issues go to the cache of all others if the projection covers it and no write came
\* between.
ShareRow(s, fence) ==
    \/ Holds(s, fence) /\ shared' = search[s].row
    \/ UNCHANGED shared

\* _store_jql_rows: under the generation the search began with, whatever came between.
StoreRow(s) == rows' = [rows EXCEPT ![search[s].generation] = search[s].row]

\* The rows, and the edges before the leaf is published.
KeepRows(s) ==
    /\ At(s, "replied") /\ MovesTo(s, "kept")
    /\ ShareRow(s, "leaf") /\ StoreRow(s)
    /\ edges' = TRUE
    /\ UNCHANGED <<upstream, generation, leaf, snapshot, fences, others>>

\* Slip: the leaf is stored by Cache.set.
PublishAnyway(s) == leaf' = search[s].leaf

\* set_if_fence.
StoreLeaf(s) == leaf' = IF Holds(s, "leaf") THEN search[s].leaf ELSE leaf

PublishLeaf(s) ==
    /\ At(s, "kept") /\ MovesTo(s, "found")
    /\ StoreLeaf(s)
    /\ UNCHANGED <<upstream, generation, edges, rows, shared, snapshot, fences, others>>

\* Where a search goes that has its rows.
AfterLeaf(s) == IF search[s].paged THEN "built" ELSE "answered"

\* QueryStateChanged, or the rows that were fetched, or those of the keys.
CheckLeaf(s) ==
    /\ At(s, "found")
    /\ IF ~Holds(s, "leaf") THEN Fails(s) /\ fences' = [fences EXCEPT ![s] = {}]
       ELSE MovesTo(s, IF search[s].row # None THEN AfterLeaf(s) ELSE "hydrating")
            /\ UNCHANGED fences
    /\ UNCHANGED <<upstream, generation, cached, others>>

-----------------------------------------------------------------------------
(* _hydrate_jql_leaf_rows *)

\* The row of this generation, or, if the projection covers it, the one all others use ...
Hydrate(s) ==
    /\ At(s, "hydrating")
    /\ \E version \in {rows[search[s].generation]} \cup
                      {v \in {shared} : rows[search[s].generation] = None} :
          /\ version # None
          /\ Moves(s, [search[s] EXCEPT !.place = AfterLeaf(s), !.row = version])
          /\ rows' = [rows EXCEPT ![search[s].generation] = version]
    /\ UNCHANGED <<upstream, generation, leaf, edges, shared, snapshot, fences, others>>

\* ... or one that is asked for.
AskRow(s) ==
    /\ At(s, "hydrating") /\ rows[search[s].generation] = None
    /\ MovesTo(s, "rowAsked") /\ Reads(s, "rows")
    /\ UNCHANGED <<upstream, generation, cached, others>>

ReplyRow(s) ==
    /\ At(s, "rowAsked")
    /\ Moves(s, [search[s] EXCEPT !.place = "rowReplied", !.row = issue])
    /\ UNCHANGED <<upstream, generation, cached, fences, others>>

KeepRow(s) ==
    /\ At(s, "rowReplied") /\ MovesTo(s, AfterLeaf(s))
    /\ ShareRow(s, "rows") /\ StoreRow(s)
    /\ UNCHANGED <<upstream, generation, leaf, edges, snapshot, fences, others>>

-----------------------------------------------------------------------------
(* The end of a search *)

\* The snapshot is stored and answered, or a write came between: QueryStateChanged.
Finish(s) ==
    /\ At(s, "built")
    /\ IF Holds(s, "snapshot")
         THEN /\ MovesTo(s, "answered")
              /\ snapshot' = [snapshot EXCEPT ![search[s].generation] =
                                 [leaf |-> search[s].leaf, row |-> search[s].row]]
         ELSE Fails(s) /\ UNCHANGED snapshot
    /\ fences' = [fences EXCEPT ![s] = {}]
    /\ UNCHANGED <<upstream, generation, leaf, edges, rows, shared, others>>

Leave(s) ==
    /\ search[s].place \in {"answered", "failed"}
    /\ Moves(s, Resting) /\ fences' = [fences EXCEPT ![s] = {}]
    /\ UNCHANGED <<upstream, generation, leaf, edges, shared, others>>
    /\ ForgetPast

-----------------------------------------------------------------------------
(* Lists and batches: a page that Jira composes itself (_legacy_search_issues_page) and    *)
(* prefetch_issues set the shared rows by Cache.set, whatever came between.  The full and  *)
(* the light row are one here, so it is not asked whether the batch had missed this one.   *)

Lists(s, version) ==
    /\ Moves(s, [Resting EXCEPT !.place = "listed", !.row = version])
    /\ fences' = [fences EXCEPT ![s] = {}]
    /\ UNCHANGED <<upstream, generation, leaf, edges, shared, others>>
    /\ ForgetPast

ReadPage(s) == At(s, "idle") /\ Lists(s, issue)

\* A batch is a search of its own, from a snapshot if there is one.
Prefetch(s) == At(s, "answered") /\ search[s].paged /\ Lists(s, search[s].row)

\* The invalidation of a newer version has been made.
Overtaken(version) ==
    \/ version < known.row
    \/ \E w \in Writers : command[w].place \in {"invalidated", "affects", "evicted"}
                         /\ version < command[w].left.row

SetRow(s) ==
    /\ At(s, "listed") /\ Moves(s, Resting)
    /\ shared' = search[s].row
    /\ putBack' = IF Overtaken(search[s].row) THEN putBack \cup {search[s].row} ELSE putBack
    /\ UNCHANGED <<upstream, generation, leaf, edges, rows, snapshot, fences, command, restarts, known>>

-----------------------------------------------------------------------------
(* Commands.  One command writes one or several times (a bulk command), and  *)
(* every write is followed by the invalidation of its issue; what it means   *)
(* for searches is recorded at the end (mutation_batch_scope).               *)

FenceMoves == fences' = [s \in Searches |-> {}]
Does(w, now) == command' = [command EXCEPT ![w] = now]
Stays == UNCHANGED <<search, restarts, putBack>>

\* Jira takes the write; moves: it changes a predicate field of the leaf.
WriteIssue(w, moves) ==
    /\ command[w].place \in {"idle", "invalidated"}
    /\ issue <= MaxWrites
    /\ issue' = issue + 1
    /\ membership' = IF moves THEN issue + 1 ELSE membership
    /\ Does(w, [command[w] EXCEPT !.place = "written", !.moved = @ \/ moves,
                                  !.left = [leaf |-> IF moves THEN issue + 1 ELSE @.leaf,
                                            row |-> issue + 1]])
    /\ Stays /\ UNCHANGED <<generation, cached, fences, known>>

\* _invalidate_ticket.
InvalidateIssue(w) ==
    /\ command[w].place = "written"
    /\ shared' = None /\ FenceMoves
    /\ Does(w, [command[w] EXCEPT !.place = "invalidated"])
    /\ Stays /\ UNCHANGED <<upstream, generation, leaf, edges, rows, snapshot, known>>

\* affected_leaf_keys.
FindAffected(w) ==
    /\ command[w].place = "invalidated"
    /\ Does(w, [command[w] EXCEPT !.place = "affects", !.hit = command[w].moved /\ edges])
    /\ Stays /\ UNCHANGED <<upstream, generation, cached, fences, known>>

\* invalidate_keys: nothing at all if there are none.
EvictLeaves(w) ==
    /\ command[w].place = "affects"
    /\ IF command[w].hit
         THEN leaf' = None /\ FenceMoves
         ELSE UNCHANGED <<leaf, fences>>
    /\ Does(w, [command[w] EXCEPT !.place = "evicted"])
    /\ Stays /\ UNCHANGED <<upstream, generation, edges, rows, shared, snapshot, known>>

Later(a, b) == IF a < b THEN b ELSE a

\* bump_epoch ends the generation, and the command answers.
BumpEpoch(w) ==
    /\ command[w].place = "evicted"
    /\ generation' = generation + 1 /\ FenceMoves
    /\ known' = [leaf |-> Later(known.leaf, command[w].left.leaf),
                 row |-> Later(known.row, command[w].left.row)]
    /\ Does(w, Idle)
    /\ Stays /\ UNCHANGED <<upstream, leaf, edges, shared>>
    /\ ForgetPast

-----------------------------------------------------------------------------
(* A restart, and time *)

\* SQLite keeps rows and the epoch.  Searches, fences and what commands had to record are gone.
RestartSearches ==
    /\ restarts < MaxRestarts /\ restarts' = restarts + 1
    /\ search' = [s \in Searches |-> Resting] /\ FenceMoves
    /\ command' = [w \in Writers |-> Idle]
    /\ UNCHANGED <<upstream, generation, leaf, edges, shared, known, putBack>>
    /\ ForgetPast

\* The leaf and the shared row grow old.  The edges are younger than the leaf, and do not
\* grow old while it is about to be stored.
Lapse ==
    /\ \/ leaf # None /\ leaf' = None /\ UNCHANGED <<edges, shared>>
       \/ /\ leaf = None /\ edges /\ ~\E s \in Searches : At(s, "kept")
          /\ edges' = FALSE /\ UNCHANGED <<leaf, shared>>
       \/ shared # None /\ shared' = None /\ UNCHANGED <<leaf, edges>>
    /\ UNCHANGED <<upstream, generation, rows, snapshot, search, fences, others>>

SearchStep(s) ==
    \/ \E paged \in BOOLEAN : Begin(s, paged)
    \/ FindSnapshot(s) \/ EnterLeaf(s)
    \/ ReplyLeaf(s) \/ FailFetch(s) \/ KeepRows(s) \/ PublishLeaf(s) \/ CheckLeaf(s)
    \/ Hydrate(s) \/ AskRow(s) \/ ReplyRow(s) \/ KeepRow(s) \/ Finish(s) \/ Leave(s)
    \/ ReadPage(s) \/ Prefetch(s) \/ SetRow(s)

CommandStep(w) ==
    \/ \E moves \in BOOLEAN : WriteIssue(w, moves)
    \/ InvalidateIssue(w) \/ FindAffected(w) \/ EvictLeaves(w) \/ BumpEpoch(w)

JqlNext ==
    \/ \E s \in Searches : SearchStep(s)
    \/ \E w \in Writers : CommandStep(w)
    \/ RestartSearches \/ Lapse

JqlSpec == JqlInit /\ [][JqlNext]_jqlVars

-----------------------------------------------------------------------------
(* Properties *)

\* Not older than what the cache was told of, but for a list read that stored it all the same.
NotBehind(version, floor) == version >= floor \/ version \in putBack

(* What a search answers is not older than the commands that had answered     *)
(* when it began, whichever searches, commands and restarts came between: it  *)
(* lists the issues that are in the leaf since, and a row it shows that is    *)
(* older is one a list or batch read had put back into the shared cache after *)
(* the invalidation (_legacy_search_issues_page and prefetch_issues store     *)
(* without a fence; _hydrate_jql_leaf_rows takes what is there).              *)
SearchSeesWrites ==
    \A s \in Searches : At(s, "answered") =>
        /\ search[s].leaf >= search[s].floor.leaf
        /\ NotBehind(search[s].row, search[s].floor.row)

=================================================================================
