------------------------------- MODULE CacheMemo -------------------------------
(***************************************************************************)
(* The browser's display cache (static/lib/cacheMemo.js and its use by     *)
(* static/lib/api.js).  A row is an object with a revision; its answer     *)
(* comes back to that object, which a write may have evicted, and another  *)
(* row of the same path may have taken its place in the Map.               *)
(***************************************************************************)
EXTENDS Naturals, SequencesExt

CONSTANTS
    Paths,
    MaxRows,        \* rows kept (300)
    MaxRevisions,   \* bound: rows ever made
    MaxWrites       \* bound: writes of this window

ASSUME MemoAssumption == MaxRows \in Nat \ {0} /\ MaxRevisions \in Nat /\ MaxWrites \in Nat

VARIABLES
    rows,          \* the row of each path, or Absent
    order,         \* the paths that have one, the oldest first
    nextRevision,
    requests,      \* the requests under way
    published,     \* what open views were last told of each path since it was evicted
    saved,         \* the server: how many times what a path shows was written
    written,       \* the write of this window that awaits its answer, or 0
    lastWrite      \* the last write of this window that was answered

memoVars == <<rows, order, nextRevision, requests, published, saved, written, lastWrite>>

\* Versions count from 1, so that 0 is the undefined value.
Undefined == 0
Shown(v, current) == [value |-> v, current |-> current]
Nothing == Shown(Undefined, TRUE)

\* shown: displayUntil is ahead; fresh: freshUntil is.
Absent == [revision |-> 0, value |-> Nothing, fresh |-> FALSE, shown |-> FALSE, pending |-> FALSE]

MemoInit ==
    /\ rows = [p \in Paths |-> Absent]
    /\ order = <<>>
    /\ nextRevision = 0
    /\ requests = {}
    /\ published = [p \in Paths |-> Nothing]
    /\ saved = [p \in Paths |-> 1]
    /\ written = [p \in Paths |-> 0]
    /\ lastWrite = [p \in Paths |-> 0]

Has(p) == rows[p].revision # 0
SetRow(p, row) == rows' = [rows EXCEPT ![p] = row]
server == <<saved, written, lastWrite>>

-----------------------------------------------------------------------------
(* get and fetch *)

Asking(p, revision, revalidate) ==
    [path |-> p, revision |-> revision, revalidate |-> revalidate, answer |-> Nothing]

\* A row that has a request under way does not send another.
Fetch(p, row, revalidate) ==
    /\ SetRow(p, [row EXCEPT !.pending = TRUE])
    /\ requests' = IF row.pending THEN requests
                   ELSE requests \cup {Asking(p, row.revision, revalidate)}

\* The row of p, or a new one at the end of the Map.
FetchRow(p, revalidate) ==
    \/ /\ Has(p) /\ Fetch(p, rows[p], revalidate)
       /\ UNCHANGED <<order, nextRevision>>
    \/ /\ ~Has(p) /\ nextRevision < MaxRevisions
       /\ nextRevision' = nextRevision + 1
       /\ order' = Append(order, p)
       /\ Fetch(p, [Absent EXCEPT !.revision = nextRevision + 1], revalidate)

\* get: freshAfter asks for more than the row has ...
GetFresh(p) ==
    /\ FetchRow(p, TRUE)
    /\ UNCHANGED <<published, server>>

\* ... the row can be shown, and is refreshed if it is old ...
GetShown(p) ==
    /\ rows[p].value # Nothing /\ rows[p].shown
    /\ order' = Append(Remove(order, p), p)
    /\ IF rows[p].fresh THEN UNCHANGED <<rows, requests>> ELSE Fetch(p, rows[p], TRUE)
    /\ UNCHANGED <<nextRevision, published, server>>

\* ... or there is nothing to show.
GetMissing(p) ==
    /\ ~(rows[p].value # Nothing /\ rows[p].shown)
    /\ FetchRow(p, FALSE)
    /\ UNCHANGED <<published, server>>

-----------------------------------------------------------------------------
(* The answer to a request *)

\* The server answers with the last version, or with an older one that it marks as such.
ServeAnswer(q) ==
    /\ q.answer = Nothing
    /\ \E answer \in {Shown(v, FALSE) : v \in 1..saved[q.path]} \cup {Shown(saved[q.path], TRUE)} :
          requests' = (requests \ {q}) \cup {[q EXCEPT !.answer = answer]}
    /\ UNCHANGED <<rows, order, nextRevision, published, server>>

Delete(p) == SetRow(p, Absent) /\ order' = Remove(order, p)

\* Slip: any row of the path takes the answer.
IsRowOfPath(q) == Has(q.path)

\* rows.get(path) is the row that asked.
IsSameRow(q) == rows[q.path].revision = q.revision

\* Evicted meanwhile: the answer goes to its caller only.
AnswerEvicted(q) ==
    /\ ~IsSameRow(q)
    /\ requests' = requests \ {q}
    /\ UNCHANGED <<rows, order, nextRevision, published, server>>

\* A whole answer.  A first request may be answered from the server's own old copy, which
\* says so, and is then asked again.  The oldest row goes if there are too many.
Answer(q) ==
    /\ q.answer # Nothing /\ IsSameRow(q)
    /\ LET p == q.path
           again == ~q.revalidate /\ ~q.answer.current
           row == [rows[p] EXCEPT !.value = q.answer, !.fresh = q.answer.current, !.shown = TRUE,
                                  !.pending = again]
           dropped == IF Len(order) > MaxRows THEN {Head(order)} ELSE {}
       IN  /\ rows' = [o \in Paths |-> IF o \in dropped THEN Absent
                                       ELSE IF o = p THEN row ELSE rows[o]]
           /\ order' = IF dropped = {} THEN order ELSE Tail(order)
           /\ requests' = (requests \ {q}) \cup
                  (IF again /\ p \notin dropped THEN {Asking(p, q.revision, TRUE)} ELSE {})
           /\ published' = IF q.revalidate THEN [published EXCEPT ![p] = q.answer]
                           ELSE published
    /\ UNCHANGED <<nextRevision, server>>

\* Comments that are not complete, or a failure: a row that has a value keeps it.
AnswerKeeps(q) ==
    /\ q.answer = Nothing /\ IsSameRow(q)
    /\ IF rows[q.path].value = Nothing THEN Delete(q.path)
       ELSE SetRow(q.path, [rows[q.path] EXCEPT !.pending = FALSE]) /\ UNCHANGED order
    /\ requests' = requests \ {q}
    /\ UNCHANGED <<nextRevision, published, server>>

\* error, partial or pending: the row goes.  403 and 404: the views are told.
AnswerDrops(q) ==
    /\ q.answer = Nothing /\ IsSameRow(q)
    /\ Delete(q.path)
    /\ requests' = requests \ {q}
    /\ published' \in {published, [published EXCEPT ![q.path] = Nothing]}
    /\ UNCHANGED <<nextRevision, server>>

TakeAnswer(q) == AnswerEvicted(q) \/ Answer(q) \/ AnswerKeeps(q) \/ AnswerDrops(q)

-----------------------------------------------------------------------------
(* Writes *)

Writes == FoldFunction(+, 0, saved) - Cardinality(Paths)

\* The server has taken a write of this window ...
WritePath(p) ==
    /\ written[p] = 0 /\ Writes < MaxWrites
    /\ saved' = [saved EXCEPT ![p] = @ + 1]
    /\ written' = [written EXCEPT ![p] = saved[p] + 1]
    /\ UNCHANGED <<rows, order, nextRevision, requests, published, lastWrite>>

\* ... and its answer evicts what it touched (api.js evict); views ask anew.
Evict(p) ==
    /\ written[p] # 0
    /\ lastWrite' = [lastWrite EXCEPT ![p] = written[p]]
    /\ written' = [written EXCEPT ![p] = 0]
    /\ Delete(p)
    /\ published' = [published EXCEPT ![p] = Nothing]
    /\ UNCHANGED <<nextRevision, requests, saved>>

-----------------------------------------------------------------------------
(* Others *)

\* Logins, refreshes and navigation: delete, clear.
Clear(p) ==
    /\ Has(p) /\ Delete(p)
    /\ UNCHANGED <<nextRevision, requests, published, server>>

\* Time passes.
Lapse(p) ==
    /\ rows[p].value # Nothing
    /\ \E shown \in {rows[p].shown, FALSE} :
          SetRow(p, [rows[p] EXCEPT !.fresh = FALSE, !.shown = shown])
    /\ UNCHANGED <<order, nextRevision, requests, published, server>>

\* New preferences: every row is old, and some may no longer be shown.
configure ==
    /\ \E hidden \in SUBSET Paths :
          rows' = [p \in Paths |-> IF rows[p].value = Nothing THEN rows[p]
                                   ELSE [rows[p] EXCEPT !.fresh = FALSE,
                                                        !.shown = @ /\ p \notin hidden]]
    /\ UNCHANGED <<order, nextRevision, requests, published, server>>

MemoNext ==
    \/ \E p \in Paths : \/ GetFresh(p) \/ GetShown(p) \/ GetMissing(p)
                        \/ WritePath(p) \/ Evict(p) \/ Clear(p) \/ Lapse(p)
    \/ \E q \in requests : ServeAnswer(q) \/ TakeAnswer(q)
    \/ configure

MemoSpec == MemoInit /\ [][MemoNext]_memoVars

-----------------------------------------------------------------------------
(* Properties *)

NotOlder(p, display) ==
    display = Nothing \/ display.value >= lastWrite[p] \/ ~display.current

(* Once a write of this window was answered, neither the cache nor the views  *)
(* it tells take a value from before that write for a current one, whichever  *)
(* requests were under way.                                                   *)
DisplayNotOlder ==
    \A p \in Paths : NotOlder(p, rows[p].value) /\ NotOlder(p, published[p])

=============================================================================
