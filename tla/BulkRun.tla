-------------------------------- MODULE BulkRun --------------------------------
(***************************************************************************)
(* Creating many tickets from the browser: executeBulkRun of              *)
(* static/lib/bulkCreateRun.js, driven by BulkCreateDialog, against the    *)
(* bulk endpoint, whose rows each hold a mutation receipt (CreateOnce).    *)
(*                                                                         *)
(* A run sends its chunks one after another.  It is stored in the browser  *)
(* before a chunk is sent and after its answer, so that a window that is   *)
(* closed in between is opened on the same ids; only rows that failed for  *)
(* certain may be put into a new run with new ids.  A request the browser  *)
(* no longer waits for is still served.  Time is counted in days.          *)
(***************************************************************************)
EXTENDS Naturals, Functions

CONSTANTS
    Rows,         \* the tickets the user wants
    Chunkings,    \* ways to cut them into chunks: the number of the chunk of each row
    RunIds,       \* ids of runs, from 1
    Window,       \* REPLAY_WINDOW_MS
    Life,         \* TTL_SECONDS of the server's receipts
    MaxSends,     \* bound: requests to the bulk endpoint
    MaxDays       \* bound: days that pass

ASSUME BulkAssumption ==
    /\ {Window, Life, MaxSends, MaxDays} \subseteq Nat /\ Window < Life
    /\ Chunkings \subseteq [Rows -> Nat] /\ 1 \in RunIds /\ RunIds \subseteq Nat

VARIABLES
    run,          \* creationRun in the window, <<>> for none
    draft,        \* the run in the durable draft
    step, chunk,  \* where executeBulkRun is
    doubt, again, \* its locals uncertain and recovering
    sent,         \* requests sent so far
    awaited,      \* the one whose response is awaited, 0 for none
    response,     \* what it is going to say of each row of its chunk, or Rejection
    handlers,     \* requests that are being served
    receipts,     \* receipt of each row of each run: "none", "open" or "closed", and its day
    undecided,    \* creations in Jira's hands
    tickets,      \* Jira tickets of each row
    day

window == <<run, step, chunk, doubt, again>>
request == <<sent, awaited, response>>
jira == <<receipts, undecided, tickets>>
bulkVars == <<window, draft, request, handlers, jira, day>>

NoRun == <<>>
NoReceipt == [state |-> "none", day |-> 0]
Rejection == [r \in Rows |-> "rejected"]
InChunk(c) == {r \in run.rows : run.chunk[r] = c}
With(s) == {r \in run.rows : run.state[r] = s}
Created(c) == InChunk(c) \subseteq With("ok")
LastChunk == CHOOSE c \in Range(run.chunk) : \A d \in Range(run.chunk) : d <= c

newBulkRun(id, rows, cut) ==
    [id |-> id, rows |-> rows, chunk |-> [r \in rows |-> cut[r]], state |-> [r \in rows |-> "unset"],
     attempted |-> {}, first |-> 0]

BulkInit ==
    /\ run \in {newBulkRun(1, Rows, cut) : cut \in Chunkings}
    /\ draft = NoRun
    /\ step = "idle" /\ chunk = 0 /\ doubt = {} /\ again = FALSE
    /\ sent = 0 /\ awaited = 0 /\ response = <<>>
    /\ handlers = {}
    /\ receipts = [id \in RunIds |-> [r \in Rows |-> NoReceipt]]
    /\ undecided = {}
    /\ tickets = [r \in Rows |-> 0]
    /\ day = 1

-----------------------------------------------------------------------------
(* The browser. *)

\* An attempted run with rows left may not be replayed after the window.
replayBlock(x) ==
    /\ \E r \in x.rows : x.state[r] # "ok"
    /\ x.attempted # {}
    /\ day - x.first >= Window

\* "Create", and "check the result with the same request".
Start ==
    /\ step = "idle" /\ run # NoRun
    /\ ~replayBlock(run)
    /\ run.attempted = {} \/ With("null") \cup With("unset") # {}
    /\ step' = "next" /\ chunk' = 1
    /\ UNCHANGED <<run, draft, doubt, again, request, handlers, jira, day>>

\* States of the rows of a chunk, but for those that are confirmed.
Mark(c, s) == [r \in run.rows |-> IF r \in InChunk(c) /\ run.state[r] # "ok" THEN s ELSE run.state[r]]

NextChunk ==
    /\ step = "next"
    /\ \/ /\ LastChunk >= chunk /\ Created(chunk)
          /\ chunk' = chunk + 1
          /\ UNCHANGED <<run, step, doubt, again>>
       \/ /\ LastChunk < chunk \/ (~Created(chunk) /\ replayBlock(run))
          /\ step' = "idle" /\ chunk' = 0
          /\ UNCHANGED <<run, doubt, again>>
       \/ /\ LastChunk >= chunk /\ ~Created(chunk) /\ ~replayBlock(run)
          /\ again' = (chunk \in run.attempted)
          /\ doubt' = InChunk(chunk) \cap With("null")
          /\ run' = [run EXCEPT !.first = IF @ = 0 THEN day ELSE @,
                                !.attempted = @ \cup {chunk},
                                !.state = Mark(chunk, "null")]
          /\ step' = "saving"
          /\ UNCHANGED chunk
    /\ UNCHANGED <<draft, request, handlers, jira, day>>

\* Slip: what is about to be sent is not stored.
SaveNothing ==
    /\ step = "saving"
    /\ step' = "sending"
    /\ UNCHANGED <<run, draft, chunk, doubt, again, request, handlers, jira, day>>

\* await persist(run) before the request; a failed transaction ends the call.
SaveAttempt ==
    /\ step = "saving"
    /\ \/ draft' = run /\ step' = "sending"
       \/ draft' = draft /\ step' = "idle"
    /\ UNCHANGED <<run, chunk, doubt, again, request, handlers, jira, day>>

\* The replay window is looked at once more, after the connection was checked.
Send ==
    /\ step = "sending" /\ sent < MaxSends
    /\ ~replayBlock(run)
    /\ sent' = sent + 1 /\ awaited' = sent + 1
    /\ response' = [r \in InChunk(chunk) |-> "none"]
    /\ handlers' = handlers \cup {[n |-> sent + 1, id |-> run.id, left |-> InChunk(chunk),
                                   valid |-> FALSE, day |-> day]}
    /\ step' = "waiting"
    /\ UNCHANGED <<run, draft, chunk, doubt, again, jira, day>>

\* The chunk has its answer, or the error that stands for it.
Answered(states) ==
    /\ run' = [run EXCEPT !.state = states]
    /\ doubt' = {} /\ again' = FALSE
    /\ awaited' = 0 /\ response' = <<>>
    /\ step' = "storing"
    /\ UNCHANGED <<draft, chunk, sent, handlers, jira, day>>

\* The request could not be sent, or its answer did not come: it tells nothing.
Unanswered == step \in {"sending", "waiting"} /\ Answered(Mark(chunk, "null"))

\* The endpoint rejected the request before any write (400 or 422).
Rejected ==
    /\ step = "waiting" /\ response = Rejection
    /\ Answered(Mark(chunk, IF again THEN "null" ELSE "failed"))

\* Slip: a failed row is failed, whatever an earlier attempt did.
takeRow(r) == IF response[r] = "unknown" THEN "null" ELSE response[r]

acceptRow(r) ==
    IF response[r] = "unknown" \/ (r \in doubt /\ response[r] = "failed") THEN "null" ELSE response[r]

\* A response, some rows of which may be missing or malformed.
acceptChunk ==
    /\ step = "waiting"
    /\ response # Rejection /\ \A r \in InChunk(chunk) : response[r] # "none"
    /\ \E garbled \in SUBSET InChunk(chunk) :
          Answered([r \in run.rows |->
              IF r \notin InChunk(chunk) \/ run.state[r] = "ok" THEN run.state[r]
              ELSE IF r \in garbled THEN "null" ELSE acceptRow(r)])

\* await persist(run) after the answer.
StoreAnswer ==
    /\ step = "storing"
    /\ \/ /\ draft' = run
          /\ IF With("null") # {} THEN step' = "idle" /\ chunk' = 0
             ELSE step' = "next" /\ chunk' = chunk + 1
       \/ step' = "idle" /\ chunk' = 0 /\ draft' = draft
    /\ UNCHANGED <<run, doubt, again, request, handlers, jira, day>>

\* "Retry the failed ones": a new run, with a new id.
retryFailed ==
    /\ step = "idle" /\ run # NoRun
    /\ ~replayBlock(run)
    /\ With("null") \cup With("unset") = {} /\ With("failed") # {}
    /\ run.id + 1 \in RunIds
    /\ \E cut \in Chunkings : run' = newBulkRun(run.id + 1, With("failed"), cut)
    /\ UNCHANGED <<draft, step, chunk, doubt, again, request, handlers, jira, day>>

\* Everything is created: the draft is removed.
finishFormDraft ==
    /\ step = "idle" /\ run # NoRun
    /\ With("ok") = run.rows
    /\ run' = NoRun /\ draft' = NoRun
    /\ UNCHANGED <<step, chunk, doubt, again, request, handlers, jira, day>>

\* The window is closed or reloaded, at any point, and opens on the draft.
Reopen ==
    /\ draft # NoRun
    /\ run' = draft
    /\ step' = "idle" /\ chunk' = 0 /\ doubt' = {} /\ again' = FALSE
    /\ awaited' = 0 /\ response' = <<>>
    /\ UNCHANGED <<draft, sent, handlers, jira, day>>

-----------------------------------------------------------------------------
(* The server: bulk_create serves the rows of a request one by one. *)

\* The handler is as far as h, and what it has to say is heard if it is awaited.
Serve(handler, h, says) ==
    /\ handlers' = (handlers \ {handler}) \cup (IF h.left = {} THEN {} ELSE {h})
    /\ response' = IF h.n = awaited THEN says ELSE response
    /\ UNCHANGED <<sent, awaited>>

\* bulk_validate, before anything is written.
Validate(h) ==
    /\ ~h.valid
    /\ \/ Serve(h, [h EXCEPT !.left = {}], Rejection)
       \/ Serve(h, [h EXCEPT !.valid = TRUE], response)
    /\ UNCHANGED <<window, draft, jira, day>>

SetRowReceipt(id, r, s) == receipts' = [receipts EXCEPT ![id] = [@ EXCEPT ![r] = [state |-> s, day |-> day]]]

\* create_child under the receipt of the row, as MutationReceipt has it.
ServeRow(h, r) ==
    LET receipt == receipts[h.id][r].state
        Reply(s) == Serve(h, [h EXCEPT !.left = @ \ {r}], [response EXCEPT ![r] = s])
        Known(s) == SetRowReceipt(h.id, r, s)
    IN
    /\ h.valid /\ r \in h.left
    /\ \/ receipt = "closed" /\ Reply("ok") /\ UNCHANGED jira
       \/ \* refused: of a write under an open receipt this tells nothing
          receipt # "closed" /\ Reply("failed") /\ UNCHANGED jira
       \/ receipt = "open" /\ Reply("unknown") /\ UNCHANGED jira
       \/ \* the ticket is found in Jira
          /\ receipt = "open" /\ tickets[r] > 0
          /\ Reply("ok") /\ Known("closed") /\ UNCHANGED <<undecided, tickets>>
       \/ \* nothing can have come of an earlier write
          /\ receipt = "none" \/ (receipt = "open" /\ tickets[r] = 0 /\ <<h.id, r>> \notin undecided)
          /\ \/ /\ Reply("ok") /\ Known("closed")
                /\ tickets' = [tickets EXCEPT ![r] = @ + 1]
                /\ UNCHANGED undecided
             \/ /\ Reply("unknown") /\ Known("open")
                /\ undecided' = undecided \cup {<<h.id, r>>}
                /\ UNCHANGED tickets
    /\ UNCHANGED <<window, draft, day>>

\* Jira makes the ticket of a write nobody waits for, or drops it.
JiraDecides ==
    \E w \in undecided :
        /\ undecided' = undecided \ {w}
        /\ \E made \in {0, 1} : tickets' = [tickets EXCEPT ![w[2]] = @ + made]
        /\ UNCHANGED <<window, draft, request, handlers, receipts, day>>

\* A day ends; by then Jira has decided, and no request is served for a whole day.
\* Receipts that have outlived their time are gone.
DayEnds ==
    /\ day < MaxDays
    /\ undecided = {}
    /\ \A h \in handlers : h.day = day
    /\ day' = day + 1
    /\ receipts' = [id \in RunIds |-> [r \in Rows |->
           IF day + 1 - receipts[id][r].day < Life THEN receipts[id][r] ELSE NoReceipt]]
    /\ UNCHANGED <<window, draft, request, handlers, undecided, tickets>>

BulkNext ==
    \/ Start \/ NextChunk \/ SaveAttempt \/ Send \/ Unanswered \/ Rejected \/ acceptChunk \/ StoreAnswer
    \/ retryFailed \/ finishFormDraft \/ Reopen
    \/ \E h \in handlers : Validate(h) \/ \E r \in Rows : ServeRow(h, r)
    \/ JiraDecides \/ DayEnds

BulkSpec == BulkInit /\ [][BulkNext]_bulkVars

-----------------------------------------------------------------------------
(* Properties *)

(* A row makes at most one ticket, in whatever order windows are closed,    *)
(* answers are lost, requests repeated and failed rows sent under new ids.  *)
OneTicketPerRow == \A r \in Rows : tickets[r] <= 1

(* Whatever the server was or may still be asked to create under an id is    *)
(* known to the draft as an attempt of that id, or was confirmed before the   *)
(* draft went over to another run: a window that comes back never takes a     *)
(* ticket that may exist for one that was not begun.                          *)
Begun(id) ==
    {r \in Rows : receipts[id][r].state # "none"}
        \cup UNION {h.left : h \in {g \in handlers : g.id = id}}

NothingSentIsForgotten ==
    \A id \in RunIds : \A r \in Begun(id) :
        IF draft # NoRun /\ draft.id = id
          THEN draft.chunk[r] \in draft.attempted
          ELSE tickets[r] > 0 /\ (draft = NoRun \/ r \notin draft.rows)

=============================================================================
