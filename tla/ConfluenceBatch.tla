---------------------------- MODULE ConfluenceBatch ----------------------------
(***************************************************************************)
(* Reorganising Confluence pages: ConfluenceOrganization.bulk of           *)
(* services/confluence_organization.py with the move, trash, restore and   *)
(* update it runs row by row, each under a receipt of its own, through     *)
(* ConfluenceCommands.execute of services/confluence_commands.py.          *)
(*                                                                         *)
(* Rows depend on earlier rows.  Confluence's answer to a row can be lost  *)
(* while the change still lands; other people edit the same pages; a batch *)
(* is called again with the same id, also while the first call goes on.    *)
(* Receipts survive a restart; locks, calls and the handles of timed-out   *)
(* writes do not.  No row is written twice on a guess: a receipt whose     *)
(* outcome cannot be proved stays open.                                    *)
(***************************************************************************)
EXTENDS Naturals, Sequences

CONSTANTS
    Bulks,          \* calls of bulk with the one mutation id
    Batches,        \* what they may ask for: [ops, parent, trashed], the last two of the pages before
    Pages, Root,    \* pages, and the place of those without a parent
    MaxVersion      \* bound: versions of a page

Operations ==
    [action : {"move", "trash", "restore", "update"}, page : Pages, target : Pages \cup {Root},
     version : Nat, needs : SUBSET Nat]

\* A batch has an operation, and an operation needs earlier ones only: bulk rejects others.
ASSUME BatchAssumption ==
    /\ Root \notin Pages /\ MaxVersion \in Nat \ {0}
    /\ \A plan \in Batches :
          /\ plan.ops \in Seq(Operations) /\ plan.ops # <<>>
          /\ plan.parent \in [Pages -> Pages \cup {Root}] /\ plan.trashed \subseteq Pages
          /\ \A i \in DOMAIN plan.ops : plan.ops[i].needs \subseteq 1..(i - 1)

VARIABLES
    batch,          \* the operations, in order
    editions,       \* of each page, the row that made each of its versions, 0 for other people
    parent,         \* of each page
    trashed,        \* pages in the trash
    out,            \* rows whose request is in Confluence's hands
    reply,          \* what Confluence made of the last request of a row
    receiptOf,      \* receipt of each row: "none", "pending", "committed" or "success"
    confirmed,      \* moves with a receipt of their verification
    handle,         \* of each row, the timed-out call: "none", "running", "answered" or "broken"
    call,           \* of each call, where it is, its row, what it told, what had been told before it
    told,           \* history: rows some call told completed
    requested,      \* history: rows a request was sent for
    landed          \* history: rows whose request took effect

confluence == <<editions, parent, trashed, out, reply, landed>>
batchVars == <<batch, confluence, receiptOf, confirmed, handle, call, told, requested>>

Ops == 1..Len(batch)
page(i) == batch[i].page
version(p) == Len(editions[p])
Locking == {"checking", "sending", "waiting", "reconciling", "cleaning"}
Locked(i) == \E b \in Bulks : call[b].at = i /\ call[b].place \in Locking
Good(b) == {i \in Ops : call[b].rows[i] = "completed"}

BatchInit ==
    \E plan \in Batches :
        /\ batch = plan.ops /\ parent = plan.parent /\ trashed = plan.trashed
        /\ editions = [p \in Pages |-> <<0>>]
        /\ out = {} /\ landed = {} /\ confirmed = {} /\ told = {} /\ requested = {}
        /\ reply = [i \in DOMAIN plan.ops |-> "none"]
        /\ receiptOf = [i \in DOMAIN plan.ops |-> "none"]
        /\ handle = [i \in DOMAIN plan.ops |-> "none"]
        /\ call = [b \in Bulks |-> [place |-> "new", at |-> 1, known |-> {},
                                    rows |-> [i \in DOMAIN plan.ops |-> "none"]]]

-----------------------------------------------------------------------------
(* A call, row by row. *)

MoveOn(b, there) == call' = [call EXCEPT ![b] = [@ EXCEPT !.place = there]]
Record(i, state) == receiptOf' = [receiptOf EXCEPT ![i] = state]

\* The row of the result, and on to the next one.
Tell(b, status) ==
    LET i == call[b].at
        rows == [call[b].rows EXCEPT ![i] = status]
        place == IF i = Len(batch) THEN "over" ELSE "next"
    IN
    /\ call' = [call EXCEPT ![b] = [@ EXCEPT !.rows = rows, !.at = i + 1, !.place = place]]
    /\ told' = IF status = "completed" THEN told \cup {i} ELSE told

BeginBatch(b) ==
    /\ call[b].place = "new"
    /\ call' = [call EXCEPT ![b] = [@ EXCEPT !.place = "next", !.known = told]]
    /\ UNCHANGED <<batch, confluence, receiptOf, confirmed, handle, told, requested>>

Skip(b) ==
    /\ call[b].place = "next" /\ ~(batch[call[b].at].needs \subseteq Good(b))
    /\ Tell(b, "skipped")
    /\ UNCHANGED <<batch, confluence, receiptOf, confirmed, handle, requested>>

\* Done but for a move, which is looked at where it went.
Completed(b) ==
    IF batch[call[b].at].action = "move" THEN MoveOn(b, "verifying") /\ UNCHANGED told
    ELSE Tell(b, "completed")

\* MutationReceiptStore.execute takes the lock of the row and looks at its receipt and handle.
EnterRow(b) ==
    LET i == call[b].at IN
    /\ call[b].place = "next" /\ batch[i].needs \subseteq Good(b) /\ ~Locked(i)
    /\ \/ /\ receiptOf[i] = "success"
          /\ Completed(b) /\ UNCHANGED <<receiptOf, handle>>
       \/ /\ receiptOf[i] = "committed"
          /\ MoveOn(b, "cleaning") /\ UNCHANGED <<told, receiptOf, handle>>
       \/ /\ receiptOf[i] = "pending" /\ handle[i] = "running"
          /\ Tell(b, "unknown") /\ UNCHANGED <<receiptOf, handle>>
       \/ /\ receiptOf[i] = "pending" /\ handle[i] = "answered"
          /\ Record(i, "committed") /\ handle' = [handle EXCEPT ![i] = "none"]
          /\ MoveOn(b, "cleaning") /\ UNCHANGED told
       \/ /\ receiptOf[i] = "pending" /\ handle[i] \in {"none", "broken"}
          /\ handle' = [handle EXCEPT ![i] = "none"]
          /\ MoveOn(b, "reconciling") /\ UNCHANGED <<told, receiptOf>>
       \/ /\ receiptOf[i] = "none"
          /\ Record(i, "pending")
          /\ MoveOn(b, "checking") /\ UNCHANGED <<told, handle>>
    /\ UNCHANGED <<batch, confluence, confirmed, requested>>

\* What _move_state, _check_leaf and content look for before the write.
Allowed(i) ==
    /\ version(page(i)) = batch[i].version
    /\ (page(i) \in trashed) <=> (batch[i].action = "restore")
    /\ batch[i].action = "trash" => \A p \in Pages \ trashed : parent[p] # page(i)
    /\ batch[i].action = "move" => batch[i].target \notin trashed

\* Any failure before the request is sent removes the receipt, one of a read too.
CheckRow(b) ==
    LET i == call[b].at IN
    /\ call[b].place = "checking"
    /\ \/ Allowed(i) /\ MoveOn(b, "sending") /\ UNCHANGED <<told, receiptOf>>
       \/ Record(i, "none") /\ \E status \in {"failed", "denied"} : Tell(b, status)
    /\ UNCHANGED <<batch, confluence, confirmed, handle, requested>>

\* _WRITE_STARTED is set; the queue of the provider may still refuse the request.
SendRow(b) ==
    LET i == call[b].at IN
    /\ call[b].place = "sending"
    /\ \/ /\ out' = out \cup {i} /\ requested' = requested \cup {i}
          /\ reply' = [reply EXCEPT ![i] = "none"]
          /\ MoveOn(b, "waiting") /\ UNCHANGED told
       \/ Tell(b, "unknown") /\ UNCHANGED <<out, reply, requested>>
    /\ UNCHANGED <<batch, editions, parent, trashed, landed, receiptOf, confirmed, handle>>

RowAnswered(b) ==
    LET i == call[b].at IN
    /\ call[b].place = "waiting"
    /\ \/ reply[i] = "landed" /\ Record(i, "committed") /\ MoveOn(b, "cleaning") /\ UNCHANGED told
       \/ /\ reply[i] = "refused" /\ Record(i, "none")
          /\ \E status \in {"failed", "denied"} : Tell(b, status)
    /\ UNCHANGED <<batch, confluence, confirmed, handle, requested>>

\* Slip: whatever is unavailable is taken for a read before the write.
LoseAsPreflight(b) ==
    LET i == call[b].at IN
    /\ call[b].place = "waiting"
    /\ Record(i, "none") /\ Tell(b, "failed")
    /\ UNCHANGED <<batch, confluence, confirmed, handle, requested>>

\* A time-out, a broken connection, a 5xx or an answer without sense: the receipt stays, and
\* with a time-out the handle of the call that may still be on its way.
LoseReply(b) ==
    LET i == call[b].at IN
    /\ call[b].place = "waiting"
    /\ \E h \in {"none", "running"} : handle' = [handle EXCEPT ![i] = h]
    /\ Tell(b, "unknown")
    /\ UNCHANGED <<batch, confluence, receiptOf, confirmed, requested>>

WorkerEnds(i) ==
    /\ handle[i] = "running"
    /\ \/ reply[i] = "landed" /\ handle' = [handle EXCEPT ![i] = "answered"]
       \/ handle' = [handle EXCEPT ![i] = "broken"]
    /\ UNCHANGED <<batch, confluence, receiptOf, confirmed, call, told, requested>>

\* Slip: the next version of the page is taken for the one the row made.
CarriesNext(i) ==
    /\ batch[i].action \in {"move", "update"}
    /\ version(page(i)) > batch[i].version

\* reconcile: the next version of the page carries the marker of this row.  A trash or a
\* restoration leaves no proof.
CarriesMarker(i) ==
    /\ batch[i].action \in {"move", "update"}
    /\ version(page(i)) > batch[i].version
    /\ editions[page(i)][batch[i].version + 1] = i

\* The read may fail: then nothing is known; a refusal of it is passed on by an update only.
ReconcileRow(b) ==
    LET i == call[b].at IN
    /\ call[b].place = "reconciling"
    /\ \/ CarriesMarker(i) /\ Record(i, "committed") /\ MoveOn(b, "cleaning") /\ UNCHANGED told
       \/ Tell(b, "unknown") /\ UNCHANGED receiptOf
       \/ batch[i].action = "update" /\ Tell(b, "denied") /\ UNCHANGED receiptOf
    /\ UNCHANGED <<batch, confluence, confirmed, handle, requested>>

\* after_success empties the caches; if it fails the receipt stays committed.
CleanRow(b) ==
    LET i == call[b].at IN
    /\ call[b].place = "cleaning"
    /\ \/ Record(i, "success") /\ Completed(b)
       \/ UNCHANGED receiptOf /\ Tell(b, "unknown")
    /\ UNCHANGED <<batch, confluence, confirmed, handle, requested>>

InPlace(i) == page(i) \notin trashed /\ parent[page(i)] = batch[i].target

\* Slip: every call looks at the page again.
VerifyAlways(b) ==
    LET i == call[b].at IN
    /\ call[b].place = "verifying"
    /\ \/ InPlace(i) /\ confirmed' = confirmed \cup {i} /\ Tell(b, "completed")
       \/ UNCHANGED confirmed /\ Tell(b, "pending")
    /\ UNCHANGED <<batch, confluence, receiptOf, handle, requested>>

\* verify of move, under a receipt of its own that only a page in its place gets.
Verify(b) ==
    LET i == call[b].at IN
    /\ call[b].place = "verifying"
    /\ \/ i \in confirmed /\ UNCHANGED confirmed /\ Tell(b, "completed")
       \/ i \notin confirmed /\ InPlace(i) /\ confirmed' = confirmed \cup {i} /\ Tell(b, "completed")
       \/ i \notin confirmed /\ UNCHANGED confirmed /\ Tell(b, "pending")
    /\ UNCHANGED <<batch, confluence, receiptOf, handle, requested>>

-----------------------------------------------------------------------------
(* Confluence and the world. *)

\* A PUT names the version it makes; a DELETE does not look at versions.
Fits(i) ==
    IF batch[i].action = "trash" THEN page(i) \notin trashed
    ELSE /\ version(page(i)) = batch[i].version
         /\ (page(i) \in trashed) <=> (batch[i].action = "restore")
         /\ batch[i].action = "move" => batch[i].target \notin trashed

Land(i) ==
    /\ i \in out /\ Fits(i)
    /\ out' = out \ {i} /\ landed' = landed \cup {i} /\ reply' = [reply EXCEPT ![i] = "landed"]
    /\ trashed' = CASE batch[i].action = "trash" -> trashed \cup {page(i)}
                    [] batch[i].action = "restore" -> trashed \ {page(i)}
                    [] OTHER -> trashed
    /\ parent' = IF batch[i].action = "move" THEN [parent EXCEPT ![page(i)] = batch[i].target] ELSE parent
    /\ editions' = IF batch[i].action = "trash" THEN editions
                   ELSE [editions EXCEPT ![page(i)] = Append(@, i)]
    /\ UNCHANGED <<batch, receiptOf, confirmed, handle, call, told, requested>>

Refuse(i) ==
    /\ i \in out /\ out' = out \ {i} /\ reply' = [reply EXCEPT ![i] = "refused"]
    /\ UNCHANGED <<batch, editions, parent, trashed, landed, receiptOf, confirmed, handle, call,
                   told, requested>>

\* Somebody else edits a page, and may move it.
OthersEdit(p) ==
    /\ p \notin trashed /\ version(p) < MaxVersion
    /\ editions' = [editions EXCEPT ![p] = Append(@, 0)]
    /\ \E there \in (Pages \ {p}) \cup {Root} : parent' = [parent EXCEPT ![p] = there]
    /\ UNCHANGED <<batch, trashed, out, reply, landed, receiptOf, confirmed, handle, call, told,
                   requested>>

Stopped(c) == IF c.place = "new" THEN c ELSE [c EXCEPT !.place = "over"]

Restarted ==
    /\ call' = [b \in Bulks |-> Stopped(call[b])]
    /\ handle' = [i \in Ops |-> "none"]
    /\ UNCHANGED <<batch, confluence, receiptOf, confirmed, told, requested>>

BatchNext ==
    \/ \E b \in Bulks :
          \/ BeginBatch(b) \/ Skip(b) \/ EnterRow(b) \/ CheckRow(b) \/ SendRow(b) \/ RowAnswered(b)
          \/ LoseReply(b) \/ ReconcileRow(b) \/ CleanRow(b) \/ Verify(b)
    \/ \E i \in Ops : WorkerEnds(i) \/ Land(i) \/ Refuse(i)
    \/ \E p \in Pages : OthersEdit(p)
    \/ Restarted

BatchSpec == BatchInit /\ [][BatchNext]_batchVars

-----------------------------------------------------------------------------
(* Properties *)

(* A row is sent to Confluence only after everything it depends on has taken   *)
(* effect there, whatever answers were lost, whoever else edits the pages and  *)
(* however many calls run: a parent is not put into the trash before its       *)
(* child was moved away.                                                       *)
OrderIsKept == \A i \in requested : batch[i].needs \subseteq landed

(* What one call told completed, every call that begins later tells completed  *)
(* too, although pages were edited and moved on in between: a repetition of    *)
(* the batch does not take back what it once said.                             *)
SuccessIsKept == \A b \in Bulks : \A i \in call[b].known : call[b].rows[i] \in {"none", "completed"}

(* A row told failed was not written: its request has not taken effect, now or *)
(* in an earlier call, and is not on its way.  (A row told denied may have     *)
(* been: a 401 or 403 while the outcome of an update is looked up.)            *)
FailedMeansUnwritten ==
    [][\A b \in Bulks, i \in Ops :
          call'[b].rows[i] = "failed" /\ call[b].rows[i] # "failed" => i \notin landed \cup out]_call

================================================================================
