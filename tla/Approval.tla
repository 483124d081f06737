------------------------------- MODULE Approval -------------------------------
(***************************************************************************)
(* The agent's approval capabilities (agent/approval.py) and the executor  *)
(* that spends them (ActionExecutor).  A card carries one capability, or a *)
(* pair: a change and the comment that goes with it.  Each is bound to the *)
(* content the user saw and is used at most once.  Executors may run the   *)
(* same card at the same time (a double click, which the tests of the      *)
(* executor play through): they look at it first and consume it later.     *)
(***************************************************************************)
EXTENDS FiniteSets

CONSTANTS
    Executors,     \* dispatches of one card
    Contents       \* payloads, up to their fingerprint

VARIABLES
    paired,        \* the card was staged by stage_pair
    pending,       \* _pending: the capabilities of the card that are left
    approved,      \* those the user approved
    content,       \* payload and fingerprint of the primary one
    agreed,        \* history: what the card showed when the user approved it
    expired,       \* history: the card has outlived TTL_SECONDS
    at,            \* where each executor is
    lookedAt,      \* the primary payload it looked at
    sawComment,    \* whether it saw an approved comment
    writes         \* history: what was written, and by whom

card == <<paired, pending, approved, content, agreed, expired>>
approvalVars == <<card, at, lookedAt, sawComment, writes>>

ApprovalInit ==
    /\ paired \in BOOLEAN
    /\ pending = IF paired THEN {"primary", "comment"} ELSE {"primary"}
    /\ approved = {}
    /\ content \in Contents /\ agreed = content
    /\ expired = FALSE
    /\ at = [e \in Executors |-> "idle"]
    /\ lookedAt = [e \in Executors |-> content]
    /\ sawComment = [e \in Executors |-> FALSE]
    /\ writes = {}

MoveTo(e, place) == at' = [at EXCEPT ![e] = place]

-----------------------------------------------------------------------------
(* The user and the session. *)

\* Slip: an approved card can still be edited.
AmendAny(c) ==
    /\ ~paired /\ "primary" \in pending
    /\ content' = c
    /\ UNCHANGED <<paired, pending, approved, agreed, expired, at, lookedAt, sawComment, writes>>

\* amend_payload and amend_assignees: drafts of new tickets, until they are approved.
Amend(c) == "primary" \notin approved /\ AmendAny(c)

\* resume() approves the card, and the comment unless it cannot read the conversation,
\* before it lets an executor run.
Approve ==
    /\ "primary" \in pending \ approved
    /\ \E also \in SUBSET (pending \cap {"comment"}) : approved' = {"primary"} \cup also
    /\ agreed' = content
    /\ UNCHANGED <<paired, pending, content, expired, at, lookedAt, sawComment, writes>>

\* cancel() drops the capability it was given.
Cancel ==
    /\ pending' = pending \ {"primary"}
    /\ UNCHANGED <<paired, approved, content, agreed, expired, at, lookedAt, sawComment, writes>>

\* _sweep: both capabilities of a card are equally old.
Sweep ==
    /\ pending' = {} /\ expired' = TRUE
    /\ UNCHANGED <<paired, approved, content, agreed, at, lookedAt, sawComment, writes>>

-----------------------------------------------------------------------------
(* The executor. *)

\* peek() at the primary: a copy that the executor goes on with.
Peek(e) ==
    /\ at[e] = "idle"
    /\ MoveTo(e, IF "primary" \in pending \cap approved THEN "peeked" ELSE "done")
    /\ lookedAt' = [lookedAt EXCEPT ![e] = content]
    /\ UNCHANGED <<card, sawComment, writes>>

\* The pair must be whole, or neither half is used.
PeekComment(e) ==
    /\ at[e] = "peeked"
    /\ sawComment' = [sawComment EXCEPT ![e] = "comment" \in pending \cap approved]
    /\ MoveTo(e, IF paired /\ "comment" \notin pending \cap approved THEN "torn" ELSE "dispatching")
    /\ UNCHANGED <<card, lookedAt, writes>>

RejectTorn(e) ==
    /\ at[e] = "torn"
    /\ pending' = {}
    /\ MoveTo(e, "done")
    /\ UNCHANGED <<paired, approved, content, agreed, expired, lookedAt, sawComment, writes>>

\* consume(): exactly the approved content, once.
Consume(t, c) ==
    /\ t \in pending \cap approved /\ (t = "primary" => content = c)
    /\ pending' = pending \ {t}

Write(e, t, ok) == writes' = writes \cup {[by |-> e, what |-> t, content |-> lookedAt[e], ok |-> ok]}

\* The write tool consumes the capability and writes; the write succeeds, fails in
\* part, or raises when it may already be done.
DispatchPrimary(e) ==
    /\ at[e] = "dispatching"
    /\ Consume("primary", lookedAt[e])
    /\ \E outcome \in {"succeeded", "failed", "raised"} :
          MoveTo(e, outcome) /\ Write(e, "primary", outcome = "succeeded")
    /\ UNCHANGED <<paired, approved, content, agreed, expired, lookedAt, sawComment>>

\* The tool refuses its input, is refused by consume(), or raises before that.
DispatchRefused(e) ==
    /\ at[e] = "dispatching"
    /\ MoveTo(e, "refused")
    /\ UNCHANGED <<card, lookedAt, sawComment, writes>>

\* Slip: whoever could not use the card clears the comment away.
CancelBoth(e) ==
    /\ at[e] \in {"refused", "raised"}
    /\ pending' = {}
    /\ MoveTo(e, "done")
    /\ UNCHANGED <<paired, approved, content, agreed, expired, lookedAt, sawComment, writes>>

\* The comment belongs to the executor that consumed the primary or cancels it now.
CancelAfter(e) ==
    /\ at[e] \in {"refused", "raised"}
    /\ LET owns == "primary" \in pending \/ at[e] = "raised"
       IN pending' = pending \ (IF owns THEN {"primary", "comment"} ELSE {"primary"})
    /\ MoveTo(e, "done")
    /\ UNCHANGED <<paired, approved, content, agreed, expired, lookedAt, sawComment, writes>>

\* A change that was not done in full takes its comment with it.
DropComment(e) ==
    /\ at[e] = "failed"
    /\ pending' = pending \ {"comment"}
    /\ MoveTo(e, "done")
    /\ UNCHANGED <<paired, approved, content, agreed, expired, lookedAt, sawComment, writes>>

DispatchComment(e) ==
    /\ at[e] = "succeeded" /\ sawComment[e]
    /\ Consume("comment", lookedAt[e])
    /\ Write(e, "comment", TRUE)
    /\ MoveTo(e, "done")
    /\ UNCHANGED <<paired, approved, content, agreed, expired, lookedAt, sawComment>>

\* Not to be consumed, or the dispatch raised before it: the capability goes.
CommentRefused(e) ==
    /\ at[e] = "succeeded"
    /\ pending' = pending \ {"comment"}
    /\ MoveTo(e, "done")
    /\ UNCHANGED <<paired, approved, content, agreed, expired, lookedAt, sawComment, writes>>

Executor(e) ==
    \/ Peek(e) \/ PeekComment(e) \/ RejectTorn(e)
    \/ DispatchPrimary(e) \/ DispatchRefused(e) \/ CancelAfter(e)
    \/ DropComment(e) \/ DispatchComment(e) \/ CommentRefused(e)

ApprovalNext ==
    \/ \E c \in Contents : Amend(c)
    \/ Approve \/ Cancel \/ Sweep
    \/ \E e \in Executors : Executor(e)

ApprovalSpec == ApprovalInit /\ [][ApprovalNext]_approvalVars

-----------------------------------------------------------------------------
(* Properties *)

(* What is written is what the user saw when approving, and no half of a     *)
(* card is written twice, although executors look at the card long before    *)
(* they use it.  A comment is written only by whoever wrote the change, and  *)
(* after it was done in full.                                                *)
WrittenAsApproved ==
    /\ \A w \in writes : w.what = "primary" => w.content = agreed
    /\ \A w, x \in writes : w.what = x.what => w = x
    /\ \A w \in writes : w.what = "comment" =>
           \E x \in writes : x.what = "primary" /\ x.by = w.by /\ x.ok

(* An executor whose change is done still finds the comment that belongs to  *)
(* it: one that lost the race for the change does not take it away.          *)
LoserLeavesComment ==
    \A e \in Executors : at[e] = "succeeded" /\ sawComment[e] /\ ~expired => "comment" \in pending

=============================================================================
