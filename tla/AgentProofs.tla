------------------------------ MODULE AgentProofs ------------------------------
(***************************************************************************)
(* Proofs about the protocols of the agent and the MCP server: the lane of *)
(* the tools (ToolLane), the approval of a card (Approval), the turns of a *)
(* conversation (AgentTurn), for any number of requests, executors, turns  *)
(* and threads, and the batches that reorganise Confluence pages           *)
(* (ConfluenceBatch), for any batch, calls and pages.                      *)
(*                                                                         *)
(* In a batch the receipt of a row is right about Confluence (RowOK):      *)
(* without one the row is neither there nor on its way, with one that is   *)
(* closed it is there.  That holds because the call that works on a row is *)
(* the only one (OneHolder, Alone), because it removes a receipt only      *)
(* while the request was not sent or was refused, and because a pending    *)
(* one is closed on an answer, or on the marker the row itself left        *)
(* (MarkersOK, MarkerProves).  What was told completed has a receipt       *)
(* nobody opens again, and so has everything it needs: a later call, which *)
(* knows of it, finds the same (KnownIsSettled).                           *)
(***************************************************************************)
EXTENDS Approval, AgentTurn, ToolLane, ConfluenceBatch,
        FiniteSetTheorems, WellFoundedInduction, TLAPS

-------------------------------------------------------------------------------
(* ToolLane: at each gate the permits left and those held make up its capacity. *)

HttpHolders == {q \in Requests : http[q] \in {"queued", "started", "withdrawn"}}
ToolHolders == {q \in Requests : tool[q] \in {"queued", "begun", "running", "returned"}}

Balanced(permits, holders, capacity) ==
    /\ permits \in Nat
    /\ IsFiniteSet(holders)
    /\ permits + Cardinality(holders) = capacity

LaneInv ==
    /\ http \in [Requests -> {"out", "queued", "started", "withdrawn", "over"}]
    /\ tool \in [Requests -> {"none", "queued", "begun", "running", "returned", "over"}]
    /\ Balanced(httpPermits, HttpHolders, HttpCapacity)
    /\ Balanced(lanePermits, ToolHolders, LaneCapacity)

\* A permit is taken, and given back, by one who does not hold, or holds, one.
LEMMA TakesPermit ==
    ASSUME NEW permits, NEW holders, NEW capacity \in Nat, NEW q,
           Balanced(permits, holders, capacity), permits > 0, q \notin holders
    PROVE  Balanced(permits - 1, holders \cup {q}, capacity)
<1>1. Cardinality(holders) \in Nat BY FS_CardinalityType DEF Balanced
<1>2. IsFiniteSet(holders \cup {q}) /\ Cardinality(holders \cup {q}) = Cardinality(holders) + 1
  BY FS_AddElement DEF Balanced
<1> QED BY <1>1, <1>2 DEF Balanced

LEMMA GivesPermitBack ==
    ASSUME NEW permits, NEW holders, NEW capacity \in Nat, NEW q \in holders,
           Balanced(permits, holders, capacity)
    PROVE  Balanced(permits + 1, holders \ {q}, capacity)
<1>1. Cardinality(holders) \in Nat BY FS_CardinalityType DEF Balanced
<1>2. IsFiniteSet(holders \ {q}) /\ Cardinality(holders \ {q}) = Cardinality(holders) - 1
  BY FS_RemoveElement DEF Balanced
<1> QED BY <1>1, <1>2 DEF Balanced

LEMMA LaneInit_Inv == LaneInit => LaneInv
<1> SUFFICES ASSUME LaneInit PROVE LaneInv
  OBVIOUS
<1>1. HttpHolders = {} /\ ToolHolders = {} BY DEF LaneInit, HttpHolders, ToolHolders
<1>2. IsFiniteSet({}) /\ Cardinality({}) = 0 BY FS_EmptySet
<1> QED BY <1>1, <1>2, LaneAssumption DEF LaneInit, LaneInv, Balanced

LEMMA LaneStep == LaneInv /\ [LaneNext]_laneVars => LaneInv'
<1> SUFFICES ASSUME LaneInv, [LaneNext]_laneVars PROVE LaneInv'
  OBVIOUS
<1> USE LaneAssumption DEF LaneInv, HttpTo, ToolTo
<1>1. ASSUME NEW q \in Requests, Admit(q) PROVE LaneInv'
  <2>1. CASE httpPermits = 0
    <3>1. HttpHolders' = HttpHolders /\ ToolHolders' = ToolHolders
      BY <1>1, <2>1 DEF Admit, HttpHolders, ToolHolders
    <3> QED BY <1>1, <2>1, <3>1 DEF Admit
  <2>2. CASE httpPermits # 0
    <3>1. /\ HttpHolders' = HttpHolders \cup {q} /\ q \notin HttpHolders
          /\ ToolHolders' = ToolHolders
      BY <1>1, <2>2 DEF Admit, HttpHolders, ToolHolders
    <3>2. httpPermits > 0 /\ httpPermits' = httpPermits - 1 BY <1>1, <2>2 DEF Admit, Balanced
    <3>3. Balanced(httpPermits - 1, HttpHolders \cup {q}, HttpCapacity)
      BY <3>1, <3>2, TakesPermit
    <3> QED BY <1>1, <3>1, <3>2, <3>3 DEF Admit
  <2> QED BY <2>1, <2>2
<1>2. ASSUME NEW q \in Requests, StartRequest(q) \/ Disconnect(q) \/ Withdraw(q) PROVE LaneInv'
  <2>1. HttpHolders' = HttpHolders /\ ToolHolders' = ToolHolders
    BY <1>2 DEF StartRequest, Disconnect, Withdraw, HttpHolders, ToolHolders
  <2>2. UNCHANGED <<tool, httpPermits, lanePermits>>
    BY <1>2 DEF StartRequest, Disconnect, Withdraw
  <2>3. http' \in [Requests -> {"out", "queued", "started", "withdrawn", "over"}]
    BY <1>2 DEF StartRequest, Disconnect, Withdraw
  <2> QED BY <2>1, <2>2, <2>3
<1>3. ASSUME NEW q \in Requests, GiveBack(q) \/ CloseRequest(q) PROVE LaneInv'
  <2>1. /\ HttpHolders' = HttpHolders \ {q} /\ q \in HttpHolders
        /\ ToolHolders' = ToolHolders
    BY <1>3 DEF GiveBack, CloseRequest, HttpHolders, ToolHolders
  <2>2. httpPermits' = httpPermits + 1 /\ UNCHANGED <<tool, lanePermits>>
    BY <1>3 DEF GiveBack, CloseRequest
  <2>3. Balanced(httpPermits + 1, HttpHolders \ {q}, HttpCapacity) BY <2>1, GivesPermitBack
  <2>4. http' \in [Requests -> {"out", "queued", "started", "withdrawn", "over"}]
    BY <1>3 DEF GiveBack, CloseRequest
  <2> QED BY <2>1, <2>2, <2>3, <2>4
<1>4. ASSUME NEW q \in Requests, CallTool(q) PROVE LaneInv'
  <2>1. CASE lanePermits = 0
    <3>1. HttpHolders' = HttpHolders /\ ToolHolders' = ToolHolders
      BY <1>4, <2>1 DEF CallTool, HttpHolders, ToolHolders
    <3> QED BY <1>4, <2>1, <3>1 DEF CallTool
  <2>2. CASE lanePermits # 0
    <3>1. /\ ToolHolders' = ToolHolders \cup {q} /\ q \notin ToolHolders
          /\ HttpHolders' = HttpHolders
      BY <1>4, <2>2 DEF CallTool, HttpHolders, ToolHolders
    <3>2. lanePermits > 0 /\ lanePermits' = lanePermits - 1 BY <1>4, <2>2 DEF CallTool, Balanced
    <3>3. Balanced(lanePermits - 1, ToolHolders \cup {q}, LaneCapacity)
      BY <3>1, <3>2, TakesPermit
    <3> QED BY <1>4, <3>1, <3>2, <3>3 DEF CallTool
  <2> QED BY <2>1, <2>2
<1>5. ASSUME NEW q \in Requests, Begin(q) \/ Run(q) \/ ReturnTool(q) PROVE LaneInv'
  <2>1. HttpHolders' = HttpHolders /\ ToolHolders' = ToolHolders
    BY <1>5 DEF Begin, Run, ReturnTool, HttpHolders, ToolHolders
  <2>2. UNCHANGED <<http, httpPermits, lanePermits>> BY <1>5 DEF Begin, Run, ReturnTool
  <2>3. tool' \in [Requests -> {"none", "queued", "begun", "running", "returned", "over"}]
    BY <1>5 DEF Begin, Run, ReturnTool
  <2> QED BY <2>1, <2>2, <2>3
\* The worker, or the one who leaves before the worker has started.
<1>6. ASSUME NEW q \in Requests, Release(q) \/ (Desert(q) /\ tool[q] = "queued") PROVE LaneInv'
  <2>1. /\ ToolHolders' = ToolHolders \ {q} /\ q \in ToolHolders
        /\ HttpHolders' = HttpHolders
    BY <1>6 DEF Release, Desert, HttpHolders, ToolHolders
  <2>2. lanePermits' = lanePermits + 1 /\ UNCHANGED <<http, httpPermits>>
    BY <1>6 DEF Release, Desert
  <2>3. Balanced(lanePermits + 1, ToolHolders \ {q}, LaneCapacity) BY <2>1, GivesPermitBack
  <2>4. tool' \in [Requests -> {"none", "queued", "begun", "running", "returned", "over"}]
    BY <1>6 DEF Release, Desert
  <2> QED BY <2>1, <2>2, <2>3, <2>4
<1>7. ASSUME NEW q \in Requests, Desert(q), tool[q] # "queued" PROVE LaneInv'
  <2>1. UNCHANGED <<http, tool, httpPermits, lanePermits>> BY <1>7 DEF Desert
  <2> QED BY <2>1 DEF HttpHolders, ToolHolders
<1>8. CASE UNCHANGED laneVars BY <1>8 DEF laneVars, HttpHolders, ToolHolders
<1> QED BY <1>1, <1>2, <1>3, <1>4, <1>5, <1>6, <1>7, <1>8 DEF LaneNext

(* However requests are withdrawn, cancelled or deserted, no more tools run at once than *)
(* the lane admits, and at rest every permit of the lane and of the bridge is back, for  *)
(* any number of requests and any two capacities.                                        *)
THEOREM PermitsAreKept == LaneSpec => []CapacityIsKept
<1>1. LaneInv => CapacityIsKept
  <2> SUFFICES ASSUME LaneInv PROVE CapacityIsKept
    OBVIOUS
  <2>1. Cardinality(HttpHolders) \in Nat /\ Cardinality(ToolHolders) \in Nat
    BY FS_CardinalityType DEF LaneInv, Balanced
  <2>2. Cardinality(Running) <= LaneCapacity
    <3>1. Running \in SUBSET ToolHolders BY DEF Running, ToolHolders
    <3>2. IsFiniteSet(Running) /\ Cardinality(Running) <= Cardinality(ToolHolders)
      BY <3>1, FS_Subset DEF LaneInv, Balanced
    <3>3. Cardinality(Running) \in Nat BY <3>2, FS_CardinalityType
    <3> QED BY <2>1, <3>2, <3>3, LaneAssumption DEF LaneInv, Balanced
  <2>3. ASSUME AtRest PROVE lanePermits = LaneCapacity /\ httpPermits = HttpCapacity
    <3>1. HttpHolders = {} /\ ToolHolders = {} BY <2>3 DEF AtRest, HttpHolders, ToolHolders
    <3>2. Cardinality({}) = 0 BY FS_EmptySet
    <3> QED BY <3>1, <3>2, LaneAssumption DEF LaneInv, Balanced
  <2> QED BY <2>2, <2>3 DEF CapacityIsKept
<1> QED BY <1>1, LaneInit_Inv, LaneStep, PTL DEF LaneSpec

-----------------------------------------------------------------------------
(* Approval: a half of a card that was written is not pending any more, and who wrote *)
(* what is known.                                                                     *)

Half == {"primary", "comment"}
WroteChange(e, ok) == \E w \in writes : w.what = "primary" /\ w.by = e /\ w.ok = ok

CardOK ==
    /\ content \in Contents
    /\ pending \subseteq Half /\ approved \subseteq Half
    /\ lookedAt \in [Executors -> Contents] /\ sawComment \in [Executors -> BOOLEAN]
    /\ at \in [Executors -> {"idle", "peeked", "dispatching", "torn", "succeeded", "failed",
                             "raised", "refused", "done"}]
    /\ "comment" \in approved => "primary" \in approved
    /\ "primary" \in approved => content = agreed
    /\ "comment" \in pending => paired

WritesOK ==
    /\ \A w \in writes : w.what \in Half /\ w.what \in approved /\ w.what \notin pending
    /\ \A w, x \in writes : w.what = x.what => w = x
    /\ \A w \in writes : w.what = "primary" => w.content = agreed
    /\ \A w \in writes : w.what = "comment" => WroteChange(w.by, TRUE)

ExecutorOK(e) ==
    /\ at[e] # "idle" /\ at[e] # "done" => "primary" \in approved
    /\ at[e] = "succeeded" => WroteChange(e, TRUE)
    /\ at[e] = "failed" => WroteChange(e, FALSE)
    /\ at[e] = "raised" => WroteChange(e, FALSE)
    /\ at[e] = "torn" => "comment" \notin pending \cap approved
    /\ at[e] \in {"dispatching", "succeeded"} /\ sawComment[e] => "comment" \in approved
    /\ at[e] = "dispatching" /\ sawComment[e] /\ ~expired /\ "primary" \in pending =>
          "comment" \in pending
    /\ at[e] = "succeeded" /\ sawComment[e] /\ ~expired => "comment" \in pending

ApprovalInv == CardOK /\ WritesOK /\ \A e \in Executors : ExecutorOK(e)

LEMMA ApprovalInit_Inv == ApprovalInit => ApprovalInv
BY DEF ApprovalInit, ApprovalInv, CardOK, WritesOK, ExecutorOK, Half

\* Steps that write nothing: capabilities go, and what each executor relies on stays.
LEMMA NothingWritten ==
    ASSUME ApprovalInv, UNCHANGED <<paired, approved, content, agreed, writes>>,
           pending' \subseteq pending,
           CardOK',
           \A e \in Executors : ExecutorOK(e)'
    PROVE  ApprovalInv'
<1>1. WritesOK' BY DEF ApprovalInv, WritesOK, WroteChange
<1> QED BY <1>1 DEF ApprovalInv

LEMMA UserStep ==
    ASSUME ApprovalInv, (\E c \in Contents : Amend(c)) \/ Approve \/ Cancel \/ Sweep
    PROVE  ApprovalInv'
<1> USE DEF Half
<1>1. ASSUME NEW c \in Contents, Amend(c) PROVE ApprovalInv'
  <2>1. /\ UNCHANGED <<paired, pending, approved, agreed, expired, at, lookedAt>>
        /\ UNCHANGED <<sawComment, writes>>
        /\ "primary" \notin approved /\ content' = c
    BY <1>1 DEF Amend, AmendAny
  <2>2. CardOK' BY <2>1 DEF ApprovalInv, CardOK
  <2>3. WritesOK' BY <2>1 DEF ApprovalInv, WritesOK, WroteChange
  <2>4. \A e \in Executors : ExecutorOK(e)' BY <2>1 DEF ApprovalInv, ExecutorOK, WroteChange
  <2> QED BY <2>2, <2>3, <2>4 DEF ApprovalInv
<1>2. CASE Approve
  <2>1. /\ UNCHANGED <<paired, pending, content, expired, at, lookedAt, sawComment, writes>>
        /\ agreed' = content /\ "primary" \in pending /\ "primary" \notin approved
        /\ approved = {} /\ approved' \subseteq Half /\ "primary" \in approved'
    BY <1>2 DEF Approve, ApprovalInv, CardOK
  <2>2. writes = {} BY <2>1 DEF ApprovalInv, WritesOK
  <2>3. \A e \in Executors : at[e] \in {"idle", "done"}
    BY <2>1 DEF ApprovalInv, CardOK, ExecutorOK
  <2>4. CardOK' BY <2>1 DEF ApprovalInv, CardOK
  <2>5. WritesOK' BY <2>1, <2>2 DEF WritesOK
  <2>6. \A e \in Executors : ExecutorOK(e)' BY <2>1, <2>3 DEF ExecutorOK
  <2> QED BY <2>4, <2>5, <2>6 DEF ApprovalInv
<1>3. CASE Cancel \/ Sweep
  <2>1. /\ UNCHANGED <<paired, approved, content, agreed, at, lookedAt, sawComment, writes>>
        /\ pending' \subseteq pending /\ "primary" \notin pending'
        /\ expired' \/ (expired' = expired /\ pending' = pending \ {"primary"})
    BY <1>3 DEF Cancel, Sweep
  <2>2. CardOK' BY <2>1 DEF ApprovalInv, CardOK
  <2>3. \A e \in Executors : ExecutorOK(e)' BY <2>1 DEF ApprovalInv, ExecutorOK, WroteChange
  <2> QED BY <2>1, <2>2, <2>3, NothingWritten
<1> QED BY <1>1, <1>2, <1>3

\* The change of a card is written once, by one executor and with one outcome.
LEMMA OneChange ==
    ASSUME ApprovalInv, NEW d, NEW e, NEW a, NEW b, WroteChange(d, a), WroteChange(e, b)
    PROVE  d = e /\ a = b /\ "primary" \notin pending
BY DEF ApprovalInv, WritesOK, WroteChange

\* An executor looks, or gives up without touching the card.
LEMMA LookStep ==
    ASSUME ApprovalInv, NEW e \in Executors, Peek(e) \/ PeekComment(e) \/ DispatchRefused(e)
    PROVE  ApprovalInv'
<1> USE DEF Half, MoveTo
<1>1. UNCHANGED <<card, writes>> BY DEF Peek, PeekComment, DispatchRefused
<1>2. \A d \in Executors : d # e => at'[d] = at[d] /\ sawComment'[d] = sawComment[d]
  BY DEF Peek, PeekComment, DispatchRefused, ApprovalInv, CardOK
<1>3. CardOK'
  <2>1. lookedAt' \in [Executors -> Contents]
    BY DEF Peek, PeekComment, DispatchRefused, ApprovalInv, CardOK
  <2>3. sawComment' \in [Executors -> BOOLEAN]
    <3>1. \/ UNCHANGED sawComment
          \/ \E b \in BOOLEAN : sawComment' = [sawComment EXCEPT ![e] = b]
      <4>1. ("comment" \in pending \cap approved) \in BOOLEAN OBVIOUS
      <4> QED BY <4>1, Zenon DEF Peek, PeekComment, DispatchRefused
    <3> QED BY <3>1 DEF ApprovalInv, CardOK
  <2>2. at' \in [Executors -> {"idle", "peeked", "dispatching", "torn", "succeeded", "failed",
                               "raised", "refused", "done"}]
    BY DEF Peek, PeekComment, DispatchRefused, ApprovalInv, CardOK
  <2> QED BY <1>1, <2>1, <2>2, <2>3 DEF ApprovalInv, CardOK, card
<1>4. ASSUME NEW d \in Executors, d # e PROVE ExecutorOK(d)'
  BY <1>1, <1>2, <1>4 DEF ApprovalInv, ExecutorOK, WroteChange, card
<1>5. ExecutorOK(e)'
  <2>1. CASE Peek(e) BY <1>1, <2>1 DEF Peek, ApprovalInv, CardOK, ExecutorOK, card
  <2>2. CASE PeekComment(e)
    <3>1. /\ at[e] = "peeked" /\ at'[e] \in {"torn", "dispatching"}
          /\ sawComment'[e] = ("comment" \in pending \cap approved)
          /\ at'[e] = "torn" => "comment" \notin pending \cap approved
      BY <2>2 DEF PeekComment, ApprovalInv, CardOK
    <3>2. "primary" \in approved BY <3>1 DEF ApprovalInv, ExecutorOK
    <3> QED BY <1>1, <3>1, <3>2 DEF ExecutorOK, card
  <2>3. CASE DispatchRefused(e)
    BY <1>1, <2>3 DEF DispatchRefused, ApprovalInv, CardOK, ExecutorOK, card
  <2> QED BY <2>1, <2>2, <2>3
<1> QED BY <1>1, <1>3, <1>4, <1>5, NothingWritten DEF card

\* An executor that is through takes capabilities away: never a comment that the one who
\* wrote the change has still to write.
LEMMA GiveUpStep ==
    ASSUME ApprovalInv, NEW e \in Executors,
           RejectTorn(e) \/ CancelAfter(e) \/ DropComment(e) \/ CommentRefused(e)
    PROVE  ApprovalInv'
<1> USE DEF Half, MoveTo
<1>1. /\ UNCHANGED <<paired, approved, content, agreed, expired, lookedAt, sawComment, writes>>
      /\ pending' \subseteq pending /\ at' = [at EXCEPT ![e] = "done"]
  BY DEF RejectTorn, CancelAfter, DropComment, CommentRefused
<1>2. CardOK' BY <1>1 DEF ApprovalInv, CardOK
<1>3. ExecutorOK(e)' BY <1>1 DEF ApprovalInv, CardOK, ExecutorOK
<1>4. ASSUME NEW d \in Executors, d # e PROVE ExecutorOK(d)'
  <2>1. ExecutorOK(d) /\ ExecutorOK(e) /\ at'[d] = at[d]
    BY <1>1, <1>4 DEF ApprovalInv, CardOK
  <2>2. "primary" \notin pending' \/ pending' = pending
    <3>1. CASE RejectTorn(e) BY <3>1 DEF RejectTorn
    <3>2. CASE CancelAfter(e) BY <3>2 DEF CancelAfter
    <3>3. CASE DropComment(e) \/ CommentRefused(e)
      <4>1. \E ok : WroteChange(e, ok) BY <2>1, <3>3 DEF DropComment, CommentRefused, ExecutorOK
      <4>2. "primary" \notin pending BY <4>1, OneChange
      <4> QED BY <1>1, <4>2
    <3> QED BY <3>1, <3>2, <3>3
  <2>3. at[d] = "succeeded" /\ "comment" \in pending /\ "comment" \in approved
          => "comment" \in pending'
    <3>1. SUFFICES ASSUME at[d] = "succeeded", "comment" \in pending, "comment" \in approved
                   PROVE  "comment" \in pending'
      OBVIOUS
    <3>2. WroteChange(d, TRUE) BY <2>1, <3>1 DEF ExecutorOK
    <3>3. \A ok : ~WroteChange(e, ok) BY <1>4, <3>2, OneChange
    <3>4. at[e] \notin {"succeeded", "failed", "raised"} BY <2>1, <3>3 DEF ExecutorOK
    <3>5. ~RejectTorn(e) BY <2>1, <3>1 DEF ExecutorOK, RejectTorn
    <3>6. CancelAfter(e) BY <3>4, <3>5 DEF DropComment, CommentRefused
    <3>7. "primary" \notin pending BY <3>2, OneChange
    <3> QED BY <3>1, <3>4, <3>6, <3>7 DEF CancelAfter
  <2> QED BY <1>1, <2>1, <2>2, <2>3 DEF ExecutorOK, WroteChange
<1> QED BY <1>1, <1>2, <1>3, <1>4, NothingWritten

LEMMA DispatchPrimaryStep ==
    ASSUME ApprovalInv, NEW e \in Executors, DispatchPrimary(e)
    PROVE  ApprovalInv'
<1> USE DEF Half, MoveTo
<1>1. PICK outcome \in {"succeeded", "failed", "raised"} :
        /\ at' = [at EXCEPT ![e] = outcome]
        /\ writes' = writes \cup {[by |-> e, what |-> "primary", content |-> lookedAt[e],
                                   ok |-> outcome = "succeeded"]}
  BY DEF DispatchPrimary, Write
<1> DEFINE ok == outcome = "succeeded"
           mine == [by |-> e, what |-> "primary", content |-> lookedAt[e], ok |-> ok]
<1>0. mine.what = "primary" /\ mine.by = e /\ mine.content = lookedAt[e] /\ mine.ok = ok
  OBVIOUS
<1>11. writes' = writes \cup {mine} BY <1>1
<1> HIDE DEF mine
<1>2. /\ UNCHANGED <<paired, approved, content, agreed, expired, lookedAt, sawComment>>
      /\ at[e] = "dispatching" /\ "primary" \in pending /\ "primary" \in approved
      /\ content = lookedAt[e] /\ pending' = pending \ {"primary"}
  BY DEF DispatchPrimary, Consume
<1>3. CardOK' BY <1>1, <1>2 DEF ApprovalInv, CardOK
<1>4. content = agreed BY <1>2 DEF ApprovalInv, CardOK
<1>5. \A w \in writes : w.what = "comment"
  BY <1>2 DEF ApprovalInv, WritesOK
<1>6. \A d, b : WroteChange(d, b) => WroteChange(d, b)' BY <1>11 DEF WroteChange
<1>7. WroteChange(e, ok)'
  <2>1. mine \in writes' /\ mine.what = "primary" /\ mine.by = e /\ mine.ok = ok BY <1>0, <1>11
  <2> QED BY <2>1 DEF WroteChange
<1>8. WritesOK'
  <2>1. \A w \in writes' : w.what \in Half /\ w.what \in approved /\ w.what \notin pending'
    BY <1>0, <1>11, <1>2 DEF ApprovalInv, WritesOK
  <2>2. \A w, x \in writes' : w.what = x.what => w = x
    BY <1>0, <1>11, <1>5 DEF ApprovalInv, WritesOK
  <2>3. \A w \in writes' : w.what = "primary" => w.content = agreed
    BY <1>0, <1>11, <1>2, <1>4 DEF ApprovalInv, WritesOK
  <2>4. \A w \in writes' : w.what = "comment" => WroteChange(w.by, TRUE)'
    BY <1>0, <1>11, <1>6 DEF ApprovalInv, WritesOK
  <2> QED BY <1>2, <2>1, <2>2, <2>3, <2>4 DEF WritesOK
<1>9. ASSUME NEW d \in Executors, d # e PROVE ExecutorOK(d)'
  <2>1. ExecutorOK(d) /\ at'[d] = at[d] BY <1>1, <1>9 DEF ApprovalInv, CardOK
  <2> QED BY <1>2, <1>6, <2>1 DEF ExecutorOK
<1>10. ExecutorOK(e)'
  <2>1. ExecutorOK(e) /\ at'[e] = outcome BY <1>1 DEF ApprovalInv, CardOK
  <2>2. \/ outcome = "succeeded" /\ ok = TRUE
        \/ outcome \in {"failed", "raised"} /\ ok = FALSE
    <3>1. CASE outcome = "succeeded" BY <3>1
    <3>2. CASE outcome # "succeeded" BY <3>2
    <3> QED BY <3>1, <3>2
  <2>3. sawComment[e] => "comment" \in approved BY <1>2, <2>1 DEF ExecutorOK
  <2>4. sawComment[e] /\ ~expired => "comment" \in pending' BY <1>2, <2>1 DEF ExecutorOK
  <2> QED BY <1>2, <1>7, <2>1, <2>2, <2>3, <2>4 DEF ExecutorOK
<1> QED BY <1>3, <1>8, <1>9, <1>10 DEF ApprovalInv

LEMMA DispatchCommentStep ==
    ASSUME ApprovalInv, NEW e \in Executors, DispatchComment(e)
    PROVE  ApprovalInv'
<1> USE DEF Half, MoveTo
<1> DEFINE mine == [by |-> e, what |-> "comment", content |-> lookedAt[e], ok |-> TRUE]
<1>0. mine.what = "comment" /\ mine.by = e OBVIOUS
<1>1. /\ UNCHANGED <<paired, approved, content, agreed, expired, lookedAt, sawComment>>
      /\ at[e] = "succeeded" /\ "comment" \in pending /\ "comment" \in approved
      /\ pending' = pending \ {"comment"} /\ writes' = writes \cup {mine}
      /\ at' = [at EXCEPT ![e] = "done"]
  BY DEF DispatchComment, Consume, Write
<1> HIDE DEF mine
<1>2. CardOK' BY <1>1 DEF ApprovalInv, CardOK
<1>3. \A w \in writes : w.what = "primary" BY <1>1 DEF ApprovalInv, WritesOK
<1>4. \A d, b : WroteChange(d, b) => WroteChange(d, b)' BY <1>1 DEF WroteChange
<1>5. WroteChange(e, TRUE) BY <1>1 DEF ApprovalInv, ExecutorOK
<1>6. WritesOK'
  <2>1. \A w \in writes' : w.what \in Half /\ w.what \in approved /\ w.what \notin pending'
    BY <1>0, <1>1 DEF ApprovalInv, WritesOK
  <2>2. \A w, x \in writes' : w.what = x.what => w = x
    BY <1>0, <1>1, <1>3 DEF ApprovalInv, WritesOK
  <2>3. \A w \in writes' : w.what = "primary" => w.content = agreed
    BY <1>0, <1>1 DEF ApprovalInv, WritesOK
  <2>4. \A w \in writes' : w.what = "comment" => WroteChange(w.by, TRUE)'
    BY <1>0, <1>1, <1>3, <1>4, <1>5
  <2> QED BY <1>0, <1>1, <2>1, <2>2, <2>3, <2>4 DEF WritesOK
<1>7. ASSUME NEW d \in Executors, d # e PROVE ExecutorOK(d)'
  <2>1. ExecutorOK(d) /\ at'[d] = at[d] BY <1>1, <1>7 DEF ApprovalInv, CardOK
  <2>2. at[d] # "succeeded" BY <1>5, <1>7, <2>1, OneChange DEF ExecutorOK
  <2>3. "primary" \notin pending BY <1>5, OneChange
  <2> QED BY <1>1, <1>4, <2>1, <2>2, <2>3 DEF ExecutorOK
<1>8. ExecutorOK(e)' BY <1>1 DEF ApprovalInv, CardOK, ExecutorOK
<1> QED BY <1>2, <1>6, <1>7, <1>8 DEF ApprovalInv

LEMMA SpecApprovalInv == ApprovalSpec => []ApprovalInv
<1>1. ApprovalInv /\ [ApprovalNext]_approvalVars => ApprovalInv'
  <2> SUFFICES ASSUME ApprovalInv, [ApprovalNext]_approvalVars PROVE ApprovalInv'
    OBVIOUS
  <2>1. CASE UNCHANGED approvalVars
    BY <2>1 DEF approvalVars, card, ApprovalInv, CardOK, WritesOK, ExecutorOK, WroteChange
  <2>2. ASSUME NEW e \in Executors, Executor(e) PROVE ApprovalInv'
    BY <2>2, LookStep, GiveUpStep, DispatchPrimaryStep, DispatchCommentStep DEF Executor
  <2> QED BY <2>1, <2>2, UserStep DEF ApprovalNext
<1> QED BY <1>1, ApprovalInit_Inv, PTL DEF ApprovalSpec

(* However many executors run a card that the user approves, cancels or lets expire,   *)
(* what is written is what was shown, each half at most once, and the comment only by  *)
(* the one who made the change in full.                                                *)
THEOREM ApprovedIsWritten == ApprovalSpec => []WrittenAsApproved
<1>1. ApprovalInv => WrittenAsApproved
  BY DEF ApprovalInv, WritesOK, WroteChange, WrittenAsApproved
<1> QED BY <1>1, SpecApprovalInv, PTL

(* The executor that made the change still finds its comment: no executor that lost    *)
(* the race, was refused or found the pair torn takes it away.                         *)
THEOREM CommentIsLeft == ApprovalSpec => []LoserLeavesComment
<1>1. ApprovalInv => LoserLeavesComment BY DEF ApprovalInv, ExecutorOK, LoserLeavesComment
<1> QED BY <1>1, SpecApprovalInv, PTL

-----------------------------------------------------------------------------
(* AgentTurn: who holds the answer to a challenge, and what is left of one that was used. *)

TurnPlaces == {"new", "waiting", "locked", "prepared", "running", "shaping", "leaving", "done"}
Row == [state : {"none", "pending", "inflight", "consumed", "gone"}, revision : Nat,
        lease : Turns \cup {NoThread}]

TurnTyping ==
    /\ place \in [Turns -> TurnPlaces]
    /\ answers \in [Turns -> {0} \cup Challenges]
    /\ checkpoint \in Nat
    /\ book \in [Challenges -> Row]
    /\ used \subseteq Challenges \X Turns

\* A turn goes on with an answer once it has claimed it and until it finishes it.
Holding(t) == place[t] \in {"prepared", "running"}

BookOK(c) ==
    /\ book[c] = NoChallenge \/ book[c].state # "none"
    /\ book[c].revision <= checkpoint
    /\ book[c].state = "consumed" => book[c].revision < checkpoint \/ c \in unread
    /\ book[c].state = "inflight" =>
          /\ book[c].lease \in Turns /\ Holding(book[c].lease) /\ answers[book[c].lease] = c
          /\ place[book[c].lease] = "running" => book[c].revision < checkpoint

HolderOK(t) ==
    Holding(t) /\ answers[t] # 0 =>
        /\ Lease(answers[t], t) \/ book[answers[t]].state = "gone"
        /\ \A u \in Turns : Holding(u) /\ answers[u] = answers[t] => u = t

\* An answer that was used is at a checkpoint that is past, and nobody else holds it.
UsedOK(x) ==
    /\ book[x[1]].state # "none" /\ book[x[1]].revision < checkpoint
    /\ \A u \in Turns : Holding(u) /\ answers[u] = x[1] => u = x[2]

TurnInv ==
    /\ TurnTyping
    /\ \A c \in Challenges : BookOK(c)
    /\ \A t \in Turns : HolderOK(t)
    /\ \A x \in used : UsedOK(x)
    /\ AnswerIsUsedOnce

LEMMA Rows ==
    ASSUME NEW r \in Row
    PROVE  /\ r.state \in {"none", "pending", "inflight", "consumed", "gone"}
           /\ r.revision \in Nat /\ r.lease \in Turns \cup {NoThread}
BY DEF Row

LEMMA RowReleased ==
    ASSUME NEW r \in Row, NEW s \in {"consumed", "pending"}, NEW released,
           released = [r EXCEPT !.lease = NoThread, !.state = s]
    PROVE  released \in Row /\ released.state = s /\ released.revision = r.revision
BY DEF Row

LEMMA NewRows ==
    /\ NoChallenge \in Row /\ NoChallenge.state = "none"
    /\ \A n \in Nat : [state |-> "pending", revision |-> n, lease |-> NoThread] \in Row
BY DEF Row, NoChallenge

\* Every nonempty set of numbers has a least one.
LEMMA Least ==
    ASSUME NEW S, S \subseteq Nat, S # {}
    PROVE  \E c \in S : \A d \in S : c <= d
<1>1. PICK c \in S : \A d \in S : ~(<<d, c>> \in OpToRel(<, Nat))
  BY WFMin, NatLessThanWellFounded
<1>2. \A d \in S : ~(d < c) BY <1>1 DEF OpToRel
<1> QED BY <1>2

\* No turn takes an answer up or leaves one.
HoldersStay ==
    \A t \in Turns : /\ Holding(t)' <=> Holding(t)
                     /\ Holding(t) => answers'[t] = answers[t] /\ place'[t] = place[t]

LEMMA TurnInit_Inv == TurnInit => TurnInv
<1> SUFFICES ASSUME TurnInit PROVE TurnInv
  OBVIOUS
<1>1. TurnTyping BY NewRows DEF TurnInit, TurnTyping, TurnPlaces
<1>2. \A c \in Challenges : BookOK(c) BY DEF TurnInit, BookOK, NoChallenge
<1> QED BY <1>1, <1>2 DEF TurnInit, TurnInv, HolderOK, Holding, AnswerIsUsedOnce

LEMMA TurnCalm ==
    ASSUME TurnInv, TurnTyping', HoldersStay, UNCHANGED <<checkpoint, book, used, unread>>
    PROVE  TurnInv'
<1>1. ASSUME NEW c \in Challenges PROVE BookOK(c)'
  <2>1. BookOK(c) BY DEF TurnInv
  <2> QED BY <2>1 DEF BookOK, HoldersStay
<1>2. ASSUME NEW t \in Turns PROVE HolderOK(t)'
  <2>1. HolderOK(t) BY DEF TurnInv
  <2> QED BY <2>1 DEF HolderOK, HoldersStay, Lease
<1>3. \A x \in used' : UsedOK(x)' BY DEF TurnInv, UsedOK, HoldersStay
<1> QED BY <1>1, <1>2, <1>3 DEF TurnInv, AnswerIsUsedOnce

LEMMA IssueKeeps ==
    ASSUME TurnInv, TurnTyping', HoldersStay, UNCHANGED <<checkpoint, used, unread>>, Issue
    PROVE  TurnInv'
<1>1. CASE book' = book BY <1>1, TurnCalm
<1>2. CASE book' # book
  <2>1. Challenges \ Numbered # {} /\ Challenges \ Numbered \subseteq Nat
    BY <1>2, AgentTurnAssumption DEF Issue
  <2>2. PICK n \in Challenges \ Numbered :
           SetBook(n, [state |-> "pending", revision |-> checkpoint, lease |-> NoThread])
    BY <1>2, <2>1, Least DEF Issue
  <2>3. /\ n \in Challenges /\ book[n].state = "none"
        /\ book'[n] = [state |-> "pending", revision |-> checkpoint, lease |-> NoThread]
        /\ \A c \in Challenges : c # n => book'[c] = book[c]
    BY <2>2 DEF SetBook, Numbered, NoChallenge, TurnInv, TurnTyping
  <2>4. ASSUME NEW c \in Challenges PROVE BookOK(c)'
    <3>1. BookOK(c) BY DEF TurnInv
    <3>2. CASE c = n BY <2>3, <3>2 DEF BookOK, TurnInv, TurnTyping
    <3>3. CASE c # n BY <2>3, <3>1, <3>3 DEF BookOK, HoldersStay
    <3> QED BY <3>2, <3>3
  <2>5. ASSUME NEW t \in Turns PROVE HolderOK(t)'
    <3>1. HolderOK(t) /\ answers[t] \in {0} \cup Challenges BY DEF TurnInv, TurnTyping
    <3>2. Holding(t) /\ answers[t] # 0 => answers[t] # n BY <2>3, <3>1 DEF HolderOK, Lease
    <3> QED BY <2>3, <3>1, <3>2 DEF HolderOK, HoldersStay, Lease
  <2>6. ASSUME NEW x \in used PROVE UsedOK(x)'
    <3>1. UsedOK(x) /\ x[1] \in Challenges BY DEF TurnInv, TurnTyping
    <3>2. x[1] # n BY <2>3, <3>1 DEF UsedOK
    <3> QED BY <2>3, <3>1, <3>2 DEF UsedOK, HoldersStay
  <2> QED BY <2>4, <2>5, <2>6 DEF TurnInv, AnswerIsUsedOnce
<1> QED BY <1>1, <1>2

\* The book of challenges stays one when Finish or Expire change it.
LEMMA IssueTyped == ASSUME TurnTyping, Issue PROVE book' \in [Challenges -> Row]
<1>1. [state |-> "pending", revision |-> checkpoint, lease |-> NoThread] \in Row
  BY NewRows DEF TurnTyping
<1> DEFINE row == [state |-> "pending", revision |-> checkpoint, lease |-> NoThread]
           lowest == CHOOSE c \in Challenges \ Numbered : \A d \in Challenges \ Numbered : c <= d
<1>2. book' = [book EXCEPT ![lowest] = row] \/ book' = book BY Zenon DEF Issue, SetBook
<1> HIDE DEF row, lowest
<1>3. book \in [Challenges -> Row] BY DEF TurnTyping
<1> QED BY <1>1, <1>2, <1>3 DEF row

\* The turn leaves its answer: it is used up if the conversation went on, or given back.
LEMMA EndKeeps ==
    ASSUME TurnInv, NEW t \in Turns, NEW spent, EndLease(t, spent), unread \subseteq unread',
           \A c \in Challenges : Lease(c, t) /\ c \in spent =>
                                  checkpoint # book[c].revision \/ c \in unread',
           NEW next \in TurnPlaces, next \notin {"prepared", "running"}, Place(t, next),
           UNCHANGED <<answers, checkpoint, used>>
    PROVE  TurnInv'
<1>0. TurnTyping BY DEF TurnInv
<1>1. ASSUME NEW c \in Challenges, Lease(c, t)
      PROVE  /\ book'[c].state \in {"consumed", "pending"} /\ book'[c].revision = book[c].revision
             /\ book'[c] \in Row
             /\ book'[c].state = "consumed" => book[c].revision < checkpoint \/ c \in unread'
  <2>1. book[c] \in Row /\ BookOK(c) BY <1>0 DEF TurnTyping, TurnInv
  <2> DEFINE s == IF c \in spent THEN "consumed" ELSE "pending"
  <2>2. book'[c] = [book[c] EXCEPT !.lease = NoThread, !.state = s] BY <1>1 DEF EndLease
  <2>3. s \in {"consumed", "pending"} OBVIOUS
  <2>4. s = "consumed" => book[c].revision < checkpoint \/ c \in unread'
    <3>1. book[c].revision \in Nat BY <2>1, Rows
    <3> QED BY <1>0, <1>1, <2>1, <3>1 DEF BookOK, Lease, TurnTyping
  <2> HIDE DEF s
  <2>5. /\ book'[c].state = s /\ book'[c].revision = book[c].revision /\ book'[c] \in Row
    <3> DEFINE old == book[c]
               new == book'[c]
    <3>1. old \in Row /\ new = [old EXCEPT !.lease = NoThread, !.state = s] BY <2>1, <2>2
    <3> HIDE DEF old, new
    <3>2. new \in Row /\ new.state = s /\ new.revision = old.revision
      BY <2>3, <3>1, RowReleased
    <3> QED BY <3>2 DEF old, new
  <2> QED BY <2>3, <2>4, <2>5
<1>2. \A c \in Challenges : ~Lease(c, t) => book'[c] = book[c] BY DEF EndLease
<1>3. TurnTyping'
  <2>1. book' \in [Challenges -> Row]
    <3>1. \A c \in Challenges : book'[c] \in Row BY <1>0, <1>1, <1>2 DEF TurnTyping
    <3>2. book' = [c \in Challenges |-> book'[c]] BY DEF EndLease
    <3> QED BY <3>1, <3>2
  <2>2. place' \in [Turns -> TurnPlaces] BY <1>0 DEF Place, TurnTyping
  <2> QED BY <1>0, <2>1, <2>2 DEF TurnTyping
<1>4. /\ ~Holding(t)'
      /\ \A u \in Turns : u # t => place'[u] = place[u]
  BY <1>0 DEF Place, Holding, TurnTyping
<1>5. ASSUME NEW c \in Challenges PROVE BookOK(c)'
  <2>1. BookOK(c) BY DEF TurnInv
  <2>2. CASE Lease(c, t)
    <3>1. book'[c].state # "inflight" /\ book'[c].state # "none" BY <1>1, <2>2
    <3> QED BY <1>1, <2>1, <2>2, <3>1 DEF BookOK
  <2>3. CASE ~Lease(c, t)
    <3>1. book[c].state = "inflight" => book[c].lease # t BY <2>3 DEF Lease
    <3> QED BY <1>2, <1>4, <2>1, <2>3, <3>1 DEF BookOK, Holding
  <2> QED BY <2>2, <2>3
<1>6. ASSUME NEW u \in Turns PROVE HolderOK(u)'
  <2>1. HolderOK(u) /\ answers[u] \in {0} \cup Challenges BY <1>0 DEF TurnInv, TurnTyping
  <2>2. CASE u = t BY <1>4, <2>2 DEF HolderOK
  <2>3. CASE u # t
    <3>1. SUFFICES ASSUME Holding(u), answers[u] # 0
                   PROVE  /\ (Lease(answers[u], u) \/ book[answers[u]].state = "gone")'
                          /\ \A v \in Turns : Holding(v)' /\ answers[v] = answers[u] => v = u
      BY <1>4, <2>3 DEF HolderOK, Holding
    <3>2. Lease(answers[u], u) \/ book[answers[u]].state = "gone" BY <2>1, <3>1 DEF HolderOK
    <3>3. answers[u] \in Challenges /\ ~Lease(answers[u], t)
      BY <2>1, <2>3, <3>1, <3>2 DEF Lease
    <3>4. \A v \in Turns : Holding(v)' => Holding(v) BY <1>4 DEF Holding
    <3> QED BY <1>2, <2>1, <3>1, <3>2, <3>3, <3>4 DEF HolderOK, Lease
  <2> QED BY <2>2, <2>3
<1>7. ASSUME NEW x \in used PROVE UsedOK(x)'
  <2>1. UsedOK(x) /\ x[1] \in Challenges BY <1>0 DEF TurnInv, TurnTyping
  <2>2. book'[x[1]].state # "none" /\ book'[x[1]].revision = book[x[1]].revision
    BY <1>1, <1>2, <2>1 DEF UsedOK
  <2>3. \A v \in Turns : Holding(v)' => Holding(v) BY <1>4 DEF Holding
  <2> QED BY <2>1, <2>2, <2>3 DEF UsedOK
<1> QED BY <1>3, <1>5, <1>6, <1>7 DEF TurnInv, AnswerIsUsedOnce

\* What is used up is past, or could not be read.
LEMMA FinishKeeps ==
    ASSUME TurnInv, NEW t \in Turns, NEW success \in BOOLEAN, NEW next \in TurnPlaces,
           Finish(t, success), Place(t, next), UNCHANGED <<answers, checkpoint, used>>,
           next \notin {"prepared", "running"}, success => place[t] = "running"
    PROVE  TurnInv'
<1>1. PICK readable \in BOOLEAN :
        /\ EndLease(t, {c \in Challenges :
                          success \/ ~readable \/ checkpoint # book[c].revision})
        /\ unread' = IF success \/ readable THEN unread
                     ELSE unread \cup {c \in Challenges : Lease(c, t)}
  BY DEF Finish
<1> DEFINE spent == {c \in Challenges : success \/ ~readable \/ checkpoint # book[c].revision}
<1>2. unread \subseteq unread' BY <1>1
<1>3. ASSUME NEW c \in Challenges, Lease(c, t), c \in spent
      PROVE  checkpoint # book[c].revision \/ c \in unread'
  <2>1. success => book[c].revision < checkpoint
    <3>1. BookOK(c) /\ book[c].revision \in Nat /\ checkpoint \in Nat
      BY Rows DEF TurnInv, TurnTyping
    <3> QED BY <1>3, <3>1 DEF BookOK, Lease
  <2>2. success => checkpoint # book[c].revision
    <3>1. book[c].revision \in Nat /\ checkpoint \in Nat BY Rows DEF TurnInv, TurnTyping
    <3> QED BY <2>1, <3>1
  <2> QED BY <1>1, <1>3, <2>2
<1>4. EndLease(t, spent) BY <1>1
<1> HIDE DEF spent
<1> QED BY <1>2, <1>3, <1>4, EndKeeps

LEMMA ExpireKeeps ==
    ASSUME TurnInv, NEW c \in Challenges, Expire(c)
    PROVE  TurnInv'
<1>0. TurnTyping BY DEF TurnInv
<1>1. /\ UNCHANGED <<place, answers, checkpoint, used, unread>>
      /\ book' = [book EXCEPT ![c] = [book[c] EXCEPT !.state = "gone"]]
  BY DEF Expire, SetBook
<1>2. /\ book'[c] \in Row /\ book'[c].state = "gone" /\ book'[c].revision = book[c].revision
      /\ \A d \in Challenges : d # c => book'[d] = book[d]
  <2>1. book[c] \in Row BY <1>0 DEF TurnTyping
  <2>2. book'[c] = [book[c] EXCEPT !.state = "gone"] BY <1>0, <1>1 DEF TurnTyping
  <2>3. \A d \in Challenges : d # c => book'[d] = book[d] BY <1>0, <1>1 DEF TurnTyping
  <2> QED BY <2>1, <2>2, <2>3 DEF Row
<1>3. TurnTyping'
  <2>1. [book[c] EXCEPT !.state = "gone"] \in Row BY <1>0 DEF TurnTyping, Row
  <2> QED BY <1>0, <1>1, <2>1 DEF TurnTyping
<1>4. ASSUME NEW d \in Challenges PROVE BookOK(d)'
  <2>1. BookOK(d) BY DEF TurnInv
  <2>2. CASE d = c BY <1>1, <1>2, <2>1, <2>2 DEF BookOK
  <2>3. CASE d # c BY <1>1, <1>2, <2>1, <2>3 DEF BookOK, Holding
  <2> QED BY <2>2, <2>3
<1>5. ASSUME NEW t \in Turns PROVE HolderOK(t)'
  <2>1. HolderOK(t) /\ answers[t] \in {0} \cup Challenges BY <1>0 DEF TurnInv, TurnTyping
  <2>2. CASE answers[t] = c BY <1>1, <1>2, <2>1, <2>2 DEF HolderOK, Holding
  <2>3. CASE answers[t] # c BY <1>1, <1>2, <2>1, <2>3 DEF HolderOK, Holding, Lease
  <2> QED BY <2>2, <2>3
<1>6. ASSUME NEW x \in used PROVE UsedOK(x)'
  <2>1. UsedOK(x) /\ x[1] \in Challenges BY <1>0 DEF TurnInv, TurnTyping
  <2>2. book'[x[1]].state # "none" /\ book'[x[1]].revision = book[x[1]].revision
    BY <1>2, <2>1 DEF UsedOK
  <2> QED BY <1>1, <2>1, <2>2 DEF UsedOK, Holding
<1> QED BY <1>1, <1>3, <1>4, <1>5, <1>6 DEF TurnInv, AnswerIsUsedOnce

\* A challenge is claimed at the checkpoint that asked it: so it was not used before, and
\* nobody else holds it.
LEMMA ClaimKeeps ==
    ASSUME TurnInv, NEW t \in Turns, Prepare(t)
    PROVE  TurnInv'
<1>0. TurnTyping BY DEF TurnInv
<1>1. UNCHANGED <<answers, checkpoint, used, unread>> /\ place[t] = "locked" BY DEF Prepare
<1>2. CASE answers[t] = 0
  <2>1. book' = book /\ place' = [place EXCEPT ![t] = "prepared"]
    BY <1>2 DEF Prepare, Place
  <2>2. TurnTyping' BY <1>0, <1>1, <2>1 DEF TurnTyping, TurnPlaces
  <2>3. place'[t] = "prepared" /\ \A u \in Turns : u # t => place'[u] = place[u]
    BY <1>0, <2>1 DEF TurnTyping
  <2>4. ASSUME NEW c \in Challenges PROVE BookOK(c)'
    <3>1. BookOK(c) BY DEF TurnInv
    <3>2. book[c].state = "inflight" => book[c].lease # t BY <1>1, <3>1 DEF BookOK, Holding
    <3> QED BY <1>1, <2>1, <2>3, <3>1, <3>2 DEF BookOK, Holding
  <2>5. 0 \notin Challenges BY AgentTurnAssumption
  <2>6. ASSUME NEW u \in Turns PROVE HolderOK(u)'
    <3>1. HolderOK(u) BY DEF TurnInv
    <3> QED BY <1>1, <1>2, <2>1, <2>3, <3>1 DEF HolderOK, Holding, Lease
  <2>7. ASSUME NEW x \in used PROVE UsedOK(x)'
    <3>1. UsedOK(x) /\ x[1] \in Challenges BY <1>0 DEF TurnInv, TurnTyping
    <3> QED BY <1>1, <1>2, <2>1, <2>3, <2>5, <3>1 DEF UsedOK, Holding
  <2> QED BY <1>1, <2>2, <2>4, <2>6, <2>7 DEF TurnInv, AnswerIsUsedOnce
<1>3. CASE answers[t] # 0 /\ Claimable(answers[t])
  <2> DEFINE c == answers[t]
  <2>1. c \in Challenges /\ book[c] \in Row /\ book[c].state = "pending"
        /\ book[c].revision = checkpoint
    BY <1>0, <1>3 DEF TurnTyping, Claimable
  <2>2. /\ place' = [place EXCEPT ![t] = "prepared"]
        /\ book' = [book EXCEPT ![c] = [book[c] EXCEPT !.state = "inflight", !.lease = t]]
    BY <1>3 DEF Prepare, Place, SetBook
  <2>3. [book[c] EXCEPT !.state = "inflight", !.lease = t] \in Row BY <2>1 DEF Row
  <2>4. TurnTyping' BY <1>0, <1>1, <2>1, <2>2, <2>3 DEF TurnTyping, TurnPlaces
  <2>5. /\ book'[c].state = "inflight" /\ book'[c].lease = t /\ book'[c].revision = checkpoint
        /\ \A d \in Challenges : d # c => book'[d] = book[d]
    <3>1. book'[c] = [book[c] EXCEPT !.state = "inflight", !.lease = t]
      BY <1>0, <2>1, <2>2 DEF TurnTyping
    <3>2. \A d \in Challenges : d # c => book'[d] = book[d] BY <1>0, <2>2 DEF TurnTyping
    <3> QED BY <2>1, <3>1, <3>2 DEF Row
  <2>6. place'[t] = "prepared" /\ \A u \in Turns : u # t => place'[u] = place[u]
    BY <1>0, <2>2 DEF TurnTyping
  <2>7. \A u \in Turns : Holding(u) => answers[u] # c
    <3>1. \A u \in Turns : HolderOK(u) BY DEF TurnInv
    <3> QED BY <1>3, <2>1, <3>1 DEF HolderOK, Lease
  <2>8. \A x \in used : x[1] # c
    BY <1>0, <2>1 DEF TurnInv, UsedOK, TurnTyping
  <2> HIDE DEF c
  <2>9. ASSUME NEW d \in Challenges PROVE BookOK(d)'
    <3>1. BookOK(d) BY DEF TurnInv
    <3>2. CASE d = c
      <4>1. answers'[t] = c BY <1>1 DEF c
      <4>2. book'[c] # NoChallenge BY <2>5, NewRows
      <4> QED BY <1>0, <1>1, <2>5, <2>6, <3>2, <4>1, <4>2 DEF BookOK, Holding, TurnTyping
    <3>3. CASE d # c
      <4>1. book[d].state = "inflight" => book[d].lease # t
        BY <1>1, <3>1 DEF BookOK, Holding
      <4> QED BY <1>1, <2>5, <2>6, <3>1, <3>3, <4>1 DEF BookOK, Holding
    <3> QED BY <3>2, <3>3
  <2>10. ASSUME NEW u \in Turns PROVE HolderOK(u)'
    <3>1. HolderOK(u) /\ answers[u] \in {0} \cup Challenges BY <1>0 DEF TurnInv, TurnTyping
    <3>2. \A v \in Turns : v # t => (Holding(v)' <=> Holding(v)) BY <2>6 DEF Holding
    <3>3. CASE u = t
      <4>1. \A v \in Turns : Holding(v)' /\ answers[v] = c => v = t BY <2>7, <3>2
      <4>2. Lease(c, t)' BY <1>1, <2>5 DEF Lease, c
      <4> QED BY <1>1, <3>3, <4>1, <4>2 DEF HolderOK, c
    <3>4. CASE u # t
      <4>1. Holding(u) => answers[u] # c BY <2>7
      <4>2. Holding(u)' /\ answers[u] # 0 =>
              Lease(answers[u], u)' \/ book'[answers[u]].state = "gone"
        BY <1>1, <2>5, <3>1, <3>2, <3>4, <4>1 DEF HolderOK, Lease
      <4>3. \A v \in Turns : Holding(u)' /\ answers[u] # 0 /\ Holding(v)'
                               /\ answers[v] = answers[u] => v = u
        BY <3>1, <3>2, <3>4, <4>1 DEF HolderOK, c
      <4> QED BY <1>1, <4>2, <4>3 DEF HolderOK
    <3> QED BY <3>3, <3>4
  <2>11. ASSUME NEW x \in used PROVE UsedOK(x)'
    <3>1. UsedOK(x) /\ x[1] \in Challenges BY <1>0 DEF TurnInv, TurnTyping
    <3> QED BY <1>1, <2>5, <2>6, <2>8, <3>1 DEF UsedOK, Holding, c
  <2> QED BY <1>1, <2>4, <2>9, <2>10, <2>11 DEF TurnInv, AnswerIsUsedOnce
<1>4. CASE answers[t] # 0 /\ ~Claimable(answers[t])
  <2>1. book' = book /\ place' = [place EXCEPT ![t] = "leaving"]
    BY <1>4 DEF Prepare, Place
  <2>2. TurnTyping' BY <1>0, <1>1, <2>1 DEF TurnTyping, TurnPlaces
  <2>3. HoldersStay BY <1>0, <1>1, <2>1 DEF HoldersStay, Holding, TurnTyping
  <2> QED BY <1>1, <2>1, <2>2, <2>3, TurnCalm
<1> QED BY <1>2, <1>3, <1>4

LEMMA SaveKeeps ==
    ASSUME TurnInv, NEW t \in Turns, SaveCheckpoint(t)
    PROVE  TurnInv'
<1>0. TurnTyping BY DEF TurnInv
<1> DEFINE c == answers[t]
<1>1. /\ UNCHANGED <<answers, book>> /\ Holding(t) /\ checkpoint' = checkpoint + 1
      /\ place' = [place EXCEPT ![t] = "running"]
      /\ used' = used \cup ({<<c, t>>} \ {<<0, t>>})
  BY DEF SaveCheckpoint, Holding, Place
<1>2. /\ c \in {0} \cup Challenges /\ HolderOK(t) BY <1>0 DEF TurnInv, TurnTyping
<1>3. TurnTyping' BY <1>0, <1>1, <1>2 DEF TurnTyping, TurnPlaces
<1>4. \A u \in Turns : Holding(u)' <=> Holding(u) BY <1>0, <1>1 DEF TurnTyping, Holding
<1>5. ASSUME NEW d \in Challenges PROVE BookOK(d)'
  <2>1. BookOK(d) /\ book[d].revision \in Nat BY <1>0 DEF TurnInv, TurnTyping, Row
  <2> QED BY <1>0, <1>1, <1>4, <2>1 DEF BookOK, TurnTyping
<1>6. ASSUME NEW u \in Turns PROVE HolderOK(u)'
  <2>1. HolderOK(u) BY DEF TurnInv
  <2> QED BY <1>1, <1>4, <2>1 DEF HolderOK, Lease
<1>7. ASSUME NEW x \in used PROVE UsedOK(x)' /\ UsedOK(x)
  <2>1. UsedOK(x) /\ x[1] \in Challenges BY <1>0 DEF TurnInv, TurnTyping
  <2>2. book[x[1]].revision \in Nat BY <1>0, <2>1, Rows DEF TurnTyping
  <2> QED BY <1>0, <1>1, <1>4, <2>1, <2>2 DEF UsedOK, TurnTyping
<1>8. CASE c = 0
  <2>1. used' = used BY <1>1, <1>8
  <2> QED BY <1>3, <1>5, <1>6, <1>7, <2>1 DEF TurnInv, AnswerIsUsedOnce
<1>9. CASE c # 0
  <2>1. used' = used \cup {<<c, t>>} /\ c \in Challenges BY <1>1, <1>2, <1>9
  <2>2. UsedOK(<<c, t>>)'
    <3>1. BookOK(c) /\ book[c].revision \in Nat BY <1>0, <2>1 DEF TurnInv, TurnTyping, Row
    <3>2. book[c].state # "none" /\ book[c].revision < checkpoint + 1
      BY <1>0, <1>1, <1>2, <1>9, <3>1 DEF HolderOK, Lease, BookOK, TurnTyping
    <3>3. \A u \in Turns : Holding(u) /\ answers[u] = c => u = t
      BY <1>1, <1>2, <1>9 DEF HolderOK
    <3> QED BY <1>1, <1>4, <3>2, <3>3 DEF UsedOK
  <2>3. AnswerIsUsedOnce'
    <3>1. ASSUME NEW x \in used, x[1] = c PROVE x = <<c, t>>
      <4>1. x \in Challenges \X Turns BY <1>0 DEF TurnTyping
      <4>2. t = x[2] BY <1>1, <1>7, <3>1 DEF UsedOK
      <4> QED BY <3>1, <4>1, <4>2
    <3>2. AnswerIsUsedOnce BY DEF TurnInv
    <3> QED BY <2>1, <3>1, <3>2 DEF AnswerIsUsedOnce
  <2> QED BY <1>1, <1>3, <1>5, <1>6, <1>7, <2>1, <2>2, <2>3 DEF TurnInv
<1> QED BY <1>8, <1>9

LEMMA TurnStep == TurnInv /\ [TurnNext]_turnVars => TurnInv'
<1> SUFFICES ASSUME TurnInv, [TurnNext]_turnVars PROVE TurnInv'
  OBVIOUS
<1>0. TurnTyping BY DEF TurnInv
<1> USE DEF Place
<1>1. ASSUME Snapshot PROVE TurnInv'
  <2>1. UNCHANGED <<place, answers, checkpoint, used, unread>> /\ Issue BY <1>1 DEF Snapshot
  <2>2. TurnTyping' BY <1>0, <2>1, IssueTyped DEF TurnTyping
  <2>3. HoldersStay BY <2>1 DEF HoldersStay, Holding
  <2> QED BY <2>1, <2>2, <2>3, IssueKeeps
<1>2. ASSUME NEW t \in Turns, Shape(t) PROVE TurnInv'
  <2>1. /\ UNCHANGED <<answers, checkpoint, used, unread>> /\ Issue
        /\ place[t] = "shaping" /\ place' = [place EXCEPT ![t] = "leaving"]
    BY <1>2 DEF Shape
  <2>2. TurnTyping' BY <1>0, <2>1, IssueTyped DEF TurnTyping, TurnPlaces
  <2>3. HoldersStay BY <1>0, <2>1 DEF HoldersStay, Holding, TurnTyping
  <2> QED BY <2>1, <2>2, <2>3, IssueKeeps
<1>3. ASSUME NEW t \in Turns, NEW w \in Workers, Call(t, w) PROVE TurnInv'
  <2>1. PICK c \in {0} \cup Numbered : answers' = [answers EXCEPT ![t] = c]
    BY <1>3 DEF Call
  <2>2. c \in {0} \cup Challenges BY <2>1 DEF Numbered
  <2>3. /\ UNCHANGED <<checkpoint, book, used, unread>>
        /\ place[t] = "new" /\ place' = [place EXCEPT ![t] = "waiting"]
    BY <1>3 DEF Call
  <2>4. TurnTyping' BY <1>0, <2>1, <2>2, <2>3 DEF TurnTyping, TurnPlaces
  <2>5. HoldersStay BY <1>0, <2>1, <2>3 DEF HoldersStay, Holding, TurnTyping
  <2> QED BY <2>3, <2>4, <2>5, TurnCalm
<1>4. ASSUME NEW t \in Turns, Lock(t) \/ Leave(t) PROVE TurnInv'
  <2>1. /\ UNCHANGED <<answers, checkpoint, book, used, unread>> /\ place[t] \in {"waiting", "leaving"}
        /\ \E p \in {"locked", "done"} : place' = [place EXCEPT ![t] = p]
    BY <1>4 DEF Lock, Leave
  <2>2. TurnTyping' BY <1>0, <2>1 DEF TurnTyping, TurnPlaces
  <2>3. HoldersStay BY <1>0, <2>1 DEF HoldersStay, Holding, TurnTyping
  <2> QED BY <2>1, <2>2, <2>3, TurnCalm
<1>5. ASSUME UNCHANGED <<place, answers, checkpoint, book, used, unread>> PROVE TurnInv'
  <2>1. TurnTyping' BY <1>0, <1>5 DEF TurnTyping
  <2>2. HoldersStay BY <1>5 DEF HoldersStay, Holding
  <2> QED BY <1>5, <2>1, <2>2, TurnCalm
<1>6. ASSUME NEW t \in Turns,
             Succeed(t) \/ Fail(t) \/ Stop(t) \/ Abandon(t)
      PROVE  TurnInv'
  <2>1. UNCHANGED <<answers, checkpoint, used>>
    BY <1>6 DEF Succeed, Fail, Stop, Abandon
  <2>2. PICK success \in BOOLEAN, next \in {"leaving", "shaping", "done"} :
          /\ Finish(t, success) /\ Place(t, next)
          /\ success => place[t] = "running"
    BY <1>6 DEF Succeed, Fail, Stop, Abandon
  <2>3. next \in TurnPlaces /\ next \notin {"prepared", "running"} BY DEF TurnPlaces
  <2> QED BY <2>1, <2>2, <2>3, FinishKeeps
<1>7. ASSUME request_stop \/ (\E t \in Turns : Yield(t) \/ \E w \in Workers : Continue(t, w))
             \/ UNCHANGED turnVars
      PROVE  TurnInv'
  BY <1>5, <1>7 DEF request_stop, Yield, Continue, turnVars
<1>8. ASSUME NEW t \in Turns, PreparationFails(t) PROVE TurnInv'
  <2>1. /\ EndLease(t, {}) /\ Place(t, "leaving")
        /\ UNCHANGED <<answers, checkpoint, used, unread>>
    BY <1>8 DEF PreparationFails
  <2>2. PICK next : next = "leaving" OBVIOUS
  <2>3. next \in TurnPlaces /\ next \notin {"prepared", "running"} BY <2>2 DEF TurnPlaces
  <2>4. PICK spent : spent = {} OBVIOUS
  <2>5. EndLease(t, spent) /\ Place(t, next) BY <2>1, <2>2, <2>4
  <2>6. unread \subseteq unread' /\ \A c \in Challenges : c \notin spent BY <2>1, <2>4
  <2> QED BY <2>1, <2>3, <2>5, <2>6, EndKeeps
<1> QED BY <1>1, <1>2, <1>3, <1>4, <1>6, <1>7, <1>8, ExpireKeeps, ClaimKeeps, SaveKeeps DEF TurnNext

(* The answer to a challenge carries at most one turn on, for any number of turns, threads *)
(* and challenges, and although turns of the conversation do overlap.                      *)
THEOREM AnswersAreUsedOnce == TurnSpec => []AnswerIsUsedOnce
<1>1. TurnInv => AnswerIsUsedOnce BY DEF TurnInv
<1> QED BY <1>1, TurnInit_Inv, TurnStep, PTL DEF TurnSpec

(* A challenge is used up only when the conversation went on from it, or its turn failed   *)
(* and the checkpoint could not be read, and is held by a turn only while that turn is     *)
(* under way.                                                                              *)
THEOREM NoAnswerIsLost == TurnSpec => []AnswersAreKept
<1>1. TurnInv => AnswersAreKept
  <2> SUFFICES ASSUME TurnInv, NEW c \in Challenges
               PROVE  /\ book[c].state = "consumed" =>
                            checkpoint > book[c].revision \/ c \in unread
                      /\ book[c].state = "inflight" => Inside(book[c].lease)
    BY DEF AnswersAreKept
  <2>1. BookOK(c) /\ book[c].revision \in Nat /\ checkpoint \in Nat
    BY Rows DEF TurnInv, TurnTyping
  <2> QED BY <2>1 DEF BookOK, Holding, Inside
<1> QED BY <1>1, TurnInit_Inv, TurnStep, PTL DEF TurnSpec


-----------------------------------------------------------------------------
(* ConfluenceBatch: the invariant *)

Working == Locking \cup {"verifying"}
Places == {"new", "next", "over"} \cup Working
Answers == {"none", "completed", "skipped", "failed", "denied", "unknown", "pending"}
Calls == [place : Places, at : Nat, known : SUBSET Nat, rows : [Ops -> Answers]]
atRow(b) == call[b].at

Typing ==
    /\ batch \in Seq(Operations) /\ batch # <<>>
    /\ editions \in [Pages -> Seq(Nat)]
    /\ out \subseteq Ops /\ requested \subseteq Ops /\ landed \subseteq Ops /\ told \subseteq Ops
    /\ reply \in [Ops -> {"none", "landed", "refused"}]
    /\ receiptOf \in [Ops -> {"none", "pending", "committed", "success"}]
    /\ handle \in [Ops -> {"none", "running", "answered", "broken"}]
    /\ call \in [Bulks -> Calls]
    /\ \A i \in Ops : batch[i].needs \subseteq 1..(i - 1)

\* What the receipt of a row and the answer to its request say is true of Confluence, and what
\* was told completed is settled for good.
RowOK(i) ==
    /\ receiptOf[i] = "none" => i \notin landed \cup out
    /\ receiptOf[i] \in {"committed", "success"} => i \in landed
    /\ i \in out => i \notin landed /\ reply[i] = "none"
    /\ reply[i] = "landed" => i \in landed
    /\ reply[i] = "refused" => i \notin landed \cup out
    /\ handle[i] = "answered" => i \in landed
    /\ i \in told => /\ receiptOf[i] = "success" /\ batch[i].needs \subseteq told
                     /\ batch[i].action = "move" => i \in confirmed
    /\ i \in requested => batch[i].needs \subseteq landed

\* A page carries the marker of a row only if the row took effect.
MarkersOK ==
    \A p \in Pages : \A v \in 1..Len(editions[p]) :
        editions[p][v] \in Ops => editions[p][v] \in landed

\* What a call has told, and what had been told before it.
LedgerOK(b) ==
    /\ call[b].place # "over" => atRow(b) \in Ops
    /\ call[b].place = "new" => atRow(b) = 1 /\ call[b].known = {}
    /\ call[b].known \subseteq told
    /\ \A j \in call[b].known :
          batch[j].needs \subseteq call[b].known /\ call[b].rows[j] \in {"none", "completed"}
    /\ \A j \in Ops : call[b].rows[j] = "none" <=> j >= atRow(b)
    /\ \A j \in Ops : call[b].rows[j] = "completed" => j \in told

\* What a call has found out about the row it is at.
PlaceOK(b) ==
    /\ call[b].place \in Working => batch[atRow(b)].needs \subseteq told
    /\ call[b].place \in {"checking", "sending", "waiting", "reconciling"} =>
          receiptOf[atRow(b)] = "pending"
    /\ call[b].place \in {"checking", "sending"} => atRow(b) \notin landed \cup out
    /\ call[b].place = "cleaning" => receiptOf[atRow(b)] = "committed"
    /\ call[b].place = "verifying" =>
          receiptOf[atRow(b)] = "success" /\ batch[atRow(b)].action = "move"

OneHolder ==
    \A b, c \in Bulks :
        call[b].place \in Locking /\ call[c].place \in Locking /\ atRow(b) = atRow(c) => b = c

BatchInv ==
    /\ Typing
    /\ \A i \in Ops : RowOK(i)
    /\ MarkersOK
    /\ \A b \in Bulks : LedgerOK(b)
    /\ \A b \in Bulks : PlaceOK(b)
    /\ OneHolder

-----------------------------------------------------------------------------
(* The steps of a call: what they do to it, and to everything else *)

Moves(b, there) ==
    /\ call' \in [Bulks -> Calls]
    /\ call'[b].place = there /\ call'[b].at = atRow(b)
    /\ call'[b].known = call[b].known /\ call'[b].rows = call[b].rows
    /\ \A c \in Bulks : c # b => call'[c] = call[c]

Tells(b, status) ==
    /\ call' \in [Bulks -> Calls]
    /\ call'[b].place \in {"next", "over"}
    /\ call'[b].place = "next" => atRow(b) + 1 \in Ops
    /\ call'[b].at = atRow(b) + 1 /\ call'[b].known = call[b].known
    /\ call'[b].rows = [call[b].rows EXCEPT ![atRow(b)] = status]
    /\ told' = IF status = "completed" THEN told \cup {atRow(b)} ELSE told
    /\ \A c \in Bulks : c # b => call'[c] = call[c]

LEMMA MovesOn ==
    ASSUME Typing, NEW b \in Bulks, NEW there \in Places, MoveOn(b, there)
    PROVE  Moves(b, there)
<1> DEFINE c == [call[b] EXCEPT !.place = there]
<1>1. call[b] \in Calls BY DEF Typing
<1>2. /\ c \in Calls /\ c.place = there /\ c.at = atRow(b)
      /\ c.known = call[b].known /\ c.rows = call[b].rows
    BY <1>1 DEF Calls, atRow
<1>3. call' = [call EXCEPT ![b] = c] BY DEF MoveOn
<1> HIDE DEF c
<1> QED BY <1>2, <1>3 DEF Typing, Moves

LEMMA TellsIt ==
    ASSUME Typing, NEW b \in Bulks, NEW status \in Answers, atRow(b) \in Ops, Tell(b, status)
    PROVE  Tells(b, status)
<1> DEFINE i == atRow(b)
           there == IF i = Len(batch) THEN "over" ELSE "next"
           w == [call[b].rows EXCEPT ![i] = status]
           c == [call[b] EXCEPT !.rows = w, !.at = i + 1, !.place = there]
<1>1. call[b] \in Calls BY DEF Typing
<1>2. w \in [Ops -> Answers] BY <1>1 DEF Calls
<1>3. there \in Places /\ i \in Nat /\ (there = "next" => i + 1 \in Ops)
    BY DEF Places, Ops, Typing
<1>4. call' = [call EXCEPT ![b] = c] /\ told' = IF status = "completed" THEN told \cup {i} ELSE told
    BY DEF Tell, atRow
<1>6. there \in {"next", "over"} OBVIOUS
<1>7. i + 1 \in Nat BY <1>3
<1> HIDE DEF w, there
<1>5. /\ c \in Calls /\ c.place = there /\ c.at = i + 1 /\ c.known = call[b].known
      /\ c.rows = w
    BY <1>1, <1>2, <1>3, <1>7 DEF Calls

<1> HIDE DEF c
<1> QED BY <1>3, <1>4, <1>5, <1>6 DEF Typing, Tells, w

\* What a step of call b may touch: its row, and nothing of Confluence but what is on its way.
RowStep(b) ==
    /\ UNCHANGED <<batch, editions, landed>>
    /\ \A c \in Bulks : c # b => call'[c] = call[c]
    /\ \A j \in Ops : j # atRow(b) =>
          receiptOf'[j] = receiptOf[j] /\ handle'[j] = handle[j] /\ reply'[j] = reply[j]
    /\ told \subseteq told' /\ told' \subseteq told \cup {atRow(b)}
    /\ requested \subseteq requested' /\ requested' \subseteq requested \cup {atRow(b)}
    /\ out \subseteq out' /\ out' \subseteq out \cup {atRow(b)}
    /\ confirmed \subseteq confirmed'

\* It works on its row alone.
KeepsApart(b) ==
    /\ call'[b].place \in Locking =>
          call'[b].at = atRow(b) /\ (call[b].place \in Locking \/ ~Locked(atRow(b)))
    /\ \A c \in Bulks : c # b /\ atRow(c) = atRow(b) /\ call[c].place \in Working =>
          receiptOf'[atRow(b)] = receiptOf[atRow(b)] /\ (atRow(b) \in out' => atRow(b) \in out)

\* While a call works on a row under its lock no other is about it.
LEMMA Alone ==
    ASSUME BatchInv, NEW b \in Bulks, NEW c \in Bulks, c # b, atRow(c) = atRow(b),
           call[b].place \in Locking
    PROVE  call[c].place \notin Working
<1>1. PlaceOK(b) /\ PlaceOK(c) /\ OneHolder BY DEF BatchInv
<1>2. receiptOf[atRow(b)] \in {"pending", "committed"} BY <1>1 DEF PlaceOK, Locking
<1>3. call[c].place # "verifying" BY <1>1, <1>2 DEF PlaceOK
<1> QED BY <1>1, <1>3 DEF OneHolder, Working

LEMMA LockedStep ==
    ASSUME BatchInv, NEW b \in Bulks, call[b].place \in Locking,
           call'[b].place \in Locking => call'[b].at = atRow(b)
    PROVE  KeepsApart(b)
BY Alone DEF KeepsApart

LEMMA RowStepPreserves ==
    ASSUME BatchInv, Typing', NEW b \in Bulks, NEW i \in Ops, i = atRow(b), RowStep(b),
           KeepsApart(b), RowOK(i)', LedgerOK(b)', PlaceOK(b)'
    PROVE  BatchInv'
<1>0. Typing /\ MarkersOK /\ OneHolder /\ Ops' = Ops
    BY DEF BatchInv, RowStep, Ops
<1>1. ASSUME NEW j \in Ops PROVE RowOK(j)'
  <2>1. CASE j = i BY <2>1
  <2>2. CASE j # i
    <3>1. RowOK(j) BY DEF BatchInv
    <3> QED BY <2>2, <3>1 DEF RowOK, RowStep
  <2> QED BY <2>1, <2>2
<1>2. MarkersOK' BY <1>0 DEF MarkersOK, RowStep, Ops
<1>3. ASSUME NEW c \in Bulks PROVE LedgerOK(c)'
  <2>1. CASE c = b BY <2>1
  <2>2. CASE c # b
    <3>1. LedgerOK(c) /\ call'[c] = call[c] BY <2>2 DEF BatchInv, RowStep
    <3> QED BY <1>0, <3>1 DEF LedgerOK, RowStep, atRow
  <2> QED BY <2>1, <2>2
<1>4. ASSUME NEW c \in Bulks PROVE PlaceOK(c)'
  <2>1. CASE c = b BY <2>1
  <2>2. CASE c # b
    <3>1. LedgerOK(c) /\ PlaceOK(c) /\ call'[c] = call[c] BY <2>2 DEF BatchInv, RowStep
    <3>2. call[c].place \in Working => atRow(c) \in Ops BY <3>1 DEF LedgerOK, Working, Locking
    <3>3. CASE atRow(c) = atRow(b)
      <4>1. call[c].place \in Working =>
                /\ receiptOf'[atRow(b)] = receiptOf[atRow(b)]
                /\ atRow(b) \in out' => atRow(b) \in out
          BY <2>2, <3>3 DEF KeepsApart
      <4> QED BY <3>1, <3>3, <4>1 DEF PlaceOK, RowStep, atRow, Working, Locking
    <3>4. CASE atRow(c) # atRow(b)
      <4>1. call[c].place \in Working =>
                /\ receiptOf'[atRow(c)] = receiptOf[atRow(c)]
                /\ atRow(c) \in out' => atRow(c) \in out
          BY <3>2, <3>4 DEF RowStep
      <4> QED BY <3>1, <3>4, <4>1 DEF PlaceOK, RowStep, atRow, Working, Locking
    <3> QED BY <3>3, <3>4
  <2> QED BY <2>1, <2>2
<1>5. OneHolder'
  <2> SUFFICES ASSUME NEW c \in Bulks, NEW d \in Bulks, call'[c].place \in Locking,
                      call'[d].place \in Locking, call'[c].at = call'[d].at, c # d
               PROVE  FALSE
      BY DEF OneHolder, atRow
  <2>1. PICK e \in {c, d} : e # b BY DEF RowStep
  <2>2. e \in Bulks /\ call'[e] = call[e] BY <2>1 DEF RowStep
  <2>3. CASE b \in {c, d}
    <3>1. call'[b].place \in Locking /\ call'[e].place \in Locking /\ call'[b].at = call'[e].at
        BY <2>1, <2>3
    <3>2. call[e].place \in Locking /\ atRow(e) = atRow(b) BY <2>2, <3>1 DEF KeepsApart, atRow
    <3>3. call[b].place \in Locking \/ ~Locked(atRow(b)) BY <3>1 DEF KeepsApart
    <3>4. Locked(atRow(b)) BY <2>2, <3>2 DEF Locked, atRow
    <3> QED BY <1>0, <2>1, <2>2, <3>2, <3>3, <3>4 DEF OneHolder
  <2>4. CASE b \notin {c, d} BY <1>0, <2>4 DEF RowStep, OneHolder, atRow
  <2> QED BY <2>3, <2>4
<1> QED BY <1>0, <1>1, <1>2, <1>3, <1>4, <1>5 DEF BatchInv

-----------------------------------------------------------------------------
(* The book of a call *)

LEMMA LedgerMoves ==
    ASSUME BatchInv, NEW b \in Bulks, NEW there \in Working, atRow(b) \in Ops, batch' = batch,
           Moves(b, there), told \subseteq told'
    PROVE  LedgerOK(b)'
<1>1. LedgerOK(b) /\ Ops' = Ops BY DEF BatchInv, Ops
<1>2. there \notin {"new", "over"} BY DEF Working, Locking
<1> QED BY <1>1, <1>2 DEF LedgerOK, Moves, atRow

LEMMA LedgerTells ==
    ASSUME BatchInv, NEW b \in Bulks, NEW status \in Answers \ {"none"}, atRow(b) \in Ops,
           batch' = batch, Tells(b, status),
           atRow(b) \in call[b].known => status = "completed"
    PROVE  LedgerOK(b)'
<1>0. Ops' = Ops BY DEF Ops
<1>1. LedgerOK(b) BY DEF BatchInv
<1>2. call[b] \in Calls /\ Typing BY DEF BatchInv, Typing
<1>3. call'[b].place # "over" => call'[b].at \in Ops BY DEF Tells
<1>4. call'[b].place # "new" BY DEF Tells
<1>5. told \subseteq told' BY DEF Tells
<1>6. ASSUME NEW j \in Ops PROVE call'[b].rows[j] = IF j = atRow(b) THEN status ELSE call[b].rows[j]
    BY <1>2 DEF Tells, Calls
<1>7. ASSUME NEW j \in call[b].known
      PROVE  batch[j].needs \subseteq call[b].known /\ call'[b].rows[j] \in {"none", "completed"}
    BY <1>1, <1>2, <1>6 DEF LedgerOK, Typing
<1>8. ASSUME NEW j \in Ops PROVE call'[b].rows[j] = "none" <=> j >= atRow(b) + 1
  <2>1. j \in Nat /\ atRow(b) \in Nat BY DEF Ops
  <2>2. call[b].rows[j] = "none" <=> j >= atRow(b) BY <1>1 DEF LedgerOK
  <2> QED BY <1>6, <2>1, <2>2
<1>9. ASSUME NEW j \in Ops, call'[b].rows[j] = "completed" PROVE j \in told'
    BY <1>1, <1>6, <1>9 DEF LedgerOK, Tells
<1>10. call'[b].known = call[b].known /\ call'[b].at = atRow(b) + 1 /\ call[b].known \subseteq told'
    BY <1>1, <1>5 DEF LedgerOK, Tells
<1> QED BY <1>0, <1>3, <1>4, <1>7, <1>8, <1>9, <1>10 DEF LedgerOK, atRow

LEMMA PlaceTells ==
    ASSUME NEW b \in Bulks, NEW status, Tells(b, status)
    PROVE  PlaceOK(b)' /\ call'[b].place \notin Working
BY DEF PlaceOK, Tells, Working, Locking

\* A row this call had been told of is settled: it is not refused and not worked on.
LEMMA KnownIsSettled ==
    ASSUME BatchInv, NEW b \in Bulks, atRow(b) \in Ops, atRow(b) \in call[b].known
    PROVE  /\ receiptOf[atRow(b)] = "success"
           /\ batch[atRow(b)].action = "move" => atRow(b) \in confirmed
           /\ batch[atRow(b)].needs \subseteq Good(b)
<1> DEFINE i == atRow(b)
<1>1. LedgerOK(b) /\ RowOK(i) /\ Typing BY DEF BatchInv
<1>2. i \in told BY <1>1 DEF LedgerOK
<1>3. batch[i].needs \subseteq call[b].known BY <1>1 DEF LedgerOK
<1>4. batch[i].needs \subseteq 1..(i - 1) BY <1>1 DEF Typing
<1>5. ASSUME NEW j \in batch[i].needs PROVE j \in Good(b)
  <2>1. j \in call[b].known /\ j \in 1..(i - 1) BY <1>3, <1>4
  <2>2. j \in Ops /\ ~(j >= i) BY <2>1, <1>1 DEF Ops, Typing
  <2>3. call[b].rows[j] # "none" BY <1>1, <2>2 DEF LedgerOK
  <2> QED BY <1>1, <2>1, <2>2, <2>3 DEF LedgerOK, Good
<1> QED BY <1>1, <1>2, <1>5 DEF RowOK

LEMMA NeedsAreMet ==
    ASSUME BatchInv, NEW i \in Ops, batch[i].needs \subseteq told
    PROVE  batch[i].needs \subseteq landed
<1>1. ASSUME NEW j \in told PROVE j \in landed
  <2>1. j \in Ops /\ RowOK(j) BY DEF BatchInv, Typing
  <2> QED BY <2>1 DEF RowOK
<1> QED BY <1>1

-----------------------------------------------------------------------------
(* One lemma per action *)

\* A row is skipped: nothing is known of it.
LEMMA SkipStep ==
    ASSUME BatchInv, NEW b \in Bulks, Skip(b)
    PROVE  BatchInv'
<1> DEFINE i == atRow(b)
<1>1. Typing /\ LedgerOK(b) /\ i \in Ops BY DEF BatchInv, Skip, LedgerOK
<1>2. Tells(b, "skipped") BY <1>1, TellsIt DEF Skip, Answers
<1>3. UNCHANGED <<batch, confluence, receiptOf, confirmed, handle, requested>> BY DEF Skip
<1>4. told' = told BY <1>2 DEF Tells
<1>5. Typing' BY <1>1, <1>2, <1>3, <1>4 DEF Typing, Tells, confluence, Ops, Calls
<1>6. i \notin call[b].known BY <1>1, KnownIsSettled DEF Skip, atRow
<1>7. LedgerOK(b)' BY <1>1, <1>2, <1>3, <1>6, LedgerTells DEF Answers
<1>8. PlaceOK(b)' /\ call'[b].place \notin Working BY <1>2, PlaceTells
<1>9. RowStep(b) BY <1>2, <1>3, <1>4 DEF RowStep, Tells, confluence
<1>10. KeepsApart(b) BY <1>3, <1>8 DEF KeepsApart, Working, confluence
<1>11. ASSUME NEW j \in Ops, j = i PROVE RowOK(j)'
    BY <1>3, <1>4 DEF BatchInv, RowOK, confluence
<1> QED BY <1>1, <1>5, <1>7, <1>8, <1>9, <1>10, <1>11, RowStepPreserves

LEMMA BeginBatchStep ==
    ASSUME BatchInv, NEW b \in Bulks, BeginBatch(b)
    PROVE  BatchInv'
<1> DEFINE c == [call[b] EXCEPT !.place = "next", !.known = told]
<1>1. Typing /\ LedgerOK(b) /\ OneHolder /\ MarkersOK /\ call[b] \in Calls BY DEF BatchInv, Typing
<1>2. UNCHANGED <<batch, confluence, receiptOf, confirmed, handle, told, requested>>
      /\ call' = [call EXCEPT ![b] = c]
    BY DEF BeginBatch
<1>3. told \subseteq Nat BY <1>1 DEF Typing, Ops
<1>4. /\ c \in Calls /\ c.place = "next" /\ c.at = atRow(b) /\ c.known = told
      /\ c.rows = call[b].rows
    BY <1>1, <1>3 DEF Calls, Places, atRow
<1> HIDE DEF c
<1>5. call' \in [Bulks -> Calls] /\ call'[b] = c /\ \A d \in Bulks : d # b => call'[d] = call[d]
    BY <1>1, <1>2, <1>4 DEF Typing
<1>6. Ops' = Ops BY <1>2 DEF Ops
<1>7. Typing' BY <1>1, <1>2, <1>5, <1>6 DEF Typing, confluence, Calls
<1>8. \A j \in Ops : RowOK(j)' BY <1>2 DEF BatchInv, RowOK, confluence
<1>9. MarkersOK' BY <1>1, <1>2, <1>6 DEF MarkersOK, confluence
<1>10. ASSUME NEW d \in Bulks PROVE LedgerOK(d)' /\ PlaceOK(d)'
  <2>1. LedgerOK(d) /\ PlaceOK(d) BY DEF BatchInv
  <2>2. CASE d # b BY <1>2, <1>5, <1>6, <2>1, <2>2 DEF LedgerOK, PlaceOK, atRow, confluence
  <2>3. CASE d = b
    <3>1. atRow(b) = 1 /\ 1 \in Ops BY <1>1 DEF LedgerOK, BeginBatch
    <3>2. \A j \in told : batch[j].needs \subseteq told BY DEF BatchInv, RowOK, Typing
    <3>3. \A j \in Ops : call[b].rows[j] = "none" BY <1>1, <3>1 DEF LedgerOK, Ops
    <3>4. \A j \in told : call[b].rows[j] = "none" BY <1>1, <3>3 DEF Typing
    <3>5. PlaceOK(b)' BY <1>4, <1>5 DEF PlaceOK, Working, Locking
    <3>6. LedgerOK(b)'
        BY <1>1, <1>2, <1>4, <1>5, <1>6, <3>1, <3>2, <3>3, <3>4 DEF LedgerOK, atRow
    <3> QED BY <2>3, <3>5, <3>6
  <2> QED BY <2>2, <2>3
<1>11. OneHolder' BY <1>1, <1>4, <1>5 DEF OneHolder, atRow, Locking
<1> QED BY <1>6, <1>7, <1>8, <1>9, <1>10, <1>11 DEF BatchInv

\* A step that leaves the row alone and goes on with it.
LEMMA Goes ==
    ASSUME BatchInv, NEW b \in Bulks, NEW there \in Working, atRow(b) \in Ops, Moves(b, there),
           RowStep(b), KeepsApart(b), Typing', NEW i \in Ops, i = atRow(b), RowOK(i)',
           batch[i].needs \subseteq told,
           there \in {"checking", "sending", "waiting", "reconciling"} => receiptOf'[i] = "pending",
           there \in {"checking", "sending"} => i \notin landed \cup out',
           there = "cleaning" => receiptOf'[i] = "committed",
           there = "verifying" => receiptOf'[i] = "success" /\ batch[i].action = "move"
    PROVE  BatchInv'
<1>1. batch' = batch /\ told \subseteq told' /\ landed' = landed BY DEF RowStep
<1>2. LedgerOK(b)' BY <1>1, LedgerMoves
<1>3. PlaceOK(b)' BY <1>1 DEF PlaceOK, Moves, atRow
<1> QED BY <1>2, <1>3, RowStepPreserves

\* A step that ends with what is told of the row.
LEMMA Ends ==
    ASSUME BatchInv, NEW b \in Bulks, NEW status \in Answers \ {"none"}, atRow(b) \in Ops,
           Tells(b, status), RowStep(b), Typing', NEW i \in Ops, i = atRow(b), RowOK(i)',
           KeepsApart(b), i \in call[b].known => status = "completed"
    PROVE  BatchInv'
<1>1. batch' = batch BY DEF RowStep
<1>2. LedgerOK(b)' BY <1>1, LedgerTells
<1>3. PlaceOK(b)' BY PlaceTells
<1> QED BY <1>2, <1>3, RowStepPreserves

\* Done, or to be looked at where it went.
LEMMA CompletedStep ==
    ASSUME BatchInv, NEW b \in Bulks, atRow(b) \in Ops, Completed(b), batch' = batch,
           UNCHANGED <<editions, landed, out, requested, reply, handle, confirmed>>,
           batch[atRow(b)].needs \subseteq told, atRow(b) \in landed,
           receiptOf' = [receiptOf EXCEPT ![atRow(b)] = "success"],
           call[b].place \in Locking \/ receiptOf[atRow(b)] = "success"
    PROVE  BatchInv'
<1> DEFINE i == atRow(b)
<1>1. Typing /\ LedgerOK(b) /\ RowOK(i) /\ Ops' = Ops BY DEF BatchInv, Ops
<1>2. receiptOf'[i] = "success" /\ \A j \in Ops : j # i => receiptOf'[j] = receiptOf[j]
    BY <1>1 DEF Typing
<1>3. receiptOf' \in [Ops -> {"none", "pending", "committed", "success"}] BY <1>1 DEF Typing
<1>4. ASSUME call'[b].place \notin Locking PROVE KeepsApart(b)
  <2>1. CASE call[b].place \in Locking BY <1>4, <2>1, LockedStep
  <2>2. CASE receiptOf[i] = "success" BY <1>2, <1>4, <2>2 DEF KeepsApart
  <2> QED BY <2>1, <2>2
<1>5. CASE batch[i].action = "move"
  <2>1. Moves(b, "verifying") /\ told' = told
      BY <1>1, <1>5, MovesOn DEF Completed, atRow, Places, Working
  <2>2. Typing' BY <1>1, <1>3, <2>1 DEF Typing, Moves, Calls
  <2>3. RowStep(b) BY <1>2, <2>1 DEF RowStep, Moves
  <2>4. KeepsApart(b) BY <1>4, <2>1 DEF Moves, Locking
  <2>5. ASSUME NEW j \in Ops, j = i PROVE RowOK(j)'
      BY <1>1, <1>2, <2>1, <2>5 DEF RowOK
  <2> QED BY <1>2, <1>5, <2>1, <2>2, <2>3, <2>4, <2>5, Goes DEF Working
<1>6. CASE batch[i].action # "move"
  <2>1. Tells(b, "completed")
      BY <1>1, <1>6, TellsIt DEF Completed, atRow, Answers
  <2>2. told' = told \cup {i} BY <2>1 DEF Tells
  <2>3. Typing' BY <1>1, <1>3, <2>1, <2>2 DEF Typing, Tells, Calls
  <2>4. RowStep(b) BY <1>2, <2>1, <2>2 DEF RowStep, Tells
  <2>5. KeepsApart(b) BY <1>4, <2>1 DEF Tells, Locking
  <2>6. ASSUME NEW j \in Ops, j = i PROVE RowOK(j)'
      BY <1>1, <1>2, <1>6, <2>2, <2>6 DEF RowOK
  <2> QED BY <2>1, <2>3, <2>4, <2>5, <2>6, Ends DEF Answers
<1> QED BY <1>5, <1>6

\* The receipt of a row is written.
LEMMA Recorded ==
    ASSUME Typing, NEW i \in Ops, NEW state \in {"none", "pending", "committed", "success"},
           Record(i, state)
    PROVE  /\ receiptOf' \in [Ops -> {"none", "pending", "committed", "success"}]
           /\ receiptOf'[i] = state
           /\ \A j \in Ops : j # i => receiptOf'[j] = receiptOf[j]
BY DEF Typing, Record

LEMMA EnterRowStep ==
    ASSUME BatchInv, NEW b \in Bulks, EnterRow(b)
    PROVE  BatchInv'
<1> DEFINE i == atRow(b)
<1>1. Typing /\ LedgerOK(b) /\ i \in Ops /\ RowOK(i) /\ Ops' = Ops
    BY DEF BatchInv, EnterRow, LedgerOK, Ops
<1>2. /\ UNCHANGED <<batch, confluence, confirmed, requested>>
      /\ call[b].place = "next" /\ ~Locked(i)
    BY DEF EnterRow, atRow
<1>3. batch[i].needs \subseteq told
    BY <1>1 DEF EnterRow, atRow, Good, LedgerOK
<1>4. ASSUME receiptOf[i] # "success", NEW c \in Bulks, atRow(c) = i, call[c].place \in Working
      PROVE  FALSE
  <2>1. PlaceOK(c) BY DEF BatchInv
  <2> QED BY <1>2, <1>4, <2>1 DEF PlaceOK, Locked, Working, atRow
<1>5. CASE /\ receiptOf[i] = "success"
           /\ Completed(b) /\ UNCHANGED <<receiptOf, handle>>
  <2>1. receiptOf' = [receiptOf EXCEPT ![i] = "success"] BY <1>1, <1>5 DEF Typing
  <2>2. i \in landed BY <1>1, <1>5 DEF RowOK
  <2> QED BY <1>1, <1>2, <1>3, <1>5, <2>1, <2>2, CompletedStep DEF confluence
<1>6. ASSUME receiptOf[i] # "success" PROVE KeepsApart(b) \/ call'[b].at # i
    BY <1>2, <1>4, <1>6 DEF KeepsApart
<1>7. CASE /\ receiptOf[i] = "committed"
           /\ MoveOn(b, "cleaning") /\ UNCHANGED <<told, receiptOf, handle>>
  <2>1. Moves(b, "cleaning") BY <1>1, <1>7, MovesOn DEF Places, Working, Locking
  <2>2. Typing' BY <1>1, <1>2, <1>7, <2>1 DEF Typing, Moves, Calls, confluence
  <2>3. RowStep(b) BY <1>2, <1>7, <2>1 DEF RowStep, Moves, confluence
  <2>4. KeepsApart(b) BY <1>6, <1>7, <2>1 DEF Moves
  <2>5. ASSUME NEW j \in Ops, j = i PROVE RowOK(j)'
      BY <1>1, <1>2, <1>7, <2>5 DEF RowOK, confluence
  <2> QED BY <1>1, <1>3, <1>7, <2>1, <2>2, <2>3, <2>4, <2>5, Goes DEF Working, Locking
<1>8. CASE /\ receiptOf[i] = "pending" /\ handle[i] = "running"
           /\ Tell(b, "unknown") /\ UNCHANGED <<receiptOf, handle>>
  <2>1. Tells(b, "unknown") BY <1>1, <1>8, TellsIt DEF Answers
  <2>2. told' = told BY <2>1 DEF Tells
  <2>3. Typing' BY <1>1, <1>2, <1>8, <2>1, <2>2 DEF Typing, Tells, Calls, confluence
  <2>4. RowStep(b) BY <1>2, <1>8, <2>1, <2>2 DEF RowStep, Tells, confluence
  <2>5. KeepsApart(b) BY <1>2, <1>4, <1>8, <2>1 DEF KeepsApart, Tells, Locking
  <2>6. i \notin call[b].known BY <1>1, <1>8, KnownIsSettled
  <2>7. ASSUME NEW j \in Ops, j = i PROVE RowOK(j)'
      BY <1>1, <1>2, <1>8, <2>2, <2>7 DEF RowOK, confluence
  <2> QED BY <1>1, <2>1, <2>3, <2>4, <2>5, <2>6, <2>7, Ends DEF Answers
<1>9. CASE /\ receiptOf[i] = "pending" /\ handle[i] = "answered"
           /\ Record(i, "committed") /\ handle' = [handle EXCEPT ![i] = "none"]
           /\ MoveOn(b, "cleaning") /\ UNCHANGED told
  <2>1. Moves(b, "cleaning") BY <1>1, <1>9, MovesOn DEF Places, Working, Locking
  <2>2. /\ receiptOf' \in [Ops -> {"none", "pending", "committed", "success"}]
        /\ receiptOf'[i] = "committed" /\ \A j \in Ops : j # i => receiptOf'[j] = receiptOf[j]
      BY <1>1, <1>9, Recorded
  <2>3. /\ handle' \in [Ops -> {"none", "running", "answered", "broken"}]
        /\ handle'[i] = "none" /\ \A j \in Ops : j # i => handle'[j] = handle[j]
      BY <1>1, <1>9 DEF Typing
  <2>4. Typing' BY <1>1, <1>2, <1>9, <2>1, <2>2, <2>3 DEF Typing, Moves, Calls, confluence
  <2>5. RowStep(b) BY <1>2, <1>9, <2>1, <2>2, <2>3 DEF RowStep, Moves, confluence
  <2>6. KeepsApart(b) BY <1>6, <1>9, <2>1 DEF Moves
  <2>7. ASSUME NEW j \in Ops, j = i PROVE RowOK(j)'
      BY <1>1, <1>2, <1>9, <2>2, <2>3, <2>7 DEF RowOK, confluence
  <2> QED BY <1>1, <1>3, <2>1, <2>2, <2>4, <2>5, <2>6, <2>7, Goes DEF Working, Locking
<1>10. CASE /\ receiptOf[i] = "pending" /\ handle[i] \in {"none", "broken"}
            /\ handle' = [handle EXCEPT ![i] = "none"]
            /\ MoveOn(b, "reconciling") /\ UNCHANGED <<told, receiptOf>>
  <2>1. Moves(b, "reconciling") BY <1>1, <1>10, MovesOn DEF Places, Working, Locking
  <2>2. /\ handle' \in [Ops -> {"none", "running", "answered", "broken"}]
        /\ handle'[i] = "none" /\ \A j \in Ops : j # i => handle'[j] = handle[j]
      BY <1>1, <1>10 DEF Typing
  <2>3. Typing' BY <1>1, <1>2, <1>10, <2>1, <2>2 DEF Typing, Moves, Calls, confluence
  <2>4. RowStep(b) BY <1>2, <1>10, <2>1, <2>2 DEF RowStep, Moves, confluence
  <2>5. KeepsApart(b) BY <1>6, <1>10, <2>1 DEF Moves
  <2>6. ASSUME NEW j \in Ops, j = i PROVE RowOK(j)'
      BY <1>1, <1>2, <1>10, <2>2, <2>6 DEF RowOK, confluence
  <2> QED BY <1>1, <1>3, <1>10, <2>1, <2>3, <2>4, <2>5, <2>6, Goes DEF Working, Locking
<1>11. CASE /\ receiptOf[i] = "none" /\ Record(i, "pending")
            /\ MoveOn(b, "checking") /\ UNCHANGED <<told, handle>>
  <2>1. Moves(b, "checking") BY <1>1, <1>11, MovesOn DEF Places, Working, Locking
  <2>2. /\ receiptOf' \in [Ops -> {"none", "pending", "committed", "success"}]
        /\ receiptOf'[i] = "pending" /\ \A j \in Ops : j # i => receiptOf'[j] = receiptOf[j]
      BY <1>1, <1>11, Recorded
  <2>3. Typing' BY <1>1, <1>2, <1>11, <2>1, <2>2 DEF Typing, Moves, Calls, confluence
  <2>4. RowStep(b) BY <1>2, <1>11, <2>1, <2>2 DEF RowStep, Moves, confluence
  <2>5. KeepsApart(b) BY <1>6, <1>11, <2>1 DEF Moves
  <2>6. ASSUME NEW j \in Ops, j = i PROVE RowOK(j)'
      BY <1>1, <1>2, <1>11, <2>2, <2>6 DEF RowOK, confluence
  <2>7. i \notin landed \cup out' BY <1>1, <1>2, <1>11 DEF RowOK, confluence
  <2> QED BY <1>1, <1>3, <2>1, <2>2, <2>3, <2>4, <2>5, <2>6, <2>7, Goes DEF Working, Locking
<1> QED BY <1>5, <1>7, <1>8, <1>9, <1>10, <1>11 DEF EnterRow, atRow

\* Under its lock a call tells something else than "completed", and the receipt goes to "none"
\* or stays.
LEMMA LockedEnds ==
    ASSUME BatchInv, NEW b \in Bulks, call[b].place \in Locking,
           NEW status \in Answers \ {"none", "completed"}, Tell(b, status),
           UNCHANGED <<batch, confluence, confirmed, requested>>,
           \/ handle' = handle
           \/ \E h \in {"none", "running"} : handle' = [handle EXCEPT ![atRow(b)] = h],
           \/ UNCHANGED receiptOf
           \/ /\ Record(atRow(b), "none") /\ receiptOf[atRow(b)] = "pending"
              /\ atRow(b) \notin landed \cup out
    PROVE  BatchInv'
<1> DEFINE i == atRow(b)
<1>1. Typing /\ LedgerOK(b) /\ PlaceOK(b) /\ Ops' = Ops BY DEF BatchInv, Ops
<1>2. i \in Ops /\ RowOK(i) BY <1>1 DEF BatchInv, LedgerOK, Locking
<1>3. Tells(b, status) /\ told' = told
    BY <1>1, <1>2, TellsIt DEF Tells
<1>4. receiptOf[i] # "success" BY <1>1 DEF PlaceOK, Locking
<1>5. /\ receiptOf' \in [Ops -> {"none", "pending", "committed", "success"}]
      /\ receiptOf'[i] = receiptOf[i] \/ (receiptOf'[i] = "none" /\ i \notin landed \cup out)
      /\ \A j \in Ops : j # i => receiptOf'[j] = receiptOf[j]
    BY <1>1, <1>2, Recorded DEF Typing
<1>6. /\ handle' \in [Ops -> {"none", "running", "answered", "broken"}]
      /\ handle'[i] = "answered" => handle[i] = "answered"
      /\ \A j \in Ops : j # i => handle'[j] = handle[j]
    BY <1>1, <1>2 DEF Typing
<1>7. Typing' BY <1>1, <1>3, <1>5, <1>6 DEF Typing, Tells, Calls, confluence
<1>8. RowStep(b) BY <1>3, <1>5, <1>6 DEF RowStep, Tells, confluence
<1>9. KeepsApart(b) BY <1>3, LockedStep DEF Tells, Locking
<1>10. i \notin call[b].known BY <1>2, <1>4, KnownIsSettled
<1>11. ASSUME NEW j \in Ops, j = i PROVE RowOK(j)'
    BY <1>2, <1>3, <1>4, <1>5, <1>6, <1>11 DEF RowOK, confluence
<1> QED BY <1>2, <1>3, <1>7, <1>8, <1>9, <1>10, <1>11, Ends

\* Under its lock a call finds the change in Confluence.
LEMMA LockedCommits ==
    ASSUME BatchInv, NEW b \in Bulks, call[b].place \in Locking, MoveOn(b, "cleaning"),
           UNCHANGED <<batch, confluence, confirmed, handle, requested, told>>,
           Record(atRow(b), "committed"), receiptOf[atRow(b)] = "pending", atRow(b) \in landed
    PROVE  BatchInv'
<1> DEFINE i == atRow(b)
<1>1. Typing /\ LedgerOK(b) /\ PlaceOK(b) /\ Ops' = Ops BY DEF BatchInv, Ops
<1>2. i \in Ops /\ RowOK(i) BY <1>1 DEF BatchInv, LedgerOK, Locking
<1>3. Moves(b, "cleaning") BY <1>1, MovesOn DEF Places, Working, Locking
<1>4. /\ receiptOf' \in [Ops -> {"none", "pending", "committed", "success"}]
      /\ receiptOf'[i] = "committed" /\ \A j \in Ops : j # i => receiptOf'[j] = receiptOf[j]
    BY <1>1, <1>2, Recorded
<1>5. Typing' BY <1>1, <1>3, <1>4 DEF Typing, Moves, Calls, confluence
<1>6. RowStep(b) BY <1>3, <1>4 DEF RowStep, Moves, confluence
<1>7. KeepsApart(b) BY <1>3, LockedStep DEF Moves
<1>8. batch[i].needs \subseteq told BY <1>1 DEF PlaceOK, Working
<1>9. ASSUME NEW j \in Ops, j = i PROVE RowOK(j)'
    BY <1>2, <1>4, <1>9 DEF RowOK, confluence
<1> QED BY <1>2, <1>3, <1>4, <1>5, <1>6, <1>7, <1>8, <1>9, Goes DEF Working, Locking

LEMMA CheckRowStep ==
    ASSUME BatchInv, NEW b \in Bulks, CheckRow(b)
    PROVE  BatchInv'
<1> DEFINE i == atRow(b)
<1>1. Typing /\ LedgerOK(b) /\ PlaceOK(b) /\ Ops' = Ops BY DEF BatchInv, CheckRow, Ops
<1>2. call[b].place = "checking" /\ UNCHANGED <<batch, confluence, confirmed, handle, requested>>
    BY DEF CheckRow
<1>3. receiptOf[i] = "pending" /\ i \notin landed \cup out /\ batch[i].needs \subseteq told
    BY <1>1, <1>2 DEF PlaceOK, Working, Locking
<1>4. i \in Ops /\ RowOK(i) BY <1>1, <1>2 DEF BatchInv, LedgerOK
<1>5. CASE Allowed(i) /\ MoveOn(b, "sending") /\ UNCHANGED <<told, receiptOf>>
  <2>1. Moves(b, "sending") BY <1>1, <1>5, MovesOn DEF Places, Working, Locking
  <2>2. Typing' BY <1>1, <1>2, <1>5, <2>1 DEF Typing, Moves, Calls, confluence
  <2>3. RowStep(b) BY <1>2, <1>5, <2>1 DEF RowStep, Moves, confluence
  <2>4. KeepsApart(b) BY <1>2, <2>1, LockedStep DEF Moves, Locking
  <2>5. ASSUME NEW j \in Ops, j = i PROVE RowOK(j)'
      BY <1>2, <1>4, <1>5, <2>5 DEF RowOK, confluence
  <2>6. receiptOf'[i] = "pending" /\ i \notin landed \cup out'
      BY <1>2, <1>3, <1>5 DEF confluence
  <2> QED BY <1>3, <1>4, <2>1, <2>2, <2>3, <2>4, <2>5, <2>6, Goes DEF Working, Locking
<1>6. CASE Record(i, "none") /\ \E status \in {"failed", "denied"} : Tell(b, status)
  <2>1. PICK status \in {"failed", "denied"} : Tell(b, status) BY <1>6
  <2> QED BY <1>2, <1>3, <1>6, <2>1, LockedEnds DEF Answers, Locking
<1> QED BY <1>5, <1>6 DEF CheckRow, atRow

LEMMA SendRowStep ==
    ASSUME BatchInv, NEW b \in Bulks, SendRow(b)
    PROVE  BatchInv'
<1> DEFINE i == atRow(b)
<1>1. Typing /\ LedgerOK(b) /\ PlaceOK(b) /\ Ops' = Ops BY DEF BatchInv, SendRow, Ops
<1>2. /\ call[b].place = "sending"
      /\ UNCHANGED <<batch, editions, parent, trashed, landed, receiptOf, confirmed, handle>>
    BY DEF SendRow
<1>3. receiptOf[i] = "pending" /\ i \notin landed \cup out /\ batch[i].needs \subseteq told
    BY <1>1, <1>2 DEF PlaceOK, Working, Locking
<1>4. i \in Ops /\ RowOK(i) BY <1>1, <1>2 DEF BatchInv, LedgerOK
<1>5. CASE /\ out' = out \cup {i} /\ requested' = requested \cup {i}
           /\ reply' = [reply EXCEPT ![i] = "none"]
           /\ MoveOn(b, "waiting") /\ UNCHANGED told
  <2>1. Moves(b, "waiting") BY <1>1, <1>5, MovesOn DEF Places, Working, Locking
  <2>2. /\ reply' \in [Ops -> {"none", "landed", "refused"}]
        /\ reply'[i] = "none" /\ \A j \in Ops : j # i => reply'[j] = reply[j]
      BY <1>1, <1>4, <1>5 DEF Typing
  <2>3. Typing' BY <1>1, <1>2, <1>4, <1>5, <2>1, <2>2 DEF Typing, Moves, Calls
  <2>4. RowStep(b) BY <1>2, <1>5, <2>1, <2>2 DEF RowStep, Moves
  <2>5. KeepsApart(b) BY <1>2, <2>1, LockedStep DEF Moves, Locking
  <2>6. batch[i].needs \subseteq landed BY <1>3, <1>4, NeedsAreMet
  <2>7. ASSUME NEW j \in Ops, j = i PROVE RowOK(j)'
      BY <1>2, <1>3, <1>4, <1>5, <2>2, <2>6, <2>7 DEF RowOK
  <2> QED BY <1>2, <1>3, <1>4, <2>1, <2>3, <2>4, <2>5, <2>7, Goes DEF Working, Locking
<1>6. CASE Tell(b, "unknown") /\ UNCHANGED <<out, reply, requested>>
    BY <1>2, <1>6, LockedEnds DEF Answers, Locking, confluence
<1> QED BY <1>5, <1>6 DEF SendRow, atRow

LEMMA RowAnsweredStep ==
    ASSUME BatchInv, NEW b \in Bulks, RowAnswered(b)
    PROVE  BatchInv'
<1> DEFINE i == atRow(b)
<1>1. Typing /\ LedgerOK(b) /\ PlaceOK(b) BY DEF BatchInv
<1>2. call[b].place = "waiting" /\ UNCHANGED <<batch, confluence, confirmed, handle, requested>>
    BY DEF RowAnswered
<1>3. receiptOf[i] = "pending" BY <1>1, <1>2 DEF PlaceOK
<1>4. i \in Ops /\ RowOK(i) BY <1>1, <1>2 DEF BatchInv, LedgerOK
<1>5. CASE reply[i] = "landed" /\ Record(i, "committed") /\ MoveOn(b, "cleaning") /\ UNCHANGED told
  <2>1. i \in landed BY <1>4, <1>5 DEF RowOK
  <2> QED BY <1>2, <1>3, <1>5, <2>1, LockedCommits DEF Locking
<1>6. CASE /\ reply[i] = "refused" /\ Record(i, "none")
           /\ \E status \in {"failed", "denied"} : Tell(b, status)
  <2>1. PICK status \in {"failed", "denied"} : Tell(b, status) BY <1>6
  <2>2. i \notin landed \cup out BY <1>4, <1>6 DEF RowOK
  <2> QED BY <1>2, <1>3, <1>6, <2>1, <2>2, LockedEnds DEF Answers, Locking
<1> QED BY <1>5, <1>6 DEF RowAnswered, atRow

LEMMA LoseReplyStep ==
    ASSUME BatchInv, NEW b \in Bulks, LoseReply(b)
    PROVE  BatchInv'
BY LockedEnds DEF LoseReply, Answers, Locking, atRow

\* The marker of the row on the next version of its page is the proof.
LEMMA MarkerProves ==
    ASSUME BatchInv, NEW i \in Ops, CarriesMarker(i)
    PROVE  i \in landed
<1>1. Typing /\ MarkersOK BY DEF BatchInv
<1>2. batch[i] \in Operations BY <1>1 DEF Typing, Ops
<1>3. page(i) \in Pages /\ batch[i].version \in Nat BY <1>2 DEF Operations, page
<1>4. editions[page(i)] \in Seq(Nat) BY <1>1, <1>3 DEF Typing
<1>5. batch[i].version + 1 \in 1..Len(editions[page(i)])
    BY <1>3, <1>4 DEF CarriesMarker, version
<1> QED BY <1>1, <1>3, <1>5 DEF MarkersOK, CarriesMarker

LEMMA ReconcileRowStep ==
    ASSUME BatchInv, NEW b \in Bulks, ReconcileRow(b)
    PROVE  BatchInv'
<1> DEFINE i == atRow(b)
<1>1. Typing /\ LedgerOK(b) /\ PlaceOK(b) BY DEF BatchInv
<1>2. call[b].place = "reconciling" /\ UNCHANGED <<batch, confluence, confirmed, handle, requested>>
    BY DEF ReconcileRow
<1>3. receiptOf[i] = "pending" BY <1>1, <1>2 DEF PlaceOK
<1>4. i \in Ops BY <1>1, <1>2 DEF LedgerOK
<1>5. CASE CarriesMarker(i) /\ Record(i, "committed") /\ MoveOn(b, "cleaning") /\ UNCHANGED told
  <2>1. i \in landed BY <1>4, <1>5, MarkerProves
  <2> QED BY <1>2, <1>3, <1>5, <2>1, LockedCommits DEF Locking
<1>6. CASE Tell(b, "unknown") /\ UNCHANGED receiptOf
    BY <1>2, <1>6, LockedEnds DEF Answers, Locking
<1>7. CASE batch[i].action = "update" /\ Tell(b, "denied") /\ UNCHANGED receiptOf
    BY <1>2, <1>7, LockedEnds DEF Answers, Locking
<1> QED BY <1>5, <1>6, <1>7 DEF ReconcileRow, atRow

LEMMA CleanRowStep ==
    ASSUME BatchInv, NEW b \in Bulks, CleanRow(b)
    PROVE  BatchInv'
<1> DEFINE i == atRow(b)
<1>1. Typing /\ LedgerOK(b) /\ PlaceOK(b) BY DEF BatchInv
<1>2. call[b].place = "cleaning" /\ UNCHANGED <<batch, confluence, confirmed, handle, requested>>
    BY DEF CleanRow
<1>3. i \in Ops /\ RowOK(i) BY <1>1, <1>2 DEF BatchInv, LedgerOK
<1>4. receiptOf[i] = "committed" /\ batch[i].needs \subseteq told
    BY <1>1, <1>2 DEF PlaceOK, Working, Locking
<1>5. CASE Record(i, "success") /\ Completed(b)
  <2>1. i \in landed BY <1>3, <1>4 DEF RowOK
  <2> QED BY <1>2, <1>3, <1>4, <1>5, <2>1, CompletedStep DEF Record, Locking, confluence
<1>6. CASE UNCHANGED receiptOf /\ Tell(b, "unknown")
    BY <1>2, <1>6, LockedEnds DEF Answers, Locking
<1> QED BY <1>5, <1>6 DEF CleanRow, atRow

LEMMA VerifyStep ==
    ASSUME BatchInv, NEW b \in Bulks, Verify(b)
    PROVE  BatchInv'
<1> DEFINE i == atRow(b)
<1>1. Typing /\ LedgerOK(b) /\ PlaceOK(b) /\ Ops' = Ops BY DEF BatchInv, Verify, Ops
<1>2. call[b].place = "verifying" /\ UNCHANGED <<batch, confluence, receiptOf, handle, requested>>
    BY DEF Verify
<1>3. i \in Ops /\ RowOK(i) BY <1>1, <1>2 DEF BatchInv, LedgerOK
<1>4. receiptOf[i] = "success" /\ batch[i].needs \subseteq told
    BY <1>1, <1>2 DEF PlaceOK, Working
<1>5. PICK status \in {"completed", "pending"} :
          /\ Tell(b, status)
          /\ confirmed' = confirmed \/ confirmed' = confirmed \cup {i}
          /\ IF status = "completed" THEN i \in confirmed' ELSE i \notin confirmed
    BY DEF Verify, atRow
<1>6. status \in Answers \ {"none"} BY DEF Answers
<1>7. Tells(b, status) BY <1>1, <1>3, <1>5, <1>6, TellsIt
<1>8. /\ told' \subseteq told \cup {i} /\ told \subseteq told'
      /\ i \in told' => i \in told \/ i \in confirmed'
    BY <1>5, <1>7 DEF Tells
<1>9. Typing' BY <1>1, <1>2, <1>3, <1>7, <1>8 DEF Typing, Tells, Calls, confluence
<1>10. RowStep(b) BY <1>2, <1>5, <1>7, <1>8 DEF RowStep, Tells, confluence
<1>11. KeepsApart(b) BY <1>2, <1>7 DEF KeepsApart, Tells, Locking, confluence
<1>12. i \in call[b].known => status = "completed"
  <2>1. CASE batch[i].action = "move" BY <1>3, <1>5, <2>1, KnownIsSettled
  <2>2. CASE batch[i].action # "move" BY <1>1, <1>2, <2>2 DEF PlaceOK
  <2> QED BY <2>1, <2>2
<1>13. ASSUME NEW j \in Ops, j = i PROVE RowOK(j)'
    BY <1>2, <1>3, <1>4, <1>5, <1>8, <1>13 DEF RowOK, confluence
<1> QED BY <1>3, <1>6, <1>7, <1>9, <1>10, <1>11, <1>12, <1>13, Ends

-----------------------------------------------------------------------------
(* Confluence and the world *)

\* Steps in which no call and no receipt moves, and nothing comes on its way.
CallsRest ==
    /\ UNCHANGED <<batch, receiptOf, confirmed, call, told, requested>>
    /\ out' \subseteq out /\ landed' \subseteq landed \cup out

LEMMA WorldStep ==
    ASSUME BatchInv, CallsRest, Typing', MarkersOK', \A i \in Ops : RowOK(i)'
    PROVE  BatchInv'
<1>1. Typing /\ OneHolder /\ Ops' = Ops BY DEF BatchInv, CallsRest, Ops
<1>2. ASSUME NEW b \in Bulks PROVE LedgerOK(b)' /\ PlaceOK(b)'
  <2>1. LedgerOK(b) /\ PlaceOK(b) BY DEF BatchInv
  <2> QED BY <1>1, <2>1 DEF CallsRest, LedgerOK, PlaceOK, atRow
<1>3. OneHolder' BY <1>1 DEF CallsRest, OneHolder, atRow
<1> QED BY <1>1, <1>2, <1>3 DEF BatchInv

LEMMA WorkerEndsStep ==
    ASSUME BatchInv, NEW i \in Ops, WorkerEnds(i)
    PROVE  BatchInv'
<1>1. Typing /\ MarkersOK /\ Ops' = Ops BY DEF BatchInv, WorkerEnds, Ops
<1>2. UNCHANGED <<batch, confluence, receiptOf, confirmed, call, told, requested>>
    BY DEF WorkerEnds
<1>3. PICK h \in {"answered", "broken"} :
          handle' = [handle EXCEPT ![i] = h] /\ (h = "answered" => reply[i] = "landed")
    BY DEF WorkerEnds
<1>4. Typing' BY <1>1, <1>2, <1>3 DEF Typing, Calls, confluence
<1>5. MarkersOK' BY <1>1, <1>2 DEF MarkersOK, confluence
<1>6. ASSUME NEW j \in Ops PROVE RowOK(j)'
  <2>1. RowOK(j) BY DEF BatchInv
  <2>2. handle'[j] = IF j = i THEN h ELSE handle[j] BY <1>1, <1>3 DEF Typing
  <2> QED BY <1>2, <1>3, <2>1, <2>2 DEF RowOK, confluence
<1>7. CallsRest BY <1>2 DEF CallsRest, confluence
<1> QED BY <1>4, <1>5, <1>6, <1>7, WorldStep

LEMMA LandStep ==
    ASSUME BatchInv, NEW i \in Ops, Land(i)
    PROVE  BatchInv'
<1>1. Typing /\ MarkersOK /\ Ops' = Ops BY DEF BatchInv, Land, Ops
<1>2. /\ UNCHANGED <<batch, receiptOf, confirmed, handle, call, told, requested>>
      /\ i \in out /\ out' = out \ {i} /\ landed' = landed \cup {i}
      /\ reply' = [reply EXCEPT ![i] = "landed"]
    BY DEF Land
<1>3. page(i) \in Pages /\ i \in Nat
  <2>1. batch[i] \in Operations BY <1>1 DEF Typing, Ops
  <2> QED BY <2>1 DEF Operations, page, Ops
<1>4. \/ editions' = editions
      \/ editions' = [editions EXCEPT ![page(i)] = Append(editions[page(i)], i)]
    BY DEF Land
<1>5. editions' \in [Pages -> Seq(Nat)]
  <2>1. Append(editions[page(i)], i) \in Seq(Nat) BY <1>1, <1>3 DEF Typing
  <2> QED BY <1>1, <1>4, <2>1 DEF Typing
<1>6. Typing' BY <1>1, <1>2, <1>5 DEF Typing, Calls
<1>7. MarkersOK'
  <2> SUFFICES ASSUME NEW p \in Pages, NEW v \in 1..Len(editions'[p]), editions'[p][v] \in Ops
               PROVE  editions'[p][v] \in landed'
      BY <1>1 DEF MarkersOK
  <2>1. CASE editions'[p] = editions[p] BY <1>1, <1>2, <2>1 DEF MarkersOK
  <2>2. CASE editions'[p] = Append(editions[p], i)
    <3>1. editions[p] \in Seq(Nat) BY <1>1 DEF Typing
    <3>2. CASE v \in 1..Len(editions[p])
      <4>1. editions'[p][v] = editions[p][v] BY <2>2, <3>1, <3>2
      <4> QED BY <1>1, <1>2, <3>2, <4>1 DEF MarkersOK
    <3>3. CASE v \notin 1..Len(editions[p])
      <4>1. editions'[p][v] = i BY <2>2, <3>1, <3>3, <1>3
      <4> QED BY <1>2, <4>1
    <3> QED BY <3>2, <3>3
  <2> QED BY <1>1, <1>3, <1>4, <2>1, <2>2 DEF Typing
<1>8. ASSUME NEW j \in Ops PROVE RowOK(j)'
  <2>1. RowOK(j) /\ RowOK(i) BY DEF BatchInv
  <2>2. reply'[j] = IF j = i THEN "landed" ELSE reply[j] BY <1>1, <1>2 DEF Typing
  <2> QED BY <1>2, <2>1, <2>2 DEF RowOK
<1>9. CallsRest BY <1>2 DEF CallsRest
<1> QED BY <1>6, <1>7, <1>8, <1>9, WorldStep

LEMMA RefuseStep ==
    ASSUME BatchInv, NEW i \in Ops, Refuse(i)
    PROVE  BatchInv'
<1>1. Typing /\ MarkersOK /\ Ops' = Ops BY DEF BatchInv, Refuse, Ops
<1>2. /\ UNCHANGED <<batch, editions, landed, receiptOf, confirmed, handle, call, told, requested>>
      /\ i \in out /\ out' = out \ {i} /\ reply' = [reply EXCEPT ![i] = "refused"]
    BY DEF Refuse
<1>3. Typing' BY <1>1, <1>2 DEF Typing, Calls
<1>4. MarkersOK' BY <1>1, <1>2 DEF MarkersOK
<1>5. ASSUME NEW j \in Ops PROVE RowOK(j)'
  <2>1. RowOK(j) /\ RowOK(i) BY DEF BatchInv
  <2>2. reply'[j] = IF j = i THEN "refused" ELSE reply[j] BY <1>1, <1>2 DEF Typing
  <2> QED BY <1>2, <2>1, <2>2 DEF RowOK
<1>6. CallsRest BY <1>2 DEF CallsRest
<1> QED BY <1>3, <1>4, <1>5, <1>6, WorldStep

LEMMA OthersEditStep ==
    ASSUME BatchInv, NEW p \in Pages, OthersEdit(p)
    PROVE  BatchInv'
<1>1. Typing /\ MarkersOK /\ Ops' = Ops BY DEF BatchInv, OthersEdit, Ops
<1>2. /\ UNCHANGED <<batch, out, reply, landed, receiptOf, confirmed, handle, call, told,
                     requested>>
      /\ editions' = [editions EXCEPT ![p] = Append(editions[p], 0)]
    BY DEF OthersEdit
<1>3. Typing' BY <1>1, <1>2 DEF Typing, Calls
<1>4. MarkersOK'
  <2> SUFFICES ASSUME NEW q \in Pages, NEW v \in 1..Len(editions'[q]), editions'[q][v] \in Ops
               PROVE  editions'[q][v] \in landed
      BY <1>1, <1>2 DEF MarkersOK
  <2>1. CASE q # p BY <1>1, <1>2, <2>1 DEF MarkersOK, Typing
  <2>2. CASE q = p
    <3>1. editions[p] \in Seq(Nat) /\ editions'[p] = Append(editions[p], 0)
        BY <1>1, <1>2 DEF Typing
    <3>2. v \in 1..Len(editions[p])
      <4>1. SUFFICES ASSUME v \notin 1..Len(editions[p]) PROVE FALSE OBVIOUS
      <4>2. editions'[p][v] = 0 BY <2>2, <3>1, <4>1
      <4> QED BY <2>2, <4>2 DEF Ops
    <3>3. editions'[p][v] = editions[p][v] BY <3>1, <3>2
    <3> QED BY <1>1, <2>2, <3>2, <3>3 DEF MarkersOK
  <2> QED BY <2>1, <2>2
<1>5. \A j \in Ops : RowOK(j)' BY <1>2 DEF BatchInv, RowOK
<1>6. CallsRest BY <1>2 DEF CallsRest
<1> QED BY <1>3, <1>4, <1>5, <1>6, WorldStep

\* Receipts survive a restart; what the calls were about does not.
LEMMA RestartedStep ==
    ASSUME BatchInv, Restarted
    PROVE  BatchInv'
<1>1. Typing /\ MarkersOK /\ Ops' = Ops BY DEF BatchInv, Restarted, Ops
<1>2. /\ UNCHANGED <<batch, confluence, receiptOf, confirmed, told, requested>>
      /\ call' = [b \in Bulks |-> Stopped(call[b])] /\ handle' = [i \in Ops |-> "none"]
    BY DEF Restarted
<1>3. ASSUME NEW b \in Bulks
      PROVE  /\ call'[b] \in Calls /\ call'[b].at = atRow(b) /\ call'[b].known = call[b].known
             /\ call'[b].rows = call[b].rows /\ call'[b].place \in {"new", "over"}
             /\ call'[b].place = "new" => call[b].place = "new"
  <2>1. call[b] \in Calls /\ call'[b] = Stopped(call[b]) BY <1>1, <1>2 DEF Typing
  <2> QED BY <2>1 DEF Stopped, Calls, Places, atRow
<1>4. Typing'
  <2>1. call' \in [Bulks -> Calls] BY <1>2, <1>3
  <2> QED BY <1>1, <1>2, <2>1 DEF Typing, Calls, confluence
<1>5. MarkersOK' BY <1>1, <1>2 DEF MarkersOK, confluence
<1>6. \A j \in Ops : RowOK(j)' BY <1>2 DEF BatchInv, RowOK, confluence
<1>7. ASSUME NEW b \in Bulks PROVE LedgerOK(b)' /\ PlaceOK(b)'
  <2>1. LedgerOK(b) BY DEF BatchInv
  <2>2. LedgerOK(b)' BY <1>1, <1>2, <1>3, <2>1 DEF LedgerOK, atRow
  <2>3. PlaceOK(b)' BY <1>3 DEF PlaceOK, Working, Locking
  <2> QED BY <2>2, <2>3
<1>8. OneHolder' BY <1>3 DEF OneHolder, Locking
<1> QED BY <1>1, <1>4, <1>5, <1>6, <1>7, <1>8 DEF BatchInv

LEMMA BatchInit_Inv ==
    ASSUME BatchInit
    PROVE  BatchInv
<1>1. PICK plan \in Batches :
        /\ batch = plan.ops /\ parent = plan.parent /\ trashed = plan.trashed
        /\ editions = [p \in Pages |-> <<0>>]
        /\ out = {} /\ landed = {} /\ confirmed = {} /\ told = {} /\ requested = {}
        /\ reply = [i \in DOMAIN plan.ops |-> "none"]
        /\ receiptOf = [i \in DOMAIN plan.ops |-> "none"]
        /\ handle = [i \in DOMAIN plan.ops |-> "none"]
        /\ call = [b \in Bulks |-> [place |-> "new", at |-> 1, known |-> {},
                                    rows |-> [i \in DOMAIN plan.ops |-> "none"]]]
    BY DEF BatchInit
<1>2. /\ batch \in Seq(Operations) /\ batch # <<>>
      /\ \A i \in DOMAIN batch : batch[i].needs \subseteq 1..(i - 1)
    BY <1>1, BatchAssumption
<1>3. DOMAIN plan.ops = Ops BY <1>1, <1>2 DEF Ops
<1>4. 1 \in Ops BY <1>2 DEF Ops
<1>5. \A b \in Bulks : call[b] = [place |-> "new", at |-> 1, known |-> {},
                                  rows |-> [i \in Ops |-> "none"]]
    BY <1>1, <1>3
<1>6. Typing
  <2>1. [place |-> "new", at |-> 1, known |-> {}, rows |-> [i \in Ops |-> "none"]] \in Calls
      BY DEF Calls, Places, Answers
  <2>2. call \in [Bulks -> Calls] BY <1>1, <1>3, <2>1
  <2>3. editions \in [Pages -> Seq(Nat)] BY <1>1
  <2> QED BY <1>1, <1>2, <1>3, <2>2, <2>3 DEF Typing
<1>7. \A i \in Ops : RowOK(i) BY <1>1, <1>3 DEF RowOK
<1>8. MarkersOK BY <1>1 DEF MarkersOK, Ops
<1>9. ASSUME NEW b \in Bulks PROVE LedgerOK(b) /\ PlaceOK(b)
    BY <1>1, <1>4, <1>5 DEF LedgerOK, PlaceOK, atRow, Working, Locking, Ops
<1>10. OneHolder BY <1>5 DEF OneHolder, Locking
<1> QED BY <1>6, <1>7, <1>8, <1>9, <1>10 DEF BatchInv

LEMMA BatchStep ==
    ASSUME BatchInv, [BatchNext]_batchVars
    PROVE  BatchInv'
<1>1. CASE \E b \in Bulks :
              \/ BeginBatch(b) \/ Skip(b) \/ EnterRow(b) \/ CheckRow(b) \/ SendRow(b)
              \/ RowAnswered(b) \/ LoseReply(b) \/ ReconcileRow(b) \/ CleanRow(b) \/ Verify(b)
    BY <1>1, BeginBatchStep, SkipStep, EnterRowStep, CheckRowStep, SendRowStep, RowAnsweredStep,
       LoseReplyStep, ReconcileRowStep, CleanRowStep, VerifyStep
<1>2. CASE \E i \in Ops : WorkerEnds(i) \/ Land(i) \/ Refuse(i)
    BY <1>2, WorkerEndsStep, LandStep, RefuseStep
<1>3. CASE \E p \in Pages : OthersEdit(p) BY <1>3, OthersEditStep
<1>4. CASE Restarted BY <1>4, RestartedStep
<1>5. CASE UNCHANGED batchVars
  <2>1. Ops' = Ops /\ CallsRest BY <1>5 DEF batchVars, confluence, Ops, CallsRest
  <2>2. Typing' /\ MarkersOK' BY <1>5, <2>1
        DEF BatchInv, Typing, MarkersOK, Calls, batchVars, confluence
  <2>3. \A i \in Ops : RowOK(i)' BY <1>5 DEF BatchInv, RowOK, batchVars, confluence
  <2> QED BY <2>1, <2>2, <2>3, WorldStep
<1> QED BY <1>1, <1>2, <1>3, <1>4, <1>5 DEF BatchNext

(* The invariant holds in every state of a batch, for any batches, calls and pages. *)
THEOREM BatchInvariant == BatchSpec => []BatchInv
<1>1. BatchInit => BatchInv BY BatchInit_Inv
<1>2. BatchInv /\ [BatchNext]_batchVars => BatchInv' BY BatchStep
<1> QED BY <1>1, <1>2, PTL DEF BatchSpec

-----------------------------------------------------------------------------
(* Theorems *)

(* A row is sent to Confluence only after everything it depends on has taken effect there:   *)
(* bulk skips a row unless its own call was told of all it needs, and what is told is there. *)
THEOREM NeedsLandFirst == BatchSpec => []OrderIsKept
<1>1. BatchInv => OrderIsKept BY DEF BatchInv, Typing, RowOK, OrderIsKept
<1> QED BY <1>1, BatchInvariant, PTL

(* What one call told completed, no call that begins later tells anything else of: the       *)
(* receipt of the row and, of a move, that of its verification answer it without a new look. *)
THEOREM CompletedStaysCompleted == BatchSpec => []SuccessIsKept
<1>1. BatchInv => SuccessIsKept BY DEF BatchInv, LedgerOK, SuccessIsKept
<1> QED BY <1>1, BatchInvariant, PTL

\* What a call does to its row: it goes on with it, or tells something of it.
LEMMA ToldOrNot ==
    ASSUME NEW c \in Bulks,
           \/ Skip(c) \/ EnterRow(c) \/ CheckRow(c) \/ SendRow(c) \/ RowAnswered(c)
           \/ LoseReply(c) \/ ReconcileRow(c) \/ CleanRow(c) \/ Verify(c)
    PROVE  \/ \E there \in Places : MoveOn(c, there)
           \/ \E status \in Answers \ {"failed"} : Tell(c, status)
           \/ /\ \/ call[c].place = "checking"
                 \/ call[c].place = "waiting" /\ reply[atRow(c)] = "refused"
              /\ Tell(c, "failed")
<1> USE DEF Answers, Places, Working, Locking
<1>1. CASE Skip(c) BY <1>1 DEF Skip
<1>2. CASE EnterRow(c) BY <1>2 DEF EnterRow, Completed
<1>3. CASE CheckRow(c) BY <1>3 DEF CheckRow
<1>4. CASE SendRow(c) BY <1>4 DEF SendRow
<1>5. CASE RowAnswered(c) BY <1>5 DEF RowAnswered, atRow
<1>6. CASE LoseReply(c) BY <1>6 DEF LoseReply
<1>7. CASE ReconcileRow(c) BY <1>7 DEF ReconcileRow
<1>8. CASE CleanRow(c) BY <1>8 DEF CleanRow, Completed
<1>9. CASE Verify(c) BY <1>9 DEF Verify
<1> QED BY <1>1, <1>2, <1>3, <1>4, <1>5, <1>6, <1>7, <1>8, <1>9

\* A call tells a row failed only where its request was not sent or was refused.
LEMMA ToldFailed ==
    ASSUME BatchInv, BatchNext, NEW b \in Bulks, NEW i \in Ops, call'[b].rows[i] = "failed",
           call[b].rows[i] # "failed"
    PROVE  i \notin landed \cup out
<1>1. Typing /\ LedgerOK(b) /\ PlaceOK(b) /\ RowOK(i) BY DEF BatchInv
<1>2. PICK c \in Bulks : \/ BeginBatch(c) \/ Skip(c) \/ EnterRow(c) \/ CheckRow(c) \/ SendRow(c)
                         \/ RowAnswered(c) \/ LoseReply(c) \/ ReconcileRow(c) \/ CleanRow(c)
                         \/ Verify(c)
  <2>1. CASE Restarted
    <3>1. call'[b] = Stopped(call[b]) /\ call[b] \in Calls BY <1>1, <2>1 DEF Restarted, Typing
    <3> QED BY <3>1 DEF Stopped, Calls
  <2>2. CASE call' = call BY <2>2
  <2> QED BY <2>1, <2>2 DEF BatchNext, WorkerEnds, Land, Refuse, OthersEdit
<1>3. call[c].place # "over"
    BY <1>2 DEF BeginBatch, Skip, EnterRow, CheckRow, SendRow, RowAnswered, LoseReply, ReconcileRow,
                CleanRow, Verify
<1>4. atRow(c) \in Ops BY <1>3 DEF BatchInv, LedgerOK
<1>5. ASSUME NEW there \in Places PROVE ~MoveOn(c, there)
  <2> SUFFICES ASSUME MoveOn(c, there) PROVE FALSE OBVIOUS
  <2>1. Moves(c, there) BY <1>1, MovesOn
  <2> QED BY <2>1 DEF Moves
<1>6. ~BeginBatch(c)
  <2> SUFFICES ASSUME BeginBatch(c) PROVE FALSE OBVIOUS
  <2> DEFINE k == [call[c] EXCEPT !.place = "next", !.known = told]
  <2>1. call' = [call EXCEPT ![c] = k] BY DEF BeginBatch
  <2>2. call[c] \in Calls BY <1>1 DEF Typing
  <2>3. k.rows = call[c].rows BY <2>2 DEF Calls
  <2> HIDE DEF k
  <2> QED BY <1>1, <2>1, <2>3 DEF Typing
<1>7. ASSUME NEW status \in Answers, Tell(c, status)
      PROVE  c = b /\ i = atRow(b) /\ status = "failed"
  <2>1. Tells(c, status) BY <1>1, <1>4, <1>7, TellsIt
  <2>2. call[c] \in Calls BY <1>1 DEF Typing
  <2> QED BY <2>1, <2>2 DEF Tells, Calls
<1>8. /\ call[c].place = "checking" \/ (call[c].place = "waiting" /\ reply[atRow(c)] = "refused")
      /\ Tell(c, "failed")
    BY <1>2, <1>5, <1>6, <1>7, ToldOrNot
<1>9. c = b /\ i = atRow(b) BY <1>7, <1>8 DEF Answers
<1> QED BY <1>1, <1>8, <1>9 DEF PlaceOK, RowOK

(* A row told failed has not taken effect and is not on its way: only a failure before the   *)
(* request, or a refusal of it, is told so.                                                  *)
THEOREM FailedWasNotWritten == BatchSpec => FailedMeansUnwritten
<1>1. ASSUME BatchInv, [BatchNext]_batchVars
      PROVE  [\A b \in Bulks, i \in Ops :
                 call'[b].rows[i] = "failed" /\ call[b].rows[i] # "failed"
                   => i \notin landed \cup out]_call
    BY <1>1, ToldFailed DEF batchVars
<1> QED BY <1>1, BatchInvariant, PTL DEF BatchSpec, FailedMeansUnwritten

===============================================================================
