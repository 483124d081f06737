---------------------------- MODULE BrowserProofs ----------------------------
(***************************************************************************)
(* Theorems about what the browser keeps: the bulk creation run (BulkRun)  *)
(* and the display cache (CacheMemo).                                      *)
(*                                                                         *)
(* A row of a bulk run makes one ticket because whatever was begun and has *)
(* no ticket yet belongs to the one run the draft holds (OneRun), because  *)
(* a row is sent again only while the receipt of its first attempt lives   *)
(* (HandlerOK), and because a row is called failed, and so may get a new   *)
(* id, only when nothing was begun of it (AnswerOK, Clean).                *)
(*                                                                         *)
(* The cache shows nothing older than a write because the write's answer   *)
(* takes the row away, and a row made later has another revision: an       *)
(* answer that finds the row that asked for it was asked after the write   *)
(* (RequestOK).                                                            *)
(***************************************************************************)
EXTENDS BulkRun, CacheMemo, TLAPS

-----------------------------------------------------------------------------
(* BulkRun: the invariant *)

States == {"unset", "null", "ok", "failed"}
Replies == {"none", "ok", "failed", "unknown"}
Cuts == UNION {[s -> Nat] : s \in SUBSET Rows}
Marks == UNION {[s -> States] : s \in SUBSET Rows}
RunRecord == [id : RunIds, rows : SUBSET Rows, chunk : Cuts, state : Marks,
              attempted : SUBSET Nat, first : Nat]
HandlerRecord == [n : Nat, id : RunIds, left : SUBSET Rows, valid : BOOLEAN, day : Nat]
ReceiptRecord == [state : {"none", "open", "closed"}, day : Nat]

HasReceipt(id, r) == receipts[id][r].state # "none"
Live(r) == tickets[r] = 1 \/ \E id \in RunIds : <<id, r>> \in undecided
Clean(id, r) == r \notin Begun(id) /\ tickets[r] = 0

JiraOK ==
    /\ receipts \in [RunIds -> [Rows -> ReceiptRecord]]
    /\ undecided \subseteq RunIds \X Rows
    /\ tickets \in [Rows -> {0, 1}]
    /\ day \in Nat /\ day # 0
    /\ \A id \in RunIds, r \in Rows :
         /\ receipts[id][r].state = "closed" => tickets[r] = 1
         /\ <<id, r>> \in undecided => receipts[id][r].state = "open" /\ tickets[r] = 0

\* What is being served was asked within the window: no receipt of it is lost.
HandlerOK(h) ==
    /\ h \in HandlerRecord /\ h.n \in 1..sent
    /\ h.day < day + Window
    /\ \A r \in h.left :
         /\ Live(r) => HasReceipt(h.id, r)
         /\ HasReceipt(h.id, r) => h.day < receipts[h.id][r].day + Window

ServerOK ==
    /\ sent \in Nat
    /\ \A h \in handlers : HandlerOK(h)
    /\ \A g, h \in handlers : g.n = h.n => g = h

RunTyped(x) == x \in RunRecord /\ x.chunk \in [x.rows -> Nat] /\ x.state \in [x.rows -> States]

RowOK(x, r) ==
    /\ x.state[r] = "ok" => tickets[r] = 1
    /\ x.state[r] \in {"unset", "failed"} => Clean(x.id, r)
    /\ x.state[r] = "null" => x.chunk[r] \in x.attempted
    /\ HasReceipt(x.id, r) => x.first <= receipts[x.id][r].day
    /\ Live(r) /\ ~HasReceipt(x.id, r) => x.first # 0 /\ x.first + Life <= day

\* What was begun is an attempt of this run, or belongs to an earlier one that made the ticket.
RunOK(x) ==
    /\ RunTyped(x)
    /\ x.first <= day /\ (x.attempted # {} => x.first # 0)
    /\ \A id \in RunIds : \A r \in Begun(id) :
         IF id = x.id THEN r \in x.rows /\ x.chunk[r] \in x.attempted
         ELSE tickets[r] = 1 /\ r \notin x.rows
    /\ \A id \in RunIds : id > x.id => Begun(id) = {}
    /\ \A r \in x.rows : RowOK(x, r)

RunsOK == \A x \in {run, draft} : x # NoRun => RunOK(x)
DraftOK == draft = NoRun => \A id \in RunIds : \A r \in Begun(id) : tickets[r] = 1

ChunkOK ==
    /\ chunk \in run.attempted
    /\ \A r \in InChunk(chunk) : run.state[r] \in {"null", "ok"}
    /\ \E r \in InChunk(chunk) : run.state[r] # "ok"
    /\ ~again => doubt = {}

\* Sent for the first time.
Fresh(r) == r \in InChunk(chunk) \ doubt /\ run.state[r] # "ok"

AnswerOK ==
    /\ awaited \in 1..sent
    /\ \/ response = Rejection
       \/ response \in [InChunk(chunk) -> Replies]
    /\ \A r \in InChunk(chunk) : response[r] = "ok" => tickets[r] = 1
    /\ \A h \in handlers : h.n = awaited =>
         /\ h.id = run.id /\ h.left \subseteq InChunk(chunk) /\ response # Rejection
         /\ \A r \in InChunk(chunk) : r \in h.left \/ ~h.valid => response[r] = "none"
    /\ \A r \in Rows : Fresh(r) =>
         /\ \A h \in handlers : h.id = run.id /\ r \in h.left => h.n = awaited
         /\ response[r] \in {"none", "failed", "rejected"} =>
               ~HasReceipt(run.id, r) /\ tickets[r] = 0

AskOK ==
    /\ step \in {"idle", "next", "saving", "sending", "waiting", "storing"}
    /\ chunk \in Nat /\ again \in BOOLEAN /\ awaited \in Nat
    /\ step # "idle" => run # NoRun
    /\ step \in {"sending", "waiting"} => draft = run
    /\ step \in {"saving", "sending", "waiting"} => ChunkOK
    /\ step \in {"saving", "sending"} => \A r \in Rows : Fresh(r) => Clean(run.id, r)
    /\ step = "waiting" => AnswerOK
    /\ step # "waiting" => awaited = 0

BulkInv == JiraOK /\ ServerOK /\ RunsOK /\ DraftOK /\ AskOK

-----------------------------------------------------------------------------
(* BulkRun: lemmas *)

LEMMA BulkNumbers ==
    /\ Window \in Nat /\ Life \in Nat /\ Window < Life
    /\ RunIds \subseteq Nat /\ 1 \in RunIds /\ Chunkings \subseteq [Rows -> Nat]
BY BulkAssumption

LEMMA RunIsARun ==
    \A x \in RunRecord :
        /\ x # NoRun /\ x.id \in RunIds /\ x.rows \subseteq Rows /\ x.chunk \in Cuts
        /\ x.state \in Marks /\ x.attempted \subseteq Nat /\ x.first \in Nat
<1>1. ASSUME NEW x \in RunRecord PROVE x # NoRun
  <2>1. DOMAIN x = {"id", "rows", "chunk", "state", "attempted", "first"} BY DEF RunRecord
  <2>2. DOMAIN NoRun = {} BY DEF NoRun
  <2> QED BY <2>1, <2>2
<1> QED BY <1>1 DEF RunRecord

LEMMA RunMarked ==
    ASSUME NEW x \in RunRecord, NEW s \in Marks, NEW y, y = [x EXCEPT !.state = s]
    PROVE  /\ y \in RunRecord /\ y.id = x.id /\ y.rows = x.rows /\ y.chunk = x.chunk
           /\ y.attempted = x.attempted /\ y.first = x.first /\ y.state = s
BY DEF RunRecord

LEMMA RunAttempts ==
    ASSUME NEW x \in RunRecord, NEW s \in Marks, NEW a \in SUBSET Nat, NEW f \in Nat,
           NEW y, y = [x EXCEPT !.first = f, !.attempted = a, !.state = s]
    PROVE  /\ y \in RunRecord /\ y.id = x.id /\ y.rows = x.rows /\ y.chunk = x.chunk
           /\ y.attempted = a /\ y.first = f /\ y.state = s
BY DEF RunRecord

LEMMA MarksAre == ASSUME NEW rr \in SUBSET Rows, NEW st \in [rr -> States] PROVE st \in Marks
BY DEF Marks

NewlyMade(x, id, rr) ==
    /\ RunTyped(x) /\ x.id = id /\ x.rows = rr
    /\ x.attempted = {} /\ x.first = 0
    /\ \A r \in x.rows : x.state[r] = "unset"

LEMMA NewRun ==
    ASSUME NEW id \in RunIds, NEW rr \in SUBSET Rows, NEW cut \in Chunkings, NEW x,
           x = newBulkRun(id, rr, cut)
    PROVE  NewlyMade(x, id, rr)
<1>1. cut \in [Rows -> Nat] BY BulkNumbers
<1>2. [r \in rr |-> cut[r]] \in [rr -> Nat] /\ [r \in rr |-> cut[r]] \in Cuts BY <1>1 DEF Cuts
<1>3. [r \in rr |-> "unset"] \in [rr -> States] /\ [r \in rr |-> "unset"] \in Marks
  BY DEF Marks, States
<1>4. /\ x \in RunRecord /\ x.id = id /\ x.rows = rr /\ x.chunk = [r \in rr |-> cut[r]]
      /\ x.state = [r \in rr |-> "unset"] /\ x.attempted = {} /\ x.first = 0
  BY <1>2, <1>3 DEF RunRecord, newBulkRun
<1> QED BY <1>2, <1>3, <1>4 DEF RunTyped, NewlyMade

LEMMA HandlerTypes ==
    \A h \in HandlerRecord : /\ h.n \in Nat /\ h.id \in RunIds /\ h.left \subseteq Rows
                             /\ h.valid \in BOOLEAN /\ h.day \in Nat
BY DEF HandlerRecord

LEMMA BegunIs ==
    \A id, r : r \in Begun(id) <=> \/ r \in Rows /\ HasReceipt(id, r)
                                  \/ \E h \in handlers : h.id = id /\ r \in h.left
BY DEF Begun, HasReceipt

LEMMA BegunRows == ASSUME ServerOK, NEW id \in RunIds PROVE Begun(id) \subseteq Rows
<1>1. \A h \in handlers : h.left \subseteq Rows BY HandlerTypes DEF ServerOK, HandlerOK
<1> QED BY <1>1, BegunIs

\* A row that may still get its ticket was begun by the run at hand only.
LEMMA OneRun ==
    ASSUME BulkInv, NEW r, tickets[r] # 1, NEW i \in RunIds, r \in Begun(i)
    PROVE  /\ draft # NoRun
           /\ \A x : x \in {run, draft} /\ x # NoRun => x.id = i
           /\ \A j \in RunIds : r \in Begun(j) => j = i
<1>1. draft # NoRun BY DEF BulkInv, DraftOK
<1>2. ASSUME NEW x \in {run, draft}, x # NoRun, NEW j \in RunIds, r \in Begun(j) PROVE x.id = j
  <2>1. RunOK(x) BY <1>2 DEF BulkInv, RunsOK
  <2> QED BY <1>2, <2>1 DEF RunOK
<1> QED BY <1>1, <1>2

\* A row of a run that the run did not begin.
LEMMA OtherRun ==
    ASSUME NEW x, RunOK(x), NEW r \in x.rows, r \notin Begun(x.id)
    PROVE  \A id \in RunIds : r \notin Begun(id)
BY DEF RunOK

-----------------------------------------------------------------------------
(* BulkRun: what a step of the server keeps *)

\* Nothing is begun, what gets a ticket was begun under a receipt that is kept.
ServerMoves ==
    /\ UNCHANGED <<window, draft, sent, awaited, day>>
    /\ \A id \in RunIds : Begun(id)' \subseteq Begun(id)
    /\ \A id \in RunIds, r \in Rows :
          \/ receipts'[id][r] = receipts[id][r]
          \/ receipts'[id][r].state # "none" /\ receipts'[id][r].day = day
    /\ \A r \in Rows : tickets[r] = 1 => tickets'[r] = 1
    /\ \A r \in Rows : \/ tickets'[r] = tickets[r] /\ (Live(r)' => Live(r))
                       \/ \E id \in RunIds : r \in Begun(id) /\ HasReceipt(id, r)'
    /\ JiraOK'

LEMMA CleanStays ==
    ASSUME BulkInv, ServerMoves, NEW x, x \in {run, draft}, x # NoRun,
           NEW r \in x.rows, Clean(x.id, r)
    PROVE  Clean(x.id, r)'
<1>1. RunOK(x) BY DEF BulkInv, RunsOK
<1>2. x.id \in RunIds /\ r \in Rows BY <1>1, RunIsARun DEF RunOK, RunTyped
<1>3. \A id \in RunIds : r \notin Begun(id) BY <1>1, OtherRun DEF Clean
<1> QED BY <1>2, <1>3 DEF ServerMoves, Clean

LEMMA RunStays ==
    ASSUME BulkInv, ServerMoves, NEW x, x \in {run, draft}, x # NoRun
    PROVE  RunOK(x)'
<1>1. RunOK(x) /\ x \in RunRecord BY DEF BulkInv, RunsOK, RunOK, RunTyped
<1>2. x.id \in RunIds /\ x.rows \subseteq Rows /\ x.first \in Nat BY <1>1, RunIsARun
<1>3. day \in Nat /\ day' = day BY DEF BulkInv, JiraOK, ServerMoves
<1>4. ASSUME NEW r \in x.rows PROVE RowOK(x, r)'
  <2>1. RowOK(x, r) /\ r \in Rows BY <1>1, <1>2 DEF RunOK
  <2>2. x.state[r] = "ok" => tickets'[r] = 1 BY <2>1 DEF RowOK, ServerMoves
  <2>3. x.state[r] \in {"unset", "failed"} => Clean(x.id, r)' BY <2>1, CleanStays DEF RowOK
  <2>4. HasReceipt(x.id, r)' => x.first <= receipts'[x.id][r].day
    BY <1>1, <1>2, <1>3, <2>1 DEF RowOK, RunOK, ServerMoves, HasReceipt
  <2>5. ASSUME Live(r)', ~HasReceipt(x.id, r)' PROVE x.first # 0 /\ x.first + Life <= day'
    <3>1. ~HasReceipt(x.id, r) BY <1>2, <2>1, <2>5 DEF ServerMoves, HasReceipt
    <3>2. CASE Live(r) BY <1>3, <2>1, <3>1, <3>2 DEF RowOK
    <3>3. CASE ~Live(r)
      <4>1. PICK id \in RunIds : r \in Begun(id) /\ HasReceipt(id, r)'
        BY <2>1, <2>5, <3>3 DEF ServerMoves
      <4>2. id # x.id BY <2>5, <4>1
      <4> QED BY <1>1, <4>1, <4>2 DEF RunOK
    <3> QED BY <3>2, <3>3
  <2> QED BY <2>1, <2>2, <2>3, <2>4, <2>5 DEF RowOK
<1>5. ASSUME NEW id \in RunIds, NEW r \in Begun(id)'
      PROVE  IF id = x.id THEN r \in x.rows /\ x.chunk[r] \in x.attempted
             ELSE tickets'[r] = 1 /\ r \notin x.rows
  <2>1. r \in Begun(id) BY <1>5 DEF ServerMoves
  <2>2. r \in Rows BY <2>1, BegunRows DEF BulkInv
  <2> QED BY <1>1, <2>1, <2>2 DEF RunOK, ServerMoves
<1>6. \A id \in RunIds : id > x.id => Begun(id)' = {} BY <1>1 DEF RunOK, ServerMoves
<1>7. RunTyped(x)' BY <1>1 DEF RunOK, RunTyped
<1> QED BY <1>1, <1>3, <1>4, <1>5, <1>6, <1>7 DEF RunOK

\* A handler, or what is left of it.
LEMMA HandlerStays ==
    ASSUME BulkInv, ServerMoves, NEW h \in handlers, NEW g \in HandlerRecord,
           g.n = h.n, g.id = h.id, g.day = h.day, g.left \subseteq h.left
    PROVE  HandlerOK(g)'
<1>1. HandlerOK(h) /\ h \in HandlerRecord BY DEF BulkInv, ServerOK, HandlerOK
<1>2. h.id \in RunIds /\ h.left \subseteq Rows /\ h.day \in Nat BY <1>1, HandlerTypes
<1>3. day \in Nat /\ day' = day /\ sent' = sent /\ Window \in Nat
  BY BulkNumbers DEF BulkInv, JiraOK, ServerMoves
<1>4. ASSUME NEW r \in g.left
      PROVE  /\ Live(r)' => HasReceipt(g.id, r)'
             /\ HasReceipt(g.id, r)' => g.day < receipts'[g.id][r].day + Window
  <2>1. r \in h.left /\ r \in Rows /\ r \in Begun(h.id) BY <1>2, BegunIs
  <2>2. /\ Live(r) => HasReceipt(h.id, r)
        /\ HasReceipt(h.id, r) => h.day < receipts[h.id][r].day + Window
    BY <1>1, <2>1 DEF HandlerOK
  <2>3. HasReceipt(h.id, r) => HasReceipt(h.id, r)' BY <1>2, <2>1 DEF ServerMoves, HasReceipt
  <2>4. Live(r)' => HasReceipt(h.id, r)'
    <3>1. CASE Live(r) BY <2>2, <2>3, <3>1
    <3>2. CASE ~Live(r) /\ Live(r)'
      <4>1. PICK id \in RunIds : r \in Begun(id) /\ HasReceipt(id, r)'
        BY <2>1, <3>2 DEF ServerMoves
      <4>2. tickets[r] # 1 BY <3>2 DEF Live
      <4>3. id = h.id BY <1>2, <2>1, <4>1, <4>2, OneRun
      <4> QED BY <4>1, <4>3
    <3> QED BY <3>1, <3>2
  <2>5. HasReceipt(h.id, r)' => h.day < receipts'[h.id][r].day + Window
    BY <1>1, <1>2, <1>3, <2>1, <2>2 DEF HandlerOK, ServerMoves, HasReceipt
  <2> QED BY <2>4, <2>5
<1> QED BY <1>1, <1>2, <1>3, <1>4 DEF HandlerOK

LEMMA ServerStays ==
    ASSUME BulkInv, ServerMoves, ServerOK', step = "waiting" => AnswerOK'
    PROVE  BulkInv'
<1>1. RunsOK' BY RunStays DEF RunsOK, ServerMoves, window
<1>2. DraftOK'
  <2>1. draft' = draft BY DEF ServerMoves
  <2>2. ASSUME draft = NoRun, NEW id \in RunIds, NEW r \in Begun(id)' PROVE tickets'[r] = 1
    <3>1. r \in Begun(id) BY <2>2 DEF ServerMoves
    <3>2. r \in Rows BY <3>1, BegunRows DEF BulkInv
    <3> QED BY <2>2, <3>1, <3>2 DEF BulkInv, DraftOK, ServerMoves
  <2> QED BY <2>1, <2>2 DEF DraftOK
<1>3. AskOK'
  <2>1. /\ run' = run /\ step' = step /\ chunk' = chunk /\ doubt' = doubt /\ again' = again
        /\ draft' = draft /\ awaited' = awaited
    BY DEF ServerMoves, window
  <2>2. AskOK BY DEF BulkInv
  <2>3. ChunkOK' <=> ChunkOK BY <2>1 DEF ChunkOK, InChunk
  <2>4. ASSUME step \in {"saving", "sending"}, NEW r \in Rows, Fresh(r)' PROVE Clean(run.id, r)'
    <3>1. Fresh(r) BY <2>1, <2>4 DEF Fresh, InChunk
    <3>2. Clean(run.id, r) /\ run # NoRun BY <2>2, <2>4, <3>1 DEF AskOK
    <3>3. r \in run.rows BY <3>1 DEF Fresh, InChunk
    <3>4. PICK x : x = run OBVIOUS
    <3>5. Clean(x.id, r)' BY <3>2, <3>3, <3>4, CleanStays
    <3>6. x.id = run'.id BY <2>1, <3>4
    <3> QED BY <3>5, <3>6 DEF Clean
  <2> QED BY <2>1, <2>2, <2>3, <2>4 DEF AskOK
<1>4. JiraOK' BY DEF ServerMoves
<1> QED BY <1>1, <1>2, <1>3, <1>4 DEF BulkInv

-----------------------------------------------------------------------------
(* BulkRun: the server *)

LEMMA HandlerLeaves ==
    ASSUME NEW h \in HandlerRecord, NEW s \in SUBSET Rows, NEW g, g = [h EXCEPT !.left = s]
    PROVE  /\ g \in HandlerRecord /\ g.n = h.n /\ g.id = h.id /\ g.left = s
           /\ g.valid = h.valid /\ g.day = h.day
BY DEF HandlerRecord

LEMMA HandlerValid ==
    ASSUME NEW h \in HandlerRecord, NEW g, g = [h EXCEPT !.valid = TRUE]
    PROVE  /\ g \in HandlerRecord /\ g.n = h.n /\ g.id = h.id /\ g.left = h.left
           /\ g.valid = TRUE /\ g.day = h.day
BY DEF HandlerRecord

\* One handler goes on, or ends.
LEMMA HandlersStay ==
    ASSUME BulkInv, ServerMoves, NEW h \in handlers, NEW g \in HandlerRecord,
           g.n = h.n, g.id = h.id, g.day = h.day, g.left \subseteq h.left,
           handlers' \subseteq (handlers \ {h}) \cup {g}
    PROVE  ServerOK'
<1>1. ASSUME NEW f \in handlers' PROVE HandlerOK(f)'
  <2>1. CASE f = g BY <2>1, HandlerStays
  <2>2. CASE f \in handlers
    <3>1. f \in HandlerRecord BY <2>2 DEF BulkInv, ServerOK, HandlerOK
    <3> QED BY <2>2, <3>1, HandlerStays
  <2> QED BY <2>1, <2>2
<1>2. \A e, f \in handlers : e.n = f.n => e = f BY DEF BulkInv, ServerOK
<1>3. \A e, f \in handlers' : e.n = f.n => e = f BY <1>2
<1>4. sent' \in Nat BY DEF BulkInv, ServerOK, ServerMoves
<1> QED BY <1>1, <1>3, <1>4 DEF ServerOK

LEMMA BegunShrinks ==
    ASSUME BulkInv, NEW h \in handlers, NEW g, g.id = h.id, g.left \subseteq h.left,
           handlers' \subseteq (handlers \ {h}) \cup {g},
           \A id \in RunIds, r \in Rows :
               HasReceipt(id, r)' => HasReceipt(id, r) \/ (id = h.id /\ r \in h.left)
    PROVE  \A id \in RunIds : Begun(id)' \subseteq Begun(id)
<1> SUFFICES ASSUME NEW id \in RunIds, NEW r \in Begun(id)' PROVE r \in Begun(id) OBVIOUS
<1>1. \/ r \in Rows /\ HasReceipt(id, r)'
      \/ \E f \in handlers' : f.id = id /\ r \in f.left
  BY DEF Begun, HasReceipt
<1>2. CASE r \in Rows /\ HasReceipt(id, r)' BY <1>2, BegunIs
<1>3. CASE \E f \in handlers' : f.id = id /\ r \in f.left BY <1>3, BegunIs
<1> QED BY <1>1, <1>2, <1>3

\* What is known while an answer is awaited.
LEMMA WhileWaiting ==
    ASSUME BulkInv, step = "waiting"
    PROVE  /\ AnswerOK /\ RunOK(run) /\ run \in RunRecord /\ run.id \in RunIds
           /\ InChunk(chunk) \subseteq Rows
           /\ \A r : Fresh(r) => r \in InChunk(chunk) /\ r \in run.rows /\ r \in Rows
<1>1. AnswerOK /\ run # NoRun BY DEF BulkInv, AskOK
<1>2. RunOK(run) BY <1>1 DEF BulkInv, RunsOK
<1>3. run \in RunRecord BY <1>2 DEF RunOK, RunTyped
<1>4. run.id \in RunIds /\ run.rows \subseteq Rows BY <1>3, RunIsARun
<1> QED BY <1>1, <1>2, <1>3, <1>4 DEF InChunk, Fresh

LEMMA ValidateKeeps == ASSUME BulkInv, NEW h \in handlers, Validate(h) PROVE BulkInv'
<1>1. /\ UNCHANGED <<window, draft, jira, day, sent, awaited>> /\ ~h.valid
      /\ \/ Serve(h, [h EXCEPT !.left = {}], Rejection)
         \/ Serve(h, [h EXCEPT !.valid = TRUE], response)
  BY DEF Validate, Serve
<1>2. h \in HandlerRecord /\ h.left \subseteq Rows BY HandlerTypes DEF BulkInv, ServerOK, HandlerOK
<1>3. PICK g \in HandlerRecord :
        /\ g.n = h.n /\ g.id = h.id /\ g.day = h.day /\ g.left \subseteq h.left
        /\ \/ /\ handlers' = handlers \ {h}
              /\ response' = IF h.n = awaited THEN Rejection ELSE response
           \/ /\ handlers' \subseteq (handlers \ {h}) \cup {g}
              /\ response' = response /\ g.valid
  <2>1. CASE Serve(h, [h EXCEPT !.left = {}], Rejection)
    <3> DEFINE g == [h EXCEPT !.left = {}]
    <3>1. /\ g \in HandlerRecord /\ g.n = h.n /\ g.id = h.id /\ g.left = {} /\ g.day = h.day
      BY <1>2, HandlerLeaves
    <3>2. Serve(h, g, Rejection) BY <2>1
    <3> HIDE DEF g
    <3> QED BY <3>1, <3>2 DEF Serve
  <2>2. CASE Serve(h, [h EXCEPT !.valid = TRUE], response)
    <3> DEFINE g == [h EXCEPT !.valid = TRUE]
    <3>1. /\ g \in HandlerRecord /\ g.n = h.n /\ g.id = h.id /\ g.left = h.left
          /\ g.day = h.day /\ g.valid
      BY <1>2, HandlerValid
    <3>2. Serve(h, g, response) BY <2>2
    <3> HIDE DEF g
    <3> QED BY <3>1, <3>2 DEF Serve
  <2> QED BY <1>1, <2>1, <2>2
<1>4. handlers' \subseteq (handlers \ {h}) \cup {g} BY <1>3
<1>5. /\ \A id, r : HasReceipt(id, r)' = HasReceipt(id, r)
      /\ \A r : Live(r)' = Live(r)
      /\ JiraOK'
  BY <1>1 DEF HasReceipt, Live, jira, BulkInv, JiraOK
<1>6. \A id \in RunIds : Begun(id)' \subseteq Begun(id) BY <1>3, <1>4, <1>5, BegunShrinks
<1>7. ServerMoves BY <1>1, <1>5, <1>6 DEF ServerMoves, jira
<1>8. ServerOK' BY <1>3, <1>4, <1>7, HandlersStay
<1>9. ASSUME step = "waiting" PROVE AnswerOK'
  <2>1. /\ AnswerOK /\ InChunk(chunk) \subseteq Rows
        /\ \A r : Fresh(r) => r \in InChunk(chunk) /\ r \in Rows
    BY <1>9, WhileWaiting
  <2>2. /\ run' = run /\ chunk' = chunk /\ doubt' = doubt /\ awaited' = awaited /\ sent' = sent
        /\ InChunk(chunk)' = InChunk(chunk) /\ tickets' = tickets
        /\ \A r : Fresh(r)' = Fresh(r)
    BY <1>1 DEF window, jira, InChunk, Fresh
  <2>3. \A e, f \in handlers : e.n = f.n => e = f BY DEF BulkInv, ServerOK
  <2>4. \A r \in Rows : Rejection[r] = "rejected" BY DEF Rejection
  <2>5. CASE handlers' = handlers \ {h} /\ h.n = awaited /\ response' = Rejection
    <3>1. \A r \in InChunk(chunk) : response[r] = "none" BY <1>1, <2>1, <2>5 DEF AnswerOK
    <3>2. \A f \in handlers' : f.n # awaited BY <2>3, <2>5
    <3> QED BY <1>5, <2>1, <2>2, <2>4, <2>5, <3>1, <3>2 DEF AnswerOK
  <2>6. CASE handlers' \subseteq handlers /\ response' = response
    BY <1>5, <2>1, <2>2, <2>6 DEF AnswerOK
  <2>7. CASE handlers' \subseteq (handlers \ {h}) \cup {g} /\ response' = response /\ g.valid
    <3>1. ASSUME NEW f \in handlers', f.n = awaited
          PROVE  /\ f.id = run.id /\ f.left \subseteq InChunk(chunk) /\ response # Rejection
                 /\ \A r \in InChunk(chunk) : r \in f.left \/ ~f.valid => response[r] = "none"
      BY <1>3, <2>1, <2>7, <3>1 DEF AnswerOK
    <3>2. \A r \in Rows : Fresh(r) =>
            \A f \in handlers' : f.id = run.id /\ r \in f.left => f.n = awaited
      BY <1>3, <2>1, <2>7 DEF AnswerOK
    <3> QED BY <1>5, <2>1, <2>2, <2>7, <3>1, <3>2 DEF AnswerOK
  <2> QED BY <1>3, <2>5, <2>6, <2>7
<1> QED BY <1>7, <1>8, <1>9, ServerStays

LEMMA ReceiptSet ==
    ASSUME JiraOK, NEW id \in RunIds, NEW r \in Rows, NEW s \in {"open", "closed"},
           SetRowReceipt(id, r, s)
    PROVE  /\ receipts' \in [RunIds -> [Rows -> ReceiptRecord]]
           /\ receipts'[id][r] = [state |-> s, day |-> day]
           /\ \A i \in RunIds, o \in Rows : i # id \/ o # r => receipts'[i][o] = receipts[i][o]
<1> DEFINE cell == [state |-> s, day |-> day]
<1>1. cell \in ReceiptRecord BY DEF JiraOK, ReceiptRecord
<1> HIDE DEF cell
<1>2. receipts' = [receipts EXCEPT ![id] = [receipts[id] EXCEPT ![r] = cell]]
  BY DEF SetRowReceipt, JiraOK, cell
<1>3. receipts[id] \in [Rows -> ReceiptRecord] BY DEF JiraOK
<1>4. [receipts[id] EXCEPT ![r] = cell] \in [Rows -> ReceiptRecord] BY <1>1, <1>3
<1> QED BY <1>1, <1>2, <1>3, <1>4 DEF JiraOK, cell

\* What serving a row does: its reply, and the one receipt and ticket it is about.
RowEffect(h, r, s) ==
    /\ Serve(h, [h EXCEPT !.left = @ \ {r}], [response EXCEPT ![r] = s])
    /\ receipts' \in [RunIds -> [Rows -> ReceiptRecord]]
    /\ \A i \in RunIds, o \in Rows : i # h.id \/ o # r => receipts'[i][o] = receipts[i][o]
    /\ \/ receipts'[h.id][r] = receipts[h.id][r]
       \/ receipts'[h.id][r].state \in {"open", "closed"} /\ receipts'[h.id][r].day = day
    /\ tickets' \in [Rows -> {0, 1}]
    /\ \A o \in Rows : o # r => tickets'[o] = tickets[o]
    /\ tickets[r] = 1 => tickets'[r] = 1
    /\ \A i \in RunIds, o \in Rows :
          i # h.id \/ o # r => (<<i, o>> \in undecided' <=> <<i, o>> \in undecided)
    /\ undecided' \subseteq RunIds \X Rows
    /\ receipts'[h.id][r].state = "closed" => tickets'[r] = 1
    /\ <<h.id, r>> \in undecided' => receipts'[h.id][r].state = "open" /\ tickets'[r] = 0
    /\ tickets'[r] # tickets[r] =>
          /\ tickets[r] = 0 /\ HasReceipt(h.id, r)' /\ <<h.id, r>> \notin undecided
    /\ Live(r)' => Live(r) \/ HasReceipt(h.id, r)'
    /\ s = "ok" => tickets'[r] = 1
    /\ s = "failed" => UNCHANGED jira

LEMMA RowServed ==
    ASSUME BulkInv, NEW h \in handlers, NEW r \in Rows, ServeRow(h, r)
    PROVE  \E s \in {"ok", "failed", "unknown"} : RowEffect(h, r, s)
<1> DEFINE Reply(s) == Serve(h, [h EXCEPT !.left = @ \ {r}], [response EXCEPT ![r] = s])
<1> HIDE DEF Reply
<1>1. h \in HandlerRecord /\ HandlerOK(h) /\ JiraOK BY DEF BulkInv, ServerOK, HandlerOK
<1>2. h.id \in RunIds BY <1>1, HandlerTypes
<1>3. /\ receipts[h.id][r].state \in {"none", "open", "closed"} /\ tickets[r] \in {0, 1}
      /\ receipts[h.id][r].state = "closed" => tickets[r] = 1
      /\ <<h.id, r>> \in undecided => receipts[h.id][r].state = "open" /\ tickets[r] = 0
  BY <1>1, <1>2 DEF JiraOK, ReceiptRecord
<1>4. receipts[h.id][r].state = "none" => ~Live(r) BY <1>1 DEF HandlerOK, ServeRow, HasReceipt
<1>5. CASE UNCHANGED jira /\ (\/ Reply("ok") /\ receipts[h.id][r].state = "closed"
                             \/ Reply("failed") \/ Reply("unknown"))
  <2>1. \A s \in {"ok", "failed", "unknown"} :
            Reply(s) /\ (s = "ok" => tickets[r] = 1) => RowEffect(h, r, s)
    BY <1>1, <1>2, <1>3, <1>5 DEF jira, JiraOK, Reply, Live, RowEffect
  <2> QED BY <1>3, <1>5, <2>1
<1>6. CASE /\ tickets[r] > 0 /\ Reply("ok") /\ SetRowReceipt(h.id, r, "closed")
           /\ UNCHANGED <<undecided, tickets>> /\ receipts[h.id][r].state = "open"
  <2>1. tickets[r] = 1 BY <1>3, <1>6
  <2>2. <<h.id, r>> \notin undecided BY <1>3, <2>1
  <2>3. /\ receipts' \in [RunIds -> [Rows -> ReceiptRecord]]
        /\ receipts'[h.id][r] = [state |-> "closed", day |-> day]
        /\ \A i \in RunIds, o \in Rows : i # h.id \/ o # r => receipts'[i][o] = receipts[i][o]
    BY <1>1, <1>2, <1>6, ReceiptSet
  <2>4. RowEffect(h, r, "ok")
    BY <1>1, <1>2, <1>6, <2>1, <2>2, <2>3 DEF JiraOK, Reply, Live, RowEffect
  <2> QED BY <2>4
<1>7. CASE /\ \/ receipts[h.id][r].state = "none"
              \/ tickets[r] = 0 /\ <<h.id, r>> \notin undecided
           /\ Reply("ok") /\ SetRowReceipt(h.id, r, "closed")
           /\ tickets' = [tickets EXCEPT ![r] = @ + 1] /\ UNCHANGED undecided
  <2>1. tickets[r] = 0 /\ <<h.id, r>> \notin undecided BY <1>2, <1>3, <1>4, <1>7 DEF Live
  <2>2. tickets' = [tickets EXCEPT ![r] = 1] BY <1>1, <1>7, <2>1 DEF JiraOK
  <2>3. /\ receipts' \in [RunIds -> [Rows -> ReceiptRecord]]
        /\ receipts'[h.id][r] = [state |-> "closed", day |-> day]
        /\ \A i \in RunIds, o \in Rows : i # h.id \/ o # r => receipts'[i][o] = receipts[i][o]
    BY <1>1, <1>2, <1>7, ReceiptSet
  <2>4. HasReceipt(h.id, r)' BY <2>3 DEF HasReceipt
  <2>5. RowEffect(h, r, "ok")
    BY <1>1, <1>2, <1>7, <2>1, <2>2, <2>3, <2>4 DEF JiraOK, Reply, RowEffect
  <2> QED BY <2>5
<1>8. CASE /\ \/ receipts[h.id][r].state = "none"
              \/ tickets[r] = 0 /\ <<h.id, r>> \notin undecided
           /\ Reply("unknown") /\ SetRowReceipt(h.id, r, "open")
           /\ undecided' = undecided \cup {<<h.id, r>>} /\ UNCHANGED tickets
  <2>1. tickets[r] = 0 BY <1>3, <1>4, <1>8 DEF Live
  <2>3. /\ receipts' \in [RunIds -> [Rows -> ReceiptRecord]]
        /\ receipts'[h.id][r] = [state |-> "open", day |-> day]
        /\ \A i \in RunIds, o \in Rows : i # h.id \/ o # r => receipts'[i][o] = receipts[i][o]
    BY <1>1, <1>2, <1>8, ReceiptSet
  <2>4. HasReceipt(h.id, r)' BY <2>3 DEF HasReceipt
  <2>5. RowEffect(h, r, "unknown")
    BY <1>1, <1>2, <1>8, <2>1, <2>3, <2>4 DEF JiraOK, Reply, RowEffect
  <2> QED BY <2>5
<1> QED BY <1>5, <1>6, <1>7, <1>8, <1>3 DEF ServeRow, Reply

LEMMA ServeRowKeeps ==
    ASSUME BulkInv, NEW h \in handlers, NEW r \in Rows, ServeRow(h, r) PROVE BulkInv'
<1>0. PICK s \in {"ok", "failed", "unknown"} : RowEffect(h, r, s) BY RowServed
<1>1. /\ receipts' \in [RunIds -> [Rows -> ReceiptRecord]]
      /\ \A i \in RunIds, o \in Rows : i # h.id \/ o # r => receipts'[i][o] = receipts[i][o]
      /\ \/ receipts'[h.id][r] = receipts[h.id][r]
         \/ receipts'[h.id][r].state \in {"open", "closed"} /\ receipts'[h.id][r].day = day
      /\ tickets' \in [Rows -> {0, 1}]
      /\ \A o \in Rows : o # r => tickets'[o] = tickets[o]
      /\ tickets[r] = 1 => tickets'[r] = 1
      /\ \A i \in RunIds, o \in Rows :
            i # h.id \/ o # r => (<<i, o>> \in undecided' <=> <<i, o>> \in undecided)
      /\ undecided' \subseteq RunIds \X Rows
      /\ receipts'[h.id][r].state = "closed" => tickets'[r] = 1
      /\ <<h.id, r>> \in undecided' => receipts'[h.id][r].state = "open" /\ tickets'[r] = 0
      /\ tickets'[r] # tickets[r] =>
            /\ tickets[r] = 0 /\ HasReceipt(h.id, r)' /\ <<h.id, r>> \notin undecided
      /\ Live(r)' => Live(r) \/ HasReceipt(h.id, r)'
      /\ s = "ok" => tickets'[r] = 1
      /\ s = "failed" => UNCHANGED jira
  BY <1>0 DEF RowEffect
<1>2. UNCHANGED <<window, draft, day>> /\ h.valid /\ r \in h.left BY DEF ServeRow
<1>3. h \in HandlerRecord /\ HandlerOK(h) /\ JiraOK BY DEF BulkInv, ServerOK, HandlerOK
<1>4. h.id \in RunIds /\ h.left \subseteq Rows /\ r \in Begun(h.id)
  BY <1>2, <1>3, HandlerTypes, BegunIs
<1>5. PICK g \in HandlerRecord :
        /\ g.n = h.n /\ g.id = h.id /\ g.day = h.day /\ g.left = h.left \ {r} /\ g.valid
        /\ handlers' \subseteq (handlers \ {h}) \cup {g}
        /\ response' = IF h.n = awaited THEN [response EXCEPT ![r] = s] ELSE response
        /\ UNCHANGED <<sent, awaited>>
  <2> DEFINE g == [h EXCEPT !.left = h.left \ {r}]
  <2>1. /\ g \in HandlerRecord /\ g.n = h.n /\ g.id = h.id /\ g.left = h.left \ {r}
        /\ g.valid = h.valid /\ g.day = h.day
    <3>1. h.left \ {r} \in SUBSET Rows BY <1>4
    <3> QED BY <1>3, <3>1 DEF HandlerRecord
  <2>2. Serve(h, g, [response EXCEPT ![r] = s]) BY <1>0, Zenon DEF RowEffect
  <2> HIDE DEF g
  <2> QED BY <1>2, <2>1, <2>2 DEF Serve
<1>6. JiraOK'
  <2>1. ASSUME NEW i \in RunIds, NEW o \in Rows
        PROVE  /\ receipts'[i][o].state = "closed" => tickets'[o] = 1
               /\ <<i, o>> \in undecided' => receipts'[i][o].state = "open" /\ tickets'[o] = 0
    <3>1. CASE o # r BY <1>1, <1>3, <3>1 DEF JiraOK
    <3>2. CASE i = h.id /\ o = r BY <1>1, <3>2
    <3>3. CASE i # h.id /\ o = r
      <4>1. receipts'[i][r].state = "closed" => tickets'[r] = 1
        <5>1. receipts'[i][r] = receipts[i][r] /\ (tickets[r] = 1 => tickets'[r] = 1) BY <1>1, <3>3
        <5>2. receipts[i][r].state = "closed" => tickets[r] = 1 BY <1>3, <3>3 DEF JiraOK
        <5> QED BY <5>1, <5>2
      <4>2. ASSUME <<i, r>> \in undecided' PROVE FALSE
        <5>1. <<i, r>> \in undecided BY <1>1, <3>3, <4>2
        <5>2. receipts[i][r].state = "open" /\ tickets[r] = 0 BY <1>3, <3>3, <5>1 DEF JiraOK
        <5>3. r \in Begun(i) BY <5>2, BegunIs DEF HasReceipt
        <5> QED BY <1>4, <3>3, <5>2, <5>3, OneRun
      <4> QED BY <3>3, <4>1, <4>2
    <3> QED BY <3>1, <3>2, <3>3
  <2>2. day' \in Nat /\ day' # 0 BY <1>2, <1>3 DEF JiraOK
  <2> QED BY <1>1, <2>1, <2>2 DEF JiraOK
<1>7. \A id \in RunIds : Begun(id)' \subseteq Begun(id)
  <2>1. \A id \in RunIds, o \in Rows :
            HasReceipt(id, o)' => HasReceipt(id, o) \/ (id = h.id /\ o \in h.left)
    BY <1>1, <1>2 DEF HasReceipt
  <2>2. g.left \subseteq h.left BY <1>5
  <2> QED BY <1>5, <2>1, <2>2, BegunShrinks
<1>8. ServerMoves
  <2>1. \A id \in RunIds, o \in Rows :
          \/ receipts'[id][o] = receipts[id][o]
          \/ receipts'[id][o].state # "none" /\ receipts'[id][o].day = day
    BY <1>1
  <2>2. \A o \in Rows : tickets[o] = 1 => tickets'[o] = 1 BY <1>1
  <2>3. ASSUME NEW o \in Rows
        PROVE  \/ tickets'[o] = tickets[o] /\ (Live(o)' => Live(o))
               \/ \E id \in RunIds : o \in Begun(id) /\ HasReceipt(id, o)'
    <3>1. CASE o = r BY <1>1, <1>4, <3>1
    <3>2. CASE o # r
      <4>1. \A i \in RunIds : <<i, o>> \in undecided' <=> <<i, o>> \in undecided BY <1>1, <3>2
      <4>2. tickets'[o] = tickets[o] BY <1>1, <3>2
      <4> QED BY <4>1, <4>2 DEF Live
    <3> QED BY <3>1, <3>2
  <2> QED BY <1>2, <1>5, <1>6, <1>7, <2>1, <2>2, <2>3 DEF ServerMoves
<1>9. ServerOK'
  <2>1. g.left \subseteq h.left BY <1>5
  <2> QED BY <1>5, <1>8, <2>1, HandlersStay
<1>10. ASSUME step = "waiting" PROVE AnswerOK'
  <2>1. /\ AnswerOK /\ InChunk(chunk) \subseteq Rows /\ RunOK(run) /\ run.id \in RunIds
        /\ \A o : Fresh(o) => o \in InChunk(chunk) /\ o \in run.rows /\ o \in Rows
    BY <1>10, WhileWaiting
  <2>2. /\ run' = run /\ chunk' = chunk /\ doubt' = doubt /\ awaited' = awaited /\ sent' = sent
        /\ InChunk(chunk)' = InChunk(chunk)
        /\ \A o : Fresh(o)' = Fresh(o)
    BY <1>2, <1>5 DEF window, InChunk, Fresh
  <2>3. \A e, f \in handlers : e.n = f.n => e = f BY DEF BulkInv, ServerOK
  <2>4. ASSUME h.n = awaited
        PROVE  /\ h.id = run.id /\ h.left \subseteq InChunk(chunk)
               /\ response \in [InChunk(chunk) -> Replies] /\ response[r] = "none"
               /\ \A o \in h.left : response[o] = "none"
    BY <1>2, <2>1, <2>4 DEF AnswerOK
  <2>5. /\ \A o \in InChunk(chunk) : o # r => response'[o] = response[o]
        /\ h.n = awaited => /\ response' \in [InChunk(chunk) -> Replies] /\ response'[r] = s
                            /\ r \in InChunk(chunk)
        /\ h.n # awaited => response' = response
    BY <1>2, <1>5, <2>4 DEF Replies
  <2>6. response' = Rejection \/ response' \in [InChunk(chunk) -> Replies]
    BY <2>1, <2>5 DEF AnswerOK
  <2>7. ASSUME NEW o \in InChunk(chunk), response'[o] = "ok" PROVE tickets'[o] = 1
    <3>1. CASE o = r /\ h.n = awaited BY <1>1, <2>5, <2>7, <3>1
    <3>2. CASE o # r \/ h.n # awaited BY <1>8, <2>1, <2>5, <2>7, <3>2 DEF AnswerOK, ServerMoves
    <3> QED BY <3>1, <3>2
  <2>8. ASSUME NEW f \in handlers', f.n = awaited
        PROVE  /\ f.id = run.id /\ f.left \subseteq InChunk(chunk) /\ response' # Rejection
               /\ \A o \in InChunk(chunk) : o \in f.left \/ ~f.valid => response'[o] = "none"
    <3>1. CASE f = g
      <4>1. h.n = awaited BY <1>5, <2>8, <3>1
      <4>2. response'[r] = s /\ Rejection[r] = "rejected" BY <2>5, <4>1 DEF Rejection
      <4>3. ASSUME NEW o \in InChunk(chunk), o \in f.left PROVE response'[o] = "none"
        BY <1>5, <2>4, <2>5, <3>1, <4>1, <4>3
      <4> QED BY <1>1, <1>5, <2>4, <3>1, <4>1, <4>2, <4>3
    <3>2. CASE f \in handlers \ {h}
      <4>1. h.n # awaited BY <2>3, <2>8, <3>2
      <4> QED BY <2>1, <2>5, <2>8, <3>2, <4>1 DEF AnswerOK
    <3> QED BY <1>5, <3>1, <3>2
  <2>9. ASSUME NEW o \in Rows, Fresh(o)
        PROVE  /\ \A f \in handlers' : f.id = run.id /\ o \in f.left => f.n = awaited
               /\ response'[o] \in {"none", "failed", "rejected"} =>
                     ~HasReceipt(run.id, o)' /\ tickets'[o] = 0
    <3>1. \A f \in handlers' : f.id = run.id /\ o \in f.left => f.n = awaited
      BY <1>5, <2>1, <2>9 DEF AnswerOK
    <3>2. response[o] \in {"none", "failed", "rejected"} =>
             ~HasReceipt(run.id, o) /\ tickets[o] = 0
      BY <2>1, <2>9 DEF AnswerOK
    <3>3. CASE o # r
      <4>1. HasReceipt(run.id, o)' = HasReceipt(run.id, o) /\ tickets'[o] = tickets[o]
        BY <1>1, <2>1, <2>2, <3>3 DEF HasReceipt
      <4> QED BY <2>1, <2>5, <2>9, <3>1, <3>2, <3>3, <4>1
    <3>4. CASE o = r
      <4>1. h.id = run.id BY <1>4, <2>1, <2>9, <3>4 DEF RunOK
      <4>2. h.n = awaited BY <1>2, <2>1, <2>9, <3>4, <4>1 DEF AnswerOK
      <4>3. ~HasReceipt(run.id, r) /\ tickets[r] = 0 BY <2>4, <3>2, <3>4, <4>2
      <4>4. s = "failed" => ~HasReceipt(run.id, r)' /\ tickets'[r] = 0
        BY <1>1, <2>2, <4>3 DEF HasReceipt, jira
      <4> QED BY <2>5, <3>1, <3>4, <4>2, <4>4
    <3> QED BY <3>3, <3>4
  <2>10. \A o : HasReceipt(run.id, o)' <=> receipts'[run.id][o].state # "none"
    BY <2>2 DEF HasReceipt
  <2> QED BY <2>1, <2>2, <2>6, <2>7, <2>8, <2>9, <2>10 DEF AnswerOK
<1> QED BY <1>8, <1>9, <1>10, ServerStays

LEMMA JiraDecidesKeeps == ASSUME BulkInv, JiraDecides PROVE BulkInv'
<1>1. PICK w \in undecided :
        /\ undecided' = undecided \ {w}
        /\ \E made \in {0, 1} : tickets' = [tickets EXCEPT ![w[2]] = @ + made]
        /\ UNCHANGED <<window, draft, request, handlers, receipts, day>>
  BY DEF JiraDecides
<1>2. PICK i \in RunIds, r \in Rows : w = <<i, r>> BY DEF BulkInv, JiraOK
<1>3. JiraOK /\ receipts[i][r].state = "open" /\ tickets[r] = 0 /\ r \in Begun(i)
  BY <1>1, <1>2, BegunIs DEF BulkInv, JiraOK, HasReceipt
<1>4. /\ tickets' \in [Rows -> {0, 1}] /\ \A o \in Rows : o # r => tickets'[o] = tickets[o]
  BY <1>1, <1>2, <1>3 DEF JiraOK
<1>5. \A j \in RunIds : <<j, r>> \notin undecided'
  <2> SUFFICES ASSUME NEW j \in RunIds, <<j, r>> \in undecided' PROVE FALSE OBVIOUS
  <2>1. <<j, r>> \in undecided /\ j # i BY <1>1, <1>2
  <2>2. r \in Begun(j) BY <1>3, <2>1, BegunIs DEF JiraOK, HasReceipt
  <2> QED BY <1>3, <2>1, <2>2, OneRun
<1>6. /\ \A id : Begun(id)' = Begun(id)
      /\ \A id, o : HasReceipt(id, o)' = HasReceipt(id, o)
  BY <1>1 DEF Begun, HasReceipt
<1>7. JiraOK'
  <2>1. ASSUME NEW j \in RunIds, NEW o \in Rows
        PROVE  /\ receipts'[j][o].state = "closed" => tickets'[o] = 1
               /\ <<j, o>> \in undecided' => receipts'[j][o].state = "open" /\ tickets'[o] = 0
    <3>1. CASE o = r BY <1>1, <1>3, <1>5, <3>1 DEF JiraOK
    <3>2. CASE o # r BY <1>1, <1>3, <1>4, <3>2 DEF JiraOK
    <3> QED BY <3>1, <3>2
  <2> QED BY <1>1, <1>3, <1>4, <2>1 DEF JiraOK
<1>8. ServerMoves
  <2>1. ASSUME NEW o \in Rows
        PROVE  /\ tickets[o] = 1 => tickets'[o] = 1
               /\ \/ tickets'[o] = tickets[o] /\ (Live(o)' => Live(o))
                  \/ \E id \in RunIds : o \in Begun(id) /\ HasReceipt(id, o)'
    <3>1. CASE o = r BY <1>3, <1>6, <3>1 DEF HasReceipt
    <3>2. CASE o # r BY <1>1, <1>4, <3>2 DEF Live
    <3> QED BY <3>1, <3>2
  <2> QED BY <1>1, <1>6, <1>7, <2>1 DEF ServerMoves, request
<1>9. ServerOK'
  <2>1. ASSUME NEW h \in handlers PROVE HandlerOK(h)'
    <3>1. h \in HandlerRecord BY <2>1 DEF BulkInv, ServerOK, HandlerOK
    <3> QED BY <1>8, <2>1, <3>1, HandlerStays
  <2> QED BY <1>1, <2>1 DEF BulkInv, ServerOK, request
<1>10. ASSUME step = "waiting" PROVE AnswerOK'
  <2>1. /\ AnswerOK /\ InChunk(chunk) \subseteq Rows /\ RunOK(run) /\ run.id \in RunIds
        /\ \A o : Fresh(o) => o \in InChunk(chunk) /\ o \in run.rows /\ o \in Rows
    BY <1>10, WhileWaiting
  <2>2. /\ run' = run /\ chunk' = chunk /\ doubt' = doubt /\ awaited' = awaited /\ sent' = sent
        /\ InChunk(chunk)' = InChunk(chunk) /\ handlers' = handlers /\ response' = response
        /\ \A o : Fresh(o)' = Fresh(o)
    BY <1>1 DEF window, request, InChunk, Fresh
  <2>3. ASSUME NEW o \in Rows, Fresh(o), response[o] \in {"none", "failed", "rejected"}
        PROVE  ~HasReceipt(run.id, o) /\ tickets'[o] = 0
    <3>1. ~HasReceipt(run.id, o) /\ tickets[o] = 0 BY <2>1, <2>3 DEF AnswerOK
    <3>2. o # r
      <4>1. SUFFICES ASSUME o = r PROVE FALSE OBVIOUS
      <4>2. i = run.id BY <1>3, <2>1, <2>3, <4>1 DEF RunOK
      <4> QED BY <1>3, <3>1, <4>1, <4>2 DEF HasReceipt
    <3> QED BY <1>4, <3>1, <3>2
  <2>4. \A o \in InChunk(chunk) : response[o] = "ok" => tickets'[o] = 1
    BY <1>8, <2>1 DEF AnswerOK, ServerMoves
  <2> QED BY <1>6, <2>1, <2>2, <2>3, <2>4 DEF AnswerOK
<1> QED BY <1>8, <1>9, <1>10, ServerStays

\* A receipt outlives the window in which its run may be sent again.
LEMMA DayEndsKeeps == ASSUME BulkInv, DayEnds PROVE BulkInv'
<1>1. /\ undecided = {} /\ undecided' = {} /\ tickets' = tickets /\ handlers' = handlers
      /\ day' = day + 1 /\ sent' = sent /\ awaited' = awaited /\ response' = response
      /\ UNCHANGED <<window, draft>> /\ \A h \in handlers : h.day = day
      /\ receipts' = [id \in RunIds |-> [r \in Rows |->
             IF day + 1 - receipts[id][r].day < Life THEN receipts[id][r] ELSE NoReceipt]]
  BY DEF DayEnds, request
<1>2. JiraOK /\ day \in Nat /\ day' \in Nat /\ day' # 0 /\ Life \in Nat /\ Window \in Nat
      /\ Window < Life
  BY <1>1, BulkNumbers DEF BulkInv, JiraOK
<1>3. NoReceipt \in ReceiptRecord /\ NoReceipt.state = "none" BY DEF NoReceipt, ReceiptRecord
<1>4. ASSUME NEW id \in RunIds, NEW r \in Rows
      PROVE  /\ receipts[id][r] \in ReceiptRecord /\ receipts[id][r].day \in Nat
             /\ \/ receipts'[id][r] = receipts[id][r]
                \/ ~HasReceipt(id, r)' /\ receipts[id][r].day + Life <= day + 1
  <2>1. receipts[id][r] \in ReceiptRecord BY <1>2 DEF JiraOK
  <2>2. receipts[id][r].day \in Nat BY <2>1 DEF ReceiptRecord
  <2>3. receipts'[id][r] = IF day + 1 - receipts[id][r].day < Life THEN receipts[id][r]
                           ELSE NoReceipt
    BY <1>1
  <2>4. CASE day + 1 - receipts[id][r].day < Life BY <2>1, <2>2, <2>3, <2>4
  <2>5. CASE ~(day + 1 - receipts[id][r].day < Life)
    <3>1. receipts[id][r].day + Life <= day + 1 BY <1>2, <2>2, <2>5
    <3> QED BY <1>3, <2>1, <2>2, <2>3, <2>5, <3>1 DEF HasReceipt
  <2> QED BY <2>4, <2>5
<1>5. \A id \in RunIds, r \in Rows : HasReceipt(id, r)' => HasReceipt(id, r)
  BY <1>4 DEF HasReceipt
<1>6. \A id \in RunIds : Begun(id)' \subseteq Begun(id)
  BY <1>1, <1>5 DEF Begun, HasReceipt
<1>7. \A r : Live(r)' = Live(r) /\ (Live(r) => tickets[r] = 1) BY <1>1 DEF Live
<1>8. \A id \in RunIds : \A r : Clean(id, r) => Clean(id, r)' BY <1>1, <1>6 DEF Clean
<1>9. JiraOK'
  <2>1. receipts' \in [RunIds -> [Rows -> ReceiptRecord]] BY <1>1, <1>3, <1>4
  <2>2. \A id \in RunIds, r \in Rows : receipts'[id][r].state = "closed" => tickets'[r] = 1
    BY <1>1, <1>2, <1>4 DEF JiraOK, HasReceipt
  <2> QED BY <1>1, <1>2, <2>1, <2>2 DEF JiraOK
<1>10. ASSUME NEW x, x \in {run, draft}, x # NoRun PROVE RunOK(x)'
  <2>1. RunOK(x) /\ x \in RunRecord BY <1>10 DEF BulkInv, RunsOK, RunOK, RunTyped
  <2>2. x.id \in RunIds /\ x.rows \subseteq Rows /\ x.first \in Nat BY <2>1, RunIsARun
  <2>3. ASSUME NEW r \in x.rows PROVE RowOK(x, r)'
    <3>1. RowOK(x, r) /\ r \in Rows BY <2>1, <2>2 DEF RunOK
    <3>2. HasReceipt(x.id, r)' => x.first <= receipts'[x.id][r].day
      BY <1>4, <2>2, <3>1 DEF RowOK, HasReceipt
    <3>3. ASSUME Live(r)', ~HasReceipt(x.id, r)' PROVE x.first # 0 /\ x.first + Life <= day'
      <4>1. CASE ~HasReceipt(x.id, r) BY <1>1, <1>2, <1>7, <2>2, <3>1, <3>3, <4>1 DEF RowOK
      <4>2. CASE HasReceipt(x.id, r)
        <5>1. receipts[x.id][r].day \in Nat /\ receipts[x.id][r].day + Life <= day + 1
          BY <1>4, <2>2, <3>1, <3>3, <4>2 DEF HasReceipt
        <5>2. x.first <= receipts[x.id][r].day BY <3>1, <4>2 DEF RowOK
        <5>3. r \in Begun(x.id) BY <3>1, <4>2, BegunIs
        <5>4. x.first # 0 BY <2>1, <2>2, <5>3 DEF RunOK
        <5> QED BY <1>1, <1>2, <2>2, <5>1, <5>2, <5>4
      <4> QED BY <4>1, <4>2
    <3> QED BY <1>1, <1>8, <2>2, <3>1, <3>2, <3>3 DEF RowOK
  <2>4. x.first <= day' BY <1>1, <1>2, <2>1, <2>2 DEF RunOK
  <2>5. ASSUME NEW id \in RunIds, NEW r \in Begun(id)'
        PROVE  IF id = x.id THEN r \in x.rows /\ x.chunk[r] \in x.attempted
               ELSE tickets'[r] = 1 /\ r \notin x.rows
    BY <1>1, <1>6, <2>1, <2>5 DEF RunOK
  <2>6. \A id \in RunIds : id > x.id => Begun(id)' = {} BY <1>6, <2>1 DEF RunOK
  <2>7. RunTyped(x)' BY <2>1 DEF RunOK, RunTyped
  <2> QED BY <2>1, <2>3, <2>4, <2>5, <2>6, <2>7 DEF RunOK
<1>11. RunsOK' BY <1>1, <1>10 DEF RunsOK, window
<1>12. DraftOK' BY <1>1, <1>6 DEF BulkInv, DraftOK
<1>13. ServerOK'
  <2>1. ASSUME NEW h \in handlers PROVE HandlerOK(h)'
    <3>1. HandlerOK(h) /\ h \in HandlerRecord BY DEF BulkInv, ServerOK, HandlerOK
    <3>2. h.id \in RunIds /\ h.left \subseteq Rows /\ h.day = day BY <1>1, <3>1, HandlerTypes
    <3>3. ASSUME NEW r \in h.left
          PROVE  /\ Live(r)' => HasReceipt(h.id, r)'
                 /\ HasReceipt(h.id, r)' => h.day < receipts'[h.id][r].day + Window
      <4>1. /\ Live(r) => HasReceipt(h.id, r)
            /\ HasReceipt(h.id, r) => h.day < receipts[h.id][r].day + Window
        BY <3>1 DEF HandlerOK
      <4>2. HasReceipt(h.id, r) => receipts'[h.id][r] = receipts[h.id][r]
        <5>1. receipts[h.id][r].day \in Nat BY <1>4, <3>2
        <5>2. HasReceipt(h.id, r) => ~(receipts[h.id][r].day + Life <= day + 1)
          BY <1>2, <3>2, <4>1, <5>1
        <5> QED BY <1>4, <3>2, <5>2
      <4> QED BY <1>5, <1>7, <3>2, <4>1, <4>2 DEF HasReceipt
    <3>4. h.n \in 1..sent /\ h.day < day + Window BY <3>1 DEF HandlerOK
    <3>5. h.day < day' + Window BY <1>1, <1>2, <3>2, <3>4
    <3> QED BY <1>1, <3>1, <3>3, <3>4, <3>5 DEF HandlerOK
  <2> QED BY <1>1, <2>1 DEF BulkInv, ServerOK
<1>14. AskOK'
  <2>1. /\ run' = run /\ step' = step /\ chunk' = chunk /\ doubt' = doubt /\ again' = again
        /\ draft' = draft /\ AskOK
    BY <1>1 DEF window, BulkInv
  <2>2. ChunkOK' <=> ChunkOK BY <2>1 DEF ChunkOK, InChunk
  <2>3. \A r : Fresh(r)' = Fresh(r) BY <2>1 DEF Fresh, InChunk
  <2>4. ASSUME step \in {"saving", "sending", "waiting"} PROVE run.id \in RunIds
    <3>1. RunOK(run) BY <2>1, <2>4 DEF AskOK, BulkInv, RunsOK
    <3> QED BY <3>1, RunIsARun DEF RunOK, RunTyped
  <2>5. step \in {"saving", "sending"} => \A r \in Rows : Fresh(r)' => Clean(run.id, r)'
    <3>1. ASSUME step \in {"saving", "sending"}, NEW r \in Rows, Fresh(r) PROVE Clean(run.id, r)'
      <4>1. Clean(run.id, r) BY <2>1, <3>1 DEF AskOK
      <4> QED BY <1>1, <1>6, <2>1, <2>4, <3>1, <4>1 DEF Clean
    <3> QED BY <2>3, <3>1
  <2>6. ASSUME step = "waiting" PROVE AnswerOK'
    <3>1. AnswerOK BY <2>1, <2>6 DEF AskOK
    <3>2. \A r \in Rows : HasReceipt(run.id, r)' => HasReceipt(run.id, r)
      BY <1>5, <2>1, <2>4, <2>6 DEF HasReceipt
    <3>3. InChunk(chunk)' = InChunk(chunk) BY <2>1 DEF InChunk
    <3> QED BY <1>1, <2>1, <2>3, <3>1, <3>2, <3>3 DEF AnswerOK
  <2> QED BY <1>1, <2>1, <2>2, <2>5, <2>6 DEF AskOK
<1> QED BY <1>9, <1>11, <1>12, <1>13, <1>14 DEF BulkInv

-----------------------------------------------------------------------------
(* BulkRun: the browser *)

\* The browser's own steps change the run, the draft and what is asked.
Browsing == UNCHANGED <<jira, handlers, day, sent>>

LEMMA BrowserMoves ==
    ASSUME BulkInv, Browsing, \A x \in {run', draft'} : x # NoRun => RunOK(x),
           draft' = NoRun => \A id \in RunIds : \A r \in Begun(id) : tickets[r] = 1, AskOK'
    PROVE  BulkInv'
<1>1. /\ receipts' = receipts /\ undecided' = undecided /\ tickets' = tickets /\ day' = day
      /\ handlers' = handlers /\ sent' = sent
  BY DEF Browsing, jira
<1>2. /\ \A id : Begun(id)' = Begun(id)
      /\ \A id, r : HasReceipt(id, r)' = HasReceipt(id, r)
      /\ \A r : Live(r)' = Live(r)
  BY <1>1 DEF Begun, HasReceipt, Live
<1>3. JiraOK' BY <1>1 DEF BulkInv, JiraOK
<1>4. ServerOK' BY <1>1, <1>2 DEF BulkInv, ServerOK, HandlerOK
<1>5. ASSUME NEW x, RunOK(x) PROVE RunOK(x)'
  BY <1>1, <1>2, <1>5 DEF RunOK, RunTyped, RowOK, Clean
<1>6. RunsOK' BY <1>5 DEF RunsOK
<1>7. DraftOK' BY <1>1, <1>2 DEF DraftOK
<1> QED BY <1>3, <1>4, <1>6, <1>7 DEF BulkInv

LEMMA Idles ==
    ASSUME BulkInv, Browsing, run' \in {run, draft}, draft' \in {run, draft},
           draft' = NoRun => draft = NoRun,
           step' \in {"idle", "next", "storing"}, chunk' \in Nat, again' \in BOOLEAN,
           step' # "idle" => run' # NoRun, awaited' = 0
    PROVE  BulkInv'
<1>1. \A x \in {run', draft'} : x # NoRun => RunOK(x) BY DEF BulkInv, RunsOK
<1>2. draft' = NoRun => \A id \in RunIds : \A r \in Begun(id) : tickets[r] = 1
  BY DEF BulkInv, DraftOK
<1>3. AskOK' BY DEF AskOK
<1> QED BY <1>1, <1>2, <1>3, BrowserMoves

LEMMA PlainStepsKeep == ASSUME BulkInv, Start \/ StoreAnswer \/ Reopen PROVE BulkInv'
<1>1. /\ chunk \in Nat /\ again \in BOOLEAN /\ AskOK BY DEF BulkInv, AskOK
<1>2. CASE Start
  <2>1. /\ run' = run /\ draft' = draft /\ step' = "next" /\ chunk' = 1 /\ again' = again
        /\ awaited' = awaited /\ awaited = 0 /\ run # NoRun /\ Browsing
    BY <1>1, <1>2 DEF Start, Browsing, request, AskOK
  <2> QED BY <1>1, <2>1, Idles
<1>3. CASE StoreAnswer
  <2>1. step = "storing" BY <1>3 DEF StoreAnswer
  <2>2. run # NoRun /\ awaited = 0 BY <1>1, <2>1 DEF AskOK
  <2>3. /\ run' = run /\ draft' \in {run, draft} /\ step' \in {"idle", "next"} /\ chunk' \in Nat
        /\ again' = again /\ awaited' = awaited /\ Browsing /\ (draft' = NoRun => draft = NoRun)
    BY <1>1, <1>3, <2>2 DEF StoreAnswer, Browsing, request
  <2> QED BY <1>1, <2>2, <2>3, Idles
<1>4. CASE Reopen
  <2>1. /\ run' = draft /\ draft' = draft /\ step' = "idle" /\ chunk' = 0 /\ again' = FALSE
        /\ awaited' = 0 /\ Browsing
    BY <1>4 DEF Reopen, Browsing
  <2> QED BY <2>1, Idles
<1> QED BY <1>2, <1>3, <1>4

\* The run at hand.
LEMMA RunAtHand ==
    ASSUME BulkInv, run # NoRun
    PROVE  /\ RunOK(run) /\ run \in RunRecord /\ run.id \in RunIds /\ run.rows \subseteq Rows
           /\ run.attempted \subseteq Nat /\ run.first \in Nat /\ run.first <= day
           /\ run.chunk \in [run.rows -> Nat] /\ run.state \in [run.rows -> States]
           /\ \A r \in run.rows : RowOK(run, r)
           /\ day \in Nat /\ day # 0 /\ Life \in Nat /\ Window \in Nat /\ Window < Life
<1>1. RunOK(run) BY DEF BulkInv, RunsOK
<1>2. run \in RunRecord BY <1>1 DEF RunOK, RunTyped
<1>3. day \in Nat /\ day # 0 BY DEF BulkInv, JiraOK
<1> QED BY <1>1, <1>2, <1>3, RunIsARun, BulkNumbers DEF RunOK, RunTyped

LEMMA MarkIs ==
    ASSUME run.rows \subseteq Rows, run.state \in [run.rows -> States], NEW c, NEW s \in States
    PROVE  /\ Mark(c, s) \in [run.rows -> States] /\ Mark(c, s) \in Marks
           /\ \A r \in run.rows : Mark(c, s)[r] = IF r \in InChunk(c) /\ run.state[r] # "ok" THEN s
                                                 ELSE run.state[r]
<1>1. Mark(c, s) \in [run.rows -> States] BY DEF Mark
<1> QED BY <1>1, MarksAre DEF Mark

\* A chunk is attempted: its rows are uncertain from now on.
LEMMA AttemptKeeps ==
    ASSUME BulkInv, step = "next", Browsing, ~Created(chunk),
           again' = (chunk \in run.attempted), doubt' = InChunk(chunk) \cap With("null"),
           run' = [run EXCEPT !.first = IF @ = 0 THEN day ELSE @,
                              !.attempted = @ \cup {chunk},
                              !.state = Mark(chunk, "null")],
           step' = "saving", UNCHANGED <<chunk, draft, awaited>>
    PROVE  BulkInv'
<1>1. run # NoRun /\ awaited = 0 /\ chunk \in Nat BY DEF BulkInv, AskOK
<1>2. /\ RunOK(run) /\ run \in RunRecord /\ run.id \in RunIds /\ run.rows \subseteq Rows
      /\ run.attempted \subseteq Nat /\ run.first \in Nat /\ run.first <= day
      /\ run.chunk \in [run.rows -> Nat] /\ run.state \in [run.rows -> States]
      /\ \A r \in run.rows : RowOK(run, r)
      /\ day \in Nat /\ day # 0
  BY <1>1, RunAtHand
<1>3. /\ Mark(chunk, "null") \in [run.rows -> States] /\ Mark(chunk, "null") \in Marks
      /\ \A r \in run.rows : Mark(chunk, "null")[r] =
            IF r \in InChunk(chunk) /\ run.state[r] # "ok" THEN "null" ELSE run.state[r]
  BY <1>2, MarkIs DEF States
<1> DEFINE first == IF run.first = 0 THEN day ELSE run.first
           tried == run.attempted \cup {chunk}
           marks == Mark(chunk, "null")
<1>4. PICK y : y = run' OBVIOUS
<1>5. /\ y \in RunRecord /\ y.id = run.id /\ y.rows = run.rows /\ y.chunk = run.chunk
      /\ y.attempted = tried /\ y.first = first /\ y.state = marks
  <2>1. first \in Nat /\ tried \in SUBSET Nat /\ marks \in Marks BY <1>1, <1>2, <1>3
  <2>2. y = [run EXCEPT !.first = first, !.attempted = tried, !.state = marks] BY <1>4
  <2> HIDE DEF first, tried, marks
  <2> QED BY <1>2, <2>1, <2>2 DEF RunRecord
<1>6. RunOK(y)
  <2>1. RunTyped(y) BY <1>2, <1>3, <1>5 DEF RunTyped
  <2>2. y.first <= day /\ y.first # 0 BY <1>2, <1>5
  <2>3. ASSUME NEW id \in RunIds, NEW r \in Begun(id)
        PROVE  IF id = y.id THEN r \in y.rows /\ y.chunk[r] \in y.attempted
               ELSE tickets[r] = 1 /\ r \notin y.rows
    BY <1>2, <1>5, <2>3 DEF RunOK
  <2>4. \A id \in RunIds : id > y.id => Begun(id) = {} BY <1>2, <1>5 DEF RunOK
  <2>5. ASSUME NEW r \in y.rows PROVE RowOK(y, r)
    <3>1. RowOK(run, r) /\ r \in run.rows /\ r \in Rows BY <1>2, <1>5
    <3>2. y.state[r] = IF r \in InChunk(chunk) /\ run.state[r] # "ok" THEN "null" ELSE run.state[r]
      BY <1>3, <1>5, <3>1
    <3>3. y.state[r] = "null" => y.chunk[r] \in y.attempted
      BY <1>5, <3>1, <3>2 DEF RowOK, InChunk
    <3>4. HasReceipt(y.id, r) => y.first <= receipts[y.id][r].day
      <4>1. HasReceipt(run.id, r) => run.first # 0
        BY <1>2, <3>1, BegunIs DEF RunOK
      <4> QED BY <1>5, <3>1, <4>1 DEF RowOK
    <3>5. Live(r) /\ ~HasReceipt(y.id, r) => y.first # 0 /\ y.first + Life <= day
      BY <1>5, <3>1 DEF RowOK
    <3> QED BY <1>5, <3>1, <3>2, <3>3, <3>4, <3>5 DEF RowOK
  <2> QED BY <2>1, <2>2, <2>3, <2>4, <2>5 DEF RunOK
<1>7. run' # NoRun BY <1>4, <1>5, RunIsARun
<1>8. /\ run'.id = run.id /\ run'.rows = run.rows /\ run'.chunk = run.chunk
      /\ run'.attempted = tried /\ run'.state = marks
  BY <1>4, <1>5
<1>9. InChunk(chunk)' = InChunk(chunk) BY <1>8 DEF InChunk
<1>10. ChunkOK'
  <2>1. ASSUME NEW r \in InChunk(chunk) PROVE run'.state[r] \in {"null", "ok"}
    BY <1>3, <1>8 DEF InChunk
  <2>2. PICK r \in InChunk(chunk) : run.state[r] # "ok" BY DEF Created, With, InChunk
  <2>3. run'.state[r] # "ok" BY <1>3, <1>8, <2>2 DEF InChunk
  <2>4. ~again' => doubt' = {}
    <3> SUFFICES ASSUME chunk \notin run.attempted, NEW o \in InChunk(chunk), run.state[o] = "null"
                 PROVE  FALSE
      BY DEF With
    <3> QED BY <1>2 DEF RowOK, InChunk
  <2> QED BY <1>8, <1>9, <2>1, <2>2, <2>3, <2>4 DEF ChunkOK
<1>11. ASSUME NEW r \in Rows, Fresh(r)' PROVE Clean(run.id, r)'
  <2>1. r \in InChunk(chunk) /\ r \in run.rows /\ r \notin With("null") /\ run'.state[r] # "ok"
    BY <1>9, <1>11 DEF Fresh, InChunk
  <2>2. run.state[r] \notin {"null", "ok"} BY <1>3, <1>8, <2>1 DEF With
  <2>3. Clean(run.id, r) BY <1>2, <2>1, <2>2 DEF RowOK, States
  <2> QED BY <1>8, <2>3 DEF Clean, Begun, Browsing, jira
<1>12. AskOK' BY <1>1, <1>7, <1>10, <1>11 DEF AskOK
<1>13. \A x \in {run', draft'} : x # NoRun => RunOK(x) BY <1>4, <1>6 DEF BulkInv, RunsOK
<1>14. draft' = NoRun => \A id \in RunIds : \A r \in Begun(id) : tickets[r] = 1
  BY DEF BulkInv, DraftOK
<1> QED BY <1>12, <1>13, <1>14, BrowserMoves

LEMMA NextChunkKeeps == ASSUME BulkInv, NextChunk PROVE BulkInv'
<1>1. /\ step = "next" /\ Browsing /\ draft' = draft /\ awaited' = awaited /\ awaited = 0
      /\ run # NoRun /\ chunk \in Nat /\ again \in BOOLEAN
  BY DEF NextChunk, Browsing, request, BulkInv, AskOK
<1>2. CASE chunk' = chunk + 1 /\ UNCHANGED <<run, step, doubt, again>>
  BY <1>1, <1>2, Idles
<1>3. CASE step' = "idle" /\ chunk' = 0 /\ UNCHANGED <<run, doubt, again>>
  BY <1>1, <1>3, Idles
<1>4. CASE /\ ~Created(chunk)
           /\ again' = (chunk \in run.attempted)
           /\ doubt' = InChunk(chunk) \cap With("null")
           /\ run' = [run EXCEPT !.first = IF @ = 0 THEN day ELSE @,
                                 !.attempted = @ \cup {chunk},
                                 !.state = Mark(chunk, "null")]
           /\ step' = "saving" /\ UNCHANGED chunk
  BY <1>1, <1>4, AttemptKeeps
<1> QED BY <1>2, <1>3, <1>4, Zenon DEF NextChunk

LEMMA SaveAttemptKeeps == ASSUME BulkInv, SaveAttempt PROVE BulkInv'
<1>1. step = "saving" /\ Browsing /\ UNCHANGED <<run, chunk, doubt, again, awaited>>
  BY DEF SaveAttempt, Browsing, request
<1>2. /\ AskOK /\ ChunkOK /\ run # NoRun /\ awaited = 0
      /\ \A r \in Rows : Fresh(r) => Clean(run.id, r)
  BY <1>1 DEF BulkInv, AskOK
<1>3. CASE draft' = draft /\ step' = "idle" BY <1>1, <1>2, <1>3, Idles DEF AskOK
<1>4. CASE draft' = run /\ step' = "sending"
  <2>1. ChunkOK' BY <1>1, <1>2 DEF ChunkOK, InChunk
  <2>2. \A r \in Rows : Fresh(r)' => Clean(run.id, r)'
    BY <1>1, <1>2 DEF Fresh, InChunk, Clean, Begun, Browsing, jira
  <2>3. AskOK' BY <1>1, <1>2, <1>4, <2>1, <2>2 DEF AskOK
  <2>4. \A x \in {run', draft'} : x # NoRun => RunOK(x) BY <1>1, <1>4 DEF BulkInv, RunsOK
  <2> QED BY <1>1, <1>2, <1>4, <2>3, <2>4, BrowserMoves
<1> QED BY <1>3, <1>4 DEF SaveAttempt

\* Within the window, no receipt of an earlier attempt can have gone.
LEMMA SendKeeps == ASSUME BulkInv, Send PROVE BulkInv'
<1>1. /\ step = "sending" /\ ~replayBlock(run) /\ sent' = sent + 1 /\ awaited' = sent + 1
      /\ response' = [r \in InChunk(chunk) |-> "none"] /\ step' = "waiting"
      /\ UNCHANGED <<run, draft, chunk, doubt, again, jira, day>>
  BY DEF Send
<1>2. /\ AskOK /\ ChunkOK /\ run # NoRun /\ draft = run
      /\ \A r \in Rows : Fresh(r) => Clean(run.id, r)
  BY <1>1 DEF BulkInv, AskOK
<1>3. /\ RunOK(run) /\ run \in RunRecord /\ run.id \in RunIds /\ run.rows \subseteq Rows
      /\ run.attempted \subseteq Nat /\ run.first \in Nat /\ run.first <= day
      /\ \A r \in run.rows : RowOK(run, r)
      /\ day \in Nat /\ Life \in Nat /\ Window \in Nat /\ Window < Life
  BY <1>2, RunAtHand
<1>4. sent \in Nat BY DEF BulkInv, ServerOK
<1>5. PICK g \in HandlerRecord :
        /\ handlers' = handlers \cup {g}
        /\ g.n = sent + 1 /\ g.id = run.id /\ g.left = InChunk(chunk) /\ g.valid = FALSE
        /\ g.day = day
  <2> DEFINE g == [n |-> sent + 1, id |-> run.id, left |-> InChunk(chunk), valid |-> FALSE,
                   day |-> day]
  <2>1. InChunk(chunk) \subseteq Rows BY <1>3 DEF InChunk
  <2>2. g \in HandlerRecord BY <1>3, <1>4, <2>1 DEF HandlerRecord
  <2>3. handlers' = handlers \cup {g} BY DEF Send
  <2> QED BY <2>2, <2>3
<1>6. /\ receipts' = receipts /\ undecided' = undecided /\ tickets' = tickets /\ day' = day
      /\ \A id, r : HasReceipt(id, r)' = HasReceipt(id, r)
      /\ \A r : Live(r)' = Live(r)
      /\ \A r : Fresh(r)' = Fresh(r)
      /\ InChunk(chunk)' = InChunk(chunk)
  BY <1>1 DEF jira, HasReceipt, Live, Fresh, InChunk
<1>7. \A id \in RunIds : Begun(id)' = Begun(id) \cup (IF id = run.id THEN InChunk(chunk) ELSE {})
  BY <1>5, <1>6 DEF Begun, HasReceipt
<1>8. \A r \in InChunk(chunk) : /\ r \in run.rows /\ r \in Rows /\ run.chunk[r] \in run.attempted
                               /\ run.state[r] \in {"null", "ok"}
  BY <1>2, <1>3 DEF ChunkOK, InChunk
<1>9. day < run.first + Window
  <2>1. \E r \in run.rows : run.state[r] # "ok" BY <1>2 DEF ChunkOK, InChunk
  <2>2. run.attempted # {} BY <1>2 DEF ChunkOK
  <2>3. ~(day - run.first >= Window) BY <1>1, <2>1, <2>2 DEF replayBlock
  <2> QED BY <1>3, <2>3
<1>10. JiraOK' BY <1>6 DEF BulkInv, JiraOK
<1>11. ServerOK'
  <2>1. ASSUME NEW h \in handlers PROVE HandlerOK(h)' /\ h.n # sent + 1
    <3>1. HandlerOK(h) BY DEF BulkInv, ServerOK
    <3>2. h.n \in 1..sent BY <3>1 DEF HandlerOK
    <3>3. h.n \in 1..sent' /\ h.n # sent + 1 BY <1>1, <1>4, <3>2
    <3> QED BY <1>6, <3>1, <3>3 DEF HandlerOK
  <2>2. HandlerOK(g)'
    <3>1. ASSUME NEW r \in g.left
          PROVE  /\ Live(r) => HasReceipt(g.id, r)
                 /\ HasReceipt(g.id, r) => g.day < receipts[g.id][r].day + Window
      <4>1. r \in run.rows /\ r \in Rows /\ RowOK(run, r) BY <1>3, <1>5, <1>8
      <4>2. receipts[run.id][r].day \in Nat
        <5>1. receipts[run.id][r] \in ReceiptRecord BY <1>3, <4>1 DEF BulkInv, JiraOK
        <5> QED BY <5>1 DEF ReceiptRecord
      <4>3. Live(r) => HasReceipt(run.id, r) BY <1>3, <1>9, <4>1 DEF RowOK
      <4>4. HasReceipt(run.id, r) => day < receipts[run.id][r].day + Window
        BY <1>3, <1>9, <4>1, <4>2 DEF RowOK
      <4> QED BY <1>5, <4>3, <4>4
    <3>2. g.n \in 1..sent' /\ g.day < day' + Window BY <1>1, <1>3, <1>4, <1>5, <1>6, <1>9
    <3> QED BY <1>5, <1>6, <3>1, <3>2 DEF HandlerOK
  <2>3. \A e, f \in handlers' : e.n = f.n => e = f
    BY <1>5, <2>1 DEF BulkInv, ServerOK
  <2> QED BY <1>1, <1>4, <1>5, <2>1, <2>2, <2>3 DEF ServerOK
<1>12. RunsOK'
  <2> SUFFICES ASSUME NEW x, x = run PROVE RunOK(x)' BY <1>1, <1>2 DEF RunsOK
  <2>1. ASSUME NEW r \in x.rows PROVE RowOK(x, r)'
    <3>1. RowOK(x, r) /\ r \in run.rows BY <1>3, <2>1
    <3>2. x.state[r] \in {"unset", "failed"} => Clean(x.id, r)'
      <4>1. x.state[r] \in {"unset", "failed"} => r \notin InChunk(chunk) BY <1>8
      <4> QED BY <1>3, <1>6, <1>7, <3>1, <4>1 DEF RowOK, Clean
    <3> QED BY <1>6, <3>1, <3>2 DEF RowOK
  <2>2. ASSUME NEW id \in RunIds, NEW r \in Begun(id)'
        PROVE  IF id = x.id THEN r \in x.rows /\ x.chunk[r] \in x.attempted
               ELSE tickets'[r] = 1 /\ r \notin x.rows
    <3>1. CASE r \in Begun(id) BY <1>3, <1>6, <3>1 DEF RunOK
    <3>2. CASE r \notin Begun(id)
      <4>1. id = x.id /\ r \in InChunk(chunk) BY <1>7, <2>2, <3>2
      <4> QED BY <1>8, <4>1
    <3> QED BY <3>1, <3>2
  <2>3. \A id \in RunIds : id > x.id => Begun(id)' = {}
    <3> SUFFICES ASSUME NEW id \in RunIds, id > x.id PROVE Begun(id)' = {} OBVIOUS
    <3>1. id # run.id BY <1>3, BulkNumbers
    <3>2. Begun(id) = {} BY <1>3 DEF RunOK
    <3> QED BY <1>7, <3>1, <3>2
  <2>4. RunTyped(x)' BY <1>3 DEF RunOK, RunTyped
  <2> QED BY <1>3, <1>6, <2>1, <2>2, <2>3, <2>4 DEF RunOK
<1>13. DraftOK' BY <1>1, <1>2 DEF DraftOK
<1>14. AnswerOK'
  <2>1. \A h \in handlers' : h.n = sent + 1 => h = g
    <3> SUFFICES ASSUME NEW h \in handlers, h.n = sent + 1 PROVE FALSE BY <1>5
    <3>1. h.n \in 1..sent BY DEF BulkInv, ServerOK, HandlerOK
    <3> QED BY <1>4, <3>1
  <2>2. response' \in [InChunk(chunk) -> Replies] /\ \A r \in InChunk(chunk) : response'[r] = "none"
    BY <1>1 DEF Replies
  <2>3. response' # Rejection
    <3>1. PICK r \in InChunk(chunk) : TRUE BY <1>2 DEF ChunkOK
    <3>2. response'[r] = "none" /\ Rejection[r] = "rejected" BY <1>8, <2>2, <3>1 DEF Rejection
    <3> QED BY <3>2
  <2>4. ASSUME NEW r \in Rows, Fresh(r)
        PROVE  /\ \A h \in handlers' : h.id = run.id /\ r \in h.left => h.n = sent + 1
               /\ ~HasReceipt(run.id, r) /\ tickets[r] = 0
    <3>1. r \notin Begun(run.id) /\ tickets[r] = 0 BY <1>2, <2>4 DEF Clean
    <3> QED BY <1>5, <3>1, BegunIs
  <2>5. awaited' \in 1..sent' BY <1>1, <1>4
  <2>6. run' = run /\ \A r : HasReceipt(run.id, r)' <=> HasReceipt(run.id, r) 
    BY <1>1 DEF HasReceipt, jira
  <2> QED BY <1>1, <1>5, <1>6, <2>1, <2>2, <2>3, <2>4, <2>5, <2>6 DEF AnswerOK
<1>15. AskOK'
  <2>1. ChunkOK' BY <1>1, <1>2, <1>6 DEF ChunkOK
  <2>2. awaited' \in Nat BY <1>1, <1>4
  <2> QED BY <1>1, <1>2, <1>14, <2>1, <2>2 DEF AskOK
<1> QED BY <1>10, <1>11, <1>12, <1>13, <1>15 DEF BulkInv

\* An answer only calls a row created or failed if it is.
LEMMA AnsweredKeeps ==
    ASSUME BulkInv, run # NoRun, NEW states \in [run.rows -> States], Answered(states),
           \A r \in run.rows :
              /\ states[r] = "ok" => tickets[r] = 1
              /\ states[r] \in {"unset", "failed"} => Clean(run.id, r)
              /\ states[r] = "null" => run.chunk[r] \in run.attempted
    PROVE  BulkInv'
<1>1. /\ run' = [run EXCEPT !.state = states] /\ again' = FALSE /\ awaited' = 0
      /\ step' = "storing" /\ draft' = draft /\ chunk' = chunk /\ Browsing
  BY DEF Answered, Browsing
<1>2. /\ RunOK(run) /\ run \in RunRecord /\ run.rows \subseteq Rows
      /\ run.chunk \in [run.rows -> Nat]
  BY RunAtHand
<1>3. states \in Marks BY <1>2, MarksAre
<1>4. PICK y : y = run' OBVIOUS
<1>5. /\ y \in RunRecord /\ y.id = run.id /\ y.rows = run.rows /\ y.chunk = run.chunk
      /\ y.attempted = run.attempted /\ y.first = run.first /\ y.state = states
  BY <1>1, <1>2, <1>3, <1>4, RunMarked
<1>6. RunOK(y)
  <2>1. ASSUME NEW r \in y.rows PROVE RowOK(y, r)
    <3>1. RowOK(run, r) /\ r \in run.rows BY <1>2, <1>5, <2>1 DEF RunOK
    <3> QED BY <1>5, <3>1 DEF RowOK
  <2> QED BY <1>2, <1>5, <2>1 DEF RunOK, RunTyped
<1>7. run' # NoRun BY <1>4, <1>5, RunIsARun
<1>8. AskOK' BY <1>1, <1>7 DEF BulkInv, AskOK
<1>9. \A x \in {run', draft'} : x # NoRun => RunOK(x) BY <1>1, <1>4, <1>6 DEF BulkInv, RunsOK
<1>10. draft' = NoRun => \A id \in RunIds : \A r \in Begun(id) : tickets[r] = 1
  BY <1>1 DEF BulkInv, DraftOK
<1> QED BY <1>1, <1>8, <1>9, <1>10, BrowserMoves

LEMMA AnswersKeep == ASSUME BulkInv, Unanswered \/ Rejected \/ acceptChunk PROVE BulkInv'
<1>1. step \in {"sending", "waiting"} BY DEF Unanswered, Rejected, acceptChunk
<1>2. run # NoRun /\ ChunkOK BY <1>1 DEF BulkInv, AskOK
<1>3. /\ run.rows \subseteq Rows /\ run.state \in [run.rows -> States]
      /\ \A r \in run.rows : RowOK(run, r)
  BY <1>2, RunAtHand
<1>4. \A r \in InChunk(chunk) : run.chunk[r] \in run.attempted BY <1>2 DEF ChunkOK, InChunk
<1> DEFINE Told(states) ==
      \A r \in run.rows :
         /\ states[r] = "ok" => tickets[r] = 1
         /\ states[r] \in {"unset", "failed"} => Clean(run.id, r)
         /\ states[r] = "null" => run.chunk[r] \in run.attempted
<1>5. /\ Mark(chunk, "null") \in [run.rows -> States] /\ Told(Mark(chunk, "null"))
  <2>1. /\ Mark(chunk, "null") \in [run.rows -> States]
        /\ \A r \in run.rows : Mark(chunk, "null")[r] =
              IF r \in InChunk(chunk) /\ run.state[r] # "ok" THEN "null" ELSE run.state[r]
    BY <1>3, MarkIs DEF States
  <2> QED BY <1>3, <1>4, <2>1 DEF RowOK
\* A row that was sent for the first time, and of which nothing came.
<1>6. ASSUME step = "waiting", NEW r \in InChunk(chunk), r \notin doubt, run.state[r] # "ok",
             response[r] \in {"failed", "rejected"}
      PROVE  Clean(run.id, r)
  <2>1. AnswerOK BY <1>6, WhileWaiting
  <2>2. r \in Rows /\ Fresh(r) BY <1>3, <1>6 DEF InChunk, Fresh
  <2>3. ~HasReceipt(run.id, r) /\ tickets[r] = 0 BY <1>6, <2>1, <2>2 DEF AnswerOK
  <2>4. ASSUME NEW h \in handlers, h.id = run.id, r \in h.left PROVE FALSE
    <3>1. h.n = awaited BY <2>1, <2>2, <2>4 DEF AnswerOK
    <3> QED BY <1>6, <2>1, <2>4, <3>1 DEF AnswerOK
  <2> QED BY <2>3, <2>4, BegunIs DEF Clean
<1>7. CASE Unanswered BY <1>2, <1>5, <1>7, AnsweredKeeps DEF Unanswered
<1>8. CASE Rejected
  <2>1. step = "waiting" /\ response = Rejection BY <1>8 DEF Rejected
  <2>2. CASE again BY <1>2, <1>5, <1>8, <2>2, AnsweredKeeps DEF Rejected
  <2>3. CASE ~again
    <3>1. /\ Mark(chunk, "failed") \in [run.rows -> States]
          /\ \A r \in run.rows : Mark(chunk, "failed")[r] =
                IF r \in InChunk(chunk) /\ run.state[r] # "ok" THEN "failed" ELSE run.state[r]
      BY <1>3, MarkIs DEF States
    <3>2. doubt = {} BY <1>2, <2>3 DEF ChunkOK
    <3>3. \A r \in Rows : response[r] = "rejected" BY <2>1 DEF Rejection
    <3>4. InChunk(chunk) \subseteq Rows BY <1>3 DEF InChunk
    <3>5. Told(Mark(chunk, "failed")) BY <1>3, <1>6, <2>1, <3>1, <3>2, <3>3, <3>4 DEF RowOK
    <3>6. Answered(Mark(chunk, "failed")) BY <1>8, <2>3 DEF Rejected
    <3> QED BY <1>2, <3>1, <3>5, <3>6, AnsweredKeeps
  <2> QED BY <2>2, <2>3
<1>9. CASE acceptChunk
  <2>1. /\ step = "waiting" /\ response # Rejection
        /\ \A r \in InChunk(chunk) : response[r] # "none"
    BY <1>9 DEF acceptChunk
  <2>2. PICK garbled \in SUBSET InChunk(chunk) :
          Answered([r \in run.rows |->
              IF r \notin InChunk(chunk) \/ run.state[r] = "ok" THEN run.state[r]
              ELSE IF r \in garbled THEN "null" ELSE acceptRow(r)])
    BY <1>9 DEF acceptChunk
  <2> DEFINE states == [r \in run.rows |->
              IF r \notin InChunk(chunk) \/ run.state[r] = "ok" THEN run.state[r]
              ELSE IF r \in garbled THEN "null" ELSE acceptRow(r)]
  <2>3. AnswerOK BY <2>1, WhileWaiting
  <2>4. ASSUME NEW r \in InChunk(chunk), run.state[r] # "ok"
        PROVE  /\ acceptRow(r) \in States
               /\ acceptRow(r) = "ok" => tickets[r] = 1
               /\ acceptRow(r) \in {"unset", "failed"} => Clean(run.id, r)
    <3>1. response[r] \in {"ok", "failed", "unknown"} /\ (response[r] = "ok" => tickets[r] = 1)
      BY <2>1, <2>3 DEF AnswerOK, Replies
    <3>2. response[r] = "failed" /\ r \notin doubt => Clean(run.id, r) BY <1>6, <2>1, <2>4
    <3> QED BY <3>1, <3>2 DEF acceptRow, States
  <2>5. \A r \in run.rows : states[r] =
              IF r \notin InChunk(chunk) \/ run.state[r] = "ok" THEN run.state[r]
              ELSE IF r \in garbled THEN "null" ELSE acceptRow(r)
    OBVIOUS
  <2>6. states \in [run.rows -> States] BY <1>3, <2>4 DEF States
  <2>7. Answered(states) BY <2>2
  <2> HIDE DEF states
  <2>8. Told(states) BY <1>3, <1>4, <2>4, <2>5 DEF RowOK
  <2> QED BY <1>2, <2>6, <2>7, <2>8, AnsweredKeeps
<1> QED BY <1>7, <1>8, <1>9

\* Nothing came of the rows that failed, so they may be sent under a new id.
LEMMA RetryKeeps == ASSUME BulkInv, retryFailed PROVE BulkInv'
<1>1. /\ step = "idle" /\ run # NoRun /\ With("null") \cup With("unset") = {}
      /\ run.id + 1 \in RunIds /\ Browsing /\ UNCHANGED <<draft, step, chunk, again, awaited>>
  BY DEF retryFailed, Browsing, request
<1>2. PICK cut \in Chunkings : run' = newBulkRun(run.id + 1, With("failed"), cut)
  BY DEF retryFailed
<1>3. /\ RunOK(run) /\ run.id \in RunIds /\ run.rows \subseteq Rows /\ day \in Nat
      /\ run.state \in [run.rows -> States] /\ \A r \in run.rows : RowOK(run, r)
  BY <1>1, RunAtHand
<1>4. PICK y : y = run' OBVIOUS
<1>5. With("failed") \subseteq Rows BY <1>3 DEF With
<1>6. /\ RunTyped(y) /\ y.id = run.id + 1 /\ y.rows = With("failed")
      /\ y.attempted = {} /\ y.first = 0 /\ \A r \in y.rows : y.state[r] = "unset"
  <2>1. With("failed") \in SUBSET Rows BY <1>5
  <2>2. y = newBulkRun(run.id + 1, With("failed"), cut) BY <1>2, <1>4
  <2>3. NewlyMade(y, run.id + 1, With("failed")) BY <1>1, <1>2, <2>1, <2>2, NewRun
  <2> QED BY <2>3 DEF NewlyMade
<1>7. \A r \in run.rows : run.state[r] \in {"ok", "failed"}
  <2>1. \A r \in run.rows : run.state[r] \notin {"null", "unset"} BY <1>1 DEF With
  <2> QED BY <1>3, <2>1 DEF States
<1>8. ASSUME NEW r \in y.rows
      PROVE  /\ r \in Rows /\ r \in run.rows /\ tickets[r] = 0
             /\ \A id \in RunIds : r \notin Begun(id)
  <2>1. r \in run.rows /\ run.state[r] = "failed" BY <1>6 DEF With
  <2>2. Clean(run.id, r) BY <1>3, <2>1 DEF RowOK
  <2> QED BY <1>3, <2>1, <2>2, OtherRun DEF Clean
<1>9. RunOK(y)
  <2>1. ASSUME NEW id \in RunIds, NEW r \in Begun(id)
        PROVE  id # y.id /\ tickets[r] = 1 /\ r \notin y.rows
    <3>1. id # run.id + 1
      <4>1. run.id \in Nat BY <1>3, BulkNumbers
      <4>2. run.id + 1 > run.id BY <4>1
      <4> QED BY <1>1, <1>3, <2>1, <4>2 DEF RunOK
    <3>2. CASE id = run.id
      <4>1. r \in run.rows BY <1>3, <2>1, <3>2 DEF RunOK
      <4>2. r \notin y.rows BY <1>8, <2>1
      <4>3. run.state[r] = "ok" BY <1>6, <1>7, <4>1, <4>2 DEF With
      <4> QED BY <1>3, <1>6, <3>1, <4>1, <4>2, <4>3 DEF RowOK
    <3>3. CASE id # run.id BY <1>3, <1>6, <1>8, <2>1, <3>1, <3>3 DEF RunOK
    <3> QED BY <3>2, <3>3
  <2>2. ASSUME NEW id \in RunIds, id > y.id PROVE Begun(id) = {}
    <3>1. run.id \in Nat /\ id \in Nat BY <1>3, BulkNumbers
    <3>2. id > run.id BY <1>6, <2>2, <3>1
    <3> QED BY <1>3, <3>2 DEF RunOK
  <2>3. ASSUME NEW r \in y.rows PROVE RowOK(y, r)
    <3>1. Clean(y.id, r) BY <1>1, <1>6, <1>8 DEF Clean
    <3>2. ~HasReceipt(y.id, r) BY <1>1, <1>6, <1>8, BegunIs
    <3>3. ~Live(r)
      <4>0. tickets[r] # 1 BY <1>8, <2>3
      <4> SUFFICES ASSUME NEW id \in RunIds, <<id, r>> \in undecided PROVE FALSE
        BY <4>0 DEF Live
      <4>1. HasReceipt(id, r) BY <1>8 DEF BulkInv, JiraOK, HasReceipt
      <4> QED BY <1>8, <4>1, BegunIs
    <3> QED BY <1>6, <3>1, <3>2, <3>3 DEF RowOK
  <2>4. y.first <= day
    <3>1. y.first = 0 BY <1>6
    <3>2. day \in Nat BY <1>3
    <3> QED BY <3>1, <3>2
  <2> QED BY <1>6, <2>1, <2>2, <2>3, <2>4 DEF RunOK
<1>10. AskOK' BY <1>1 DEF BulkInv, AskOK
<1>11. \A x \in {run', draft'} : x # NoRun => RunOK(x) BY <1>1, <1>4, <1>9 DEF BulkInv, RunsOK
<1>12. draft' = NoRun => \A id \in RunIds : \A r \in Begun(id) : tickets[r] = 1
  BY <1>1 DEF BulkInv, DraftOK
<1> QED BY <1>1, <1>10, <1>11, <1>12, BrowserMoves

LEMMA FinishKeeps == ASSUME BulkInv, finishFormDraft PROVE BulkInv'
<1>1. /\ step = "idle" /\ run # NoRun /\ With("ok") = run.rows /\ run' = NoRun /\ draft' = NoRun
      /\ Browsing /\ UNCHANGED <<step, chunk, again, awaited>>
  BY DEF finishFormDraft, Browsing, request
<1>2. RunOK(run) /\ \A r \in run.rows : RowOK(run, r) BY <1>1, RunAtHand
<1>3. ASSUME NEW id \in RunIds, NEW r \in Begun(id) PROVE tickets[r] = 1
  <2>1. CASE id = run.id
    <3>1. r \in run.rows BY <1>2, <1>3, <2>1 DEF RunOK
    <3>2. run.state[r] = "ok" BY <1>1, <3>1 DEF With
    <3> QED BY <1>2, <3>1, <3>2 DEF RowOK
  <2>2. CASE id # run.id BY <1>2, <1>3, <2>2 DEF RunOK
  <2> QED BY <2>1, <2>2
<1>4. AskOK' BY <1>1 DEF BulkInv, AskOK
<1>5. \A x \in {run', draft'} : x # NoRun => RunOK(x) BY <1>1
<1> QED BY <1>1, <1>3, <1>4, <1>5, BrowserMoves

LEMMA BulkInitial == BulkInit => BulkInv
<1> SUFFICES ASSUME BulkInit PROVE BulkInv OBVIOUS
<1>1. /\ draft = NoRun /\ step = "idle" /\ chunk = 0 /\ again = FALSE /\ sent = 0 /\ awaited = 0
      /\ handlers = {} /\ undecided = {} /\ tickets = [r \in Rows |-> 0] /\ day = 1
      /\ receipts = [id \in RunIds |-> [r \in Rows |-> NoReceipt]]
  BY DEF BulkInit
<1>2. NoReceipt \in ReceiptRecord /\ NoReceipt.state = "none" BY DEF NoReceipt, ReceiptRecord
<1>3. JiraOK BY <1>1, <1>2 DEF JiraOK
<1>4. ServerOK BY <1>1 DEF ServerOK
<1>5. ASSUME NEW id \in RunIds PROVE \A r : r \in Rows => ~HasReceipt(id, r)
  BY <1>1, <1>2 DEF HasReceipt
<1>6. \A id \in RunIds : Begun(id) = {} BY <1>1, <1>5, BegunIs
<1>7. PICK cut \in Chunkings : run = newBulkRun(1, Rows, cut) BY DEF BulkInit
<1>8. PICK x : x = run OBVIOUS
<1>9. /\ RunTyped(x) /\ x.id = 1 /\ x.rows = Rows
      /\ x.attempted = {} /\ x.first = 0 /\ \A r \in x.rows : x.state[r] = "unset"
  <2>1. Rows \in SUBSET Rows /\ 1 \in RunIds BY BulkNumbers
  <2>2. x = newBulkRun(1, Rows, cut) BY <1>7, <1>8
  <2>3. NewlyMade(x, 1, Rows) BY <1>7, <2>1, <2>2, NewRun
  <2> QED BY <2>3 DEF NewlyMade
<1>10. ASSUME NEW r \in x.rows PROVE RowOK(x, r)
  <2>1. Clean(x.id, r) BY <1>1, <1>6, <1>9, BulkNumbers DEF Clean
  <2>2. ~HasReceipt(x.id, r) BY <1>5, <1>9, BulkNumbers
  <2>3. ~Live(r) BY <1>1, <1>9 DEF Live
  <2> QED BY <1>9, <2>1, <2>2, <2>3 DEF RowOK
<1>11. RunOK(x) BY <1>1, <1>6, <1>9, <1>10 DEF RunOK
<1>12. RunsOK /\ DraftOK BY <1>1, <1>6, <1>8, <1>11 DEF RunsOK, DraftOK
<1>13. AskOK BY <1>1 DEF AskOK
<1> QED BY <1>3, <1>4, <1>12, <1>13 DEF BulkInv

LEMMA BulkStep == BulkInv /\ [BulkNext]_bulkVars => BulkInv'
<1> SUFFICES ASSUME BulkInv, [BulkNext]_bulkVars PROVE BulkInv' OBVIOUS
<1>1. CASE UNCHANGED bulkVars
  <2>1. Browsing /\ UNCHANGED <<run, draft, step, chunk, doubt, again, awaited, response, sent>>
    BY <1>1 DEF bulkVars, window, request, Browsing
  <2>2. \A x \in {run', draft'} : x # NoRun => RunOK(x) BY <2>1 DEF BulkInv, RunsOK
  <2>3. draft' = NoRun => \A id \in RunIds : \A r \in Begun(id) : tickets[r] = 1
    BY <2>1 DEF BulkInv, DraftOK
  <2>4. AskOK'
    <3>1. /\ receipts' = receipts /\ tickets' = tickets /\ handlers' = handlers
          /\ undecided' = undecided
      BY <2>1 DEF Browsing, jira
    <3>2. (ChunkOK' <=> ChunkOK) /\ \A r : Fresh(r)' = Fresh(r)
      BY <2>1 DEF ChunkOK, Fresh, InChunk
    <3>3. \A r : Clean(run.id, r)' <=> Clean(run.id, r) BY <2>1, <3>1 DEF Clean, Begun
    <3>4. AnswerOK' <=> AnswerOK
      BY <2>1, <3>1 DEF AnswerOK, Fresh, InChunk, HasReceipt
    <3> QED BY <2>1, <3>2, <3>3, <3>4 DEF BulkInv, AskOK
  <2> QED BY <2>1, <2>2, <2>3, <2>4, BrowserMoves
<1>2. CASE Start \/ StoreAnswer \/ Reopen BY <1>2, PlainStepsKeep
<1>3. CASE NextChunk BY <1>3, NextChunkKeeps
<1>4. CASE SaveAttempt BY <1>4, SaveAttemptKeeps
<1>5. CASE Send BY <1>5, SendKeeps
<1>6. CASE Unanswered \/ Rejected \/ acceptChunk BY <1>6, AnswersKeep
<1>7. CASE retryFailed BY <1>7, RetryKeeps
<1>8. CASE finishFormDraft BY <1>8, FinishKeeps
<1>9. CASE \E h \in handlers : Validate(h) \/ \E r \in Rows : ServeRow(h, r)
  BY <1>9, ValidateKeeps, ServeRowKeeps
<1>10. CASE JiraDecides BY <1>10, JiraDecidesKeeps
<1>11. CASE DayEnds BY <1>11, DayEndsKeeps
<1> QED BY <1>1, <1>2, <1>3, <1>4, <1>5, <1>6, <1>7, <1>8, <1>9, <1>10, <1>11 DEF BulkNext

LEMMA BulkSafe == BulkSpec => []BulkInv
BY BulkInitial, BulkStep, PTL DEF BulkSpec

(* In whatever order windows are closed, answers are lost, requests repeated,      *)
(* receipts run out and failed rows sent under new ids, for any number of rows and *)
(* chunks, any replay window and any longer life of the receipts: a row makes at   *)
(* most one Jira ticket (OneTicketPerRow).                                         *)
THEOREM RowsMakeOneTicket == BulkSpec => []OneTicketPerRow
<1>1. BulkInv => OneTicketPerRow
  <2> SUFFICES ASSUME BulkInv, NEW r \in Rows PROVE tickets[r] <= 1 BY DEF OneTicketPerRow
  <2>1. tickets[r] \in {0, 1} BY DEF BulkInv, JiraOK
  <2> QED BY <2>1
<1> QED BY <1>1, BulkSafe, PTL

(* What the server was or may still be asked to create under an id is an attempt   *)
(* of that id in the stored draft, or was confirmed before the draft went over to  *)
(* another run, so a window that is reopened takes nothing that may exist for a    *)
(* ticket that was not begun (NothingSentIsForgotten).                             *)
THEOREM AttemptsAreRemembered == BulkSpec => []NothingSentIsForgotten
<1>1. BulkInv => NothingSentIsForgotten
  <2> SUFFICES ASSUME BulkInv, NEW id \in RunIds, NEW r \in Begun(id)
               PROVE  IF draft # NoRun /\ draft.id = id
                        THEN draft.chunk[r] \in draft.attempted
                        ELSE tickets[r] > 0 /\ (draft = NoRun \/ r \notin draft.rows)
    BY DEF NothingSentIsForgotten
  <2>1. CASE draft = NoRun BY <2>1 DEF BulkInv, DraftOK
  <2>2. CASE draft # NoRun
    <3>1. RunOK(draft) BY <2>2 DEF BulkInv, RunsOK
    <3> QED BY <2>2, <3>1 DEF RunOK
  <2> QED BY <2>1, <2>2
<1> QED BY <1>1, BulkSafe, PTL

-----------------------------------------------------------------------------
(* CacheMemo: the invariant *)

Displays == [value : Nat, current : BOOLEAN]
MemoRow == [revision : Nat, value : Displays, fresh : BOOLEAN, shown : BOOLEAN, pending : BOOLEAN]
MemoRequest == [path : Paths, revision : Nat, revalidate : BOOLEAN, answer : Displays]

MemoTyping ==
    /\ rows \in [Paths -> MemoRow]
    /\ nextRevision \in Nat
    /\ requests \subseteq MemoRequest
    /\ published \in [Paths -> Displays]
    /\ saved \in [Paths -> Nat] /\ written \in [Paths -> Nat] /\ lastWrite \in [Paths -> Nat]

PathOK(p) ==
    /\ rows[p].revision <= nextRevision
    /\ rows[p].revision = 0 => rows[p].value = Nothing
    /\ NotOlder(p, rows[p].value) /\ NotOlder(p, published[p])
    /\ lastWrite[p] <= saved[p] /\ written[p] <= saved[p]

\* A request whose row is still there was sent after the last write that evicted its path.
RequestOK(q) ==
    /\ q.revision \in 1..nextRevision
    /\ q.revision = rows[q.path].revision => NotOlder(q.path, q.answer)

MemoInv ==
    /\ MemoTyping
    /\ \A p \in Paths : PathOK(p)
    /\ \A q \in requests : RequestOK(q)

LEMMA DisplayTypes ==
    /\ Nothing \in Displays
    /\ \A v \in Nat, c \in BOOLEAN :
          Shown(v, c) \in Displays /\ Shown(v, c).value = v /\ Shown(v, c).current = c
    /\ \A d \in Displays : d.value \in Nat /\ d.current \in BOOLEAN
BY DEF Displays, Nothing, Shown, Undefined

LEMMA RowTypes ==
    /\ Absent \in MemoRow /\ Absent.revision = 0 /\ Absent.value = Nothing /\ ~Absent.pending
    /\ \A row \in MemoRow :
          /\ row.revision \in Nat /\ row.value \in Displays
          /\ row.fresh \in BOOLEAN /\ row.shown \in BOOLEAN /\ row.pending \in BOOLEAN
BY DisplayTypes DEF MemoRow, Absent

LEMMA RowPending ==
    ASSUME NEW row \in MemoRow, NEW b \in BOOLEAN, NEW changed,
           changed = [row EXCEPT !.pending = b]
    PROVE  /\ changed \in MemoRow /\ changed.revision = row.revision
           /\ changed.value = row.value
BY DEF MemoRow

LEMMA RowNew ==
    ASSUME NEW n \in Nat, NEW changed, changed = [Absent EXCEPT !.revision = n]
    PROVE  changed \in MemoRow /\ changed.revision = n /\ changed.value = Nothing
BY DisplayTypes DEF MemoRow, Absent

LEMMA RowAges ==
    ASSUME NEW row \in MemoRow, NEW b \in BOOLEAN, NEW changed,
           changed = [row EXCEPT !.fresh = FALSE, !.shown = b]
    PROVE  /\ changed \in MemoRow /\ changed.revision = row.revision
           /\ changed.value = row.value
BY DEF MemoRow

LEMMA RowAnswered ==
    ASSUME NEW row \in MemoRow, NEW d \in Displays, NEW f \in BOOLEAN, NEW b \in BOOLEAN,
           NEW changed,
           changed = [row EXCEPT !.value = d, !.fresh = f, !.shown = TRUE, !.pending = b]
    PROVE  /\ changed \in MemoRow /\ changed.revision = row.revision
           /\ changed.value = d
BY DEF MemoRow

LEMMA RequestTypes ==
    /\ \A p \in Paths, n \in Nat, b \in BOOLEAN :
          /\ Asking(p, n, b) \in MemoRequest /\ Asking(p, n, b).path = p
          /\ Asking(p, n, b).revision = n /\ Asking(p, n, b).answer = Nothing
    /\ \A q \in MemoRequest : /\ q.path \in Paths /\ q.revision \in Nat
                              /\ q.revalidate \in BOOLEAN /\ q.answer \in Displays
BY DisplayTypes DEF Asking, MemoRequest

LEMMA RequestServed ==
    ASSUME NEW q \in MemoRequest, NEW d \in Displays, NEW changed,
           changed = [q EXCEPT !.answer = d]
    PROVE  /\ changed \in MemoRequest /\ changed.path = q.path
           /\ changed.revision = q.revision /\ changed.answer = d
BY DEF MemoRequest

\* How rows change while nothing is written: a value that comes is not older.
RowsMove ==
    /\ rows' \in [Paths -> MemoRow]
    /\ nextRevision' \in Nat /\ nextRevision <= nextRevision'
    /\ \A p \in Paths :
         /\ \/ rows'[p].revision \in {rows[p].revision, 0}
            \/ rows'[p].revision = nextRevision + 1 /\ nextRevision' = nextRevision + 1
         /\ rows'[p].revision = 0 => rows'[p].value = Nothing
         /\ NotOlder(p, rows'[p].value)

LEMMA MemoMoves ==
    ASSUME MemoInv, RowsMove, UNCHANGED server,
           requests' \subseteq MemoRequest, published' \in [Paths -> Displays],
           \A p \in Paths : NotOlder(p, published'[p]),
           \A q \in requests' : q \in requests \/ RequestOK(q)'
    PROVE  MemoInv'
<1>1. MemoTyping' BY DEF MemoInv, MemoTyping, RowsMove, server
<1>2. \A p \in Paths, d \in Displays : NotOlder(p, d)' <=> NotOlder(p, d)
  BY DEF NotOlder, server
<1>3. ASSUME NEW p \in Paths PROVE PathOK(p)'
  <2>1. PathOK(p) /\ rows[p].revision \in Nat /\ nextRevision \in Nat
    BY RowTypes DEF MemoInv, MemoTyping
  <2>2. rows'[p].revision <= nextRevision' BY <2>1 DEF PathOK, RowsMove
  <2> QED BY <2>1, <2>2 DEF PathOK, RowsMove, NotOlder, server
<1>4. ASSUME NEW q \in requests, q \in requests' PROVE RequestOK(q)'
  <2>1. /\ RequestOK(q) /\ q \in MemoRequest /\ q.path \in Paths /\ q.revision \in Nat
        /\ nextRevision \in Nat /\ nextRevision' \in Nat /\ nextRevision <= nextRevision'
    BY RequestTypes DEF MemoInv, MemoTyping, RowsMove
  <2>2. q.revision \in 1..nextRevision BY <2>1 DEF RequestOK
  <2>3. q.revision = rows'[q.path].revision => q.revision = rows[q.path].revision
    BY <2>1, <2>2 DEF RowsMove
  <2>4. NotOlder(q.path, q.answer) => NotOlder(q.path, q.answer)' BY DEF NotOlder, server
  <2> QED BY <2>1, <2>2, <2>3, <2>4 DEF RequestOK
<1> QED BY <1>1, <1>3, <1>4 DEF MemoInv

LEMMA RowStays ==
    ASSUME MemoInv, NEW p \in Paths
    PROVE  /\ rows[p] \in MemoRow /\ rows[p].revision \in Nat /\ nextRevision \in Nat
           /\ rows[p].revision = 0 => rows[p].value = Nothing
           /\ NotOlder(p, rows[p].value) /\ NotOlder(p, published[p])
BY RowTypes DEF MemoInv, MemoTyping, PathOK

LEMMA NothingIsNotOlder == \A p : NotOlder(p, Nothing)
BY DEF NotOlder

\* Asking changes no value.
LEMMA FetchKeeps ==
    ASSUME MemoInv, NEW p \in Paths, NEW row \in MemoRow, NEW b \in BOOLEAN,
           Fetch(p, row, b), UNCHANGED <<published, server>>,
           \/ row = rows[p] /\ row.revision # 0 /\ UNCHANGED nextRevision
           \/ /\ row.revision = nextRevision + 1 /\ nextRevision' = nextRevision + 1
              /\ row.value = Nothing
    PROVE  MemoInv'
<1>1. /\ rows' = [rows EXCEPT ![p] = [row EXCEPT !.pending = TRUE]]
      /\ requests' \subseteq requests \cup {Asking(p, row.revision, b)}
  BY DEF Fetch, SetRow
<1>2. /\ rows'[p] \in MemoRow /\ rows'[p].revision = row.revision /\ rows'[p].value = row.value
      /\ \A o \in Paths : o # p => rows'[o] = rows[o]
      /\ rows' \in [Paths -> MemoRow]
  <2> DEFINE changed == [row EXCEPT !.pending = TRUE]
  <2>1. /\ changed \in MemoRow /\ changed.revision = row.revision /\ changed.value = row.value
    BY RowPending
  <2> HIDE DEF changed
  <2>2. rows' = [rows EXCEPT ![p] = changed] BY <1>1 DEF changed
  <2> QED BY <2>1, <2>2 DEF MemoInv, MemoTyping
<1>3. nextRevision \in Nat /\ row.revision \in Nat BY RowTypes DEF MemoInv, MemoTyping
<1>4. RowsMove
  <2>1. nextRevision' \in Nat /\ nextRevision <= nextRevision' BY <1>3
  <2>2. ASSUME NEW o \in Paths
        PROVE  /\ \/ rows'[o].revision \in {rows[o].revision, 0}
                  \/ rows'[o].revision = nextRevision + 1 /\ nextRevision' = nextRevision + 1
               /\ rows'[o].revision = 0 => rows'[o].value = Nothing
               /\ NotOlder(o, rows'[o].value)
    <3>1. CASE o # p BY <1>2, <3>1, RowStays
    <3>2. CASE o = p BY <1>2, <1>3, <3>2, RowStays, NothingIsNotOlder
    <3> QED BY <3>1, <3>2
  <2> QED BY <1>2, <2>1, <2>2 DEF RowsMove
<1>5. Asking(p, row.revision, b) \in MemoRequest BY <1>3, RequestTypes
<1>6. RequestOK(Asking(p, row.revision, b))'
  <2>1. row.revision \in 1..nextRevision'
    <3>1. row = rows[p] => row.revision <= nextRevision BY DEF MemoInv, PathOK
    <3> QED BY <1>3, <3>1
  <2>2. /\ Asking(p, row.revision, b).path = p /\ Asking(p, row.revision, b).answer = Nothing
        /\ Asking(p, row.revision, b).revision = row.revision
    BY <1>3, RequestTypes
  <2> QED BY <2>1, <2>2 DEF RequestOK, NotOlder
<1>7. /\ \A o \in Paths : NotOlder(o, published'[o])
      /\ published' \in [Paths -> Displays]
  BY RowStays DEF MemoInv, MemoTyping
<1>8. requests' \subseteq MemoRequest BY <1>1, <1>5 DEF MemoInv, MemoTyping
<1>9. \A q \in requests' : q \in requests \/ RequestOK(q)'
  BY <1>1, <1>6
<1> QED BY <1>4, <1>7, <1>8, <1>9, MemoMoves

LEMMA MemoInitial == MemoInit => MemoInv
<1> SUFFICES ASSUME MemoInit PROVE MemoInv OBVIOUS
<1>1. MemoTyping
  <2>1. rows \in [Paths -> MemoRow] BY RowTypes DEF MemoInit
  <2>2. published \in [Paths -> Displays] BY DisplayTypes DEF MemoInit
  <2> QED BY <2>1, <2>2 DEF MemoInit, MemoTyping
<1>2. ASSUME NEW p \in Paths PROVE PathOK(p)
  <2>1. rows[p] = Absent /\ published[p] = Nothing BY DEF MemoInit
  <2> QED BY <2>1, RowTypes, NothingIsNotOlder DEF PathOK, MemoInit
<1>3. requests = {} BY DEF MemoInit
<1> QED BY <1>1, <1>2, <1>3 DEF MemoInv

\* One row changes, or goes.
LEMMA OneRowMoves ==
    ASSUME MemoInv, NEW p \in Paths, NEW row \in MemoRow, rows' = [rows EXCEPT ![p] = row],
           UNCHANGED nextRevision, row.revision \in {rows[p].revision, 0},
           row.revision = 0 => row.value = Nothing, NotOlder(p, row.value)
    PROVE  RowsMove
<1>1. nextRevision \in Nat /\ rows \in [Paths -> MemoRow] BY DEF MemoInv, MemoTyping
<1>2. rows' \in [Paths -> MemoRow] /\ \A o \in Paths : rows'[o] = IF o = p THEN row ELSE rows[o]
  BY <1>1
<1>3. ASSUME NEW o \in Paths
      PROVE  /\ rows'[o].revision \in {rows[o].revision, 0}
             /\ rows'[o].revision = 0 => rows'[o].value = Nothing
             /\ NotOlder(o, rows'[o].value)
  BY <1>2, RowStays
<1> QED BY <1>1, <1>2, <1>3 DEF RowsMove

LEMMA NoRowMoves == ASSUME MemoInv, UNCHANGED <<rows, nextRevision>> PROVE RowsMove
<1>1. nextRevision \in Nat /\ rows \in [Paths -> MemoRow] BY DEF MemoInv, MemoTyping
<1>2. ASSUME NEW o \in Paths
      PROVE  /\ rows'[o].revision = rows[o].revision
             /\ rows'[o].revision = 0 => rows'[o].value = Nothing
             /\ NotOlder(o, rows'[o].value)
  BY RowStays
<1> QED BY <1>1, <1>2 DEF RowsMove

\* Views that are told nothing, and requests that end, need no argument.
LEMMA MemoQuiet ==
    ASSUME MemoInv, RowsMove, UNCHANGED server, requests' \subseteq requests,
           UNCHANGED published
    PROVE  MemoInv'
<1>1. requests' \subseteq MemoRequest /\ published' \in [Paths -> Displays]
  BY DEF MemoInv, MemoTyping
<1>2. \A p \in Paths : NotOlder(p, published'[p]) BY RowStays
<1> QED BY <1>1, <1>2, MemoMoves

LEMMA FetchRowKeeps ==
    ASSUME MemoInv, NEW p \in Paths, NEW b \in BOOLEAN, FetchRow(p, b),
           UNCHANGED <<published, server>>
    PROVE  MemoInv'
<1>1. CASE Has(p) /\ Fetch(p, rows[p], b) /\ UNCHANGED <<order, nextRevision>>
  <2>1. rows[p].revision # 0 BY <1>1 DEF Has
  <2>2. rows[p] \in MemoRow BY RowStays
  <2> QED BY <1>1, <2>1, <2>2, FetchKeeps
<1>2. CASE /\ nextRevision' = nextRevision + 1
           /\ Fetch(p, [Absent EXCEPT !.revision = nextRevision + 1], b)
  <2> DEFINE row == [Absent EXCEPT !.revision = nextRevision + 1]
  <2>1. nextRevision + 1 \in Nat BY RowStays
  <2>2. row \in MemoRow /\ row.revision = nextRevision + 1 /\ row.value = Nothing
    BY <2>1, RowNew
  <2>3. Fetch(p, row, b) BY <1>2
  <2> HIDE DEF row
  <2> QED BY <1>2, <2>2, <2>3, FetchKeeps
<1> QED BY <1>1, <1>2 DEF FetchRow

LEMMA GetKeeps ==
    ASSUME MemoInv, NEW p \in Paths, GetFresh(p) \/ GetShown(p) \/ GetMissing(p)
    PROVE  MemoInv'
<1>1. CASE GetFresh(p) BY <1>1, FetchRowKeeps DEF GetFresh
<1>2. CASE GetMissing(p) BY <1>2, FetchRowKeeps DEF GetMissing
<1>3. CASE GetShown(p)
  <2>1. rows[p].value # Nothing /\ UNCHANGED <<nextRevision, published, server>>
    BY <1>3 DEF GetShown
  <2>2. CASE UNCHANGED <<rows, requests>> BY <2>1, <2>2, NoRowMoves, MemoQuiet
  <2>3. CASE Fetch(p, rows[p], TRUE)
    <3>1. rows[p].revision # 0 /\ rows[p] \in MemoRow BY <2>1, RowStays
    <3> QED BY <2>1, <2>3, <3>1, FetchKeeps
  <2> QED BY <1>3, <2>2, <2>3 DEF GetShown
<1> QED BY <1>1, <1>2, <1>3

LEMMA RequestStays ==
    ASSUME MemoInv, NEW q \in requests
    PROVE  /\ q \in MemoRequest /\ q.path \in Paths /\ q.revision \in Nat /\ q.answer \in Displays
           /\ q.revision # 0 /\ q.revision \in 1..nextRevision /\ q.revalidate \in BOOLEAN
           /\ IsSameRow(q) => NotOlder(q.path, q.answer)
<1>1. q \in MemoRequest /\ RequestOK(q) BY DEF MemoInv, MemoTyping
<1>2. q.path \in Paths /\ q.revision \in Nat /\ q.answer \in Displays /\ q.revalidate \in BOOLEAN
  BY <1>1, RequestTypes
<1>3. nextRevision \in Nat BY DEF MemoInv, MemoTyping
<1>4. q.revision \in 1..nextRevision /\ q.revision # 0 BY <1>1, <1>2, <1>3 DEF RequestOK
<1> QED BY <1>1, <1>2, <1>4 DEF RequestOK, IsSameRow

\* An old version says that it is old.
LEMMA ServeKeeps == ASSUME MemoInv, NEW q \in requests, ServeAnswer(q) PROVE MemoInv'
<1>1. PICK answer \in {Shown(v, FALSE) : v \in 1..saved[q.path]} \cup {Shown(saved[q.path], TRUE)} :
         requests' = (requests \ {q}) \cup {[q EXCEPT !.answer = answer]}
  BY DEF ServeAnswer
<1>2. UNCHANGED <<rows, order, nextRevision, published, server>> BY DEF ServeAnswer
<1>3. saved[q.path] \in Nat /\ lastWrite[q.path] \in Nat /\ lastWrite[q.path] <= saved[q.path]
  BY RequestStays DEF MemoInv, MemoTyping, PathOK
<1>4. answer \in Displays /\ NotOlder(q.path, answer)
  <2>1. CASE answer = Shown(saved[q.path], TRUE) BY <1>3, <2>1, DisplayTypes DEF NotOlder
  <2>2. CASE \E v \in 1..saved[q.path] : answer = Shown(v, FALSE)
    <3>1. PICK v \in 1..saved[q.path] : answer = Shown(v, FALSE) BY <2>2
    <3>2. v \in Nat BY <1>3
    <3> QED BY <3>1, <3>2, DisplayTypes DEF NotOlder
  <2> QED BY <1>1, <2>1, <2>2
<1> DEFINE served == [q EXCEPT !.answer = answer]
<1>5. /\ served \in MemoRequest /\ served.path = q.path /\ served.revision = q.revision
      /\ served.answer = answer
  BY <1>4, RequestStays, RequestServed
<1>6. requests' = (requests \ {q}) \cup {served} BY <1>1
<1> HIDE DEF served
<1>7. RequestOK(served)'
  BY <1>2, <1>4, <1>5, RequestStays DEF RequestOK, NotOlder, server
<1>8. requests' \subseteq MemoRequest BY <1>5, <1>6 DEF MemoInv, MemoTyping
<1>9. /\ published' \in [Paths -> Displays] /\ \A p \in Paths : NotOlder(p, published'[p])
      /\ RowsMove /\ UNCHANGED server
  BY <1>2, RowStays, NoRowMoves DEF MemoInv, MemoTyping
<1> QED BY <1>6, <1>7, <1>8, <1>9, MemoMoves

LEMMA DeleteMoves ==
    ASSUME MemoInv, NEW p \in Paths, Delete(p), UNCHANGED nextRevision
    PROVE  RowsMove
BY OneRowMoves, RowTypes, NothingIsNotOlder DEF Delete, SetRow

LEMMA TellKeeps ==
    ASSUME MemoInv, RowsMove, UNCHANGED server, requests' \subseteq requests,
           NEW p \in Paths, published' = [published EXCEPT ![p] = Nothing]
    PROVE  MemoInv'
<1>1. requests' \subseteq MemoRequest /\ published' \in [Paths -> Displays]
  BY DisplayTypes DEF MemoInv, MemoTyping
<1>2. \A o \in Paths : published'[o] = IF o = p THEN Nothing ELSE published[o]
  BY DEF MemoInv, MemoTyping
<1>3. \A o \in Paths : NotOlder(o, published'[o]) BY <1>2, RowStays, NothingIsNotOlder
<1> QED BY <1>1, <1>3, MemoMoves

LEMMA SmallAnswersKeep ==
    ASSUME MemoInv, NEW q \in requests, AnswerEvicted(q) \/ AnswerKeeps(q) \/ AnswerDrops(q)
    PROVE  MemoInv'
<1>1. q.path \in Paths BY RequestStays
<1>2. CASE AnswerEvicted(q) BY <1>2, NoRowMoves, MemoQuiet DEF AnswerEvicted
<1>3. CASE AnswerKeeps(q)
  <2>1. UNCHANGED <<nextRevision, published, server>> /\ requests' \subseteq requests
    BY <1>3 DEF AnswerKeeps
  <2>2. RowsMove
    <3>1. CASE Delete(q.path) BY <1>1, <2>1, <3>1, DeleteMoves
    <3>2. CASE SetRow(q.path, [rows[q.path] EXCEPT !.pending = FALSE])
      <4> DEFINE row == [rows[q.path] EXCEPT !.pending = FALSE]
      <4>1. /\ row \in MemoRow /\ row.revision = rows[q.path].revision
            /\ row.value = rows[q.path].value
        BY <1>1, RowPending, RowStays
      <4>2. rows' = [rows EXCEPT ![q.path] = row] BY <3>2 DEF SetRow
      <4> HIDE DEF row
      <4>3. /\ row.revision \in {rows[q.path].revision, 0} /\ NotOlder(q.path, row.value)
            /\ row.revision = 0 => row.value = Nothing
        <5>1. /\ rows[q.path].revision = 0 => rows[q.path].value = Nothing
              /\ NotOlder(q.path, rows[q.path].value)
          BY <1>1, RowStays
        <5> QED BY <4>1, <5>1
      <4> QED BY <1>1, <2>1, <4>1, <4>2, <4>3, OneRowMoves
    <3> QED BY <1>3, <3>1, <3>2 DEF AnswerKeeps
  <2> QED BY <2>1, <2>2, MemoQuiet
<1>4. CASE AnswerDrops(q)
  <2>1. UNCHANGED <<nextRevision, server>> /\ requests' \subseteq requests /\ Delete(q.path)
    BY <1>4 DEF AnswerDrops
  <2>2. RowsMove BY <1>1, <2>1, DeleteMoves
  <2>3. published' \in {published, [published EXCEPT ![q.path] = Nothing]}
    BY <1>4 DEF AnswerDrops
  <2> QED BY <1>1, <2>1, <2>2, <2>3, MemoQuiet, TellKeeps
<1> QED BY <1>2, <1>3, <1>4

\* The row that takes the answer is the row that asked for it, so no write came between.
LEMMA AnswerIsKept == ASSUME MemoInv, NEW q \in requests, Answer(q) PROVE MemoInv'
<1> DEFINE p == q.path
           asksAgain == ~q.revalidate /\ ~q.answer.current
           row == [rows[p] EXCEPT !.value = q.answer, !.fresh = q.answer.current, !.shown = TRUE,
                                  !.pending = asksAgain]
           dropped == IF Len(order) > MaxRows THEN {Head(order)} ELSE {}
<1>1. /\ IsSameRow(q) /\ UNCHANGED <<nextRevision, server>>
      /\ rows' = [o \in Paths |-> IF o \in dropped THEN Absent ELSE IF o = p THEN row ELSE rows[o]]
      /\ requests' = (requests \ {q}) \cup
                     (IF asksAgain /\ p \notin dropped THEN {Asking(p, q.revision, TRUE)} ELSE {})
      /\ published' = IF q.revalidate THEN [published EXCEPT ![p] = q.answer] ELSE published
  BY Zenon DEF Answer
<1>2. /\ p \in Paths /\ q.revision \in Nat /\ q.revision # 0 /\ q.answer \in Displays
      /\ q.revision \in 1..nextRevision /\ NotOlder(p, q.answer) /\ q.answer.current \in BOOLEAN
      /\ rows[p].revision = q.revision /\ asksAgain \in BOOLEAN
  BY <1>1, RequestStays, DisplayTypes DEF IsSameRow
<1>3. row \in MemoRow /\ row.revision = rows[p].revision /\ row.value = q.answer
  <2> HIDE DEF asksAgain
  <2>1. rows[p] \in MemoRow BY <1>2, RowStays
  <2>2. /\ q.answer \in Displays /\ q.answer.current \in BOOLEAN /\ asksAgain \in BOOLEAN
        /\ row = [rows[p] EXCEPT !.value = q.answer, !.fresh = q.answer.current, !.shown = TRUE,
                                 !.pending = asksAgain]
    BY <1>2
  <2> HIDE DEF row, p
  <2> QED BY <2>1, <2>2 DEF MemoRow
<1> HIDE DEF dropped, row
<1>4. /\ rows' \in [Paths -> MemoRow]
      /\ \A o \in Paths : \/ rows'[o] = Absent
                          \/ o = p /\ rows'[o] = row
                          \/ rows'[o] = rows[o]
  BY <1>1, <1>3, RowTypes, RowStays
<1>5. RowsMove
  <2>1. ASSUME NEW o \in Paths
        PROVE  /\ rows'[o].revision \in {rows[o].revision, 0}
               /\ rows'[o].revision = 0 => rows'[o].value = Nothing
               /\ NotOlder(o, rows'[o].value)
    <3>1. CASE rows'[o] = Absent BY <3>1, RowTypes, NothingIsNotOlder
    <3>2. CASE o = p /\ rows'[o] = row BY <1>2, <1>3, <3>2
    <3>3. CASE rows'[o] = rows[o] BY <3>3, RowStays
    <3> QED BY <1>4, <3>1, <3>2, <3>3
  <2>2. nextRevision \in Nat /\ nextRevision' = nextRevision BY <1>1, <1>2, RowStays
  <2> QED BY <1>4, <2>1, <2>2 DEF RowsMove
<1>6. published' \in [Paths -> Displays] /\ \A o \in Paths : NotOlder(o, published'[o])
  BY <1>1, <1>2, RowStays DEF MemoInv, MemoTyping
<1>7. /\ Asking(p, q.revision, TRUE) \in MemoRequest /\ RequestOK(Asking(p, q.revision, TRUE))'
  <2> DEFINE a == Asking(p, q.revision, TRUE)
  <2>1. a \in MemoRequest /\ a.revision = q.revision /\ a.answer = Nothing
    BY <1>2, RequestTypes
  <2>2. q.revision \in 1..nextRevision' BY <1>1, <1>2
  <2>3. \A o : NotOlder(o, Nothing)' BY DEF NotOlder
  <2> HIDE DEF a
  <2>4. RequestOK(a)' BY <2>1, <2>2, <2>3 DEF RequestOK
  <2> QED BY <2>1, <2>4 DEF a
<1> HIDE DEF asksAgain
<1>8. \A r \in requests' : r \in requests \/ r = Asking(p, q.revision, TRUE) BY <1>1
<1>9. requests' \subseteq MemoRequest BY <1>7, <1>8 DEF MemoInv, MemoTyping
<1> QED BY <1>1, <1>5, <1>6, <1>7, <1>8, <1>9, MemoMoves

\* Time and preferences change no value.
LEMMA OthersKeep ==
    ASSUME MemoInv, (\E p \in Paths : Clear(p) \/ Lapse(p)) \/ configure
    PROVE  MemoInv'
<1>1. CASE \E p \in Paths : Clear(p) BY <1>1, DeleteMoves, MemoQuiet DEF Clear
<1>2. CASE \E p \in Paths : Lapse(p)
  <2>1. PICK p \in Paths : Lapse(p) BY <1>2
  <2>2. PICK shown \in {rows[p].shown, FALSE} :
           SetRow(p, [rows[p] EXCEPT !.fresh = FALSE, !.shown = shown])
    BY <2>1 DEF Lapse
  <2> DEFINE row == [rows[p] EXCEPT !.fresh = FALSE, !.shown = shown]
  <2>3. shown \in BOOLEAN BY <2>2, RowStays, RowTypes
  <2>4. row \in MemoRow /\ row.revision = rows[p].revision /\ row.value = rows[p].value
    BY <2>3, RowStays, RowAges
  <2>5. rows' = [rows EXCEPT ![p] = row] BY <2>2 DEF SetRow
  <2> HIDE DEF row
  <2>6. RowsMove BY <2>1, <2>4, <2>5, RowStays, OneRowMoves DEF Lapse
  <2> QED BY <2>1, <2>6, MemoQuiet DEF Lapse
<1>3. CASE configure
  <2>1. PICK hidden \in SUBSET Paths :
          rows' = [p \in Paths |-> IF rows[p].value = Nothing THEN rows[p]
                                   ELSE [rows[p] EXCEPT !.fresh = FALSE,
                                                        !.shown = @ /\ p \notin hidden]]
    BY <1>3 DEF configure
  <2>2. UNCHANGED <<order, nextRevision, requests, published, server>> BY <1>3 DEF configure
  <2>3. ASSUME NEW p \in Paths
        PROVE  /\ rows'[p] \in MemoRow /\ rows'[p].revision = rows[p].revision
               /\ rows'[p].value = rows[p].value
    <3> DEFINE b == rows[p].shown /\ p \notin hidden
    <3>1. rows[p] \in MemoRow BY RowStays
    <3>2. b \in BOOLEAN OBVIOUS
    <3>3. rows'[p] = IF rows[p].value = Nothing THEN rows[p]
                     ELSE [rows[p] EXCEPT !.fresh = FALSE, !.shown = b]
      BY <2>1
    <3> HIDE DEF b
    <3> DEFINE aged == [rows[p] EXCEPT !.fresh = FALSE, !.shown = b]
    <3>4. aged \in MemoRow /\ aged.revision = rows[p].revision /\ aged.value = rows[p].value
      BY <3>1, <3>2, RowAges
    <3>5. rows'[p] \in {rows[p], aged} BY <3>3
    <3> HIDE DEF aged
    <3> QED BY <3>1, <3>4, <3>5
  <2>4. rows' \in [Paths -> MemoRow] BY <2>1, <2>3
  <2>5. nextRevision \in Nat /\ nextRevision' = nextRevision
    BY <2>2 DEF MemoInv, MemoTyping
  <2>6. RowsMove BY <2>3, <2>4, <2>5, RowStays DEF RowsMove
  <2> QED BY <2>2, <2>6, MemoQuiet
<1> QED BY <1>1, <1>2, <1>3

LEMMA WritePathKeeps == ASSUME MemoInv, NEW p \in Paths, WritePath(p) PROVE MemoInv'
<1>1. /\ saved' = [saved EXCEPT ![p] = @ + 1] /\ written' = [written EXCEPT ![p] = saved[p] + 1]
      /\ UNCHANGED <<rows, order, nextRevision, requests, published, lastWrite>>
  BY DEF WritePath
<1>2. MemoTyping' BY <1>1 DEF MemoInv, MemoTyping
<1>3. ASSUME NEW o \in Paths PROVE PathOK(o)'
  <2>1. PathOK(o) /\ saved[o] \in Nat /\ lastWrite[o] \in Nat /\ written[o] \in Nat
    BY DEF MemoInv, MemoTyping
  <2>2. /\ saved'[o] = IF o = p THEN saved[o] + 1 ELSE saved[o]
        /\ written'[o] = IF o = p THEN saved[o] + 1 ELSE written[o]
    BY <1>1 DEF MemoInv, MemoTyping
  <2>3. NotOlder(o, rows[o].value)' /\ NotOlder(o, published[o])'
    BY <1>1, <2>1 DEF PathOK, NotOlder
  <2> QED BY <1>1, <2>1, <2>2, <2>3 DEF PathOK
<1>4. ASSUME NEW q \in requests' PROVE RequestOK(q)'
  BY <1>1, <1>4 DEF MemoInv, RequestOK, NotOlder
<1> QED BY <1>2, <1>3, <1>4 DEF MemoInv

\* The write's answer takes the row away, and with it the requests that may be older.
LEMMA EvictKeeps == ASSUME MemoInv, NEW p \in Paths, Evict(p) PROVE MemoInv'
<1>1. /\ lastWrite' = [lastWrite EXCEPT ![p] = written[p]]
      /\ written' = [written EXCEPT ![p] = 0]
      /\ rows' = [rows EXCEPT ![p] = Absent]
      /\ published' = [published EXCEPT ![p] = Nothing]
      /\ UNCHANGED <<nextRevision, requests, saved>>
  BY DEF Evict, Delete, SetRow
<1>2. MemoTyping' BY <1>1, RowTypes, DisplayTypes DEF MemoInv, MemoTyping
<1>3. /\ rows'[p] = Absent /\ published'[p] = Nothing
      /\ lastWrite'[p] = written[p] /\ written'[p] = 0
      /\ \A o \in Paths : o # p => /\ rows'[o] = rows[o] /\ published'[o] = published[o]
                                  /\ lastWrite'[o] = lastWrite[o] /\ written'[o] = written[o]
  BY <1>1 DEF MemoInv, MemoTyping
<1>4. ASSUME NEW o \in Paths PROVE PathOK(o)'
  <2>1. PathOK(o) /\ saved[o] \in Nat /\ written[o] \in Nat /\ nextRevision \in Nat
    BY DEF MemoInv, MemoTyping
  <2>2. CASE o # p
    BY <1>1, <1>3, <2>1, <2>2 DEF PathOK, NotOlder
  <2>3. CASE o = p
    BY <1>1, <1>3, <2>1, <2>3, RowTypes DEF PathOK, NotOlder
  <2> QED BY <2>2, <2>3
<1>5. ASSUME NEW q \in requests' PROVE RequestOK(q)'
  <2>1. q \in requests BY <1>1
  <2>2. q.revision # 0 /\ q.path \in Paths /\ q.revision \in 1..nextRevision /\ RequestOK(q)
    BY <2>1, RequestStays DEF MemoInv
  <2>3. CASE q.path = p BY <1>1, <1>3, <2>2, <2>3, RowTypes DEF RequestOK
  <2>4. CASE q.path # p BY <1>1, <1>3, <2>2, <2>4 DEF RequestOK, NotOlder
  <2> QED BY <2>3, <2>4
<1> QED BY <1>2, <1>4, <1>5 DEF MemoInv

LEMMA MemoStep == MemoInv /\ [MemoNext]_memoVars => MemoInv'
<1> SUFFICES ASSUME MemoInv, [MemoNext]_memoVars PROVE MemoInv' OBVIOUS
<1>1. CASE UNCHANGED memoVars
  <2>1. UNCHANGED <<rows, nextRevision, requests, published, server>>
    BY <1>1 DEF memoVars, server
  <2> QED BY <2>1, NoRowMoves, MemoQuiet
<1>2. CASE \E p \in Paths : GetFresh(p) \/ GetShown(p) \/ GetMissing(p) BY <1>2, GetKeeps
<1>3. CASE \E p \in Paths : WritePath(p) BY <1>3, WritePathKeeps
<1>4. CASE \E p \in Paths : Evict(p) BY <1>4, EvictKeeps
<1>5. CASE (\E p \in Paths : Clear(p) \/ Lapse(p)) \/ configure BY <1>5, OthersKeep
<1>6. CASE \E q \in requests : ServeAnswer(q) BY <1>6, ServeKeeps
<1>7. CASE \E q \in requests : TakeAnswer(q)
  BY <1>7, SmallAnswersKeep, AnswerIsKept DEF TakeAnswer
<1> QED BY <1>1, <1>2, <1>3, <1>4, <1>5, <1>6, <1>7 DEF MemoNext

(* Whatever requests, writes, evictions and clears interleave, for any number of   *)
(* paths and any limit of the cache: once a write of this window was answered,     *)
(* neither the cache nor the views it tells take a value from before that write    *)
(* for a current one (DisplayNotOlder).                                            *)
THEOREM DisplaysAreNotOlder == MemoSpec => []DisplayNotOlder
<1>1. MemoInv => DisplayNotOlder BY DEF MemoInv, PathOK, DisplayNotOlder
<1> QED BY <1>1, MemoInitial, MemoStep, PTL DEF MemoSpec

==============================================================================
