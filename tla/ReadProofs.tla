------------------------------- MODULE ReadProofs -------------------------------
(***************************************************************************)
(* Theorems about reads that take several steps while others write: the    *)
(* searches (JqlCache), the saves of the configuration files that go by    *)
(* what a screen was shown (WorkspaceConfig), and the hierarchy reads      *)
(* (HierarchyRead).                                                        *)
(*                                                                         *)
(* A search sees the recorded writes because every generation has a floor, *)
(* what was known when it began, below which nothing falls that is kept    *)
(* under it (FloorsKeep); and because whatever is kept for all generations *)
(* is stored under a fence that every command moves after its write        *)
(* (FencesKeep, CommandOK); list reads have no fence, and what they store  *)
(* too late is remembered (SetRowStep).  Generations do not run out: each  *)
(* ends with a command that has made a write of its own (Counted).         *)
(*                                                                         *)
(* A save loses none because between its comparison of the revision and    *)
(* the replaced file it holds the one lock (SaveOK).                       *)
(*                                                                         *)
(* No descendant is lost because what was met is a row, or is named as     *)
(* unread, or is still to be read, and the children of a row that was read *)
(* have been met (TreeInv): at the end, the rows and what is named are     *)
(* closed under the edges that stayed.                                     *)
(***************************************************************************)
EXTENDS JqlCache, WorkspaceConfig, HierarchyRead, FiniteSetTheorems, TLAPS

-----------------------------------------------------------------------------
(* JqlCache *)

Pairs == [leaf : Nat, row : Nat]
SearchPlaces == {"idle", "begun", "leaf", "asked", "replied", "kept", "found", "hydrating",
                 "rowAsked", "rowReplied", "built", "answered", "failed", "listed"}
SearchRecords == [place : SearchPlaces, paged : BOOLEAN, generation : Nat,
                  leaf : Nat, row : Nat, floor : Pairs]
CommandPlaces == {"idle", "written", "invalidated", "affects", "evicted"}
CommandRecords == [place : CommandPlaces, moved : BOOLEAN, left : Pairs, hit : BOOLEAN]

Typing ==
    /\ issue \in Nat /\ generation \in Nat /\ leaf \in Nat /\ shared \in Nat
    /\ edges \in BOOLEAN /\ known \in Pairs
    /\ rows \in [Generations -> Nat] /\ snapshot \in [Generations -> Pairs]
    /\ search \in [Searches -> SearchRecords]
    /\ fences \in [Searches -> SUBSET {"leaf", "rows", "snapshot"}]
    /\ command \in [Writers -> CommandRecords]

\* A generation ends with a command of its own, and every command has made a write of its own.
Commanding == {w \in Writers : command[w].place # "idle"}
Counted ==
    /\ IsFiniteSet(Commanding)
    /\ generation + Cardinality(Commanding) < issue
    /\ issue <= MaxWrites + 1

\* Since its writes reached Jira, a command has ended every fence.
Invalidated(w) == command[w].place \in {"invalidated", "affects", "evicted"}
LeafSettled(w) ==
    \/ command[w].place = "evicted"
    \/ command[w].place = "affects" /\ ~command[w].hit

\* What is in the cache for all generations has seen the recorded writes, and those of a
\* command that is through with it.
CacheOK ==
    /\ known.leaf <= issue /\ known.row <= issue
    /\ leaf # None => leaf >= known.leaf /\ edges
    /\ shared # None => NotBehind(shared, known.row)
CommandOK(w) ==
    /\ command[w].left.leaf <= issue /\ command[w].left.row <= issue
    /\ ~command[w].moved => command[w].left.leaf = None
    /\ Invalidated(w) /\ shared # None => NotBehind(shared, command[w].left.row)
    /\ LeafSettled(w) /\ leaf # None => leaf >= command[w].left.leaf

\* So has what a search is about to put there under a fence that did not move.
HasLeafToStore(s) == search[s].place \in {"replied", "kept"} /\ Holds(s, "leaf")
HasRowToShare(s) ==
    \/ At(s, "replied") /\ Holds(s, "leaf")
    \/ At(s, "rowReplied") /\ Holds(s, "rows")
FenceOK(s) ==
    /\ At(s, "kept") => edges
    /\ HasLeafToStore(s) => search[s].leaf >= known.leaf
    /\ HasRowToShare(s) => search[s].row >= known.row
OvertakesNone(s, w) ==
    Invalidated(w) =>
        /\ HasLeafToStore(s) => search[s].leaf >= command[w].left.leaf
        /\ HasRowToShare(s) => search[s].row >= command[w].left.row

\* floors: what was known when a generation began.
FloorsOK(floors) ==
    /\ floors[generation] = known
    /\ \A g \in Generations : g <= generation =>
          floors[g].leaf <= known.leaf /\ floors[g].row <= known.row

\* What is kept under a generation does not fall behind its floor.
KeptOK(floors, g) ==
    /\ rows[g] # None => g <= generation /\ NotBehind(rows[g], floors[g].row)
    /\ snapshot[g] # NoSnapshot =>
          /\ g <= generation /\ snapshot[g].row # None
          /\ snapshot[g].leaf >= floors[g].leaf /\ NotBehind(snapshot[g].row, floors[g].row)

\* Nor does what a search has.
Searching(s) == search[s].place \notin {"idle", "failed", "listed"}
SearchOK(floors, s) ==
    Searching(s) =>
        /\ search[s].generation <= generation
        /\ search[s].floor = floors[search[s].generation]
        /\ search[s].place \notin {"begun", "leaf", "asked"} =>
              search[s].leaf >= search[s].floor.leaf
        /\ search[s].row # None => NotBehind(search[s].row, search[s].floor.row)
        /\ search[s].place \in {"replied", "kept", "rowReplied", "built", "answered"} =>
              search[s].row # None

FencesKeep ==
    /\ \A s \in Searches : FenceOK(s)
    /\ \A s \in Searches, w \in Writers : OvertakesNone(s, w)

FloorsKeep(floors) ==
    /\ FloorsOK(floors)
    /\ \A g \in Generations : KeptOK(floors, g)
    /\ \A s \in Searches : SearchOK(floors, s)

JqlOK(floors) ==
    /\ Typing /\ Counted /\ CacheOK
    /\ \A w \in Writers : CommandOK(w)
    /\ FencesKeep /\ FloorsKeep(floors)

JqlInv == \E floors \in [Generations -> Pairs] : JqlOK(floors)

USE DEF NotBehind

LEMMA JqlStarts == JqlInit => JqlInv
<1> SUFFICES ASSUME JqlInit PROVE JqlInv
    OBVIOUS
<1>1. Typing
    BY JqlAssumption
    DEF JqlInit, Typing, Generations, NoSnapshot, Pairs, SearchRecords, SearchPlaces, Resting,
        CommandRecords, CommandPlaces, Idle, None
<1>2. Counted
  <2>1. Commanding = {} BY DEF JqlInit, Commanding, Idle
  <2>2. IsFiniteSet(Commanding) /\ Cardinality(Commanding) = 0 BY <2>1, FS_EmptySet
  <2> QED BY <2>2, JqlAssumption DEF JqlInit, Counted
<1>3. CacheOK BY DEF JqlInit, CacheOK, NoSnapshot, None
<1>4. \A w \in Writers : CommandOK(w) /\ ~Invalidated(w)
    BY DEF JqlInit, CommandOK, Invalidated, LeafSettled, Idle, NoSnapshot, None
<1>5. FencesKeep
    BY <1>4 DEF JqlInit, FencesKeep, FenceOK, OvertakesNone, HasLeafToStore, HasRowToShare,
                Holds, At, Resting
<1> DEFINE floors == [g \in Generations |-> NoSnapshot]
<1>6. FloorsKeep(floors)
  <2>1. 0 \in Generations BY JqlAssumption DEF Generations
  <2>2. FloorsOK(floors) BY <2>1 DEF JqlInit, FloorsOK, NoSnapshot, None
  <2>3. \A g \in Generations : KeptOK(floors, g) BY DEF JqlInit, KeptOK
  <2>4. \A s \in Searches : SearchOK(floors, s) BY DEF JqlInit, SearchOK, Searching, Resting
  <2> QED BY <2>2, <2>3, <2>4 DEF FloorsKeep
<1>7. floors \in [Generations -> Pairs] BY DEF NoSnapshot, Pairs, None
<1>8. JqlOK(floors)
    BY <1>1, <1>2, <1>3, <1>4, <1>5, <1>6 DEF JqlOK
<1> QED BY <1>7, <1>8 DEF JqlInv

\* What a search reads is there.
LEMMA GenerationIsOne ==
    ASSUME Typing, Counted PROVE generation \in Generations
BY FS_CardinalityType, JqlAssumption DEF Typing, Counted, Generations

LEMMA SearchIsTyped ==
    ASSUME Typing, NEW s \in Searches
    PROVE  /\ search[s] \in SearchRecords
           /\ search[s].place \in SearchPlaces /\ search[s].paged \in BOOLEAN
           /\ search[s].generation \in Nat /\ search[s].leaf \in Nat /\ search[s].row \in Nat
           /\ search[s].floor \in Pairs
           /\ search[s].floor.leaf \in Nat /\ search[s].floor.row \in Nat
BY DEF Typing, SearchRecords, Pairs

LEMMA CommandIsTyped ==
    ASSUME Typing, NEW w \in Writers
    PROVE  /\ command[w] \in CommandRecords
           /\ command[w].place \in CommandPlaces /\ command[w].moved \in BOOLEAN
           /\ command[w].left \in Pairs /\ command[w].hit \in BOOLEAN
           /\ command[w].left.leaf \in Nat /\ command[w].left.row \in Nat
BY DEF Typing, CommandRecords, Pairs

\* A search goes on: its own part of the invariant, and what it has put into the cache.
LEMMA SearchGoes ==
    ASSUME NEW floors \in [Generations -> Pairs], JqlOK(floors),
           NEW s \in Searches, NEW now \in SearchRecords, Moves(s, now),
           UNCHANGED <<issue, generation, command, known, putBack>>,
           fences' \in [Searches -> SUBSET {"leaf", "rows", "snapshot"}],
           \A t \in Searches : t # s => fences'[t] = fences[t],
           \/ leaf' \in {None, leaf}
           \/ HasLeafToStore(s) /\ At(s, "kept") /\ leaf' = search[s].leaf,
           \/ shared' \in {None, shared}
           \/ HasRowToShare(s) /\ shared' = search[s].row,
           edges => edges', edges' \in BOOLEAN,
           rows' \in [Generations -> Nat], snapshot' \in [Generations -> Pairs],
           \A g \in Generations : KeptOK(floors, g)',
           SearchOK(floors, s)', FenceOK(s)', \A w \in Writers : OvertakesNone(s, w)'
    PROVE  JqlOK(floors)'
<1> USE DEF JqlOK
<1>1. /\ search' \in [Searches -> SearchRecords]
      /\ \A t \in Searches : t # s => search'[t] = search[t]
    BY DEF Typing, Moves
<1>2. leaf' \in Nat /\ shared' \in Nat
    BY SearchIsTyped DEF Typing, None
<1>3. Typing' BY <1>1, <1>2 DEF Typing
<1>4. Counted' BY DEF Counted, Commanding
<1>5. leaf' # None => edges'
    BY DEF CacheOK, FencesKeep, FenceOK
<1>6. leaf' # None => leaf' >= known.leaf BY DEF CacheOK, FencesKeep, FenceOK
<1>7. shared' # None => NotBehind(shared', known.row) BY DEF CacheOK, FencesKeep, FenceOK
<1>8. CacheOK' BY <1>5, <1>6, <1>7 DEF CacheOK
<1>9. ASSUME NEW w \in Writers PROVE CommandOK(w)'
  <2>1. LeafSettled(w) => Invalidated(w) BY DEF LeafSettled, Invalidated
  <2>2. CommandOK(w) /\ OvertakesNone(s, w) BY DEF FencesKeep
  <2>3. LeafSettled(w)' = LeafSettled(w) /\ Invalidated(w)' = Invalidated(w)
      BY DEF LeafSettled, Invalidated
  <2> QED BY <2>1, <2>2, <2>3 DEF CommandOK, OvertakesNone
<1>10. ASSUME NEW t \in Searches PROVE FenceOK(t)'
  <2>1. CASE t # s
      BY <1>1, <2>1 DEF FencesKeep, FenceOK, HasLeafToStore, HasRowToShare, Holds, At
  <2> QED BY <2>1
<1>11. ASSUME NEW t \in Searches, NEW w \in Writers PROVE OvertakesNone(t, w)'
  <2>1. CASE t # s
      BY <1>1, <2>1
      DEF FencesKeep, OvertakesNone, HasLeafToStore, HasRowToShare, Holds, At, Invalidated
  <2> QED BY <2>1
<1>12. FencesKeep' BY <1>10, <1>11 DEF FencesKeep
<1>13. FloorsOK(floors)' BY DEF FloorsKeep, FloorsOK
<1>14. ASSUME NEW t \in Searches PROVE SearchOK(floors, t)'
  <2>1. CASE t # s BY <1>1, <2>1 DEF FloorsKeep, SearchOK, Searching
  <2> QED BY <2>1
<1>15. FloorsKeep(floors)' BY <1>13, <1>14 DEF FloorsKeep
<1> QED BY <1>3, <1>4, <1>8, <1>9, <1>12, <1>15

\* A search that has nothing to store disturbs no fence.
LEMMA NothingToStore ==
    ASSUME NEW s \in Searches, search'[s].place \notin {"replied", "kept", "rowReplied"}
    PROVE  FenceOK(s)' /\ \A w \in Writers : OvertakesNone(s, w)'
BY DEF FenceOK, OvertakesNone, HasLeafToStore, HasRowToShare, At

\* A search goes on and leaves the cache as it is.
LEMMA SearchAlone ==
    ASSUME NEW floors \in [Generations -> Pairs], JqlOK(floors),
           NEW s \in Searches, NEW now \in SearchRecords, Moves(s, now),
           UNCHANGED <<issue, generation, cached, command, known, putBack>>,
           NEW held \in SUBSET {"leaf", "rows", "snapshot"},
           fences' = [fences EXCEPT ![s] = held] \/ UNCHANGED fences,
           SearchOK(floors, s)', FenceOK(s)', \A w \in Writers : OvertakesNone(s, w)'
    PROVE  JqlOK(floors)'
<1>1. UNCHANGED <<leaf, edges, rows, shared, snapshot>> BY DEF cached
<1>2. /\ fences' \in [Searches -> SUBSET {"leaf", "rows", "snapshot"}]
      /\ \A t \in Searches : t # s => fences'[t] = fences[t]
    BY DEF JqlOK, Typing
<1>3. \A g \in Generations : KeptOK(floors, g)' BY <1>1 DEF JqlOK, FloorsKeep, KeptOK
<1>4. edges \in BOOLEAN /\ rows \in [Generations -> Nat] /\ snapshot \in [Generations -> Pairs]
    BY DEF JqlOK, Typing
<1> QED BY <1>1, <1>2, <1>3, <1>4, SearchGoes

\* What is said of every search, of the one that moves.
LEMMA Moved ==
    ASSUME Typing, NEW s \in Searches, NEW now, Moves(s, now)
    PROVE  search'[s] = now
BY DEF Typing, Moves

LEMMA Placed ==
    ASSUME Typing, NEW s \in Searches, NEW place \in SearchPlaces, MovesTo(s, place)
    PROVE  /\ [search[s] EXCEPT !.place = place] \in SearchRecords
           /\ Moves(s, [search[s] EXCEPT !.place = place])
           /\ search'[s].place = place /\ search'[s].generation = search[s].generation
           /\ search'[s].floor = search[s].floor
           /\ search'[s].leaf = search[s].leaf /\ search'[s].row = search[s].row
<1> DEFINE now == [search[s] EXCEPT !.place = place]
<1>1. search'[s] = now BY Moved DEF MovesTo
<1>2. search[s] \in SearchRecords BY SearchIsTyped
<1>3. now \in SearchRecords BY <1>2 DEF SearchRecords
<1>4. /\ now.place = place /\ now.generation = search[s].generation
      /\ now.floor = search[s].floor /\ now.leaf = search[s].leaf /\ now.row = search[s].row
    BY <1>2 DEF SearchRecords
<1> QED BY <1>1, <1>3, <1>4 DEF MovesTo

\* A search that failed has nothing more to do.
LEMMA Failed ==
    ASSUME Typing, NEW s \in Searches, Fails(s) \/ Moves(s, Resting)
    PROVE  /\ \E now \in SearchRecords : Moves(s, now)
           /\ search'[s].place \in {"idle", "failed"}
<1> DEFINE failed == [Resting EXCEPT !.place = "failed"]
<1>1. failed \in SearchRecords /\ Resting \in SearchRecords
    BY DEF Resting, SearchRecords, SearchPlaces, Pairs, NoSnapshot, None
<1>2. failed.place = "failed" /\ Resting.place = "idle" BY DEF Resting
<1>3. CASE Fails(s)
  <2>1. search'[s] = failed BY <1>3, Moved DEF Fails
  <2> QED BY <1>1, <1>2, <1>3, <2>1 DEF Fails
<1>4. CASE Moves(s, Resting)
  <2>1. search'[s] = Resting BY <1>4, Moved
  <2> QED BY <1>1, <1>2, <1>4, <2>1
<1> QED BY <1>3, <1>4

LEMMA ReadFence ==
    ASSUME Typing, NEW s \in Searches, NEW name \in {"leaf", "rows", "snapshot"}, Reads(s, name)
    PROVE  \E held \in SUBSET {"leaf", "rows", "snapshot"} : fences' = [fences EXCEPT ![s] = held]
BY DEF Typing, Reads

\* A search has a generation that has begun.
LEMMA InGeneration ==
    ASSUME NEW floors, JqlOK(floors), NEW s \in Searches, Searching(s)
    PROVE  SearchOK(floors, s) /\ search[s].generation \in Generations
<1>1. SearchOK(floors, s) BY DEF JqlOK, FloorsKeep
<1>2. search[s].generation \in Nat /\ generation \in Generations
    BY GenerationIsOne, SearchIsTyped DEF JqlOK
<1> QED BY <1>1, <1>2, JqlAssumption DEF SearchOK, Generations

LEMMA BeginStep ==
    ASSUME NEW floors \in [Generations -> Pairs], JqlOK(floors),
           NEW s \in Searches, NEW paged \in BOOLEAN, Begin(s, paged)
    PROVE  JqlOK(floors)'
<1> DEFINE now == [Resting EXCEPT !.place = IF paged THEN "begun" ELSE "leaf", !.paged = paged,
                                  !.generation = generation, !.floor = known]
<1> USE DEF JqlOK
<1>1. Moves(s, now) /\ UNCHANGED <<issue, generation, cached, command, known, putBack, fences>>
    BY DEF Begin, upstream, others
<1>2. now \in SearchRecords
    BY DEF Typing, SearchRecords, SearchPlaces, Resting, None
<1>3. /\ now.place \in {"begun", "leaf"} /\ now.generation = generation
      /\ now.floor = known /\ now.row = None
    BY DEF Resting
<1>4. search'[s] = now BY <1>1, Moved
<1> HIDE DEF now
<1>5. FenceOK(s)' /\ \A w \in Writers : OvertakesNone(s, w)'
    BY <1>3, <1>4, NothingToStore
<1>6. SearchOK(floors, s)'
    BY <1>1, <1>3, <1>4 DEF SearchOK, FloorsKeep, FloorsOK, Typing
<1> QED BY <1>1, <1>2, <1>5, <1>6, SearchAlone

LEMMA FindSnapshotStep ==
    ASSUME NEW floors \in [Generations -> Pairs], JqlOK(floors),
           NEW s \in Searches, FindSnapshot(s)
    PROVE  JqlOK(floors)'
<1> DEFINE g == search[s].generation
           now == [search[s] EXCEPT !.place = "answered", !.leaf = snapshot[g].leaf,
                                    !.row = snapshot[g].row]
<1> USE DEF JqlOK
<1>1. At(s, "begun") /\ UNCHANGED <<issue, generation, cached, command, known, putBack>>
    BY DEF FindSnapshot, upstream, others
<1>2. SearchOK(floors, s) /\ Searching(s) /\ g \in Generations
    BY <1>1, InGeneration DEF Searching, At
<1>3. CASE snapshot[g] # NoSnapshot /\ Moves(s, now) /\ UNCHANGED fences
  <2>1. snapshot[g].leaf \in Nat /\ snapshot[g].row \in Nat
      BY <1>2 DEF Typing, Pairs
  <2>2. search[s] \in SearchRecords BY SearchIsTyped
  <2>3. now \in SearchRecords
      BY <2>1, <2>2 DEF SearchRecords, SearchPlaces
  <2>4. /\ now.place = "answered" /\ now.leaf = snapshot[g].leaf /\ now.row = snapshot[g].row
        /\ now.generation = g /\ now.floor = search[s].floor
      BY <2>2 DEF SearchRecords
  <2>5. search'[s] = now BY <1>3, Moved
  <2> HIDE DEF now
  <2>6. FenceOK(s)' /\ \A w \in Writers : OvertakesNone(s, w)'
      BY <2>4, <2>5, NothingToStore
  <2>7. KeptOK(floors, g) BY <1>2 DEF FloorsKeep
  <2>8. SearchOK(floors, s)'
      BY <1>1, <1>2, <1>3, <2>4, <2>5, <2>7 DEF SearchOK, KeptOK
  <2> QED BY <1>1, <1>3, <2>3, <2>6, <2>8, SearchAlone
<1>4. CASE MovesTo(s, "leaf") /\ Reads(s, "snapshot")
  <2>1. PICK held \in SUBSET {"leaf", "rows", "snapshot"} : fences' = [fences EXCEPT ![s] = held]
      BY <1>4, ReadFence
  <2>2. /\ [search[s] EXCEPT !.place = "leaf"] \in SearchRecords
        /\ Moves(s, [search[s] EXCEPT !.place = "leaf"])
        /\ search'[s].place = "leaf" /\ search'[s].generation = search[s].generation
        /\ search'[s].floor = search[s].floor
        /\ search'[s].leaf = search[s].leaf /\ search'[s].row = search[s].row
      BY <1>4, Placed DEF SearchPlaces
  <2>3. FenceOK(s)' /\ \A w \in Writers : OvertakesNone(s, w)' BY <2>2, NothingToStore
  <2>4. SearchOK(floors, s)' BY <1>1, <1>2, <2>2 DEF SearchOK
  <2> QED BY <1>1, <2>1, <2>2, <2>3, <2>4, SearchAlone
<1> QED BY <1>3, <1>4 DEF FindSnapshot

LEMMA EnterLeafStep ==
    ASSUME NEW floors \in [Generations -> Pairs], JqlOK(floors),
           NEW s \in Searches, EnterLeaf(s)
    PROVE  JqlOK(floors)'
<1> DEFINE now == [search[s] EXCEPT !.place = IF leaf = None THEN "asked" ELSE "found",
                                    !.leaf = leaf]
<1> USE DEF JqlOK
<1>1. /\ At(s, "leaf") /\ Moves(s, now) /\ Reads(s, "leaf")
      /\ UNCHANGED <<issue, generation, cached, command, known, putBack>>
    BY DEF EnterLeaf, upstream, others
<1>2. PICK held \in SUBSET {"leaf", "rows", "snapshot"} : fences' = [fences EXCEPT ![s] = held]
    BY <1>1, ReadFence
<1>3. search[s] \in SearchRecords BY SearchIsTyped
<1>4. now \in SearchRecords BY <1>3 DEF SearchRecords, SearchPlaces, Typing
<1>5. /\ now.place = (IF leaf = None THEN "asked" ELSE "found") /\ now.leaf = leaf
      /\ now.row = search[s].row /\ now.generation = search[s].generation
      /\ now.floor = search[s].floor
    BY <1>3 DEF SearchRecords
<1>6. search'[s] = now BY <1>1, Moved
<1> HIDE DEF now
<1>7. FenceOK(s)' /\ \A w \in Writers : OvertakesNone(s, w)'
    BY <1>5, <1>6, NothingToStore
<1>8. SearchOK(floors, s)'
  <2>1. SearchOK(floors, s) /\ Searching(s) /\ search[s].generation \in Generations
      BY <1>1, InGeneration DEF Searching, At
  <2>2. search[s].floor.leaf <= known.leaf
      BY <2>1 DEF SearchOK, FloorsKeep, FloorsOK
  <2>3. leaf # None => leaf >= search[s].floor.leaf
      BY <2>2, SearchIsTyped DEF CacheOK, Typing, Pairs
  <2> QED BY <1>1, <1>5, <1>6, <2>1, <2>3 DEF SearchOK
<1> QED BY <1>1, <1>2, <1>4, <1>7, <1>8, SearchAlone

\* What Jira answers has seen everything.
LEMMA ReplyIsNew ==
    ASSUME NEW floors \in [Generations -> Pairs], JqlOK(floors), NEW s \in Searches, Searching(s)
    PROVE  /\ issue \in Nat /\ issue # None
           /\ issue >= search[s].floor.leaf /\ issue >= search[s].floor.row
           /\ issue >= known.leaf /\ issue >= known.row
           /\ \A w \in Writers : issue >= command[w].left.leaf /\ issue >= command[w].left.row
<1> USE DEF JqlOK
<1>1. SearchOK(floors, s) /\ search[s].generation \in Generations BY InGeneration
<1>2. search[s].floor.leaf <= known.leaf /\ search[s].floor.row <= known.row
    BY <1>1 DEF SearchOK, FloorsKeep, FloorsOK
<1>3. issue \in Nat /\ known.leaf \in Nat /\ known.row \in Nat /\ generation \in Nat
    BY DEF Typing, Pairs
<1>4. issue # None BY <1>3, FS_CardinalityType DEF Counted, None
<1>5. issue >= known.leaf /\ issue >= known.row BY <1>3 DEF CacheOK
<1>6. \A w \in Writers : issue >= command[w].left.leaf /\ issue >= command[w].left.row
    BY <1>3, CommandIsTyped DEF CommandOK
<1> QED BY <1>2, <1>3, <1>4, <1>5, <1>6, SearchIsTyped

LEMMA ReplyLeafStep ==
    ASSUME NEW floors \in [Generations -> Pairs], JqlOK(floors),
           NEW s \in Searches, ReplyLeaf(s)
    PROVE  JqlOK(floors)'
<1> DEFINE now == [search[s] EXCEPT !.place = "replied", !.leaf = issue, !.row = issue]
<1> USE DEF JqlOK
<1>1. /\ At(s, "asked") /\ Moves(s, now)
      /\ UNCHANGED <<issue, generation, cached, command, known, putBack, fences>>
    BY DEF ReplyLeaf, upstream, others
<1>2. search[s] \in SearchRecords BY SearchIsTyped
<1>3. now \in SearchRecords BY <1>2 DEF SearchRecords, SearchPlaces, Typing
<1>4. /\ now.place = "replied" /\ now.leaf = issue /\ now.row = issue
      /\ now.generation = search[s].generation /\ now.floor = search[s].floor
    BY <1>2 DEF SearchRecords
<1>5. search'[s] = now BY <1>1, Moved
<1> HIDE DEF now
<1>6. SearchOK(floors, s) /\ Searching(s)
    BY <1>1, InGeneration DEF Searching, At
<1>7. FenceOK(s)'
    BY <1>1, <1>4, <1>5, <1>6, ReplyIsNew DEF FenceOK, At
<1>8. ASSUME NEW w \in Writers PROVE OvertakesNone(s, w)'
    BY <1>1, <1>4, <1>5, <1>6, ReplyIsNew DEF OvertakesNone
<1>9. SearchOK(floors, s)'
    BY <1>1, <1>4, <1>5, <1>6, ReplyIsNew DEF SearchOK
<1> QED BY <1>1, <1>3, <1>7, <1>8, <1>9, SearchAlone

LEMMA FailFetchStep ==
    ASSUME NEW floors \in [Generations -> Pairs], JqlOK(floors),
           NEW s \in Searches, FailFetch(s)
    PROVE  JqlOK(floors)'
<1> USE DEF JqlOK
<1>1. /\ Fails(s) /\ fences' = [fences EXCEPT ![s] = {}]
      /\ UNCHANGED <<issue, generation, cached, command, known, putBack>>
    BY DEF FailFetch, upstream, others
<1>2. PICK now \in SearchRecords : Moves(s, now) /\ search'[s].place \in {"idle", "failed"}
    BY <1>1, Failed
<1>3. FenceOK(s)' /\ \A w \in Writers : OvertakesNone(s, w)' BY <1>2, NothingToStore
<1>4. SearchOK(floors, s)' BY <1>2 DEF SearchOK, Searching
<1> QED BY <1>1, <1>2, <1>3, <1>4, SearchAlone

\* A row of a search is kept under its generation.
LEMMA RowIsKept ==
    ASSUME NEW floors \in [Generations -> Pairs], JqlOK(floors),
           NEW s \in Searches, Searching(s), NEW version \in Nat,
           NotBehind(version, search[s].floor.row),
           rows' = [rows EXCEPT ![search[s].generation] = version],
           UNCHANGED <<generation, snapshot, putBack>>
    PROVE  rows' \in [Generations -> Nat] /\ \A g \in Generations : KeptOK(floors, g)'
<1>1. SearchOK(floors, s) /\ search[s].generation \in Generations BY InGeneration
<1>2. rows' \in [Generations -> Nat] BY DEF JqlOK, Typing
<1>3. ASSUME NEW g \in Generations PROVE KeptOK(floors, g)'
  <2>1. KeptOK(floors, g) BY DEF JqlOK, FloorsKeep
  <2>2. CASE g = search[s].generation
    <3>1. rows'[g] = version BY <2>2 DEF JqlOK, Typing
    <3>2. g <= generation /\ NotBehind(version, floors[g].row) BY <1>1, <2>2 DEF SearchOK
    <3> QED BY <2>1, <3>1, <3>2 DEF KeptOK
  <2>3. CASE g # search[s].generation
    <3>1. rows'[g] = rows[g] BY <2>3 DEF JqlOK, Typing
    <3> QED BY <2>1, <3>1 DEF KeptOK
  <2> QED BY <2>2, <2>3
<1> QED BY <1>2, <1>3

LEMMA KeepRowsStep ==
    ASSUME NEW floors \in [Generations -> Pairs], JqlOK(floors),
           NEW s \in Searches, KeepRows(s)
    PROVE  JqlOK(floors)'
<1> USE DEF JqlOK
<1>1. /\ At(s, "replied") /\ MovesTo(s, "kept") /\ ShareRow(s, "leaf") /\ StoreRow(s)
      /\ edges' = TRUE
      /\ UNCHANGED <<issue, generation, leaf, snapshot, fences, command, known, putBack>>
    BY DEF KeepRows, upstream, others
<1>2. SearchOK(floors, s) /\ Searching(s)
    BY <1>1, InGeneration DEF Searching, At
<1>3. /\ [search[s] EXCEPT !.place = "kept"] \in SearchRecords
      /\ Moves(s, [search[s] EXCEPT !.place = "kept"])
      /\ search'[s].place = "kept" /\ search'[s].generation = search[s].generation
      /\ search'[s].floor = search[s].floor
      /\ search'[s].leaf = search[s].leaf /\ search'[s].row = search[s].row
    BY <1>1, Placed DEF SearchPlaces
<1>4. search[s].row \in Nat /\ NotBehind(search[s].row, search[s].floor.row)
    BY <1>1, <1>2, SearchIsTyped DEF SearchOK, At
<1>5. rows' \in [Generations -> Nat] /\ \A g \in Generations : KeptOK(floors, g)'
    BY <1>1, <1>2, <1>4, RowIsKept DEF StoreRow
<1>6. \/ shared' \in {None, shared}
      \/ HasRowToShare(s) /\ shared' = search[s].row
    BY <1>1 DEF ShareRow, HasRowToShare
<1>7. HasLeafToStore(s)' => HasLeafToStore(s)
    BY <1>1 DEF HasLeafToStore, Holds, At
<1>8. ~HasRowToShare(s)' BY <1>3 DEF HasRowToShare, At
<1>9. FenceOK(s)'
    BY <1>1, <1>3, <1>7, <1>8 DEF FencesKeep, FenceOK
<1>10. ASSUME NEW w \in Writers PROVE OvertakesNone(s, w)'
    BY <1>1, <1>3, <1>7, <1>8 DEF FencesKeep, OvertakesNone, Invalidated
<1>11. SearchOK(floors, s)' BY <1>1, <1>2, <1>3 DEF SearchOK, At
<1>12. snapshot \in [Generations -> Pairs] BY DEF Typing
<1> QED BY <1>1, <1>3, <1>5, <1>6, <1>9, <1>10, <1>11, <1>12, SearchGoes DEF Typing

LEMMA PublishLeafStep ==
    ASSUME NEW floors \in [Generations -> Pairs], JqlOK(floors),
           NEW s \in Searches, PublishLeaf(s)
    PROVE  JqlOK(floors)'
<1> USE DEF JqlOK
<1>1. /\ At(s, "kept") /\ MovesTo(s, "found") /\ StoreLeaf(s)
      /\ UNCHANGED <<issue, generation, edges, rows, shared, snapshot, fences, command, known, putBack>>
    BY DEF PublishLeaf, upstream, others
<1>2. SearchOK(floors, s) /\ Searching(s)
    BY <1>1, InGeneration DEF Searching, At
<1>3. /\ [search[s] EXCEPT !.place = "found"] \in SearchRecords
      /\ Moves(s, [search[s] EXCEPT !.place = "found"])
      /\ search'[s].place = "found" /\ search'[s].generation = search[s].generation
      /\ search'[s].floor = search[s].floor
      /\ search'[s].leaf = search[s].leaf /\ search'[s].row = search[s].row
    BY <1>1, Placed DEF SearchPlaces
<1>4. \/ leaf' \in {None, leaf}
      \/ HasLeafToStore(s) /\ At(s, "kept") /\ leaf' = search[s].leaf
    BY <1>1 DEF StoreLeaf, HasLeafToStore, At
<1>5. FenceOK(s)' /\ \A w \in Writers : OvertakesNone(s, w)' BY <1>3, NothingToStore
<1>6. SearchOK(floors, s)' BY <1>1, <1>2, <1>3 DEF SearchOK, At
<1>7. \A g \in Generations : KeptOK(floors, g)' BY <1>1 DEF FloorsKeep, KeptOK
<1> QED BY <1>1, <1>3, <1>4, <1>5, <1>6, <1>7, SearchGoes DEF Typing

LEMMA CheckLeafStep ==
    ASSUME NEW floors \in [Generations -> Pairs], JqlOK(floors),
           NEW s \in Searches, CheckLeaf(s)
    PROVE  JqlOK(floors)'
<1> USE DEF JqlOK
<1>1. At(s, "found") /\ UNCHANGED <<issue, generation, cached, command, known, putBack>>
    BY DEF CheckLeaf, upstream, others
<1>2. CASE Fails(s) /\ fences' = [fences EXCEPT ![s] = {}]
  <2>1. PICK now \in SearchRecords : Moves(s, now) /\ search'[s].place \in {"idle", "failed"}
      BY <1>2, Failed
  <2>2. FenceOK(s)' /\ \A w \in Writers : OvertakesNone(s, w)' BY <2>1, NothingToStore
  <2>3. SearchOK(floors, s)' BY <2>1 DEF SearchOK, Searching
  <2> QED BY <1>1, <1>2, <2>1, <2>2, <2>3, SearchAlone
<1> DEFINE place == IF search[s].row # None THEN AfterLeaf(s) ELSE "hydrating"
<1>3. CASE MovesTo(s, place) /\ UNCHANGED fences
  <2>1. /\ place \in {"built", "answered", "hydrating"}
        /\ place # "hydrating" => search[s].row # None
      BY DEF AfterLeaf
  <2> HIDE DEF place
  <2>2. place \in SearchPlaces BY <2>1 DEF SearchPlaces
  <2>3. /\ [search[s] EXCEPT !.place = place] \in SearchRecords
        /\ Moves(s, [search[s] EXCEPT !.place = place])
        /\ search'[s].place = place /\ search'[s].generation = search[s].generation
        /\ search'[s].floor = search[s].floor
        /\ search'[s].leaf = search[s].leaf /\ search'[s].row = search[s].row
      BY <1>3, <2>2, Placed
  <2>4. FenceOK(s)' /\ \A w \in Writers : OvertakesNone(s, w)' BY <2>1, <2>3, NothingToStore
  <2>5. SearchOK(floors, s) /\ Searching(s)
      BY <1>1, InGeneration DEF Searching, At
  <2>6. SearchOK(floors, s)' BY <1>1, <2>1, <2>3, <2>5 DEF SearchOK, At
  <2> QED BY <1>1, <1>3, <2>3, <2>4, <2>6, SearchAlone
<1> QED BY <1>2, <1>3 DEF CheckLeaf

LEMMA HydrateStep ==
    ASSUME NEW floors \in [Generations -> Pairs], JqlOK(floors),
           NEW s \in Searches, Hydrate(s)
    PROVE  JqlOK(floors)'
<1> USE DEF JqlOK
<1> DEFINE g == search[s].generation
<1>1. At(s, "hydrating")
      /\ UNCHANGED <<issue, generation, leaf, edges, shared, snapshot, fences, command, known, putBack>>
    BY DEF Hydrate, upstream, others
<1>2. PICK version \in {rows[g]} \cup {v \in {shared} : rows[g] = None} :
          /\ version # None
          /\ Moves(s, [search[s] EXCEPT !.place = AfterLeaf(s), !.row = version])
          /\ rows' = [rows EXCEPT ![g] = version]
    BY DEF Hydrate
<1>3. SearchOK(floors, s) /\ Searching(s) /\ g \in Generations
    BY <1>1, InGeneration DEF Searching, At
<1>4. version \in Nat BY <1>2, <1>3 DEF Typing
<1>5. NotBehind(version, search[s].floor.row)
  <2>1. CASE version = rows[g]
      BY <1>2, <1>3, <2>1 DEF FloorsKeep, KeptOK, SearchOK
  <2>2. CASE version = shared
    <3>1. NotBehind(shared, known.row) BY <1>2, <2>2 DEF CacheOK
    <3>2. search[s].floor.row <= known.row
        BY <1>3 DEF SearchOK, FloorsKeep, FloorsOK
    <3> QED BY <1>4, <2>2, <3>1, <3>2, SearchIsTyped DEF Typing, Pairs
  <2> QED BY <1>2, <2>1, <2>2
<1> DEFINE now == [search[s] EXCEPT !.place = AfterLeaf(s), !.row = version]
<1>6. search[s] \in SearchRecords BY SearchIsTyped
<1>7. AfterLeaf(s) \in {"built", "answered"} BY DEF AfterLeaf
<1>8. now \in SearchRecords BY <1>4, <1>6, <1>7 DEF SearchRecords, SearchPlaces
<1>9. /\ now.place = AfterLeaf(s) /\ now.row = version /\ now.leaf = search[s].leaf
      /\ now.generation = g /\ now.floor = search[s].floor
    BY <1>6 DEF SearchRecords
<1>10. search'[s] = now BY <1>2, Moved
<1>11. Moves(s, now) BY <1>2
<1> HIDE DEF now
<1>12. FenceOK(s)' /\ \A w \in Writers : OvertakesNone(s, w)'
    BY <1>7, <1>9, <1>10, NothingToStore
<1>13. SearchOK(floors, s)'
    BY <1>1, <1>2, <1>3, <1>5, <1>7, <1>9, <1>10 DEF SearchOK, At
<1>14. rows' \in [Generations -> Nat] /\ \A h \in Generations : KeptOK(floors, h)'
    BY <1>1, <1>2, <1>3, <1>4, <1>5, RowIsKept
<1> QED BY <1>1, <1>8, <1>11, <1>12, <1>13, <1>14, SearchGoes DEF Typing

LEMMA AskRowStep ==
    ASSUME NEW floors \in [Generations -> Pairs], JqlOK(floors),
           NEW s \in Searches, AskRow(s)
    PROVE  JqlOK(floors)'
<1> USE DEF JqlOK
<1>1. /\ At(s, "hydrating") /\ MovesTo(s, "rowAsked") /\ Reads(s, "rows")
      /\ UNCHANGED <<issue, generation, cached, command, known, putBack>>
    BY DEF AskRow, upstream, others
<1>2. PICK held \in SUBSET {"leaf", "rows", "snapshot"} : fences' = [fences EXCEPT ![s] = held]
    BY <1>1, ReadFence
<1>3. /\ [search[s] EXCEPT !.place = "rowAsked"] \in SearchRecords
      /\ Moves(s, [search[s] EXCEPT !.place = "rowAsked"])
      /\ search'[s].place = "rowAsked" /\ search'[s].generation = search[s].generation
      /\ search'[s].floor = search[s].floor
      /\ search'[s].leaf = search[s].leaf /\ search'[s].row = search[s].row
    BY <1>1, Placed DEF SearchPlaces
<1>4. FenceOK(s)' /\ \A w \in Writers : OvertakesNone(s, w)' BY <1>3, NothingToStore
<1>5. SearchOK(floors, s) /\ Searching(s)
    BY <1>1, InGeneration DEF Searching, At
<1>6. SearchOK(floors, s)' BY <1>1, <1>3, <1>5 DEF SearchOK, At
<1> QED BY <1>1, <1>2, <1>3, <1>4, <1>6, SearchAlone

LEMMA ReplyRowStep ==
    ASSUME NEW floors \in [Generations -> Pairs], JqlOK(floors),
           NEW s \in Searches, ReplyRow(s)
    PROVE  JqlOK(floors)'
<1> DEFINE now == [search[s] EXCEPT !.place = "rowReplied", !.row = issue]
<1> USE DEF JqlOK
<1>1. /\ At(s, "rowAsked") /\ Moves(s, now)
      /\ UNCHANGED <<issue, generation, cached, command, known, putBack, fences>>
    BY DEF ReplyRow, upstream, others
<1>2. search[s] \in SearchRecords BY SearchIsTyped
<1>3. now \in SearchRecords BY <1>2 DEF SearchRecords, SearchPlaces, Typing
<1>4. /\ now.place = "rowReplied" /\ now.leaf = search[s].leaf /\ now.row = issue
      /\ now.generation = search[s].generation /\ now.floor = search[s].floor
    BY <1>2 DEF SearchRecords
<1>5. search'[s] = now BY <1>1, Moved
<1> HIDE DEF now
<1>6. SearchOK(floors, s) /\ Searching(s)
    BY <1>1, InGeneration DEF Searching, At
<1>7. ~HasLeafToStore(s)' BY <1>4, <1>5 DEF HasLeafToStore
<1>8. FenceOK(s)'
    BY <1>1, <1>4, <1>5, <1>6, <1>7, ReplyIsNew DEF FenceOK, At
<1>9. ASSUME NEW w \in Writers PROVE OvertakesNone(s, w)'
    BY <1>1, <1>4, <1>5, <1>6, <1>7, ReplyIsNew DEF OvertakesNone
<1>10. SearchOK(floors, s)'
    BY <1>1, <1>4, <1>5, <1>6, ReplyIsNew DEF SearchOK, At
<1> QED BY <1>1, <1>3, <1>8, <1>9, <1>10, SearchAlone

LEMMA KeepRowStep ==
    ASSUME NEW floors \in [Generations -> Pairs], JqlOK(floors),
           NEW s \in Searches, KeepRow(s)
    PROVE  JqlOK(floors)'
<1> USE DEF JqlOK
<1>1. /\ At(s, "rowReplied") /\ MovesTo(s, AfterLeaf(s)) /\ ShareRow(s, "rows") /\ StoreRow(s)
      /\ UNCHANGED <<issue, generation, leaf, edges, snapshot, fences, command, known, putBack>>
    BY DEF KeepRow, upstream, others
<1>2. SearchOK(floors, s) /\ Searching(s)
    BY <1>1, InGeneration DEF Searching, At
<1>3. AfterLeaf(s) \in {"built", "answered"} BY DEF AfterLeaf
<1>4. /\ [search[s] EXCEPT !.place = AfterLeaf(s)] \in SearchRecords
      /\ Moves(s, [search[s] EXCEPT !.place = AfterLeaf(s)])
      /\ search'[s].place = AfterLeaf(s) /\ search'[s].generation = search[s].generation
      /\ search'[s].floor = search[s].floor
      /\ search'[s].leaf = search[s].leaf /\ search'[s].row = search[s].row
  <2>1. AfterLeaf(s) \in SearchPlaces BY <1>3 DEF SearchPlaces
  <2> QED BY <1>1, <2>1, Placed
<1>5. search[s].row \in Nat /\ NotBehind(search[s].row, search[s].floor.row)
    BY <1>1, <1>2, SearchIsTyped DEF SearchOK, At
<1>6. rows' \in [Generations -> Nat] /\ \A g \in Generations : KeptOK(floors, g)'
    BY <1>1, <1>2, <1>5, RowIsKept DEF StoreRow
<1>7. \/ shared' \in {None, shared}
      \/ HasRowToShare(s) /\ shared' = search[s].row
    BY <1>1 DEF ShareRow, HasRowToShare
<1>8. FenceOK(s)' /\ \A w \in Writers : OvertakesNone(s, w)' BY <1>3, <1>4, NothingToStore
<1>9. SearchOK(floors, s)' BY <1>1, <1>2, <1>3, <1>4 DEF SearchOK, At
<1> QED BY <1>1, <1>4, <1>6, <1>7, <1>8, <1>9, SearchGoes DEF Typing

LEMMA FinishStep ==
    ASSUME NEW floors \in [Generations -> Pairs], JqlOK(floors),
           NEW s \in Searches, Finish(s)
    PROVE  JqlOK(floors)'
<1> USE DEF JqlOK
<1> DEFINE g == search[s].generation
           pair == [leaf |-> search[s].leaf, row |-> search[s].row]
<1>1. /\ At(s, "built") /\ fences' = [fences EXCEPT ![s] = {}]
      /\ UNCHANGED <<issue, generation, leaf, edges, rows, shared, command, known, putBack>>
    BY DEF Finish, upstream, others
<1>2. fences' \in [Searches -> SUBSET {"leaf", "rows", "snapshot"}]
      /\ \A t \in Searches : t # s => fences'[t] = fences[t]
    BY <1>1 DEF Typing
<1>3. CASE MovesTo(s, "answered") /\ snapshot' = [snapshot EXCEPT ![g] = pair]
  <2>1. SearchOK(floors, s) /\ Searching(s) /\ g \in Generations
      BY <1>1, InGeneration DEF Searching, At
  <2>2. /\ [search[s] EXCEPT !.place = "answered"] \in SearchRecords
        /\ Moves(s, [search[s] EXCEPT !.place = "answered"])
        /\ search'[s].place = "answered" /\ search'[s].generation = search[s].generation
        /\ search'[s].floor = search[s].floor
        /\ search'[s].leaf = search[s].leaf /\ search'[s].row = search[s].row
      BY <1>3, Placed DEF SearchPlaces
  <2>3. FenceOK(s)' /\ \A w \in Writers : OvertakesNone(s, w)' BY <2>2, NothingToStore
  <2>4. SearchOK(floors, s)' BY <1>1, <2>1, <2>2 DEF SearchOK, At
  <2>5. pair \in Pairs BY SearchIsTyped DEF Pairs
  <2>6. snapshot' \in [Generations -> Pairs] BY <1>3, <2>5 DEF Typing
  <2>7. ASSUME NEW h \in Generations PROVE KeptOK(floors, h)'
    <3>1. KeptOK(floors, h) BY DEF FloorsKeep
    <3>2. CASE h = g
      <4>1. snapshot'[h] = pair BY <1>3, <3>2 DEF Typing
      <4>2. pair.leaf = search[s].leaf /\ pair.row = search[s].row OBVIOUS
      <4>3. /\ g <= generation /\ search[s].row # None
            /\ search[s].leaf >= floors[g].leaf /\ NotBehind(search[s].row, floors[g].row)
          BY <1>1, <2>1 DEF SearchOK, At
      <4> HIDE DEF pair
      <4> QED BY <1>1, <3>1, <3>2, <4>1, <4>2, <4>3 DEF KeptOK
    <3>3. CASE h # g
      <4>1. snapshot'[h] = snapshot[h] BY <1>3, <3>3 DEF Typing
      <4> QED BY <1>1, <3>1, <4>1 DEF KeptOK
    <3> QED BY <3>2, <3>3
  <2> QED BY <1>1, <1>2, <2>2, <2>3, <2>4, <2>6, <2>7, SearchGoes DEF Typing
<1>4. CASE Fails(s) /\ UNCHANGED snapshot
  <2>1. PICK now \in SearchRecords : Moves(s, now) /\ search'[s].place \in {"idle", "failed"}
      BY <1>4, Failed
  <2>2. FenceOK(s)' /\ \A w \in Writers : OvertakesNone(s, w)' BY <2>1, NothingToStore
  <2>3. SearchOK(floors, s)' BY <2>1 DEF SearchOK, Searching
  <2>4. UNCHANGED cached BY <1>1, <1>4 DEF cached
  <2> QED BY <1>1, <2>1, <2>2, <2>3, <2>4, SearchAlone
<1> QED BY <1>3, <1>4 DEF Finish

\* Only what nobody can ask for is forgotten.
LEMMA Forgotten ==
    ASSUME Typing, ForgetPast
    PROVE  /\ rows' \in [Generations -> Nat] /\ snapshot' \in [Generations -> Pairs]
           /\ \A g \in Generations : rows'[g] \in {None, rows[g]}
                                     /\ snapshot'[g] \in {NoSnapshot, snapshot[g]}
<1>1. None \in Nat /\ NoSnapshot \in Pairs BY DEF None, NoSnapshot, Pairs
<1>2. \A g \in Generations : rows'[g] \in {None, rows[g]}
                             /\ snapshot'[g] \in {NoSnapshot, snapshot[g]}
    BY DEF ForgetPast
<1>3. rows' \in [Generations -> Nat] BY <1>1 DEF ForgetPast, Typing
<1>4. snapshot' \in [Generations -> Pairs] BY <1>1 DEF ForgetPast, Typing
<1> QED BY <1>2, <1>3, <1>4

LEMMA LeaveStep ==
    ASSUME NEW floors \in [Generations -> Pairs], JqlOK(floors),
           NEW s \in Searches, Leave(s)
    PROVE  JqlOK(floors)'
<1> USE DEF JqlOK
<1>1. /\ Moves(s, Resting) /\ fences' = [fences EXCEPT ![s] = {}] /\ ForgetPast
      /\ UNCHANGED <<issue, generation, leaf, edges, shared, command, known, putBack>>
    BY DEF Leave, upstream, others
<1>2. PICK now \in SearchRecords : Moves(s, now) /\ search'[s].place \in {"idle", "failed"}
    BY <1>1, Failed
<1>3. FenceOK(s)' /\ \A w \in Writers : OvertakesNone(s, w)' BY <1>2, NothingToStore
<1>4. SearchOK(floors, s)' BY <1>2 DEF SearchOK, Searching
<1>5. /\ rows' \in [Generations -> Nat] /\ snapshot' \in [Generations -> Pairs]
      /\ \A g \in Generations : rows'[g] \in {None, rows[g]}
                                /\ snapshot'[g] \in {NoSnapshot, snapshot[g]}
    BY <1>1, Forgotten
<1>6. \A g \in Generations : KeptOK(floors, g)' BY <1>1, <1>5 DEF FloorsKeep, KeptOK
<1>7. fences' \in [Searches -> SUBSET {"leaf", "rows", "snapshot"}]
      /\ \A t \in Searches : t # s => fences'[t] = fences[t]
    BY <1>1 DEF Typing
<1> QED BY <1>1, <1>2, <1>3, <1>4, <1>5, <1>6, <1>7, SearchGoes DEF Typing

\* A search ends, or a list read begins with what is not a search's any more.
LEMMA ListsStep ==
    ASSUME NEW floors \in [Generations -> Pairs], JqlOK(floors),
           NEW s \in Searches, NEW version \in Nat, Lists(s, version)
    PROVE  JqlOK(floors)'
<1> USE DEF JqlOK
<1> DEFINE now == [Resting EXCEPT !.place = "listed", !.row = version]
<1>1. /\ Moves(s, now) /\ fences' = [fences EXCEPT ![s] = {}] /\ ForgetPast
      /\ UNCHANGED <<issue, generation, leaf, edges, shared, command, known, putBack>>
    BY DEF Lists, upstream, others
<1>2. now \in SearchRecords /\ now.place = "listed"
    BY DEF Resting, SearchRecords, SearchPlaces, Pairs, NoSnapshot, None
<1>3. search'[s] = now BY <1>1, Moved
<1> HIDE DEF now
<1>4. FenceOK(s)' /\ \A w \in Writers : OvertakesNone(s, w)' BY <1>2, <1>3, NothingToStore
<1>5. SearchOK(floors, s)' BY <1>2, <1>3 DEF SearchOK, Searching
<1>6. /\ rows' \in [Generations -> Nat] /\ snapshot' \in [Generations -> Pairs]
      /\ \A g \in Generations : rows'[g] \in {None, rows[g]}
                                /\ snapshot'[g] \in {NoSnapshot, snapshot[g]}
    BY <1>1, Forgotten
<1>7. \A g \in Generations : KeptOK(floors, g)' BY <1>1, <1>6 DEF FloorsKeep, KeptOK
<1>8. fences' \in [Searches -> SUBSET {"leaf", "rows", "snapshot"}]
      /\ \A t \in Searches : t # s => fences'[t] = fences[t]
    BY <1>1 DEF Typing
<1> QED BY <1>1, <1>2, <1>4, <1>5, <1>6, <1>7, <1>8, SearchGoes DEF Typing

\* What a list read stores is new enough, or is remembered as put back.
LEMMA SetRowStep ==
    ASSUME NEW floors \in [Generations -> Pairs], JqlOK(floors),
           NEW s \in Searches, SetRow(s)
    PROVE  JqlOK(floors)'
<1> USE DEF JqlOK
<1>1. /\ Moves(s, Resting) /\ shared' = search[s].row
      /\ putBack' = IF Overtaken(search[s].row) THEN putBack \cup {search[s].row} ELSE putBack
      /\ UNCHANGED <<issue, generation, leaf, edges, rows, snapshot, fences, command, known>>
    BY DEF SetRow, upstream
<1>2. putBack \subseteq putBack' BY <1>1
<1>3. search[s].row \in Nat /\ known.row \in Nat
    BY SearchIsTyped DEF Typing, Pairs
<1>4. NotBehind(shared, known.row)'
  <2>1. Overtaken(search[s].row) \/ search[s].row >= known.row BY <1>3 DEF Overtaken
  <2> QED BY <1>1, <2>1
<1>5. ASSUME NEW w \in Writers, Invalidated(w)
      PROVE  NotBehind(shared, command[w].left.row)'
  <2>1. Overtaken(search[s].row) \/ search[s].row >= command[w].left.row
      BY <1>3, <1>5, CommandIsTyped DEF Overtaken, Invalidated
  <2> QED BY <1>1, <2>1
<1>6. /\ search'[s].place = "idle"
      /\ search' \in [Searches -> SearchRecords]
      /\ \A t \in Searches : t # s => search'[t] = search[t]
  <2>1. Resting \in SearchRecords /\ Resting.place = "idle"
      BY DEF Resting, SearchRecords, SearchPlaces, Pairs, NoSnapshot, None
  <2> QED BY <1>1, <2>1 DEF Moves, Typing
<1>7. Typing' BY <1>1, <1>3, <1>6 DEF Typing
<1>8. Counted' BY <1>1 DEF Counted, Commanding
<1>9. CacheOK' BY <1>1, <1>4 DEF CacheOK
<1>10. \A w \in Writers : CommandOK(w)' BY <1>1, <1>5 DEF CommandOK, Invalidated, LeafSettled
<1>11. \A t \in Searches : /\ HasLeafToStore(t)' => HasLeafToStore(t)
                           /\ HasRowToShare(t)' => HasRowToShare(t)
    BY <1>1, <1>6 DEF HasLeafToStore, HasRowToShare, Holds, At
<1>12. \A t \in Searches : HasLeafToStore(t)' \/ HasRowToShare(t)' => search'[t] = search[t]
    BY <1>6 DEF HasLeafToStore, HasRowToShare, At
<1>13. \A t \in Searches : FenceOK(t)'
    BY <1>1, <1>6, <1>11, <1>12 DEF FencesKeep, FenceOK, At
<1>14. \A t \in Searches, w \in Writers : OvertakesNone(t, w)'
    BY <1>1, <1>11, <1>12 DEF FencesKeep, OvertakesNone, Invalidated
<1>15. FloorsOK(floors)' BY <1>1 DEF FloorsKeep, FloorsOK
<1>16. \A g \in Generations : KeptOK(floors, g)' BY <1>1, <1>2 DEF FloorsKeep, KeptOK
<1>17. ASSUME NEW t \in Searches PROVE SearchOK(floors, t)'
  <2>1. CASE t = s BY <1>6, <2>1 DEF SearchOK, Searching
  <2>2. CASE t # s BY <1>1, <1>2, <1>6, <2>2 DEF FloorsKeep, SearchOK, Searching
  <2> QED BY <2>1, <2>2
<1> QED BY <1>7, <1>8, <1>9, <1>10, <1>13, <1>14, <1>15, <1>16, <1>17 DEF FencesKeep, FloorsKeep

LEMMA SearchStepKeeps ==
    ASSUME NEW floors \in [Generations -> Pairs], JqlOK(floors),
           NEW s \in Searches, SearchStep(s)
    PROVE  JqlOK(floors)'
<1>1. issue \in Nat /\ search[s].row \in Nat BY SearchIsTyped DEF JqlOK, Typing
<1>2. CASE ReadPage(s) \/ Prefetch(s) \/ SetRow(s)
    BY <1>1, <1>2, ListsStep, SetRowStep DEF ReadPage, Prefetch
<1> QED BY <1>2, BeginStep, FindSnapshotStep, EnterLeafStep, ReplyLeafStep, FailFetchStep,
           KeepRowsStep, PublishLeafStep, CheckLeafStep, HydrateStep, AskRowStep, ReplyRowStep,
           KeepRowStep, FinishStep, LeaveStep DEF SearchStep

\* A command goes on: its own part of the invariant.
LEMMA CommandGoes ==
    ASSUME NEW floors \in [Generations -> Pairs], JqlOK(floors),
           NEW w \in Writers, NEW now \in CommandRecords, Does(w, now),
           UNCHANGED <<generation, edges, rows, snapshot, search, known, putBack>>,
           issue' \in Nat, issue' >= issue, Counted',
           leaf' \in {None, leaf}, shared' \in {None, shared},
           FenceMoves \/ UNCHANGED fences,
           CommandOK(w)', \A s \in Searches : OvertakesNone(s, w)'
    PROVE  JqlOK(floors)'
<1> USE DEF JqlOK
<1>1. /\ command' \in [Writers -> CommandRecords]
      /\ \A v \in Writers : v # w => command'[v] = command[v]
    BY DEF Typing, Does
<1>2. /\ fences' \in [Searches -> SUBSET {"leaf", "rows", "snapshot"}]
      /\ \A s \in Searches : fences'[s] \subseteq fences[s]
    BY DEF Typing, FenceMoves
<1>3. leaf' \in Nat /\ shared' \in Nat BY DEF Typing, None
<1>4. Typing' BY <1>1, <1>2, <1>3 DEF Typing
<1>5. CacheOK' BY <1>3 DEF CacheOK, Typing, Pairs
<1>6. ASSUME NEW v \in Writers PROVE CommandOK(v)'
  <2>1. CASE v # w
    <3>1. command'[v] = command[v] /\ CommandOK(v) BY <1>1, <2>1
    <3>2. command[v].left.leaf \in Nat /\ command[v].left.row \in Nat BY CommandIsTyped
    <3> QED BY <3>1, <3>2 DEF CommandOK, LeafSettled, Invalidated, Typing
  <2> QED BY <2>1
<1>7. \A s \in Searches : /\ HasLeafToStore(s)' => HasLeafToStore(s)
                          /\ HasRowToShare(s)' => HasRowToShare(s)
    BY <1>2 DEF HasLeafToStore, HasRowToShare, Holds, At
<1>8. \A s \in Searches : FenceOK(s)' BY <1>7 DEF FencesKeep, FenceOK, At
<1>9. ASSUME NEW s \in Searches, NEW v \in Writers PROVE OvertakesNone(s, v)'
  <2>1. CASE v # w BY <1>1, <1>7, <2>1 DEF FencesKeep, OvertakesNone, Invalidated
  <2> QED BY <2>1
<1>10. FencesKeep' BY <1>8, <1>9 DEF FencesKeep
<1>11. FloorsOK(floors)' BY DEF FloorsKeep, FloorsOK
<1>12. \A g \in Generations : KeptOK(floors, g)' BY DEF FloorsKeep, KeptOK
<1>13. \A s \in Searches : SearchOK(floors, s)' BY DEF FloorsKeep, SearchOK, Searching
<1>14. FloorsKeep(floors)' BY <1>11, <1>12, <1>13 DEF FloorsKeep
<1> QED BY <1>4, <1>5, <1>6, <1>10, <1>14

\* A command that only moves on.
LEMMA CommandMovesOn ==
    ASSUME Typing, NEW w \in Writers, NEW place \in CommandPlaces, NEW hit \in BOOLEAN,
           Does(w, [command[w] EXCEPT !.place = place, !.hit = hit])
    PROVE  /\ [command[w] EXCEPT !.place = place, !.hit = hit] \in CommandRecords
           /\ command'[w].place = place /\ command'[w].hit = hit
           /\ command'[w].moved = command[w].moved /\ command'[w].left = command[w].left
           /\ \A v \in Writers : v # w => command'[v] = command[v]
<1> DEFINE now == [command[w] EXCEPT !.place = place, !.hit = hit]
<1>1. command[w] \in CommandRecords BY CommandIsTyped
<1>2. now \in CommandRecords BY <1>1 DEF CommandRecords
<1>3. /\ now.place = place /\ now.hit = hit
      /\ now.moved = command[w].moved /\ now.left = command[w].left
    BY <1>1 DEF CommandRecords
<1>4. command'[w] = now /\ \A v \in Writers : v # w => command'[v] = command[v]
    BY DEF Typing, Does
<1> QED BY <1>2, <1>3, <1>4

LEMMA CountedOn ==
    ASSUME Typing, Counted, NEW w \in Writers, UNCHANGED <<issue, generation>>,
           command[w].place # "idle", command'[w].place # "idle",
           \A v \in Writers : v # w => command'[v] = command[v]
    PROVE  Counted'
<1>1. Commanding' = Commanding BY DEF Commanding
<1> QED BY <1>1 DEF Counted

LEMMA WriteIssueStep ==
    ASSUME NEW floors \in [Generations -> Pairs], JqlOK(floors),
           NEW w \in Writers, NEW stirs \in BOOLEAN, WriteIssue(w, stirs)
    PROVE  JqlOK(floors)'
<1> USE DEF JqlOK
<1> DEFINE last == [leaf |-> IF stirs THEN issue + 1 ELSE command[w].left.leaf, row |-> issue + 1]
           now == [command[w] EXCEPT !.place = "written", !.moved = command[w].moved \/ stirs,
                                     !.left = last]
<1>1. /\ issue' = issue + 1 /\ issue <= MaxWrites /\ Does(w, now)
      /\ UNCHANGED <<generation, leaf, edges, rows, shared, snapshot, search, fences, known, putBack>>
    BY DEF WriteIssue, cached, Stays
<1>2. issue \in Nat /\ generation \in Nat BY DEF Typing
<1>3. last \in Pairs BY <1>2, CommandIsTyped DEF Pairs
<1>4. last.leaf = (IF stirs THEN issue + 1 ELSE command[w].left.leaf) /\ last.row = issue + 1
    OBVIOUS
<1> HIDE DEF last
<1>5. command[w] \in CommandRecords /\ command[w].moved \in BOOLEAN BY CommandIsTyped
<1>6. now \in CommandRecords BY <1>3, <1>5 DEF CommandRecords, CommandPlaces
<1>7. /\ now.place = "written" /\ now.left = last
      /\ now.moved = (command[w].moved \/ stirs)
    BY <1>5 DEF CommandRecords
<1>8. command'[w] = now /\ \A v \in Writers : v # w => command'[v] = command[v]
    BY <1>1 DEF Typing, Does
<1> HIDE DEF now
<1>9. Counted'
  <2>1. Commanding' = Commanding \cup {w} BY <1>7, <1>8 DEF Commanding
  <2>2. IsFiniteSet(Commanding') BY <2>1, FS_AddElement DEF Counted
  <2>3. Cardinality(Commanding') \in {Cardinality(Commanding), Cardinality(Commanding) + 1}
      BY <2>1, FS_AddElement DEF Counted
  <2>4. Cardinality(Commanding) \in Nat BY FS_CardinalityType DEF Counted
  <2> QED BY <1>1, <1>2, <2>2, <2>3, <2>4, JqlAssumption DEF Counted
<1>10. CommandOK(w)'
    BY <1>1, <1>2, <1>4, <1>7, <1>8, CommandIsTyped
    DEF CommandOK, Invalidated, LeafSettled, None
<1>11. \A s \in Searches : OvertakesNone(s, w)'
    BY <1>7, <1>8 DEF OvertakesNone, Invalidated
<1> QED BY <1>1, <1>2, <1>6, <1>9, <1>10, <1>11, CommandGoes

LEMMA InvalidateIssueStep ==
    ASSUME NEW floors \in [Generations -> Pairs], JqlOK(floors),
           NEW w \in Writers, InvalidateIssue(w)
    PROVE  JqlOK(floors)'
<1> USE DEF JqlOK
<1> DEFINE now == [command[w] EXCEPT !.place = "invalidated", !.hit = command[w].hit]
<1>1. /\ command[w].place = "written" /\ shared' = None /\ FenceMoves
      /\ UNCHANGED <<issue, generation, leaf, edges, rows, snapshot, search, known, putBack>>
    BY DEF InvalidateIssue, Stays, upstream
<1>2. command[w] \in CommandRecords BY CommandIsTyped
<1>3. now = [command[w] EXCEPT !.place = "invalidated"] BY <1>2 DEF CommandRecords
<1>4. Does(w, now) BY <1>3 DEF InvalidateIssue
<1>5. /\ now \in CommandRecords
      /\ command'[w].place = "invalidated" /\ command'[w].hit = command[w].hit
      /\ command'[w].moved = command[w].moved /\ command'[w].left = command[w].left
      /\ \A v \in Writers : v # w => command'[v] = command[v]
  <2>1. command[w].hit \in BOOLEAN /\ "invalidated" \in CommandPlaces
      BY CommandIsTyped DEF CommandPlaces
  <2> QED BY <1>4, <2>1, CommandMovesOn
<1> HIDE DEF now
<1>6. Counted' BY <1>1, <1>5, CountedOn
<1>7. CommandOK(w)' BY <1>1, <1>5 DEF CommandOK, LeafSettled
<1>8. \A s \in Searches : OvertakesNone(s, w)'
    BY <1>1 DEF OvertakesNone, FenceMoves, HasLeafToStore, HasRowToShare, Holds
<1> QED BY <1>1, <1>4, <1>5, <1>6, <1>7, <1>8, CommandGoes DEF Typing

LEMMA FindAffectedStep ==
    ASSUME NEW floors \in [Generations -> Pairs], JqlOK(floors),
           NEW w \in Writers, FindAffected(w)
    PROVE  JqlOK(floors)'
<1> USE DEF JqlOK
<1> DEFINE hit == command[w].moved /\ edges
           now == [command[w] EXCEPT !.place = "affects", !.hit = hit]
<1>1. /\ command[w].place = "invalidated" /\ Does(w, now)
      /\ UNCHANGED <<issue, generation, leaf, edges, rows, shared, snapshot, search, fences, known, putBack>>
    BY DEF FindAffected, Stays, upstream, cached
<1>2. hit \in BOOLEAN /\ (hit \/ ~command[w].moved \/ ~edges)
    BY CommandIsTyped DEF Typing
<1> HIDE DEF hit
<1>3. /\ now \in CommandRecords
      /\ command'[w].place = "affects" /\ command'[w].hit = hit
      /\ command'[w].moved = command[w].moved /\ command'[w].left = command[w].left
      /\ \A v \in Writers : v # w => command'[v] = command[v]
    BY <1>1, <1>2, CommandMovesOn DEF CommandPlaces
<1> HIDE DEF now
<1>4. Counted' BY <1>1, <1>3, CountedOn
<1>5. Invalidated(w) BY <1>1 DEF Invalidated
<1>6. leaf # None /\ ~hit => leaf >= command[w].left.leaf
    BY <1>2, CommandIsTyped DEF CacheOK, CommandOK, Typing, None
<1>7. CommandOK(w)' BY <1>1, <1>3, <1>5, <1>6 DEF CommandOK, LeafSettled
<1>8. \A s \in Searches : OvertakesNone(s, w)'
    BY <1>1, <1>3, <1>5
    DEF FencesKeep, OvertakesNone, HasLeafToStore, HasRowToShare, Holds, At
<1> QED BY <1>1, <1>3, <1>4, <1>7, <1>8, CommandGoes DEF Typing

LEMMA EvictLeavesStep ==
    ASSUME NEW floors \in [Generations -> Pairs], JqlOK(floors),
           NEW w \in Writers, EvictLeaves(w)
    PROVE  JqlOK(floors)'
<1> USE DEF JqlOK
<1> DEFINE now == [command[w] EXCEPT !.place = "evicted", !.hit = command[w].hit]
<1>1. /\ command[w].place = "affects"
      /\ IF command[w].hit THEN leaf' = None /\ FenceMoves ELSE UNCHANGED <<leaf, fences>>
      /\ UNCHANGED <<issue, generation, edges, rows, shared, snapshot, search, known, putBack>>
    BY DEF EvictLeaves, Stays, upstream
<1>2. command[w] \in CommandRecords BY CommandIsTyped
<1>3. now = [command[w] EXCEPT !.place = "evicted"] BY <1>2 DEF CommandRecords
<1>4. Does(w, now) BY <1>3 DEF EvictLeaves
<1>5. /\ now \in CommandRecords
      /\ command'[w].place = "evicted" /\ command'[w].hit = command[w].hit
      /\ command'[w].moved = command[w].moved /\ command'[w].left = command[w].left
      /\ \A v \in Writers : v # w => command'[v] = command[v]
  <2>1. command[w].hit \in BOOLEAN /\ "evicted" \in CommandPlaces
      BY CommandIsTyped DEF CommandPlaces
  <2> QED BY <1>4, <2>1, CommandMovesOn
<1> HIDE DEF now
<1>6. Counted' BY <1>1, <1>5, CountedOn
<1>7. Invalidated(w) BY <1>1 DEF Invalidated
<1>8. leaf' # None => leaf' = leaf /\ LeafSettled(w) BY <1>1 DEF LeafSettled
<1>9. CommandOK(w)' BY <1>1, <1>5, <1>7, <1>8 DEF CommandOK
<1>10. \A s \in Searches : fences'[s] \subseteq fences[s] BY <1>1 DEF FenceMoves
<1>11. \A s \in Searches : OvertakesNone(s, w)'
    BY <1>1, <1>5, <1>7, <1>10
    DEF FencesKeep, OvertakesNone, HasLeafToStore, HasRowToShare, Holds, At
<1> QED BY <1>1, <1>4, <1>5, <1>6, <1>9, <1>11, CommandGoes DEF Typing

\* With every fence gone, none is overtaken.
LEMMA NoFenceLeft ==
    ASSUME FenceMoves
    PROVE  \A s \in Searches : ~HasLeafToStore(s)' /\ ~HasRowToShare(s)'
BY DEF FenceMoves, HasLeafToStore, HasRowToShare, Holds

LEMMA LaterOfTwo ==
    ASSUME NEW a \in Nat, NEW b \in Nat
    PROVE  /\ Later(a, b) \in Nat /\ Later(a, b) \in {a, b}
           /\ Later(a, b) >= a /\ Later(a, b) >= b
BY DEF Later

\* The command is over, and the next generation begins with all it has recorded.
LEMMA BumpEpochStep ==
    ASSUME NEW floors \in [Generations -> Pairs], JqlOK(floors),
           NEW w \in Writers, BumpEpoch(w)
    PROVE  JqlInv'
<1> USE DEF JqlOK
<1> DEFINE then == [leaf |-> Later(known.leaf, command[w].left.leaf),
                    row |-> Later(known.row, command[w].left.row)]
<1>1. /\ command[w].place = "evicted" /\ generation' = generation + 1 /\ FenceMoves
      /\ known' = then /\ Does(w, Idle) /\ ForgetPast
      /\ UNCHANGED <<issue, leaf, edges, shared, search, putBack>>
    BY DEF BumpEpoch, Stays, upstream
<1>2. /\ issue \in Nat /\ generation \in Nat /\ known.leaf \in Nat /\ known.row \in Nat
      /\ leaf \in Nat /\ shared \in Nat
    BY DEF Typing, Pairs
<1>3. command[w].left.leaf \in Nat /\ command[w].left.row \in Nat BY CommandIsTyped
<1>4. /\ then \in Pairs
      /\ then.leaf >= known.leaf /\ then.leaf >= command[w].left.leaf
      /\ then.leaf \in {known.leaf, command[w].left.leaf}
      /\ then.row >= known.row /\ then.row >= command[w].left.row
      /\ then.row \in {known.row, command[w].left.row}
  <2> DEFINE l == Later(known.leaf, command[w].left.leaf)
             r == Later(known.row, command[w].left.row)
  <2>1. /\ l \in Nat /\ l \in {known.leaf, command[w].left.leaf}
        /\ l >= known.leaf /\ l >= command[w].left.leaf
      BY <1>2, <1>3, LaterOfTwo
  <2>2. /\ r \in Nat /\ r \in {known.row, command[w].left.row}
        /\ r >= known.row /\ r >= command[w].left.row
      BY <1>2, <1>3, LaterOfTwo
  <2> HIDE DEF l, r
  <2>3. then = [leaf |-> l, row |-> r] BY DEF l, r
  <2>4. then \in Pairs /\ then.leaf = l /\ then.row = r BY <2>1, <2>2, <2>3 DEF Pairs
  <2> QED BY <2>1, <2>2, <2>4
<1> HIDE DEF then
<1>5. Idle \in CommandRecords
    BY DEF Idle, CommandRecords, CommandPlaces, Pairs, NoSnapshot, None
<1>6. /\ command' \in [Writers -> CommandRecords] /\ command'[w] = Idle
      /\ \A v \in Writers : v # w => command'[v] = command[v]
    BY <1>1, <1>5 DEF Typing, Does
<1>7. /\ rows' \in [Generations -> Nat] /\ snapshot' \in [Generations -> Pairs]
      /\ \A g \in Generations : rows'[g] \in {None, rows[g]}
                                /\ snapshot'[g] \in {NoSnapshot, snapshot[g]}
    BY <1>1, Forgotten
<1>8. fences' \in [Searches -> SUBSET {"leaf", "rows", "snapshot"}]
    BY <1>1 DEF FenceMoves
<1>9. Typing' BY <1>1, <1>2, <1>4, <1>6, <1>7, <1>8 DEF Typing
<1>10. Counted' /\ generation + 1 \in Generations
  <2>1. Commanding' = Commanding \ {w} BY <1>6 DEF Commanding, Idle
  <2>2. w \in Commanding BY <1>1 DEF Commanding
  <2>3. IsFiniteSet(Commanding') /\ Cardinality(Commanding') = Cardinality(Commanding) - 1
      BY <2>1, <2>2, FS_RemoveElement DEF Counted
  <2>4. Cardinality(Commanding) \in Nat /\ Cardinality(Commanding') \in Nat
      BY <2>3, FS_CardinalityType DEF Counted
  <2>5. generation' + Cardinality(Commanding') < issue
      BY <1>1, <1>2, <2>3, <2>4 DEF Counted
  <2>6. generation' <= MaxWrites
      BY <1>1, <1>2, <2>4, <2>5, JqlAssumption DEF Counted
  <2> QED BY <1>1, <1>2, <2>3, <2>5, <2>6, JqlAssumption DEF Counted, Generations
<1>11. CommandOK(w) /\ Invalidated(w) /\ LeafSettled(w) BY <1>1 DEF Invalidated, LeafSettled
<1>12. CacheOK'
  <2>1. leaf # None => leaf >= then.leaf /\ edges BY <1>4, <1>11 DEF CacheOK, CommandOK
  <2>2. shared # None => NotBehind(shared, then.row) BY <1>4, <1>11 DEF CacheOK, CommandOK
  <2>3. then.leaf <= issue /\ then.row <= issue BY <1>4, <1>11 DEF CacheOK, CommandOK
  <2> QED BY <1>1, <2>1, <2>2, <2>3 DEF CacheOK
<1>13. ASSUME NEW v \in Writers PROVE CommandOK(v)'
  <2>1. CASE v = w
    <3>1. /\ Idle.place = "idle" /\ Idle.left = NoSnapshot
          /\ NoSnapshot.leaf = 0 /\ NoSnapshot.row = 0
        BY DEF Idle, NoSnapshot, None
    <3> QED BY <1>1, <1>2, <1>6, <2>1, <3>1 DEF CommandOK, Invalidated, LeafSettled, None
  <2>2. CASE v # w BY <1>1, <1>6, <2>2 DEF CommandOK, Invalidated, LeafSettled
  <2> QED BY <2>1, <2>2
<1>14. FencesKeep'
    BY <1>1, NoFenceLeft DEF FencesKeep, FenceOK, OvertakesNone, At
<1>15. PICK begun \in [Generations -> Pairs] :
           /\ begun[generation + 1] = then
           /\ \A g \in Generations : g <= generation => begun[g] = floors[g]
  <2> DEFINE more == [floors EXCEPT ![generation + 1] = then]
  <2>1. more \in [Generations -> Pairs] BY <1>4
  <2>2. more[generation + 1] = then BY <1>10
  <2>3. \A g \in Generations : g <= generation => more[g] = floors[g] BY <1>2
  <2> QED BY <2>1, <2>2, <2>3
<1>17. FloorsOK(begun)'
  <2>1. \A g \in Generations : g <= generation + 1 => g <= generation \/ g = generation + 1
      BY <1>2, JqlAssumption DEF Generations
  <2>2. \A g \in Generations : floors[g].leaf \in Nat /\ floors[g].row \in Nat BY DEF Pairs
  <2>3. ASSUME NEW g \in Generations, g <= generation
        PROVE  begun[g].leaf <= then.leaf /\ begun[g].row <= then.row
      BY <1>2, <1>4, <1>15, <2>2, <2>3 DEF FloorsKeep, FloorsOK, Pairs
  <2>4. then.leaf <= then.leaf /\ then.row <= then.row BY <1>4 DEF Pairs
  <2> QED BY <1>1, <1>15, <2>1, <2>3, <2>4 DEF FloorsOK
<1>18. ASSUME NEW g \in Generations PROVE KeptOK(begun, g)'
  <2>1. KeptOK(floors, g) BY DEF FloorsKeep
  <2>2. g \in Nat BY JqlAssumption DEF Generations
  <2>3. g <= generation => begun[g] = floors[g] /\ g <= generation + 1 BY <1>2, <1>15, <2>2
  <2> QED BY <1>1, <1>7, <2>1, <2>3 DEF KeptOK
<1>19. ASSUME NEW s \in Searches PROVE SearchOK(begun, s)'
  <2> SUFFICES ASSUME Searching(s) PROVE SearchOK(begun, s)'
      BY <1>1 DEF SearchOK, Searching
  <2>1. SearchOK(floors, s) /\ search[s].generation \in Generations BY InGeneration
  <2>2. search[s].generation <= generation + 1
      BY <1>2, <2>1, JqlAssumption DEF SearchOK, Generations
  <2>3. begun[search[s].generation] = floors[search[s].generation]
      BY <1>15, <2>1 DEF SearchOK
  <2> QED BY <1>1, <2>1, <2>2, <2>3 DEF SearchOK, Searching
<1>20. JqlOK(begun)'
    BY <1>9, <1>10, <1>12, <1>13, <1>14, <1>17, <1>18, <1>19 DEF FloorsKeep
<1> QED BY <1>20 DEF JqlInv

LEMMA RestartStep ==
    ASSUME NEW floors \in [Generations -> Pairs], JqlOK(floors), RestartSearches
    PROVE  JqlOK(floors)'
<1> USE DEF JqlOK
<1>1. /\ search' = [s \in Searches |-> Resting] /\ FenceMoves /\ ForgetPast
      /\ command' = [w \in Writers |-> Idle]
      /\ UNCHANGED <<issue, generation, leaf, edges, shared, known, putBack>>
    BY DEF RestartSearches, upstream
<1>2. Idle \in CommandRecords
    BY DEF Idle, CommandRecords, CommandPlaces, Pairs, NoSnapshot, None
<1>3. Resting \in SearchRecords /\ Resting.place = "idle"
    BY DEF Resting, SearchRecords, SearchPlaces, Pairs, NoSnapshot, None
<1>4. /\ rows' \in [Generations -> Nat] /\ snapshot' \in [Generations -> Pairs]
      /\ \A g \in Generations : rows'[g] \in {None, rows[g]}
                                /\ snapshot'[g] \in {NoSnapshot, snapshot[g]}
    BY <1>1, Forgotten
<1>5. Typing' BY <1>1, <1>2, <1>3, <1>4 DEF Typing, FenceMoves
<1>6. Counted'
  <2>1. Commanding' = {} BY <1>1 DEF Commanding, Idle
  <2>2. IsFiniteSet(Commanding') /\ Cardinality(Commanding') = 0 BY <2>1, FS_EmptySet
  <2>3. Cardinality(Commanding) \in Nat BY FS_CardinalityType DEF Counted
  <2> QED BY <1>1, <2>2, <2>3 DEF Counted, Typing
<1>7. CacheOK' BY <1>1 DEF CacheOK
<1>8. \A w \in Writers : CommandOK(w)'
    BY <1>1 DEF CommandOK, Idle, Invalidated, LeafSettled, NoSnapshot, None, Typing
<1>9. FencesKeep'
    BY <1>1, <1>3, NoFenceLeft DEF FencesKeep, FenceOK, OvertakesNone, At
<1>10. FloorsOK(floors)' BY <1>1 DEF FloorsKeep, FloorsOK
<1>11. \A g \in Generations : KeptOK(floors, g)' BY <1>1, <1>4 DEF FloorsKeep, KeptOK
<1>12. \A s \in Searches : SearchOK(floors, s)' BY <1>1, <1>3 DEF SearchOK, Searching
<1> QED BY <1>5, <1>6, <1>7, <1>8, <1>9, <1>10, <1>11, <1>12 DEF FloorsKeep

LEMMA LapseStep ==
    ASSUME NEW floors \in [Generations -> Pairs], JqlOK(floors), Lapse \/ UNCHANGED jqlVars
    PROVE  JqlOK(floors)'
<1> USE DEF JqlOK
<1>1. /\ UNCHANGED <<issue, generation, rows, snapshot, search, fences, command, known, putBack>>
      /\ leaf' \in {None, leaf} /\ shared' \in {None, shared} /\ edges' \in BOOLEAN
      /\ ~edges' => leaf' = None /\ (~edges \/ ~\E s \in Searches : At(s, "kept"))
    BY DEF Lapse, jqlVars, upstream, cached, others, CacheOK, Typing
<1>2. leaf' \in Nat /\ shared' \in Nat BY <1>1 DEF Typing, None
<1>3. Typing' BY <1>1, <1>2 DEF Typing
<1>4. Counted' BY <1>1 DEF Counted, Commanding
<1>5. CacheOK' BY <1>1 DEF CacheOK
<1>6. \A w \in Writers : CommandOK(w)' BY <1>1 DEF CommandOK, Invalidated, LeafSettled
<1>7. \A s \in Searches : /\ HasLeafToStore(s)' = HasLeafToStore(s)
                          /\ HasRowToShare(s)' = HasRowToShare(s)
    BY <1>1 DEF HasLeafToStore, HasRowToShare, Holds, At
<1>8. \A s \in Searches : FenceOK(s)' BY <1>1, <1>7 DEF FencesKeep, FenceOK, At
<1>9. \A s \in Searches, w \in Writers : OvertakesNone(s, w)'
    BY <1>1, <1>7 DEF FencesKeep, OvertakesNone, Invalidated
<1>10. FloorsOK(floors)' BY <1>1 DEF FloorsKeep, FloorsOK
<1>11. \A g \in Generations : KeptOK(floors, g)' BY <1>1 DEF FloorsKeep, KeptOK
<1>12. \A s \in Searches : SearchOK(floors, s)' BY <1>1 DEF FloorsKeep, SearchOK, Searching
<1> QED BY <1>3, <1>4, <1>5, <1>6, <1>8, <1>9, <1>10, <1>11, <1>12 DEF FencesKeep, FloorsKeep

LEMMA JqlStep ==
    ASSUME JqlInv, [JqlNext]_jqlVars
    PROVE  JqlInv'
<1>1. PICK floors \in [Generations -> Pairs] : JqlOK(floors) BY DEF JqlInv
<1>2. JqlOK(floors)' => JqlInv' BY DEF JqlInv
<1>3. CASE \E s \in Searches : SearchStep(s) BY <1>1, <1>2, <1>3, SearchStepKeeps
<1>4. CASE \E w \in Writers : CommandStep(w)
    BY <1>1, <1>2, <1>4, WriteIssueStep, InvalidateIssueStep, FindAffectedStep,
       EvictLeavesStep, BumpEpochStep DEF CommandStep
<1>5. CASE RestartSearches BY <1>1, <1>2, <1>5, RestartStep
<1>6. CASE Lapse \/ UNCHANGED jqlVars BY <1>1, <1>2, <1>6, LapseStep
<1> QED BY <1>3, <1>4, <1>5, <1>6 DEF JqlNext

(* For any number of searches, list reads, commands, writes and restarts: what a search    *)
(* answers is not older than the commands that had answered when it began, always in the   *)
(* issues it lists, and in what it shows of them unless a list read had stored that very   *)
(* version without a fence after the write was invalidated.                                *)
THEOREM WritesAreSearched == JqlSpec => []SearchSeesWrites
<1>1. JqlInv => SearchSeesWrites
  <2> SUFFICES ASSUME JqlInv, NEW s \in Searches, At(s, "answered")
               PROVE  /\ search[s].leaf >= search[s].floor.leaf
                      /\ NotBehind(search[s].row, search[s].floor.row)
      BY DEF SearchSeesWrites
  <2>1. PICK floors \in [Generations -> Pairs] : JqlOK(floors) BY DEF JqlInv
  <2>2. SearchOK(floors, s) /\ Searching(s) BY <2>1, InGeneration DEF Searching, At
  <2> QED BY <2>2 DEF SearchOK, At
<1> QED BY <1>1, JqlStarts, JqlStep, PTL DEF JqlSpec

HIDE DEF NotBehind

-----------------------------------------------------------------------------
(* WorkspaceConfig *)

SaveSteps == {"no", "deciding", "replaced", "reloading", "saved"}

\* What a screen asks for is a change of what it was shown, and a save that is about to replace
\* the files has found them to be that.
SaveOK(s) ==
    /\ wanted[s] # NoRequest => wanted[s].revision = display[s]
    /\ saving[s] # "no" => wanted[s] # NoRequest
    /\ saving[s] = "deciding" => display[s] = config

SavingInv ==
    /\ saving \in [Screens -> SaveSteps]
    /\ DOMAIN wanted = Screens /\ DOMAIN display = Screens
    /\ \A s, t \in Screens : saving[s] # "no" /\ saving[t] # "no" => s = t
    /\ \A s \in Screens : SaveOK(s)

\* A save of one screen goes on, and the others wait for the lock.
LEMMA SaveMoves ==
    ASSUME SavingInv, NEW s \in Screens, NEW place \in SaveSteps, SaveGoes(s, place),
           saving[s] # "no" \/ LockFree
    PROVE  /\ saving' \in [Screens -> SaveSteps] /\ saving'[s] = place
           /\ \A t \in Screens : t # s => saving'[t] = "no" /\ saving[t] = "no"
BY DEF SavingInv, SaveGoes, LockFree

\* A screen is answered, or waits on.
LEMMA Answered ==
    ASSUME SavingInv, NEW s \in Screens, Show(s) \/ Refuse(s) \/ UNCHANGED <<display, wanted>>
    PROVE  /\ DOMAIN wanted' = Screens /\ DOMAIN display' = Screens
           /\ wanted'[s] # NoRequest => wanted'[s] = wanted[s] /\ display'[s] = display[s]
           /\ \A t \in Screens : t # s => wanted'[t] = wanted[t] /\ display'[t] = display[t]
BY DEF SavingInv, Show, Refuse

LEMMA SaveStepKeeps ==
    ASSUME SavingInv, NEW s \in Screens, SaveStep(s)
    PROVE  SavingInv'
<1>1. CASE Submit(s)
  <2>1. PICK change \in Changes :
            wanted' = [wanted EXCEPT ![s] = [change |-> change, revision |-> display[s]]]
      BY <1>1 DEF Submit
  <2>2. DOMAIN wanted' = Screens /\ wanted'[s].revision = display[s]
        /\ \A t \in Screens : t # s => wanted'[t] = wanted[t]
      BY <2>1 DEF SavingInv
  <2>3. saving[s] = "no" BY <1>1 DEF Submit, SavingInv, SaveOK
  <2>4. UNCHANGED <<config, display, saving>> BY <1>1 DEF Submit, files
  <2> QED BY <2>2, <2>3, <2>4 DEF SavingInv, SaveOK
<1>2. CASE ReadConfig(s)
  <2>1. /\ DOMAIN wanted' = Screens /\ DOMAIN display' = Screens
        /\ wanted'[s] # NoRequest => wanted'[s] = wanted[s] /\ display'[s] = display[s]
        /\ \A t \in Screens : t # s => wanted'[t] = wanted[t] /\ display'[t] = display[t]
      BY <1>2, Answered DEF ReadConfig
  <2>2. UNCHANGED <<config, saving>> /\ saving[s] = "no"
      BY <1>2 DEF ReadConfig, files, LockFree
  <2> QED BY <2>1, <2>2 DEF SavingInv, SaveOK
<1>3. CASE SaveLocked(s)
  <2>1. LockFree /\ saving[s] = "no" /\ wanted[s] # NoRequest /\ UNCHANGED config
      BY <1>3 DEF SaveLocked, StillWaits, files
  <2>2. CASE (Show(s) \/ Refuse(s)) /\ UNCHANGED saving
    <3>1. /\ DOMAIN wanted' = Screens /\ DOMAIN display' = Screens
          /\ wanted'[s] # NoRequest => wanted'[s] = wanted[s] /\ display'[s] = display[s]
          /\ \A t \in Screens : t # s => wanted'[t] = wanted[t] /\ display'[t] = display[t]
        BY <2>2, Answered
    <3> QED BY <2>1, <2>2, <3>1 DEF SavingInv, SaveOK
  <2>3. CASE wanted[s].revision = config /\ SaveGoes(s, "deciding") /\ UNCHANGED <<display, wanted>>
    <3>1. /\ saving' \in [Screens -> SaveSteps] /\ saving'[s] = "deciding"
          /\ \A t \in Screens : t # s => saving'[t] = "no" /\ saving[t] = "no"
        BY <2>1, <2>3, SaveMoves DEF SaveSteps
    <3> QED BY <2>1, <2>3, <3>1 DEF SavingInv, SaveOK
  <2> QED BY <1>3, <2>2, <2>3 DEF SaveLocked
<1>4. CASE Replace(s) \/ ForgetPeople(s) \/ ForgetDirectory(s)
  <2>1. PICK place \in SaveSteps \ {"no", "deciding"} : SaveGoes(s, place)
      BY <1>4 DEF Replace, ForgetPeople, ForgetDirectory, SaveSteps
  <2>2. saving[s] # "no" /\ UNCHANGED <<display, wanted>>
      BY <1>4 DEF Replace, ForgetPeople, ForgetDirectory
  <2>3. /\ saving' \in [Screens -> SaveSteps] /\ saving'[s] = place
        /\ \A t \in Screens : t # s => saving'[t] = "no" /\ saving[t] = "no"
      BY <2>1, <2>2, SaveMoves
  <2> QED BY <2>1, <2>2, <2>3 DEF SavingInv, SaveOK
<1>5. CASE CannotWrite(s) \/ AnswerSave(s)
  <2>1. saving[s] # "no" /\ SaveGoes(s, "no") /\ UNCHANGED config
        /\ (Show(s) \/ Refuse(s) \/ UNCHANGED <<display, wanted>>)
      BY <1>5 DEF CannotWrite, AnswerSave, Ends, files
  <2>2. /\ saving' \in [Screens -> SaveSteps] /\ saving'[s] = "no"
        /\ \A t \in Screens : t # s => saving'[t] = "no" /\ saving[t] = "no"
      BY <2>1, SaveMoves DEF SaveSteps
  <2>3. /\ DOMAIN wanted' = Screens /\ DOMAIN display' = Screens
        /\ wanted'[s] # NoRequest => wanted'[s] = wanted[s] /\ display'[s] = display[s]
        /\ \A t \in Screens : t # s => wanted'[t] = wanted[t] /\ display'[t] = display[t]
      BY <2>1, Answered
  <2> QED BY <2>1, <2>2, <2>3 DEF SavingInv, SaveOK
<1>6. CASE GiveUp(s)
  <2>1. Refuse(s) /\ saving[s] = "no" /\ UNCHANGED <<config, saving>>
      BY <1>6 DEF GiveUp, StillWaits, files
  <2>2. /\ DOMAIN wanted' = Screens /\ DOMAIN display' = Screens
        /\ wanted'[s] # NoRequest => wanted'[s] = wanted[s] /\ display'[s] = display[s]
        /\ \A t \in Screens : t # s => wanted'[t] = wanted[t] /\ display'[t] = display[t]
      BY <2>1, Answered
  <2> QED BY <2>1, <2>2 DEF SavingInv, SaveOK
<1> QED BY <1>1, <1>2, <1>3, <1>4, <1>5, <1>6 DEF SaveStep

LEMMA WorkspaceStep ==
    ASSUME SavingInv, [WorkspaceNext]_workspaceVars
    PROVE  SavingInv'
<1>1. CASE \E s \in Screens : SaveStep(s) BY <1>1, SaveStepKeeps
<1>2. CASE (\E l \in Lookups : LookupStep(l)) \/ UNCHANGED workspaceVars
  <2>1. UNCHANGED <<config, display, wanted, saving>>
      BY <1>2 DEF LookupStep, Look, CheckMemory, ReadFile, StorePeople, ReturnPeople,
                  StoreDirectory, Done, workspaceVars, files, clients
  <2> QED BY <2>1 DEF SavingInv, SaveOK
<1>3. CASE RestartSaves
    BY <1>3 DEF RestartSaves, SavingInv, SaveOK, files, SaveSteps
<1> QED BY <1>1, <1>2, <1>3 DEF WorkspaceNext

(* For any number of screens, lookups, plans and rosters: the screen that replaces a file *)
(* had been shown what the files hold in that moment, so no save is lost under another.   *)
THEOREM NoSaveIsLost == WorkspaceSpec => NothingUnseenIsLost
<1>1. WorkspaceInit => SavingInv BY DEF WorkspaceInit, SavingInv, SaveOK, SaveSteps
<1>2. ASSUME SavingInv, [WorkspaceNext]_workspaceVars
      PROVE  [config' # config =>
                \E s \in Screens : display[s] = config /\ saving[s] # saving'[s]]_workspaceVars
  <2> SUFFICES ASSUME WorkspaceNext, config' # config
               PROVE  \E s \in Screens : display[s] = config /\ saving[s] # saving'[s]
      BY <1>2
  <2>1. PICK s \in Screens : Replace(s)
      BY DEF WorkspaceNext, SaveStep, LookupStep, Submit, ReadConfig, SaveLocked, CannotWrite,
             ForgetPeople, ForgetDirectory, AnswerSave, GiveUp, RestartSaves, Look, CheckMemory,
             ReadFile, StorePeople, ReturnPeople, StoreDirectory, Done, files
  <2>2. saving[s] = "deciding" /\ SaveGoes(s, "replaced") BY <2>1 DEF Replace
  <2>3. saving'[s] = "replaced" BY <1>2, <2>2 DEF SavingInv, SaveGoes
  <2>4. display[s] = config BY <1>2, <2>2 DEF SavingInv, SaveOK
  <2> QED BY <2>2, <2>3, <2>4
<1> QED BY <1>1, <1>2, WorkspaceStep, PTL DEF WorkspaceSpec, NothingUnseenIsLost

-----------------------------------------------------------------------------
(* HierarchyRead *)

Items == level \cup nextLevel \cup opened
Lately(t) == UNION lately[t]

\* What is to be read lies below the root, and so does the way to it, which has been met.
ItemOK(item) ==
    /\ item \in [key : Tickets, path : SUBSET Tickets]
    /\ item.key \in met /\ item.path \subseteq met
    /\ item.key \in Below([t \in Tickets |-> Lately(t)])

\* The children of a row that is not named as unread have been met.
RowOK(t) ==
    (t \notin Unread /\ \A item \in opened : item.key # t) =>
        Membership(t, Common(lately[t])) \subseteq met

TreeInv ==
    /\ lately \in [Tickets -> SUBSET SUBSET Tickets]
    /\ children \in [Tickets -> SUBSET Tickets]
    /\ missing \subseteq [key : Tickets, stage : {"issue", "children", "cycle", "outside"}]
    /\ met \subseteq Tickets
    /\ treeRows \subseteq Below([t \in Tickets |-> Lately(t)])
    /\ traversal = "idle" => Items = {} /\ treeRows = {}
    /\ traversal \in {"reading", "answered"} => RootTicket \in met
    /\ traversal = "answered" => Items = {}
    /\ \A item \in Items : ItemOK(item)
    /\ \A t \in met : t \in treeRows \/ t \in Unread \/ \E item \in Items : item.key = t
    /\ \A item \in opened : item.key \in treeRows
    /\ \A t \in treeRows : RowOK(t)

\* Below(links) is what every closed set with the root holds.
Closed(s, links) == RootTicket \in s /\ \A t \in s : Membership(t, links[t]) \subseteq s

LEMMA BelowIsInClosed ==
    ASSUME NEW links, NEW s \in SUBSET Tickets, Closed(s, links)
    PROVE  Below(links) \subseteq s
BY DEF Below, Common, Closed

LEMMA InBelow ==
    ASSUME NEW links, NEW t \in Tickets,
           \A s \in SUBSET Tickets : Closed(s, links) => t \in s
    PROVE  t \in Below(links)
BY DEF Below, Common, Closed

LEMMA RootIsBelow == ASSUME NEW links PROVE RootTicket \in Below(links)
BY InBelow, HierarchyAssumption DEF Closed

\* What is read of a ticket below the root is below it, too.
LEMMA ReadIsBelow ==
    ASSUME NEW links, NEW t \in Tickets, t \in Below(links), NEW found \in SUBSET Tickets,
           found \subseteq links[t]
    PROVE  Membership(t, found) \subseteq Below(links)
<1> SUFFICES ASSUME NEW c \in Membership(t, found) PROVE c \in Below(links)
    OBVIOUS
<1>1. c \in Tickets BY DEF Membership
<1>2. c \in Membership(t, links[t]) BY DEF Membership
<1>3. ASSUME NEW s \in SUBSET Tickets, Closed(s, links) PROVE c \in s
    BY <1>2, <1>3, BelowIsInClosed DEF Closed
<1> QED BY <1>1, <1>3, InBelow

\* More links, more below.
LEMMA BelowGrows ==
    ASSUME NEW links, NEW more, \A t \in Tickets : links[t] \subseteq more[t]
    PROVE  Below(links) \subseteq Below(more)
<1> SUFFICES ASSUME NEW t \in Below(links) PROVE t \in Below(more)
    OBVIOUS
<1>1. t \in Tickets BY DEF Below, Common
<1>2. ASSUME NEW s \in SUBSET Tickets, Closed(s, more) PROVE t \in s
  <2>1. Closed(s, links) BY <1>2 DEF Closed, Membership
  <2> QED BY <2>1, BelowIsInClosed
<1> QED BY <1>1, <1>2, InBelow

LEMMA TreeStarts == HierarchyInit => TreeInv
<1> SUFFICES ASSUME HierarchyInit PROVE TreeInv
    OBVIOUS
<1>1. children \in [Tickets -> SUBSET Tickets] BY HierarchyAssumption DEF HierarchyInit
<1>2. lately \in [Tickets -> SUBSET SUBSET Tickets] BY <1>1 DEF HierarchyInit
<1> QED BY <1>1, <1>2 DEF HierarchyInit, TreeInv, Items

\* The same tree at Jira: what is below is the same.
LEMMA SameTree ==
    ASSUME lately' = lately
    PROVE  Below([t \in Tickets |-> Lately(t)])' = Below([t \in Tickets |-> Lately(t)])
BY DEF Below, Common, Lately, Membership

LEMMA BeginTraversalStep ==
    ASSUME TreeInv, BeginTraversal
    PROVE  TreeInv'
<1> DEFINE root == [key |-> RootTicket, path |-> {RootTicket}]
<1>1. /\ UNCHANGED <<children, lately, nextLevel, opened, treeRows, missing>>
      /\ level' = {root} /\ met' = {RootTicket} /\ traversal' = "reading"
      /\ nextLevel = {} /\ opened = {} /\ treeRows = {}
    BY DEF BeginTraversal, jiraTree, TreeInv, Items
<1>2. Items' = {root} BY <1>1 DEF Items
<1>3. ItemOK(root)'
    BY <1>1, SameTree, RootIsBelow, HierarchyAssumption DEF ItemOK
<1>4. root.key = RootTicket OBVIOUS
<1> HIDE DEF root
<1> QED BY <1>1, <1>2, <1>3, <1>4, SameTree, HierarchyAssumption DEF TreeInv

\* A new entry of the ledger, and what it names.
LEMMA NamedAsUnread ==
    ASSUME NEW t, NEW stage, stage # "cycle",
           missing' = missing \cup {[key |-> t, stage |-> stage]}
    PROVE  Unread \subseteq Unread' /\ t \in Unread'
<1> DEFINE e == [key |-> t, stage |-> stage]
<1>1. e \in missing' /\ e.stage # "cycle" /\ e.key = t OBVIOUS
<1>2. missing \subseteq missing' OBVIOUS
<1> HIDE DEF e
<1> QED BY <1>1, <1>2 DEF Unread

LEMMA ReadTicketStep ==
    ASSUME TreeInv, NEW item \in level, ReadTicket(item)
    PROVE  TreeInv'
<1>1. /\ UNCHANGED <<children, lately, traversal, nextLevel, met>>
      /\ traversal = "reading" /\ opened = {} /\ level' = level \ {item}
    BY DEF ReadTicket, jiraTree
<1>2. ItemOK(item) /\ item \in Items BY DEF TreeInv, Items
<1>3. CASE opened' = {item} /\ treeRows' = treeRows \cup {item.key} /\ UNCHANGED missing
  <2>1. Items' = Items BY <1>1, <1>3 DEF Items
  <2>2. Unread' = Unread BY <1>3 DEF Unread
  <2>3. \A i \in Items : ItemOK(i)' BY <1>1, SameTree DEF TreeInv, ItemOK
  <2>4. \A t \in treeRows' : RowOK(t)'
      BY <1>1, <1>3, <2>2 DEF TreeInv, RowOK, Common, Membership
  <2>5. item.key \in Below([t \in Tickets |-> Lately(t)]) BY <1>2 DEF ItemOK
  <2> QED BY <1>1, <1>3, <2>1, <2>2, <2>3, <2>4, <2>5, SameTree DEF TreeInv
<1>4. CASE /\ missing' = missing \cup {[key |-> item.key, stage |-> "issue"]}
           /\ UNCHANGED <<opened, treeRows>>
  <2>1. Items' \subseteq Items /\ \A i \in Items : i # item => i \in Items'
      BY <1>1, <1>4 DEF Items
  <2>2. Unread \subseteq Unread' /\ item.key \in Unread' BY <1>4, NamedAsUnread
  <2>3. \A i \in Items : ItemOK(i)' BY <1>1, SameTree DEF TreeInv, ItemOK
  <2>4. \A t \in treeRows' : RowOK(t)'
      BY <1>1, <1>4, <2>2 DEF TreeInv, RowOK, Common, Membership
  <2>5. missing' \subseteq [key : Tickets, stage : {"issue", "children", "cycle", "outside"}]
      BY <1>2, <1>4 DEF TreeInv, ItemOK
  <2>6. \A t \in met : t \in treeRows \/ t \in Unread' \/ \E i \in Items' : i.key = t
      BY <2>1, <2>2 DEF TreeInv
  <2> QED BY <1>1, <1>4, <2>1, <2>3, <2>4, <2>5, <2>6, SameTree DEF TreeInv
<1> QED BY <1>3, <1>4 DEF ReadTicket

LEMMA ChildrenUnreadStep ==
    ASSUME TreeInv, NEW item \in opened, ChildrenUnread(item)
    PROVE  TreeInv'
<1>1. /\ UNCHANGED <<children, lately, traversal, level, nextLevel, met, treeRows>>
      /\ opened = {item} /\ opened' = {}
      /\ missing' = missing \cup {[key |-> item.key, stage |-> "children"]}
    BY DEF ChildrenUnread, jiraTree
<1>2. ItemOK(item) /\ item \in Items BY DEF TreeInv, Items
<1>3. Items' \subseteq Items /\ \A i \in Items : i # item => i \in Items' BY <1>1 DEF Items
<1>4. Unread \subseteq Unread' /\ item.key \in Unread' BY <1>1, NamedAsUnread
<1>5. \A i \in Items : ItemOK(i)' BY <1>1, SameTree DEF TreeInv, ItemOK
<1>6. \A t \in treeRows : RowOK(t)'
    BY <1>1, <1>4 DEF TreeInv, RowOK, Common, Membership
<1>7. missing' \subseteq [key : Tickets, stage : {"issue", "children", "cycle", "outside"}]
    BY <1>1, <1>2 DEF TreeInv, ItemOK
<1>8. \A t \in met : t \in treeRows \/ t \in Unread' \/ \E i \in Items' : i.key = t
    BY <1>3, <1>4 DEF TreeInv
<1> QED BY <1>1, <1>3, <1>5, <1>6, <1>7, <1>8, SameTree DEF TreeInv

LEMMA ChildrenReadStep ==
    ASSUME TreeInv, NEW item \in opened, ChildrenRead(item)
    PROVE  TreeInv'
<1>1. PICK found \in lately[item.key] :
          LET cycles == Membership(item.key, found) \cap item.path
              fresh == Membership(item.key, found) \ (item.path \cup met)
          IN  /\ missing' = missing
                    \cup {[key |-> t, stage |-> "cycle"] : t \in cycles}
                    \cup {[key |-> t, stage |-> "outside"] : t \in fresh \ InScope}
              /\ met' = met \cup fresh
              /\ nextLevel' = nextLevel
                    \cup {[key |-> t, path |-> item.path \cup {t}] : t \in fresh \cap InScope}
    BY DEF ChildrenRead
<1> DEFINE k == item.key
           read == Membership(k, found)
           cycles == read \cap item.path
           fresh == read \ (item.path \cup met)
           new == {[key |-> t, path |-> item.path \cup {t}] : t \in fresh \cap InScope}
<1>2. /\ UNCHANGED <<children, lately, traversal, level, treeRows>>
      /\ opened = {item} /\ opened' = {}
      /\ missing' = missing \cup {[key |-> t, stage |-> "cycle"] : t \in cycles}
                            \cup {[key |-> t, stage |-> "outside"] : t \in fresh \ InScope}
      /\ met' = met \cup fresh /\ nextLevel' = nextLevel \cup new
    BY <1>1 DEF ChildrenRead, jiraTree
<1>3. ItemOK(item) /\ item \in Items /\ k \in Tickets /\ item.path \subseteq met /\ k \in treeRows
    BY DEF TreeInv, Items, ItemOK
<1>4. found \in SUBSET Tickets /\ read \subseteq Tickets /\ fresh \subseteq Tickets
    BY <1>3 DEF TreeInv, Membership
<1>5. read \subseteq Below([t \in Tickets |-> Lately(t)])
  <2>1. found \subseteq [t \in Tickets |-> Lately(t)][k] BY <1>3 DEF Lately
  <2> QED BY <1>3, <1>4, <2>1, ReadIsBelow DEF ItemOK
<1>6. Items' \subseteq Items \cup new /\ new \subseteq Items'
      /\ \A i \in Items : i # item => i \in Items'
    BY <1>2 DEF Items
<1>7. ASSUME NEW i \in Items' PROVE ItemOK(i)'
  <2>1. CASE i \in Items
    <3>1. ItemOK(i) BY <2>1 DEF TreeInv
    <3> QED BY <1>2, <3>1, SameTree DEF ItemOK
  <2>2. CASE i \in new
    <3>1. PICK t \in fresh \cap InScope : i = [key |-> t, path |-> item.path \cup {t}]
        BY <2>2
    <3>2. item.path \cup {t} \subseteq met' /\ t \in met' BY <1>2, <1>3, <3>1
    <3>3. i.key = t /\ i.path = item.path \cup {t} BY <3>1
    <3>4. i \in [key : Tickets, path : SUBSET Tickets]
      <4>1. item.path \cup {t} \subseteq Tickets BY <1>3, <1>4, <3>1 DEF ItemOK
      <4> QED BY <1>4, <3>1, <4>1
    <3>5. t \in Below([u \in Tickets |-> Lately(u)]) BY <1>5, <3>1
    <3> QED BY <1>2, <3>2, <3>3, <3>4, <3>5, SameTree DEF ItemOK
  <2> QED BY <1>6, <2>1, <2>2
<1>8. Unread \subseteq Unread'
    BY <1>2 DEF Unread
<1>9. ASSUME NEW t \in fresh \ InScope PROVE t \in Unread'
  <2> DEFINE e == [key |-> t, stage |-> "outside"]
  <2>1. e \in missing' /\ e.stage # "cycle" /\ e.key = t BY <1>2
  <2> HIDE DEF e
  <2> QED BY <2>1 DEF Unread
<1>10. ASSUME NEW t \in fresh \cap InScope PROVE \E i \in Items' : i.key = t
  <2> DEFINE i == [key |-> t, path |-> item.path \cup {t}]
  <2>1. i \in new /\ i.key = t OBVIOUS
  <2> HIDE DEF i, new
  <2> QED BY <1>6, <2>1
<1>11. \A t \in met' : t \in treeRows \/ t \in Unread' \/ \E i \in Items' : i.key = t
  <2>1. ASSUME NEW t \in met PROVE t \in treeRows \/ t \in Unread' \/ \E i \in Items' : i.key = t
    <3>1. t \in treeRows \/ t \in Unread \/ \E i \in Items : i.key = t BY DEF TreeInv
    <3> QED BY <1>3, <1>6, <1>8, <3>1
  <2> HIDE DEF fresh
  <2> QED BY <1>2, <1>9, <1>10, <2>1
<1>12. ASSUME NEW t \in treeRows PROVE RowOK(t)'
  <2>1. CASE t = k
    <3>1. Common(lately[k]) \subseteq found BY DEF Common
    <3>2. Membership(k, Common(lately[k])) \subseteq read BY <3>1 DEF Membership
    <3>3. read \subseteq met' BY <1>2, <1>3
    <3> HIDE DEF read
    <3> QED BY <1>2, <2>1, <3>2, <3>3 DEF RowOK, Common, Membership
  <2>2. CASE t # k
    <3>1. RowOK(t) BY DEF TreeInv
    <3>2. Common(lately[t])' = Common(lately[t]) BY <1>2 DEF Common
    <3>3. met \subseteq met' BY <1>2
    <3> HIDE DEF fresh, k
    <3> QED BY <1>2, <1>8, <2>2, <3>1, <3>2, <3>3 DEF RowOK, Membership, k
  <2> QED BY <2>1, <2>2
<1>13. missing' \subseteq [key : Tickets, stage : {"issue", "children", "cycle", "outside"}]
  <2>1. missing \subseteq [key : Tickets, stage : {"issue", "children", "cycle", "outside"}]
      BY DEF TreeInv
  <2>2. cycles \subseteq Tickets BY <1>4
  <2> HIDE DEF cycles, fresh
  <2> QED BY <1>2, <1>4, <2>1, <2>2
<1>14. met' \subseteq Tickets BY <1>2, <1>4 DEF TreeInv
<1>15. traversal \notin {"idle", "answered"} BY <1>3 DEF TreeInv
<1> HIDE DEF fresh, new, cycles, k
<1> QED BY <1>2, <1>7, <1>11, <1>12, <1>13, <1>14, <1>15, SameTree DEF TreeInv

LEMMA MoveTicketStep ==
    ASSUME TreeInv, NEW t \in Tickets, NEW p \in Tickets, NEW q \in Tickets, MoveTicket(t, p, q)
    PROVE  TreeInv'
<1>1. /\ UNCHANGED <<traversal, level, nextLevel, opened, met, treeRows, missing>>
      /\ children' = [children EXCEPT ![p] = @ \ {t}, ![q] = @ \cup {t}]
      /\ lately' = [k \in Tickets |-> lately[k] \cup {children'[k]}]
    BY DEF MoveTicket
<1>2. children' \in [Tickets -> SUBSET Tickets] BY <1>1 DEF TreeInv
<1>3. lately' \in [Tickets -> SUBSET SUBSET Tickets] BY <1>1, <1>2 DEF TreeInv
<1>4. \A k \in Tickets : lately[k] \subseteq lately'[k] BY <1>1
<1>5. Below([k \in Tickets |-> Lately(k)]) \subseteq Below([k \in Tickets |-> Lately(k)])'
  <2> DEFINE old == [k \in Tickets |-> Lately(k)]
             new == [k \in Tickets |-> UNION lately'[k]]
  <2>1. \A k \in Tickets : old[k] \subseteq new[k] BY <1>4 DEF Lately
  <2>2. Below(old) \subseteq Below(new) BY <2>1, BelowGrows
  <2>3. Below([k \in Tickets |-> Lately(k)])' = Below(new) BY DEF Lately, Below, Common, Membership
  <2> QED BY <2>2, <2>3
<1>6. Items' = Items /\ Unread' = Unread BY <1>1 DEF Items, Unread
<1>7. \A i \in Items : ItemOK(i)' BY <1>1, <1>5 DEF TreeInv, ItemOK
<1>8. \A k \in treeRows : RowOK(k)'
  <2> SUFFICES ASSUME NEW k \in treeRows PROVE RowOK(k)'
      OBVIOUS
  <2>1. RowOK(k) /\ k \in Tickets BY DEF TreeInv, Below, Common
  <2>2. Common(lately[k])' \subseteq Common(lately[k]) BY <1>4, <2>1 DEF Common
  <2> QED BY <1>1, <1>6, <2>1, <2>2 DEF RowOK, Membership
<1> QED BY <1>1, <1>2, <1>3, <1>5, <1>6, <1>7, <1>8 DEF TreeInv

LEMMA TreeStep ==
    ASSUME TreeInv, [HierarchyNext]_hierarchyVars
    PROVE  TreeInv'
<1>1. CASE SessionRefused
  <2>1. /\ UNCHANGED <<children, lately>> /\ traversal' = "refused"
        /\ level' = {} /\ nextLevel' = {} /\ opened' = {} /\ met' = {}
        /\ treeRows' = {} /\ missing' = {}
      BY <1>1 DEF SessionRefused, jiraTree
  <2>2. Items' = {} BY <2>1 DEF Items
  <2> QED BY <2>1, <2>2 DEF TreeInv
<1>2. CASE Descend \/ AnswerTree \/ UNCHANGED hierarchyVars
  <2>1. /\ UNCHANGED <<children, lately, opened, met, treeRows, missing>>
        /\ Items' = Items /\ Unread' = Unread
        /\ \/ traversal' = traversal
           \/ traversal = "reading" /\ traversal' = "answered" /\ Items = {}
      BY <1>2 DEF Descend, AnswerTree, hierarchyVars, jiraTree, Items, Unread
  <2>2. \A i \in Items : ItemOK(i)' BY <2>1, SameTree DEF TreeInv, ItemOK
  <2>3. \A t \in treeRows : RowOK(t)' BY <2>1 DEF TreeInv, RowOK, Common, Membership
  <2> QED BY <2>1, <2>2, <2>3, SameTree DEF TreeInv
<1> QED BY <1>1, <1>2, BeginTraversalStep, ReadTicketStep, ChildrenUnreadStep, ChildrenReadStep,
           MoveTicketStep DEF HierarchyNext

(* For any tickets, scope, epics and moves: an answer holds every ticket that was below the *)
(* root all the time, or names as unread the one above which hides it; and nothing that     *)
(* never was below the root.                                                                *)
THEOREM DescendantsAreKept == HierarchySpec => []NothingBelowIsLost
<1>1. ASSUME TreeInv, traversal = "answered" PROVE NothingBelowIsLost
  <2> DEFINE links == [t \in Tickets |-> IF t \in Unread THEN {} ELSE Common(lately[t])]
             all == treeRows \cup Unread
  <2>1. \A t \in met : t \in all BY <1>1 DEF TreeInv
  <2>2. all \in SUBSET Tickets BY <1>1 DEF TreeInv, Unread, Below, Common
  <2>3. ASSUME NEW t \in all PROVE Membership(t, links[t]) \subseteq all
    <3>1. CASE t \in Unread BY <2>2, <3>1 DEF Membership
    <3>2. CASE t \notin Unread
      <4>1. RowOK(t) /\ opened = {} BY <1>1, <3>2 DEF TreeInv, Items
      <4>2. Membership(t, Common(lately[t])) \subseteq met BY <3>2, <4>1 DEF RowOK
      <4>3. links[t] = Common(lately[t]) BY <2>2, <3>2
      <4> QED BY <2>1, <4>2, <4>3
    <3> QED BY <3>1, <3>2
  <2>4. RootTicket \in all BY <1>1, <2>1 DEF TreeInv
  <2>5. Closed(all, links) BY <2>3, <2>4 DEF Closed
  <2>6. Below(links) \subseteq all BY <2>2, <2>5, BelowIsInClosed
  <2>7. treeRows \subseteq Below([t \in Tickets |-> UNION lately[t]]) BY <1>1 DEF TreeInv, Lately
  <2> QED BY <2>6, <2>7 DEF NothingBelowIsLost
<1>2. TreeInv => NothingBelowIsLost BY <1>1 DEF NothingBelowIsLost
<1> QED BY <1>2, TreeStarts, TreeStep, PTL DEF HierarchySpec


=================================================================================
