------------------------------ MODULE MCProtocols ------------------------------
(* Nine machines that share nothing, checked side by side: focus says which  *)
(* one a behaviour is about, and the others stay in their initial states.    *)
EXTENDS ProviderStartup, BulkRun, Approval, AgentTurn, ToolLane, CacheMemo,
        ConfluenceBatch, HierarchyRead, Launcher

CONSTANTS r1, r2, above, below, top, left, right, far

\* Both rows in one chunk, or each in its own.
ChunkDef == {[r \in Rows |-> 1], [r \in Rows |-> IF r = r2 THEN 2 ELSE 1]}

Row(action, p, target, v, needs) ==
    [action |-> action, page |-> p, target |-> target, version |-> v, needs |-> needs]

\* A page is moved out from under another, and then that other is put into the trash, or the
\* page edited; a page comes back from the trash and another is moved below it.
Under == [p \in Pages |-> IF p = below THEN above ELSE Root]
Apart == [p \in Pages |-> Root]
BatchDef == {
    [ops |-> <<Row("move", below, Root, 1, {}), Row("trash", above, Root, 1, {1})>>,
     parent |-> Under, trashed |-> {}],
    [ops |-> <<Row("move", below, Root, 1, {}), Row("update", below, Root, 2, {1})>>,
     parent |-> Under, trashed |-> {}],
    [ops |-> <<Row("restore", above, Root, 1, {}), Row("move", below, above, 1, {1})>>,
     parent |-> Apart, trashed |-> {above}]}

Tree(underTop, underLeft, underRight, underFar) ==
    [t \in Tickets |-> CASE t = top -> underTop [] t = left -> underLeft
                         [] t = right -> underRight [] t = far -> underFar]

\* A ticket reached twice, a cycle, and tickets of another project under an epic and not.
ShapeDef == {
    Tree({left, right}, {right}, {far}, {}), Tree({left}, {right}, {left}, {}),
    Tree({left}, {right, far}, {}, {}), Tree({left, far}, {}, {}, {right})}

VARIABLE focus

Machines == {"provider", "bulk", "approval", "turn", "lane", "memo", "batch", "tree",
             "launcher"}

ProtocolsInit ==
    /\ focus \in Machines
    /\ Init /\ BulkInit /\ ApprovalInit /\ TurnInit /\ LaneInit /\ MemoInit /\ BatchInit
    /\ HierarchyInit /\ LauncherInit
    \* A machine that rests does so in one state.
    /\ focus # "bulk" => run.chunk = CHOOSE cut \in Chunkings : TRUE
    /\ focus # "batch" => \E i \in 1..2 : batch[i].action = "trash"
    /\ focus # "tree" => children[top] = {left, right}
    /\ focus # "approval" => paired /\ content = CHOOSE c \in Contents : TRUE

ProtocolsNext ==
    /\ UNCHANGED focus
    /\ IF focus = "provider" THEN Next ELSE UNCHANGED vars
    /\ IF focus = "bulk" THEN BulkNext ELSE UNCHANGED bulkVars
    /\ IF focus = "approval" THEN ApprovalNext ELSE UNCHANGED approvalVars
    /\ IF focus = "turn" THEN TurnNext ELSE UNCHANGED turnVars
    /\ IF focus = "lane" THEN LaneNext ELSE UNCHANGED laneVars
    /\ IF focus = "memo" THEN MemoNext ELSE UNCHANGED memoVars
    /\ IF focus = "batch" THEN BatchNext ELSE UNCHANGED batchVars
    /\ IF focus = "tree" THEN HierarchyNext ELSE UNCHANGED hierarchyVars
    /\ IF focus = "launcher" THEN LauncherNext ELSE UNCHANGED launchVars

ProtocolsSpec ==
    ProtocolsInit
    /\ [][ProtocolsNext]_<<focus, vars, bulkVars, approvalVars, turnVars, laneVars, memoVars,
                        batchVars, hierarchyVars, launchVars>>

================================================================================
