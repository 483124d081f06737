------------------------------ MODULE HierarchyRead ------------------------------
(***************************************************************************)
(* The descendants of a ticket (jira/hierarchy_service.py): level by level *)
(* the ticket and then its children are read, each through caches of its   *)
(* own, while others move tickets about and reads fail.  Nothing is frozen *)
(* meanwhile; what could not be read is named in a ledger of its own.      *)
(*                                                                         *)
(* A cached membership is one the ticket had lately, so a read answers any *)
(* of those.  The tickets of a level are read in any order: the order only *)
(* decides which parent is shown.  Shown parents, depths, inherited epics  *)
(* and the pages of the answer are left out.                               *)
(***************************************************************************)
EXTENDS Naturals

CONSTANTS
    Tickets,
    RootTicket,
    InScope,      \* tickets of the configured projects
    Epics,        \* their children are searched for within the scope
    Shapes,       \* memberships to begin with
    MaxMoves      \* bound: tickets that change their parent

ASSUME HierarchyAssumption ==
    /\ RootTicket \in InScope /\ InScope \subseteq Tickets /\ Epics \subseteq Tickets
    /\ Shapes \subseteq [Tickets -> SUBSET Tickets]

VARIABLES
    children,     \* the children of each ticket, at Jira
    lately,       \* the sets of children it had since the oldest cached membership
    moves,
    traversal,    \* "idle", "reading", "answered" or "refused"
    level,        \* pending: tickets of this level with the path to them
    nextLevel,    \* next_pending
    opened,       \* the ticket whose children are read next, or nothing: {}
    met,          \* seen
    treeRows,     \* rows
    missing       \* the ledger: tickets and what went wrong with them

jiraTree == <<children, lately, moves>>
hierarchyVars == <<jiraTree, traversal, level, nextLevel, opened, met, treeRows, missing>>

HierarchyInit ==
    /\ children \in Shapes /\ lately = [t \in Tickets |-> {children[t]}] /\ moves = 0
    /\ traversal = "idle"
    /\ level = {} /\ nextLevel = {} /\ opened = {}
    /\ met = {} /\ treeRows = {} /\ missing = {}

-----------------------------------------------------------------------------
BeginTraversal ==
    /\ traversal = "idle" /\ traversal' = "reading"
    /\ level' = {[key |-> RootTicket, path |-> {RootTicket}]}
    /\ met' = {RootTicket}
    /\ UNCHANGED <<jiraTree, nextLevel, opened, treeRows, missing>>

\* The ticket itself: a failed prefetch of the level does not matter.
ReadTicket(item) ==
    /\ traversal = "reading" /\ opened = {} /\ item \in level
    /\ level' = level \ {item}
    /\ \/ opened' = {item} /\ treeRows' = treeRows \cup {item.key} /\ UNCHANGED missing
       \/ /\ missing' = missing \cup {[key |-> item.key, stage |-> "issue"]}
          /\ UNCHANGED <<opened, treeRows>>
    /\ UNCHANGED <<jiraTree, traversal, nextLevel, met>>

\* Slip: children that cannot be read are no children.
ChildrenTakenForNone(item) ==
    /\ opened = {item} /\ opened' = {}
    /\ UNCHANGED <<jiraTree, traversal, level, nextLevel, met, treeRows, missing>>

ChildrenUnread(item) ==
    /\ opened = {item} /\ opened' = {}
    /\ missing' = missing \cup {[key |-> item.key, stage |-> "children"]}
    /\ UNCHANGED <<jiraTree, traversal, level, nextLevel, met, treeRows>>

\* The children of an epic are searched for within the scope.
Membership(t, found) == IF t \in Epics THEN found \cap InScope ELSE found

\* A child on the way here is a cycle; one met elsewhere is not read twice; one of another
\* project is not read at all.
ChildrenRead(item) ==
    /\ opened = {item} /\ opened' = {}
    /\ \E found \in lately[item.key] :
          LET cycles == Membership(item.key, found) \cap item.path
              fresh == Membership(item.key, found) \ (item.path \cup met)
          IN  /\ missing' = missing
                    \cup {[key |-> t, stage |-> "cycle"] : t \in cycles}
                    \cup {[key |-> t, stage |-> "outside"] : t \in fresh \ InScope}
              /\ met' = met \cup fresh
              /\ nextLevel' = nextLevel
                    \cup {[key |-> t, path |-> item.path \cup {t}] : t \in fresh \cap InScope}
    /\ UNCHANGED <<jiraTree, traversal, level, treeRows>>

\* A session that expired is no ledger entry: the whole call is refused.
SessionRefused ==
    /\ traversal = "reading" /\ level \cup opened # {}
    /\ traversal' = "refused"
    /\ level' = {} /\ nextLevel' = {} /\ opened' = {} /\ met' = {}
    /\ treeRows' = {} /\ missing' = {}
    /\ UNCHANGED jiraTree

Descend ==
    /\ traversal = "reading" /\ level = {} /\ opened = {} /\ nextLevel # {}
    /\ level' = nextLevel /\ nextLevel' = {}
    /\ UNCHANGED <<jiraTree, traversal, opened, met, treeRows, missing>>

AnswerTree ==
    /\ traversal = "reading" /\ level = {} /\ opened = {} /\ nextLevel = {}
    /\ traversal' = "answered"
    /\ UNCHANGED <<jiraTree, level, nextLevel, opened, met, treeRows, missing>>

\* Somebody gives a ticket another parent.
MoveTicket(t, p, q) ==
    /\ moves < MaxMoves /\ traversal \in {"idle", "reading"}
    /\ p # q /\ t \in children[p]
    /\ children' = [children EXCEPT ![p] = @ \ {t}, ![q] = @ \cup {t}]
    /\ lately' = [k \in Tickets |-> lately[k] \cup {children'[k]}]
    /\ moves' = moves + 1
    /\ UNCHANGED <<traversal, level, nextLevel, opened, met, treeRows, missing>>

HierarchyNext ==
    \/ BeginTraversal \/ SessionRefused \/ Descend \/ AnswerTree
    \/ \E item \in level : ReadTicket(item)
    \/ \E item \in opened : ChildrenUnread(item) \/ ChildrenRead(item)
    \/ \E t, p, q \in Tickets : MoveTicket(t, p, q)

HierarchySpec == HierarchyInit /\ [][HierarchyNext]_hierarchyVars

-----------------------------------------------------------------------------
(* Properties *)

\* What all the sets have in common.
Common(sets) == {t \in Tickets : \A s \in sets : t \in s}

\* The tickets below the root along the given edges.
Below(edges) ==
    Common({s \in SUBSET Tickets :
        RootTicket \in s /\ \A t \in s : Membership(t, edges[t]) \subseteq s})

\* Named as unread: a ticket that closes a cycle is a row already.
Unread == {entry.key : entry \in {e \in missing : e.stage # "cycle"}}

(* Every row was below the root at some time; and a ticket that was below it   *)
(* all the time is a row, is named as unread, or is below one that is: an      *)
(* answer that names none holds every such ticket, whatever reads failed,      *)
(* tickets moved or cycles closed on the way.                                  *)
NothingBelowIsLost ==
    traversal = "answered" =>
        /\ treeRows \subseteq Below([t \in Tickets |-> UNION lately[t]])
        /\ Below([t \in Tickets |-> IF t \in Unread THEN {} ELSE Common(lately[t])])
              \subseteq treeRows \cup Unread

===============================================================================
