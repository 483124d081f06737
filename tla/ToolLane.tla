------------------------------- MODULE ToolLane -------------------------------
(***************************************************************************)
(* An MCP request passes two gates that refuse instead of queueing: the    *)
(* HTTP bridge (local_mcp/transport_host.py, wrap) and the lane of the     *)
(* tool it calls (local_mcp/capacity.py, ToolLane.run).  At each, a permit *)
(* is taken by the one who asks and given back either by the one who does  *)
(* the work, if he started, or by the one who asked, if he leaves first.   *)
(* Tools run in threads that go on when nobody waits for them any more.    *)
(***************************************************************************)
EXTENDS Naturals, FiniteSets

CONSTANTS
    Requests,        \* HTTP requests, each with one tool call
    HttpCapacity,    \* permits of the bridge
    LaneCapacity     \* permits of the lane

ASSUME LaneAssumption == HttpCapacity \in Nat \ {0} /\ LaneCapacity \in Nat \ {0}

VARIABLES
    http,            \* where each request is at the bridge
    tool,            \* where its tool call is at the lane
    disconnected,    \* requests whose client has gone
    deserted,        \* requests whose lane no longer waits for the tool
    httpPermits,     \* _permits of the bridge
    lanePermits      \* _permits of the lane

laneVars == <<http, tool, disconnected, deserted, httpPermits, lanePermits>>

LaneInit ==
    /\ http = [q \in Requests |-> "out"]
    /\ tool = [q \in Requests |-> "none"]
    /\ disconnected = {} /\ deserted = {}
    /\ httpPermits = HttpCapacity /\ lanePermits = LaneCapacity

HttpTo(q, place) == http' = [http EXCEPT ![q] = place]
ToolTo(q, place) == tool' = [tool EXCEPT ![q] = place]

-----------------------------------------------------------------------------
(* The bridge. *)

\* A request that finds no permit is answered 429 at once.
Admit(q) ==
    /\ http[q] = "out"
    /\ \/ httpPermits > 0 /\ httpPermits' = httpPermits - 1 /\ HttpTo(q, "queued")
       \/ httpPermits = 0 /\ UNCHANGED httpPermits /\ HttpTo(q, "over")
    /\ UNCHANGED <<tool, disconnected, deserted, lanePermits>>

\* execute starts on the loop of the MCP server, unless it was cancelled before.
StartRequest(q) ==
    /\ http[q] = "queued" /\ HttpTo(q, "started")
    /\ UNCHANGED <<tool, disconnected, deserted, httpPermits, lanePermits>>

\* The client goes; only then is the lock asked for.
Disconnect(q) ==
    /\ http[q] \in {"queued", "started"} /\ q \notin disconnected
    /\ disconnected' = disconnected \cup {q}
    /\ UNCHANGED <<http, tool, deserted, httpPermits, lanePermits>>

\* Not started: cancelled under the lock, and the permit given back by the caller.
Withdraw(q) ==
    /\ http[q] = "queued" /\ q \in disconnected
    /\ HttpTo(q, "withdrawn")
    /\ UNCHANGED <<tool, disconnected, deserted, httpPermits, lanePermits>>

GiveBack(q) ==
    /\ http[q] = "withdrawn" /\ HttpTo(q, "over")
    /\ httpPermits' = httpPermits + 1
    /\ UNCHANGED <<tool, disconnected, deserted, lanePermits>>

\* Started: the permit is given back when the request is answered.
CloseRequest(q) ==
    /\ http[q] = "started" /\ (tool[q] = "over" \/ q \in deserted)
    /\ HttpTo(q, "over")
    /\ httpPermits' = httpPermits + 1
    /\ UNCHANGED <<tool, disconnected, deserted, lanePermits>>

-----------------------------------------------------------------------------
(* The lane. *)

\* run: no permit, no call (ToolCapacityExceeded).
CallTool(q) ==
    /\ http[q] = "started" /\ tool[q] = "none"
    /\ \/ lanePermits > 0 /\ lanePermits' = lanePermits - 1 /\ ToolTo(q, "queued")
       \/ lanePermits = 0 /\ UNCHANGED lanePermits /\ ToolTo(q, "over")
    /\ UNCHANGED <<http, disconnected, deserted, httpPermits>>

\* execute, in a thread: started is set under the lock ...
Begin(q) ==
    /\ tool[q] = "queued" /\ ToolTo(q, "begun")
    /\ UNCHANGED <<http, disconnected, deserted, httpPermits, lanePermits>>

\* ... the client is looked after, and the tool runs or not ...
Run(q) ==
    /\ tool[q] = "begun" /\ ToolTo(q, IF q \in disconnected THEN "returned" ELSE "running")
    /\ UNCHANGED <<http, disconnected, deserted, httpPermits, lanePermits>>

ReturnTool(q) ==
    /\ tool[q] = "running" /\ ToolTo(q, "returned")
    /\ UNCHANGED <<http, disconnected, deserted, httpPermits, lanePermits>>

\* ... and the worker gives the permit back.
Release(q) ==
    /\ tool[q] = "returned" /\ ToolTo(q, "over")
    /\ lanePermits' = lanePermits + 1
    /\ UNCHANGED <<http, disconnected, deserted, httpPermits>>

\* Slip: whoever leaves before the tool has ended gives the permit back.
DesertAndRelease(q) ==
    /\ tool[q] \in {"queued", "begun", "running", "returned"} /\ q \notin deserted
    /\ deserted' = deserted \cup {q}
    /\ IF tool[q] = "queued" THEN ToolTo(q, "over") ELSE UNCHANGED tool
    /\ lanePermits' = lanePermits + 1
    /\ UNCHANGED <<http, disconnected, httpPermits>>

\* The coroutine that waits is cancelled (the session ends, the server stops); under the
\* lock it sees whether the worker has started.
Desert(q) ==
    /\ tool[q] \in {"queued", "begun", "running", "returned"} /\ q \notin deserted
    /\ deserted' = deserted \cup {q}
    /\ IF tool[q] = "queued"
         THEN ToolTo(q, "over") /\ lanePermits' = lanePermits + 1
         ELSE UNCHANGED <<tool, lanePermits>>
    /\ UNCHANGED <<http, disconnected, httpPermits>>

LaneNext ==
    \E q \in Requests :
        \/ Admit(q) \/ StartRequest(q) \/ Disconnect(q) \/ Withdraw(q) \/ GiveBack(q) \/ CloseRequest(q)
        \/ CallTool(q) \/ Begin(q) \/ Run(q) \/ ReturnTool(q) \/ Release(q) \/ Desert(q)

LaneSpec == LaneInit /\ [][LaneNext]_laneVars

-----------------------------------------------------------------------------
(* Properties *)

Running == {q \in Requests : tool[q] = "running"}
AtRest == \A q \in Requests : http[q] \in {"out", "over"} /\ tool[q] \in {"none", "over"}

(* However requests are cancelled, no more tools run at once than the lane    *)
(* admits, a tool that nobody waits for any more included; and once all is    *)
(* quiet every permit of the lane and of the bridge is back, none lost and    *)
(* none twice (a lost one would refuse a tool for ever).                      *)
CapacityIsKept ==
    /\ Cardinality(Running) <= LaneCapacity
    /\ AtRest => lanePermits = LaneCapacity /\ httpPermits = HttpCapacity

===============================================================================
