---- MODULE CreateOnce ----
(***************************************************************************)
(* What the mutation receipts promise the rest of Lake Task Manager: one   *)
(* client mutation id makes at most one Jira object, and once the id is    *)
(* closed (its result is recorded durably) the object exists and nothing   *)
(* about it changes any more.  Crashes, lost responses, retries and late   *)
(* commits do not appear at this level.                                    *)
(***************************************************************************)
CONSTANTS
    Keys,       \* mutation ids
    Request     \* requests that can each make one Jira object

VARIABLES
    made,       \* made[k]: the Jira objects that came out of mutation k
    closed      \* the mutations whose outcome is recorded durably

vars == <<made, closed>>

Init ==
    /\ made = [k \in Keys |-> {}]
    /\ closed = {}

\* Jira creates the object of mutation k; a closed mutation makes no more.
Create(k, r) ==
    /\ k \notin closed
    /\ made[k] = {}
    /\ made' = [made EXCEPT ![k] = {r}]
    /\ UNCHANGED closed

\* The outcome is recorded; from now on every retry gets this object.
Close(k) ==
    /\ k \notin closed
    /\ made[k] # {}
    /\ closed' = closed \cup {k}
    /\ UNCHANGED made

Next == \E k \in Keys : Close(k) \/ \E r \in Request : Create(k, r)

Spec == Init /\ [][Next]_vars
====
