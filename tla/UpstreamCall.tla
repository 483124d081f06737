----------------------------- MODULE UpstreamCall -----------------------------
(***************************************************************************)
(* What a caller of the SSO provider may rely on (app/auth/base.py,        *)
(* UpstreamBusy, UpstreamUnavailable and PendingUpstreamOperation): a      *)
(* request is sent at most once and never after its caller was answered; a *)
(* caller that is refused was not heard by Jira; and a caller that is      *)
(* answered while its request is still out there is told so.               *)
(***************************************************************************)
CONSTANT Requests

VARIABLES
    sent,        \* requests handed to the browser
    finished,    \* requests the browser is done with
    told         \* what the caller of each was told

vars == <<sent, finished, told>>

Tell(r, answer) == told[r] = "nothing" /\ told' = [told EXCEPT ![r] = answer]

Init ==
    /\ sent = {}
    /\ finished = {}
    /\ told = [r \in Requests |-> "nothing"]

Send(r) ==
    /\ r \notin sent
    /\ told[r] = "nothing"
    /\ sent' = sent \cup {r}
    /\ UNCHANGED <<finished, told>>

Finish(r) ==
    /\ r \in sent \ finished
    /\ finished' = finished \cup {r}
    /\ UNCHANGED <<sent, told>>

Refuse(r) == r \notin sent /\ Tell(r, "refused") /\ UNCHANGED <<sent, finished>>
Answer(r) == r \in finished /\ Tell(r, "answered") /\ UNCHANGED <<sent, finished>>
Abandon(r) == r \in sent /\ Tell(r, "abandoned") /\ UNCHANGED <<sent, finished>>

Next == \E r \in Requests : Send(r) \/ Finish(r) \/ Refuse(r) \/ Answer(r) \/ Abandon(r)

Spec == Init /\ [][Next]_vars

=============================================================================
