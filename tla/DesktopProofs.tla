------------------------------ MODULE DesktopProofs -------------------------------
(***************************************************************************)
(* Theorems about the desktop application and its session: who may carry   *)
(* out a login (LoginRequests), when the session counts as dead            *)
(* (SessionVerdict), when a page asks its user for a login (AuthRecovery), *)
(* and which application is left of several (Launcher), for any services,  *)
(* probers, requests and starts.                                           *)
(*                                                                         *)
(* A service has one login window because a login keeps its attempt        *)
(* "running" until it ends it itself (LoginOK), and only a queued attempt  *)
(* is claimed.  A verdict is earned because only the prober that holds the *)
(* lock hears and judges (ProberOK), and a refusal that counts has not     *)
(* been overtaken by a login.  A page asks justly because a refusal that   *)
(* is on its way tells of a session that was dead, unless the page has     *)
(* heard "ok" in the meantime and will not believe it (RecoveryInv).       *)
(*                                                                         *)
(* An application is left because a start gives up only in favour of the   *)
(* one that has the port (Survives), and whoever is leaving and has it     *)
(* still has a process that waits for it (Replaced).                       *)
(***************************************************************************)
EXTENDS LoginRequests, SessionVerdict, AuthRecovery, Launcher, TLAPS

-----------------------------------------------------------------------------
(* LoginRequests *)

AttemptBooks == [Services -> [id : Nat, state : {"idle", "queued", "running", "completed"}]]
Dispatches == [service : Services, id : Nat]

\* The login of an attempt whose dispatch did not fail has it running.
LoginOK(l) ==
    l.service \in failures \/
        /\ attempts[l.service].state = "running"
        /\ l.id \in {0, attempts[l.service].id}

LoginInv ==
    /\ attempts \in AttemptBooks
    /\ nextId \in Nat
    /\ dispatching \subseteq Dispatches /\ fallbacks \subseteq Dispatches
    /\ logins \subseteq [service : Services, by : Nat, id : Nat]
    /\ OneLoginWindow
    /\ \A l \in logins : LoginOK(l)

\* An attempt gets a state.
LEMMA AttemptSet ==
    ASSUME LoginInv, NEW s \in Services, NEW state \in {"running", "completed"},
           SetAttempt(s, state)
    PROVE  /\ attempts' \in AttemptBooks
           /\ attempts'[s].state = state /\ attempts'[s].id = attempts[s].id
           /\ \A t \in Services : t # s => attempts'[t] = attempts[t]
BY DEF LoginInv, SetAttempt, AttemptBooks

\* A queued attempt has no login under way, so it may have one.
LEMMA ClaimKeepsOne ==
    ASSUME LoginInv, NEW s \in Services, NEW who \in Nat, claim(s, who),
           UNCHANGED <<nextId, dispatching, failures>>, fallbacks' \subseteq fallbacks
    PROVE  LoginInv'
<1> DEFINE k == [service |-> s, by |-> who, id |-> 0]
<1>1. attempts[s].state = "queued" /\ logins' = logins \cup {k} /\ SetAttempt(s, "running")
    BY DEF claim
<1>2. /\ attempts' \in AttemptBooks
      /\ attempts'[s].state = "running" /\ attempts'[s].id = attempts[s].id
      /\ \A t \in Services : t # s => attempts'[t] = attempts[t]
    BY <1>1, AttemptSet
<1>3. \A l \in logins : l.service = s => s \in failures BY <1>1 DEF LoginInv, LoginOK
<1>4. k \in [service : Services, by : Nat, id : Nat] /\ k.service = s /\ k.id = 0 OBVIOUS
<1> HIDE DEF k
<1>5. OneLoginWindow' BY <1>1, <1>3, <1>4 DEF LoginInv, OneLoginWindow
<1>6. \A l \in logins' : LoginOK(l)'
    BY <1>1, <1>2, <1>3, <1>4 DEF LoginInv, LoginOK
<1> QED BY <1>1, <1>2, <1>4, <1>5, <1>6 DEF LoginInv

\* The end of an attempt whose login ended, or whose dispatch failed.
LEMMA CompleteKeepsOne ==
    ASSUME LoginInv, NEW s \in Services, NEW id \in Nat, Complete(s, id),
           logins' \subseteq logins, failures \subseteq failures',
           UNCHANGED <<nextId, fallbacks>>, dispatching' \subseteq dispatching,
           \A l \in logins' : l.service = s => s \in failures' \/ id # attempts[s].id
    PROVE  LoginInv'
<1>1. OneLoginWindow' BY DEF LoginInv, OneLoginWindow
<1>2. CASE attempts[s].id = id /\ Pending(s)
  <2>1. SetAttempt(s, "completed") BY <1>2 DEF Complete
  <2>2. /\ attempts' \in AttemptBooks
        /\ \A t \in Services : t # s => attempts'[t] = attempts[t]
      BY <2>1, AttemptSet
  <2>3. \A l \in logins' : LoginOK(l)' BY <1>2, <2>2 DEF LoginInv, LoginOK
  <2> QED BY <1>1, <2>2, <2>3 DEF LoginInv
<1>3. CASE ~(attempts[s].id = id /\ Pending(s))
  <2>1. attempts' = attempts BY <1>3 DEF Complete
  <2> QED BY <1>1, <2>1 DEF LoginInv, LoginOK
<1> QED BY <1>2, <1>3

LEMMA LoginStep ==
    ASSUME LoginInv, [LoginNext]_loginVars
    PROVE  LoginInv'
<1>1. ASSUME NEW s \in Services, RequestLogin(s) PROVE LoginInv'
  <2>1. /\ attempts' \in AttemptBooks
        /\ \A t \in Services : t # s => attempts'[t] = attempts[t]
        /\ nextId' \in Nat /\ dispatching' \subseteq Dispatches
      BY <1>1 DEF RequestLogin, LoginInv, Dispatches, AttemptBooks
  <2>2. \A l \in logins : LoginOK(l)'
      BY <1>1, <2>1 DEF RequestLogin, LoginInv, LoginOK, Pending
  <2> QED BY <1>1, <2>1, <2>2 DEF RequestLogin, LoginInv, OneLoginWindow
<1>2. ASSUME NEW d \in dispatching, DispatchLogin(d) PROVE LoginInv'
    BY <1>2 DEF DispatchLogin, LoginInv, LoginOK, OneLoginWindow
<1>3. ASSUME NEW d \in dispatching, DispatchFails(d) PROVE LoginInv'
  <2>1. d.service \in Services /\ d.id \in Nat BY DEF LoginInv, Dispatches
  <2> QED BY <1>3, <2>1, CompleteKeepsOne DEF DispatchFails
<1>4. ASSUME NEW d \in fallbacks, FallBack(d) PROVE LoginInv'
  <2>1. d.service \in Services /\ d.id \in Nat BY DEF LoginInv, Dispatches
  <2>2. CASE claim(d.service, d.id) BY <1>4, <2>1, <2>2, ClaimKeepsOne DEF FallBack
  <2>3. CASE UNCHANGED <<attempts, requested, logins>>
      BY <1>4, <2>3 DEF FallBack, LoginInv, LoginOK, OneLoginWindow
  <2> QED BY <1>4, <2>2, <2>3 DEF FallBack
<1>5. ASSUME NEW l \in logins, ReadAttempt(l) PROVE LoginInv'
  <2> DEFINE k == [l EXCEPT !.id = attempts[l.service].id]
  <2>1. l \in [service : Services, by : Nat, id : Nat] BY DEF LoginInv
  <2>2. attempts[l.service].id \in Nat BY <2>1 DEF LoginInv, AttemptBooks
  <2>3. k \in [service : Services, by : Nat, id : Nat] /\ k.service = l.service
        /\ k.id = attempts[l.service].id
      BY <2>1, <2>2
  <2>4. logins' = (logins \ {l}) \cup {k} BY <1>5 DEF ReadAttempt
  <2> HIDE DEF k
  <2>5. UNCHANGED <<attempts, nextId, dispatching, fallbacks, failures>> BY <1>5 DEF ReadAttempt
  <2>6. OneLoginWindow' BY <2>3, <2>4, <2>5 DEF LoginInv, OneLoginWindow
  <2>7. \A m \in logins' : LoginOK(m)' BY <2>3, <2>4, <2>5 DEF LoginInv, LoginOK
  <2> QED BY <2>3, <2>4, <2>5, <2>6, <2>7 DEF LoginInv
<1>6. ASSUME NEW l \in logins, EndLogin(l) PROVE LoginInv'
  <2>1. l.service \in Services /\ l.id \in Nat BY DEF LoginInv
  <2>2. \A m \in logins \ {l} : m.service = l.service => l.service \in failures
      BY DEF LoginInv, OneLoginWindow
  <2> QED BY <1>6, <2>1, <2>2, CompleteKeepsOne DEF EndLogin
<1>7. ASSUME WindowLooks PROVE LoginInv'
    BY <1>7, ClaimKeepsOne DEF WindowLooks
<1>8. ASSUME WindowChanges \/ UNCHANGED loginVars PROVE LoginInv'
    BY <1>8 DEF WindowChanges, loginVars, LoginInv, LoginOK, OneLoginWindow
<1> QED BY <1>1, <1>2, <1>3, <1>4, <1>5, <1>6, <1>7, <1>8 DEF LoginNext

(* One login window per service, for any number of services and attempts: the timers of    *)
(* this and of earlier attempts and the window of the application never both log in,       *)
(* unless the dispatch of an attempt failed while its login went on.                       *)
THEOREM OneWindow == LoginSpec => []OneLoginWindow
<1>1. LoginInit => LoginInv
    BY DEF LoginInit, LoginInv, OneLoginWindow, Dispatches, AttemptBooks
<1>2. LoginInv => OneLoginWindow BY DEF LoginInv
<1> QED BY <1>1, <1>2, LoginStep, PTL DEF LoginSpec

-----------------------------------------------------------------------------
(* SessionVerdict *)

ProberPlaces == {"idle", "gate", "first", "heard", "judged", "second", "heardAgain", "judgedAgain",
                 "ok", "degraded", "needLogin"}

\* Past the gate a prober is alone, and has counted the refusals it stands on.
ProberOK(p) ==
    /\ probing[p] \notin {"idle", "gate"} => probeLock = p
    /\ probing[p] \in {"first", "heard"} => refusals = 0
    /\ probing[p] = "judged" /\ judged = "expired" => refusals = 1
    /\ probing[p] \in {"second", "heardAgain"} => refusals = 1
    /\ probing[p] = "judgedAgain" /\ judged = "expired" => refusals = 2

VerdictInv ==
    /\ probing \in [Probers -> ProberPlaces]
    /\ generation \in Nat /\ before \in Nat /\ before <= generation
    /\ word = "expired" /\ before = generation => standing
    /\ probeLock = NoProber => refusals = 0
    /\ \A p \in Probers : ProberOK(p)

\* A prober goes on, and the others stay where they are.
LEMMA ProberMoves ==
    ASSUME VerdictInv, NEW p \in Probers, NEW place \in ProberPlaces, MovesTo(p, place)
    PROVE  /\ probing' \in [Probers -> ProberPlaces] /\ probing'[p] = place
           /\ \A q \in Probers : q # p => probing'[q] = probing[q]
BY DEF VerdictInv, MovesTo

\* What a prober past the gate does leaves the others before it.
LEMMA AloneInProbe ==
    ASSUME VerdictInv, NEW p \in Probers, probing[p] \notin {"idle", "gate"},
           NEW q \in Probers, q # p
    PROVE  probing[q] \in {"idle", "gate"}
BY DEF VerdictInv, ProberOK

LEMMA ProbeStep ==
    ASSUME VerdictInv, NEW p \in Probers, Probe(p) \/ PassGate(p) \/ GiveUp(p)
    PROVE  VerdictInv'
<1>1. CASE Probe(p)
  <2>1. MovesTo(p, "gate") BY <1>1 DEF Probe
  <2>2. /\ probing' \in [Probers -> ProberPlaces] /\ probing'[p] = "gate"
        /\ \A q \in Probers : q # p => probing'[q] = probing[q]
      BY <2>1, ProberMoves DEF ProberPlaces
  <2> QED BY <1>1, <2>2 DEF Probe, VerdictInv, ProberOK, heard
<1>2. CASE PassGate(p)
  <2>1. PICK place \in {"idle", "first"} :
            MovesTo(p, place) /\ probeLock' = IF place = "first" THEN p ELSE probeLock
      BY <1>2 DEF PassGate
  <2>2. /\ probing' \in [Probers -> ProberPlaces] /\ probing'[p] = place
        /\ \A q \in Probers : q # p => probing'[q] = probing[q]
      BY <2>1, ProberMoves DEF ProberPlaces
  <2>3. probeLock = NoProber /\ UNCHANGED <<generation, heard>> BY <1>2 DEF PassGate
  <2>4. refusals = 0 /\ \A q \in Probers : probing[q] \in {"idle", "gate"}
      BY <2>3, VerdictAssumption DEF VerdictInv, ProberOK
  <2> QED BY <2>1, <2>2, <2>3, <2>4, VerdictAssumption DEF VerdictInv, ProberOK, heard
<1>3. CASE GiveUp(p)
  <2>1. MovesTo(p, "idle") BY <1>3 DEF GiveUp
  <2>2. /\ probing' \in [Probers -> ProberPlaces] /\ probing'[p] = "idle"
        /\ \A q \in Probers : q # p => probing'[q] = probing[q]
      BY <2>1, ProberMoves DEF ProberPlaces
  <2> QED BY <1>3, <2>2 DEF GiveUp, VerdictInv, ProberOK, heard
<1> QED BY <1>1, <1>2, <1>3

LEMMA ProceedStep ==
    ASSUME VerdictInv, NEW p \in Probers, Proceed(p) \/ Busy(p)
    PROVE  VerdictInv'
<1>0. probing[p] \notin {"idle", "gate"}
    BY DEF Proceed, Busy, Ask, Judge, Renew, Conclude, StoreResult
<1>1. \A q \in Probers : q # p => probing[q] \in {"idle", "gate"} BY <1>0, AloneInProbe
<1>2. probeLock = p /\ ProberOK(p) /\ probing \in [Probers -> ProberPlaces]
    BY <1>0 DEF VerdictInv, ProberOK
<1>3. PICK place \in ProberPlaces : MovesTo(p, place)
    BY <1>2 DEF Proceed, Busy, Ask, Judge, Renew, Conclude, StoreResult, ProberPlaces
<1>4. /\ probing' \in [Probers -> ProberPlaces] /\ probing'[p] = place
      /\ \A q \in Probers : q # p => probing'[q] = probing[q]
    BY <1>3, ProberMoves
<1>5. CASE Ask(p)
  <2>1. \/ probing[p] = "first" /\ probing'[p] = "heard"
        \/ probing[p] = "second" /\ probing'[p] = "heardAgain"
      BY <1>2, <1>5 DEF Ask, MovesTo
  <2>2. /\ before' = generation /\ (word' = "expired" => standing')
        /\ UNCHANGED <<generation, probeLock, judged, refusals>>
      BY <1>5 DEF Ask
  <2> QED BY <1>1, <1>2, <1>4, <2>1, <2>2, VerdictAssumption DEF VerdictInv, ProberOK
<1>6. CASE Judge(p)
  <2>1. judged' = "expired" => refusals' = refusals + 1
      BY <1>6 DEF Judge, StateOfSession, VerdictInv
  <2>2. \/ probing[p] = "heard" /\ probing'[p] = "judged"
        \/ probing[p] = "heardAgain" /\ probing'[p] = "judgedAgain"
      BY <1>2, <1>6 DEF Judge, MovesTo
  <2>3. UNCHANGED <<generation, probeLock, word, before, standing>> BY <1>6 DEF Judge
  <2> QED BY <1>1, <1>2, <1>4, <2>1, <2>2, <2>3, VerdictAssumption DEF VerdictInv, ProberOK
<1>7. CASE Renew(p)
    BY <1>1, <1>2, <1>4, <1>7 DEF Renew, VerdictInv, ProberOK, MovesTo, heard
<1>8. CASE Conclude(p)
  <2>1. probing'[p] \in {"ok", "degraded", "needLogin"} BY <1>2, <1>8 DEF Conclude, MovesTo
  <2> QED BY <1>1, <1>2, <1>4, <1>8, <2>1 DEF Conclude, VerdictInv, ProberOK, heard
<1>9. CASE StoreResult(p) \/ Busy(p)
  <2>1. probing'[p] = "idle" BY <1>2, <1>9 DEF StoreResult, Busy, MovesTo
  <2>2. /\ word' = "unknown" /\ before' = 0 /\ refusals' = 0 /\ UNCHANGED generation
        /\ probeLock' = NoProber
      BY <1>9 DEF StoreResult, Busy, ForgetWord
  <2> QED BY <1>1, <1>4, <2>1, <2>2 DEF VerdictInv, ProberOK
<1> QED BY <1>5, <1>6, <1>7, <1>8, <1>9 DEF Proceed

LEMMA VerdictStep ==
    ASSUME VerdictInv, [VerdictNext]_verdictVars
    PROVE  VerdictInv'
<1>1. CASE \E p \in Probers : Probe(p) \/ PassGate(p) \/ GiveUp(p) \/ Proceed(p) \/ Busy(p)
    BY <1>1, ProbeStep, ProceedStep
<1>2. CASE SignIn BY <1>2 DEF SignIn, VerdictInv, ProberOK
<1>3. CASE \/ ReadUser \/ MarkRead \/ ClearMarks \/ mark_transport_ok \/ VerdictAges
           \/ WorldChanges \/ UNCHANGED verdictVars
    BY <1>3 DEF ReadUser, MarkRead, ClearMarks, mark_transport_ok, VerdictAges, WorldChanges,
                verdictVars, heard, VerdictInv, ProberOK
<1> QED BY <1>1, <1>2, <1>3 DEF VerdictNext

(* For any number of probers, logins and failures: a probe asks for a login only after     *)
(* Jira refused the session twice, before and after the silent renewal, and neither        *)
(* refusal was of a session that a login had replaced when it was judged.                  *)
THEOREM VerdictsAreEarned == VerdictSpec => VerdictIsEarned
<1>1. VerdictInit => VerdictInv
    BY VerdictAssumption DEF VerdictInit, VerdictInv, ProberOK, ProberPlaces
<1>2. ASSUME VerdictInv, [VerdictNext]_verdictVars
      PROVE  [\A p \in Probers : probing[p] # "needLogin" /\ probing'[p] = "needLogin"
                                   => refusals = 2]_verdictVars
  <2> SUFFICES ASSUME VerdictNext, NEW p \in Probers, probing[p] # "needLogin",
                      probing'[p] = "needLogin"
               PROVE  refusals = 2
      BY <1>2
  <2>1. PICK q \in Probers :
            Probe(q) \/ PassGate(q) \/ GiveUp(q) \/ Proceed(q) \/ Busy(q)
      BY DEF VerdictNext, ReadUser, MarkRead, SignIn, ClearMarks, mark_transport_ok, VerdictAges,
             WorldChanges
  <2>2. PICK place \in ProberPlaces : MovesTo(q, place)
      BY <2>1 DEF Probe, PassGate, GiveUp, Proceed, Busy, Ask, Judge, Renew, Conclude, StoreResult,
                  ProberPlaces
  <2>3. q = p /\ place = "needLogin" BY <1>2, <2>2, ProberMoves
  <2>4. ASSUME NEW other \in ProberPlaces, MovesTo(p, other) PROVE other = "needLogin"
      BY <1>2, <2>4, ProberMoves
  <2>5. Conclude(p)
      BY <2>1, <2>3, <2>4 DEF Probe, PassGate, GiveUp, Proceed, Busy, Ask, Judge, Renew,
                              StoreResult, ProberPlaces
  <2>6. probing[p] \in {"judged", "judgedAgain"} /\ (probing[p] = "judged" => judged # "expired")
      BY <2>5 DEF Conclude
  <2>7. judged = "expired" BY <2>4, <2>5 DEF Conclude, ProberPlaces
  <2> QED BY <1>2, <2>6, <2>7 DEF VerdictInv, ProberOK
<1> QED BY <1>1, <1>2, VerdictStep, PTL DEF VerdictSpec, VerdictIsEarned

-----------------------------------------------------------------------------
(* AuthRecovery *)

CallPlaces == Ended \cup {"sent", "refused", "waiting", "again", "refusedAgain"}
Results == {"ok", "needLogin", "degraded"}

RecoveryInv ==
    /\ calls \in [Calls -> CallPlaces]
    /\ sessionLive \in BOOLEAN /\ deadSince \in BOOLEAN /\ overtaken \in BOOLEAN
    /\ notified \in BOOLEAN /\ notice \in BOOLEAN
    /\ latest \in Results \cup {"none"} /\ silentProbe \in Results \cup {"idle", "asked"}
    /\ ~sessionLive => deadSince
    /\ notified => notice
    /\ latest = "needLogin" => notified
    /\ silentProbe = "needLogin" => deadSince \/ (overtaken /\ latest = "ok")

LEMMA CallMoves ==
    ASSUME RecoveryInv, NEW c \in Calls, NEW place \in CallPlaces, CallGoes(c, place)
    PROVE  /\ calls' \in [Calls -> CallPlaces] /\ calls'[c] = place
           /\ \A d \in Calls : d # c => calls'[d] = calls[d]
BY DEF RecoveryInv, CallGoes

\* The notice is up when a login is asked for.
LEMMA AskedWithNotice ==
    ASSUME RecoveryInv, requireLogin
    PROVE  notified' = TRUE /\ notice' = TRUE
BY DEF RecoveryInv, requireLogin

\* What the two halves of the property say of a step that asks nobody.
LEMMA Silent ==
    ASSUME NEW c, NEW place, place # "needLogin",
           \A d \in Calls : d # c => calls'[d] = calls[d], calls'[c] = place, notified' = notified
    PROVE  NoRefusalIsSilent /\ NoLateProbeAsks
BY DEF NoRefusalIsSilent, NoLateProbeAsks

LEMMA CallStep ==
    ASSUME RecoveryInv, NEW c \in Calls, Call(c)
    PROVE  RecoveryInv' /\ NoRefusalIsSilent /\ NoLateProbeAsks
<1> USE DEF CallPlaces, Ended
<1>1. CASE SendCall(c) \/ ServeCall(c) \/ AbortCall(c)
  <2>1. PICK place \in CallPlaces \ {"needLogin"} : CallGoes(c, place)
      BY <1>1 DEF SendCall, ServeCall, AbortCall
  <2>2. /\ calls' \in [Calls -> CallPlaces] /\ calls'[c] = place
        /\ \A d \in Calls : d # c => calls'[d] = calls[d]
      BY <2>1, CallMoves
  <2>3. UNCHANGED <<sessionLive, recovery, probes, deadSince>>
      BY <1>1 DEF SendCall, ServeCall, AbortCall
  <2>4. RecoveryInv' BY <2>2, <2>3 DEF RecoveryInv, recovery, probes
  <2> QED BY <2>2, <2>3, <2>4, Silent DEF recovery
<1>2. CASE RefusalTakesLatest(c)
  <2>1. After(c, latest) \in CallPlaces /\ (After(c, latest) = "needLogin" => latest = "needLogin")
      BY DEF After
  <2>2. CallGoes(c, After(c, latest)) BY <1>2 DEF RefusalTakesLatest
  <2>3. /\ calls' \in [Calls -> CallPlaces] /\ calls'[c] = After(c, latest)
        /\ \A d \in Calls : d # c => calls'[d] = calls[d]
      BY <2>1, <2>2, CallMoves
  <2>4. UNCHANGED <<sessionLive, recovery, probes, deadSince>> BY <1>2 DEF RefusalTakesLatest
  <2>5. RecoveryInv' BY <2>3, <2>4 DEF RecoveryInv, recovery, probes
  <2>6. NoRefusalIsSilent
      BY <2>1, <2>3, <2>4 DEF NoRefusalIsSilent, RecoveryInv, recovery
  <2> QED BY <2>4, <2>5, <2>6 DEF NoLateProbeAsks, recovery
<1>3. CASE RefusalWaits(c)
  <2>1. CallGoes(c, "waiting") BY <1>3 DEF RefusalWaits
  <2>2. /\ calls' \in [Calls -> CallPlaces] /\ calls'[c] = "waiting"
        /\ \A d \in Calls : d # c => calls'[d] = calls[d]
      BY <2>1, CallMoves
  <2>3. /\ UNCHANGED <<sessionLive, recovery, overtaken, deadSince>>
        /\ silentProbe' = IF silentProbe = "idle" THEN "asked" ELSE silentProbe
      BY <1>3 DEF RefusalWaits, StartProbe
  <2>4. RecoveryInv' BY <2>2, <2>3 DEF RecoveryInv, recovery
  <2> QED BY <2>2, <2>3, <2>4, Silent DEF recovery
<1>4. CASE RetryIsRefused(c)
  <2>1. CallGoes(c, "needLogin") /\ requireLogin BY <1>4 DEF RetryIsRefused
  <2>2. calls' \in [Calls -> CallPlaces] BY <2>1, CallMoves
  <2>3. notified' = TRUE /\ notice' = TRUE BY <2>1, AskedWithNotice
  <2>4. UNCHANGED <<sessionLive, latest, probes, deadSince>> BY <1>4 DEF RetryIsRefused
  <2>5. RecoveryInv' BY <2>2, <2>3, <2>4 DEF RecoveryInv, probes
  <2> QED BY <2>3, <2>4, <2>5 DEF NoRefusalIsSilent, NoLateProbeAsks, probes
<1> QED BY <1>1, <1>2, <1>3, <1>4 DEF Call

\* auth-ok: whatever was on its way is overtaken.
LEMMA AuthOkStep ==
    ASSUME RecoveryInv, AuthOkArrives
    PROVE  RecoveryInv' /\ NoRefusalIsSilent /\ NoLateProbeAsks
BY DEF RecoveryInv, AuthOkArrives, AuthOk, NextGeneration, NoRefusalIsSilent, NoLateProbeAsks,
       Results

LEMMA ProbeReturnsStep ==
    ASSUME RecoveryInv, ProbeReturns
    PROVE  RecoveryInv' /\ NoRefusalIsSilent /\ NoLateProbeAsks
<1> DEFINE result == ResultOfProbe
<1>1. /\ silentProbe \in Results /\ silentProbe' = "idle" /\ UNCHANGED sessionLive
      /\ result \in Results
      /\ result = "needLogin" => deadSince
      /\ calls' = Settled(result) /\ overtaken' = FALSE
    BY DEF ProbeReturns, ResultOfProbe, RecoveryInv, Results, NextGeneration
<1>2. /\ calls' \in [Calls -> CallPlaces]
      /\ \A c \in Calls : calls[c] # "needLogin" /\ calls'[c] = "needLogin" => result = "needLogin"
    BY <1>1 DEF RecoveryInv, Settled, After, CallPlaces, Ended
<1> HIDE DEF result
<1>3. CASE result = "ok" /\ AuthOk
    BY <1>1, <1>2, <1>3 DEF RecoveryInv, AuthOk, NoRefusalIsSilent, NoLateProbeAsks, Results
<1>4. CASE /\ result = "needLogin" /\ latest' = result /\ requireLogin
           /\ UNCHANGED <<overlay, deadSince>>
  <2>1. notified' = TRUE /\ notice' = TRUE BY <1>4, AskedWithNotice
  <2> QED BY <1>1, <1>2, <1>4, <2>1 DEF RecoveryInv, NoRefusalIsSilent, NoLateProbeAsks, Results
<1>5. CASE /\ result = "degraded" /\ latest' = result
           /\ UNCHANGED <<notified, notice, watching, overlay, deadSince>>
    BY <1>1, <1>2, <1>5 DEF RecoveryInv, NoRefusalIsSilent, NoLateProbeAsks, Results
<1> QED BY <1>3, <1>4, <1>5 DEF ProbeReturns, result

LEMMA RecoveryStep ==
    ASSUME RecoveryInv, [AuthNext]_authVars
    PROVE  RecoveryInv' /\ [NoRefusalIsSilent /\ NoLateProbeAsks]_authVars
<1>1. CASE \E c \in Calls : Call(c) BY <1>1, CallStep
<1>2. CASE ProbeReturns BY <1>2, ProbeReturnsStep
<1>3. CASE RecoverAuth \/ AnswerProbe
  <2>1. calls' = calls /\ UNCHANGED <<recovery, overtaken, deadSince>>
      BY <1>3 DEF RecoverAuth, AnswerProbe, StartProbe
  <2>2. /\ sessionLive' \in BOOLEAN /\ (~sessionLive' => deadSince)
        /\ silentProbe' \in Results \cup {"idle", "asked"}
        /\ silentProbe # "idle" => silentProbe' # "idle"
        /\ silentProbe' = "needLogin" => ~sessionLive
      BY <1>3 DEF RecoverAuth, AnswerProbe, StartProbe, RecoveryInv, Results
  <2> QED BY <2>1, <2>2 DEF RecoveryInv, recovery, NoRefusalIsSilent, NoLateProbeAsks
<1>4. CASE ActivityAnswered
  <2>1. CASE AuthOkArrives BY <2>1, AuthOkStep
  <2>2. CASE UNCHANGED <<sessionLive, calls, behind, recovery, probes, watch, overlay, deadSince>>
      BY <2>2 DEF RecoveryInv, NoRefusalIsSilent, NoLateProbeAsks, recovery, probes
  <2> QED BY <1>4, <2>1, <2>2 DEF ActivityAnswered
<1>5. CASE PollReturns
  <2>1. CASE AuthOkArrives BY <2>1, AuthOkStep
  <2>2. CASE UNCHANGED <<sessionLive, calls, behind, recovery, probes, watching, deadSince>>
      BY <2>2 DEF RecoveryInv, NoRefusalIsSilent, NoLateProbeAsks, recovery, probes
  <2> QED BY <1>5, <2>1, <2>2 DEF PollReturns
<1>6. CASE \/ ResultAges \/ AskOnActivity \/ UserLogin \/ LoginAnswered \/ SendPoll \/ AnswerPoll
           \/ LosePoll \/ DeadlinePasses \/ WatchExpires \/ SessionChanges \/ UNCHANGED authVars
  <2>1. UNCHANGED <<calls, probes, notified, notice, latest>>
      BY <1>6 DEF ResultAges, AskOnActivity, UserLogin, LoginAnswered, SendPoll, AnswerPoll,
                  LosePoll, DeadlinePasses, WatchExpires, SessionChanges, authVars, recovery
  <2>2. /\ sessionLive' \in BOOLEAN /\ deadSince' \in BOOLEAN
        /\ ~sessionLive' => deadSince'
        /\ deadSince => deadSince'
      <3>1. CASE SessionChanges BY <3>1 DEF SessionChanges, RecoveryInv
      <3>2. CASE AskOnActivity BY <3>2 DEF AskOnActivity, RecoveryInv
      <3>3. CASE UNCHANGED <<sessionLive, deadSince>> BY <3>3 DEF RecoveryInv
      <3> QED BY <1>6, <3>1, <3>2, <3>3 DEF ResultAges, UserLogin, LoginAnswered, SendPoll,
                  AnswerPoll, LosePoll, DeadlinePasses, WatchExpires, authVars
  <2> QED BY <2>1, <2>2 DEF RecoveryInv, probes, NoRefusalIsSilent, NoLateProbeAsks
<1> QED BY <1>1, <1>2, <1>3, <1>4, <1>5, <1>6 DEF AuthNext

(* For any number of requests: a page lets one fail for want of a login only under the     *)
(* notice that offers one, and its silent probe raises the notice only over a session that *)
(* was dead since the page last knew to be signed in.                                      *)
THEOREM LoginsAreAskedJustly == AuthSpec => LoginIsAskedJustly
<1>1. AuthInit => RecoveryInv BY DEF AuthInit, RecoveryInv, CallPlaces, Ended, Results
<1> QED BY <1>1, RecoveryStep, PTL DEF AuthSpec, LoginIsAskedJustly

-----------------------------------------------------------------------------
(* Launcher: what a start is in, and who goes on when the one that serves leaves. *)

Stages == {"off", "looking", "found", "outdated", "freeing", "binding", "serving",
           "supervising", "up", "deaf", "hung", "broken", "gone"}

MainPlaces == Stages \ {"serving", "up", "deaf", "hung"}

\* A worker that is on its way or serves, and whose supervisor is therefore there.
Working == Stages \ {"off", "supervising", "broken", "gone"}

\* A process of a restart never looks, and the worker that began the update is not one of its.
RestartOK(s) ==
    /\ stage[MainOf(s)] \notin {"off", "looking", "found", "outdated"}
    /\ stage[WorkerOf(s)] \notin {"looking", "found", "outdated"}
    /\ updater # WorkerOf(s)

StartOK(s) ==
    /\ stage[MainOf(s)] \in MainPlaces /\ stage[WorkerOf(s)] # "supervising"
    /\ stage[WorkerOf(s)] \in Working => stage[MainOf(s)] = "supervising"
    /\ stage[MainOf(s)] = "supervising" => stage[WorkerOf(s)] # "off"
    /\ stage[MainOf(s)] = "off" => stage[WorkerOf(s)] = "off"
    /\ port # MainOf(s)
    /\ port = WorkerOf(s) <=> stage[WorkerOf(s)] \in {"up", "hung"}
    /\ s \in afterUpdate => RestartOK(s)

MachineOK ==
    /\ stage \in [Processes -> Stages]
    /\ port \in Processes \cup {NoProcess}
    /\ leaving \subseteq {port} \cap Processes
    /\ afterUpdate \subseteq Starts /\ userQuit \in BOOLEAN
    /\ restarts \in [Starts -> Nat]
    /\ \A s \in Starts : StartOK(s)

\* What allows that nothing serves.
Excused == userQuit \/ \E s \in Starts : stage[MainOf(s)] = "broken"

\* A start that serves, or will unless another one does or it shows a failure.
Hopeful(s) ==
    \/ stage[MainOf(s)] \in {"looking", "freeing", "binding"}
    \/ /\ stage[MainOf(s)] = "supervising" /\ WorkerOf(s) \notin leaving
       /\ stage[WorkerOf(s)] \in {"looking", "freeing", "binding", "serving", "deaf",
                                  "broken", "hung", "up"}

\* A process that waits for the port of the one that leaves: an update for its own updater only.
Succeeds(p) == stage[p] = "freeing" /\ (p[1] \in afterUpdate => port = updater)

Survives == Excused \/ \E s \in Starts : Hopeful(s)

Replaced == port \in leaving => Excused \/ \E p \in Processes : Succeeds(p)

MachineInv == MachineOK /\ Survives /\ Replaced

LEMMA ProcessNames ==
    /\ \A s \in Starts :
         /\ MainOf(s) \in Processes /\ MainOf(s)[1] = s /\ MainOf(s)[2] = "main"
         /\ WorkerOf(s) \in Processes /\ WorkerOf(s)[1] = s /\ WorkerOf(s)[2] = "worker"
         /\ MainOf(s) # NoProcess /\ WorkerOf(s) # NoProcess
    /\ \A p \in Processes :
         /\ p[1] \in Starts
         /\ \/ p = MainOf(p[1]) /\ p[2] = "main"
            \/ p = WorkerOf(p[1]) /\ p[2] = "worker"
    /\ NoProcess \notin Processes
    /\ \A s, t \in Starts : /\ MainOf(s) # WorkerOf(t)
                            /\ s # t => MainOf(s) # MainOf(t) /\ WorkerOf(s) # WorkerOf(t)
BY LauncherAssumption DEF MainOf, WorkerOf, Processes

LEMMA MachineInitial == LauncherInit => MachineInv
<1> SUFFICES ASSUME LauncherInit PROVE MachineInv OBVIOUS
<1>1. stage[WorkerOf(First)] = "up" /\ stage[MainOf(First)] = "supervising"
  BY ProcessNames, LauncherAssumption DEF LauncherInit
<1>2. \A s \in Starts : s # First => stage[MainOf(s)] = "off" /\ stage[WorkerOf(s)] = "off"
  BY ProcessNames, LauncherAssumption DEF LauncherInit
<1>3. stage \in [Processes -> Stages] BY ProcessNames, LauncherAssumption DEF LauncherInit, Stages
<1>4. \A s \in Starts : StartOK(s)
  <2> SUFFICES ASSUME NEW s \in Starts PROVE StartOK(s) OBVIOUS
  <2>1. CASE s = First
    BY <2>1, <1>1, ProcessNames DEF StartOK, LauncherInit, MainPlaces, Working, Stages
  <2>2. CASE s # First
    BY <2>2, <1>2, ProcessNames, LauncherAssumption
       DEF StartOK, LauncherInit, MainPlaces, Working, Stages
  <2> QED BY <2>1, <2>2
<1>5. Hopeful(First) BY <1>1 DEF Hopeful, LauncherInit
<1>6. MachineOK
  BY <1>3, <1>4, ProcessNames, LauncherAssumption DEF MachineOK, LauncherInit
<1> QED BY <1>5, <1>6, LauncherAssumption DEF MachineInv, Survives, Replaced, LauncherInit

\* What a start is in when nothing but one process has moved.
LEMMA Moved ==
    ASSUME MachineInv, NEW p \in Processes, NEW place \in Stages, Goes(p, place)
    PROVE  /\ stage' \in [Processes -> Stages]
           /\ stage'[p] = place
           /\ \A q \in Processes : q # p => stage'[q] = stage[q]
BY DEF MachineInv, MachineOK, Goes

\* A worker that the port belongs to has its supervisor.
LEMMA PortHolder ==
    ASSUME MachineInv, port # NoProcess
    PROVE  /\ port \in Processes /\ port[1] \in Starts /\ port = WorkerOf(port[1])
           /\ stage[port] \in {"up", "hung"} /\ stage[MainOf(port[1])] = "supervising"
<1>1. port \in Processes BY DEF MachineInv, MachineOK
<1>2. port[1] \in Starts /\ port = WorkerOf(port[1])
  BY <1>1, ProcessNames DEF MachineInv, MachineOK, StartOK
<1>3. StartOK(port[1]) BY <1>2 DEF MachineInv, MachineOK
<1> QED BY <1>1, <1>2, <1>3 DEF StartOK, Working, Stages

\* Whoever waits for the port is hopeful, and so is who has it and does not leave.
LEMMA WaitingIsHope ==
    ASSUME MachineInv, NEW q \in Processes,
           stage[q] = "freeing" \/ (q = port /\ q \notin leaving)
    PROVE  q[1] \in Starts /\ Hopeful(q[1])
<1>1. q[1] \in Starts /\ (q = MainOf(q[1]) \/ q = WorkerOf(q[1])) BY ProcessNames
<1>2. StartOK(q[1]) BY <1>1 DEF MachineInv, MachineOK
<1>3. stage[q] = "freeing" => q \notin leaving
  BY <1>1, <1>2, ProcessNames DEF MachineInv, MachineOK, StartOK
<1> QED BY <1>1, <1>2, <1>3, ProcessNames DEF Hopeful, StartOK, Working, Stages

\* As long as the port is taken there is a start that is hopeful whatever one process does that
\* neither has the port nor waits for it.
LEMMA HopeOfPort ==
    ASSUME MachineInv, port # NoProcess
    PROVE  \/ Excused
           \/ \E q \in Processes : stage[q] = "freeing" \/ (q = port /\ q \notin leaving)
<1>1. CASE port \in leaving BY <1>1 DEF MachineInv, Replaced, Succeeds
<1>2. CASE port \notin leaving BY <1>2, PortHolder
<1> QED BY <1>1, <1>2

LEMMA HopeKept ==
    ASSUME MachineInv, NEW p \in Processes, NEW place \in Stages, Goes(p, place),
           stage[p] # "supervising", leaving' \subseteq leaving,
           NEW q \in Processes, q # p,
           stage[q] = "freeing" \/ (q = port /\ q \notin leaving)
    PROVE  q[1] \in Starts /\ Hopeful(q[1])'
<1>1. q[1] \in Starts /\ Hopeful(q[1]) /\ (q = MainOf(q[1]) \/ q = WorkerOf(q[1]))
  BY WaitingIsHope, ProcessNames
<1>2. StartOK(q[1]) BY <1>1 DEF MachineInv, MachineOK
<1>3. stage[q] \in {"freeing", "up", "hung"} BY PortHolder, ProcessNames
<1>4. stage'[q] = stage[q] /\ \A r \in Processes : r # p => stage'[r] = stage[r] BY Moved
<1>5. CASE q = MainOf(q[1])
  BY <1>1, <1>2, <1>3, <1>4, <1>5 DEF Hopeful, StartOK, MainPlaces
<1>6. CASE q = WorkerOf(q[1])
  <2>1. stage[MainOf(q[1])] = "supervising" BY <1>2, <1>3, <1>6 DEF StartOK, Working, Stages
  <2>2. stage'[MainOf(q[1])] = "supervising" BY <2>1, <1>1, <1>4, ProcessNames
  <2>3. q \notin leaving
    <3>1. CASE q = port
      <4>1. port # NoProcess BY <3>1, ProcessNames
      <4> QED BY <3>1, <4>1, PortHolder
    <3>2. CASE q # port BY <3>2 DEF MachineInv, MachineOK
    <3> QED BY <3>1, <3>2
  <2> QED BY <2>2, <2>3, <1>1, <1>3, <1>4, <1>6 DEF Hopeful
<1> QED BY <1>1, <1>5, <1>6

\* A process without hope of its own may go anywhere.
LEMMA OthersHope ==
    ASSUME MachineInv, NEW p \in Processes, NEW place \in Stages, Goes(p, place),
           stage[p] \in {"found", "outdated", "off"}, leaving' \subseteq leaving,
           NEW s \in Starts, Hopeful(s)
    PROVE  Hopeful(s)'
<1>1. /\ stage'[MainOf(s)] = stage[MainOf(s)]
      /\ \/ stage'[WorkerOf(s)] = stage[WorkerOf(s)]
         \/ stage[MainOf(s)] \in {"looking", "freeing", "binding"}
  BY Moved, ProcessNames DEF Hopeful
<1> QED BY <1>1 DEF Hopeful

LEMMA ExcusedKept ==
    ASSUME MachineInv, Excused, NEW p \in Processes, NEW place \in Stages, Goes(p, place),
           stage[p] # "broken", userQuit' = userQuit
    PROVE  Excused'
<1>1. CASE userQuit BY <1>1 DEF Excused
<1>2. CASE ~userQuit
  <2>1. PICK s \in Starts : stage[MainOf(s)] = "broken" BY <1>2 DEF Excused
  <2>2. stage'[MainOf(s)] = "broken" BY <2>1, Moved, ProcessNames
  <2> QED BY <2>2 DEF Excused
<1> QED BY <1>1, <1>2

\* One process moves and the port stays where it is: the rest depends on that process.
LEMMA OneMoves ==
    ASSUME MachineInv, NEW p \in Processes, NEW place \in Stages, Goes(p, place),
           port' = port, leaving' \subseteq {port} \cap Processes,
           UNCHANGED <<afterUpdate, updater>>, userQuit' \in BOOLEAN,
           restarts' \in [Starts -> Nat], StartOK(p[1])'
    PROVE  MachineOK'
<1>1. \A s \in Starts : s # p[1] => StartOK(s)'
  <2> SUFFICES ASSUME NEW s \in Starts, s # p[1] PROVE StartOK(s)' OBVIOUS
  <2>1. p # MainOf(s) /\ p # WorkerOf(s) BY ProcessNames
  <2>2. stage'[MainOf(s)] = stage[MainOf(s)] /\ stage'[WorkerOf(s)] = stage[WorkerOf(s)]
    BY <2>1, Moved, ProcessNames
  <2>3. StartOK(s) BY DEF MachineInv, MachineOK
  <2> QED BY <2>2, <2>3 DEF StartOK, RestartOK
<1>2. stage' \in [Processes -> Stages] BY Moved
<1> QED BY <1>1, <1>2 DEF MachineInv, MachineOK

\* A place p may go to from one it works in, as far as its start is concerned.
LEMMA PlaceFits ==
    ASSUME MachineInv, NEW p \in Processes, NEW place \in Stages, Goes(p, place),
           port' = port, UNCHANGED <<afterUpdate, updater>>,
           stage[p] \in {"looking", "found", "outdated", "freeing", "binding", "serving"},
           place \in {"found", "outdated", "freeing", "binding", "gone", "broken"}
             \/ (p[2] = "worker" /\ place \in {"serving", "deaf"}),
           place \in {"found", "outdated"} => stage[p] \in {"looking", "found"}
    PROVE  StartOK(p[1])'
<1>1. p[1] \in Starts /\ StartOK(p[1]) BY ProcessNames DEF MachineInv, MachineOK
<1>2. CASE p = MainOf(p[1]) /\ p[2] = "main"
  <2>1. stage'[MainOf(p[1])] = place /\ stage'[WorkerOf(p[1])] = stage[WorkerOf(p[1])]
    BY <1>1, <1>2, Moved, ProcessNames
  <2> QED BY <1>1, <1>2, <2>1 DEF StartOK, RestartOK, MainPlaces, Working, Stages
<1>3. CASE p = WorkerOf(p[1]) /\ p[2] = "worker"
  <2>1. stage'[WorkerOf(p[1])] = place /\ stage'[MainOf(p[1])] = stage[MainOf(p[1])]
    BY <1>1, <1>3, Moved, ProcessNames
  <2> QED BY <1>1, <1>3, <2>1 DEF StartOK, RestartOK, MainPlaces, Working, Stages
<1> QED BY <1>2, <1>3, ProcessNames

\* The one that leaves is still succeeded, since the one that succeeds it waits on.
LEMMA SuccessionKept ==
    ASSUME MachineInv, NEW p \in Processes, NEW place \in Stages, Goes(p, place),
           stage[p] \notin {"freeing", "broken"}, leaving' \subseteq leaving,
           UNCHANGED <<port, afterUpdate, updater, userQuit>>
    PROVE  Replaced'
<1> SUFFICES ASSUME port \in leaving PROVE Excused' \/ \E q \in Processes : Succeeds(q)'
  BY DEF Replaced
<1>1. CASE Excused BY <1>1, ExcusedKept
<1>2. CASE ~Excused
  <2>1. PICK q \in Processes : Succeeds(q) BY <1>2 DEF MachineInv, Replaced
  <2>2. stage'[q] = stage[q] BY <2>1, Moved DEF Succeeds
  <2> QED BY <2>1, <2>2 DEF Succeeds
<1> QED BY <1>1, <1>2

-----------------------------------------------------------------------------
LEMMA LookKeeps ==
    ASSUME MachineInv, NEW p \in Processes, Look(p)
    PROVE  MachineInv'
<1>1. PICK place \in {"found", "binding"} : Goes(p, place) /\ (place = "found" => Answers)
  BY DEF Look
<1>2. /\ stage[p] = "looking" /\ place \in Stages
      /\ UNCHANGED <<port, leaving, afterUpdate, updater, userQuit, restarts>>
  BY DEF Look, world, Stages
<1>3. leaving' \subseteq {port} \cap Processes /\ restarts \in [Starts -> Nat]
        /\ userQuit \in BOOLEAN
  BY <1>2 DEF MachineInv, MachineOK
<1>4. MachineOK' BY <1>1, <1>2, <1>3, PlaceFits, OneMoves
<1>5. Replaced' BY <1>1, <1>2, SuccessionKept
<1>6. Survives'
  <2>1. CASE place = "binding"
    <3>1. p[1] \in Starts /\ StartOK(p[1]) /\ (p = MainOf(p[1]) \/ p = WorkerOf(p[1]))
      BY ProcessNames DEF MachineInv, MachineOK
    <3>2. p = WorkerOf(p[1]) => /\ stage'[MainOf(p[1])] = "supervising" /\ p \notin leaving
      BY <1>1, <1>2, <3>1, Moved, ProcessNames DEF MachineInv, MachineOK, StartOK, Working, Stages
    <3>3. Hopeful(p[1])' BY <1>1, <1>2, <2>1, <3>1, <3>2, Moved DEF Hopeful
    <3> QED BY <3>1, <3>3 DEF Survives
  <2>2. CASE place = "found"
    <3>1. CASE Excused BY <3>1, <1>1, <1>2, ExcusedKept DEF Survives
    <3>2. CASE ~Excused
      <4>1. port # NoProcess BY <1>1, <2>2 DEF Answers
      <4>2. PICK q \in Processes : stage[q] = "freeing" \/ (q = port /\ q \notin leaving)
        BY <3>2, <4>1, HopeOfPort
      <4>3. q # p BY <4>1, <4>2, <1>2, PortHolder
      <4> QED BY <4>2, <4>3, <1>1, <1>2, HopeKept DEF Survives
    <3> QED BY <3>1, <3>2
  <2> QED BY <2>1, <2>2
<1> QED BY <1>4, <1>5, <1>6 DEF MachineInv

LEMMA CompareRevisionsKeeps ==
    ASSUME MachineInv, NEW p \in Processes, CompareRevisions(p)
    PROVE  MachineInv'
<1>1. PICK place \in {"outdated", "gone"} : Goes(p, place)
  BY DEF CompareRevisions
<1>2. /\ stage[p] = "found" /\ place \in Stages
      /\ UNCHANGED <<port, leaving, afterUpdate, updater, userQuit, restarts>>
  BY DEF CompareRevisions, world, Stages
<1>3. leaving' \subseteq {port} \cap Processes /\ restarts \in [Starts -> Nat]
        /\ userQuit \in BOOLEAN
  BY <1>2 DEF MachineInv, MachineOK
<1>4. MachineOK' BY <1>1, <1>2, <1>3, PlaceFits, OneMoves
<1>5. Replaced' BY <1>1, <1>2, SuccessionKept
<1>6. Survives'
  BY <1>1, <1>2, ExcusedKept, OthersHope DEF MachineInv, Survives
<1> QED BY <1>4, <1>5, <1>6 DEF MachineInv

LEMMA AskToQuitKeeps ==
    ASSUME MachineInv, NEW p \in Processes, AskToQuit(p)
    PROVE  MachineInv'
<1>1. /\ stage[p] = "outdated"
      /\ UNCHANGED <<port, afterUpdate, updater, userQuit, restarts>>
  BY DEF AskToQuit, world
<1>2. restarts \in [Starts -> Nat] /\ userQuit \in BOOLEAN
        /\ leaving \subseteq {port} \cap Processes
  BY DEF MachineInv, MachineOK
<1>3. CASE ~Answers /\ Goes(p, "gone") /\ UNCHANGED leaving
  <2>1. "gone" \in Stages BY DEF Stages
  <2>2. MachineOK' BY <1>1, <1>2, <1>3, <2>1, PlaceFits, OneMoves
  <2>3. Replaced' BY <1>1, <1>3, <2>1, SuccessionKept
  <2>4. Survives' BY <1>1, <1>3, <2>1, ExcusedKept, OthersHope DEF MachineInv, Survives
  <2> QED BY <2>2, <2>3, <2>4 DEF MachineInv
<1>4. CASE Answers /\ leaving' = leaving \cup {port} /\ Goes(p, "freeing")
  <2>1. "freeing" \in Stages /\ stage'[p] = "freeing" BY <1>4, Moved DEF Stages
  <2>2. port \in Processes /\ port # p BY <1>1, <1>4, PortHolder DEF Answers
  <2>3. MachineOK' BY <1>1, <1>2, <1>4, <2>1, <2>2, PlaceFits, OneMoves
  <2>4. p[1] \in Starts /\ StartOK(p[1]) /\ (p = MainOf(p[1]) \/ p = WorkerOf(p[1]))
    BY ProcessNames DEF MachineInv, MachineOK
  <2>5. p[1] \notin afterUpdate BY <2>4, <1>1 DEF StartOK, RestartOK
  <2>6. Replaced' BY <2>1, <2>5, <1>1 DEF Replaced, Succeeds
  <2>7. p = WorkerOf(p[1]) => stage[MainOf(p[1])] = "supervising"
    BY <1>1, <2>4 DEF StartOK, Working, Stages
  <2>8. p = WorkerOf(p[1]) => stage'[MainOf(p[1])] = "supervising"
    BY <2>1, <2>4, <2>7, <1>4, Moved, ProcessNames
  <2>9. p \notin leaving' BY <1>2, <1>4, <2>2
  <2>10. Hopeful(p[1])' BY <2>1, <2>4, <2>8, <2>9 DEF Hopeful
  <2> QED BY <2>3, <2>4, <2>6, <2>10 DEF MachineInv, Survives
<1> QED BY <1>3, <1>4 DEF AskToQuit

LEMMA AwaitPortKeeps ==
    ASSUME MachineInv, NEW p \in Processes, AwaitPort(p)
    PROVE  MachineInv'
<1>1. PICK place \in {"binding", "broken", "gone"} :
        /\ Goes(p, place)
        /\ IF place = "binding" THEN port = NoProcess ELSE port # NoProcess /\ port \notin leaving
  BY DEF AwaitPort
<1>2. /\ stage[p] = "freeing" /\ place \in Stages
      /\ UNCHANGED <<port, leaving, afterUpdate, updater, userQuit, restarts>>
  BY DEF AwaitPort, world, Stages
<1>3. leaving' \subseteq {port} \cap Processes /\ restarts \in [Starts -> Nat]
        /\ userQuit \in BOOLEAN
  BY <1>2 DEF MachineInv, MachineOK
<1>4. MachineOK' BY <1>1, <1>2, <1>3, PlaceFits, OneMoves
<1>5. port \notin leaving BY <1>1, ProcessNames DEF MachineInv, MachineOK
<1>6. Replaced' BY <1>2, <1>5 DEF Replaced
<1>7. Survives'
  <2>1. CASE place = "binding"
    <3>1. p[1] \in Starts /\ StartOK(p[1]) /\ (p = MainOf(p[1]) \/ p = WorkerOf(p[1]))
      BY ProcessNames DEF MachineInv, MachineOK
    <3>2. p = WorkerOf(p[1]) => /\ stage'[MainOf(p[1])] = "supervising" /\ p \notin leaving
      BY <1>1, <1>2, <3>1, <2>1, Moved, ProcessNames
         DEF MachineInv, MachineOK, StartOK, Working, Stages
    <3>3. Hopeful(p[1])' BY <1>1, <1>2, <2>1, <3>1, <3>2, Moved DEF Hopeful
    <3> QED BY <3>1, <3>3 DEF Survives
  <2>2. CASE place # "binding"
    <3>1. port # NoProcess BY <1>1, <2>2
    <3>2. port # p /\ port \in Processes BY <1>2, <3>1, PortHolder
    <3>3. PICK q \in Processes : q = port BY <3>2
    <3>4. q[1] \in Starts /\ Hopeful(q[1])' BY <1>1, <1>2, <1>5, <3>2, <3>3, HopeKept
    <3> QED BY <3>4 DEF Survives
  <2> QED BY <2>1, <2>2
<1> QED BY <1>4, <1>6, <1>7 DEF MachineInv

LEMMA CheckPortKeeps ==
    ASSUME MachineInv, NEW p \in Processes, CheckPort(p)
    PROVE  MachineInv'
<1>1. /\ stage[p] = "binding"
      /\ UNCHANGED <<port, leaving, afterUpdate, updater, userQuit, restarts>>
  BY DEF CheckPort, world
<1>2. leaving' \subseteq {port} \cap Processes /\ restarts \in [Starts -> Nat]
        /\ userQuit \in BOOLEAN /\ p \notin leaving
  <2>1. port # NoProcess => p # port BY <1>1, PortHolder
  <2>2. p \in leaving => p = port /\ port # NoProcess BY ProcessNames DEF MachineInv, MachineOK
  <2> QED BY <1>1, <2>1, <2>2 DEF MachineInv, MachineOK
<1>3. /\ p[1] \in Starts /\ StartOK(p[1])
      /\ \/ p = MainOf(p[1]) /\ p[2] = "main"
         \/ p = WorkerOf(p[1]) /\ p[2] = "worker"
  <2>1. /\ p[1] \in Starts
        /\ \/ p = MainOf(p[1]) /\ p[2] = "main"
           \/ p = WorkerOf(p[1]) /\ p[2] = "worker"
    BY ProcessNames
  <2> QED BY <2>1 DEF MachineInv, MachineOK
<1>4. CASE Goes(p, "broken")
  <2>1. "broken" \in Stages BY DEF Stages
  <2>2. MachineOK' BY <1>1, <1>2, <1>4, <2>1, PlaceFits, OneMoves
  <2>3. Replaced' BY <1>1, <1>4, <2>1, SuccessionKept
  <2>4. stage'[p] = "broken" BY <1>4, <2>1, Moved
  <2>5. ASSUME p = MainOf(p[1]) PROVE Survives' BY <2>4, <2>5, <1>3 DEF Survives, Excused
  <2>6. ASSUME p = WorkerOf(p[1]) PROVE Survives'
    <3>1. stage[MainOf(p[1])] = "supervising" BY <1>1, <1>3, <2>6 DEF StartOK, Working, Stages
    <3>2. stage'[MainOf(p[1])] = "supervising"
      BY <3>1, <1>3, <1>4, <2>1, <2>6, Moved, ProcessNames
    <3>3. Hopeful(p[1])' BY <3>2, <2>4, <2>6, <1>1, <1>2 DEF Hopeful
    <3> QED BY <3>3, <1>3 DEF Survives
  <2> QED BY <2>2, <2>3, <2>5, <2>6, <1>3 DEF MachineInv, Survives
<1>5. CASE p[2] = "worker" /\ Goes(p, "serving")
  <2>1. "serving" \in Stages BY DEF Stages
  <2>2. MachineOK' BY <1>1, <1>2, <1>5, <2>1, PlaceFits, OneMoves
  <2>3. Replaced' BY <1>1, <1>5, <2>1, SuccessionKept
  <2>4. stage'[p] = "serving" BY <1>5, <2>1, Moved
  <2>5. stage[MainOf(p[1])] = "supervising" BY <1>1, <1>3, <1>5 DEF StartOK, Working, Stages
  <2>6. stage'[MainOf(p[1])] = "supervising"
    BY <2>5, <1>3, <1>5, <2>1, Moved, ProcessNames
  <2>7. Hopeful(p[1])' BY <2>4, <2>6, <1>1, <1>2, <1>3, <1>5 DEF Hopeful
  <2> QED BY <2>2, <2>3, <2>7, <1>3 DEF MachineInv, Survives
<1>6. CASE /\ p[2] = "main" /\ port = NoProcess
           /\ stage' = [stage EXCEPT ![p] = "supervising", ![WorkerOf(p[1])] = FirstStage(p[1])]
  <2> DEFINE s == p[1]
  <2>1. /\ stage' \in [Processes -> Stages]
        /\ stage'[MainOf(s)] = "supervising" /\ stage'[WorkerOf(s)] = FirstStage(s)
        /\ \A q \in Processes : q \notin {MainOf(s), WorkerOf(s)} => stage'[q] = stage[q]
    BY <1>3, <1>6, ProcessNames DEF MachineInv, MachineOK, FirstStage, Stages
  <2>2. \A t \in Starts : t # s => StartOK(t)'
    BY <2>1, <1>1, <1>3, ProcessNames DEF MachineInv, MachineOK, StartOK, RestartOK
  <2>3. StartOK(s)'
    BY <2>1, <1>1, <1>3, <1>6, ProcessNames
       DEF StartOK, RestartOK, FirstStage, MainPlaces, Working, Stages
  <2>4. MachineOK' BY <2>1, <2>2, <2>3, <1>1, <1>2 DEF MachineInv, MachineOK
  <2>5. port \notin leaving BY <1>6, ProcessNames DEF MachineInv, MachineOK
  <2>6. Replaced' BY <2>5, <1>1 DEF Replaced
  <2>7. WorkerOf(s) \notin leaving BY <1>3, <1>6, ProcessNames DEF MachineInv, MachineOK
  <2>8. Hopeful(s)' BY <2>1, <2>7, <1>1 DEF Hopeful, FirstStage
  <2> QED BY <2>4, <2>6, <2>8, <1>3 DEF MachineInv, Survives
<1> QED BY <1>4, <1>5, <1>6 DEF CheckPort, MainOf

LEMMA TakePortKeeps ==
    ASSUME MachineInv, NEW p \in Processes, TakePort(p)
    PROVE  MachineInv'
<1>1. /\ stage[p] = "serving"
      /\ UNCHANGED <<leaving, afterUpdate, updater, userQuit, restarts>>
  BY DEF TakePort, world
<1>2. p[1] \in Starts /\ StartOK(p[1]) BY ProcessNames DEF MachineInv, MachineOK
<1>3. p = WorkerOf(p[1]) /\ p[2] = "worker" /\ stage[MainOf(p[1])] = "supervising"
  BY <1>1, <1>2, ProcessNames DEF StartOK, MainPlaces, Working, Stages
<1>4. p # port BY <1>1, <1>2, <1>3 DEF StartOK
<1>5. p \notin leaving BY <1>4 DEF MachineInv, MachineOK
<1>6. PICK place \in {"up", "deaf"} : Goes(p, place) BY DEF TakePort
<1>7. place \in Stages BY DEF Stages
<1>8. stage'[p] = place /\ stage'[MainOf(p[1])] = "supervising"
  BY <1>2, <1>3, <1>6, <1>7, Moved, ProcessNames
<1>9. Survives'
  <2>1. Hopeful(p[1])' BY <1>1, <1>3, <1>5, <1>8 DEF Hopeful
  <2> QED BY <2>1, <1>2 DEF Survives
<1>10. CASE port # NoProcess
  <2>1. Goes(p, "deaf") /\ port' = port /\ "deaf" \in Stages BY <1>10 DEF TakePort, Stages
  <2>2. leaving' \subseteq {port} \cap Processes /\ restarts \in [Starts -> Nat]
          /\ userQuit \in BOOLEAN
    BY <1>1 DEF MachineInv, MachineOK
  <2>3. MachineOK' BY <1>1, <1>3, <2>1, <2>2, PlaceFits, OneMoves
  <2>4. Replaced' BY <1>1, <2>1, SuccessionKept
  <2> QED BY <1>9, <2>3, <2>4 DEF MachineInv
<1>11. CASE port = NoProcess
  <2>1. Goes(p, "up") /\ port' = p /\ "up" \in Stages BY <1>11 DEF TakePort, Stages
  <2>2. stage'[p] = "up" /\ stage' \in [Processes -> Stages]
    BY <2>1, Moved
  <2>3. leaving = {} BY <1>11, ProcessNames DEF MachineInv, MachineOK
  <2>4. \A s \in Starts : s # p[1] => StartOK(s)'
    <3> SUFFICES ASSUME NEW s \in Starts, s # p[1] PROVE StartOK(s)' OBVIOUS
    <3>1. p # MainOf(s) /\ p # WorkerOf(s) BY ProcessNames
    <3>2. stage'[MainOf(s)] = stage[MainOf(s)] /\ stage'[WorkerOf(s)] = stage[WorkerOf(s)]
      BY <2>1, <3>1, Moved, ProcessNames
    <3>3. StartOK(s) BY DEF MachineInv, MachineOK
    <3>4. stage[WorkerOf(s)] \notin {"up", "hung"} BY <1>11, <3>3, ProcessNames DEF StartOK
    <3> QED BY <3>1, <3>2, <3>3, <3>4, <2>1, <1>1 DEF StartOK, RestartOK
  <2>5. StartOK(p[1])'
    BY <1>1, <1>2, <1>3, <1>8, <2>1, <2>2, ProcessNames
       DEF StartOK, RestartOK, MainPlaces, Working, Stages
  <2>6. MachineOK' BY <2>1, <2>2, <2>3, <2>4, <2>5, <1>1 DEF MachineInv, MachineOK
  <2>7. Replaced' BY <2>1, <1>1, <1>5 DEF Replaced
  <2> QED BY <1>9, <2>6, <2>7 DEF MachineInv
<1> QED BY <1>10, <1>11

\* The process that has the port ends.
LEMMA PortGivenBack ==
    ASSUME MachineInv, NEW p \in Processes, p = port, NEW place \in {"gone", "broken"},
           Goes(p, place), Released({p}),
           UNCHANGED <<afterUpdate, updater, restarts, userQuit>>
    PROVE  /\ MachineOK' /\ Replaced' /\ leaving' = {} /\ port' = NoProcess
           /\ stage'[p] = place /\ stage'[MainOf(p[1])] = "supervising"
<1>1. p[1] \in Starts /\ p = WorkerOf(p[1]) /\ stage[MainOf(p[1])] = "supervising"
        /\ StartOK(p[1]) /\ place \in Stages
  BY PortHolder, ProcessNames DEF MachineInv, MachineOK, Stages
<1>2. leaving' = {} /\ port' = NoProcess BY DEF MachineInv, MachineOK, Released
<1>3. stage'[p] = place /\ stage'[MainOf(p[1])] = "supervising" BY <1>1, Moved, ProcessNames
<1>4. \A s \in Starts : s # p[1] => StartOK(s)'
  <2> SUFFICES ASSUME NEW s \in Starts, s # p[1] PROVE StartOK(s)' OBVIOUS
  <2>1. p # MainOf(s) /\ p # WorkerOf(s) BY ProcessNames
  <2>2. stage'[MainOf(s)] = stage[MainOf(s)] /\ stage'[WorkerOf(s)] = stage[WorkerOf(s)]
    BY <1>1, <2>1, Moved, ProcessNames
  <2>3. StartOK(s) BY DEF MachineInv, MachineOK
  <2> QED BY <2>1, <2>2, <2>3, <1>2, ProcessNames DEF StartOK, RestartOK
<1>5. StartOK(p[1])'
  BY <1>1, <1>2, <1>3, ProcessNames DEF StartOK, RestartOK, MainPlaces, Working, Stages
<1>6. stage' \in [Processes -> Stages] BY <1>1, Moved
<1>7. MachineOK' BY <1>2, <1>4, <1>5, <1>6 DEF MachineInv, MachineOK
<1>8. Replaced' BY <1>2 DEF Replaced
<1> QED BY <1>2, <1>3, <1>7, <1>8

LEMMA EndAsAskedKeeps ==
    ASSUME MachineInv, NEW p \in Processes, EndAsAsked(p)
    PROVE  MachineInv'
<1>1. /\ p \in leaving /\ Goes(p, "gone") /\ Released({p})
      /\ UNCHANGED <<afterUpdate, updater, restarts, userQuit>>
  BY DEF EndAsAsked, world
<1>2. p = port /\ port # NoProcess /\ "gone" \in Stages
  BY <1>1, ProcessNames DEF MachineInv, MachineOK, Stages
<1>3. MachineOK' /\ Replaced' /\ leaving' = {} BY <1>1, <1>2, PortGivenBack
<1>4. Survives'
  <2>1. CASE Excused
    <3>1. stage[p] # "broken" BY <1>2, PortHolder
    <3> QED BY <2>1, <3>1, <1>1, <1>2, ExcusedKept DEF Survives
  <2>2. CASE ~Excused
    <3>1. PICK q \in Processes : Succeeds(q) BY <2>2, <1>1, <1>2 DEF MachineInv, Replaced
    <3>2. q # p /\ stage[p] # "supervising" BY <3>1, <1>2, PortHolder DEF Succeeds
    <3>3. q[1] \in Starts /\ Hopeful(q[1])'
      BY <3>1, <3>2, <1>1, <1>2, <1>3, HopeKept DEF Succeeds
    <3> QED BY <3>3 DEF Survives
  <2> QED BY <2>1, <2>2
<1> QED BY <1>3, <1>4 DEF MachineInv

LEMMA WorkerFailsKeeps ==
    ASSUME MachineInv, NEW s \in Starts, WorkerFails(s)
    PROVE  MachineInv'
<1> DEFINE p == WorkerOf(s)
<1>1. /\ p \in Processes /\ p[1] = s /\ stage[p] = "up"
      /\ UNCHANGED <<afterUpdate, updater, restarts, userQuit>>
  BY ProcessNames DEF WorkerFails
<1>2. StartOK(s) BY DEF MachineInv, MachineOK
<1>3. p = port /\ stage[MainOf(s)] = "supervising"
  BY <1>1, <1>2 DEF StartOK, Working, Stages
<1>4. CASE Goes(p, "broken") /\ Released({p})
  <2>1. /\ MachineOK' /\ Replaced' /\ leaving' = {}
        /\ stage'[p] = "broken" /\ stage'[MainOf(s)] = "supervising"
    BY <1>1, <1>3, <1>4, PortGivenBack
  <2>2. Hopeful(s)' BY <2>1 DEF Hopeful
  <2> QED BY <2>1, <2>2 DEF MachineInv, Survives
<1>5. CASE Goes(p, "hung") /\ UNCHANGED <<port, older, leaving>>
  <2>1. "hung" \in Stages BY DEF Stages
  <2>2. /\ stage'[p] = "hung" /\ stage'[MainOf(s)] = "supervising"
        /\ \A q \in Processes : q # p => stage'[q] = stage[q]
    BY <1>1, <1>3, <1>5, <2>1, Moved, ProcessNames
  <2>3. StartOK(s)'
    BY <1>1, <1>2, <1>3, <1>5, <2>2 DEF StartOK, RestartOK, MainPlaces, Working, Stages
  <2>4. StartOK(p[1])' BY <2>3, <1>1
  <2>5. leaving' \subseteq {port} \cap Processes /\ restarts \in [Starts -> Nat]
          /\ userQuit \in BOOLEAN
    BY <1>5 DEF MachineInv, MachineOK
  <2>6. MachineOK' BY <1>1, <1>5, <2>1, <2>4, <2>5, OneMoves
  <2>7. Replaced' BY <1>1, <1>5, <2>1, SuccessionKept
  <2>8. Survives'
    <3>1. CASE Excused BY <3>1, <1>1, <1>5, <2>1, ExcusedKept DEF Survives
    <3>2. CASE ~Excused
      <4>1. PICK t \in Starts : Hopeful(t) BY <3>2 DEF MachineInv, Survives
      <4>2. CASE t = s
        <5>1. Hopeful(s)' BY <4>1, <4>2, <1>3, <1>5, <2>2 DEF Hopeful
        <5> QED BY <5>1 DEF Survives
      <4>3. CASE t # s
        <5>1. MainOf(t) # p /\ WorkerOf(t) # p BY <4>3, ProcessNames
        <5>2. stage'[MainOf(t)] = stage[MainOf(t)] /\ stage'[WorkerOf(t)] = stage[WorkerOf(t)]
          BY <5>1, <2>2, ProcessNames
        <5>3. Hopeful(t)' BY <4>1, <5>2, <1>5 DEF Hopeful
        <5> QED BY <5>3 DEF Survives
      <4> QED BY <4>2, <4>3
    <3> QED BY <3>1, <3>2
  <2> QED BY <2>6, <2>7, <2>8 DEF MachineInv
<1> QED BY <1>4, <1>5 DEF WorkerFails

LEMMA WorkerQuitsKeeps ==
    ASSUME MachineInv, NEW s \in Starts, WorkerQuits(s)
    PROVE  MachineInv'
<1> DEFINE p == MainOf(s)
<1>1. /\ p \in Processes /\ p[1] = s /\ stage[p] = "supervising" /\ stage[WorkerOf(s)] = "gone"
      /\ Goes(p, "gone") /\ "gone" \in Stages
      /\ updater' = (IF updater = WorkerOf(s) THEN NoProcess ELSE updater)
      /\ UNCHANGED <<port, leaving, afterUpdate, restarts, userQuit>>
  BY ProcessNames DEF WorkerQuits, Stages
<1>2. /\ stage' \in [Processes -> Stages] /\ stage'[p] = "gone"
      /\ \A q \in Processes : q # p => stage'[q] = stage[q]
  BY <1>1, Moved
<1>3. \A t \in Starts : StartOK(t)'
  <2> SUFFICES ASSUME NEW t \in Starts PROVE StartOK(t)' OBVIOUS
  <2>1. StartOK(t) BY DEF MachineInv, MachineOK
  <2>2. CASE t = s
    BY <2>1, <2>2, <1>1, <1>2, ProcessNames DEF StartOK, RestartOK, MainPlaces, Working, Stages
  <2>3. CASE t # s
    <3>1. stage'[MainOf(t)] = stage[MainOf(t)] /\ stage'[WorkerOf(t)] = stage[WorkerOf(t)]
      BY <2>3, <1>2, ProcessNames
    <3> QED BY <2>1, <3>1, <1>1, ProcessNames DEF StartOK, RestartOK
  <2> QED BY <2>2, <2>3
<1>4. MachineOK' BY <1>1, <1>2, <1>3 DEF MachineInv, MachineOK
<1>5. port \in leaving => port # WorkerOf(s) /\ port # NoProcess
  BY <1>1, PortHolder, ProcessNames DEF MachineInv, MachineOK
<1>6. Replaced'
  <2> SUFFICES ASSUME port \in leaving PROVE Excused' \/ \E q \in Processes : Succeeds(q)'
    BY <1>1 DEF Replaced
  <2>1. CASE Excused BY <2>1, <1>1, ExcusedKept
  <2>2. CASE ~Excused
    <3>1. PICK q \in Processes : Succeeds(q) BY <2>2 DEF MachineInv, Replaced
    <3>2. stage'[q] = stage[q] BY <3>1, <1>1, <1>2 DEF Succeeds
    <3>3. Succeeds(q)' BY <3>1, <3>2, <1>1, <1>5 DEF Succeeds
    <3> QED BY <3>3
  <2> QED BY <2>1, <2>2
<1>7. Survives'
  <2>1. CASE Excused BY <2>1, <1>1, ExcusedKept DEF Survives
  <2>2. CASE ~Excused
    <3>1. PICK t \in Starts : Hopeful(t) BY <2>2 DEF MachineInv, Survives
    <3>2. t # s BY <3>1, <1>1 DEF Hopeful
    <3>3. stage'[MainOf(t)] = stage[MainOf(t)] /\ stage'[WorkerOf(t)] = stage[WorkerOf(t)]
      BY <3>2, <1>2, ProcessNames
    <3>4. Hopeful(t)' BY <3>1, <3>3, <1>1 DEF Hopeful
    <3> QED BY <3>4 DEF Survives
  <2> QED BY <2>1, <2>2
<1> QED BY <1>4, <1>6, <1>7 DEF MachineInv

\* A worker is replaced, or its supervisor gives up and says so.
LEMMA RecoverKeeps ==
    ASSUME MachineInv, NEW s \in Starts, Recover(s)
    PROVE  MachineInv'
<1> DEFINE w == WorkerOf(s)
           m == MainOf(s)
           job == InItsJob(s)
           killed == [p \in Processes |->
                        IF p \in job /\ stage[p] # "broken" THEN "gone" ELSE stage[p]]
<1>1. /\ stage[m] = "supervising" /\ stage[w] \in {"broken", "hung", "serving", "deaf"}
      /\ port' = (IF port \in {w} \cup job THEN NoProcess ELSE port)
      /\ leaving' = leaving \ ({w} \cup job)
      /\ updater' = (IF updater = w THEN NoProcess ELSE updater)
      /\ UNCHANGED <<afterUpdate, userQuit>>
  BY DEF Recover, Released
<1>2. /\ StartOK(s) /\ m \in Processes /\ w \in Processes /\ m # w
      /\ stage \in [Processes -> Stages] /\ restarts \in [Starts -> Nat]
      /\ port \in Processes \cup {NoProcess} /\ leaving \subseteq {port} \cap Processes
  BY ProcessNames DEF MachineInv, MachineOK
<1>3. \A t \in Starts :
        /\ MainOf(t) \in job <=> updater = w /\ t \in afterUpdate
        /\ WorkerOf(t) \in job <=> updater = w /\ t \in afterUpdate
  BY DEF InItsJob, MainOf, WorkerOf
<1>4. m \notin job /\ w \notin job
  BY <1>2, <1>3, ProcessNames DEF StartOK, RestartOK
<1>5. restarts' \in [Starts -> Nat] BY <1>2 DEF Recover
<1>6. /\ stage' \in [Processes -> Stages]
      /\ \/ stage'[m] = "supervising" /\ stage'[w] = FirstStage(s)
         \/ stage'[m] = "broken" /\ stage'[w] = "off"
      /\ \A q \in Processes : q \notin {m, w} =>
           stage'[q] = IF q \in job /\ stage[q] # "broken" THEN "gone" ELSE stage[q]
  <2>1. killed \in [Processes -> Stages] BY <1>2 DEF Stages
  <2>2. killed[m] = "supervising" BY <1>1, <1>2, <1>4
  <2>3. \/ stage' = [killed EXCEPT ![w] = FirstStage(s)]
        \/ stage' = [killed EXCEPT ![m] = "broken", ![w] = "off"]
    BY DEF Recover
  <2>4. {FirstStage(s), "off", "broken"} \subseteq Stages BY DEF FirstStage, Stages
  <2>5. \A q \in Processes :
          killed[q] = IF q \in job /\ stage[q] # "broken" THEN "gone" ELSE stage[q]
    OBVIOUS
  <2> HIDE DEF job, killed
  <2>6. CASE stage' = [killed EXCEPT ![w] = FirstStage(s)]
    <3>1. stage'[m] = "supervising" /\ stage'[w] = FirstStage(s) BY <2>1, <2>2, <2>6, <1>2
    <3>2. stage' \in [Processes -> Stages] BY <2>1, <2>4, <2>6, <1>2
    <3>3. \A q \in Processes : q \notin {m, w} => stage'[q] = killed[q] BY <2>1, <2>6, <1>2
    <3> QED BY <3>1, <3>2, <3>3, <2>5
  <2>7. CASE stage' = [killed EXCEPT ![m] = "broken", ![w] = "off"]
    BY <2>1, <2>4, <2>5, <2>7, <1>2
  <2> QED BY <2>3, <2>6, <2>7
<1> HIDE DEF job, killed
<1>7. \A t \in Starts : StartOK(t)'
  <2> SUFFICES ASSUME NEW t \in Starts PROVE StartOK(t)' OBVIOUS
  <2>1. StartOK(t) BY DEF MachineInv, MachineOK
  <2>2. CASE t = s
    <3>1. port' # m /\ port' # w BY <1>1, <1>2, ProcessNames DEF StartOK
    <3>2. updater' # w BY <1>1, ProcessNames
    <3> QED BY <2>1, <2>2, <3>1, <3>2, <1>1, <1>2, <1>6
           DEF StartOK, RestartOK, FirstStage, MainPlaces, Working, Stages
  <2>3. CASE t # s
    <3>1. MainOf(t) \notin {m, w} /\ WorkerOf(t) \notin {m, w} BY <2>3, ProcessNames
    <3>2. CASE updater = w /\ t \in afterUpdate
      <4>1. stage'[MainOf(t)] \in {"gone", "broken"} /\ stage'[WorkerOf(t)] \in {"gone", "broken"}
        BY <3>1, <3>2, <1>3, <1>6, ProcessNames
      <4>2. port' # MainOf(t) /\ port' # WorkerOf(t) BY <3>2, <1>1, <1>3, ProcessNames
      <4>3. updater' # WorkerOf(t) BY <3>2, <1>1, ProcessNames
      <4> QED BY <4>1, <4>2, <4>3 DEF StartOK, RestartOK, MainPlaces, Working, Stages
    <3>3. CASE ~(updater = w /\ t \in afterUpdate)
      <4>1. stage'[MainOf(t)] = stage[MainOf(t)] /\ stage'[WorkerOf(t)] = stage[WorkerOf(t)]
        BY <3>1, <3>3, <1>3, <1>6, ProcessNames
      <4>2. /\ port' = MainOf(t) <=> port = MainOf(t)
            /\ port' = WorkerOf(t) <=> port = WorkerOf(t)
        BY <3>1, <3>3, <1>1, <1>3, ProcessNames
      <4>3. updater' = WorkerOf(t) => updater = WorkerOf(t) BY <1>1, ProcessNames
      <4> QED BY <2>1, <4>1, <4>2, <4>3, <1>1 DEF StartOK, RestartOK
    <3> QED BY <3>2, <3>3
  <2> QED BY <2>2, <2>3
<1>8. leaving' \subseteq {port'} \cap Processes /\ port' \in Processes \cup {NoProcess}
  BY <1>1, <1>2
<1>9. MachineOK' BY <1>1, <1>5, <1>6, <1>7, <1>8 DEF MachineInv, MachineOK
<1>10. ASSUME Excused PROVE Excused'
  <2>1. CASE userQuit BY <2>1, <1>1 DEF Excused
  <2>2. CASE ~userQuit
    <3>1. PICK t \in Starts : stage[MainOf(t)] = "broken" BY <1>10, <2>2 DEF Excused
    <3>2. MainOf(t) # m /\ MainOf(t) # w BY <3>1, <1>1, ProcessNames
    <3>3. stage'[MainOf(t)] = "broken" BY <3>1, <3>2, <1>6, ProcessNames
    <3> QED BY <3>3 DEF Excused
  <2> QED BY <2>1, <2>2
<1>11. Replaced'
  <2> SUFFICES ASSUME port' \in leaving' PROVE Excused' \/ \E q \in Processes : Succeeds(q)'
    BY DEF Replaced
  <2>1. port \in leaving /\ port # w BY <1>1, <1>2, ProcessNames
  <2>2. port' = port BY <2>1, <1>1, <1>2, <1>8, ProcessNames
  <2>3. CASE Excused BY <2>3, <1>10
  <2>4. CASE ~Excused
    <3>1. PICK q \in Processes : Succeeds(q) BY <2>1, <2>4 DEF MachineInv, Replaced
    <3>2. q # m /\ q # w BY <3>1, <1>1 DEF Succeeds
    <3>3. q[1] \in Starts /\ (q = MainOf(q[1]) \/ q = WorkerOf(q[1])) BY ProcessNames
    <3>4. q[1] \in afterUpdate => updater # w BY <3>1, <2>1 DEF Succeeds
    <3>5. q \notin job BY <3>3, <3>4, <1>3
    <3>6. stage'[q] = "freeing" BY <3>1, <3>2, <3>5, <1>6 DEF Succeeds
    <3>7. Succeeds(q)' BY <3>1, <3>4, <3>6, <2>2, <1>1 DEF Succeeds
    <3> QED BY <3>7
  <2> QED BY <2>3, <2>4
<1>12. Survives'
  <2>1. CASE stage'[m] = "broken" BY <2>1 DEF Survives, Excused
  <2>2. CASE stage'[m] = "supervising" /\ stage'[w] = FirstStage(s)
    <3>1. w \notin leaving' BY <1>1
    <3>2. Hopeful(s)' BY <2>2, <3>1 DEF Hopeful, FirstStage
    <3> QED BY <3>2 DEF Survives
  <2> QED BY <2>1, <2>2, <1>6
<1> QED BY <1>9, <1>11, <1>12 DEF MachineInv

LEMMA RestartsAgeKeeps ==
    ASSUME MachineInv, NEW s \in Starts, RestartsAge(s)
    PROVE  MachineInv'
<1>1. /\ UNCHANGED <<stage, port, leaving, afterUpdate, updater, userQuit>>
      /\ restarts' \in [Starts -> Nat]
  BY DEF RestartsAge, world, MachineInv, MachineOK
<1> QED
  BY <1>1 DEF MachineInv, MachineOK, StartOK, RestartOK, Survives, Replaced, Excused, Hopeful,
              Succeeds

LEMMA QuitByUserKeeps ==
    ASSUME MachineInv, QuitByUser
    PROVE  MachineInv'
<1>1. /\ UNCHANGED <<stage, port, afterUpdate, updater, restarts>> /\ userQuit' = TRUE
      /\ leaving' = leaving \cup {port} /\ port \in Processes
  BY PortHolder DEF QuitByUser, Answers
<1>2. MachineOK' BY <1>1 DEF MachineInv, MachineOK, StartOK, RestartOK
<1>3. Excused' BY <1>1 DEF Excused
<1> QED BY <1>2, <1>3 DEF MachineInv, Survives, Replaced

LEMMA StartByUserKeeps ==
    ASSUME MachineInv, NEW s \in Starts, StartByUser(s)
    PROVE  MachineInv'
<1> DEFINE p == MainOf(s)
<1>1. /\ p \in Processes /\ p[1] = s /\ stage[p] = "off" /\ stage[WorkerOf(s)] = "off"
      /\ Goes(p, "looking") /\ "looking" \in Stages
      /\ UNCHANGED <<port, leaving, afterUpdate, updater, restarts, userQuit>>
  BY ProcessNames DEF StartByUser, world, Stages
<1>2. /\ stage'[p] = "looking" /\ \A q \in Processes : q # p => stage'[q] = stage[q]
  BY <1>1, Moved
<1>3. StartOK(s) BY DEF MachineInv, MachineOK
<1>4. StartOK(s)'
  BY <1>1, <1>2, <1>3, ProcessNames DEF StartOK, RestartOK, MainPlaces, Working, Stages
<1>5. StartOK(p[1])' BY <1>1, <1>4
<1>6. leaving' \subseteq {port} \cap Processes /\ restarts' \in [Starts -> Nat]
        /\ userQuit' \in BOOLEAN
  BY <1>1 DEF MachineInv, MachineOK
<1>7. MachineOK' BY <1>1, <1>5, <1>6, OneMoves
<1>8. Replaced' BY <1>1, SuccessionKept
<1>9. Hopeful(s)' BY <1>2 DEF Hopeful
<1> QED BY <1>7, <1>8, <1>9 DEF MachineInv, Survives

LEMMA UpdateAndRestartKeeps ==
    ASSUME MachineInv, NEW s \in Starts, UpdateAndRestart(s)
    PROVE  MachineInv'
<1> DEFINE m == MainOf(s)
<1>1. /\ m \in Processes /\ m[1] = s /\ stage[m] = "off" /\ afterUpdate = {}
      /\ Answers /\ afterUpdate' = {s} /\ updater' = port
      /\ leaving' = leaving \cup {port} /\ UNCHANGED <<port, restarts, userQuit>>
  BY ProcessNames DEF UpdateAndRestart
<1>2. Goes(m, "freeing") /\ "freeing" \in Stages
  BY <1>1 DEF UpdateAndRestart, FirstStage, Goes, Stages
<1>3. /\ stage' \in [Processes -> Stages] /\ stage'[m] = "freeing"
      /\ \A q \in Processes : q # m => stage'[q] = stage[q]
  BY <1>1, <1>2, Moved
<1>4. StartOK(s) BY DEF MachineInv, MachineOK
<1>5. /\ port \in Processes /\ port # NoProcess /\ port # WorkerOf(s)
      /\ stage[WorkerOf(s)] = "off"
  BY <1>1, <1>4, PortHolder DEF Answers, StartOK
<1>6. \A t \in Starts : StartOK(t)'
  <2> SUFFICES ASSUME NEW t \in Starts PROVE StartOK(t)' OBVIOUS
  <2>1. StartOK(t) BY DEF MachineInv, MachineOK
  <2>2. CASE t = s
    BY <2>2, <1>1, <1>3, <1>4, <1>5, ProcessNames
       DEF StartOK, RestartOK, MainPlaces, Working, Stages
  <2>3. CASE t # s
    <3>1. stage'[MainOf(t)] = stage[MainOf(t)] /\ stage'[WorkerOf(t)] = stage[WorkerOf(t)]
      BY <2>3, <1>3, ProcessNames
    <3> QED BY <2>1, <2>3, <3>1, <1>1 DEF StartOK
  <2> QED BY <2>2, <2>3
<1>7. MachineOK' BY <1>1, <1>3, <1>5, <1>6 DEF MachineInv, MachineOK
<1>8. Succeeds(m)' BY <1>1, <1>3 DEF Succeeds
<1>9. Replaced' BY <1>1, <1>8 DEF Replaced
<1>10. Hopeful(s)' BY <1>3 DEF Hopeful
<1> QED BY <1>7, <1>9, <1>10 DEF MachineInv, Survives

LEMMA MachineStep == MachineInv /\ [LauncherNext]_launchVars => MachineInv'
<1> SUFFICES ASSUME MachineInv, [LauncherNext]_launchVars PROVE MachineInv' OBVIOUS
<1>1. ASSUME NEW p \in Processes, ProcessSteps(p) PROVE MachineInv'
  BY <1>1, LookKeeps, CompareRevisionsKeeps, AskToQuitKeeps, AwaitPortKeeps, CheckPortKeeps,
     TakePortKeeps, EndAsAskedKeeps DEF ProcessSteps
<1>2. ASSUME NEW s \in Starts,
             \/ WorkerQuits(s) \/ Recover(s) \/ RestartsAge(s) \/ StartByUser(s)
             \/ UpdateAndRestart(s) \/ WorkerFails(s)
      PROVE  MachineInv'
  BY <1>2, WorkerQuitsKeeps, RecoverKeeps, RestartsAgeKeeps, StartByUserKeeps,
     UpdateAndRestartKeeps, WorkerFailsKeeps
<1>3. CASE UNCHANGED launchVars
  BY <1>3 DEF launchVars, MachineInv, MachineOK, StartOK, RestartOK, Survives, Replaced,
              Excused, Hopeful, Succeeds
<1> QED BY <1>1, <1>2, <1>3, QuitByUserKeeps DEF LauncherNext, LauncherRuns

(* For any number of starts, restarts, faults, updates and requests to quit: unless a      *)
(* process can still go on, every start has ended or serves, and if none serves the user    *)
(* has quit or a failure is shown.                                                          *)
THEOREM OneIsLeft == LauncherSpec => []OneApplicationStays
<1>1. MachineInv => OneApplicationStays
  <2> SUFFICES ASSUME MachineInv, ~CanRun
               PROVE  /\ StartsSettled
                      /\ userQuit \/ \E s \in Starts : Serves(s) \/ stage[MainOf(s)] = "broken"
    BY DEF OneApplicationStays
  <2>1. leaving = {} BY DEF CanRun, GoesOn, MachineInv, MachineOK
  <2>2. \A p \in Processes :
          stage[p] \in {"off", "supervising", "up", "deaf", "hung", "broken", "gone"}
    BY <2>1 DEF CanRun, GoesOn, MachineInv, MachineOK, Stages
  <2>3. \A s \in Starts : stage[MainOf(s)] = "supervising" => Serves(s)
    <3> SUFFICES ASSUME NEW s \in Starts, stage[MainOf(s)] = "supervising" PROVE Serves(s)
      OBVIOUS
    <3>1. StartOK(s) BY DEF MachineInv, MachineOK
    <3>2. stage[WorkerOf(s)] \in {"off", "supervising", "up", "deaf", "hung", "broken", "gone"}
      BY <2>2, ProcessNames
    <3>3. stage[WorkerOf(s)] = "up" BY <3>1, <3>2 DEF StartOK, CanRun, Attends
    <3> QED BY <3>1, <3>3 DEF StartOK, Serves
  <2>4. StartsSettled
    <3> SUFFICES ASSUME NEW s \in Starts
                 PROVE  stage[MainOf(s)] \in {"off", "gone", "broken"} \/ Serves(s)
      BY DEF StartsSettled
    <3>1. StartOK(s) BY DEF MachineInv, MachineOK
    <3>2. stage[MainOf(s)] \in {"off", "supervising", "up", "deaf", "hung", "broken", "gone"}
      BY <2>2, ProcessNames
    <3> QED BY <3>1, <3>2, <2>3 DEF StartOK, MainPlaces
  <2>5. CASE Excused BY <2>5, <2>4 DEF Excused
  <2>6. CASE ~Excused
    <3>1. PICK s \in Starts : Hopeful(s) BY <2>6 DEF MachineInv, Survives
    <3>2. stage[MainOf(s)] \in {"off", "supervising", "up", "deaf", "hung", "broken", "gone"}
      BY <2>2, ProcessNames
    <3> QED BY <3>1, <3>2, <2>3, <2>4 DEF Hopeful
  <2> QED BY <2>5, <2>6
<1> QED BY <1>1, MachineInitial, MachineStep, PTL DEF LauncherSpec

==================================================================================
