------------------------ MODULE ProviderStartupProofs ------------------------
(***************************************************************************)
(* Proofs about ProviderStartup for every number of callers and logins:    *)
(* its inductive invariant, the safety properties that follow from it, and *)
(* that a finished login is used as long as its session is in the store.   *)
(***************************************************************************)
EXTENDS ProviderStartup, TLAPS

(* The inductive invariant. *)

\* The caller has not built anything yet.
Before(c) == pc[c] \in {"new", "captured", "healthy", "deciding"}
Preparing(c) == pc[c] \in {"closing", "ready", "launching"}

\* Whoever owns the attempt under way has not finished it, and no login dropped it.
OwnerOK(c) ==
    /\ future[c] = "pending" => startup = c
    /\ startup = c =>
        /\ future[c] = "pending"
        /\ attempt[c] = generation
        /\ joined[c] = c
        /\ Preparing(c)

\* What the place of a caller says about its attempt and its browser.
PlaceOK(c) ==
    /\ Before(c) => future[c] = "none"
    /\ Before(c) \/ Preparing(c) => c \notin made
    /\ Preparing(c) /\ (joined[c] = c \/ pc[c] = "launching") => future[c] \in {"pending", "superseded"}
    /\ future[c] = "ready" => c \in made
    /\ pc[c] = "discarding" => c \in made
    /\ pc[c] = "healthy" => held[c] # Nobody
    /\ Preparing(c) \/ pc[c] \in {"discarding", "awaiting"} => joined[c] \in Callers
    /\ pc[c] \in {"closing", "returned"} \cup Saving => held[c] \in made

ResetOK(l) == pc[l] = "resetting" => held[l] \in OrNobody(made)

\* A provider excludes an attempt and a cooldown.
SharedOK ==
    /\ provider \in OrNobody(made)
    /\ startup # Nobody => provider = Nobody
    /\ cooling => provider = Nobody

IInv ==
    /\ TypeOK
    /\ SharedOK
    /\ \A c \in Callers : OwnerOK(c) /\ PlaceOK(c)
    /\ \A l \in Logins : ResetOK(l)
    /\ NoneAbandoned

----------------------------------------------------------------------------
(* Every step preserves each part of it. *)

\* Types, in particular closed and broken providers are launched ones.
LEMMA TypeStep == IInv /\ [Next]_vars => TypeOK'
<1> SUFFICES ASSUME IInv, [Next]_vars PROVE TypeOK'
  OBVIOUS
<1> USE ThreadsAssumption, SaversAssumption DEF IInv, TypeOK, SharedOK, PlaceOK, ResetOK, Places, Saving, Preparing,
        state, attempts, browsers, store, history, Threads, OrNobody, Goto, Hold, Resolve
<1>1. ASSUME NEW c \in Callers, Fast(c) \/ Decide(c) \/ Launch(c) \/ Wait(c) \/ Persist(c)
      PROVE  TypeOK'
  <2>1. CASE Capture(c) BY <2>1 DEF Capture
  <2>2. CASE LookHealthy(c) BY <2>2 DEF LookHealthy
  <2>3. CASE LookSame(c)
    <3> HIDE DEF SharedOK, PlaceOK, ResetOK, Resolve
    <3>1. pc' \in [Threads -> Places]
      <4>1. pc' = [pc EXCEPT ![c] = "returned"] \/ pc' = [pc EXCEPT ![c] = "deciding"]
        BY <2>3 DEF LookSame, Return
      <4> QED BY <4>1
    <3>2. held' \in [Threads -> OrNobody(Callers)] BY <2>3 DEF LookSame, Return
    <3> HIDE DEF Goto, Hold, Places, Saving
    <3> QED BY <2>3, <3>1, <3>2 DEF LookSame, Return
  <2>4. CASE TakeHealthy(c) BY <2>4 DEF TakeHealthy, Return, Healthy
  <2>5. CASE RefuseWhileDown(c) BY <2>5 DEF RefuseWhileDown, Raise
  <2>6. CASE RefuseWhileCooling(c) BY <2>6 DEF RefuseWhileCooling, MayStart, Detach, Raise
  <2>7. CASE Own(c) BY <2>7 DEF Own, MayStart, StartAttempt, Detach, AfterDetach
  <2>8. CASE Join(c) BY <2>8 DEF Join, MayStart, Detach, AfterDetach
  <2>9. CASE CloseOld(c) BY <2>9 DEF CloseOld
  <2>10. CASE ReadSession(c) BY <2>10 DEF ReadSession
  <2>11. CASE LaunchFails(c)
    <3>1. pc' \in [Threads -> Places] BY <2>11 DEF LaunchFails, Current
    <3>2. future' \in [Callers -> {"none", "pending", "ready", "failed", "superseded"}] BY <2>11 DEF LaunchFails, Current
    <3> HIDE DEF Goto, Hold, Resolve, Places, Saving, SharedOK, PlaceOK, ResetOK
    <3> QED BY <2>11, <3>1, <3>2 DEF LaunchFails, Current
  <2>12. CASE Publish(c)
    <3>1. pc' \in [Threads -> Places] BY <2>12 DEF Publish
    <3>2. future' \in [Callers -> {"none", "pending", "ready", "failed", "superseded"}] BY <2>12 DEF Publish
    <3>3. made' \subseteq Callers /\ broken' \subseteq made' /\ closed' \subseteq made' BY <2>12 DEF Publish
    <3>4. provider' \in OrNobody(Callers) /\ startup' \in OrNobody(Callers) /\ generation' \in Nat
      BY <2>12 DEF Publish
    <3> HIDE DEF Goto, Hold, Resolve, Places, Saving, OrNobody, SharedOK, PlaceOK, ResetOK
    <3> QED BY <2>12, <3>1, <3>2, <3>3, <3>4 DEF Publish
  <2>13. CASE Discard(c) BY <2>13 DEF Discard, Obsolete, Current
  <2>14. CASE CloseDiscarded(c) BY <2>14 DEF CloseDiscarded
  <2>15. CASE Await(c)
    <3>1. pc' \in [Threads -> Places] BY <2>15 DEF Await, Awaiting, Return, Raise
    <3>2. held' \in [Threads -> OrNobody(Callers)] BY <2>15 DEF Await, Awaiting, Return, Raise
    <3> HIDE DEF Goto, Hold, Resolve, Places, Saving, SharedOK, PlaceOK, ResetOK
    <3> QED BY <2>15, <3>1, <3>2 DEF Await, Awaiting, Return, Raise
  <2>16. CASE AwaitTimesOut(c) BY <2>16 DEF AwaitTimesOut, Awaiting, Raise
  <2>17. CASE ReadFences(c) BY <2>17 DEF ReadFences
  <2>18. CASE CaptureCookies(c) BY <2>18 DEF CaptureCookies
  <2>19. CASE Save(c)
    <3>1. pc' \in [Threads -> Places] BY <2>19 DEF Save, SaveIf
    <3>2. disk' \in Nat /\ revision' \in Nat /\ lost' \in BOOLEAN
      <4>1. held[c] \in Callers BY <2>19 DEF Save, SaveIf
      <4>2. disk' \in {disk, context[held[c]]} /\ revision' \in {revision, revision + 1}
        BY <2>19 DEF Save, SaveIf
      <4>3. lost' \in BOOLEAN BY <2>19 DEF Save, SaveIf
      <4> QED BY <4>1, <4>2, <4>3
    <3> HIDE DEF Goto, Hold, Resolve, Places, Saving, SharedOK, PlaceOK, ResetOK
    <3> QED BY <2>19, <3>1, <3>2 DEF Save, SaveIf
  <2> QED
    BY <1>1, <2>1, <2>2, <2>3, <2>4, <2>5, <2>6, <2>7, <2>8, <2>9, <2>10, <2>11, <2>12,
       <2>13, <2>14, <2>15, <2>16, <2>17, <2>18, <2>19 DEF Fast, Decide, Launch, Wait, Persist
<1>2. ASSUME NEW l \in Logins, LogIn(l)
      PROVE  TypeOK'
  <2>1. CASE Login(l) BY <2>1 DEF Login
  <2>2. CASE Reset(l)
    <3>1. pc' \in [Threads -> Places] BY <2>2 DEF Reset, DropProvider
    <3>2. held' \in [Threads -> OrNobody(Callers)] BY <2>2 DEF Reset, DropProvider
    <3>3. future' \in [Callers -> {"none", "pending", "ready", "failed", "superseded"}]
      BY <2>2 DEF Reset, DropProvider
    <3>4. provider' \in OrNobody(Callers) /\ startup' \in OrNobody(Callers) /\ generation' \in Nat
      BY <2>2 DEF Reset, DropProvider
    <3> HIDE DEF Goto, Hold, Resolve, Places, Saving, OrNobody, SharedOK, PlaceOK, ResetOK
    <3> QED BY <2>2, <3>1, <3>2, <3>3, <3>4 DEF Reset, DropProvider
  <2>3. CASE ResetClose(l)
    <3>1. pc' \in [Threads -> Places] BY <2>3 DEF ResetClose, CloseReset
    <3>2. closed' \in SUBSET made' BY <2>3 DEF ResetClose, CloseReset
    <3> HIDE DEF Goto, Hold, Resolve, Places, Saving, SharedOK, PlaceOK, ResetOK
    <3> QED BY <2>3, <3>1, <3>2 DEF ResetClose, CloseReset
  <2> QED BY <1>2, <2>1, <2>2, <2>3 DEF LogIn
<1>3. ASSUME NEW p \in Callers, Break(p)
      PROVE  TypeOK'
  BY <1>3 DEF Break
<1>4. CASE BreakerCloses BY <1>4 DEF BreakerCloses
<1>5. CASE CooldownEnds BY <1>5 DEF CooldownEnds
<1>6. CASE UNCHANGED vars BY <1>6 DEF vars
<1> QED BY <1>1, <1>2, <1>3, <1>4, <1>5, <1>6 DEF Next

\* The provider excludes an attempt and a cooldown.
LEMMA SharedStep == IInv /\ [Next]_vars => SharedOK'
<1> SUFFICES ASSUME IInv, [Next]_vars PROVE SharedOK'
  OBVIOUS
<1> USE ThreadsAssumption DEF IInv, TypeOK, SharedOK, OwnerOK, Preparing, Healthy,
        state, attempts, browsers, store, history, Threads, OrNobody, Goto, Hold, Resolve
<1>1. ASSUME NEW c \in Callers, Fast(c) \/ Decide(c) \/ Launch(c) \/ Wait(c) \/ Persist(c)
      PROVE  SharedOK'
  <2>1. CASE Capture(c) BY <2>1 DEF Capture
  <2>2. CASE LookHealthy(c) BY <2>2 DEF LookHealthy
  <2>3. CASE LookSame(c) BY <2>3 DEF LookSame, Return
  <2>4. CASE TakeHealthy(c) BY <2>4 DEF TakeHealthy, Return, Healthy
  <2>5. CASE RefuseWhileDown(c) BY <2>5 DEF RefuseWhileDown, Raise
  <2>6. CASE RefuseWhileCooling(c) BY <2>6 DEF RefuseWhileCooling, MayStart, Detach, Raise
  <2>7. CASE Own(c) BY <2>7 DEF Own, MayStart, StartAttempt, Detach, AfterDetach
  <2>8. CASE Join(c) BY <2>8 DEF Join, MayStart, Detach, AfterDetach
  <2>9. CASE CloseOld(c) BY <2>9 DEF CloseOld
  <2>10. CASE ReadSession(c) BY <2>10 DEF ReadSession
  <2>11. CASE LaunchFails(c) BY <2>11 DEF LaunchFails, Current
  <2>12. CASE Publish(c) BY <2>12 DEF Publish, Current
  <2>13. CASE Discard(c) BY <2>13 DEF Discard, Obsolete, Current
  <2>14. CASE CloseDiscarded(c) BY <2>14 DEF CloseDiscarded
  <2>15. CASE Await(c) BY <2>15 DEF Await, Awaiting, Return, Raise
  <2>16. CASE AwaitTimesOut(c) BY <2>16 DEF AwaitTimesOut, Awaiting, Raise
  <2>17. CASE ReadFences(c) BY <2>17 DEF ReadFences
  <2>18. CASE CaptureCookies(c) BY <2>18 DEF CaptureCookies
  <2>19. CASE Save(c) BY <2>19 DEF Save, SaveIf, StillProvider
  <2> QED
    BY <1>1, <2>1, <2>2, <2>3, <2>4, <2>5, <2>6, <2>7, <2>8, <2>9, <2>10, <2>11, <2>12,
       <2>13, <2>14, <2>15, <2>16, <2>17, <2>18, <2>19 DEF Fast, Decide, Launch, Wait, Persist
<1>2. ASSUME NEW l \in Logins, LogIn(l)
      PROVE  SharedOK'
  <2>1. CASE Login(l) BY <2>1 DEF Login
  <2>2. CASE Reset(l) BY <2>2 DEF Reset, DropProvider
  <2>3. CASE ResetClose(l) BY <2>3 DEF ResetClose, CloseReset
  <2> QED BY <1>2, <2>1, <2>2, <2>3 DEF LogIn
<1>3. ASSUME NEW p \in Callers, Break(p)
      PROVE  SharedOK'
  BY <1>3 DEF Break
<1>4. CASE BreakerCloses BY <1>4 DEF BreakerCloses
<1>5. CASE CooldownEnds BY <1>5 DEF CooldownEnds
<1>6. CASE UNCHANGED vars BY <1>6 DEF vars
<1> QED BY <1>1, <1>2, <1>3, <1>4, <1>5, <1>6 DEF Next

\* The attempt under way stays with its owner until it is published or dropped.
LEMMA OwnerStep == IInv /\ [Next]_vars => \A d \in Callers : OwnerOK(d)'
<1> SUFFICES ASSUME IInv, [Next]_vars PROVE \A d \in Callers : OwnerOK(d)'
  OBVIOUS
<1> USE ThreadsAssumption DEF IInv, TypeOK, SharedOK, OwnerOK, PlaceOK, Before, Preparing, Healthy,
        state, attempts, browsers, store, history, Threads, OrNobody, Goto, Hold, Resolve
<1>1. ASSUME NEW c \in Callers, Fast(c) \/ Decide(c) \/ Launch(c) \/ Wait(c) \/ Persist(c)
      PROVE  \A d \in Callers : OwnerOK(d)'
  <2>1. CASE Capture(c) BY <2>1 DEF Capture
  <2>2. CASE LookHealthy(c) BY <2>2 DEF LookHealthy
  <2>3. CASE LookSame(c) BY <2>3 DEF LookSame, Return
  <2>4. CASE TakeHealthy(c) BY <2>4 DEF TakeHealthy, Return, Healthy
  <2>5. CASE RefuseWhileDown(c) BY <2>5 DEF RefuseWhileDown, Raise
  <2>6. CASE RefuseWhileCooling(c) BY <2>6 DEF RefuseWhileCooling, MayStart, Detach, Raise
  <2>7. CASE Own(c) BY <2>7 DEF Own, MayStart, StartAttempt, Detach, AfterDetach
  <2>8. CASE Join(c) BY <2>8 DEF Join, MayStart, Detach, AfterDetach
  <2>9. CASE CloseOld(c) BY <2>9 DEF CloseOld
  <2>10. CASE ReadSession(c) BY <2>10 DEF ReadSession
  <2>11. CASE LaunchFails(c) BY <2>11 DEF LaunchFails, Current
  <2>12. CASE Publish(c) BY <2>12 DEF Publish, Current
  <2>13. CASE Discard(c) BY <2>13 DEF Discard, Obsolete, Current
  <2>14. CASE CloseDiscarded(c) BY <2>14 DEF CloseDiscarded
  <2>15. CASE Await(c) BY <2>15 DEF Await, Awaiting, Return, Raise
  <2>16. CASE AwaitTimesOut(c) BY <2>16 DEF AwaitTimesOut, Awaiting, Raise
  <2>17. CASE ReadFences(c) BY <2>17 DEF ReadFences
  <2>18. CASE CaptureCookies(c) BY <2>18 DEF CaptureCookies
  <2>19. CASE Save(c) BY <2>19 DEF Save, SaveIf, StillProvider
  <2> QED
    BY <1>1, <2>1, <2>2, <2>3, <2>4, <2>5, <2>6, <2>7, <2>8, <2>9, <2>10, <2>11, <2>12,
       <2>13, <2>14, <2>15, <2>16, <2>17, <2>18, <2>19 DEF Fast, Decide, Launch, Wait, Persist
<1>2. ASSUME NEW l \in Logins, LogIn(l)
      PROVE  \A d \in Callers : OwnerOK(d)'
  <2>1. CASE Login(l) BY <2>1 DEF Login
  <2>2. CASE Reset(l) BY <2>2 DEF Reset, DropProvider
  <2>3. CASE ResetClose(l) BY <2>3 DEF ResetClose, CloseReset
  <2> QED BY <1>2, <2>1, <2>2, <2>3 DEF LogIn
<1>3. ASSUME NEW p \in Callers, Break(p)
      PROVE  \A d \in Callers : OwnerOK(d)'
  BY <1>3 DEF Break
<1>4. CASE BreakerCloses BY <1>4 DEF BreakerCloses
<1>5. CASE CooldownEnds BY <1>5 DEF CooldownEnds
<1>6. CASE UNCHANGED vars BY <1>6 DEF vars
<1> QED BY <1>1, <1>2, <1>3, <1>4, <1>5, <1>6 DEF Next

\* Places of callers.
LEMMA PlaceStep == IInv /\ [Next]_vars => \A d \in Callers : PlaceOK(d)'
<1> SUFFICES ASSUME IInv, [Next]_vars PROVE \A d \in Callers : PlaceOK(d)'
  OBVIOUS
<1> USE ThreadsAssumption, SaversAssumption DEF IInv, TypeOK, SharedOK, OwnerOK, PlaceOK, Before, Preparing, Saving,
        Healthy, state, attempts, browsers, store, history, Threads, OrNobody, Goto, Hold, Resolve
<1>1. ASSUME NEW c \in Callers, Fast(c) \/ Decide(c) \/ Launch(c) \/ Wait(c) \/ Persist(c)
      PROVE  \A d \in Callers : PlaceOK(d)'
  <2>1. CASE Capture(c) BY <2>1 DEF Capture
  <2>2. CASE LookHealthy(c) BY <2>2 DEF LookHealthy
  <2>3. CASE LookSame(c) BY <2>3 DEF LookSame, Return
  <2>4. CASE TakeHealthy(c) BY <2>4 DEF TakeHealthy, Return, Healthy
  <2>5. CASE RefuseWhileDown(c) BY <2>5 DEF RefuseWhileDown, Raise
  <2>6. CASE RefuseWhileCooling(c) BY <2>6 DEF RefuseWhileCooling, MayStart, Detach, Raise
  <2>7. CASE Own(c) BY <2>7 DEF Own, MayStart, StartAttempt, Detach, AfterDetach
  <2>8. CASE Join(c) BY <2>8 DEF Join, MayStart, Detach, AfterDetach
  <2>9. CASE CloseOld(c) BY <2>9 DEF CloseOld
  <2>10. CASE ReadSession(c) BY <2>10 DEF ReadSession
  <2>11. CASE LaunchFails(c) BY <2>11 DEF LaunchFails, Current
  <2>12. CASE Publish(c) BY <2>12 DEF Publish, Current
  <2>13. CASE Discard(c) BY <2>13 DEF Discard, Obsolete, Current
  <2>14. CASE CloseDiscarded(c) BY <2>14 DEF CloseDiscarded
  <2>15. CASE Await(c) BY <2>15 DEF Await, Awaiting, Return, Raise
  <2>16. CASE AwaitTimesOut(c) BY <2>16 DEF AwaitTimesOut, Awaiting, Raise
  <2>17. CASE ReadFences(c) BY <2>17 DEF ReadFences
  <2>18. CASE CaptureCookies(c) BY <2>18 DEF CaptureCookies
  <2>19. CASE Save(c) BY <2>19 DEF Save, SaveIf, StillProvider
  <2> QED
    BY <1>1, <2>1, <2>2, <2>3, <2>4, <2>5, <2>6, <2>7, <2>8, <2>9, <2>10, <2>11, <2>12,
       <2>13, <2>14, <2>15, <2>16, <2>17, <2>18, <2>19 DEF Fast, Decide, Launch, Wait, Persist
<1>2. ASSUME NEW l \in Logins, LogIn(l)
      PROVE  \A d \in Callers : PlaceOK(d)'
  <2>1. CASE Login(l) BY <2>1 DEF Login
  <2>2. CASE Reset(l) BY <2>2 DEF Reset, DropProvider
  <2>3. CASE ResetClose(l) BY <2>3 DEF ResetClose, CloseReset
  <2> QED BY <1>2, <2>1, <2>2, <2>3 DEF LogIn
<1>3. ASSUME NEW p \in Callers, Break(p)
      PROVE  \A d \in Callers : PlaceOK(d)'
  BY <1>3 DEF Break
<1>4. CASE BreakerCloses BY <1>4 DEF BreakerCloses
<1>5. CASE CooldownEnds BY <1>5 DEF CooldownEnds
<1>6. CASE UNCHANGED vars BY <1>6 DEF vars
<1> QED BY <1>1, <1>2, <1>3, <1>4, <1>5, <1>6 DEF Next

\* What a login holds to close.
LEMMA ResetStep == IInv /\ [Next]_vars => \A k \in Logins : ResetOK(k)'
<1> SUFFICES ASSUME IInv, [Next]_vars PROVE \A k \in Logins : ResetOK(k)'
  OBVIOUS
<1> USE ThreadsAssumption DEF IInv, TypeOK, SharedOK, ResetOK, state, attempts, browsers, store, history, Threads, OrNobody, Goto, Hold, Resolve
<1>1. ASSUME NEW c \in Callers, Fast(c) \/ Decide(c) \/ Launch(c) \/ Wait(c) \/ Persist(c)
      PROVE  \A k \in Logins : ResetOK(k)'
  <2>1. CASE Capture(c) BY <2>1 DEF Capture
  <2>2. CASE LookHealthy(c) BY <2>2 DEF LookHealthy
  <2>3. CASE LookSame(c) BY <2>3 DEF LookSame, Return
  <2>4. CASE TakeHealthy(c) BY <2>4 DEF TakeHealthy, Return, Healthy
  <2>5. CASE RefuseWhileDown(c) BY <2>5 DEF RefuseWhileDown, Raise
  <2>6. CASE RefuseWhileCooling(c) BY <2>6 DEF RefuseWhileCooling, MayStart, Detach, Raise
  <2>7. CASE Own(c) BY <2>7 DEF Own, MayStart, StartAttempt, Detach, AfterDetach
  <2>8. CASE Join(c) BY <2>8 DEF Join, MayStart, Detach, AfterDetach
  <2>9. CASE CloseOld(c) BY <2>9 DEF CloseOld
  <2>10. CASE ReadSession(c) BY <2>10 DEF ReadSession
  <2>11. CASE LaunchFails(c) BY <2>11 DEF LaunchFails, Current
  <2>12. CASE Publish(c) BY <2>12 DEF Publish, Current
  <2>13. CASE Discard(c) BY <2>13 DEF Discard, Obsolete, Current
  <2>14. CASE CloseDiscarded(c) BY <2>14 DEF CloseDiscarded
  <2>15. CASE Await(c) BY <2>15 DEF Await, Awaiting, Return, Raise
  <2>16. CASE AwaitTimesOut(c) BY <2>16 DEF AwaitTimesOut, Awaiting, Raise
  <2>17. CASE ReadFences(c) BY <2>17 DEF ReadFences
  <2>18. CASE CaptureCookies(c) BY <2>18 DEF CaptureCookies
  <2>19. CASE Save(c) BY <2>19 DEF Save, SaveIf, StillProvider
  <2> QED
    BY <1>1, <2>1, <2>2, <2>3, <2>4, <2>5, <2>6, <2>7, <2>8, <2>9, <2>10, <2>11, <2>12,
       <2>13, <2>14, <2>15, <2>16, <2>17, <2>18, <2>19 DEF Fast, Decide, Launch, Wait, Persist
<1>2. ASSUME NEW l \in Logins, LogIn(l)
      PROVE  \A k \in Logins : ResetOK(k)'
  <2>1. CASE Login(l) BY <2>1 DEF Login
  <2>2. CASE Reset(l) BY <2>2 DEF Reset, DropProvider
  <2>3. CASE ResetClose(l) BY <2>3 DEF ResetClose, CloseReset
  <2> QED BY <1>2, <2>1, <2>2, <2>3 DEF LogIn
<1>3. ASSUME NEW p \in Callers, Break(p)
      PROVE  \A k \in Logins : ResetOK(k)'
  BY <1>3 DEF Break
<1>4. CASE BreakerCloses BY <1>4 DEF BreakerCloses
<1>5. CASE CooldownEnds BY <1>5 DEF CooldownEnds
<1>6. CASE UNCHANGED vars BY <1>6 DEF vars
<1> QED BY <1>1, <1>2, <1>3, <1>4, <1>5, <1>6 DEF Next

\* No step lets go of the last reference to an open browser.
LEMMA AbandonedStep == IInv /\ [Next]_vars => NoneAbandoned'
<1> SUFFICES ASSUME IInv, [Next]_vars PROVE NoneAbandoned'
  OBVIOUS
<1> USE ThreadsAssumption DEF IInv, TypeOK, SharedOK, PlaceOK, Before, Preparing, NoneAbandoned,
        state, attempts, browsers, store, history, Threads, OrNobody, Goto, Hold, Resolve
<1>1. ASSUME NEW c \in Callers, Fast(c) \/ Decide(c) \/ Launch(c) \/ Wait(c) \/ Persist(c)
      PROVE  NoneAbandoned'
  <2>1. CASE Capture(c) BY <2>1 DEF Capture
  <2>2. CASE LookHealthy(c) BY <2>2 DEF LookHealthy
  <2>3. CASE LookSame(c)
    <3>1. \A t \in Threads : pc[t] \in {"closing", "resetting", "discarding"} => pc'[t] = pc[t] /\ held'[t] = held[t]
      BY <2>3 DEF LookSame, Return
    <3>2. UNCHANGED <<provider, made, closed>> BY <2>3 DEF LookSame
    <3> HIDE DEF SharedOK, PlaceOK, Goto, Hold, Resolve
    <3> QED BY <3>1, <3>2, made \subseteq Callers
  <2>4. CASE TakeHealthy(c) BY <2>4 DEF TakeHealthy, Return, Healthy
  <2>5. CASE RefuseWhileDown(c) BY <2>5 DEF RefuseWhileDown, Raise
  <2>6. CASE RefuseWhileCooling(c) BY <2>6 DEF RefuseWhileCooling, MayStart, Detach, Raise
  <2>7. CASE Own(c) BY <2>7 DEF Own, MayStart, StartAttempt, Detach, AfterDetach
  <2>8. CASE Join(c) BY <2>8 DEF Join, MayStart, Detach, AfterDetach
  <2>9. CASE CloseOld(c) BY <2>9 DEF CloseOld
  <2>10. CASE ReadSession(c) BY <2>10 DEF ReadSession
  <2>11. CASE LaunchFails(c) BY <2>11 DEF LaunchFails, Current
  <2>12. CASE Publish(c) BY <2>12 DEF Publish, Current
  <2>13. CASE Discard(c) BY <2>13 DEF Discard, Obsolete, Current
  <2>14. CASE CloseDiscarded(c) BY <2>14 DEF CloseDiscarded
  <2>15. CASE Await(c)
    <3>1. \A t \in Threads : pc[t] \in {"closing", "resetting", "discarding"} => pc'[t] = pc[t] /\ held'[t] = held[t]
      BY <2>15 DEF Await, Awaiting, Return, Raise
    <3>2. UNCHANGED <<provider, made, closed>> BY <2>15 DEF Await
    <3> HIDE DEF SharedOK, PlaceOK, Goto, Hold, Resolve
    <3> QED BY <3>1, <3>2, made \subseteq Callers
  <2>16. CASE AwaitTimesOut(c) BY <2>16 DEF AwaitTimesOut, Awaiting, Raise
  <2>17. CASE ReadFences(c) BY <2>17 DEF ReadFences
  <2>18. CASE CaptureCookies(c) BY <2>18 DEF CaptureCookies
  <2>19. CASE Save(c) BY <2>19 DEF Save, SaveIf, StillProvider
  <2> QED
    BY <1>1, <2>1, <2>2, <2>3, <2>4, <2>5, <2>6, <2>7, <2>8, <2>9, <2>10, <2>11, <2>12,
       <2>13, <2>14, <2>15, <2>16, <2>17, <2>18, <2>19 DEF Fast, Decide, Launch, Wait, Persist
<1>2. ASSUME NEW l \in Logins, LogIn(l)
      PROVE  NoneAbandoned'
  <2>1. CASE Login(l) BY <2>1 DEF Login
  <2>2. CASE Reset(l) BY <2>2 DEF Reset, DropProvider
  <2>3. CASE ResetClose(l) BY <2>3 DEF ResetClose, CloseReset
  <2> QED BY <1>2, <2>1, <2>2, <2>3 DEF LogIn
<1>3. ASSUME NEW p \in Callers, Break(p)
      PROVE  NoneAbandoned'
  BY <1>3 DEF Break
<1>4. CASE BreakerCloses BY <1>4 DEF BreakerCloses
<1>5. CASE CooldownEnds BY <1>5 DEF CooldownEnds
<1>6. CASE UNCHANGED vars BY <1>6 DEF vars
<1> QED BY <1>1, <1>2, <1>3, <1>4, <1>5, <1>6 DEF Next

\* The invariant holds at the start.
LEMMA Initial == Init => IInv
<1> SUFFICES ASSUME Init PROVE IInv
  OBVIOUS
<1> USE ThreadsAssumption DEF Init, Threads
<1>1. TypeOK BY DEF TypeOK, Places, OrNobody
<1>2. SharedOK BY DEF SharedOK, OrNobody
<1>3. \A c \in Callers : OwnerOK(c) /\ PlaceOK(c) BY DEF OwnerOK, PlaceOK, Before, Preparing, Saving
<1>4. (\A l \in Logins : ResetOK(l)) /\ NoneAbandoned BY DEF ResetOK, NoneAbandoned
<1> QED BY <1>1, <1>2, <1>3, <1>4 DEF IInv

\* The invariant holds in every reachable state.
THEOREM Inductive == Spec => []IInv
<1>1. IInv /\ [Next]_vars => IInv'
  BY TypeStep, SharedStep, OwnerStep, PlaceStep, ResetStep, AbandonedStep DEF IInv
<1> QED BY Initial, <1>1, PTL DEF Spec

----------------------------------------------------------------------------
(* What follows from it. *)

\* Every variable keeps its type: only launched browsers are ever closed.
THEOREM TypeCorrect == Spec => []TypeOK
<1>1. IInv => TypeOK BY DEF IInv
<1> QED BY Inductive, <1>1, PTL

\* Every launched browser is in use, closed or about to be closed (provider,
\* reset_provider).
THEOREM BrowsersAreClosed == Spec => []NoneAbandoned
<1>1. IInv => NoneAbandoned BY DEF IInv
<1> QED BY Inductive, <1>1, PTL

\* A pending future is the one of the attempt under way, so whoever waits for it
\* waits for a thread that will resolve it.
THEOREM PendingHasOwner == Spec => []PendingIsUnderWay
<1>1. IInv => PendingIsUnderWay BY DEF IInv, OwnerOK, PendingIsUnderWay
<1> QED BY Inductive, <1>1, PTL

\* Of two launches at a time a login has made one obsolete.
THEOREM LaunchesAreSingle == Spec => []SingleLaunch
<1>1. IInv => SingleLaunch
  <2> SUFFICES ASSUME IInv, NEW c \in Callers, NEW d \in Callers,
                      pc[c] = "launching", pc[d] = "launching", c # d
               PROVE  future[c] = "superseded" \/ future[d] = "superseded"
    BY DEF SingleLaunch
  <2>1. future[c] \in {"pending", "superseded"} /\ future[d] \in {"pending", "superseded"}
    BY DEF IInv, PlaceOK, Preparing
  <2>2. ~(future[c] = "pending" /\ future[d] = "pending") BY DEF IInv, OwnerOK
  <2> QED BY <2>1, <2>2
<1> QED BY Inductive, <1>1, PTL

----------------------------------------------------------------------------
(* A finished login is used, as long as its session is in the store. *)

\* What a caller has or will get is not older than the login that had finished when it
\* began: the attempt under way reads a session of that login, and so does whoever waits.
FreshCaller(c) ==
    /\ floor[c] <= fresh
    /\ startup = c /\ pc[c] = "launching" => context[c] >= fresh
    /\ Preparing(c) \/ pc[c] \in {"discarding", "awaiting"} =>
          (future[joined[c]] = "ready" => context[joined[c]] >= floor[c])
    /\ pc[c] = "returned" => context[held[c]] >= floor[c]

FreshStore ==
    /\ disk = logins
    /\ fresh <= logins
    /\ provider # Nobody => context[provider] >= fresh

\* Nobody has a session that no login wrote.
Written == disk <= logins /\ \A c \in Callers : context[c] <= logins

Fresh == Written /\ (~lost => FreshStore /\ \A c \in Callers : FreshCaller(c))

\* No step invents a session.
LEMMA WrittenStep == Written /\ IInv /\ [Next]_vars => Written'
<1> SUFFICES ASSUME Written, IInv, [Next]_vars PROVE Written'
  OBVIOUS
<1> USE ThreadsAssumption, SaversAssumption DEF IInv, TypeOK, PlaceOK, Saving, Written, state, attempts, browsers, store, history, Threads, OrNobody
<1>1. ASSUME NEW c \in Callers, Fast(c) \/ Decide(c) \/ Launch(c) \/ Wait(c) \/ Persist(c)
      PROVE  Written'
  <2>1. CASE Capture(c) BY <2>1 DEF Capture
  <2>2. CASE LookHealthy(c) BY <2>2 DEF LookHealthy
  <2>3. CASE LookSame(c) BY <2>3 DEF LookSame, Return
  <2>4. CASE TakeHealthy(c) BY <2>4 DEF TakeHealthy, Return, Healthy
  <2>5. CASE RefuseWhileDown(c) BY <2>5 DEF RefuseWhileDown, Raise
  <2>6. CASE RefuseWhileCooling(c) BY <2>6 DEF RefuseWhileCooling, MayStart, Detach, Raise
  <2>7. CASE Own(c) BY <2>7 DEF Own, MayStart, StartAttempt, Detach, AfterDetach
  <2>8. CASE Join(c) BY <2>8 DEF Join, MayStart, Detach, AfterDetach
  <2>9. CASE CloseOld(c) BY <2>9 DEF CloseOld
  <2>10. CASE ReadSession(c) BY <2>10 DEF ReadSession
  <2>11. CASE LaunchFails(c) BY <2>11 DEF LaunchFails, Current
  <2>12. CASE Publish(c) BY <2>12 DEF Publish, Current
  <2>13. CASE Discard(c) BY <2>13 DEF Discard, Obsolete, Current
  <2>14. CASE CloseDiscarded(c) BY <2>14 DEF CloseDiscarded
  <2>15. CASE Await(c) BY <2>15 DEF Await, Awaiting, Return, Raise
  <2>16. CASE AwaitTimesOut(c) BY <2>16 DEF AwaitTimesOut, Awaiting, Raise
  <2>17. CASE ReadFences(c) BY <2>17 DEF ReadFences
  <2>18. CASE CaptureCookies(c) BY <2>18 DEF CaptureCookies
  <2>19. CASE Save(c) BY <2>19 DEF Save, SaveIf, StillProvider
  <2> QED
    BY <1>1, <2>1, <2>2, <2>3, <2>4, <2>5, <2>6, <2>7, <2>8, <2>9, <2>10, <2>11, <2>12,
       <2>13, <2>14, <2>15, <2>16, <2>17, <2>18, <2>19 DEF Fast, Decide, Launch, Wait, Persist
<1>2. ASSUME NEW l \in Logins, LogIn(l)
      PROVE  Written'
  <2>1. CASE Login(l) BY <2>1 DEF Login
  <2>2. CASE Reset(l) BY <2>2 DEF Reset, DropProvider
  <2>3. CASE ResetClose(l) BY <2>3 DEF ResetClose, CloseReset
  <2> QED BY <1>2, <2>1, <2>2, <2>3 DEF LogIn
<1>3. ASSUME NEW p \in Callers, Break(p)
      PROVE  Written'
  BY <1>3 DEF Break
<1>4. CASE BreakerCloses BY <1>4 DEF BreakerCloses
<1>5. CASE CooldownEnds BY <1>5 DEF CooldownEnds
<1>6. CASE UNCHANGED vars BY <1>6 DEF vars
<1> QED BY <1>1, <1>2, <1>3, <1>4, <1>5, <1>6 DEF Next
\* The store and the provider stay as new as the last finished login.
LEMMA FreshStoreStep == Fresh /\ IInv /\ [Next]_vars /\ ~lost' => FreshStore'
<1> SUFFICES ASSUME Fresh, IInv, [Next]_vars, ~lost' PROVE FreshStore'
  OBVIOUS
<1> USE ThreadsAssumption DEF IInv, TypeOK, SharedOK, OwnerOK, PlaceOK, Before, Preparing, Saving,
        Fresh, Written, FreshStore, FreshCaller, Healthy, state, attempts, browsers, store, history, Threads, OrNobody, Goto, Hold, Resolve
<1>1. ASSUME NEW c \in Callers, Fast(c) \/ Decide(c) \/ Launch(c) \/ Wait(c) \/ Persist(c)
      PROVE  FreshStore'
  <2>1. CASE Capture(c) BY <2>1 DEF Capture
  <2>2. CASE LookHealthy(c) BY <2>2 DEF LookHealthy
  <2>3. CASE LookSame(c) BY <2>3 DEF LookSame, Return
  <2>4. CASE TakeHealthy(c) BY <2>4 DEF TakeHealthy, Return, Healthy
  <2>5. CASE RefuseWhileDown(c) BY <2>5 DEF RefuseWhileDown, Raise
  <2>6. CASE RefuseWhileCooling(c) BY <2>6 DEF RefuseWhileCooling, MayStart, Detach, Raise
  <2>7. CASE Own(c) BY <2>7 DEF Own, MayStart, StartAttempt, Detach, AfterDetach
  <2>8. CASE Join(c) BY <2>8 DEF Join, MayStart, Detach, AfterDetach
  <2>9. CASE CloseOld(c) BY <2>9 DEF CloseOld
  <2>10. CASE ReadSession(c) BY <2>10 DEF ReadSession
  <2>11. CASE LaunchFails(c) BY <2>11 DEF LaunchFails, Current
  <2>12. CASE Publish(c) BY <2>12 DEF Publish, Current
  <2>13. CASE Discard(c) BY <2>13 DEF Discard, Obsolete, Current
  <2>14. CASE CloseDiscarded(c) BY <2>14 DEF CloseDiscarded
  <2>15. CASE Await(c) BY <2>15 DEF Await, Awaiting, Return, Raise
  <2>16. CASE AwaitTimesOut(c) BY <2>16 DEF AwaitTimesOut, Awaiting, Raise
  <2>17. CASE ReadFences(c) BY <2>17 DEF ReadFences
  <2>18. CASE CaptureCookies(c) BY <2>18 DEF CaptureCookies
  <2>19. CASE Save(c)
    <3>1. UNCHANGED <<logins, fresh, provider, context>> BY <2>19 DEF Save, SaveIf
    <3>2. held[c] \in Callers /\ ~lost BY <2>19, lost \in BOOLEAN DEF Save, SaveIf
    <3>3. disk' = disk \/ (disk' = context[held[c]] /\ ~(disk' < disk)) BY <2>19 DEF Save, SaveIf
    <3>4. context[held[c]] \in Nat /\ disk \in Nat /\ logins \in Nat BY <3>2
    <3> HIDE DEF IInv, TypeOK, SharedOK, OwnerOK, PlaceOK, Goto, Hold, Resolve, Healthy, OrNobody
    <3> QED BY <3>1, <3>2, <3>3, <3>4
  <2> QED
    BY <1>1, <2>1, <2>2, <2>3, <2>4, <2>5, <2>6, <2>7, <2>8, <2>9, <2>10, <2>11, <2>12,
       <2>13, <2>14, <2>15, <2>16, <2>17, <2>18, <2>19 DEF Fast, Decide, Launch, Wait, Persist
<1>2. ASSUME NEW l \in Logins, LogIn(l)
      PROVE  FreshStore'
  <2>1. CASE Login(l) BY <2>1 DEF Login
  <2>2. CASE Reset(l) BY <2>2 DEF Reset, DropProvider
  <2>3. CASE ResetClose(l) BY <2>3 DEF ResetClose, CloseReset
  <2> QED BY <1>2, <2>1, <2>2, <2>3 DEF LogIn
<1>3. ASSUME NEW p \in Callers, Break(p)
      PROVE  FreshStore'
  BY <1>3 DEF Break
<1>4. CASE BreakerCloses BY <1>4 DEF BreakerCloses
<1>5. CASE CooldownEnds BY <1>5 DEF CooldownEnds
<1>6. CASE UNCHANGED vars BY <1>6 DEF vars
<1> QED BY <1>1, <1>2, <1>3, <1>4, <1>5, <1>6 DEF Next

\* So does what each caller has or waits for.
LEMMA FreshCallerStep == Fresh /\ IInv /\ [Next]_vars /\ ~lost' => \A d \in Callers : FreshCaller(d)'
<1> SUFFICES ASSUME Fresh, IInv, [Next]_vars, ~lost' PROVE \A d \in Callers : FreshCaller(d)'
  OBVIOUS
<1> USE ThreadsAssumption DEF IInv, TypeOK, SharedOK, OwnerOK, PlaceOK, Before, Preparing, Saving,
        Fresh, Written, FreshStore, FreshCaller, Healthy, state, attempts, browsers, store, history, Threads, OrNobody, Goto, Hold, Resolve
<1>1. ASSUME NEW c \in Callers, Fast(c) \/ Decide(c) \/ Launch(c) \/ Wait(c) \/ Persist(c)
      PROVE  \A d \in Callers : FreshCaller(d)'
  <2>1. CASE Capture(c) BY <2>1 DEF Capture
  <2>2. CASE LookHealthy(c) BY <2>2 DEF LookHealthy
  <2>3. CASE LookSame(c) BY <2>3 DEF LookSame, Return
  <2>4. CASE TakeHealthy(c) BY <2>4 DEF TakeHealthy, Return, Healthy
  <2>5. CASE RefuseWhileDown(c) BY <2>5 DEF RefuseWhileDown, Raise
  <2>6. CASE RefuseWhileCooling(c) BY <2>6 DEF RefuseWhileCooling, MayStart, Detach, Raise
  <2>7. CASE Own(c) BY <2>7 DEF Own, MayStart, StartAttempt, Detach, AfterDetach
  <2>8. CASE Join(c) BY <2>8 DEF Join, MayStart, Detach, AfterDetach
  <2>9. CASE CloseOld(c) BY <2>9 DEF CloseOld
  <2>10. CASE ReadSession(c) BY <2>10 DEF ReadSession
  <2>11. CASE LaunchFails(c) BY <2>11 DEF LaunchFails, Current
  <2>12. CASE Publish(c) BY <2>12 DEF Publish, Current
  <2>13. CASE Discard(c) BY <2>13 DEF Discard, Obsolete, Current
  <2>14. CASE CloseDiscarded(c) BY <2>14 DEF CloseDiscarded
  <2>15. CASE Await(c) BY <2>15 DEF Await, Awaiting, Return, Raise
  <2>16. CASE AwaitTimesOut(c) BY <2>16 DEF AwaitTimesOut, Awaiting, Raise
  <2>17. CASE ReadFences(c) BY <2>17 DEF ReadFences
  <2>18. CASE CaptureCookies(c) BY <2>18 DEF CaptureCookies
  <2>19. CASE Save(c) BY <2>19 DEF Save, SaveIf, StillProvider
  <2> QED
    BY <1>1, <2>1, <2>2, <2>3, <2>4, <2>5, <2>6, <2>7, <2>8, <2>9, <2>10, <2>11, <2>12,
       <2>13, <2>14, <2>15, <2>16, <2>17, <2>18, <2>19 DEF Fast, Decide, Launch, Wait, Persist
<1>2. ASSUME NEW l \in Logins, LogIn(l)
      PROVE  \A d \in Callers : FreshCaller(d)'
  <2>1. CASE Login(l) BY <2>1 DEF Login
  <2>2. CASE Reset(l) BY <2>2 DEF Reset, DropProvider
  <2>3. CASE ResetClose(l) BY <2>3 DEF ResetClose, CloseReset
  <2> QED BY <1>2, <2>1, <2>2, <2>3 DEF LogIn
<1>3. ASSUME NEW p \in Callers, Break(p)
      PROVE  \A d \in Callers : FreshCaller(d)'
  BY <1>3 DEF Break
<1>4. CASE BreakerCloses BY <1>4 DEF BreakerCloses
<1>5. CASE CooldownEnds BY <1>5 DEF CooldownEnds
<1>6. CASE UNCHANGED vars BY <1>6 DEF vars
<1> QED BY <1>1, <1>2, <1>3, <1>4, <1>5, <1>6 DEF Next

\* A login that is lost stays lost.
LEMMA LostStep == IInv /\ [Next]_vars => (~lost' => ~lost)
<1> SUFFICES ASSUME IInv, [Next]_vars, lost PROVE lost'
  OBVIOUS
<1> USE DEF IInv, TypeOK, history
<1>1. ASSUME NEW c \in Callers, Fast(c) \/ Decide(c) \/ Launch(c) \/ Wait(c) \/ Persist(c)
      PROVE  lost'
  <2>1. CASE Capture(c) BY <2>1 DEF Capture
  <2>2. CASE LookHealthy(c) BY <2>2 DEF LookHealthy
  <2>3. CASE LookSame(c) BY <2>3 DEF LookSame, Return
  <2>4. CASE TakeHealthy(c) BY <2>4 DEF TakeHealthy, Return, Healthy
  <2>5. CASE RefuseWhileDown(c) BY <2>5 DEF RefuseWhileDown, Raise
  <2>6. CASE RefuseWhileCooling(c) BY <2>6 DEF RefuseWhileCooling, MayStart, Detach, Raise
  <2>7. CASE Own(c) BY <2>7 DEF Own, MayStart, StartAttempt, Detach, AfterDetach
  <2>8. CASE Join(c) BY <2>8 DEF Join, MayStart, Detach, AfterDetach
  <2>9. CASE CloseOld(c) BY <2>9 DEF CloseOld
  <2>10. CASE ReadSession(c) BY <2>10 DEF ReadSession
  <2>11. CASE LaunchFails(c) BY <2>11 DEF LaunchFails, Current
  <2>12. CASE Publish(c) BY <2>12 DEF Publish, Current
  <2>13. CASE Discard(c) BY <2>13 DEF Discard, Obsolete, Current
  <2>14. CASE CloseDiscarded(c) BY <2>14 DEF CloseDiscarded
  <2>15. CASE Await(c) BY <2>15 DEF Await, Awaiting, Return, Raise
  <2>16. CASE AwaitTimesOut(c) BY <2>16 DEF AwaitTimesOut, Awaiting, Raise
  <2>17. CASE ReadFences(c) BY <2>17 DEF ReadFences
  <2>18. CASE CaptureCookies(c) BY <2>18 DEF CaptureCookies
  <2>19. CASE Save(c) BY <2>19 DEF Save, SaveIf, StillProvider
  <2> QED
    BY <1>1, <2>1, <2>2, <2>3, <2>4, <2>5, <2>6, <2>7, <2>8, <2>9, <2>10, <2>11, <2>12,
       <2>13, <2>14, <2>15, <2>16, <2>17, <2>18, <2>19 DEF Fast, Decide, Launch, Wait, Persist
<1>2. ASSUME NEW l \in Logins, LogIn(l)
      PROVE  lost'
  <2>1. CASE Login(l) BY <2>1 DEF Login
  <2>2. CASE Reset(l) BY <2>2 DEF Reset, DropProvider
  <2>3. CASE ResetClose(l) BY <2>3 DEF ResetClose, CloseReset
  <2> QED BY <1>2, <2>1, <2>2, <2>3 DEF LogIn
<1>3. ASSUME NEW p \in Callers, Break(p)
      PROVE  lost'
  BY <1>3 DEF Break
<1>4. CASE BreakerCloses BY <1>4 DEF BreakerCloses
<1>5. CASE CooldownEnds BY <1>5 DEF CooldownEnds
<1>6. CASE UNCHANGED vars BY <1>6 DEF vars
<1> QED BY <1>1, <1>2, <1>3, <1>4, <1>5, <1>6 DEF Next

\* Whoever asks after a login has finished works with the session of that login or a
\* newer one, as long as persisted cookies have not replaced a login (provider, reset_provider).
THEOREM LoginIsUsed == Spec => []NewLoginIsUsed
<1>1. Init => Fresh
  BY ThreadsAssumption DEF Init, Fresh, Written, FreshStore, FreshCaller, Preparing, Threads
<1>2. IInv /\ Fresh /\ [Next]_vars => Fresh'
  BY WrittenStep, LostStep, FreshStoreStep, FreshCallerStep DEF Fresh
<1>3. Fresh => NewLoginIsUsed
  BY DEF Fresh, FreshCaller, NewLoginIsUsed
<1> QED BY Inductive, <1>1, <1>2, <1>3, PTL DEF Spec

----------------------------------------------------------------------------
(* Cookies of an older session replace a login only while it is between saving *)
(* its session and resetting the provider.                                     *)

\* Otherwise the provider, or the one that is about to be, is of the session in the store.
NotOlder ==
    (\A l \in Logins : pc[l] # "saved") =>
        /\ provider # Nobody => context[provider] >= disk
        /\ \A c \in Callers : startup = c /\ pc[c] = "launching" => context[c] >= disk

\* The revision has not moved: no login was saved since the fences were read.
RevisionOK(c) ==
    pc[c] \in Saving =>
        /\ seen[c][2] <= revision
        /\ seen[c][2] = revision => known[c] = logins

\* Every step keeps it so.
LEMMA NotOlderStep == NotOlder /\ IInv /\ [Next]_vars => NotOlder'
<1> SUFFICES ASSUME NotOlder, IInv, [Next]_vars PROVE NotOlder'
  OBVIOUS
<1> USE ThreadsAssumption DEF IInv, TypeOK, SharedOK, OwnerOK, PlaceOK, Before, Preparing, Saving,
        NotOlder, Healthy, state, attempts, browsers, store, history, Threads, OrNobody, Goto, Hold, Resolve
<1>1. ASSUME NEW c \in Callers, Fast(c) \/ Decide(c) \/ Launch(c) \/ Wait(c) \/ Persist(c)
      PROVE  NotOlder'
  <2>1. CASE Capture(c) BY <2>1 DEF Capture
  <2>2. CASE LookHealthy(c) BY <2>2 DEF LookHealthy
  <2>3. CASE LookSame(c) BY <2>3 DEF LookSame, Return
  <2>4. CASE TakeHealthy(c) BY <2>4 DEF TakeHealthy, Return, Healthy
  <2>5. CASE RefuseWhileDown(c) BY <2>5 DEF RefuseWhileDown, Raise
  <2>6. CASE RefuseWhileCooling(c) BY <2>6 DEF RefuseWhileCooling, MayStart, Detach, Raise
  <2>7. CASE Own(c) BY <2>7 DEF Own, MayStart, StartAttempt, Detach, AfterDetach
  <2>8. CASE Join(c) BY <2>8 DEF Join, MayStart, Detach, AfterDetach
  <2>9. CASE CloseOld(c) BY <2>9 DEF CloseOld
  <2>10. CASE ReadSession(c) BY <2>10 DEF ReadSession
  <2>11. CASE LaunchFails(c) BY <2>11 DEF LaunchFails, Current
  <2>12. CASE Publish(c) BY <2>12 DEF Publish, Current
  <2>13. CASE Discard(c) BY <2>13 DEF Discard, Obsolete, Current
  <2>14. CASE CloseDiscarded(c) BY <2>14 DEF CloseDiscarded
  <2>15. CASE Await(c) BY <2>15 DEF Await, Awaiting, Return, Raise
  <2>16. CASE AwaitTimesOut(c) BY <2>16 DEF AwaitTimesOut, Awaiting, Raise
  <2>17. CASE ReadFences(c) BY <2>17 DEF ReadFences
  <2>18. CASE CaptureCookies(c) BY <2>18 DEF CaptureCookies
  <2>19. CASE Save(c) BY <2>19 DEF Save, SaveIf, StillProvider
  <2> QED
    BY <1>1, <2>1, <2>2, <2>3, <2>4, <2>5, <2>6, <2>7, <2>8, <2>9, <2>10, <2>11, <2>12,
       <2>13, <2>14, <2>15, <2>16, <2>17, <2>18, <2>19 DEF Fast, Decide, Launch, Wait, Persist
<1>2. ASSUME NEW l \in Logins, LogIn(l)
      PROVE  NotOlder'
  <2>1. CASE Login(l)
    <3>1. pc'[l] = "saved" BY <2>1 DEF Login
    <3> QED BY <3>1
  <2>2. CASE Reset(l)
    <3>1. provider' = Nobody /\ startup' = Nobody BY <2>2 DEF Reset, DropProvider
    <3> QED BY <3>1
  <2>3. CASE ResetClose(l) BY <2>3 DEF ResetClose, CloseReset
  <2> QED BY <1>2, <2>1, <2>2, <2>3 DEF LogIn
<1>3. ASSUME NEW p \in Callers, Break(p)
      PROVE  NotOlder'
  BY <1>3 DEF Break
<1>4. CASE BreakerCloses BY <1>4 DEF BreakerCloses
<1>5. CASE CooldownEnds BY <1>5 DEF CooldownEnds
<1>6. CASE UNCHANGED vars BY <1>6 DEF vars
<1> QED BY <1>1, <1>2, <1>3, <1>4, <1>5, <1>6 DEF Next

LEMMA RevisionStep ==
    (\A d \in Callers : RevisionOK(d)) /\ IInv /\ [Next]_vars => \A d \in Callers : RevisionOK(d)'
<1> SUFFICES ASSUME \A d \in Callers : RevisionOK(d), IInv, [Next]_vars
             PROVE  \A d \in Callers : RevisionOK(d)'
  OBVIOUS
<1> USE ThreadsAssumption DEF IInv, TypeOK, Saving, RevisionOK, state, attempts, browsers, store,
        history, Threads, Goto, Hold, Resolve
<1>1. ASSUME NEW c \in Callers, Fast(c) \/ Decide(c) \/ Launch(c) \/ Wait(c) \/ Persist(c)
      PROVE  \A d \in Callers : RevisionOK(d)'
  <2>1. CASE Capture(c) BY <2>1 DEF Capture
  <2>2. CASE LookHealthy(c) BY <2>2 DEF LookHealthy
  <2>3. CASE LookSame(c) BY <2>3 DEF LookSame, Return
  <2>4. CASE TakeHealthy(c) BY <2>4 DEF TakeHealthy, Return, Healthy
  <2>5. CASE RefuseWhileDown(c) BY <2>5 DEF RefuseWhileDown, Raise
  <2>6. CASE RefuseWhileCooling(c) BY <2>6 DEF RefuseWhileCooling, MayStart, Detach, Raise
  <2>7. CASE Own(c) BY <2>7 DEF Own, MayStart, StartAttempt, Detach, AfterDetach
  <2>8. CASE Join(c) BY <2>8 DEF Join, MayStart, Detach, AfterDetach
  <2>9. CASE CloseOld(c) BY <2>9 DEF CloseOld
  <2>10. CASE ReadSession(c) BY <2>10 DEF ReadSession
  <2>11. CASE LaunchFails(c) BY <2>11 DEF LaunchFails, Current
  <2>12. CASE Publish(c) BY <2>12 DEF Publish, Current
  <2>13. CASE Discard(c) BY <2>13 DEF Discard, Obsolete, Current
  <2>14. CASE CloseDiscarded(c) BY <2>14 DEF CloseDiscarded
  <2>15. CASE Await(c) BY <2>15 DEF Await, Awaiting, Return, Raise
  <2>16. CASE AwaitTimesOut(c) BY <2>16 DEF AwaitTimesOut, Awaiting, Raise
  <2>17. CASE ReadFences(c) BY <2>17 DEF ReadFences
  <2>18. CASE CaptureCookies(c) BY <2>18 DEF CaptureCookies
  <2>19. CASE Save(c)
    <3>1. pc' = [pc EXCEPT ![c] = "done"] /\ UNCHANGED <<seen, known, logins>>
      BY <2>19 DEF Save, SaveIf
    <3>2. revision' \in {revision, revision + 1} BY <2>19 DEF Save, SaveIf
    <3>3. \A d \in Callers : pc'[d] \in Saving => d # c /\ pc[d] \in Saving BY <3>1
    <3>4. \A d \in Callers : seen[d][2] \in Nat OBVIOUS
    <3>5. revision \in Nat OBVIOUS
    <3> HIDE DEF IInv, TypeOK, Saving, Goto, Hold, Resolve
    <3> QED
      <4> TAKE d \in Callers
      <4>1. CASE revision' = revision BY <3>1, <3>3, <4>1
      <4>2. CASE revision' = revision + 1 BY <3>1, <3>3, <3>4, <3>5, <4>2
      <4> QED BY <3>2, <4>1, <4>2
  <2> QED
    BY <1>1, <2>1, <2>2, <2>3, <2>4, <2>5, <2>6, <2>7, <2>8, <2>9, <2>10, <2>11, <2>12,
       <2>13, <2>14, <2>15, <2>16, <2>17, <2>18, <2>19 DEF Fast, Decide, Launch, Wait, Persist
<1>2. ASSUME NEW l \in Logins, LogIn(l)
      PROVE  \A d \in Callers : RevisionOK(d)'
  <2>1. CASE Login(l) BY <2>1 DEF Login
  <2>2. CASE Reset(l) BY <2>2 DEF Reset, DropProvider
  <2>3. CASE ResetClose(l) BY <2>3 DEF ResetClose, CloseReset
  <2> QED BY <1>2, <2>1, <2>2, <2>3 DEF LogIn
<1>3. ASSUME NEW p \in Callers, Break(p)
      PROVE  \A d \in Callers : RevisionOK(d)'
  BY <1>3 DEF Break
<1>4. CASE BreakerCloses BY <1>4 DEF BreakerCloses
<1>5. CASE CooldownEnds BY <1>5 DEF CooldownEnds
<1>6. CASE UNCHANGED vars BY <1>6 DEF vars
<1> QED BY <1>1, <1>2, <1>3, <1>4, <1>5, <1>6 DEF Next

\* Only logins and savers write the store.
LEMMA StoreStep ==
    ASSUME [Next]_vars, disk' # disk
    PROVE  (\E l \in Logins : Login(l)) \/ (\E c \in Callers : Save(c))
<1> USE DEF store
<1>1. ASSUME NEW c \in Callers, Fast(c) \/ Decide(c) \/ Launch(c) \/ Wait(c) \/ Persist(c)
      PROVE  UNCHANGED disk \/ Save(c)
  BY <1>1 DEF Fast, Decide, Launch, Wait, Persist, Capture, LookHealthy, LookSame, TakeHealthy,
              RefuseWhileDown, RefuseWhileCooling, Own, Join, StartAttempt, CloseOld, ReadSession,
              LaunchFails, Publish, Discard, Obsolete, CloseDiscarded, Await, AwaitTimesOut,
              ReadFences, CaptureCookies
<1>2. ASSUME NEW l \in Logins, LogIn(l)
      PROVE  UNCHANGED disk \/ Login(l)
  BY <1>2 DEF LogIn, Reset, DropProvider, ResetClose, CloseReset
<1>3. ASSUME (\E p \in Callers : Break(p)) \/ BreakerCloses \/ CooldownEnds \/ UNCHANGED vars
      PROVE  UNCHANGED disk
  BY <1>3 DEF Break, BreakerCloses, CooldownEnds, vars
<1> QED BY <1>1, <1>2, <1>3 DEF Next

(* Rolling cookies of an older session replace a newer login at most between its save *)
(* and its reset of the provider, and only if their saver began after that save       *)
(* (_persist_jira_session_state).                                                     *)
THEOREM KeptOutsideReset == Spec => LoginIsKeptOutsideReset
<1> DEFINE Kept == NotOlder /\ Written /\ \A c \in Callers : RevisionOK(c)
<1>1. Init => Kept
  BY ThreadsAssumption DEF Init, NotOlder, Written, RevisionOK, Saving, Threads
<1>2. IInv /\ Kept /\ [Next]_vars => Kept'
  BY NotOlderStep, WrittenStep, RevisionStep
<1>3. ASSUME IInv, Kept, [Next]_vars
      PROVE  [disk' < disk => /\ \E l \in Logins : pc[l] = "saved"
                              /\ \A c \in Savers : pc'[c] # pc[c] => known[c] = logins]_vars
  <2> SUFFICES ASSUME disk' < disk
               PROVE  /\ \E l \in Logins : pc[l] = "saved"
                      /\ \A c \in Savers : pc'[c] # pc[c] => known[c] = logins
    OBVIOUS
  <2>1. disk \in Nat /\ logins \in Nat /\ context \in [Callers -> Nat] BY <1>3 DEF IInv, TypeOK
  <2>2. disk' # disk BY <2>1
  <2>3. ~\E l \in Logins : Login(l) BY <1>3, <2>1 DEF Login, Written
  <2>4. PICK c \in Callers : Save(c) BY <1>3, <2>2, <2>3, StoreStep
  <2>5. /\ pc[c] = "captured_cookies" /\ disk' = context[held[c]] /\ held[c] = provider
        /\ Healthy(held[c]) /\ revision = seen[c][2] /\ pc' = [pc EXCEPT ![c] = "done"]
    BY <2>2, <2>4 DEF Save, SaveIf, StillProvider, Goto
  <2>6. \E l \in Logins : pc[l] = "saved" BY <1>3, <2>1, <2>5 DEF NotOlder, Healthy, IInv, TypeOK, OrNobody
  <2>7. known[c] = logins BY <1>3, <2>5 DEF RevisionOK, Saving
  <2>8. \A d \in Savers : pc'[d] # pc[d] => d = c BY <1>3, <2>5 DEF IInv, TypeOK
  <2> QED BY <2>6, <2>7, <2>8
<1> QED BY Inductive, <1>1, <1>2, <1>3, PTL DEF Spec, LoginIsKeptOutsideReset


=============================================================================
