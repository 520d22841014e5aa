------------------------ MODULE StratumClientProofs ------------------------
(***************************************************************************)
(* What holds of StratumClient for every number of pools, every set of     *)
(* dead, silent and redirecting endpoints and every bound.                 *)
(***************************************************************************)
EXTENDS StratumClient, TLAPS

USE DEF Pools, UserPools, Dev, Endpoints, Connections, Home

(* The slot and the snapshot are disjoint from None.                       *)
LEMMA NoneIsNoConnection == None \notin Endpoints /\ None \notin Connections
BY RedirectNoneAssumption, ConnectionNoneAssumption

(* current() always yields a well-typed connection.                        *)
LEMMA CurrentPoolType == PoolTypeOK => CurrentPool \in Connections
<1> SUFFICES ASSUME PoolTypeOK PROVE CurrentPool \in Connections
  OBVIOUS
<1>1. \A p \in Pools : Home(p) \in Endpoints
  BY AlternatesAssumption
<1>2. current \in Pools /\ Dev \in Pools
  BY DEF PoolTypeOK
<1> QED BY <1>1, <1>2 DEF PoolTypeOK, CurrentPool

(* The periods of the donation loop are numbers of minutes.                *)
LEMMA SliceType ==
  /\ DevSlice \in Nat /\ UserSlice \in Nat
  /\ \A f \in FirstSlices : f \in Nat /\ UserSlice <= 2 * f /\ 2 * f <= 3 * UserSlice
BY LevelAssumption DEF DevSlice, UserSlice, FirstSlices

(* next() keeps the pool state well typed: the index stays in the list.    *)
LEMMA NextPoolType ==
  ASSUME PoolTypeOK, NextPool
  PROVE  PoolTypeOK'
<1>1. CASE override /\ UNCHANGED poolVars
  BY <1>1 DEF PoolTypeOK, poolVars
<1>2. CASE ~override /\ redirect' = None /\ current' = (current + 1) % NPools
           /\ UNCHANGED override
  BY <1>2, NPoolsAssumption DEF PoolTypeOK
<1> QED BY <1>1, <1>2 DEF NextPool

(* Ending with an error keeps pool state and retry count well typed.       *)
LEMMA EndsWithErrorType ==
  ASSUME TypeOK, EndsWithError
  PROVE  PoolTypeOK' /\ retry' \in 0 .. Retries
<1>1. CASE retry + 1 >= Retries
  BY <1>1, NextPoolType, RetriesAssumption DEF TypeOK, EndsWithError
<1>2. CASE ~(retry + 1 >= Retries)
  BY <1>2, RetriesAssumption
  DEF TypeOK, PoolTypeOK, EndsWithError, poolVars
<1> QED BY <1>1, <1>2

(* The type invariant is inductive.                                        *)
LEMMA TypeStep == TypeOK /\ [Next]_vars => TypeOK'
<1> SUFFICES ASSUME TypeOK, [Next]_vars PROVE TypeOK'
  OBVIOUS
<1> USE DEF TypeOK, DonationTypeOK, donationVars, clockVars, clientVars
<1>1. CASE Begin
  BY <1>1, CurrentPoolType DEF Begin, PoolTypeOK, poolVars
<1>2. CASE Connected
  BY <1>2 DEF Connected, PoolTypeOK, poolVars
<1>3. CASE LoggedIn
  BY <1>3 DEF LoggedIn, PoolTypeOK, poolVars
<1>4. CASE AttemptFails
  <2>1. drops' \in Nat
    BY <1>4 DEF AttemptFails, SpendDrop
  <2>2. PoolTypeOK' /\ retry' \in 0 .. Retries
    BY <1>4, EndsWithErrorType DEF AttemptFails
  <2> QED BY <1>4, <2>1, <2>2 DEF AttemptFails, EndsWithError, EndSession
<1>5. CASE Serve
  BY <1>5 DEF Serve, DropListener, PoolTypeOK, poolVars
<1>6. CASE Redirected
  <2>1. session.at.owner \in Pools
    BY <1>6 DEF Redirected
  <2>2. redirect' \in Endpoints
    BY <1>6, <2>1 DEF Redirected, SetRedirect
  <2>3. PoolTypeOK'
    BY <1>6, <2>2 DEF Redirected, SetRedirect, PoolTypeOK
  <2> QED
    BY <1>6, <2>3, RetriesAssumption
    DEF Redirected, EndsOk, EndSession, DropListener
<1>7. CASE Signalled
  BY <1>7, RetriesAssumption
  DEF Signalled, ConsumeSignal, EndsOk, EndSession, PoolTypeOK, poolVars
<1>8. CASE SessionFails
  <2>1. PoolTypeOK' /\ retry' \in 0 .. Retries
    BY <1>8, EndsWithErrorType DEF SessionFails
  <2> QED
    BY <1>8, <2>1
    DEF SessionFails, SpendDrop, EndsWithError, EndSession, DropListener
<1>9. CASE DonationSleep
  BY <1>9, SliceType DEF DonationSleep, TimePasses, PoolTypeOK
<1>12. CASE DonationFlip
  BY <1>12, SliceType DEF DonationFlip, Flip, PoolTypeOK
<1>10. CASE DonationNotify
  BY <1>10 DEF DonationNotify, NotifyOne, PoolTypeOK
<1>11. CASE UNCHANGED vars
  BY <1>11 DEF vars, PoolTypeOK
<1> QED
  BY <1>1, <1>2, <1>3, <1>4, <1>5, <1>6, <1>7, <1>8, <1>9, <1>10, <1>11,
     <1>12
  DEF Next

(* Type correctness, for every list of pools.                              *)
THEOREM TypeCorrect == Spec => []TypeOK
<1>1. Init => TypeOK
  <2> SUFFICES ASSUME Init PROVE TypeOK
    OBVIOUS
  <2>1. PoolTypeOK
    <3>1. current \in UserPools
      BY NPoolsAssumption DEF Init, PoolInit
    <3>2. override \in BOOLEAN
      BY DEF Init, PoolInit
    <3> QED BY <3>1, <3>2 DEF Init, PoolInit, PoolTypeOK
  <2>2. DonationTypeOK
    BY SliceType DEF Init, DonationInit, DonationTypeOK
  <2> QED BY <2>1, <2>2, RetriesAssumption DEF Init, TypeOK
<1> QED BY <1>1, TypeStep, PTL DEF Spec

-----------------------------------------------------------------------------
(* The signal.  StaleSessionIsSignalled is inductive beside TypeOK: Begin  *)
(* reads the slot, so a connection starts fresh; only Flip makes one stale,*)
(* and leaves the task at its notify_one; only Signalled uses a signal up, *)
(* and it ends the session.                                                *)
LEMMA SignalStep ==
  TypeOK /\ StaleSessionIsSignalled /\ [Next]_vars => StaleSessionIsSignalled'
<1> SUFFICES ASSUME TypeOK, StaleSessionIsSignalled, [Next]_vars
             PROVE  StaleSessionIsSignalled'
  OBVIOUS
<1> USE DEF StaleSessionIsSignalled, Stale
<1>1. CASE Begin
  <2>1. (session'.pool = Dev) <=> override
    BY <1>1 DEF Begin, CurrentPool, TypeOK, PoolTypeOK
  <2> QED BY <1>1, <2>1 DEF Begin, poolVars, TypeOK, PoolTypeOK
<1>2. CASE Connected
  BY <1>2 DEF Connected, poolVars, donationVars
<1>3. CASE LoggedIn
  BY <1>3 DEF LoggedIn, poolVars, donationVars
<1>4. CASE AttemptFails \/ Redirected \/ Signalled \/ SessionFails
  <2>1. phase' = "idle"
    BY <1>4 DEF AttemptFails, Redirected, Signalled, SessionFails,
                EndsWithError, EndsOk, EndSession
  <2> QED BY <2>1
<1>5. CASE Serve
  <2>1. signals > 0 => signals' > 0
    BY <1>5 DEF Serve, DropListener
  <2> QED BY <1>5, <2>1 DEF Serve, poolVars
<1>6. CASE DonationSleep \/ DonationFlip
  BY <1>6 DEF DonationSleep, TimePasses, DonationFlip, Flip, clientVars
<1>7. CASE DonationNotify
  <2>1. signals' > 0
    BY <1>7 DEF DonationNotify, NotifyOne
  <2> QED BY <2>1
<1>8. CASE UNCHANGED vars
  BY <1>8 DEF vars
<1> QED
  BY <1>1, <1>2, <1>3, <1>4, <1>5, <1>6, <1>7, <1>8 DEF Next

(* No flip of the donation loop is ever left without a signal while the    *)
(* client is connected for the side it has left.                           *)
THEOREM NoFlipIsMissed == Spec => []StaleSessionIsSignalled
<1>1. Init => StaleSessionIsSignalled
  BY DEF Init, StaleSessionIsSignalled, Stale
<1> QED BY <1>1, SignalStep, TypeCorrect, PTL DEF Spec

-----------------------------------------------------------------------------
(* Whose endpoint the client uses.  A session's endpoint comes from the    *)
(* redirect slot and the slot from a session's endpoint, so each needs the *)
(* other: both belong to the current user pool or to the dev pool.         *)
RedirectOwner == redirect # None => redirect.owner \in {current, Dev}
SessionOwner ==
  phase # "idle" => /\ session.pool \in {current, Dev}
                    /\ session.at.owner \in {session.pool, Dev}
                    /\ session.pool = Dev => session.at = Home(Dev)
OwnersInv == RedirectOwner /\ SessionOwner

(* next() clears the redirect whenever it leaves the pool it is of.        *)
LEMMA ErrorKeepsRedirectOwner ==
  ASSUME RedirectOwner, EndsWithError
  PROVE  RedirectOwner'
BY DEF RedirectOwner, EndsWithError, NextPool, poolVars

LEMMA OwnersStep == TypeOK /\ OwnersInv /\ [Next]_vars => OwnersInv'
<1> SUFFICES ASSUME TypeOK, OwnersInv, [Next]_vars PROVE OwnersInv'
  OBVIOUS
<1> USE DEF OwnersInv, RedirectOwner, SessionOwner
<1>1. CASE Begin
  <2>1. /\ session'.pool \in {current, Dev}
        /\ session'.at.owner \in {session'.pool, Dev}
        /\ session'.pool = Dev => session'.at = Home(Dev)
    BY <1>1 DEF Begin, CurrentPool, TypeOK, PoolTypeOK
  <2> QED BY <1>1, <2>1 DEF Begin, poolVars
<1>2. CASE Connected \/ LoggedIn \/ Serve
  BY <1>2 DEF Connected, LoggedIn, Serve, poolVars
<1>3. CASE AttemptFails \/ SessionFails
  <2>1. RedirectOwner'
    BY <1>3, ErrorKeepsRedirectOwner DEF AttemptFails, SessionFails
  <2>2. phase' = "idle"
    BY <1>3 DEF AttemptFails, SessionFails, EndsWithError, EndSession
  <2> QED BY <2>1, <2>2
<1>4. CASE Redirected
  <2>1. session.at.owner \in {current, Dev}
    BY <1>4 DEF Redirected
  <2>2. redirect'.owner = session.at.owner /\ current' = current
    BY <1>4 DEF Redirected, SetRedirect
  <2> QED BY <1>4, <2>1, <2>2 DEF Redirected, EndsOk, EndSession
<1>5. CASE Signalled
  BY <1>5 DEF Signalled, EndsOk, EndSession, poolVars
<1>6. CASE DonationSleep \/ DonationFlip \/ DonationNotify
  BY <1>6 DEF DonationSleep, DonationFlip, DonationNotify, TimePasses, Flip,
              NotifyOne, clientVars
<1>7. CASE UNCHANGED vars
  BY <1>7 DEF vars
<1> QED
  BY <1>1, <1>2, <1>3, <1>4, <1>5, <1>6, <1>7 DEF Next

(* No user wallet is ever logged in at an endpoint of another user pool,   *)
(* and the dev wallet at its own address only.                             *)
THEOREM WalletsStayApart == Spec => []WalletsDoNotCross
<1>1. Init => OwnersInv
  BY DEF Init, PoolInit, OwnersInv, RedirectOwner, SessionOwner
<1>2. OwnersInv => WalletsDoNotCross
  BY DEF OwnersInv, SessionOwner, WalletsDoNotCross
<1> QED BY <1>1, <1>2, OwnersStep, TypeCorrect, PTL DEF Spec

(* Without redirects from the dev pool, the slot holds an endpoint of the  *)
(* current user pool, and every session is at an endpoint of its own pool. *)
OwnInv ==
  /\ redirect # None => redirect.owner = current
  /\ phase # "idle" => /\ session.pool \in {current, Dev}
                       /\ session.at.owner = session.pool

LEMMA OwnStep ==
  ASSUME Dev \notin Redirecting, TypeOK, OwnInv, [Next]_vars
  PROVE  OwnInv'
<1> USE DEF OwnInv
<1>1. CASE Begin
  <2>1. /\ session'.pool \in {current, Dev}
        /\ session'.at.owner = session'.pool
    BY <1>1 DEF Begin, CurrentPool
  <2> QED BY <1>1, <2>1 DEF Begin, poolVars
<1>2. CASE Connected \/ LoggedIn \/ Serve
  BY <1>2 DEF Connected, LoggedIn, Serve, poolVars
<1>3. CASE AttemptFails \/ SessionFails
  <2>1. EndsWithError
    BY <1>3 DEF AttemptFails, SessionFails
  <2> QED BY <2>1 DEF EndsWithError, EndSession, NextPool, poolVars
<1>4. CASE Redirected
  <2>1. session.at.owner = current
    BY <1>4 DEF Redirected
  <2> QED BY <1>4, <2>1 DEF Redirected, SetRedirect, EndsOk, EndSession
<1>5. CASE Signalled
  BY <1>5 DEF Signalled, EndsOk, EndSession, poolVars
<1>6. CASE DonationSleep \/ DonationFlip \/ DonationNotify
  BY <1>6 DEF DonationSleep, DonationFlip, DonationNotify, TimePasses, Flip,
              NotifyOne, clientVars
<1>7. CASE UNCHANGED vars
  BY <1>7 DEF vars
<1> QED
  BY <1>1, <1>2, <1>3, <1>4, <1>5, <1>6, <1>7 DEF Next

(* If the dev pool never sends client.reconnect, every wallet logs in only *)
(* at endpoints of its own pool.                                           *)
THEOREM EndpointsStayOwn ==
  ASSUME Dev \notin Redirecting
  PROVE  Spec => []EndpointBelongsToWallet
<1>1. Init => OwnInv
  BY DEF Init, PoolInit, OwnInv
<1>2. OwnInv => EndpointBelongsToWallet
  BY DEF OwnInv, EndpointBelongsToWallet
<1>3. TypeOK /\ OwnInv /\ [Next]_vars => OwnInv'
  BY OwnStep
<1> QED BY <1>1, <1>2, <1>3, TypeCorrect, PTL DEF Spec

-----------------------------------------------------------------------------
(* The donation's share.  `Offset' is the balance the present period is to *)
(* end with, less what a full user period adds; the random first period    *)
(* fixes it, and no step changes it afterwards.                            *)
Offset ==
  IF override THEN balance - UserSlice * left
              ELSE balance - DevSlice * (UserSlice - left)

ShareInv ==
  /\ -(UserSlice * DevSlice) <= 2 * Offset
  /\ 2 * Offset <= UserSlice * DevSlice
  /\ override => left <= DevSlice
  /\ ~override => left <= UserSlice \/ balance >= 0

(* Only the donation task moves the clock and the slot.                    *)
LEMMA ClockSteps ==
  ASSUME [Next]_vars
  PROVE  TimePasses \/ Flip \/ UNCHANGED <<left, balance, override>>
<1> USE DEF poolVars, donationVars, clockVars
<1>1. CASE Begin \/ Connected \/ LoggedIn \/ Serve \/ Signalled
  BY <1>1 DEF Begin, Connected, LoggedIn, Serve, Signalled
<1>2. CASE AttemptFails \/ SessionFails
  BY <1>2 DEF AttemptFails, SessionFails, EndsWithError, NextPool
<1>3. CASE Redirected
  BY <1>3 DEF Redirected, SetRedirect
<1>4. CASE DonationSleep \/ DonationFlip \/ DonationNotify
  BY <1>4 DEF DonationSleep, DonationFlip, DonationNotify, NotifyOne
<1>5. CASE UNCHANGED vars
  BY <1>5 DEF vars
<1> QED BY <1>1, <1>2, <1>3, <1>4, <1>5 DEF Next

LEMMA OffsetStep ==
  ASSUME TypeOK, [Next]_vars
  PROVE  Offset' = Offset
<1> DEFINE U == UserSlice
           D == DevSlice
<1>0. U \in Nat /\ D \in Nat /\ U' = U /\ D' = D
  BY SliceType DEF UserSlice, DevSlice
<1>1. left \in Nat /\ balance \in Int /\ override \in BOOLEAN
  BY DEF TypeOK, DonationTypeOK, PoolTypeOK
<1> USE DEF Offset
<1>2. CASE TimePasses
  <2>1. left' = left - 1 /\ override' = override
    BY <1>2 DEF TimePasses
  <2>2. CASE override
    <3>1. balance' = balance - U
      BY <1>2, <2>2 DEF TimePasses
    <3>2. U * (left - 1) = U * left - U
      BY <1>0, <1>1
    <3>3. U * left \in Int
      BY <1>0, <1>1
    <3>4. Offset' = (balance - U) - U * (left - 1)
      BY <1>0, <2>1, <2>2, <3>1
    <3> HIDE DEF U
    <3>5. (balance - U) - U * (left - 1) = balance - U * left
      BY <1>0, <1>1, <3>2, <3>3
    <3> QED BY <2>2, <3>4, <3>5 DEF U
  <2>3. CASE ~override
    <3>1. balance' = balance + D
      BY <1>2, <2>3 DEF TimePasses
    <3>2. D * (U - (left - 1)) = D * (U - left) + D
      BY <1>0, <1>1
    <3>3. D * (U - left) \in Int
      BY <1>0, <1>1
    <3>4. Offset' = (balance + D) - D * (U - (left - 1))
      BY <1>0, <2>1, <2>3, <3>1
    <3> HIDE DEF U, D
    <3>5. (balance + D) - D * (U - (left - 1)) = balance - D * (U - left)
      BY <1>0, <1>1, <3>2, <3>3
    <3> QED BY <2>3, <3>4, <3>5 DEF U, D
  <2> QED BY <1>1, <2>2, <2>3
<1>3. CASE Flip
  <2>1. left = 0 /\ balance' = balance /\ override' = ~override
    BY <1>3 DEF Flip
  <2>2. CASE override
    <3>1. left' = U /\ ~override'
      BY <1>3, <2>2 DEF Flip
    <3>2. U * 0 = 0 /\ D * (U - U) = 0
      BY <1>0
    <3> QED BY <1>0, <1>1, <2>1, <2>2, <3>1, <3>2
  <2>3. CASE ~override
    <3>1. left' = D /\ override'
      BY <1>1, <1>3, <2>3 DEF Flip
    <3>2. D * (U - 0) = U * D
      BY <1>0
    <3> QED BY <1>0, <1>1, <2>1, <2>3, <3>1, <3>2
  <2> QED BY <1>1, <2>2, <2>3
<1>4. CASE UNCHANGED <<left, balance, override>>
  BY <1>0, <1>4
<1>5. TimePasses \/ Flip \/ UNCHANGED <<left, balance, override>>
  BY ClockSteps
<1> QED BY <1>2, <1>3, <1>4, <1>5

LEMMA ShareStep == TypeOK /\ ShareInv /\ [Next]_vars => ShareInv'
<1> SUFFICES ASSUME TypeOK, ShareInv, [Next]_vars PROVE ShareInv'
  OBVIOUS
<1>1. Offset' = Offset /\ (UserSlice * DevSlice)' = UserSlice * DevSlice
  BY OffsetStep DEF UserSlice, DevSlice
<1>2. /\ override' => left' <= DevSlice
      /\ ~override' => left' <= UserSlice \/ balance' >= 0
  <2>0. /\ left \in Nat /\ balance \in Int /\ override \in BOOLEAN
        /\ DevSlice \in Nat /\ UserSlice \in Nat
    BY SliceType DEF TypeOK, DonationTypeOK, PoolTypeOK
  <2>1. CASE TimePasses /\ override
    BY <2>0, <2>1 DEF TimePasses, ShareInv
  <2>2. CASE TimePasses /\ ~override
    BY <2>0, <2>2 DEF TimePasses, ShareInv
  <2>3. CASE Flip
    <3>1. override => left' = UserSlice /\ ~override'
      BY <2>3 DEF Flip
    <3>2. ~override => left' = DevSlice /\ override'
      BY <2>0, <2>3 DEF Flip
    <3> QED BY <2>0, <3>1, <3>2
  <2>4. CASE UNCHANGED <<left, balance, override>>
    BY <2>4 DEF ShareInv
  <2>5. TimePasses \/ Flip \/ UNCHANGED <<left, balance, override>>
    BY ClockSteps
  <2> QED BY <2>1, <2>2, <2>3, <2>4, <2>5
<1>3. UserSlice' = UserSlice /\ DevSlice' = DevSlice
  BY DEF UserSlice, DevSlice
<1> QED BY <1>1, <1>2, <1>3 DEF ShareInv

(* Within a period the balance stays between its ends.                     *)
LEMMA ShareImpliesFair == TypeOK /\ ShareInv => DonationIsFair
<1> SUFFICES ASSUME TypeOK, ShareInv PROVE DonationIsFair
  OBVIOUS
<1> DEFINE U == UserSlice
           D == DevSlice
<1>0. U \in Nat /\ D \in Nat
  BY SliceType
<1>1. left \in Nat /\ balance \in Int /\ override \in BOOLEAN
  BY DEF TypeOK, DonationTypeOK, PoolTypeOK
<1>2. U * D \in Int /\ U * D >= 0 /\ 3 * U * D = 3 * (U * D)
  BY <1>0
<1>5. SUFFICES -(U * D) <= 2 * balance /\ 2 * balance <= 3 * (U * D)
  BY <1>2 DEF DonationIsFair
<1>6. -(U * D) <= 2 * Offset /\ 2 * Offset <= U * D
  BY DEF ShareInv
<1>3. CASE override
  <2>1. balance = Offset + U * left /\ U * left \in Int
    BY <1>0, <1>1, <1>3 DEF Offset
  <2>2. 0 <= U * left /\ U * left <= U * D
    BY <1>0, <1>1, <1>3 DEF ShareInv
  <2>3. Offset \in Int
    BY <1>1, <2>1, <1>3 DEF Offset
  <2> HIDE DEF U, D
  <2> QED BY <1>1, <1>2, <1>6, <2>1, <2>2, <2>3
<1>4. CASE ~override
  <2>1. balance = Offset + D * (U - left) /\ D * (U - left) \in Int
    BY <1>0, <1>1, <1>4 DEF Offset
  <2>2. D * (U - left) <= U * D
    BY <1>0, <1>1
  <2>3. left <= U => D * (U - left) >= 0
    BY <1>0, <1>1
  <2>4. Offset \in Int
    BY <1>1, <2>1, <1>4 DEF Offset
  <2>5. left <= U \/ balance >= 0
    BY <1>4 DEF ShareInv
  <2> HIDE DEF U, D
  <2> QED BY <1>1, <1>2, <1>6, <2>1, <2>2, <2>3, <2>4, <2>5
<1> QED BY <1>1, <1>3, <1>4

-----------------------------------------------------------------------------
(* For any donation level, however long the miner runs: the developer's    *)
(* share of the time is the level's percentage, up to one period.          *)
THEOREM DonationTakesItsShare == Spec => []DonationIsFair
<1>1. Init => ShareInv
  <2> SUFFICES ASSUME Init PROVE ShareInv
    OBVIOUS
  <2> DEFINE U == UserSlice
             D == DevSlice
  <2>1. U \in Nat /\ D \in Nat /\ left \in Nat
        /\ U <= 2 * left /\ 2 * left <= 3 * U
    BY SliceType DEF Init, DonationInit
  <2>2. ~override /\ balance = 0
    BY DEF Init, PoolInit, DonationInit
  <2>3. Offset = 0 - D * (U - left)
    BY <2>2 DEF Offset
  <2>4. D * (2 * left - U) <= D * (2 * U) /\ D * (2 * left - U) >= 0
    BY <2>1
  <2>5. /\ D * (2 * left - U) = 2 * (D * left) - U * D
        /\ D * (U - left) = U * D - D * left
        /\ D * (2 * U) = 2 * (U * D)
        /\ D * left \in Int /\ U * D \in Int
    BY <2>1
  <2> HIDE DEF U, D
  <2>6. -(U * D) <= 2 * Offset /\ 2 * Offset <= U * D
    BY <2>3, <2>4, <2>5
  <2> QED BY <2>2, <2>6 DEF ShareInv, U, D
<1> QED BY <1>1, ShareStep, ShareImpliesFair, TypeCorrect, PTL DEF Spec

-----------------------------------------------------------------------------
(* Every step of the client and of the donation loop is a step of          *)
(* PoolChoice or leaves its state alone.                                   *)
LEMMA ChoiceStep == TypeOK /\ [Next]_vars => [Choice!Next]_(Choice!vars)
<1> SUFFICES ASSUME TypeOK, [Next]_vars PROVE [Choice!Next]_(Choice!vars)
  OBVIOUS
<1> USE DEF Choice!vars, Side
<1>1. CASE Begin
  <2>1. (session'.pool = Dev) <=> override
    BY <1>1 DEF Begin, CurrentPool, TypeOK, PoolTypeOK
  <2>2. Choice!Begin
    BY <1>1, <2>1 DEF Begin, Choice!Begin, poolVars, TypeOK, PoolTypeOK
  <2> QED BY <2>2 DEF Choice!Next
<1>2. CASE Connected \/ LoggedIn \/ Serve \/ DonationSleep \/ DonationNotify
  BY <1>2 DEF Connected, LoggedIn, Serve, DonationSleep, DonationNotify,
              TimePasses, NotifyOne, poolVars, clientVars
<1>3. CASE AttemptFails \/ Redirected \/ Signalled \/ SessionFails
  <2>1. /\ phase # "idle" /\ phase' = "idle"
        /\ override' = override
    BY <1>3 DEF AttemptFails, Redirected, Signalled, SessionFails,
                EndsWithError, EndsOk, EndSession, SetRedirect, NextPool,
                poolVars
  <2>2. Choice!End
    BY <2>1 DEF Choice!End
  <2> QED BY <2>2 DEF Choice!Next
<1>4. CASE DonationFlip
  <2>1. Choice!Flip
    BY <1>4 DEF DonationFlip, Flip, clientVars, Choice!Flip, Choice!Sides,
                TypeOK, PoolTypeOK
  <2> QED BY <2>1 DEF Choice!Next
<1>5. CASE UNCHANGED vars
  BY <1>5 DEF vars
<1> QED
  BY <1>1, <1>2, <1>3, <1>4, <1>5 DEF Next

(* The client and the donation loop implement the safety half of           *)
(* PoolChoice: every connection is begun for the side then chosen.         *)
THEOREM RefinesPoolChoice == Spec => Choice!Safety
<1>1. Init => Choice!Init
  BY DEF Init, PoolInit, Choice!Init, Side
<1> QED BY <1>1, ChoiceStep, TypeCorrect, PTL DEF Spec, Choice!Safety
=============================================================================
