------------------------- MODULE AuthServiceProofs -------------------------
(***************************************************************************)
(* Theorems about AuthService, for any number of tokens and attempts: the  *)
(* types, that the session survives, and that the latch holds.             *)
(***************************************************************************)
EXTENDS AuthService, TLAPS

LEMMA NoCallType == NoCall \in CallType
  BY BoundAssumption DEF NoCall, CallType

LEMMA NoCallFields ==
  /\ NoCall.at = "idle" /\ NoCall.token = None /\ NoCall.got = None
  /\ NoCall.attempts = 0 /\ NoCall.challenge = "none"
  BY DEF NoCall

LEMMA TypeInit == Init => TypeOK
  <1> SUFFICES ASSUME Init PROVE TypeOK
    OBVIOUS
  <1>1. issued \in 0 .. MaxIssued /\ good \subseteq Token /\ tried \subseteq Token
    BY BoundAssumption DEF Init
  <1>2. /\ stored = None /\ proc = "none" /\ latch = None
        /\ call \in CallType /\ call.at = "idle"
    BY NoCallType, NoCallFields DEF Init
  <1>3. lost \in BOOLEAN
    BY DEF Init
  <1> QED
    BY <1>1, <1>2, <1>3 DEF TypeOK

\* The end of a process is the same wherever it comes.
LEMMA EndType ==
  ASSUME End
  PROVE  /\ proc' = "none" /\ call' \in CallType /\ call'.at = "idle"
         /\ latch' = None /\ tried' = {}
  BY NoCallType, NoCallFields DEF End

\* The next prompt, too.
LEMMA NextAttemptType ==
  ASSUME TypeOK, NextAttempt
  PROVE  \/ End
         \/ /\ call' \in CallType /\ call'.at = "prompt"
            /\ call'.token = call.token /\ call'.got = call.got
            /\ UNCHANGED <<proc, latch, tried>>
  <1>1. CASE call.attempts + 1 = MaxAttempts
    BY <1>1 DEF NextAttempt
  <1>2. CASE call.attempts + 1 # MaxAttempts
    <2>1. call.attempts + 1 \in 0 .. MaxAttempts - 1
      BY <1>2, BoundAssumption DEF TypeOK, CallType
    <2>2. /\ call' = [call EXCEPT !.at = "prompt", !.attempts = call.attempts + 1]
          /\ UNCHANGED <<proc, latch, tried>>
      BY <1>2 DEF NextAttempt
    <2> QED
      BY <2>1, <2>2 DEF TypeOK, CallType
  <1> QED
    BY <1>1, <1>2

LEMMA TypeStep == TypeOK /\ AuthInv /\ [Next]_vars => TypeOK'
  <1> SUFFICES ASSUME TypeOK, AuthInv, [Next]_vars PROVE TypeOK'
    OBVIOUS
  <1>1. ASSUME NEW p \in {"server", "auth"}, StartProcess(p) PROVE TypeOK'
    <2>1. call.at \notin {"authorize", "prompt", "verify", "exchange", "exchanged"}
      BY <1>1 DEF StartProcess, TypeOK
    <2> QED
      BY <1>1, <2>1 DEF StartProcess, TypeOK
  <1>2. CASE Stop
    BY <1>2, EndType DEF Stop, TypeOK
  <1>3. CASE Expire
    <2>1. stored' \in [token : Token, valid : BOOLEAN]
      BY <1>3 DEF Expire, TypeOK
    <2> QED
      BY <1>3, <2>1 DEF Expire, TypeOK
  <1>4. CASE Revoke
    BY <1>4 DEF Revoke, TypeOK
  <1>5. CASE UseStored
    BY <1>5, EndType DEF UseStored, TypeOK
  <1>18. CASE StoreElsewhere
    <2>1. issued + 1 \in Token /\ issued' \in 0 .. MaxIssued
      BY <1>18, BoundAssumption DEF StoreElsewhere, TypeOK, Token
    <2>2. stored' \in [token : Token, valid : BOOLEAN]
      BY <1>18, <2>1 DEF StoreElsewhere
    <2>3. good' \subseteq Token /\ lost' \in BOOLEAN
      BY <1>18, <2>1 DEF StoreElsewhere, TypeOK
    <2> QED
      BY <1>18, <2>1, <2>2, <2>3 DEF StoreElsewhere, TypeOK
  <1>6. CASE SendRefresh
    <2>1. stored.token \in Token
      BY <1>6 DEF SendRefresh, TypeOK
    <2>2. call' \in CallType /\ call'.at = "refresh"
      BY <1>6, <2>1 DEF SendRefresh, TypeOK, CallType
    <2> QED
      BY <1>6, <2>2 DEF SendRefresh, TypeOK
  <1>7. CASE Refreshed
    <2>1. PICK t \in {call.token, issued + 1} :
            /\ t <= MaxIssued
            /\ issued' = IF t = call.token THEN issued ELSE t
            /\ good' = (good \ {call.token}) \union {t}
            /\ call' = [call EXCEPT !.at = "refreshed", !.got = t]
      BY <1>7 DEF Refreshed
    <2>2. t \in Token /\ issued' \in 0 .. MaxIssued
      BY <1>7, <2>1, BoundAssumption DEF Refreshed, TypeOK, Token
    <2>3. call' \in CallType /\ call'.at = "refreshed"
      BY <2>1, <2>2 DEF TypeOK, CallType
    <2> QED
      BY <1>7, <2>1, <2>2, <2>3 DEF Refreshed, TypeOK
  <1>8. CASE RefreshFails
    <2>1. call.token \in Token
      BY <1>8 DEF RefreshFails, AuthInv, InFlight, TypeOK
    <2>2. lost' \in BOOLEAN
      BY <1>8 DEF RefreshFails, TypeOK
    <2>3. UNCHANGED <<issued, good, stored, proc>> /\ tried' \subseteq Token
      BY <1>8, <2>1 DEF RefreshFails, TypeOK
    <2>4. CASE proc = "server"
      BY <1>8, <2>1, <2>2, <2>3, <2>4, NoCallType, NoCallFields
      DEF RefreshFails, TypeOK
    <2>5. CASE proc = "auth"
      <3>1. call' \in CallType /\ UNCHANGED latch
        BY <1>8, <2>5 DEF RefreshFails, TypeOK, CallType
      <3> QED
        BY <2>2, <2>3, <2>5, <3>1 DEF TypeOK
    <2> QED
      BY <1>8, <2>4, <2>5 DEF RefreshFails
  <1>9. CASE Save
    <2>1. stored' \in [token : Token, valid : BOOLEAN]
      BY <1>9, NoneAssumption DEF Save, AuthInv, InFlight, TypeOK, CallType, Token
    <2>2. lost' \in BOOLEAN
      BY <1>9 DEF Save, TypeOK
    <2> QED
      BY <1>9, <2>1, <2>2, EndType, NoCallType, NoCallFields DEF Save, TypeOK
  <1>10. CASE SkipRefresh
    <2>1. call' \in CallType
      BY <1>10 DEF SkipRefresh, TypeOK, CallType
    <2> QED
      BY <1>10, <2>1 DEF SkipRefresh, TypeOK
  <1>11. CASE Authorize
    <2>1. call' \in CallType
      BY <1>11 DEF Authorize, TypeOK, CallType
    <2> QED
      BY <1>11, <2>1 DEF Authorize, TypeOK
  <1>12. CASE EnterNothing
    BY <1>12, EndType, NextAttemptType DEF EnterNothing, TypeOK
  <1>13. CASE EnterCode
    <2>1. CASE End
      BY <1>13, <2>1, EndType DEF EnterCode, TypeOK
    <2>2. CASE ~End
      <3>1. call' \in CallType
        BY <1>13, <2>2 DEF EnterCode, TypeOK, CallType
      <3> QED
        BY <1>13, <2>2, <3>1 DEF EnterCode, TypeOK
    <2> QED
      BY <2>1, <2>2
  <1>14. CASE Verified
    <2>1. call' \in CallType
      BY <1>14 DEF Verified, TypeOK, CallType
    <2> QED
      BY <1>14, <2>1 DEF Verified, TypeOK
  <1>15. CASE Exchange
    <2>1. issued + 1 \in Token
      BY <1>15, BoundAssumption DEF Exchange, TypeOK, Token
    <2>2. call' \in CallType
      BY <1>15, <2>1 DEF Exchange, TypeOK, CallType
    <2>3. issued' \in 0 .. MaxIssued /\ good' \subseteq Token
      BY <1>15, <2>1, BoundAssumption DEF Exchange, TypeOK, Token
    <2> QED
      BY <1>15, <2>2, <2>3 DEF Exchange, TypeOK
  <1>16. CASE LoginFails
    <2>1. lost' \in BOOLEAN /\ UNCHANGED <<issued, good, stored>>
      BY <1>16 DEF LoginFails, TypeOK
    <2>2. proc = "auth"
      BY <1>16 DEF LoginFails, TypeOK
    <2>3. End \/ NextAttempt
      BY <1>16 DEF LoginFails
    <2> QED
      BY <2>1, <2>2, <2>3, EndType, NextAttemptType DEF TypeOK
  <1>17. CASE UNCHANGED vars
    BY <1>17 DEF vars, TypeOK
  <1> QED
    BY <1>1, <1>2, <1>3, <1>4, <1>5, <1>6, <1>7, <1>8, <1>9, <1>10, <1>11,
       <1>12, <1>13, <1>14, <1>15, <1>16, <1>17, <1>18 DEF Next, CallStep
-----------------------------------------------------------------------------
(***************************************************************************)
(* The session and the latch.                                              *)
(***************************************************************************)
LEMMA AuthInit == Init => AuthInv
  BY NoCallFields
  DEF Init, AuthInv, OnlyIssued, InFlight, Latched, StoredTokenWorks

\* A process that ends takes its call and its latch with it.
LEMMA EndStep ==
  ASSUME TypeOK, AuthInv, End, UNCHANGED <<issued, good, stored>>,
         lost' = (lost \/ Replaced)
  PROVE  AuthInv'
  <1>1. /\ proc' = "none" /\ call' = NoCall /\ call'.at = "idle"
        /\ latch' = None /\ tried' = {}
    BY NoCallFields DEF End
  <1>2. OnlyIssued' /\ InFlight' /\ Latched'
    BY <1>1 DEF AuthInv, OnlyIssued, InFlight, Latched
  <1>3. StoredTokenWorks'
    BY <1>1 DEF AuthInv, InFlight, StoredTokenWorks, Replaced
  <1> QED
    BY <1>2, <1>3 DEF AuthInv

\* Nothing is lost when no answer to a refresh was waiting.
LEMMA NothingReplaced ==
  ASSUME TypeOK, UNCHANGED lost, call.at # "refreshed"
  PROVE  lost' = (lost \/ Replaced)
  BY DEF TypeOK, Replaced

\* The steps of a login before its exchange move nothing but the call.
LEMMA LoginStep ==
  ASSUME TypeOK, AuthInv, UNCHANGED <<issued, good, stored, proc, latch, tried, lost>>,
         proc = "auth", call.at # "refreshed",
         call'.at \in {"authorize", "prompt", "verify", "exchange"}
  PROVE  AuthInv'
  <1>1. OnlyIssued' /\ InFlight' /\ Latched'
    BY DEF AuthInv, OnlyIssued, InFlight, Latched
  <1>2. StoredTokenWorks'
    BY DEF AuthInv, StoredTokenWorks
  <1> QED
    BY <1>1, <1>2 DEF AuthInv

LEMMA SendStep ==
  ASSUME TypeOK, AuthInv, SendRefresh
  PROVE  AuthInv'
  <1>1. /\ call'.at = "refresh" /\ call'.token = stored.token
        /\ call.at = "idle" /\ proc # "none"
        /\ stored # None /\ ~stored.valid
        /\ UNCHANGED <<issued, good, stored, proc, latch, tried, lost>>
    BY DEF SendRefresh, TypeOK, CallType
  <1>2. proc = "auth" => tried = {}
    BY <1>1 DEF AuthInv, Latched
  <1>3. proc = "server" => stored.token \notin tried
    BY <1>1 DEF SendRefresh, AuthInv, Latched
  <1>4. OnlyIssued' /\ InFlight' /\ StoredTokenWorks'
    BY <1>1 DEF AuthInv, OnlyIssued, InFlight, StoredTokenWorks
  <1>5. Latched'
    BY <1>1, <1>2, <1>3 DEF AuthInv, Latched, NoCall
  <1> QED
    BY <1>4, <1>5 DEF AuthInv

LEMMA RefreshedStep ==
  ASSUME TypeOK, AuthInv, Refreshed
  PROVE  AuthInv'
  <1>1. PICK t \in {call.token, issued + 1} :
          /\ t <= MaxIssued
          /\ issued' = IF t = call.token THEN issued ELSE t
          /\ good' = (good \ {call.token}) \union {t}
          /\ call' = [call EXCEPT !.at = "refreshed", !.got = t]
    BY DEF Refreshed
  <1>2. /\ call.at = "refresh" /\ call.token = stored.token /\ stored # None
        /\ UNCHANGED <<stored, proc, latch, tried, lost>>
    BY DEF Refreshed, AuthInv, InFlight
  <1>3. /\ call'.at = "refreshed" /\ call'.got = t /\ call'.token = call.token
    BY <1>1 DEF TypeOK, CallType
  <1>4. stored.token \in 1 .. issued /\ issued \in Nat /\ t \in Nat
    BY <1>1, <1>2, BoundAssumption DEF AuthInv, OnlyIssued, TypeOK
  <1>5. OnlyIssued'
    BY <1>1, <1>2, <1>4 DEF AuthInv, OnlyIssued
  <1>6. InFlight'
    <2>1. t \in 1 .. issued' /\ t \in good'
      BY <1>1, <1>2, <1>4
    <2>2. ~stored.valid
      BY DEF Refreshed, AuthInv, InFlight
    <2> QED
      BY <1>2, <1>3, <2>1, <2>2 DEF InFlight
  <1>7. Latched'
    <2>1. proc = "server" => stored.token \notin tried
      BY <1>2 DEF AuthInv, Latched
    <2>2. issued + 1 \notin tried
      BY <1>4 DEF AuthInv, OnlyIssued
    <2>3. proc = "server" => t \notin tried
      BY <1>1, <1>2, <2>1, <2>2
    <2>4. proc = "auth" => tried = {}
      BY <1>2 DEF AuthInv, Latched
    <2> QED
      BY <1>2, <1>3, <2>1, <2>3, <2>4, NoCallFields DEF AuthInv, Latched
  <1>8. StoredTokenWorks'
    BY <1>3 DEF StoredTokenWorks
  <1> QED
    BY <1>5, <1>6, <1>7, <1>8 DEF AuthInv

\* A refresh that fails without anything lost leaves a stored token that works.
LEMMA RefreshFailsStep ==
  ASSUME TypeOK, AuthInv, RefreshFails
  PROVE  AuthInv'
  <1>1. /\ call.at \in {"refresh", "refreshed"}
        /\ stored # None /\ ~stored.valid /\ call.token = stored.token
        /\ stored.token \in 1 .. issued
        /\ proc \in {"server", "auth"}
    BY DEF RefreshFails, AuthInv, InFlight, OnlyIssued
  <1>2. /\ UNCHANGED <<issued, good, stored, proc>>
        /\ tried' = tried \union {stored.token}
        /\ lost' = (lost \/ Replaced)
    BY <1>1 DEF RefreshFails
  <1>3. call'.at \in {"idle", "authorize"}
    BY NoCallFields DEF RefreshFails, TypeOK, CallType
  <1>4. OnlyIssued'
    BY <1>1, <1>2 DEF AuthInv, OnlyIssued
  <1>5. InFlight'
    BY <1>3 DEF InFlight
  <1>6. StoredTokenWorks'
    BY <1>1, <1>2, <1>3 DEF AuthInv, InFlight, StoredTokenWorks, Replaced
  <1>7. Latched'
    <2>1. CASE proc = "server"
      <3>1. latch' = stored.token /\ call' = NoCall /\ call'.at = "idle"
        BY <1>1, <2>1, NoCallFields DEF RefreshFails
      <3> QED
        BY <1>1, <1>2, <2>1, <3>1 DEF Latched
    <2>2. CASE proc = "auth"
      <3>1. call'.at = "authorize" /\ latch' = None
        BY <1>1, <2>2 DEF RefreshFails, TypeOK, CallType, AuthInv, Latched
      <3> QED
        BY <1>1, <1>2, <2>2, <3>1 DEF Latched
    <2> QED
      BY <1>1, <2>1, <2>2
  <1> QED
    BY <1>4, <1>5, <1>6, <1>7 DEF AuthInv

\* What is saved was issued, works unless it was revoked, and is not a token that
\* failed in the server that saves it.
LEMMA SaveStep ==
  ASSUME TypeOK, AuthInv, Save
  PROVE  AuthInv'
  <1>1. /\ call.at \in {"refreshed", "exchanged"}
        /\ stored' = [token |-> call.got, valid |-> TRUE]
        /\ lost' = (lost /\ call.got \notin good)
        /\ UNCHANGED <<issued, good>>
        /\ call' = NoCall /\ call'.at = "idle" /\ latch' = None
    BY NoCallFields DEF Save, End
  <1>2. \/ UNCHANGED <<proc, tried>> /\ proc = "server" /\ call.at = "refreshed"
        \/ proc' = "none" /\ tried' = {}
    BY DEF Save, End, TypeOK
  <1>3. /\ call.got \in Token /\ call.got \in 1 .. issued
        /\ ~lost => call.got \in good
    BY <1>1, NoneAssumption DEF AuthInv, InFlight, TypeOK, CallType, Token
  <1>4. stored' # None /\ stored'.token = call.got
    <2>1. call.got \in Nat
      BY <1>3 DEF Token
    <2>2. stored' \in [token : Nat, valid : BOOLEAN]
      BY <1>1, <2>1
    <2> QED
      BY <1>1, <2>2, NoneAssumption
  <1>5. tried' = {} \/ (tried' = tried /\ proc' = "server" /\ call.got \notin tried)
    BY <1>2 DEF AuthInv, Latched
  <1>6. tried' \subseteq 1 .. issued
    BY <1>5 DEF AuthInv, OnlyIssued
  <1>7. OnlyIssued'
    <2>1. stored'.token \in 1 .. issued' /\ good' = good /\ issued' = issued
      BY <1>1, <1>3, <1>4
    <2> QED
      BY <1>6, <2>1 DEF OnlyIssued, AuthInv
  <1>8. InFlight'
    BY <1>1 DEF InFlight
  <1>9. Latched'
    <2>1. proc' = "none" \/ proc' = "server"
      BY <1>2
    <2>2. stored'.token \notin tried'
      BY <1>4, <1>5
    <2>3. proc' = "none" => tried' = {}
      BY <1>2
    <2> QED
      BY <1>1, <2>1, <2>2, <2>3 DEF Latched
  <1>10. StoredTokenWorks'
    BY <1>1, <1>3, <1>4 DEF StoredTokenWorks, TypeOK
  <1> QED
    BY <1>7, <1>8, <1>9, <1>10 DEF AuthInv

LEMMA ExchangeStep ==
  ASSUME TypeOK, AuthInv, Exchange
  PROVE  AuthInv'
  <1>1. /\ call'.at = "exchanged" /\ call'.got = issued + 1
        /\ issued' = issued + 1 /\ good' = good \union {issued + 1}
        /\ call.at = "exchange" /\ issued \in Nat
        /\ UNCHANGED <<stored, proc, latch, tried, lost>>
    BY DEF Exchange, TypeOK, CallType
  <1>2. OnlyIssued'
    BY <1>1 DEF AuthInv, OnlyIssued
  <1>3. InFlight'
    BY <1>1 DEF InFlight
  <1>4. Latched'
    <2>1. proc = "auth"
      BY <1>1 DEF TypeOK
    <2> QED
      BY <1>1, <2>1 DEF AuthInv, Latched
  <1>5. StoredTokenWorks'
    BY <1>1 DEF AuthInv, StoredTokenWorks
  <1> QED
    BY <1>2, <1>3, <1>4, <1>5 DEF AuthInv

\* A token stored under a server is a new one, which cannot have failed in it.
LEMMA ElsewhereStep ==
  ASSUME TypeOK, AuthInv, StoreElsewhere
  PROVE  AuthInv'
  <1>1. /\ call.at = "idle" /\ proc = "server" /\ issued \in Nat
        /\ issued' = issued + 1 /\ good' = good \union {issued + 1}
        /\ ~lost'
        /\ UNCHANGED <<proc, call, latch, tried>>
    BY DEF StoreElsewhere, TypeOK
  <1>2. stored' # None /\ stored'.token = issued + 1
    <2>1. PICK v \in BOOLEAN : stored' = [token |-> issued + 1, valid |-> v]
      BY DEF StoreElsewhere
    <2>2. stored' \in [token : Nat, valid : BOOLEAN]
      BY <1>1, <2>1
    <2> QED
      BY <2>1, <2>2, NoneAssumption
  <1>3. issued + 1 \notin tried
    BY <1>1 DEF AuthInv, OnlyIssued
  <1>4. OnlyIssued'
    BY <1>1, <1>2 DEF AuthInv, OnlyIssued
  <1>5. InFlight'
    BY <1>1 DEF InFlight
  <1>6. Latched'
    BY <1>1, <1>2, <1>3 DEF AuthInv, Latched
  <1>7. StoredTokenWorks'
    BY <1>1, <1>2 DEF StoredTokenWorks
  <1> QED
    BY <1>4, <1>5, <1>6, <1>7 DEF AuthInv

LEMMA AuthStep ==
  ASSUME TypeOK, AuthInv, [Next]_vars
  PROVE  AuthInv'
  <1>1. ASSUME NEW p \in {"server", "auth"}, StartProcess(p) PROVE AuthInv'
    <2>1. proc = "none" /\ call = NoCall /\ latch = None /\ tried = {}
      BY <1>1 DEF StartProcess, AuthInv, Latched
    <2> QED
      BY <1>1, <2>1, NoCallFields DEF StartProcess, AuthInv, OnlyIssued,
         InFlight, Latched, StoredTokenWorks
  <1>2. CASE Stop
    BY <1>2, EndStep DEF Stop
  <1>3. CASE Expire
    <2>1. /\ stored # None /\ stored' = [stored EXCEPT !.valid = FALSE]
          /\ stored.token \in Token
          /\ stored = [token |-> stored.token, valid |-> stored.valid]
          /\ UNCHANGED <<issued, good, proc, call, latch, tried, lost>>
      BY <1>3 DEF Expire, TypeOK
    <2>2. /\ stored'.token = stored.token /\ ~stored'.valid /\ stored' # None
      <3>1. stored' = [token |-> stored.token, valid |-> FALSE]
        BY <2>1
      <3>2. stored.token \in Nat
        BY <2>1 DEF Token
      <3>3. stored' \in [token : Nat, valid : BOOLEAN]
        BY <3>1, <3>2
      <3> QED
        BY <3>1, <3>3, NoneAssumption
    <2> QED
      BY <2>1, <2>2 DEF AuthInv, OnlyIssued, InFlight, Latched, StoredTokenWorks
  <1>4. CASE Revoke
    BY <1>4 DEF Revoke, AuthInv, OnlyIssued, InFlight, Latched, StoredTokenWorks
  <1>5. CASE UseStored
    <2>1. stored # None /\ stored.valid /\ call.at = "idle"
      BY <1>5 DEF UseStored
    <2>2. CASE proc = "server"
      <3>1. /\ latch' = None
            /\ UNCHANGED <<issued, good, stored, proc, call, tried, lost>>
        BY <1>5, <2>2 DEF UseStored
      <3>2. Latched'
        BY <2>1, <2>2, <3>1 DEF AuthInv, Latched
      <3> QED
        BY <3>1, <3>2 DEF AuthInv, OnlyIssued, InFlight, StoredTokenWorks
    <2>3. CASE proc = "auth"
      <3>1. lost' = (lost \/ Replaced)
        BY <1>5, <2>1, NothingReplaced DEF UseStored
      <3> QED
        BY <1>5, <2>3, <3>1, EndStep DEF UseStored
    <2> QED
      BY <1>5, <2>2, <2>3 DEF UseStored
  <1>6. CASE SkipRefresh
    <2>1. call'.at = "authorize"
      BY <1>6 DEF SkipRefresh, TypeOK, CallType
    <2> QED
      BY <1>6, <2>1, LoginStep DEF SkipRefresh
  <1>7. CASE Authorize
    <2>1. call'.at \in {"prompt", "exchange"} /\ proc = "auth"
      BY <1>7 DEF Authorize, TypeOK, CallType
    <2> QED
      BY <1>7, <2>1, LoginStep DEF Authorize
  <1>8. CASE EnterNothing
    <2>1. proc = "auth" /\ call.at = "prompt"
      BY <1>8 DEF EnterNothing, TypeOK
    <2>2. lost' = (lost \/ Replaced)
      BY <1>8, <2>1, NothingReplaced DEF EnterNothing
    <2> QED
      BY <1>8, <2>1, <2>2, NextAttemptType, EndStep, LoginStep DEF EnterNothing
  <1>9. CASE EnterCode
    <2>1. proc = "auth" /\ call.at = "prompt"
      BY <1>9 DEF EnterCode, TypeOK
    <2>2. CASE End
      <3>1. lost' = (lost \/ Replaced)
        BY <1>9, <2>1, NothingReplaced DEF EnterCode
      <3> QED
        BY <1>9, <2>2, <3>1, EndStep DEF EnterCode
    <2>3. CASE ~End
      <3>1. call'.at = "verify" /\ UNCHANGED <<proc, latch, tried>>
        BY <1>9, <2>3 DEF EnterCode, TypeOK, CallType
      <3> QED
        BY <1>9, <2>1, <3>1, LoginStep DEF EnterCode
    <2> QED
      BY <2>2, <2>3
  <1>10. CASE Verified
    <2>1. call'.at = "exchange" /\ proc = "auth"
      BY <1>10 DEF Verified, TypeOK, CallType
    <2> QED
      BY <1>10, <2>1, LoginStep DEF Verified
  <1>11. CASE LoginFails
    <2>1. /\ proc = "auth" /\ call.at # "refreshed"
          /\ UNCHANGED <<issued, good, stored, lost>>
      BY <1>11 DEF LoginFails, TypeOK
    <2>2. lost' = (lost \/ Replaced)
      BY <2>1, NothingReplaced
    <2>3. End \/ NextAttempt
      BY <1>11 DEF LoginFails
    <2> QED
      BY <2>1, <2>2, <2>3, NextAttemptType, EndStep, LoginStep
  <1>12. CASE UNCHANGED vars
    BY <1>12 DEF vars, AuthInv, OnlyIssued, InFlight, Latched, StoredTokenWorks
  <1> QED
    BY <1>1, <1>2, <1>3, <1>4, <1>5, <1>6, <1>7, <1>8, <1>9, <1>10, <1>11, <1>12,
       SendStep, RefreshedStep, RefreshFailsStep, SaveStep, ExchangeStep,
       ElsewhereStep
    DEF Next, CallStep
-----------------------------------------------------------------------------
\* The types are kept, and with them what holds the session and the latch up.
THEOREM AuthInvariant == Spec => [](TypeOK /\ AuthInv)
  <1>1. Init => TypeOK /\ AuthInv
    BY TypeInit, AuthInit
  <1>2. TypeOK /\ AuthInv /\ [Next]_vars => (TypeOK /\ AuthInv)'
    BY TypeStep, AuthStep
  <1> QED
    BY <1>1, <1>2, PTL DEF Spec

\* Tokens, latch and attempts have their types, after any number of restarts.
THEOREM TypeCorrect == Spec => []TypeOK
  BY AuthInvariant, PTL

\* The session survives any number of rotations, failures, logins and restarts: the
\* stored token works unless the session was revoked or a rotated token was lost.
THEOREM SessionSurvives == Spec => []StoredTokenWorks
  <1>1. AuthInv => StoredTokenWorks
    BY DEF AuthInv
  <1> QED
    BY <1>1, AuthInvariant, PTL

\* A process never sends a refresh token again that has failed in it.
THEOREM TokenTriedOnce == Spec => OneAttemptPerToken
  <1>1. TypeOK /\ AuthInv /\ [Next]_vars =>
          [call.at = "idle" /\ call'.at = "refresh" => stored.token \notin tried]_vars
    <2> SUFFICES ASSUME TypeOK, AuthInv, Next,
                        call.at = "idle", call'.at = "refresh",
                        stored.token \in tried
                 PROVE  FALSE
      OBVIOUS
    <2>1. ASSUME SendRefresh PROVE FALSE
      <3>1. proc \in {"server", "auth"} /\ stored # None
        BY <2>1 DEF SendRefresh, TypeOK
      <3>2. proc = "server" /\ latch = stored.token
        BY <3>1 DEF AuthInv, Latched
      <3> QED
        BY <2>1, <3>2 DEF SendRefresh
    <2>2. ~SkipRefresh
      BY DEF SkipRefresh, TypeOK, CallType
    <2>3. \/ \E p \in {"server", "auth"} : StartProcess(p)
          \/ Stop \/ Expire \/ Revoke \/ StoreElsewhere
          \/ UseStored \/ RefreshFails \/ Save \/ EnterNothing \/ EnterCode
          \/ LoginFails
      BY <2>1, <2>2 DEF Next, CallStep, Refreshed, Authorize, Verified,
         Exchange
    <2>4. CASE LoginFails \/ EnterNothing \/ EnterCode
      BY <2>4 DEF LoginFails, EnterNothing, EnterCode
    <2> QED
      BY <2>3, <2>4, NoCallFields DEF StartProcess, Stop, End, Expire, Revoke,
         StoreElsewhere, UseStored, RefreshFails, Save
  <1> QED
    BY <1>1, AuthInvariant, PTL DEF Spec, OneAttemptPerToken
=============================================================================
