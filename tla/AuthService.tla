---------------------------- MODULE AuthService ----------------------------
(***************************************************************************)
(* The token of the Simplifi session: SimplifiAuthService                  *)
(* (src/src/simplifi/auth-service.ts) as the server and the operator's     *)
(* auth command (src/src/commands) use it.                                 *)
(*                                                                         *)
(* A refresh token can be spent once: upstream answers a refresh with the  *)
(* token that replaces it, and an answer that is lost, or not saved, takes *)
(* the session with it.  The server must not try a token that failed again *)
(* and again, must try one that was stored since, and a login must end.    *)
(*                                                                         *)
(* Both processes call only while they hold the cache lease, and the       *)
(* server makes one call at a time, so that there is one process and one   *)
(* call here (CacheLease!AtMostOneWriter, RefreshCoordinator!              *)
(* OneJobAtATime).  A server without a token to use or to try throws       *)
(* before it has changed anything, and takes no step here; nor does an     *)
(* auth command that the lease of a server turns away.                     *)
(***************************************************************************)
EXTENDS Naturals

CONSTANTS
  None,         \* no token
  MaxAttempts,  \* MAX_CODE_ATTEMPTS
  MaxIssued     \* bound: refresh tokens issued upstream, named 1, 2, ...

ASSUME NoneAssumption == None \notin Nat \union [token : Nat, valid : BOOLEAN]
ASSUME BoundAssumption == MaxAttempts \in Nat \ {0} /\ MaxIssued \in Nat

VARIABLES
  issued,  \* external: the last refresh token upstream has issued
  good,    \* external: the refresh tokens it accepts
  stored,  \* the row of simplifi_tokens: a refresh token, and whether the
           \* access token that came with it has not expired yet
  proc,    \* the process that holds the lease
  call,    \* its call in progress, with the challenge of a login
  latch,   \* refreshFailure: the token whose refresh failed
  tried,   \* history: the tokens whose refresh failed in this process
  lost     \* history: the answer that replaced the stored token was lost or not
           \* saved, or the session was revoked

vars == <<issued, good, stored, proc, call, latch, tried, lost>>

(***************************************************************************)
(* token is the stored token the call began with, got the one upstream     *)
(* answered with, attempts counts the codes asked for, and challenge is    *)
(* what upstream knows of the MFA challenge.                               *)
(***************************************************************************)
NoCall == [at |-> "idle", token |-> None, got |-> None, attempts |-> 0,
           challenge |-> "none"]

Init ==
  /\ issued = 0 /\ good = {}
  /\ stored = None
  /\ proc = "none" /\ call = NoCall
  /\ latch = None
  /\ tried = {} /\ lost = FALSE
-----------------------------------------------------------------------------
\* The server becomes the writer, or the operator runs `npm run auth`.
StartProcess(p) ==
  /\ proc = "none"
  /\ proc' = p
  /\ UNCHANGED <<issued, good, stored, call, latch, tried, lost>>

\* What is left of a process that has ended: nothing it had in memory.
End ==
  /\ proc' = "none" /\ call' = NoCall
  /\ latch' = None /\ tried' = {}

\* The answer to a refresh has replaced the stored token, and is not saved yet.
Replaced == call.at = "refreshed" /\ call.got # call.token

\* Stopped, or killed: an answer it has not saved is lost with it.
Stop ==
  /\ proc # "none"
  /\ End
  /\ lost' = (lost \/ Replaced)
  /\ UNCHANGED <<issued, good, stored>>

\* External: time passes for the access token; the session is revoked.
Expire ==
  /\ stored # None /\ stored.valid
  /\ stored' = [stored EXCEPT !.valid = FALSE]
  /\ UNCHANGED <<issued, good, proc, call, latch, tried, lost>>

Revoke ==
  /\ good # {}
  /\ good' = {} /\ lost' = TRUE
  /\ UNCHANGED <<issued, stored, proc, call, latch, tried>>

\* External: what the lease normally excludes, another process stores a token
\* between two calls of the server: a second writer (CacheLease), or the operator's
\* process as no-server-side-login.test.ts has it.
StoreElsewhere ==
  /\ issued < MaxIssued
  /\ proc = "server" /\ call.at = "idle"
  /\ issued' = issued + 1 /\ good' = good \union {issued + 1}
  /\ \E v \in BOOLEAN : stored' = [token |-> issued + 1, valid |-> v]
  /\ lost' = FALSE
  /\ UNCHANGED <<proc, call, latch, tried>>
-----------------------------------------------------------------------------
\* getAccessToken, attemptLogin: a token that has not expired will do.
UseStored ==
  /\ proc # "none" /\ call.at = "idle"
  /\ stored # None /\ stored.valid
  /\ \/ /\ proc = "server"
        /\ latch' = None
        /\ UNCHANGED <<proc, call, tried>>
     \/ /\ proc = "auth"
        /\ End
  /\ UNCHANGED <<issued, good, stored, lost>>

\* An expired one is refreshed; only the server has a latch to ask first.
M_LatchAll ==
  /\ proc # "none" /\ call.at = "idle"
  /\ stored # None /\ ~stored.valid
  /\ proc = "server" => latch = None
  /\ call' = [call EXCEPT !.at = "refresh", !.token = stored.token]
  /\ UNCHANGED <<issued, good, stored, proc, latch, tried, lost>>
SendRefresh ==
  /\ proc # "none" /\ call.at = "idle"
  /\ stored # None /\ ~stored.valid
  /\ proc = "server" => latch # stored.token
  /\ call' = [call EXCEPT !.at = "refresh", !.token = stored.token]
  /\ UNCHANGED <<issued, good, stored, proc, latch, tried, lost>>

\* External: the token comes back, or is replaced for good.
Refreshed ==
  /\ call.at = "refresh" /\ call.token \in good
  /\ \E t \in {call.token, issued + 1} :
       /\ t <= MaxIssued
       /\ issued' = IF t = call.token THEN issued ELSE t
       /\ good' = (good \ {call.token}) \union {t}
       /\ call' = [call EXCEPT !.at = "refreshed", !.got = t]
  /\ UNCHANGED <<stored, proc, latch, tried, lost>>

\* Rejected, or timed out, or answered and not understood or not saved: the
\* server latches the token, the auth command goes on to a password login.
M_LatchRejected ==
  /\ call.at \in {"refresh", "refreshed"}
  /\ \/ /\ proc = "server"
        /\ latch' = IF call.token \in good THEN latch ELSE call.token
        /\ call' = NoCall
     \/ /\ proc = "auth"
        /\ call' = [call EXCEPT !.at = "authorize"]
        /\ UNCHANGED latch
  /\ tried' = tried \union {call.token}
  /\ lost' = (lost \/ Replaced)
  /\ UNCHANGED <<issued, good, stored, proc>>
RefreshFails ==
  /\ call.at \in {"refresh", "refreshed"}
  /\ \/ /\ proc = "server"
        /\ latch' = call.token
        /\ call' = NoCall
     \/ /\ proc = "auth"
        /\ call' = [call EXCEPT !.at = "authorize"]
        /\ UNCHANGED latch
  /\ tried' = tried \union {call.token}
  /\ lost' = (lost \/ Replaced)
  /\ UNCHANGED <<issued, good, stored, proc>>

\* saveSimplifiTokens, after a refresh or a login.
M_SaveAccess ==
  /\ call.at \in {"refreshed", "exchanged"}
  /\ stored' = [token |-> IF stored = None THEN call.got ELSE stored.token,
                valid |-> TRUE]
  /\ lost' = (lost /\ call.got \notin good)
  /\ \/ /\ proc = "server"
        /\ latch' = None /\ call' = NoCall
        /\ UNCHANGED <<proc, tried>>
     \/ /\ proc = "auth"
        /\ End
  /\ UNCHANGED <<issued, good>>
Save ==
  /\ call.at \in {"refreshed", "exchanged"}
  /\ stored' = [token |-> call.got, valid |-> TRUE]
  /\ lost' = (lost /\ call.got \notin good)
  /\ \/ /\ proc = "server"
        /\ latch' = None /\ call' = NoCall
        /\ UNCHANGED <<proc, tried>>
     \/ /\ proc = "auth"
        /\ End
  /\ UNCHANGED <<issued, good>>
-----------------------------------------------------------------------------
\* attemptLogin without a token to refresh.
SkipRefresh ==
  /\ proc = "auth" /\ call.at = "idle"
  /\ stored = None
  /\ call' = [call EXCEPT !.at = "authorize"]
  /\ UNCHANGED <<issued, good, stored, proc, latch, tried, lost>>

\* callAuthorize with the password: a challenge, 202, or at once a code.
Authorize ==
  /\ call.at = "authorize"
  /\ \/ call' = [call EXCEPT !.at = "prompt", !.challenge = "open"]
     \/ call' = [call EXCEPT !.at = "exchange"]
  /\ UNCHANGED <<issued, good, stored, proc, latch, tried, lost>>

\* The next round of the prompt, or the end of the command.
M_NextAttempt ==
  IF call.attempts + 1 > MaxAttempts THEN End
  ELSE /\ call' = [call EXCEPT !.at = "prompt", !.attempts = @ + 1]
       /\ UNCHANGED <<proc, latch, tried>>
M_Uncounted ==
  /\ call' = [call EXCEPT !.at = "prompt"]
  /\ UNCHANGED <<proc, latch, tried>>
NextAttempt ==
  IF call.attempts + 1 = MaxAttempts THEN End
  ELSE /\ call' = [call EXCEPT !.at = "prompt", !.attempts = @ + 1]
       /\ UNCHANGED <<proc, latch, tried>>

\* At the prompt: nothing, which counts, or a code.
EnterNothing ==
  /\ call.at = "prompt"
  /\ NextAttempt
  /\ UNCHANGED <<issued, good, stored, lost>>

\* completeMfaLogin: the pending challenge is ten minutes old, or goes upstream.
EnterCode ==
  /\ call.at = "prompt"
  /\ \/ End
     \/ /\ call' = [call EXCEPT !.at = "verify"]
        /\ UNCHANGED <<proc, latch, tried>>
  /\ UNCHANGED <<issued, good, stored, lost>>

\* External: an accepted code spends the challenge.
Verified ==
  /\ call.at = "verify" /\ call.challenge = "open"
  /\ call' = [call EXCEPT !.at = "exchange", !.challenge = "spent"]
  /\ UNCHANGED <<issued, good, stored, proc, latch, tried, lost>>

\* exchangeAuthorizationCode.
Exchange ==
  /\ call.at = "exchange" /\ issued < MaxIssued
  /\ issued' = issued + 1
  /\ good' = good \union {issued + 1}
  /\ call' = [call EXCEPT !.at = "exchanged", !.got = issued + 1]
  /\ UNCHANGED <<stored, proc, latch, tried, lost>>

\* Rejected, timed out, not understood, not saved: without a challenge the
\* command throws; under one the prompt comes again, unless the text of the error,
\* which quotes upstream, reads like a challenge that is gone (isChallengeGone).
LoginFails ==
  /\ call.at \in {"authorize", "verify", "exchange", "exchanged"}
  /\ \/ call.challenge # "none" /\ NextAttempt
     \/ End
  /\ UNCHANGED <<issued, good, stored, lost>>

CallStep ==
  \/ UseStored \/ SendRefresh \/ Refreshed \/ RefreshFails \/ Save
  \/ SkipRefresh \/ Authorize \/ EnterNothing \/ EnterCode
  \/ Verified \/ Exchange \/ LoginFails

Next ==
  \/ \E p \in {"server", "auth"} : StartProcess(p)
  \/ Stop \/ Expire \/ Revoke \/ StoreElsewhere \/ CallStep

Spec == Init /\ [][Next]_vars

\* The interval and the tools go on calling, and every request is answered or
\* times out.
LiveSpec == Spec /\ WF_vars(CallStep)
-----------------------------------------------------------------------------
Token == 1 .. MaxIssued

CallType ==
  [at : {"idle", "refresh", "refreshed", "authorize", "prompt", "verify",
         "exchange", "exchanged"},
   token : Token \union {None}, got : Token \union {None},
   attempts : 0 .. MaxAttempts - 1, challenge : {"none", "open", "spent"}]

\* Type invariant; MAX_CODE_ATTEMPTS codes are asked for under a challenge, and
\* only the auth command ever logs in.
TypeOK ==
  /\ issued \in 0 .. MaxIssued /\ good \subseteq Token
  /\ stored \in [token : Token, valid : BOOLEAN] \union {None}
  /\ proc \in {"none", "server", "auth"} /\ call \in CallType
  /\ latch \in Token \union {None}
  /\ tried \subseteq Token /\ lost \in BOOLEAN
  /\ call.at \in {"authorize", "prompt", "verify", "exchange", "exchanged"} =>
       proc = "auth"

\* The session survives: short of a revocation, or a rotation whose answer is
\* lost or not saved, the stored token is one upstream accepts, whatever failed
\* and however often.
StoredTokenWorks ==
  ~lost /\ call.at # "refreshed" => stored = None \/ stored.token \in good

\* "A dead refresh token means one upstream auth attempt per tick" is what the
\* latch prevents: a process never sends a token again whose refresh has failed
\* in it, whatever the failure was.
OneAttemptPerToken ==
  [][call.at = "idle" /\ call'.at = "refresh" => stored.token \notin tried]_vars

\* "A successful operator login writes a different token, which re-arms it": the
\* latch is one of a token, so that a latched server under which another one is
\* stored uses or tries that one.
Rearms ==
  proc = "server" /\ latch # None /\ stored.token # latch
    ~> proc # "server" \/ latch = None \/ latch = stored.token

\* The auth command ends, however the codes and the requests turn out.
AuthEnds == proc = "auth" ~> proc # "auth"
-----------------------------------------------------------------------------
(***************************************************************************)
(* Why the session survives, and why the latch holds.                      *)
(***************************************************************************)
OnlyIssued ==
  /\ good \subseteq 1 .. issued /\ tried \subseteq 1 .. issued
  /\ stored # None => stored.token \in 1 .. issued

\* The stored token stays, expired, while its refresh is under way; an answer not
\* saved yet is the token itself or a new one, and works unless it was revoked.
InFlight ==
  /\ call.at \in {"refresh", "refreshed"} =>
       stored # None /\ ~stored.valid /\ call.token = stored.token
  /\ call.at \in {"refreshed", "exchanged"} => call.got \in 1 .. issued
  /\ call.at \in {"refreshed", "exchanged"} /\ ~lost => call.got \in good

\* A token that failed in a server is latched for as long as it is stored; an
\* auth command whose refresh has failed is past the refresh for good.
Latched ==
  /\ proc = "none" => call = NoCall /\ latch = None /\ tried = {}
  /\ proc = "auth" => latch = None
  /\ proc = "auth" /\ tried # {} => call.at \notin {"idle", "refresh", "refreshed"}
  /\ proc = "server" /\ stored # None /\ stored.token \in tried =>
       latch = stored.token /\ ~stored.valid /\ call.at = "idle"
  /\ proc = "server" /\ call.at = "refreshed" => call.got \notin tried
  /\ latch # None => latch \in tried /\ stored # None

\* Together inductive.
AuthInv == /\ OnlyIssued
           /\ InFlight
           /\ Latched
           /\ StoredTokenWorks
=============================================================================
