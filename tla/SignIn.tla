-------------------------------- MODULE SignIn --------------------------------
(***************************************************************************)
(* Signing in at the anchor (lib/anchor: sep1.ts, sep10.ts,                *)
(* token-store.ts, http.ts).  A call is one withFreshToken(): discover the *)
(* anchor, take the cached token or obtain one with a signature, make the  *)
(* request, and once, if the anchor refuses the token, sign in again and   *)
(* repeat the request.  The wallet's part is a signature, given or not.    *)
(***************************************************************************)
EXTENDS Accounts, Naturals

CONSTANTS Holder,   \* the accounts that sign in
          Flow,     \* names for calls in flight
          Token     \* names for tokens; a name nobody holds is used again

ASSUME SignInAssumption == Holder \subseteq Account

VARIABLES config,   \* the discovered anchor, cached for the life of the page
          calls,    \* per flow: the call and what it waits for
          tokens,   \* the cache: account to token
          spent,    \* tokens within the skew of their expiry, or past it
          dead      \* external: tokens the anchor no longer accepts

signInVars == <<config, calls, tokens, spent, dead>>

Endpoint == {"auth", "transfer", "quote"}
\* stellar.toml: are all fields there, for which network and issuer, and
\* which endpoints are served over https?
Toml == [complete: BOOLEAN, network: {"testnet", "other"}, issuer: {"pinned", "other"},
         https: SUBSET Endpoint]
Remote == {"challenge", "exchange", "call"}
\* `reading`: the headers of the answer have arrived; `renewed`: the token was
\* signed for in this call, after the last refusal.
Call == [stage: Remote \cup {"idle", "discover", "sign", "refused"}, account: Address,
         token: Token \cup {None}, tries: 0..2, reading: BOOLEAN, renewed: BOOLEAN]
NoCall == [stage |-> "idle", account |-> None, token |-> None, tries |-> 0,
           reading |-> FALSE, renewed |-> FALSE]

SignInTypeOK ==
    /\ config \in Toml \cup {None}
    /\ calls \in [Flow -> Call]
    /\ tokens \in [Holder -> Token \cup {None}]
    /\ spent \subseteq Token /\ dead \subseteq Token

SignInInit ==
    /\ config = None
    /\ calls = [f \in Flow |-> NoCall]
    /\ tokens = [a \in Holder |-> None]
    /\ spent = {} /\ dead = {}

Calling(f, next) == calls' = [calls EXCEPT ![f] = next]

(***************************************************************************)
(* discover(), and authenticate() up to its first await, which takes the   *)
(* cached token or forgets it and asks for a challenge.                    *)
(***************************************************************************)
Acceptable(toml) == toml.complete /\ toml.network = "testnet" /\ toml.issuer = "pinned"
                    /\ toml.https = Endpoint

Authenticate(f, call, cache, force) ==
    LET cached == IF force \/ cache[call.account] \in spent THEN None ELSE cache[call.account]
        next == [call EXCEPT !.token = cached, !.reading = FALSE,
                             !.stage = IF cached = None THEN "challenge" ELSE "call"]
    IN Calling(f, next) /\ tokens' = [cache EXCEPT ![call.account] = cached]

StartCall(f) ==
    /\ calls[f] = NoCall
    /\ \E a \in Holder :
          LET call == [NoCall EXCEPT !.account = a, !.tries = 1]
          IN IF config = None
             THEN Calling(f, [call EXCEPT !.stage = "discover"]) /\ UNCHANGED tokens
             ELSE Authenticate(f, call, tokens, FALSE)
    /\ UNCHANGED <<config, spent, dead>>

Discovered(f) ==
    /\ calls[f].stage = "discover"
    /\ \E toml \in Toml :
          IF Acceptable(toml)
          THEN config' = toml /\ Authenticate(f, calls[f], tokens, FALSE)
          ELSE Calling(f, NoCall) /\ UNCHANGED <<config, tokens>>
    /\ UNCHANGED <<spent, dead>>

(***************************************************************************)
(* anchorRequest().  Timeout and abort reach a request until its headers   *)
(* arrive; the body is then read without either.                           *)
(***************************************************************************)
HeadersArrive(f) ==
    /\ calls[f].stage \in Remote /\ ~calls[f].reading
    /\ Calling(f, [calls[f] EXCEPT !.reading = TRUE])
    /\ UNCHANGED <<config, tokens, spent, dead>>

\* No answer in time, aborted, an error status, or a body without meaning;
\* a challenge that is not this anchor's or not for this account.
RequestFails(f) ==
    /\ calls[f].stage \in Remote \cup {"discover"}
    /\ Calling(f, NoCall)
    /\ UNCHANGED <<config, tokens, spent, dead>>

\* validateChallenge has passed: the wallet is asked.
ChallengeAnswered(f) ==
    /\ calls[f].stage = "challenge" /\ calls[f].reading
    /\ Calling(f, [calls[f] EXCEPT !.stage = "sign"])
    /\ UNCHANGED <<config, tokens, spent, dead>>

ChallengeSigned(f) ==
    /\ calls[f].stage = "sign"
    /\ \/ Calling(f, [calls[f] EXCEPT !.stage = "exchange", !.reading = FALSE])
       \/ Calling(f, NoCall)
    /\ UNCHANGED <<config, tokens, spent, dead>>

FreeToken(t) == t \notin {tokens[a] : a \in Holder} \cup {calls[f].token : f \in Flow}

\* exchangeChallenge and storeToken.
TokenIssued(f) ==
    /\ calls[f].stage = "exchange" /\ calls[f].reading
    /\ \E t \in Token :
          /\ FreeToken(t)
          /\ tokens' = [tokens EXCEPT ![calls[f].account] = t]
          /\ Calling(f, [calls[f] EXCEPT !.stage = "call", !.token = t, !.renewed = TRUE,
                                         !.reading = FALSE])
          /\ spent' = spent \ {t} /\ dead' = dead \ {t}
    /\ UNCHANGED config

CallAccepted(f) ==
    /\ calls[f].stage = "call" /\ calls[f].reading /\ calls[f].token \notin dead
    /\ Calling(f, NoCall)
    /\ UNCHANGED <<config, tokens, spent, dead>>

\* Faulty variant: the cache is asked again.
ReauthenticateFromCache(f, call) == Authenticate(f, call, tokens, FALSE)

\* What a refusal leads to: the token is forgotten, and the call signs again.
Reauthenticate(f, call) ==
    Authenticate(f, call, [tokens EXCEPT ![call.account] = None], TRUE)

\* Faulty variant: signing in again for as long as the anchor refuses.
MayRetryForever(call) == call.tries \in {1, 2}

MayRetry(call) == call.tries = 1

\* 403 authentication_required.
CallRefused(f) ==
    /\ calls[f].stage = "call" /\ calls[f].reading /\ calls[f].token \in dead
    /\ IF MayRetry(calls[f])
       THEN Reauthenticate(f, [calls[f] EXCEPT !.tries = 2, !.renewed = FALSE])
       ELSE Calling(f, [calls[f] EXCEPT !.stage = "refused"]) /\ UNCHANGED tokens
    /\ UNCHANGED <<config, spent, dead>>

\* The page shows the refusal.
CallEnds(f) ==
    /\ calls[f].stage = "refused"
    /\ Calling(f, NoCall)
    /\ UNCHANGED <<config, tokens, spent, dead>>

\* Time passes, and the anchor ends a session when it likes.
TokenSpent(t) == t \in {tokens[a] : a \in Holder} \ spent /\ spent' = spent \cup {t}
                 /\ UNCHANGED <<config, calls, tokens, dead>>
TokenDies(t) == t \notin dead /\ ~FreeToken(t) /\ dead' = dead \cup {t}
                /\ UNCHANGED <<config, calls, tokens, spent>>

CallStep(f) ==
    Discovered(f) \/ HeadersArrive(f) \/ RequestFails(f) \/ ChallengeAnswered(f)
    \/ ChallengeSigned(f) \/ TokenIssued(f) \/ CallAccepted(f) \/ CallRefused(f) \/ CallEnds(f)

SignInNext == \/ \E f \in Flow : StartCall(f) \/ CallStep(f)
              \/ \E t \in Token : TokenSpent(t) \/ TokenDies(t)

\* Promises settle: requests end, and the user answers a prompt.
SignInFairness == \A f \in Flow : WF_signInVars(CallStep(f))

\* SYSTEM.md:1414: the refusal of a token surfaces only when a token that was
\* signed for after the first refusal is refused as well.
RefusalOnlyAfterFreshSignature ==
    \A f \in Flow : calls[f].stage = "refused" => calls[f].renewed

\* A session that the anchor ends again and again costs a call one more round,
\* not an endless one: every call ends, whatever the anchor answers.
CallsEnd == \A f \in Flow : (calls[f] # NoCall) ~> (calls[f] = NoCall)
=============================================================================
