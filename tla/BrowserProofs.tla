---------------------------- MODULE BrowserProofs ----------------------------
(***************************************************************************)
(* Proofs about the browser's components, for any number of accounts,      *)
(* attempts to connect, requests for a signature, calls of the anchor and  *)
(* tokens: they keep to their types, a refusal by the anchor is shown only *)
(* after a fresh signature, and a session never becomes another account's. *)
(***************************************************************************)
EXTENDS MCBrowser, ScanProofs

-----------------------------------------------------------------------------
(* Signing in at the anchor *)

\* What a call carries in each stage: an account from its start; a token that was
\* signed for in this call, once the first one has been refused.
CallFits(call) ==
    /\ call \in Call
    /\ call.stage # "idle" => call.account \in Holder
    /\ call.stage = "discover" => call.tries = 1
    /\ call.stage = "call" /\ call.tries # 1 => call.renewed
    /\ call.stage = "refused" => call.renewed

SignInInv == SignInTypeOK /\ \A f \in Flow : CallFits(calls[f])

LEMMA NoCallFits == CallFits(NoCall)
  BY DEF CallFits, NoCall, Call, Address

\* One call changes, and it is one that fits.
LEMMA OneCallChanges ==
    ASSUME SignInInv, NEW f \in Flow, NEW next, Calling(f, next), CallFits(next),
           (config \in Toml \cup {None})', (tokens \in [Holder -> Token \cup {None}])',
           spent' \subseteq Token, dead' \subseteq Token
    PROVE  SignInInv'
<1>1. calls' = [calls EXCEPT ![f] = next] /\ calls \in [Flow -> Call]
  BY DEF Calling, SignInInv, SignInTypeOK
<1>2. calls' \in [Flow -> Call]
  BY <1>1 DEF CallFits
<1>3. \A g \in Flow : CallFits(calls[g])'
  BY <1>1 DEF SignInInv, CallFits
<1> QED
  BY <1>2, <1>3 DEF SignInInv, SignInTypeOK

\* A call that takes the cached token or asks for a challenge.
LEMMA AuthenticateFits ==
    ASSUME SignInInv, NEW f \in Flow, NEW call \in Call, call.account \in Holder,
           NEW cache \in [Holder -> Token \cup {None}], NEW force \in BOOLEAN,
           force \/ call.tries = 1,
           Authenticate(f, call, cache, force), (config \in Toml \cup {None})',
           spent' \subseteq Token, dead' \subseteq Token
    PROVE  SignInInv'
<1> DEFINE cached == IF force \/ cache[call.account] \in spent THEN None ELSE cache[call.account]
           next == [call EXCEPT !.token = cached, !.reading = FALSE,
                                !.stage = IF cached = None THEN "challenge" ELSE "call"]
<1>1. Calling(f, next) /\ tokens' = [cache EXCEPT ![call.account] = cached]
  BY DEF Authenticate
<1>2. cached \in Token \cup {None} /\ (force => cached = None)
  OBVIOUS
<1> HIDE DEF cached
<1>3. tokens' \in [Holder -> Token \cup {None}]
  BY <1>1, <1>2
<1>4. next \in Call /\ next.account = call.account /\ next.tries = call.tries
      /\ next.stage = IF cached = None THEN "challenge" ELSE "call"
  BY <1>2 DEF Call, Remote
<1> HIDE DEF next
<1>5. CallFits(next)
  BY <1>2, <1>4 DEF CallFits
<1> QED
  BY <1>1, <1>3, <1>5, OneCallChanges

\* What a call is set to where it starts, and where it is tried again.
LEMMA SetsFit ==
    ASSUME NEW call \in Call, NEW a \in Address
    PROVE  [call EXCEPT !.account = a, !.tries = 1] \in Call
<1> DEFINE r == [call EXCEPT !.account = a]
<1>1. r \in Call
  BY DEF Call
<1> HIDE DEF r
<1>2. [r EXCEPT !.tries = 1] \in Call
  BY <1>1 DEF Call
<1> QED
  BY <1>2 DEF r

LEMMA TriesAgainFits ==
    ASSUME NEW call \in Call
    PROVE  [call EXCEPT !.tries = 2, !.renewed = FALSE] \in Call
<1> DEFINE r == [call EXCEPT !.tries = 2]
<1>1. r \in Call
  BY DEF Call
<1> HIDE DEF r
<1>2. [r EXCEPT !.renewed = FALSE] \in Call
  BY <1>1 DEF Call
<1> QED
  BY <1>2 DEF r

LEMMA CallKeepsFitting ==
    ASSUME SignInInv, NEW f \in Flow, StartCall(f) \/ CallStep(f) PROVE SignInInv'
<1> DEFINE call == calls[f]
<1>0. /\ config \in Toml \cup {None} /\ tokens \in [Holder -> Token \cup {None}]
      /\ spent \subseteq Token /\ dead \subseteq Token
      /\ call \in Call /\ CallFits(call)
  BY DEF SignInInv, SignInTypeOK
<1>1. CASE StartCall(f)
  <2>1. PICK a \in Holder :
          LET begun == [NoCall EXCEPT !.account = a, !.tries = 1]
          IN IF config = None
             THEN Calling(f, [begun EXCEPT !.stage = "discover"]) /\ UNCHANGED tokens
             ELSE Authenticate(f, begun, tokens, FALSE)
    BY <1>1 DEF StartCall
  <2> DEFINE begun == [NoCall EXCEPT !.account = a, !.tries = 1]
             asking == [begun EXCEPT !.stage = "discover"]
  <2>2. begun \in Call /\ begun.account = a /\ begun.tries = 1
    <3>1. NoCall \in Call /\ a \in Address
      BY NoCallFits, SignInAssumption DEF CallFits, Address
    <3>2. begun \in Call
      BY <3>1, SetsFit
    <3>3. begun.account = a /\ begun.tries = 1
      BY <3>1 DEF Call
    <3> QED
      BY <3>2, <3>3
  <2>3. asking \in Call /\ asking.account = a /\ asking.tries = 1 /\ asking.stage = "discover"
    BY <2>2 DEF Call
  <2>4. UNCHANGED <<config, spent, dead>>
    BY <1>1 DEF StartCall
  <2>5. CASE config = None
    <3>1. Calling(f, asking) /\ tokens' = tokens
      BY <2>1, <2>5
    <3> HIDE DEF asking
    <3>2. CallFits(asking)
      BY <2>3 DEF CallFits
    <3> QED
      BY <1>0, <2>4, <3>1, <3>2, OneCallChanges
  <2>6. CASE config # None
    <3>1. Authenticate(f, begun, tokens, FALSE)
      BY <2>1, <2>6
    <3> HIDE DEF begun
    <3> QED
      BY <1>0, <2>2, <2>4, <3>1, AuthenticateFits
  <2> QED
    BY <2>5, <2>6, Zenon
<1>2. CASE Discovered(f)
  <2>1. call.account \in Holder /\ call.tries = 1
    BY <1>0, <1>2 DEF Discovered, CallFits
  <2>2. PICK toml \in Toml :
          IF Acceptable(toml)
          THEN config' = toml /\ Authenticate(f, calls[f], tokens, FALSE)
          ELSE Calling(f, NoCall) /\ UNCHANGED <<config, tokens>>
    BY <1>2 DEF Discovered
  <2>3. UNCHANGED <<spent, dead>>
    BY <1>2 DEF Discovered
  <2> HIDE DEF call
  <2>4. CASE Acceptable(toml)
    BY <1>0, <2>1, <2>2, <2>3, <2>4, AuthenticateFits DEF call
  <2>5. CASE ~Acceptable(toml)
    BY <1>0, <2>2, <2>3, <2>5, NoCallFits, OneCallChanges
  <2> QED
    BY <2>4, <2>5
<1>3. CASE HeadersArrive(f)
  <2> DEFINE next == [calls[f] EXCEPT !.reading = TRUE]
  <2>1. CallFits(next)
    BY <1>0 DEF CallFits, Call
  <2> QED
    BY <1>0, <1>3, <2>1, OneCallChanges DEF HeadersArrive
<1>4. CASE RequestFails(f) \/ CallAccepted(f) \/ CallEnds(f)
  BY <1>0, <1>4, NoCallFits, OneCallChanges DEF RequestFails, CallAccepted, CallEnds
<1>5. CASE ChallengeAnswered(f)
  <2> DEFINE next == [calls[f] EXCEPT !.stage = "sign"]
  <2>1. CallFits(next)
    BY <1>0, <1>5 DEF CallFits, Call, ChallengeAnswered
  <2> QED
    BY <1>0, <1>5, <2>1, OneCallChanges DEF ChallengeAnswered
<1>6. CASE ChallengeSigned(f)
  <2> DEFINE next == [calls[f] EXCEPT !.stage = "exchange", !.reading = FALSE]
  <2>1. CallFits(next)
    BY <1>0, <1>6 DEF CallFits, Call, Remote, ChallengeSigned
  <2> QED
    BY <1>0, <1>6, <2>1, NoCallFits, OneCallChanges DEF ChallengeSigned
<1>7. CASE TokenIssued(f)
  <2>1. PICK t \in Token :
          /\ tokens' = [tokens EXCEPT ![calls[f].account] = t]
          /\ Calling(f, [calls[f] EXCEPT !.stage = "call", !.token = t, !.renewed = TRUE, !.reading = FALSE])
          /\ spent' = spent \ {t} /\ dead' = dead \ {t}
    BY <1>7 DEF TokenIssued
  <2> DEFINE next == [calls[f] EXCEPT !.stage = "call", !.token = t, !.renewed = TRUE, !.reading = FALSE]
  <2>2. CallFits(next)
    BY <1>0, <1>7 DEF CallFits, Call, Remote, TokenIssued
  <2>3. tokens' \in [Holder -> Token \cup {None}] /\ config' = config
    BY <1>0, <1>7, <2>1 DEF TokenIssued
  <2> QED
    BY <1>0, <2>1, <2>2, <2>3, OneCallChanges
<1>8. CASE CallRefused(f)
  <2>1. call.stage = "call" /\ UNCHANGED <<config, spent, dead>>
    BY <1>8 DEF CallRefused
  <2>2. CASE MayRetry(calls[f])
    <3> DEFINE again == [calls[f] EXCEPT !.tries = 2, !.renewed = FALSE]
               cache == [tokens EXCEPT ![again.account] = None]
    <3>1. again \in Call /\ again.account \in Holder
      <4>1. calls[f] \in Call /\ calls[f].account \in Holder
        BY <1>0, <2>1 DEF CallFits
      <4>2. again \in Call
        BY <4>1, TriesAgainFits
      <4>3. again.account = calls[f].account
        BY <4>1 DEF Call
      <4> QED
        BY <4>1, <4>2, <4>3
    <3>2. cache \in [Holder -> Token \cup {None}]
      BY <1>0
    <3>3. Authenticate(f, again, cache, TRUE)
      BY <1>8, <2>2 DEF CallRefused, Reauthenticate
    <3> HIDE DEF again, cache
    <3> QED
      BY <1>0, <2>1, <3>1, <3>2, <3>3, AuthenticateFits
  <2>3. CASE ~MayRetry(calls[f])
    <3> DEFINE next == [calls[f] EXCEPT !.stage = "refused"]
    <3>1. CallFits(next)
      BY <1>0, <2>1, <2>3 DEF CallFits, Call, MayRetry
    <3> QED
      BY <1>0, <1>8, <2>1, <2>3, <3>1, OneCallChanges DEF CallRefused
  <2> QED
    BY <2>2, <2>3
<1> QED
  BY <1>1, <1>2, <1>3, <1>4, <1>5, <1>6, <1>7, <1>8 DEF CallStep

LEMMA SignInInitInv == SignInInit => SignInInv
  BY NoCallFits DEF SignInInit, SignInInv, SignInTypeOK, CallFits

LEMMA SignInNextInv == SignInInv /\ (SignInNext \/ UNCHANGED signInVars) => SignInInv'
<1> SUFFICES ASSUME SignInInv, SignInNext \/ UNCHANGED signInVars PROVE SignInInv'
  OBVIOUS
<1>1. ASSUME NEW t \in Token, TokenSpent(t) \/ TokenDies(t) PROVE SignInInv'
  BY <1>1 DEF TokenSpent, TokenDies, SignInInv, SignInTypeOK, CallFits
<1>2. CASE UNCHANGED signInVars
  BY <1>2 DEF signInVars, SignInInv, SignInTypeOK, CallFits
<1> QED
  BY <1>1, <1>2, CallKeepsFitting DEF SignInNext

-----------------------------------------------------------------------------
(* How much longer a call can take *)

\* The most steps that a call still takes, once refused, after its last answer and so
\* on back to the discovery: a first try has all of a second one ahead of it.
StepsOfStage == [idle |-> 0, refused |-> 1, call |-> 2, exchange |-> 4, sign |-> 6,
                 challenge |-> 7, discover |-> 9]
StepsLeft(call) ==
    StepsOfStage[call.stage] + (IF call.stage \in Remote /\ ~call.reading THEN 1 ELSE 0)
                             + (IF call.tries = 1 THEN 7 ELSE 0)

LEMMA StepsCounted ==
    ASSUME NEW call \in Call
    PROVE  StepsLeft(call) \in 0..16
<1>1. CASE call.stage = "discover"
  BY <1>1 DEF StepsLeft, StepsOfStage, Remote
<1>2. CASE call.stage # "discover"
  <2>1. StepsOfStage[call.stage] \in 0..7
    BY <1>2 DEF Call, Remote, StepsOfStage
  <2> QED
    BY <2>1 DEF StepsLeft
<1> QED
  BY <1>1, <1>2

\* authenticate() is nearer to the end than a call that discovers, or that has been
\* refused its first token.
LEMMA AuthenticateAdvances ==
    ASSUME SignInInv, NEW f \in Flow, NEW call \in Call, NEW cache, NEW force \in BOOLEAN,
           Authenticate(f, call, cache, force)
    PROVE  /\ force => calls'[f].stage = "challenge"
           /\ calls'[f].stage \in {"challenge", "call"}
           /\ calls'[f].reading = FALSE /\ calls'[f].tries = call.tries
<1> DEFINE cached == IF force \/ cache[call.account] \in spent THEN None ELSE cache[call.account]
           next == [call EXCEPT !.token = cached, !.reading = FALSE,
                                !.stage = IF cached = None THEN "challenge" ELSE "call"]
<1>1. calls' = [calls EXCEPT ![f] = next] /\ calls \in [Flow -> Call]
  BY DEF Authenticate, Calling, SignInInv, SignInTypeOK
<1>2. force => cached = None
  OBVIOUS
<1> HIDE DEF cached
<1>3. /\ next.stage = IF cached = None THEN "challenge" ELSE "call"
      /\ next.reading = FALSE /\ next.tries = call.tries
  BY DEF Call
<1> HIDE DEF next
<1>4. calls'[f] = next
  BY <1>1
<1> QED
  BY <1>2, <1>3, <1>4

LEMMA CallAdvances ==
    ASSUME SignInInv, NEW f \in Flow, CallStep(f)
    PROVE  StepsLeft(calls'[f]) < StepsLeft(calls[f])
<1> DEFINE call == calls[f]
<1>0. call \in Call /\ CallFits(call) /\ calls \in [Flow -> Call]
  BY DEF SignInInv, SignInTypeOK
<1>1. ASSUME call.stage # "idle", calls' = [calls EXCEPT ![f] = NoCall]
      PROVE  StepsLeft(calls'[f]) < StepsLeft(call)
  <2>1. calls'[f] = NoCall /\ StepsLeft(NoCall) = 0
    BY <1>0, <1>1 DEF NoCall, StepsLeft, StepsOfStage, Remote
  <2>2. StepsOfStage[call.stage] \in 1..9
    BY <1>0, <1>1 DEF Call, Remote, StepsOfStage
  <2> HIDE DEF call
  <2> QED
    BY <2>1, <2>2 DEF StepsLeft
<1>2. CASE Discovered(f)
  <2>1. call.stage = "discover" /\ call.tries = 1
    BY <1>0, <1>2 DEF Discovered, CallFits
  <2>2. PICK toml \in Toml :
          IF Acceptable(toml)
          THEN config' = toml /\ Authenticate(f, call, tokens, FALSE)
          ELSE Calling(f, NoCall) /\ UNCHANGED <<config, tokens>>
    BY <1>2 DEF Discovered
  <2>3. CASE Acceptable(toml)
    <3>1. /\ calls'[f].stage \in {"challenge", "call"}
          /\ calls'[f].reading = FALSE /\ calls'[f].tries = 1
      BY <1>0, <2>1, <2>2, <2>3, AuthenticateAdvances
    <3> QED
      BY <2>1, <3>1 DEF StepsLeft, StepsOfStage, Remote
  <2>4. CASE ~Acceptable(toml)
    BY <1>1, <2>1, <2>2, <2>4 DEF Calling
  <2> QED
    BY <2>3, <2>4
<1>3. CASE HeadersArrive(f)
  <2>1. call.stage \in Remote /\ ~call.reading /\ calls'[f] = [call EXCEPT !.reading = TRUE]
    BY <1>0, <1>3 DEF HeadersArrive, Calling
  <2>2. calls'[f].stage = call.stage /\ calls'[f].reading = TRUE /\ calls'[f].tries = call.tries
    BY <1>0, <2>1 DEF Call
  <2>3. StepsOfStage[call.stage] \in 0..9
    BY <1>0 DEF Call, Remote, StepsOfStage
  <2> QED
    BY <2>1, <2>2, <2>3 DEF StepsLeft
<1>4. CASE RequestFails(f) \/ CallAccepted(f) \/ CallEnds(f)
  BY <1>1, <1>4 DEF RequestFails, CallAccepted, CallEnds, Calling, Remote
<1>5. CASE ChallengeAnswered(f)
  <2>1. call.stage = "challenge" /\ calls'[f] = [call EXCEPT !.stage = "sign"]
    BY <1>0, <1>5 DEF ChallengeAnswered, Calling
  <2>2. calls'[f].stage = "sign" /\ calls'[f].tries = call.tries
    BY <1>0, <2>1 DEF Call
  <2> QED
    BY <2>1, <2>2 DEF StepsLeft, StepsOfStage, Remote
<1>6. CASE ChallengeSigned(f)
  <2>1. call.stage = "sign"
    BY <1>6 DEF ChallengeSigned
  <2>2. CASE Calling(f, [call EXCEPT !.stage = "exchange", !.reading = FALSE])
    <3>1. calls'[f].stage = "exchange" /\ calls'[f].reading = FALSE /\ calls'[f].tries = call.tries
      BY <1>0, <2>2 DEF Calling, Call
    <3> QED
      BY <2>1, <3>1 DEF StepsLeft, StepsOfStage, Remote
  <2>3. CASE Calling(f, NoCall)
    BY <1>1, <2>1, <2>3 DEF Calling
  <2> QED
    BY <1>6, <2>2, <2>3 DEF ChallengeSigned
<1>7. CASE TokenIssued(f)
  <2>1. PICK t \in Token :
          Calling(f, [call EXCEPT !.stage = "call", !.token = t, !.renewed = TRUE, !.reading = FALSE])
    BY <1>7 DEF TokenIssued
  <2>2. call.stage = "exchange"
    BY <1>7 DEF TokenIssued
  <2>3. calls'[f].stage = "call" /\ calls'[f].tries = call.tries
    BY <1>0, <2>1 DEF Calling, Call
  <2> QED
    BY <2>2, <2>3 DEF StepsLeft, StepsOfStage, Remote
<1>8. CASE CallRefused(f)
  <2>1. call.stage = "call" /\ call.reading
    BY <1>8 DEF CallRefused
  <2>2. CASE MayRetry(call)
    <3> DEFINE again == [call EXCEPT !.tries = 2, !.renewed = FALSE]
    <3>1. again \in Call /\ again.tries = 2
      BY <1>0, TriesAgainFits DEF Call
    <3>2. Authenticate(f, again, [tokens EXCEPT ![again.account] = None], TRUE)
      BY <1>8, <2>2 DEF CallRefused, Reauthenticate
    <3> HIDE DEF again
    <3>3. calls'[f].stage = "challenge" /\ calls'[f].reading = FALSE /\ calls'[f].tries = 2
      BY <3>1, <3>2, AuthenticateAdvances
    <3> QED
      BY <2>1, <2>2, <3>3 DEF StepsLeft, StepsOfStage, Remote, MayRetry
  <2>3. CASE ~MayRetry(call)
    <3>1. calls'[f] = [call EXCEPT !.stage = "refused"]
      BY <1>0, <1>8, <2>3 DEF CallRefused, Calling
    <3>2. calls'[f].stage = "refused" /\ calls'[f].tries = call.tries
      BY <1>0, <3>1 DEF Call
    <3> QED
      BY <2>1, <2>3, <3>2 DEF StepsLeft, StepsOfStage, Remote, MayRetry
  <2> QED
    BY <2>2, <2>3
<1> QED
  BY <1>2, <1>3, <1>4, <1>5, <1>6, <1>7, <1>8 DEF CallStep

\* A step changes the call of one flow.
LEMMA OneCallStep ==
    ASSUME SignInInv, SignInNext, NEW f \in Flow, calls'[f] # calls[f], calls[f] # NoCall
    PROVE  CallStep(f)
<1>0. calls \in [Flow -> Call]
  BY DEF SignInInv, SignInTypeOK
<1>1. ASSUME NEW g \in Flow, g # f, StartCall(g) \/ CallStep(g)
      PROVE  calls'[f] = calls[f]
  BY <1>0, <1>1 DEF StartCall, CallStep, Discovered, HeadersArrive, RequestFails, ChallengeAnswered,
                    ChallengeSigned, TokenIssued, CallAccepted, CallRefused, CallEnds, Reauthenticate,
                    Authenticate, Calling
<1>2. ~StartCall(f)
  BY DEF StartCall
<1>3. \A t \in Token : ~TokenSpent(t) /\ ~TokenDies(t)
  BY DEF TokenSpent, TokenDies
<1> QED
  BY <1>1, <1>2, <1>3 DEF SignInNext

-----------------------------------------------------------------------------
(* The wallet *)

\* An answer about an account and a network leads to a state of the wallet.
LEMMA AppliedState == ASSUME NEW s \in Snapshot PROVE Applied(s) \in WalletState
  BY DEF Applied, Snapshot, WalletState, Status, Disconnected, StateFromError, Address

LEMMA ErrorState ==
    ASSUME NEW kind, NEW a \in Address PROVE StateFromError(kind, a) \in WalletState
  BY DEF StateFromError, WalletState, Status, Address

LEMMA CommitType ==
    ASSUME WalletTypeOK, NEW next \in WalletState, Commit(next)
    PROVE  /\ wallet' \in WalletState
           /\ watch' \in [stage : {"off", "installing", "on"}, seen : Snapshot \cup {None}]
  BY DEF Commit, WalletTypeOK

LEMMA AttemptType ==
    ASSUME WalletTypeOK, NEW c \in Attempt, NEW stage \in {"idle", "load", "prompt", "assert", "network"},
           NEW a \in Address, Attempting(c, [stage |-> stage, address |-> a])
    PROVE  connects' \in [Attempt -> [stage : {"idle", "load", "prompt", "assert", "network"}, address : Address]]
  BY DEF Attempting, WalletTypeOK

LEMMA RequestType ==
    ASSUME WalletTypeOK, NEW q \in Caller, NEW a \in Address, Requesting(q, a)
    PROVE  requests' \in [Caller -> Address]
  BY DEF Requesting, WalletTypeOK

LEMMA NoneIsAddress == None \in Address /\ Disconnected \in WalletState
  BY DEF Address, Disconnected, WalletState, Status

LEMMA ConnectTypes ==
    ASSUME WalletTypeOK, NEW c \in Attempt, Connect(c) \/ ConnectStep(c) PROVE WalletTypeOK'
<1>0. /\ ext \in Snapshot /\ ext.address \in Address /\ ext.network \in Network
      /\ kit \in [runtime : {"unloaded", "ready", "failed"}, address : Address] /\ kit.address \in Address
      /\ connects[c] \in [stage : {"idle", "load", "prompt", "assert", "network"}, address : Address]
      /\ connects[c].address \in Address
  BY DEF WalletTypeOK, Snapshot
<1>1. CASE Connect(c)
  <2>1. [address |-> None, status |-> "connecting"] \in WalletState
    BY NoneIsAddress DEF WalletState, Status
  <2> QED
    BY <1>1, <2>1, NoneIsAddress, CommitType, AttemptType DEF Connect, WalletTypeOK
<1>2. CASE LoadKit(c)
  BY <1>0, <1>2, NoneIsAddress, AttemptType DEF LoadKit, WalletTypeOK
<1>3. CASE LoadKitFails(c)
  BY <1>0, <1>3, NoneIsAddress, ErrorState, CommitType, AttemptType DEF LoadKitFails, NoAttempt, WalletTypeOK
<1>4. CASE ConnectRefused(c)
  BY <1>0, <1>4, NoneIsAddress, ErrorState, CommitType, AttemptType DEF ConnectRefused, NoAttempt, WalletTypeOK
<1>5. CASE AddressGiven(c)
  <2>1. kit' \in [runtime : {"unloaded", "ready", "failed"}, address : Address]
        /\ UNCHANGED <<transport, ext, changes, refresh, leaving, news, requests>>
    BY <1>0, <1>5 DEF AddressGiven
  <2>2. CASE transport = "walletconnect"
    <3>1. Applied([address |-> ext.address, network |-> "testnet"]) \in WalletState
      BY <1>0, AppliedState DEF Snapshot, Network
    <3> QED
      BY <1>5, <2>1, <2>2, <3>1, NoneIsAddress, CommitType, AttemptType
         DEF AddressGiven, ApplySnapshot, NoAttempt, WalletTypeOK
  <2>3. CASE transport # "walletconnect"
    BY <1>0, <1>5, <2>1, <2>3, AttemptType DEF AddressGiven, WalletTypeOK
  <2> QED
    BY <2>2, <2>3
<1>6. CASE NetworkAsserted(c)
  <2>1. CASE ext.network # "testnet"
    BY <1>0, <1>6, <2>1, NoneIsAddress, ErrorState, CommitType, AttemptType DEF NetworkAsserted, NoAttempt, WalletTypeOK
  <2>2. CASE ext.network = "testnet"
    BY <1>0, <1>6, <2>2 DEF NetworkAsserted, Attempting, WalletTypeOK
  <2> QED
    BY <2>1, <2>2
<1>7. CASE NetworkRead(c)
  <2>1. Applied([address |-> connects[c].address, network |-> ext.network]) \in WalletState
    BY <1>0, AppliedState DEF Snapshot
  <2> QED
    BY <1>7, <2>1, NoneIsAddress, CommitType, AttemptType DEF NetworkRead, ApplySnapshot, NoAttempt, WalletTypeOK
<1> QED
  BY <1>1, <1>2, <1>3, <1>4, <1>5, <1>6, <1>7 DEF ConnectStep

LEMMA SessionTypes ==
    ASSUME WalletTypeOK, RefreshStep \/ WatchStep \/ Disconnect \/ DisconnectEnds \/ Refresh \/ ExtensionChanges
    PROVE  WalletTypeOK'
<1>0. /\ ext \in Snapshot /\ ext.address \in Address /\ ext.network \in Network
      /\ kit \in [runtime : {"unloaded", "ready", "failed"}, address : Address] /\ kit.address \in Address
      /\ wallet \in WalletState /\ wallet.address \in Address
  BY DEF WalletTypeOK, Snapshot, WalletState
<1>1. CASE Disconnect \/ Refresh
  <2>1. leaving' \in BOOLEAN /\ refresh' \in {None} \cup [address : Address, network : Network \cup {None}]
    <3>1. CASE Disconnect
      BY <3>1 DEF Disconnect, WalletTypeOK
    <3>2. CASE Refresh
      <4>1. refresh' \in [address : Address, network : Network \cup {None}]
        BY <1>0, <3>2 DEF Refresh
      <4> QED
        BY <3>2, <4>1 DEF Refresh, WalletTypeOK
    <3> QED
      BY <1>1, <3>1, <3>2
  <2> QED
    BY <1>1, <2>1 DEF Disconnect, Refresh, WalletTypeOK
<1>2. CASE DisconnectEnds
  <2>1. kit' \in [runtime : {"unloaded", "ready", "failed"}, address : Address]
    BY <1>0, <1>2, NoneIsAddress DEF DisconnectEnds
  <2> QED
    BY <1>2, <2>1, NoneIsAddress, CommitType DEF DisconnectEnds, WalletTypeOK
<1>3. CASE RefreshReadsNetwork
  <2>1. refresh' \in [address : Address, network : Network \cup {None}]
    BY <1>0, <1>3 DEF RefreshReadsNetwork, WalletTypeOK, Network
  <2> QED
    BY <1>3, <2>1 DEF RefreshReadsNetwork, WalletTypeOK
<1>4. CASE RefreshEnds
  <2>1. refresh \in Snapshot
    BY <1>4 DEF RefreshEnds, WalletTypeOK, Snapshot
  <2> QED
    BY <1>4, <2>1, AppliedState, CommitType DEF RefreshEnds, ApplySnapshot, WalletTypeOK
<1>5. CASE RefreshFails \/ WatcherFails
  BY <1>5, NoneIsAddress, ErrorState, CommitType DEF RefreshFails, WatcherFails, WalletTypeOK
<1>6. CASE WatcherInstalled \/ WatcherReads
  BY <1>0, <1>6 DEF WatcherInstalled, WatcherReads, WalletTypeOK
<1>7. CASE WatcherDelivers
  <2>1. news \in Snapshot
    BY <1>7 DEF WatcherDelivers, WalletTypeOK
  <2>2. \E next \in WalletState : Commit(next)
    BY <1>7, <2>1, AppliedState, ErrorState, NoneIsAddress DEF WatcherDelivers, ApplySnapshot
  <2> QED
    BY <1>7, <2>2, CommitType DEF WatcherDelivers, WalletTypeOK
<1>8. CASE ExtensionChanges
  BY <1>8, WalletAssumption DEF ExtensionChanges, WalletTypeOK
<1> QED
  BY <1>1, <1>2, <1>3, <1>4, <1>5, <1>6, <1>7, <1>8 DEF RefreshStep, WatchStep

LEMMA SignatureTypes ==
    ASSUME WalletTypeOK, NEW q \in Caller, SignCalled(q) \/ SignStep(q) PROVE WalletTypeOK'
<1>0. wallet.address \in Address /\ kit.address \in Address
  BY DEF WalletTypeOK, WalletState
<1>1. CASE SignCalled(q)
  <2>1. \E a \in Address : Requesting(q, a)
    BY <1>0, <1>1 DEF SignCalled
  <2> QED
    BY <1>1, <2>1, RequestType DEF SignCalled, WalletTypeOK
<1>2. CASE SignBlocked(q) \/ SignedByAnother(q)
  BY <1>0, <1>2, NoneIsAddress, RequestType, ErrorState, CommitType DEF SignBlocked, SignedByAnother, WalletTypeOK
<1>3. CASE SignEnds(q)
  BY <1>3, NoneIsAddress, RequestType DEF SignEnds, WalletTypeOK
<1> QED
  BY <1>1, <1>2, <1>3 DEF SignStep

LEMMA WalletInitTypes == WalletInit => WalletTypeOK
<1> SUFFICES ASSUME WalletInit PROVE WalletTypeOK
  OBVIOUS
<1>1. ext \in Snapshot /\ kit \in [runtime : {"unloaded", "ready", "failed"}, address : Address]
  BY DEF WalletInit, Snapshot, Network, Address
<1>2. connects \in [Attempt -> [stage : {"idle", "load", "prompt", "assert", "network"}, address : Address]]
  BY NoneIsAddress DEF WalletInit, NoAttempt
<1>3. watch \in [stage : {"off", "installing", "on"}, seen : Snapshot \cup {None}] /\ changes \in 0..MaxChanges
  BY WalletAssumption DEF WalletInit
<1> QED
  BY <1>1, <1>2, <1>3, NoneIsAddress DEF WalletInit, WalletTypeOK

LEMMA WalletNextTypes == WalletTypeOK /\ (WalletNext \/ UNCHANGED walletVars) => WalletTypeOK'
<1> SUFFICES ASSUME WalletTypeOK, WalletNext \/ UNCHANGED walletVars PROVE WalletTypeOK'
  OBVIOUS
<1>1. CASE UNCHANGED walletVars
  BY <1>1 DEF walletVars, WalletTypeOK
<1> QED
  BY <1>1, ConnectTypes, SessionTypes, SignatureTypes DEF WalletNext

\* A commit of an error, or of an answer about an account, leaves no other account
\* connected.
LEMMA CommitKeepsAccount ==
    ASSUME wallet.address # None, wallet'.status = "connected", wallet'.address # None,
           \/ wallet' = wallet \/ \E s : wallet' = Applied(s)
           \/ wallet' = Disconnected \/ \E kind, a : wallet' = StateFromError(kind, a)
    PROVE  wallet'.address = wallet.address
<1>1. ASSUME NEW s, wallet' = Applied(s) PROVE wallet'.address = wallet.address
  BY <1>1 DEF Applied, Disconnected, StateFromError
<1>2. ASSUME NEW kind, NEW a, wallet' = StateFromError(kind, a) PROVE FALSE
  BY <1>2 DEF StateFromError
<1> QED
  BY <1>1, <1>2 DEF Disconnected

LEMMA WalletStepKeepsAccount ==
    ASSUME WalletNext, wallet.address # None, CanTransact'
    PROVE  wallet'.address = wallet.address
<1>1. ASSUME NEW c \in Attempt, ConnectStep(c)
      PROVE  \/ wallet' = wallet \/ \E s : wallet' = Applied(s) \/ \E kind, a : wallet' = StateFromError(kind, a)
  BY <1>1 DEF ConnectStep, LoadKit, LoadKitFails, ConnectRefused, AddressGiven, NetworkAsserted, NetworkRead,
              ApplySnapshot, Commit
<1>2. CASE RefreshStep \/ WatchStep \/ Disconnect \/ DisconnectEnds \/ Refresh \/ ExtensionChanges
  <2>1. \/ wallet' = wallet \/ \E s : wallet' = Applied(s)
        \/ wallet' = Disconnected \/ \E kind, a : wallet' = StateFromError(kind, a)
    BY <1>2 DEF RefreshStep, RefreshReadsNetwork, RefreshEnds, RefreshFails, WatchStep, WatcherInstalled,
                WatcherFails, WatcherReads, WatcherDelivers, Disconnect, DisconnectEnds, Refresh, ExtensionChanges,
                ApplySnapshot, Commit
  <2> QED
    BY <2>1, CommitKeepsAccount DEF CanTransact
<1>3. ASSUME NEW q \in Caller, SignCalled(q) \/ SignStep(q)
      PROVE  wallet' = wallet \/ \E kind, a : wallet' = StateFromError(kind, a)
  BY <1>3 DEF SignCalled, SignStep, SignBlocked, SignEnds, SignedByAnother, Commit
<1>4. ASSUME NEW c \in Attempt, Connect(c) PROVE FALSE
  BY <1>4 DEF Connect
<1> QED
  BY <1>1, <1>2, <1>3, <1>4, CommitKeepsAccount DEF WalletNext, CanTransact

-----------------------------------------------------------------------------
(* The browser *)

BrowserInv == WalletTypeOK /\ SignInInv /\ CameraInv /\ PageTypeOK

LEMMA BrowserInitInv == BrowserInit => BrowserInv
  BY WalletInitTypes, SignInInitInv, CameraStartsUnderControl, PageStartsTyped DEF BrowserInit, BrowserInv

LEMMA BrowserNextInv == BrowserInv /\ [BrowserNext]_browserVars => BrowserInv'
<1> SUFFICES ASSUME BrowserInv, [BrowserNext]_browserVars PROVE BrowserInv'
  OBVIOUS
<1>1. /\ WalletNext \/ UNCHANGED walletVars
      /\ SignInNext \/ UNCHANGED signInVars
      /\ [Next]_vars
  BY DEF BrowserNext, browserVars
<1>2. WalletTypeOK' /\ SignInInv'
  BY <1>1, WalletNextTypes, SignInNextInv DEF BrowserInv
<1>3. CameraInv'
  <2>1. CameraInv /\ UNCHANGED camera => CameraInv'
    BY DEF CameraInv, CameraTypeOK, CameraUnderControl, Current, camera
  <2> QED
    BY <1>1, <2>1, StepMovesCamera, CameraStepKeepsControl DEF BrowserInv
<1>4. PageTypeOK'
  BY <1>1, PageStepKeepsTypes DEF BrowserInv
<1> QED
  BY <1>2, <1>3, <1>4 DEF BrowserInv

LEMMA BrowserKeepsInv == BrowserSpec => []BrowserInv
  BY BrowserInitInv, BrowserNextInv, PTL DEF BrowserSpec

\* The wallet's provider, the calls of the anchor and the check-in page keep to
\* their types.
THEOREM BrowserTypeCorrect == BrowserSpec => []BrowserTypeOK
<1>1. BrowserInv => BrowserTypeOK
  BY DEF BrowserInv, BrowserTypeOK, SignInInv, CameraInv, PageTypeOK, TypeOK
<1> QED
  BY <1>1, BrowserKeepsInv, PTL

\* A call tells the user that the anchor refuses the sign-in only after a token
\* signed for in this call was refused, whatever other calls do to the cache.
THEOREM RefusalIsFresh == BrowserSpec => []RefusalOnlyAfterFreshSignature
<1>1. BrowserInv => RefusalOnlyAfterFreshSignature
  BY DEF BrowserInv, SignInInv, CallFits, RefusalOnlyAfterFreshSignature
<1> QED
  BY <1>1, BrowserKeepsInv, PTL

\* No answer, however late, makes a session another account's.
THEOREM SessionsStay == BrowserSpec => SessionNeverSwitches
<1>1. [BrowserNext]_browserVars =>
        [wallet.address # None /\ CanTransact' => wallet'.address = wallet.address]_walletVars
  BY WalletStepKeepsAccount DEF BrowserNext, browserVars, walletVars
<1> QED
  BY <1>1, PTL DEF BrowserSpec, SessionNeverSwitches

\* A call never goes round in circles, whatever the anchor and the other calls do: every
\* step of a call brings it nearer to its end, which it reaches in at most sixteen.
THEOREM CallsAdvance ==
    BrowserSpec =>
        [][\A f \in Flow : calls'[f] # calls[f] /\ calls[f] # NoCall =>
             /\ StepsLeft(calls[f]) <= 16
             /\ StepsLeft(calls'[f]) < StepsLeft(calls[f])]_browserVars
<1>1. BrowserInv /\ [BrowserNext]_browserVars =>
        [\A f \in Flow : calls'[f] # calls[f] /\ calls[f] # NoCall =>
           /\ StepsLeft(calls[f]) <= 16
           /\ StepsLeft(calls'[f]) < StepsLeft(calls[f])]_browserVars
  <2> SUFFICES ASSUME BrowserInv, BrowserNext, NEW f \in Flow, calls'[f] # calls[f], calls[f] # NoCall
               PROVE  StepsLeft(calls[f]) <= 16 /\ StepsLeft(calls'[f]) < StepsLeft(calls[f])
    OBVIOUS
  <2>1. SignInInv
    BY DEF BrowserInv
  <2>2. SignInNext
    BY DEF BrowserNext, signInVars
  <2>3. StepsLeft(calls[f]) \in 0..16
    BY <2>1, StepsCounted DEF SignInInv, SignInTypeOK
  <2> QED
    BY <2>1, <2>2, <2>3, OneCallStep, CallAdvances
<1> QED
  BY <1>1, BrowserKeepsInv, PTL DEF BrowserSpec
=============================================================================
