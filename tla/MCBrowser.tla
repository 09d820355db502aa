------------------------------ MODULE MCBrowser ------------------------------
(***************************************************************************)
(* The components of the browser that keep no state together, each         *)
(* explored by itself while the others rest: the wallet's connection,      *)
(* signing in at the anchor, and the check-in page with its camera.  All   *)
(* that one asks of another is an answer, and the one that asks has the    *)
(* answers as its own actions.                                             *)
(***************************************************************************)
EXTENDS WalletProperties, SignIn, ScanPage

VARIABLE part       \* the component explored

browserVars == <<part, walletVars, signInVars, vars>>

BrowserInit ==
    /\ part \in {"wallet", "sign_in", "scan"}
    /\ WalletInit /\ SignInInit /\ Init
    \* The accounts are alike: it does not matter which one is selected first.
    /\ ext.address = CHOOSE a \in Account : TRUE
    \* A component at rest starts in one way only.
    /\ part # "wallet" => transport = "freighter" /\ kit.address = None
    /\ part # "scan" => signer = "nobody" /\ \A g \in Guest : chain[g] = "none"

BrowserNext ==
    \/ part = "wallet" /\ WalletNext /\ UNCHANGED <<part, signInVars, vars>>
    \/ part = "sign_in" /\ SignInNext /\ UNCHANGED <<part, walletVars, vars>>
    \/ part = "scan" /\ Next /\ UNCHANGED <<part, walletVars, signInVars>>

BrowserSpec ==
    /\ BrowserInit /\ [][BrowserNext]_browserVars
    /\ WalletFairness /\ SignInFairness /\ CameraFairness

\* Every component keeps to its types.
BrowserTypeOK == WalletTypeOK /\ SignInTypeOK /\ TypeOK
=============================================================================
