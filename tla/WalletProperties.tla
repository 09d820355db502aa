--------------------------- MODULE WalletProperties ---------------------------
(***************************************************************************)
(* What the connection promises the person behind it.                      *)
(***************************************************************************)
EXTENDS Wallet

\* SYSTEM.md:1209-1210: a change of account resets the session.  No step turns
\* a session into another account's in which the pages would let it act, be it
\* an answer of the watcher, of a refresh or of a connect that was asked for
\* while something else was shown.
SessionNeverSwitches ==
    [][wallet.address # None /\ CanTransact' => wallet'.address = wallet.address]_walletVars

OnOtherNetwork == transport = "freighter" /\ ext.network = "other"

\* SYSTEM.md:1207: on another network every state-changing button is disabled.
\* When the extension is switched and left there, the pages notice: the
\* watcher that is running, or being installed, is enough for that.
NetworkChangeNoticed == [](OnOtherNetwork /\ CanTransact => <>(~OnOtherNetwork \/ ~CanTransact))
=============================================================================
