------------------------------- MODULE Token -------------------------------
(***************************************************************************)
(* The asset the bonds are paid in: a Stellar Asset Contract over a        *)
(* classic asset.  It is not part of the repository; it is modelled from   *)
(* the way the showup-bond contract and the web application use it.        *)
(*                                                                         *)
(* A classic account receives the asset only while it holds a trustline,   *)
(* and may close the trustline only at balance zero.  A contract address   *)
(* needs no trustline.  A transfer that fails leaves every balance as it   *)
(* was and aborts the invocation that made it.                             *)
(***************************************************************************)
EXTENDS Integers

CONSTANTS
    Address,          \* classic accounts: participants, organizers, the pool
    Contract,         \* the address of the showup-bond contract
    Signers,          \* the accounts whose owners sign transactions
    InitialBalance,   \* what each account holds when the contract is deployed
    TransferAmounts   \* bound: amounts moved by transfers made around the contract

VARIABLES
    balance,          \* balance[a]: token balance of an account or the contract
    trustline         \* trustline[a]: whether the account can hold the asset

tokenVars == <<balance, trustline>>

Holder == Address \cup {Contract}

ASSUME TokenAssumption ==
    /\ Contract \notin Address
    /\ Signers \subseteq Address
    /\ InitialBalance \in [Address -> Nat]
    /\ TransferAmounts \subseteq Nat \ {0}

TokenTypeOK ==
    /\ balance \in [Holder -> Nat]
    /\ trustline \in [Address -> BOOLEAN]

\* An account funded before deployment has its trustline; any other may or may not.
TokenInit ==
    /\ balance = [a \in Holder |-> IF a = Contract THEN 0 ELSE InitialBalance[a]]
    /\ trustline \in {t \in [Address -> BOOLEAN] :
                        \A a \in Address : InitialBalance[a] > 0 => t[a]}

\* Faulty variant of Authorized: require_auth is missing.
AuthorizedByNobody(a) == TRUE

\* require_auth: the invocation carries a's signature.
Authorized(a) == a \in Signers

CanReceive(a) == a # Contract => trustline[a]

\* The balances once amount has moved from one holder to another.
Moved(bal, from, to, amount) ==
    LET debited == [bal EXCEPT ![from] = @ - amount]
    IN  [debited EXCEPT ![to] = @ + amount]

\* A transfer goes through when the source covers it and the destination can
\* receive, whatever the amount: a zero transfer needs the trustline as well.
CanTransfer(bal, from, to, amount) ==
    /\ bal[from] >= amount
    /\ CanReceive(to)

\* The owner opens the trustline, or closes it at balance zero.
ChangeTrust(a) ==
    /\ Authorized(a)
    /\ trustline[a] => balance[a] = 0
    /\ trustline' = [trustline EXCEPT ![a] = ~@]
    /\ UNCHANGED balance

\* A transfer made around the contract, to another account or to the contract.
TransferAround(from, to) ==
    /\ Authorized(from)
    /\ from # to
    /\ \E amount \in TransferAmounts :
         /\ CanTransfer(balance, from, to, amount)
         /\ balance' = Moved(balance, from, to, amount)
    /\ UNCHANGED trustline

TokenNext ==
    \/ \E a \in Address : ChangeTrust(a)
    \/ \E from \in Address, to \in Holder : TransferAround(from, to)
=============================================================================
