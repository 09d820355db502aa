------------------------------- MODULE Escrow -------------------------------
(***************************************************************************)
(* What the bond contract promises about money, without seats, deadlines,  *)
(* signatures or trustlines.  A depositor fills a slot of an open round    *)
(* once; the deposit leaves custody once and whole, either back to its     *)
(* depositor or split between the round's beneficiary and the pool; a void *)
(* round only gives deposits back; nothing else takes from the vault.      *)
(***************************************************************************)
EXTENDS Integers, FiniteSets, Functions

CONSTANTS
    Round,      \* rounds of deposits (events)
    Account,    \* who deposits and who is paid
    Vault,      \* who holds the deposits
    Pool,       \* the account that shares in forfeited deposits
    Nobody      \* the beneficiary of a round that is not open yet

VARIABLES
    wealth,        \* wealth[h]: what an account or the vault owns
    beneficiary,   \* beneficiary[r]: who shares in the deposits forfeited in r
    void,          \* the rounds that only give deposits back
    held,          \* held[r][a]: the deposit of a in r, zero if none
    closed         \* the slots whose deposit has left the vault

escrowVars == <<wealth, beneficiary, void, held, closed>>

Slot == Round \X Account

Shift(w, from, to, amount) ==
    LET debited == [w EXCEPT ![from] = @ - amount]
    IN  [debited EXCEPT ![to] = @ + amount]

Init ==
    /\ wealth \in [Account \cup {Vault} -> Nat]
    /\ beneficiary = [r \in Round |-> Nobody]
    /\ void = {}
    /\ held = [r \in Round |-> [a \in Account |-> 0]]
    /\ closed = {}

Open(r, b) ==
    /\ beneficiary[r] = Nobody
    /\ beneficiary' = [beneficiary EXCEPT ![r] = b]
    /\ UNCHANGED <<wealth, void, held, closed>>

Void(r) ==
    /\ beneficiary[r] # Nobody
    /\ void' = void \cup {r}
    /\ UNCHANGED <<wealth, beneficiary, held, closed>>

Deposit(r, a, amount) ==
    /\ beneficiary[r] # Nobody
    /\ r \notin void
    /\ held[r][a] = 0
    /\ <<r, a>> \notin closed
    /\ held' = [held EXCEPT ![r][a] = amount]
    /\ wealth' = Shift(wealth, a, Vault, amount)
    /\ UNCHANGED <<beneficiary, void, closed>>

Empty(r, a) ==
    /\ held[r][a] > 0
    /\ held' = [held EXCEPT ![r][a] = 0]
    /\ closed' = closed \cup {<<r, a>>}
    /\ UNCHANGED <<beneficiary, void>>

GiveBack(r, a) ==
    /\ Empty(r, a)
    /\ wealth' = Shift(wealth, Vault, a, held[r][a])

Forfeit(r, a, share) ==
    /\ Empty(r, a)
    /\ r \notin void
    /\ wealth' = Shift(Shift(wealth, Vault, beneficiary[r], share),
                       Vault, Pool, held[r][a] - share)

\* Money moved by its owner, into the vault included, but never out of it.
Spend(from, to, amount) ==
    /\ wealth' = Shift(wealth, from, to, amount)
    /\ UNCHANGED <<beneficiary, void, held, closed>>

Next ==
    \/ \E r \in Round, b \in Account : Open(r, b)
    \/ \E r \in Round : Void(r)
    \/ \E r \in Round, a \in Account :
         \/ \E amount \in 1..wealth[a] : Deposit(r, a, amount)
         \/ GiveBack(r, a)
         \/ \E share \in 0..held[r][a] : Forfeit(r, a, share)
    \/ \E from \in Account, to \in Account \cup {Vault} :
         \E amount \in 0..wealth[from] : Spend(from, to, amount)

Spec == Init /\ [][Next]_escrowVars

\* The units of the asset that the deposits in custody consist of.
Units(slot) == {slot} \X (1..held[slot[1]][slot[2]])
Owed == UNION {Units(slot) : slot \in Slot}

\* The vault covers every deposit it has not paid out.
Solvent == wealth[Vault] >= Cardinality(Owed)
=============================================================================
