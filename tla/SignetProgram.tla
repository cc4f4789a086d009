---------------------------- MODULE SignetProgram ----------------------------
(***************************************************************************)
(* The state of the Signet program on Solana: the program-state PDA with    *)
(* its configuration and its lamports, and the instructions that change     *)
(* them (initialize, update_deposit, withdraw_funds, sign,                  *)
(* sign_bidirectional).  An instruction is one action: Solana runs a        *)
(* transaction alone on the accounts it writes, and reverts a failing one.  *)
(* respond, respond_error, respond_bidirectional and get_signature_deposit  *)
(* change no account.                                                       *)
(*                                                                         *)
(* Of the runtime, the rules the code relies on: an account that a          *)
(* transaction leaves without lamports ceases to exist; one that it leaves  *)
(* with some must be rent exempt, or the transaction fails; anyone may send *)
(* lamports to the PDA.  Transaction fees are left out, and the lamports in *)
(* circulation fit in 64 bits, so the u64 additions do not overflow.        *)
(***************************************************************************)
EXTENDS Integers, FiniteSets

CONSTANTS
    Wallet,         \* accounts that can sign
    DefaultKey,     \* Pubkey::default()
    Vault,          \* the program-state PDA
    Nobody,         \* admin of a program state that does not exist
    InitialLamports,\* [Wallet -> Nat]
    RentMin,        \* rent-exempt minimum of the PDA
    Amounts,        \* deposits and amounts that instructions are called with
    MaxTxs          \* bound: transactions

Account == Wallet \cup {DefaultKey, Vault}

ASSUME ProgramAssumption ==
    /\ Vault \notin Wallet /\ DefaultKey \notin Wallet /\ Vault # DefaultKey
    /\ Nobody \notin Wallet
    /\ InitialLamports \in [Wallet -> Nat]
    /\ RentMin \in Nat \ {0}
    /\ Amounts \subseteq Nat
    /\ MaxTxs \in Nat

VARIABLES
    lamports,   \* balance of every account
    admin,      \* ProgramState.admin, or Nobody when there is no ProgramState
    deposit,    \* ProgramState.signature_deposit
    txs,        \* transactions so far
    inits,      \* history: successful initialize instructions
    signer,     \* history: who signed the last transaction
    rentPaid,   \* history: lamports initialize moved into the PDA
    requested,  \* history: sum of the deposit fields of the request events
    donated,    \* history: lamports sent to the PDA by plain transfers
    withdrawn   \* history: sum of the amounts of the withdrawal events whose
                \* recipient is not the PDA itself

config == <<admin, deposit>>
totals == <<rentPaid, requested, donated, withdrawn>>
vars == <<lamports, config, txs, inits, signer, totals>>

Exists == admin # Nobody

Init ==
    /\ lamports = [a \in Account |-> IF a \in Wallet THEN InitialLamports[a] ELSE 0]
    /\ admin = Nobody /\ deposit = 0
    /\ txs = 0 /\ inits = 0 /\ signer = Nobody
    /\ rentPaid = 0 /\ requested = 0 /\ donated = 0 /\ withdrawn = 0

\* Transactions are counted, and only wallets sign them.
Signed(by) ==
    /\ txs < MaxTxs
    /\ txs' = txs + 1
    /\ signer' = by

\* Debit, then credit: `from` and `to` may be the same account.
Move_ReadsFirst(l, from, to, amount) ==
    [l EXCEPT ![from] = l[from] - amount, ![to] = l[to] + amount]
Move(l, from, to, amount) ==
    LET debited == [l EXCEPT ![from] = @ - amount]
    IN  [debited EXCEPT ![to] = @ + amount]

\* Anchor's `init` constraint fails when the account exists; it tops the PDA up
\* to the rent-exempt minimum at the expense of the admin.
TopUp == IF lamports[Vault] < RentMin THEN RentMin - lamports[Vault] ELSE 0

Initialize(by, newDeposit) ==
    /\ ~Exists
    /\ lamports[by] >= TopUp
    /\ Signed(by)
    /\ lamports' = Move(lamports, by, Vault, TopUp)
    /\ admin' = by
    /\ deposit' = newDeposit
    /\ inits' = inits + 1
    /\ rentPaid' = rentPaid + TopUp
    /\ UNCHANGED <<requested, donated, withdrawn>>

\* has_one = admin
IsAdmin_NoCheck(by) == Exists
IsAdmin(by) == Exists /\ by = admin

UpdateDeposit(by, newDeposit) ==
    /\ IsAdmin(by)
    /\ Signed(by)
    /\ deposit' = newDeposit
    /\ UNCHANGED <<lamports, admin, inits, totals>>

\* The balance check counts the rent; the runtime accepts a remainder of zero,
\* and then the program state is gone.
CanPay_NoCheck(account, amount) == TRUE
CanPay(account, amount) == lamports[account] >= amount

WithdrawFunds(by, recipient, amount) ==
    /\ IsAdmin(by)
    /\ CanPay(Vault, amount)
    /\ recipient # DefaultKey
    /\ Signed(by)
    /\ lamports' = Move(lamports, Vault, recipient, amount)
    /\ lamports'[Vault] = 0 \/ lamports'[Vault] >= RentMin
    /\ withdrawn' = IF recipient = Vault THEN withdrawn ELSE withdrawn + amount
    /\ IF lamports'[Vault] = 0
       THEN admin' = Nobody /\ deposit' = 0
       ELSE UNCHANGED config
    /\ UNCHANGED <<inits, rentPaid, requested, donated>>

\* sign and sign_bidirectional charge the deposit to the fee payer, or to the
\* requester when there is none, and put it into the request event.
Charge(payer) ==
    /\ Exists
    /\ CanPay(payer, deposit)
    /\ lamports' = Move(lamports, payer, Vault, deposit)
    /\ requested' = requested + deposit
    /\ UNCHANGED <<config, inits, rentPaid, donated, withdrawn>>

Sign(requester, payer) ==
    /\ Signed(requester)
    /\ Charge(payer)

\* An empty serialized_transaction is refused.
SignBidirectional(requester, payer, emptyTransaction) ==
    /\ ~emptyTransaction
    /\ Signed(requester)
    /\ Charge(payer)

\* A plain system transfer to the PDA, before or after it is initialized.
Donate(by, amount) ==
    /\ CanPay(by, amount)
    /\ Signed(by)
    /\ lamports' = Move(lamports, by, Vault, amount)
    /\ donated' = donated + amount
    /\ UNCHANGED <<config, inits, rentPaid, requested, withdrawn>>

Next ==
    \E by \in Wallet :
       \/ \E n \in Amounts : \/ Initialize(by, n) \/ UpdateDeposit(by, n)
                             \/ Donate(by, n)
                             \/ \E to \in Account : WithdrawFunds(by, to, n)
       \/ \E payer \in Wallet : \/ Sign(by, payer)
                                \/ \E e \in BOOLEAN : SignBidirectional(by, payer, e)

Spec == Init /\ [][Next]_vars
-----------------------------------------------------------------------------
(* Properties *)

TypeOK ==
    /\ lamports \in [Account -> Nat]
    /\ admin \in Wallet \cup {Nobody}
    /\ deposit \in Nat
    /\ txs \in 0..MaxTxs /\ inits \in Nat
    /\ signer \in Wallet \cup {Nobody}
    /\ rentPaid \in Nat /\ requested \in Nat /\ donated \in Nat /\ withdrawn \in Nat

\* The books balance, over any sequence of instructions, deposit changes,
\* withdrawals to the PDA itself and re-creations: what the PDA holds is what
\* the request events and the transfers say went in, less what the withdrawal
\* events say went out.
BooksBalance ==
    lamports[Vault] + withdrawn = rentPaid + requested + donated

\* A program state that exists can never be reclaimed by the runtime: it stays
\* rent exempt; and one that does not exist holds no configuration.
StateIsFunded ==
    IF Exists THEN lamports[Vault] >= RentMin ELSE deposit = 0

\* Only the admin changes the configuration or takes lamports out.
AdminControls ==
    [][ Exists /\ (config' # config \/ lamports'[Vault] < lamports[Vault])
           => signer' = admin ]_vars

\* "It can only be called once to set up the program" (initialize, lib.rs).
InitializedOnce == inits <= 1
=============================================================================
