------------------------- MODULE SignetProgramProofs -------------------------
(***************************************************************************)
(* Proofs about SignetProgram, for any wallets, balances, amounts and       *)
(* number of transactions.                                                  *)
(***************************************************************************)
EXTENDS SignetProgram, TLAPS

\* Moving lamports between two accounts, which may be the same one.
LEMMA MoveIsTransfer ==
    ASSUME NEW l \in [Account -> Nat], NEW from \in Account, NEW to \in Account,
           NEW amount \in Nat, l[from] >= amount
    PROVE  /\ Move(l, from, to, amount) \in [Account -> Nat]
           /\ from = to => Move(l, from, to, amount) = l
           /\ from # to =>
                /\ Move(l, from, to, amount)[from] = l[from] - amount
                /\ Move(l, from, to, amount)[to] = l[to] + amount
  <1>1. CASE from = to
    <2>1. Move(l, from, to, amount) = [l EXCEPT ![from] = (l[from] - amount) + amount]
      BY <1>1 DEF Move
    <2>2. (l[from] - amount) + amount = l[from]
      BY l[from] \in Nat, SMT
    <2> QED BY <1>1, <2>1, <2>2
  <1>2. CASE from # to
    BY <1>2 DEF Move
  <1> QED BY <1>1, <1>2
-----------------------------------------------------------------------------
\* The facts that every instruction preserves together.
ProgramInv == TypeOK /\ BooksBalance /\ StateIsFunded

\* Before the program is initialized the books are empty.
LEMMA InitEstablishes == Init => ProgramInv
  BY ProgramAssumption DEF Init, ProgramInv, TypeOK, BooksBalance, StateIsFunded,
     Exists, Account

\* initialize keeps the books, and leaves the PDA rent exempt.
LEMMA InitializePreserves ==
    ASSUME ProgramInv, NEW by \in Wallet, NEW n \in Amounts, Initialize(by, n)
    PROVE  ProgramInv'
  <1> USE ProgramAssumption DEF ProgramInv
  <1>1. /\ by \in Account /\ Vault \in Account /\ by # Vault /\ by # Nobody
        /\ TopUp \in Nat /\ lamports[by] >= TopUp
        /\ lamports[Vault] + TopUp >= RentMin
    BY DEF TypeOK, Account, TopUp, Initialize
  <1>2. /\ lamports' \in [Account -> Nat]
        /\ lamports'[Vault] = lamports[Vault] + TopUp
    BY <1>1, MoveIsTransfer DEF TypeOK, Initialize
  <1>3. TypeOK'
    BY <1>1, <1>2 DEF TypeOK, Initialize, Signed
  <1>4. BooksBalance'
    BY <1>1, <1>2 DEF TypeOK, BooksBalance, Initialize, Account
  <1>5. StateIsFunded'
    BY <1>1, <1>2 DEF StateIsFunded, Exists, Initialize
  <1> QED BY <1>3, <1>4, <1>5

\* update_deposit moves no lamports.
LEMMA UpdateDepositPreserves ==
    ASSUME ProgramInv, NEW by \in Wallet, NEW n \in Amounts, UpdateDeposit(by, n)
    PROVE  ProgramInv'
  BY ProgramAssumption
  DEF ProgramInv, TypeOK, BooksBalance, StateIsFunded, Exists, IsAdmin, Signed,
      UpdateDeposit, totals

\* withdraw_funds keeps the books, also when the recipient is the PDA itself
\* and when it empties the PDA.
LEMMA WithdrawFundsPreserves ==
    ASSUME ProgramInv, NEW by \in Wallet, NEW to \in Account, NEW n \in Amounts,
           WithdrawFunds(by, to, n)
    PROVE  ProgramInv'
  <1> USE ProgramAssumption DEF ProgramInv
  <1>1. /\ Vault \in Account /\ n \in Nat /\ lamports[Vault] \in Nat
        /\ lamports[Vault] >= n
    BY DEF TypeOK, Account, WithdrawFunds, CanPay
  <1>2. /\ lamports' \in [Account -> Nat]
        /\ lamports'[Vault] = IF to = Vault THEN lamports[Vault] ELSE lamports[Vault] - n
    BY <1>1, MoveIsTransfer DEF TypeOK, WithdrawFunds
  <1>3. TypeOK'
    BY <1>1, <1>2 DEF TypeOK, WithdrawFunds, Signed, config
  <1>4. BooksBalance'
    BY <1>1, <1>2 DEF TypeOK, BooksBalance, WithdrawFunds
  <1>5. StateIsFunded'
    BY <1>2 DEF TypeOK, StateIsFunded, Exists, WithdrawFunds, IsAdmin, config
  <1> QED BY <1>3, <1>4, <1>5

\* What sign and sign_bidirectional have in common.
LEMMA ChargePreserves ==
    ASSUME ProgramInv, NEW by \in Wallet, NEW payer \in Wallet,
           Signed(by), Charge(payer)
    PROVE  ProgramInv'
  <1> USE ProgramAssumption DEF ProgramInv
  <1>1. /\ payer \in Account /\ Vault \in Account /\ payer # Vault
        /\ deposit \in Nat /\ lamports[Vault] \in Nat /\ lamports[payer] >= deposit
    BY DEF TypeOK, Account, Charge, CanPay
  <1>2. /\ lamports' \in [Account -> Nat]
        /\ lamports'[Vault] = lamports[Vault] + deposit
    BY <1>1, MoveIsTransfer DEF TypeOK, Charge
  <1>3. TypeOK'
    BY <1>1, <1>2 DEF TypeOK, Charge, Signed, config
  <1>4. BooksBalance'
    BY <1>1, <1>2 DEF TypeOK, BooksBalance, Charge
  <1>5. StateIsFunded'
    BY <1>1, <1>2 DEF StateIsFunded, Exists, Charge, config
  <1> QED BY <1>3, <1>4, <1>5

\* A transfer to the PDA is on the books, initialized or not.
LEMMA DonatePreserves ==
    ASSUME ProgramInv, NEW by \in Wallet, NEW n \in Amounts, Donate(by, n)
    PROVE  ProgramInv'
  <1> USE ProgramAssumption DEF ProgramInv
  <1>1. /\ by \in Account /\ Vault \in Account /\ by # Vault /\ n \in Nat
        /\ lamports[Vault] \in Nat /\ lamports[by] >= n
    BY DEF TypeOK, Account, Donate, CanPay
  <1>2. /\ lamports' \in [Account -> Nat]
        /\ lamports'[Vault] = lamports[Vault] + n
    BY <1>1, MoveIsTransfer DEF TypeOK, Donate
  <1>3. TypeOK'
    BY <1>1, <1>2 DEF TypeOK, Donate, Signed, config
  <1>4. BooksBalance'
    BY <1>1, <1>2 DEF TypeOK, BooksBalance, Donate
  <1>5. StateIsFunded'
    BY <1>1, <1>2 DEF StateIsFunded, Exists, Donate, config
  <1> QED BY <1>3, <1>4, <1>5

\* Every instruction preserves the invariant.
LEMMA NextPreserves == ProgramInv /\ [Next]_vars => ProgramInv'
  <1> SUFFICES ASSUME ProgramInv, [Next]_vars PROVE ProgramInv'
    OBVIOUS
  <1>1. CASE Next
    <2>1. ASSUME NEW by \in Wallet, NEW n \in Amounts, Initialize(by, n)
          PROVE  ProgramInv'
      BY <2>1, InitializePreserves
    <2>2. ASSUME NEW by \in Wallet, NEW n \in Amounts, UpdateDeposit(by, n)
          PROVE  ProgramInv'
      BY <2>2, UpdateDepositPreserves
    <2>3. ASSUME NEW by \in Wallet, NEW n \in Amounts, Donate(by, n)
          PROVE  ProgramInv'
      BY <2>3, DonatePreserves
    <2>4. ASSUME NEW by \in Wallet, NEW n \in Amounts, NEW to \in Account,
                 WithdrawFunds(by, to, n)
          PROVE  ProgramInv'
      BY <2>4, WithdrawFundsPreserves
    <2>5. ASSUME NEW by \in Wallet, NEW payer \in Wallet, Sign(by, payer)
          PROVE  ProgramInv'
      BY <2>5, ChargePreserves DEF Sign
    <2>6. ASSUME NEW by \in Wallet, NEW payer \in Wallet, NEW e \in BOOLEAN,
                 SignBidirectional(by, payer, e)
          PROVE  ProgramInv'
      BY <2>6, ChargePreserves DEF SignBidirectional
    <2> QED BY <1>1, <2>1, <2>2, <2>3, <2>4, <2>5, <2>6 DEF Next
  <1>2. CASE UNCHANGED vars
    BY <1>2 DEF ProgramInv, TypeOK, BooksBalance, StateIsFunded, Exists, vars,
                config, totals
  <1> QED BY <1>1, <1>2

\* The inductive invariant of the program, from which its safety follows.
THEOREM Invariance == Spec => []ProgramInv
  BY InitEstablishes, NextPreserves, PTL DEF Spec
-----------------------------------------------------------------------------
\* Balances never go negative: no withdrawal or charge underflows.
THEOREM TypeCorrect == Spec => []TypeOK
  BY Invariance, PTL DEF ProgramInv

\* The PDA holds exactly what the events and transfers account for.
THEOREM BooksAlwaysBalance == Spec => []BooksBalance
  BY Invariance, PTL DEF ProgramInv

\* An existing program state stays rent exempt.
THEOREM StateAlwaysFunded == Spec => []StateIsFunded
  BY Invariance, PTL DEF ProgramInv

\* Only a transaction signed by the admin changes the configuration of an
\* existing program state or lowers its balance.
THEOREM AdminAlwaysControls == Spec => AdminControls
  <1>1. ASSUME ProgramInv, [Next]_vars
        PROVE  [ Exists /\ (config' # config \/ lamports'[Vault] < lamports[Vault])
                   => signer' = admin ]_vars
    <2> SUFFICES ASSUME Next, Exists,
                        config' # config \/ lamports'[Vault] < lamports[Vault]
                 PROVE  signer' = admin
      BY <1>1 DEF vars
    <2> USE <1>1, ProgramAssumption DEF ProgramInv
    <2>1. ASSUME NEW payer \in Wallet, NEW n \in Nat,
                 lamports[payer] >= n, lamports' = Move(lamports, payer, Vault, n)
          PROVE  ~(lamports'[Vault] < lamports[Vault])
      <3>1. payer \in Account /\ Vault \in Account /\ payer # Vault
            /\ lamports[Vault] \in Nat /\ lamports \in [Account -> Nat]
        BY DEF Account, TypeOK
      <3>2. lamports'[Vault] = lamports[Vault] + n
        BY <2>1, <3>1, MoveIsTransfer
      <3> QED BY <3>1, <3>2
    <2>2. ASSUME NEW by \in Wallet, NEW n \in Amounts, Donate(by, n)
          PROVE  FALSE
      BY <2>1, <2>2 DEF Donate, CanPay
    <2>3. ASSUME NEW payer \in Wallet, Charge(payer) PROVE FALSE
      BY <2>1, <2>3 DEF Charge, CanPay, TypeOK
    <2> QED BY <2>2, <2>3 DEF Next, Initialize, UpdateDeposit, WithdrawFunds, Sign,
               SignBidirectional, IsAdmin, Signed
  <1> QED BY <1>1, Invariance, PTL DEF Spec, AdminControls
=============================================================================
