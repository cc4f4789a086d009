SPECIFICATION Spec
CONSTANTS
  alice = alice
  bob = bob
  Wallet = {alice, bob}
  DefaultKey = DefaultKey
  Vault = Vault
  Nobody = Nobody
  InitialLamports <- Balances
  RentMin = 2
  Amounts = {0, 1, 2, 3}
  MaxTxs = 6
CHECK_DEADLOCK FALSE
INVARIANT InitializedOnce
