-------------------------- MODULE MCServerLifecycle --------------------------
EXTENDS ServerLifecycle

Legs(disabled, credentials, substrate_, indexer, contract) ==
  [disableSolana |-> disabled, credentials |-> credentials, substrate |-> substrate_,
   indexer |-> indexer, contract |-> contract]

\* Solana alone; Solana and Midnight; Midnight and Substrate without Solana; and
\* mistakes: no credentials, half of Midnight.
MCConfigs == { Legs(FALSE, TRUE, FALSE, FALSE, FALSE), Legs(FALSE, TRUE, FALSE, TRUE, TRUE),
               Legs(TRUE, FALSE, TRUE, TRUE, TRUE),    Legs(FALSE, FALSE, TRUE, TRUE, TRUE),
               Legs(FALSE, TRUE, TRUE, TRUE, FALSE) }
==============================================================================
