SPECIFICATION OutboxSpec
CONSTANTS
  MaxEvents = 4
  Cap = 1
  MaxCrashes = 1
INVARIANT LedgerBalances
PROPERTY StoredIsSent
