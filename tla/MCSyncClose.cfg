SPECIFICATION SyncSpec
CONSTANTS
  U1 = U1
  U2 = U2
  U3 = U3
  Users = {U1, U2, U3}
  Coroutines <- Parties
  Unlocked = Unlocked
  Null = Null
  Roles <- RolesOfUses
  Uses = {"channel"}
  MaxTokens = 2
  Capacity = 1
  MaxSends = 1
CHECK_DEADLOCK FALSE
INVARIANTS ClosingWakesAll
