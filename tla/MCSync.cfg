SPECIFICATION SyncFairSpec
CONSTANTS
  U1 = U1
  U2 = U2
  U3 = U3
  Users = {U1, U2, U3}
  Coroutines <- Parties
  Unlocked = Unlocked
  Null = Null
  Roles <- RolesOfUses
  Uses = {"mutex", "condition_variable", "notifiers", "channel"}
  MaxTokens = 2
  Capacity = 1
  MaxSends = 1
CHECK_DEADLOCK FALSE
INVARIANTS TypeOK MutualExclusion WaitersAreListed SleepersAreChained NoLostNotify NobodyWaitsInVain ExactlyOnce DrainedBeforeClosed
PROPERTIES FifoSpec WaitersAreServed
