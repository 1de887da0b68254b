SPECIFICATION FairSpec
CONSTANTS
  r0 = r0
  r1 = r1
  r2 = r2
  NoTree = NoTree
  NoRelease = NoRelease
  BadReceipt = BadReceipt
  Releases <- MCReleases
  Wants <- MCWants
  ArchiveOf <- MCArchiveOf
  LegacyRelease = r0
  HaveStock = FALSE
  MaxFaults = 2
INVARIANTS FallbackKept UnconfirmedIsJournaled BootsWholeGuest RuntimeReceiptIsTruthful CommitKeepsATree
PROPERTIES Promise RecoveryLaunchIsFrozen PendingSettles AlwaysBootsAgain
