SPECIFICATION FairDaemonSpec
CONSTANTS
  Boot = main
  Callers = {watchdog, timer}
  Catalogs = {k1, words}
  Empty = empty
  Words = words
  Fleet <- AllDaemons
  Rotators = {timer}
  Outages = TRUE
INVARIANTS
  DaemonTypeOK
  RecoveryNotOvertaken
  ProtocolSetWhenIdle
  SuccessWitnessed
  NeverEmptyAfterBoot
PROPERTIES
  GoodCatalogKept
  WedgeHealed
