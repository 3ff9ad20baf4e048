SPECIFICATION FairDaemonSpec
CONSTANTS
  Boot = main
  Callers = {watchdog}
  Catalogs = {k1, words}
  Empty = empty
  Words = words
  Fleet <- OnlyPIA
  Rotators = {}
  Outages = TRUE
PROPERTY WedgeKeepsCatalog
