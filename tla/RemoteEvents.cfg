SPECIFICATION FairSpec
CONSTANTS
  lan = lan
  relay = relay
  Link = {lan, relay}
  Rank <- MCRank
  None = None
  Capacity = 1
  MaxEvents = 2
  MaxConnects = 2
  MaxRestarts = 1
INVARIANT TypeOK
PROPERTIES
  ImplementsFeed
  GapCloses
CHECK_DEADLOCK FALSE
