SPECIFICATION FairSpec
CONSTANTS
  alice = alice
  bob = bob
  here = here
  there = there
  Callers <- MCCallers
  Langs <- MCLangs
  Places <- MCPlaces
  Families <- MCFamilies
  Malformed <- MCMalformed
  Ttl <- MCTtl
  Page = 2
  CatalogTtl = 2
  MaxTime = 4
  MaxCalls = 3
INVARIANTS
  TypeOK
  YoungEnough
  AnswersItsQuestion
  FailureIsNoAnswer
  EmptyIsSeenFirstHand
PROPERTIES
  ReplacedOnlyWhenStale
  EveryCallEnds
CHECK_DEADLOCK FALSE
