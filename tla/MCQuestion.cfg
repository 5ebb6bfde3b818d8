SPECIFICATION Spec
CONSTANTS
  Networks <- MCNetworks
  Spots <- MCSpots
  Metres <- MCMetres
  Apart <- MCApart
  Fuzzy <- MCFuzzy
  Messages <- MCMessages
  Overrides <- MCOverrides
  Trips <- MCTrips
  ModelTools <- MCModelTools
  PoiFastPath = TRUE
  NoMessage = NoMessage
INVARIANTS
  TypeOK
  SpeaksTheUsersLanguage
  ShortcutIsPlain
  CheapestRoute
  DirectionsLead
