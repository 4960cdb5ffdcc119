SPECIFICATION Spec
CONSTANTS
  Directives <- MCDirectives
  Specs <- MCSpecs
  Cells <- MCCells
  Worlds <- MCWorlds
  Aliases = {"board", "lamp"}
  Hashes = {"h1", "h2"}
  MaxServed = 3
  NoValue = NoValue
INVARIANTS TypeOK ClaimIsLicensed EffectsAreNeverAuthored ForeignClaimsOnlyDelay
PROPERTIES RepairsAdvance
