\* The plugin over several WA processes: load, serve, stop, crash, update.
SPECIFICATION FairSpec
CONSTANTS
  b1 = b1
  b2 = b2
  Handles = {h1, h2, h3}
  Invalid = Invalid
  MaxForeign = 1
  Builds = {b1, b2}
  Bytes <- MCBytes
  Image <- MCImage
  Pattern <- MCPattern
  Wild = Wild
  Home <- MCHome
  TornAddr = 99
  MaxTorn = 1
INVARIANTS
  TypeOK
  ClientIsServed
  HandleIsOwn
  NothingLeftOpen
  AllOrNothing
  WrongHooksComeFromFile
PROPERTY WaitingIsServed
