\* IpcServer.cpp:257: closing the listening socket lets the thread exit.
SPECIFICATION FairSpec
CONSTANTS
  b1 = b1
  b2 = b2
  Handles = {h1, h2}
  Invalid = Invalid
  MaxForeign = 0
  Builds = {b1, b2}
  Bytes <- MCBytes
  Image <- MCImage
  Pattern <- MCPattern
  Wild = Wild
  Home <- MCHome
  TornAddr = 99
  MaxTorn = 0
PROPERTY ThreadCanExit
