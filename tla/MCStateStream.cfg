\* Six frames, room for two lines and a half between the sockets, two spins.
SPECIFICATION FairSpec
CONSTANTS
  Offline = Offline
  MaxFrames = 6
  Cap = 5
  MaxSpins = 2
INVARIANTS
  TypeOK
  NoTornLine
PROPERTIES
  FrameNeverStalls
  PushedIsShown
  ImplementsChannel
