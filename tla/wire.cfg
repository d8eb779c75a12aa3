SPECIFICATION FairSpec
CONSTANTS
  Bits = 3
  NoByte = NoByte
  Retries = 2
  Addr <- OurAddress
  Call <- Calls
  NoCall = NoCall
INVARIANT TypeOK
PROPERTY FramedByEdges
PROPERTY BusFreed
PROPERTY RefinesDevice
PROPERTY CallReturns
