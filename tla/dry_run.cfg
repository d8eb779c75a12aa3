SPECIFICATION Spec
CONSTANTS
  Bits = 3
  NoByte = NoByte
  Retries = 2
  Addr <- OurAddress
  Call <- DryRuns
  NoCall = NoCall
PROPERTY DryRunGoesOn
