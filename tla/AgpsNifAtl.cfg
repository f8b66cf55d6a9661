SPECIFICATION FairSpec
CONSTANTS
  ID <- Clients
  BIT <- Addresses
  Kind = "ATL"
  MaxPipe = 4
INVARIANTS ListMatchesState ClientServed OpenIsReal
PROPERTIES RequestAnswered LeaseSpec
