SPECIFICATION Spec
CONSTANTS
  ID <- Clients
  BIT <- Addresses
  Kind = "ATL"
  MaxPipe = 4
INVARIANTS NoIdleInterface
