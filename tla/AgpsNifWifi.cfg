SPECIFICATION FairSpec
CONSTANTS
  ID <- Senders
  BIT = {}
  Kind = "WIFI"
  MaxPipe = 5
PROPERTIES CloseCompletes
