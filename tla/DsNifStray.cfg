SPECIFICATION DsSpec
CONSTANTS
  ID = {1, 2}
  NoHandle = 0
  MAX_START_DATA_CALL_RETRIES = 1
  MaxQueue = 3
  MaxTimers = 2
PROPERTY NoStrayGrant
