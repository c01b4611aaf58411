SPECIFICATION Spec
CONSTANTS
  Role = "relay"
  QUEUELENGTH = 3
  SLOTFRAME_LENGTH = 3
  NUM_EB_SLOTS = 1
  NUM_TXRX_SLOTS = 1
  DESYNCTIMEOUT = 3
  EB_SLOWHOPPING_PERIOD = 2
  LIGHT_BURSTSIZE = 2
  SYNCNUMS = 2
INVARIANTS
  TypeOK
  MacOwnsDataToSend
  OneTaskPerPacket
  NoBufferStranded
  NoCritical
  WatchdogArmed
  StatesOfMode
  AlignedWhenSynced
  EbOnlyInEbSlot
  DesyncRuns
PROPERTIES
  PoolSpec
  LeaseSpec
  PoolReturned
  ListensAgain
