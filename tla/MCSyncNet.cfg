SPECIFICATION Spec
CONSTANTS
  r = r
  a = a
  b = b
  c = c
  Motes = {r, a, b}
  Root = r
  NoMote = NoMote
  Hears <- HearsAll
  Parents <- Line
  Reboots = {b}
  SLOTFRAME_LENGTH = 3
  NUM_EB_SLOTS = 1
  NUM_TXRX_SLOTS = 1
  chTemplateEB <- EbChannels
  chTemplate <- DataChannels
  EB_NUMCHANS = 2
  NUMCHANS = 6
  EB_SLOWHOPPING_PERIOD = 2
  DESYNCTIMEOUT = 4
  SYNCNUMS = 4
  ASNS = 6
INVARIANTS TypeOK OneTimeBase
PROPERTIES JoinsInEbSlot LeaseSpec Rejoins
