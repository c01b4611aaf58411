SPECIFICATION Spec
CONSTANTS
  r = r
  a = a
  b = b
  c = c
  Motes = {r, a, b, c}
  Root = r
  NoMote = NoMote
  Hears <- HearsAll
  Parents <- NoParents
  Reboots = {}
  SLOTFRAME_LENGTH = 1
  NUM_EB_SLOTS = 1
  NUM_TXRX_SLOTS = 0
  chTemplateEB <- EbChannels
  chTemplate <- DataChannels
  EB_NUMCHANS = 1
  NUMCHANS = 1
  EB_SLOWHOPPING_PERIOD = 1
  DESYNCTIMEOUT = 4
  SYNCNUMS = 16
  ASNS = 1
PROPERTY JoinsByNewer
