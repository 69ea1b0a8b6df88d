SPECIFICATION PagingSpec
CONSTANTS
  PAGE = 2
  ENTRIES = 8
  LOW_TABLES = 2
  FB_TABLES = 2
  MMIO_TABLES = 1
  FB_PD = 4
  FB_MAX_MAP_SIZE = 32
  LOW_MMIO_BASE = 480
  LOW_MMIO_LIMIT = 496
  LOW_MMIO_MIN = 256
  BAR_MAX = 32
  BAR_DEFAULT = 8
  HEX_SAFE_MIN = 2
  HEX_SAFE_MAX = 32
  HEX_DUMP_MAX_BYTES = 4
  FbAddrs = {416, 500, 508, 511, 512, 513, 530}
  FbBytes = {6, 7, 16, 31, 32, 40}
  BarAddrs = {288, 448, 464, 480, 488, 496, 504, 508, 512, 576}
  BarSizes = {4, 8, 16, 32, 64, 128}
INVARIANTS HexDumpIsMapped WindowsMapped
CHECK_DEADLOCK FALSE
