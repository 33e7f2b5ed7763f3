SPECIFICATION PmmSpec
CONSTANTS
  c1 = c1
  c2 = c2
  Clients <- MCClients
  E820Maps <- MapsOfAssumedSize
  FRAMES_4GB = 40
  LOW = 4
  WORD_BITS = 2
  WORDS_PER_PAGE = 3
  KMALLOC_RESERVED_PAGES = 2
  KMALLOC_PMM_SKIP = 2
  KMALLOC_PAGES = 2
INVARIANTS
  HeldOnce
  FreeCountExact
  BitmapReserved
  HeapReserved
