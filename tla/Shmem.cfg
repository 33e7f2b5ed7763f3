SPECIFICATION Spec
CONSTANTS
  a = a
  b = b
  bx = bx
  E820Maps <- MCMaps
  FRAMES_4GB = 20
  LOW = 4
  WORD_BITS = 4
  WORDS_PER_PAGE = 2
  KMALLOC_RESERVED_PAGES = 1
  KMALLOC_PMM_SKIP = 1
  KMALLOC_PAGES = 1
  VIRT_PAGES = 5
  FB_PAGES = {2}
  DIR_PAGES = 2
  SHMEM_MAX = 2
  PAGE_SIZE = 4
  WORD = 32
  Sizes <- MCSizes
  Names <- MCNames
  Cut <- MCCut
INVARIANTS
  FramesConserved
  PagesOwned
  RegionsServe
PROPERTIES
  AddressesNotReused
