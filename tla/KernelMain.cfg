SPECIFICATION Spec
CONSTANTS
  MAX_PATH_COMPONENTS = 3
  Lines <- MCLines
  MAX_LINES = 4
  Hosts <- MCHosts
  Upper <- MCUpper
  CLUSTER_SIZE = 2
  DIR_CAPACITY = 4
  FAT_COUNT = 2
  ROOT_CLUSTER = 2
  FatSizes = {18, 6}
  FAT_ENTRIES = 18
  Volumes <- MCVolumes
  VBR_AT = 0
  STAGE2_AT = 1
  MBR_AT = 5
  FAT_SEC_AT = 6
  KERNEL_AT = 8
  SYSTEM_AT = 18
  OFF_LIMIT = 8
  BiosMaps <- MCBiosMaps
  BOOT_MEMORY_MAP_MAX = 2
  BOOT_MAGIC = 7
  BSS_UNITS = 1
  FIRST_MIB = 24
  BITMAP_FRAMES = 16
INVARIANTS
  ClustersOwnedOnce
  ImageHoldsTree
  ImagesAsBuilt
  KernelStartsAsBuilt
  HaltsForCause
PROPERTY BootEnds
CHECK_DEADLOCK FALSE
