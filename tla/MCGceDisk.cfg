SPECIFICATION Spec
CONSTANTS
    SECTOR_SIZE = 16
    RESERVED = 2
    FSINFO_USED = 10
    TOTAL_SECTORS = 48
    GPT_NUM_ENTRIES = 6
    GPT_ENTRY_SIZE = 4
    U16 = 8
    EspSizes = {14, 20, 21, 22, 23, 24, 25, 26, 27, 28, 29, 30}
    BootSizes = {0, 1, 16, 33, 80}
    KernelSizes = {1, 15, 16, 17, 64, 96, 150}
    RootSizes = {0, 100, 160, 300}
INVARIANTS FatSizeLeast FatSound  TablesSound RootReadBack FinishesIffFits
