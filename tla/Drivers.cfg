\* Two tasks call the operations of one of the drivers.
CONSTANTS
    Tasks = {t1, t2}
    Nobody = Nobody
    PwmPins = {"PC8", "PB0", "PB5"}
    Periods = {1, 2}
    PulseWidths = {1}
    ArrSize = 4
    Converters = {1, 2}
    AdcPins = {"PA1", "PA2"}
    SeqMax = 3
    AnyOrder = FALSE
    Sizes = {1, 2, 3}
    PeriphClock = 42000000
    SpiClocks = {100000, 164062, 164063, 5249999, 10500000, 42000000}
    SharedDevice = FALSE
    GpioPins = {0, 1, 16}
    PowerLed = 1
    Objects = {1, 2, 3}
    SamePin = FALSE
    Kept = TRUE
    RingLen = 3
    Lengths = {1, 3}
    MaxBytes = 5
    Reconfigures = FALSE
    NumBlocks = 4
    GrainsPerBlock = 3
    GrainSize = 2
    HeaderSize = 1
    SizeWord = 32
    MallocSizes = {1, 5, 6, 23}
    BeyondFree = FALSE
    StreamLen = 3
    Nums = {0, 1, 3}
    MaxWritten = 6
    HoldLen = 3
    BufLen = 5
    Overlong = FALSE
    IntBits = 6
    Bases = {1, 2, 10, 35, 36}
    TextLens = {0, 1, 2, 3, 4, 7, 8, 9}
    ParseLen = 4
    MemLen = 5
    StringLen = 2
    StackWords = 14
    MaxPushed = 1
    Pcs = 2
    FpuTasks = FALSE
    AtomicWord = 4
    Operands = {1, 2}
    Clears = TRUE
    ShellBufMax = 4
    ShellHistory = 2
    Printable = {"a", "b", "space"}
    TableFails = FALSE
    Items = {1, 2}
    ListLen = 4
    FdtNodes = 2
    MaxTries = 2
    Hurried = FALSE
    Requests = 3
    Duplicates = FALSE
    Aborts = FALSE
    Messages = 3
    Periphs = {"SPI1", "SPI2", "I2C1", "GPIOA"}
    SameBus = FALSE
    Opposed = FALSE
    LowerCounts = 2
    MaxCount = 7
    Cold = FALSE
    WriteLens = {1, 3}
    FifoLen = 2
    FdtSizes = {44, 104}
    MaxNodes = 3
    MaxEdits = 2
    DeviceAsked = {64}
    ConfigAsked = {255}
    Addresses = {5, 9}
    MaxResets = 2
    Raises = {{11}, {1, 7, 14, 21, 31}}
    MaxRaised = 1
    ResetClears = TRUE
    PinPools = {{6, 7, 8}, {13, 14, 15}}
    TreePeriphs = {29, 41, 60}
    PwmTimers = {4, 12}
    Formats <- MCFormats
    Apps <- MCApps
    Entries <- MCEntries
    PinPairs <- MCPinPairs
SPECIFICATION MCSpec
SYMMETRY Symmetry
INVARIANTS
    TypeOK SomeoneGoesOn    
      ContextsKept  ConversionsExact BootSpeaks
PROPERTY InOrder
\* An I2C port that cannot be initialized stays locked.
CHECK_DEADLOCK FALSE
