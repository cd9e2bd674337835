SPECIFICATION PartsSpec
CONSTANTS
    Letters = {"a", "b"}
    MaxLen = 4
    DIRSIZ = 3
    Width = 8
    BufSize = 4
    Streams <- MCStreams
    Units = 10
    Chunk = 3
    Requests = {2, 3, 4}
    BSIZE = 2
    NDIRECT = 2
    NINDIRECT = 2
    NINODES = 6
    IPB = 2
    BPB = 32
    FSSIZE = 30
    LOGSIZE = 2
    CommandLines <- MCCommandLines
    MaxCodes = 3
    NCPU = 2
    SECTSIZE = 4
    PHYSTOP = 21
    Firmware <- MCFirmware
    Kernels <- MCKernels
    Processor = {0, 1}
    Proc = {p1, p2}
    Actor = {"intr", "fg"}
    ROWS = 2
    COLS = 2
    TABW = 2
    BYTE = 3
    INPUT_BUF = 2
    ReadSize = 2
    Keys = {"a", "nl", "D", "H", "U", "P"}
    Chars = {"a", "nl", "tab"}
    MaxKeys = 3
    MaxVi = 1
CONSTRAINT UntilMarked
INVARIANTS LibRight HeapInv ImageInv KeyboardInv StartedRight LocksInv InputInv ScreenInv
