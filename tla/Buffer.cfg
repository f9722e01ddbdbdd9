SPECIFICATION Spec
CONSTANTS
    Byte = {0, 1}
    Zero = 0
    kCheapPrepend = 2
    kInitialSize = 2
    ExtraSize = 2
    MaxLen = 3
    MaxReadable = 4
INVARIANTS IndexesOrdered SizeBounded ByteQueue
