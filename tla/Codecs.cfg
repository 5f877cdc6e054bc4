SPECIFICATION CodecsSpec
CONSTANTS
    Inputs <- MCInputs
    Chars <- MCChars
    BlockSize = 3
    HashSize = 2
    AzureSize = 4
    Width = 256
    ByteLength = 16
 
INVARIANT IdIsDigits
CHECK_DEADLOCK FALSE
