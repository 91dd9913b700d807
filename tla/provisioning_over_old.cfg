SPECIFICATION ProvSpec
CONSTANTS
    SERIAL_MAX_CHARS = 3
    Bits = {0, 1, 2}
    Magic = 4
    Printable = {1, 2}
    Erased = 7
    Serials <- MCSerials
INVARIANT HalfWrittenRefused
