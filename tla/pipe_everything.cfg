SPECIFICATION Spec
CONSTANTS
    EP0_MAX_PACKET = 2
    MAX_REPLY = 5
    Addresses = {0, 1, 2}
    NoAddr = NoAddr
    Traffic = "everything"
    PromptIsr = TRUE
    Requests <- MCRequests
    Abandonable <- MCAbandonable
    OnceAddressed <- MCOnceAddressed
INVARIANT TypeOK
INVARIANT ReplyInOrder
INVARIANT SetupSupersedes
PROPERTY AddressAfterStatus
