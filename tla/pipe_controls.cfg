SPECIFICATION Spec
CONSTANTS
    EP0_MAX_PACKET = 2
    MAX_REPLY = 5
    Addresses = {0, 1, 2}
    NoAddr = NoAddr
    ByteBase = 4
    PromptIsr = TRUE
    PromptAck = TRUE
    PromptLoop = TRUE
    Images = {"mboxfw", "safety_net", "rev22"}
    Requests <- MCRequests
    Abandonable <- MCAbandonable
    OnceAddressed <- MCOnceAddressed
INVARIANT ToggleAgrees
INVARIANT CanarySound
PROPERTY RefinesTransfer
PROPERTY TransferEnds
