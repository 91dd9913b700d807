SPECIFICATION Spec
INVARIANT StreamReady
INVARIANT MuteRespected
INVARIANT LatchesAgree
INVARIANT CalibrationStands
INVARIANT SlavedWhileSpdif
