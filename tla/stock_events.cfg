SPECIFICATION AudioSpec
INVARIANT CaptureFollowsAlt
INVARIANT StreamAudible
INVARIANT ChainsAgree
PROPERTY DeferredAnswered
