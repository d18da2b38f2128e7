SPECIFICATION FairSpec
CONSTANTS
  PendantPayload = {p1}
  ManualBody = {s1}
  Fallback = fb
  Empty = empty
  NoMessage = none
  FallbackAge = 1
  MaxMessages = 2
PROPERTIES ImplementsRegister WriterCatchesUp SilenceEndsInFallback ManualCommandIsObeyed ShutdownCompletes
