CONSTANTS
  Events = {"delta", "long"}
  Size <- MCSize
  EndSize = 1
  MaxEvents = 3
  MaxBytes = 4
  MaxSent = 6
  MaxRetries = 2
  ValidationRetries = 2
  MaxPieces = 4
SPECIFICATION DeliverySpec
INVARIANTS
  MemoryBounded
  AnswerIsOneReply
  PaidForAnalysis
  ConsultationIsCoherent
PROPERTIES
  ImplementsStream
  DeliveryEnds
CHECK_DEADLOCK FALSE
