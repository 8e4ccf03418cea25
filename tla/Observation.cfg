SPECIFICATION Spec
CONSTANTS
  MaxIncarnation = 2
  MaxSequence = 2
  RecordLimit = 1
  Callers = {c1, c2}
  Requests = 2
  Identities = {ours}
  NoIdentity = NoIdentity
  Served = ours
  Floor = 1
  Handshake = 1
  ScanLimit = 1
  Deadline = 2
  PreExpiry = 2
  Expiry = 3
  Cadence = 2
  Slack = 1
  FixedCharge = 8
  DecoderCharge = 16
  CaptureCharge = 32
  ResponseCharge = 2
  Ceiling = 92
  Nobody = Nobody
SYMMETRY CallerSymmetry
INVARIANTS
  ReservationsAlwaysFit
PROPERTIES
  AnswersAreFresh
  AnswerMeetsDemand
  ScansAreApart
  RestartNeedsRetry
  KeepsObservationPromise
