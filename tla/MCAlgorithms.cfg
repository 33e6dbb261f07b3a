SPECIFICATION Spec

CONSTANTS
  MaxInstant = 12
  Second = 2
  MaxDuration = 27

  Hashes <- MCHashes
  HashWidth = 1
  Files <- MCFiles
  MaxLines = 3
  MaxWidth = 3

  None = None
  MaxI64 = 50
  MaxCount = 9
  MaxDelay = 9
  Policies <- MCPolicies
  Attempts <- MCAttempts

  NoLimit = NoLimit
  Numerals <- MCNumerals
  MaxRequests = 10
  MaxMillis = 1000000000
  JsonLimits <- MCJsonLimits
  Labels = {"login", "search"}
  UnsafeLabels = {"log in"}
  SubjectChars = {"a", ":", "@"}
  MaxPart = 2
  MaxKey = 16

  Rejected = Rejected
  TextChars <- MCTextChars
  MaxText = 3
  max_len = 2

  PartChars = {"1", ":"}
  MaxKeyPart = 2

  DeviceTexts <- MCDeviceTexts
  Domains <- MCDomains
  Keys = {k1}
  MaxDeviceText = 4
  Nobody = Nobody

INVARIANTS
  ClosedForm
  LongTTLsStayLong
  FindsWhatIsListed
  AnswersAreJustified
  BackoffAsConfigured
  LimitsAsWritten
  KeysStayApart
  StoredTextComesBack

PROPERTY
  EveryComputationEnds

\* Computations end.
CHECK_DEADLOCK FALSE
