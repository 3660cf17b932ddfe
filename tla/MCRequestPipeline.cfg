\* Every route and billing mode; streams of up to four events, also longer than
\* the capture; one failing statement.
SPECIFICATION FairSpec
CONSTANTS
  Routes = {"chat", "messages", "embeddings", "images"}
  Modes = {"unlimited", "credit_package", "payg_topup"}
  MaxEvents = 4
  CaptureLimit = 6
  MaxAttempts = 3
  MaxFaults = 1
  CallbackEnabled = TRUE
  InputPrice = 1
  OutputPrice = 2
  Prompt = 7
  Completion = 3
  Running = 1
  TextChars = 5
  Bucket = 4
  Price = 2
CHECK_DEADLOCK FALSE
INVARIANTS ForwardedFaithfully SentOnce ChargedForService CompletionCharged UsageAsReported  SettledOnce ChargeMatchesRow EmbeddingsBilled
PROPERTY RequestEnds
