\* Two retries, every kind of request, server and answer.
SPECIFICATION FairSpec
CONSTANTS
  RetryMax = 2
INVARIANTS AuthVerdictTruthful
PROPERTIES ImplementsCall
\* The one call ends.
CHECK_DEADLOCK FALSE
