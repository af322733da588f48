\* Every type of event, appended, retried and read back.
CONSTANTS
  Null = Null
  Offers <- MCOffers
  Secrets = {"key"}
  Masked = "[REDACTED]"
  Basename <- MCBasename
  Clock <- MCClock
  MaxAppends = 3
SPECIFICATION Spec
INVARIANTS
  RecordsTypeOK
  EveryRowHydrates
  AcceptedReadsBack
CHECK_DEADLOCK FALSE
