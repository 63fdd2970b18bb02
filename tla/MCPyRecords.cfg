SPECIFICATION Spec
CONSTANTS
  None = None
  Specs <- MCSpecs
  Fills <- MCFills
  ValueOf <- MCValueOf
  Versions <- MCVersions
  Lead <- MCLead
  MaxBytes = 40
INVARIANTS
  ReadsWhatWasWritten
  UsageIsWhatWasRead
  DecodersAgree
CHECK_DEADLOCK FALSE
