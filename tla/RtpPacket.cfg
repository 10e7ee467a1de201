SPECIFICATION Spec
CONSTANTS
  MaxCsrc = 2
  MaxWords = 1
  MaxPayload = 2
  MaxPadding = 2
  CsrcIds <- MCCsrcIds
  ExtensionIds <- MCExtensionIds
  FixedFields <- MCFixedFields
  Payload <- MCPayload
  Stray <- MCStray
INVARIANTS
  ReadsBack
  CutIsNoticed
CHECK_DEADLOCK FALSE
