SPECIFICATION Spec
CONSTANTS
  Kinds = {"Request", "Response", "ProtocolError"}
  Budget = 3
  Entries = 2
  Sizes = {0, 5, 11, 23, 43, 61, 70, 72, 89, 95, 130, 138, 153, 192, 240}
INVARIANTS
  RoundTrip
  OnlyWholePayloads
  DecodesOnlyEncodings
  ClaimsWithinThePayload
