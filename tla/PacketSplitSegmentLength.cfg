SPECIFICATION Spec
CONSTANTS
  Calls <- MCCalls
  Limits = {16}
  MSSmax = 53
  Pads = {0, 3, 40, 200}
  Content <- MCContent
  Fixed = 65533
INVARIANT SegmentTotals
