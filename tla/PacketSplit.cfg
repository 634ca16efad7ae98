SPECIFICATION Spec
CONSTANTS
  Calls <- MCCalls
  Limits = {0, 12, 16, 24, 44, 53, 66, 70}
  MSSmax = 53
  Pads = {0, 3, 40, 200}
  Content <- MCContent
  Fixed = 65533
INVARIANTS
  TypeOK
  Tiling
  Complete
  FragmentHeaders
  
  SequenceContinues
  ChecksumsVerify
  OnlySegmentsStay
PROPERTIES
  LoopsEnd
