CONSTANTS
  Names <- SomeNames
  Values <- SomeValues
  Foreign <- SomeForeign
  MaxEdits = 2
SPECIFICATION Spec
INVARIANTS TypeOK EncodersAgree UneditedIsAccepted SignatureCoversContent NodeIsNoLooser
CHECK_DEADLOCK FALSE
