SPECIFICATION LibSpec
CONSTANTS
  Messages <- MCMessages
  FieldList <- MCFieldList
  FieldCallback <- MCFieldCallback
  DefaultValue <- MCDefaultValue
  DefaultOfDef <- MCDefault
  Senders <- MCSenders
  UnknownFields <- MCUnknownFields
  Receiver <- MCReceiver
  ComponentMax = 4
  NameMax = 32
  WordBits = 2
  TickLimit = 16
  Classes <- MCClasses
  Seeds = {1, 42}
  Jumps <- MCJumps
  Tables <- MCTables
INVARIANTS
  FieldsRoundTrip
  DecodeBounded
  SizesAgree
  
  UintExact
  AdvanceIsSteps
  DistanceExact
CHECK_DEADLOCK FALSE
