SPECIFICATION Spec
CONSTANTS
  Types <- AllTypes
  HeadersResults <- AnyResult
  CallbackMayFail = TRUE
  Limit = 4
VIEW Relevant
INVARIANTS CutsDontMatter AssertsHold BodyExact
PROPERTIES ImplementsContract
CHECK_DEADLOCK FALSE
