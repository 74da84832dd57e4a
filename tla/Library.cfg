SPECIFICATION MCSpec
CONSTANT NoPointer = NoPointer
VIEW MCView
INVARIANTS
  FunctionsRight
  PrintsRight
PROPERTIES
  ImplementsLists
  ImplementsDictionary
  BitmapsRight
  HeadersRight
