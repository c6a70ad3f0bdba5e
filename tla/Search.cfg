SPECIFICATION Spec
CONSTANTS
  Long = {"abc", "abcd"}
  Short = {"a", "ab"}
  None = None
  MaxAsks = 2
INVARIANTS TypeOK RowsOfText
PROPERTIES ListSpec
