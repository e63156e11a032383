SPECIFICATION Spec
CONSTANTS
  NumSlots = 2
  HashOf <- MCHashOf
  NullString = NullString
  Texts <- MCTexts
  Behinds = {"NUL", "=", "f"}
INVARIANTS
  OneStringPerContent
  TokensAreTheText
CHECK_DEADLOCK FALSE
