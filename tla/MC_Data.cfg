CONSTANTS
  Chars <- MCChars
  Lower <- MCLower
  STREAM_SIZE = 60
  READ_SIZE = 240
  Numbers = {0, 2}
  Ints = {0, 1, 2}
  Doubles <- MCDoubles
  Strings = {0, 1, 2}
  Narrow <- MCNarrow
  Unset = Unset
  MaxName = 4
  MaxTerms = 3
  MaxLetters = 2
SPECIFICATION MCSpec
INVARIANTS MessageReturns AnswerFindsSender ShortMessagesFit PortlessUrlIsParsed SameTypeExact
CHECK_DEADLOCK FALSE
