SPECIFICATION Spec
CONSTANTS
  Kanji = {}
  Mixed = {}
  Unicode = {}
  Patterns <- MCPatterns
  Subjects <- MCSubjects
  Openings = {}
  Lexemes = {}
  Gaps = {}
  Quotable = {}
  Arrays = {}
  Words = {}
  Formats = {}
  CHAR_BIT = 2
  Protos = {}
  BadCode = {}
  LUAI_MAXCCALLS = 3
INVARIANT MatchReturns
CHECK_DEADLOCK FALSE
