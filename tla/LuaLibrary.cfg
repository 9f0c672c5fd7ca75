SPECIFICATION SpecStandard
CONSTANTS
  Kanji <- MCKanji
  Mixed <- MCMixed
  Unicode <- MCUnicode
  Patterns <- MCPatterns
  Subjects <- MCSubjects
  Openings <- MCOpenings
  Lexemes <- MCLexemes
  Gaps <- MCGaps
  Quotable <- MCQuotable
  Arrays <- MCArrays
  Words <- MCWords
  Formats <- MCFormats
  CHAR_BIT = 2
  Protos <- MCProtos
  BadCode <- MCBadCode
  LUAI_MAXCCALLS = 3
INVARIANTS EncodingsAreSound MatchingIsExact ProgramsAreReadBack ValuesAreReadBack
CHECK_DEADLOCK FALSE
