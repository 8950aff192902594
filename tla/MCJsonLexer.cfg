CONSTANTS
  Document <- MCDocument
SPECIFICATION LexerSpec
CHECK_DEADLOCK FALSE
INVARIANTS
  TokensRead
  PrescanCovers
