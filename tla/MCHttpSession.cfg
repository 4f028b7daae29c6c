SPECIFICATION FairSpec
CONSTANTS
  Session <- Two
  Tokens <- TwoAnswers
  PendingMax = 1
  Permits = 1
INVARIANTS TypeOK AnswerInOrder BufferedOnlyAfterEnd EndKeepsAll
PROPERTIES RequestsEnd
CHECK_DEADLOCK FALSE
