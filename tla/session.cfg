SPECIFICATION SessionSpec
CONSTANTS
  Bytes <- MCBytes
  MaxLength = 8
  Text <- MCText
  CR = "CR"
  LF = "LF"
  socket_read_size = 4
  Commands <- MCCommands
  RawTexts <- MCRawTexts
  Answers <- MCAnswers
INVARIANTS BufferTypeOK CommandsArriveWhole AnswersArriveWhole ReadersUnderstand NothingIsLeftBetweenCalls
PROPERTIES ReadsAreExact CommandsAreAnswered
