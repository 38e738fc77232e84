CONSTANTS
  Statements = {"begin", "end", "work"}
  MaxExchanges = 3
  MaxBatch = 1
  Pipelines = TRUE
SPECIFICATION FairSpec
INVARIANTS TypeOK NoneTooMany AnswersAreTrue QuietMeansDone
PROPERTIES ExchangesEnd
CHECK_DEADLOCK FALSE
