SPECIFICATION CSpec
CONSTANTS MaxSent = 3
          MaxConnects = 3
INVARIANTS SentInOrder TerminatedOnlyAfterLoss
PROPERTIES SentOrDown
CHECK_DEADLOCK FALSE
