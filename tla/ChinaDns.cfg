SPECIFICATION FairSpec
CONSTANTS
    MaxId = 2
    QueueLen = 2
    DelayLen = 3
    Delay = 1
    MaxQuery = 4
    MaxAnswer = 3
INVARIANTS
    IdsDistinct
    DelaySlotsOwned
    AnswersItsQuestion
PROPERTIES
    ForeignAnswerReachesClient
