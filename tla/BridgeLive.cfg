SPECIFICATION FairSpec
CONSTANTS
    Kinds = {"plain", "stop"}
    AnswersTo <- HeedsStops
    RetryLimits = {2}
    MaxMessages = 2
    MaxSaveFailures = 0
    MaxCrashes = 0
PROPERTY EveryMessageIsHandled
