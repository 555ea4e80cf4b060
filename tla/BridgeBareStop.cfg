SPECIFICATION FairSpec
CONSTANTS
    Kinds = {"plain", "stop"}
    AnswersTo <- IgnoresBareStops
    RetryLimits = {1}
    MaxMessages = 2
    MaxSaveFailures = 0
    MaxCrashes = 0
PROPERTY EveryMessageIsHandled
