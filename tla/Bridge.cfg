SPECIFICATION Spec
CONSTANTS
    Kinds = {"plain", "stop", "status", "media", "noise"}
    AnswersTo <- MCAnswersTo
    RetryLimits = {1, 2}
    MaxMessages = 2
    MaxSaveFailures = 1
    MaxCrashes = 1
INVARIANT BridgeInv
INVARIANT PostedFromPending
INVARIANT WatermarkIsFenced
INVARIANT StopAnswerMeansStopped
INVARIANT StopsGoFirst
PROPERTY NothingIsSkipped
PROPERTY NothingOldAfterStopAnswer
PROPERTY NoticeOnlyIfUnanswered
