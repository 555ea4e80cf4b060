SPECIFICATION Spec
CONSTANTS
    c1 = c1
    c2 = c2
    reply = reply
    task = task
    stopRoom = stopRoom
    stopTask = stopTask
    T = T
    NoTask = NoTask
    NoItem = NoItem
    NoCall = NoCall
    NoAnswer = NoAnswer
    Nobody = Nobody
    Human = Human
    Items <- MCItems
    Texts = {"hi", "done"}
    Threads = {c1, c2}
    Requests = {reply}
    Calls <- ConflictingCalls
    Barriers = {stopRoom}
    BarrierOf <- MCBarrierOf
    HumanCopies <- LateCopies
    MaxRows = 1
    MaxCrashes = 1
SYMMETRY ThreadSymmetry
INVARIANT SenderInv
INVARIANT AtMostOnePress
INVARIANT PressIsOnDisk
INVARIANT MemoryIsDurable
INVARIANT SentAnswerIsThisText
PROPERTY NegativeAnswersAreTrue
INVARIANT ConfirmedByOwnRow
