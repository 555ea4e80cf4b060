SPECIFICATION Spec
CONSTANTS
    c1 = c1
    c2 = c2
    reply = reply
    task = task
    stopRoom = stopRoom
    stopTask = stopTask
    T = T
    NoTask = NoTask
    NoItem = NoItem
    NoCall = NoCall
    NoAnswer = NoAnswer
    Nobody = Nobody
    Human = Human
    Items <- MCItems
    Texts = {"hi", "done"}
    Threads = {c1}
    Requests = {reply, task}
    Calls <- TwoCalls
    Barriers = {stopRoom, stopTask}
    BarrierOf <- MCBarrierOf
    HumanCopies <- NoCopies
    MaxRows = 1
    MaxCrashes = 1
INVARIANT SuppressedOnlyByLaterStop
PROPERTY PressRespectsBarrier
PROPERTY KeepsPromise
