SPECIFICATION Spec
CONSTANTS
    c1 = c1
    c2 = c2
    reply = reply
    task = task
    stopRoom = stopRoom
    stopTask = stopTask
    T = T
    NoTask = NoTask
    NoItem = NoItem
    NoCall = NoCall
    NoAnswer = NoAnswer
    Nobody = Nobody
    Human = Human
    Items <- MCItems
    Texts = {"hi", "done"}
    Threads = {c1}
    Requests = {reply}
    Calls <- ReplyCall
    Barriers = {stopRoom}
    BarrierOf <- HarmlessBarrierOf
    HumanCopies <- PromptCopies
    MaxRows = 1
    MaxCrashes = 0
INVARIANT ConfirmedByOwnRow
