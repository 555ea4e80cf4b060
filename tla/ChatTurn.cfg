SPECIFICATION Spec
CONSTANTS
    Conversations <- MCConversations
    Texts = {t1, t2}
    participating = TRUE
    ParticipationLimit = 1
    MaxMessages = 2
    MaxCrashes = 1
INVARIANTS TurnInv PassiveAskedOnce FollowupsComeSecond
PROPERTY QuietMeansQuiet
SYMMETRY Sayings
CHECK_DEADLOCK FALSE
