SPECIFICATION Spec
CONSTANTS
    MaxGeneration = 2
    max_attempts = 2
    MAX_DELIVERY_ATTEMPTS = 2
    Orders <- MCOrders
    MaxFaults = 1
INVARIANTS TasksInv RunsInTurn
PROPERTIES OldGenerationsStayBack CutOverIsFinal
CHECK_DEADLOCK FALSE
