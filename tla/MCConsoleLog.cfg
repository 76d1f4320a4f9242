CONSTANTS
    Session = {s1, s2}
    NoSession = NoSession
    MinCapacity = 1
    QueueMax = 4
    HelpLines = 2
SPECIFICATION Spec
INVARIANT LogHasRoom
CHECK_DEADLOCK FALSE
