CONSTANTS
    Session = {s1, s2, s3}
    NoSession = NoSession
    MinCapacity = 1
    QueueMax = 3
    HelpLines = 2
SPECIFICATION Spec
INVARIANT BroadcastMissesNobody
CHECK_DEADLOCK FALSE
