CONSTANTS
    Messages <- Objects
    Raw <- Texts
    Other = {"x"}
    Size = 6
    MaxSent = 3
SPECIFICATION Spec
INVARIANTS FramingTypeOK HeardExactly WholeReadsSurvive
CHECK_DEADLOCK FALSE
