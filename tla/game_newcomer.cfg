CONSTANTS
    c1 = c1
    c2 = c2
    c3 = c3
    x1 = x1
    x2 = x2
    NoOne = NoOne
    Clients <- Three
    Cells <- Two
    Lines <- OneLine
    Environments <- Newcomer

SPECIFICATION Spec
PROPERTY SeatsAlternate
CHECK_DEADLOCK FALSE
