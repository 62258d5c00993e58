CONSTANTS
    b1 = b1
    b2 = b2
    r1 = r1
    r2 = r2
    NoRom = NoRom
    NoOne = NoOne
    Browsers <- TwoBrowsers
    Roms <- TwoRoms
    Size <- SmallSizes
    Environments <- TwoAtOnce

SPECIFICATION Spec
INVARIANT RightRom
CHECK_DEADLOCK FALSE
