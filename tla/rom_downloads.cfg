CONSTANTS
    b1 = b1
    b2 = b2
    r1 = r1
    r2 = r2
    NoRom = NoRom
    NoOne = NoOne
    Browsers <- TwoBrowsers
    Roms <- TwoRoms
    Size <- SmallSizes
    Environments <- Users

SPECIFICATION FairSpec
INVARIANTS TypeOK OneTransfer PiecesAccounted FirstRomRight
PROPERTY PortReleased
CHECK_DEADLOCK FALSE
