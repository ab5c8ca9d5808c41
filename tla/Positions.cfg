SPECIFICATION PositionSpec
CONSTANTS
    None = None
    MaxPieces = 3
    Books <- SomeBooks
    Replacements <- SomeReplacements
INVARIANTS
    PositionTypeOK
    PlaceKept
PROPERTIES
    NoDrift
