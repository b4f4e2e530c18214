SPECIFICATION TickSpec
CONSTANTS
    Base = 3
    Width = 16
    MaxBehind = 7
INVARIANTS NeverAhead
PROPERTY BeatKept
