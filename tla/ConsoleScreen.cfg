\* Terminals below, at and above the sizes the layout turns on.
CONSTANTS
    Width = {40, 66, 71, 80, 108, 145}
    Height = {10, 23, 24, 25, 26, 27, 33, 34, 35, 40, 47, 52, 61}
    MaxViewers = 9
    QRHeight = {0, 19}
    InfoRows = {14, 21}
SPECIFICATION ScreenSpec
INVARIANT EveryRowIsSpent
CHECK_DEADLOCK FALSE
