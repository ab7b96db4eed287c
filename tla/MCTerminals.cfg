SPECIFICATION Spec
CONSTANTS
    WIDTH = 640
    HEIGHT = 96
    FontWidth = 8
    FontHeight = 16
CONSTRAINT OnePrinter
INVARIANTS
    CursorsInWindows
    PrintersApart
