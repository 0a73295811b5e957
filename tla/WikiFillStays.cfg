SPECIFICATION BundleSpec
CONSTANTS
    MaxWrites = 1
PROPERTIES
    FillTouchesItsSlot
CHECK_DEADLOCK FALSE
