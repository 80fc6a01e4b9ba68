\* A program may end with every dispatch made.
CONSTANTS
    f = f  g = g  e1 = e1  e2 = e2
    Callbacks <- MCCallbacks
    EventObjects <- MCEventObjects
    MaxRegistrations = 3
    MaxDispatches = 3
SYMMETRY MCSymmetry
SPECIFICATION EventsSpec
PROPERTY EachInTurn
CHECK_DEADLOCK FALSE
