CONSTANTS
    Employees = {Ann, Ben}
    Boss = Ann
    Devices = {v1, v2}
    MaxHours = 1
    MaxPresses = 2
    None = None
SPECIFICATION Spec
SYMMETRY Alike
INVARIANTS CodeGivenHere ResetSignsOut
CHECK_DEADLOCK FALSE
