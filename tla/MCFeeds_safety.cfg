SPECIFICATION Spec
CONSTANTS
    Rhel = "rhel"
    Rocky = "rocky"
    Csv <- MCWindows
    MaxUpdates = 3
    Runs = {r1}
    Attended = {r1}
    MaxAccidents = 2
INVARIANT RockyNeverAhead
INVARIANT UpdateIsUsed
