SPECIFICATION AppSpec
CONSTANTS
    Units = {"machines"}
    Wanted <- MCWanted
    Coordinate = {office, home}
    None = None
    MaxChanges = 2
    MaxBatch = 2
    Null = Null
    Missing = Missing
    p1 = p1
    p2 = p2
    Absent = Absent
INVARIANT RatioIsOfTheScreen
