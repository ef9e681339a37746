SPECIFICATION Spec
CONSTANTS
    p1 = p1  p2 = p2
    a = a  b = b  c = c
    f1 = f1  f2 = f2  f3 = f3
    NoFile = NoFile
    Torn = Torn
    Exporters <- TwoExporters
    Runs <- ThreeRuns
    Inodes <- Files
    MaxExports = 3
    MaxCrashes = 0
SYMMETRY Interchangeable
INVARIANT EvidenceSealed
CHECK_DEADLOCK FALSE
