SPECIFICATION Spec
CONSTANTS
    Handler = {h1, h2}
    MinOutcomes = 2
    MaxTime = 4
    MaxRegressions = 3
SYMMETRY Symmetry
PROPERTIES
    SerialEvidenceIsFresh
