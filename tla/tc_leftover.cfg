\* A created profile that a load has found already is listed twice.
CONSTANTS
    Profiles = {1}
    Groups = {g1, g2}
    Relations = {r1, r2}
    BatchSize = 1
    Failing = {}
    Restarts = FALSE
    MaxVersion = 0
    MaxEvents = 2
SPECIFICATION Spec
PROPERTIES DeletedIsForgotten
