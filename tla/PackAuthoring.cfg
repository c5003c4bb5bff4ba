SPECIFICATION Spec
CONSTANTS
    Importers = {1, 2}
    Order <- CaseFirstOrLast
    Writers = {w1, w2}
    Edits = {3}
    MaxEdits = 1
    Absent = Absent
SYMMETRY Permuted
INVARIANTS
    OutputIsOneImport
    QuietWriteSticks
