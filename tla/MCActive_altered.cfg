SPECIFICATION Spec
CONSTANTS
    Rels = {r1, r2}
    Files = {f1, f2}
    NoRel = NoRel
    NoFile = NoFile
    MaxSize = 1
    MaxActive = 3
    MaxWrites = 1
SYMMETRY ActiveSymmetry
INVARIANTS
    EveryChangeSeen
