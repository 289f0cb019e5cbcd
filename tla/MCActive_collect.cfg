SPECIFICATION Spec
CONSTANTS
    Rels = {r1, r2}
    Files = {f1, f2, f3}
    NoRel = NoRel
    NoFile = NoFile
    MaxSize = 1
    MaxActive = 2
    MaxWrites = 1
SYMMETRY ActiveSymmetry
INVARIANTS
    NoLostChange
    CachesPaired
    NoEntryOfDeadFile
