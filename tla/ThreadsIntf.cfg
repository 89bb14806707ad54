SPECIFICATION Spec
CONSTANTS
    j1 = j1
    j2 = j2
    j3 = j3
    NoJob = NoJob
    Jobs <- MCJobs
    Ids <- MCIds
    Ords <- MCOrds
    NTHREADS_MAX = 2
SYMMETRY Symmetry
INVARIANTS
    TypeOK
    CurrentIsOwn
    UnlistedIsUnknown
    AtMostOneLiveEntry
