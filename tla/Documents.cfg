\* One worker or two: a controlled document with a revision, and evidence.
SPECIFICATION Spec
CONSTANTS
  Nobody = Nobody
  User = {ann, cee}
  Controller = {cee}
  Reviewer = {ann}
  Worker = {w1, w2}
  MaxRevision = 2
  MaxEvidence = 1
  MaxFile = 2
SYMMETRY WorkerSymmetry
CONSTRAINT Bounds
INVARIANTS
  FilesAreTheApprovedOnes
  RevisionsSucceedEachOther
PROPERTIES
  ImplementsSealing
\* Documents end withdrawn or superseded.
CHECK_DEADLOCK FALSE
