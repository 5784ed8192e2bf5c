SPECIFICATION FairSpec
CONSTANTS
  Images <- MCImages
  Erased <- MCErased
  Packages <- MCPackages
  MaxFaults = 3
INVARIANT DoneIsFlashed
INVARIANTS
  TypeOK
  EraseComesLast
PROPERTY RetryEndsDone
