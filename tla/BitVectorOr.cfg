CONSTANTS
  Width = 3
  MaxBits = 5
SPECIFICATION Spec
INVARIANT OrIsDisjunction
