SPECIFICATION Spec
CONSTANTS
  Versions = {right, wrong, bad}
  Accepted = {right, wrong}
  Correct = {right}
  Absent = absent
  Part = part
INVARIANTS
  TypeOK
  SuccessIsFresh
  VerdictIsAboutProgram
