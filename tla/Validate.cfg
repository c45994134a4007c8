SPECIFICATION Spec
CONSTANTS
  a = a
  b = b
  b1 = b1
  None = None
  Connectors = {a, b, b1}
  Parent <- MCParent
INVARIANTS ValidateExercisesCredentials
