SPECIFICATION Spec
CONSTANTS
  Callers = {u1, u2}
  Inputs <- MCInputs
  HandMade <- MCHandMade
  MaxCalls = 2
  None = None
  NaN = NaN
  Inf = Inf
SYMMETRY MCSymmetry
PROPERTY CommittedAreOk
