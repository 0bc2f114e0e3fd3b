SPECIFICATION Spec
CONSTANTS
  s1 = s1
  s2 = s2
  v1 = v1
  v2 = v2
  Services = {s1}
  Requests = {v1}
  MaxTokens = 2
INVARIANT
  VerifiedTokenServed
SYMMETRY Symmetric
