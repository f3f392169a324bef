CONSTANTS
  f1 = f1
  x = x
  p1 = p1
  h1 = h1
  None = None
  Torn = Torn
  Files = {f1}
  CopySkips = {}
  Contents = {x}
  Payloads = {p1}
  Harnesses = {h1}
  Tokens <- MCTokens
  Specs <- OneRunSpecs
  MaxRuns = 1
  MaxDrift = 0
SPECIFICATION Spec
INVARIANT ShrinkTriggers
