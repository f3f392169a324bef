CONSTANTS
  f1 = f1
  x = x
  p1 = p1
  p2 = p2
  None = None
  Torn = Torn
  Files = {f1}
  CopySkips = {}
  Contents = {x}
  Payloads = {p1, p2}
  Harnesses = {}
  Tokens <- MCTokens
  Specs <- ManyRunsSpecs
  MaxRuns = 2
  MaxDrift = 0
SPECIFICATION Spec
INVARIANTS CertificateBacked OkRunVerifies ReplicaIsOriginal CommitInvariant
PROPERTY ImplementsBundle
