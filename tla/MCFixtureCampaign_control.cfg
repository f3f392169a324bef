SPECIFICATION Spec
CONSTANTS
  Runs = {"one", "two"}
  WorkRoots <- SharedOrApart
  MaxEdits = 0
  MaxInputs = 2
  Trees = {"vulnerable", "fixed"}
  Starts <- MCStarts
  Leaks <- MCLeaks
  Variants <- MCVariants
  Works <- MCStarts
  Unpatched <- MCUnpatched
  Patched <- MCPatched
  Rewrite <- MCRewrite
INVARIANT ControlNeverReached
