SPECIFICATION Spec
CONSTANTS
  Runs = {"one", "two"}
  WorkRoots <- SharedOrApart
  MaxEdits = 2
  MaxInputs = 3
  Trees = {"vulnerable", "subtle", "seamless", "fixed", "halfFixed", "broken"}
  Starts <- MCStarts
  Leaks <- MCLeaks
  Variants <- MCVariants
  Works <- MCStarts
  Unpatched <- MCUnpatched
  Patched <- MCPatched
  Rewrite <- MCRewrite
INVARIANTS TypeOK VerifiedOnExactTree DifferentialEarned StoreTellsOneStory PatchIsWhatWasAttacked
PROPERTY RunsEnd
