\* Two loads of up to three rules, good and bad.
CONSTANTS
  c1 = c1
  c2 = c2
  noName = noName
  Chars = {"/", "*", "a", "b", "c"}
  NoName = noName
  Lists <- Listed
  RawPaths <- Raw
  Lookups <- Asked
  MaxRules = 3
  MaxLoads = 2
SPECIFICATION Spec
INVARIANTS
  TypeOK
  FileDecides
\* The loads run out.
CHECK_DEADLOCK FALSE
