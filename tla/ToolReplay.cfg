\* A table with room for one of two ids, for one of two blocks, or for all, and one
\* cache file.
SYMMETRY IdSymmetry
SPECIFICATION Spec
CONSTANTS
  i1 = i1
  i2 = i2
  A = A
  B = B
  f2 = f2
  Ids = {i1, i2}
  Blocks = {A, B}
  NoBlock = NoBlock
  Files = {f2}
  TextOf <- MixedText
  Clients = {c1}
  Limits <- SmallAndLarge
  EntryBytes = 1
  BlockBytes = 2
  MaxCalls = 2
  MaxCrashes = 1
INVARIANT TableConsistent
INVARIANT ReplayExact
INVARIANT MapsExact
PROPERTY ReplayServed
