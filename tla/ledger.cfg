CONSTANTS
  p1 = p1 p2 = p2 m1 = m1 m2 = m2 key = key
  Pages <- MCPages
  Metas <- MCMetas
  KeyOf <- MCKeyOf
  MaxLeaves = 5
  MaxBlocks = 2
SPECIFICATION Spec
SYMMETRY Symmetry
INVARIANTS
  PathsLeadToRoot
  HeadCommits
  BlocksExtendTheirStart
  OrderlyPagesTile
