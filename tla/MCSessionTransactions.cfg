CONSTANTS
  Serial = {s1, s2}
  HF2 = FALSE
  MaxObject = 2
  MaxSet = 2
  MaxDepth = 3
SYMMETRY Symmetry
SPECIFICATION Spec
INVARIANTS
  BlocksKeepTheirTransaction
  SessionBlockCoversDevices
  BundleMirrorsTrees
  AppliedOnceInOrder
