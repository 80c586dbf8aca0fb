CONSTANTS
  Serial = {s1, s2}
  HF2 = FALSE
  MaxObject = 2
  MaxSet = 2
  MaxDepth = 2
SYMMETRY Symmetry
SPECIFICATION Spec
INVARIANT BundleHoldsEverySet
