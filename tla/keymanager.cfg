SPECIFICATION Spec
CONSTANTS
  Keys = {k1, k2}
  NoKey = NoKey
  Loaders = {l1, l2}
  Holders = {h1, h2}
SYMMETRY Symmetry
INVARIANTS KeyMatchesState OneKeyAtWork KeyBytesInUse
PROPERTIES ImplementsLifecycle
