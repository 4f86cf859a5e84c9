SPECIFICATION Spec
CONSTANTS
  Namespaces = {n1, n2}
  None = None
  MaxSpecs = 1
  MaxTroubles = 0
INVARIANT NoneOutlivesTemplate
SYMMETRY NamespaceSymmetry
