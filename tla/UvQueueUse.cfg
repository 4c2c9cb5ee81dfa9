CONSTANTS
  Heads = {h1, h2}
  Items = {n1, n2, n3, n4}
SPECIFICATION Spec
INVARIANTS WellFormed HeadsApart
PROPERTIES RefinesFifo
