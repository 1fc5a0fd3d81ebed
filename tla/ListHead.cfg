SPECIFICATION Spec
CONSTANTS
  Heads = {h1, h2}
  Entries = {e1, e2, e3}
  Tasks = {t1, t2}
  Walkers = {}
  Wild = Wild
SYMMETRY Symmetry
INVARIANT RingsWhole
PROPERTY Implements
