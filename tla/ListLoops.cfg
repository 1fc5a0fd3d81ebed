SPECIFICATION TSpec
CONSTANTS
  Heads = {h1}
  Entries = {e1, e2, e3}
  Tasks = {t1, t2}
  Walkers = {t1, t2}
  Wild = Wild
SYMMETRY Symmetry
INVARIANTS
  LoopsStayOnList
  CarefulIsQuiet
