SPECIFICATION Spec
CONSTANTS
  Miners = {m1, m2}
  Headers = {h1, h2}
  Client = Client
  NoOne = NoOne
  NoWork = NoWork
INVARIANTS FarmConsistent NoStaleMining
PROPERTIES WorkersWork ClientReturns
