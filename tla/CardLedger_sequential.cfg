SPECIFICATION Spec
CONSTANTS
  Handlers = {h1}
  Cards = {c1, c2}
  Keys = {k1, k2, k3, k4}
  Amounts = {1, 2}
  Limit = 3
  OpeningBalance = 4
SYMMETRY Interchangeable
PROPERTIES
  ActsAsAccount
