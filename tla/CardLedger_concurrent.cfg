SPECIFICATION Spec
CONSTANTS
  Handlers = {h1, h2}
  Cards = {c1, c2}
  Keys = {k1, k2, k3}
  Amounts = {1, 2}
  Limit = 2
  OpeningBalance = 3
SYMMETRY Interchangeable
INVARIANTS
  TypeOK
  ChargedOnce
  NoChargeForgotten
  OvershootBounded
