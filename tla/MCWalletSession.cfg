SPECIFICATION Spec
CONSTANTS
  Accounts = {a1, a2}
  Names = {n1, n2}
  Calls = {k1, k2}
  None = None
SYMMETRY Symmetry
CONSTRAINT OneAtATime
INVARIANTS
  TypeOK
  NamesMatch
  AddressIsTheWallets
