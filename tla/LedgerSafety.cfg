\* Two workers on two portfolios, two keys; every column rounds.
SPECIFICATION Spec
CONSTANTS
  Workers = {w1, w2}
  NoWorker = NoWorker
  Portfolios = {p1, p2}
  Tickers = {t1}
  Keys = {k1, k2}
  Prices = {1}
  Quantities = {1}
  Amounts = {3}
  CashScale = 2
  QtyScale = 2
  PriceScale = 2
  ColumnMax = 3
SYMMETRY Symmetry
INVARIANTS
  TypeOK
  Solvent
  WritesAreFresh
  KeysUnique
  AnswersAreTrue
  SnapshotIsBalance
  AtLeastHistory
  WaitsEnd
PROPERTIES
  ImplementsLedgerSpec
