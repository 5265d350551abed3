\* One worker, one portfolio; half a column unit exists in memory only.
SPECIFICATION Spec
CONSTANTS
  Workers = {w1}
  NoWorker = NoWorker
  Portfolios = {p1}
  Tickers = {t1}
  Keys = {k1}
  Prices = {1}
  Quantities = {1}
  Amounts = {4}
  CashScale = 2
  QtyScale = 1
  PriceScale = 1
  ColumnMax = 3
INVARIANTS
  Reconstructible
