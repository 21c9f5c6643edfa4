\* The backtest over its stored histories, with the paper account beside it.
SPECIFICATION BacktestSpec
CONSTANTS
  Security <- MCSecurity
  Ticker <- MCTicker
  SecurityOf <- MCSecurityOf
  Capital = 1200
  LongDays = 4
  Unmarked <- MCUnmarked
  Decision <- MCDecision
  World <- MCWorld
  Board <- MCBoard
  Excluded = {"S"}
  TopN = 2
  Terms <- MCTerms
  PaperTerms <- MCPaperTerms
  Index = "S"
INVARIANT BooksInv
INVARIANT PairedBooks
INVARIANT ReportAddsUp
CHECK_DEADLOCK FALSE
