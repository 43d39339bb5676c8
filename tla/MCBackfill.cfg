SPECIFICATION Spec
CONSTANTS
  Today = 3
  Portfolios <- MCPortfolios
  OldLists <- MCOldLists
  Quote <- MCQuote
  History <- MCHistory
  Undecodable = {1}
  Apply = TRUE
  MaxEdits = 1
  Unset = Unset
  NoPrice = NoPrice
INVARIANTS TypeOK Conserved LikeWithLike SameReturn

PROPERTY FilledOnce
