SPECIFICATION TablesSpec
CONSTANTS
  NaN = NaN
  Lists <- MCLists
  LookUps <- MCLookUps
  Numbers <- MCNumbers
CHECK_DEADLOCK FALSE
INVARIANTS ListsAgree LookUpsAgree CountsFit ChartsAgree
