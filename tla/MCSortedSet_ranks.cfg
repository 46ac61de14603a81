CONSTANTS
  Member = {1, 2, 3, 4, 5, 6}
  Nil = Nil
  MaxLevel = 3
  IndexConfigs <- AllConfigs
  Scores <- ApartScores
SPECIFICATION Spec
INVARIANTS SpansExact ListIsOrdered TreeIsSound QueriesAgree
 
