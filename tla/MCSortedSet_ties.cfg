CONSTANTS
  Member = {1, 2, 3, 4, 5}
  Nil = Nil
  MaxLevel = 3
  IndexConfigs <- DefaultTree
  Scores <- TiedScores
SPECIFICATION Spec
INVARIANT TiesByMember
