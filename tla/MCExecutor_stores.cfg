CONSTANTS
  Nil = Nil
  Menus <- AllMenus
  Padding = 3
  ZMember = {120, 121, 122}
  Item <- Items
  calcHash <- itemHash
  MaxUint64 = 6
  Dims <- AllDims
  Increment = {0, 1, 2, 3, 4}
  Entry = {1, 2, 3, 4}
  CalcHash <- entryHash
  WordBits = 4
  TwoTo64 = 32
  Sizes <- AllSizes
SPECIFICATION MCSpec
INVARIANTS CommandArrives AnswerArrives SetAnswersExact  IncrAppliesPrefix
  NeverUnderestimates CountersExact NoFalseNegative
