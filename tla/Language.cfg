\* All texts of a few phrases, and longer expressions and conditions.
SPECIFICATION Spec
CONSTANTS
  MaxPhrases = 3
  MaxOperators = 2
  MaxConnectives = 3
  Word <- Words
  Input <- Texts_
INVARIANTS TypeOK EveryPieceInOneToken ConditionsReadLeftToRight PrintedTextIsStable TreeSurvives
CHECK_DEADLOCK FALSE
