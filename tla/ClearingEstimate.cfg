CONSTANTS
  Prices = {0, 1, 2, 3}
  Sizes = {0, 1, 2}
  Wanted = {0, 1, 2, 3, 5}
  MaxLevels = 3
SPECIFICATION Spec
INVARIANTS
  FillIsExact
  FillIsBest
  AverageBetweenTouchAndWorst
