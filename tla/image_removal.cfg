SPECIFICATION Spec
CONSTANTS
  Images = {i1, i2}
  Tags = {t1, t2}
  Workers = {w1, w2}
  NoImage = NoImage
  NoTag = NoTag
  Free = Free
  PageSize = 1
  MaxPage = 2
  MaxLoads = 1
  MaxContainers = 1
SYMMETRY Symmetry
INVARIANTS
  AnswersAreTrue
  ContainersKeepTheirImage
  ReadUnderLockHolds
  SuggestedPageIsShown
  TagsInUseAreKept
