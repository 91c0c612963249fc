CONSTANTS
  Names <- MC_Names
  MaxMsgs = 2
  FamilyContents <- MC_FamilyGood
  FamilyCanFail = FALSE
  AllowRemoval = FALSE
  AddCanFail = FALSE
  LateReplies = TRUE
  MaxLate = 1
SPECIFICATION Spec
INVARIANT TypeOK
INVARIANT AtMostOneInFlight
PROPERTY SeriesComplete
PROPERTY SeriesEnds
PROPERTY PollRefinement
