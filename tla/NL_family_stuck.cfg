CONSTANTS
  Names <- MC_Names
  MaxMsgs = 1
  FamilyContents <- MC_FamilyAny
  FamilyCanFail = TRUE
  AllowRemoval = FALSE
  AddCanFail = FALSE
  LateReplies = FALSE
  MaxLate = 0
SPECIFICATION Spec
PROPERTY SeriesEnds
