CONSTANTS
  Names <- MC_Names
  MaxMsgs = 1
  FamilyContents <- MC_FamilyGood
  FamilyCanFail = FALSE
  AllowRemoval = TRUE
  AddCanFail = FALSE
  LateReplies = FALSE
  MaxLate = 0
SPECIFICATION Spec
INVARIANT NoUseAfterFree
