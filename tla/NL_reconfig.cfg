CONSTANTS
  Names <- MC_Names
  MaxMsgs = 1
  FamilyContents <- MC_FamilyGood
  FamilyCanFail = FALSE
  AllowRemoval = TRUE
  AddCanFail = TRUE
  LateReplies = FALSE
  MaxLate = 0
SPECIFICATION Spec
INVARIANT TreeMatchesConfig
INVARIANT TreeOnlyConfigured
