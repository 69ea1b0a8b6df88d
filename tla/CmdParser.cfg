\* Lines of up to eight characters, three arguments and one too many.
SPECIFICATION MCSpec
CONSTANTS
  Letters <- MCLetters
  CMD_MAX_ARGS = 3
  CMD_INPUT_MAX = 9
  MaxLine = 8
  Names <- MCNames
  Values <- MCValues
INVARIANTS
  ScannersAgree
  ArgsAreTokens
  EchoExpands
CHECK_DEADLOCK FALSE
