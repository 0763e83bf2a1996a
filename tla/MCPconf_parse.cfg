CONSTANTS
  Names = {"a", "b", "P"}
  Others = {"/", "#", "{", "}"}
  Keyword = "P"
  CONF_NAMEL = 6
  CONF_VARL = 6
  block_size = 26
  Blocks = 8
  Texts <- MCTexts
  Sources <- MCSources
SPECIFICATION Spec
INVARIANTS  RoundTrip NothingLost 
