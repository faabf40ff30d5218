CONSTANTS
  MaxDepth = 1
  StackLimit = 9
  BodyTokens = {"ident", "Integrity", "Incomplete", "parts", "reason", "zahir", "str", "num", "return", "if", "else", "not", "<", ".", ",", ":", "(", ")", "{", "}"}
  DeclarationTokens = {"ident", "v1", "zahir", "batin", "num", "str", "bismillah", "authority", "scope", "fn", "type", "additive_only", "export", "bump", "removes", "renames", "mizan", "la_tatghaw", "bil_qist", "tanzil", "depends_on", "->", "|", ".", ",", ":", "(", ")", "{", "}"}
  Sources <- MCSources
SPECIFICATION FairSpec
INVARIANTS TypeOK  Faithful CallsRecorded LayersKept MizanJudged
PROPERTIES Termination
CHECK_DEADLOCK FALSE
