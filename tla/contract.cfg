CONSTANTS
  p1 = p1  p2 = p2
  d = d  r = r  w = w  a = a  b = b  u = u
  en = en  fr = fr  zh = zh
  Workers = {p1, p2}
  Names <- MCNames
  SafeNames <- MCSafeNames
  Tags = {en, fr, zh}
  WireTags = {en, fr}
  Settings <- MCSettings
  Disks <- MCDisks
  Submissions <- MCSubmissions
  MaxEdits = 1
  None = None
SPECIFICATION ContractSpec
SYMMETRY Symmetry
CHECK_DEADLOCK FALSE
INVARIANTS
  ContractInv
  MatchersAgree
  RefusedOverRulesOnly
  ProvidersAreReady
  FailedLanguagesWereFound
  RegistryIsCurrent
