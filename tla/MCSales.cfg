SPECIFICATION SalesSpec
\* Components share model values, so that one group of permutations serves them all.
CONSTANTS
  Ids = {a1, a2}
  Numbers = {b1, b2}
  Accepts = {c1, c2}
  Positions = {1, 2}
  Prices = {1}
  Renders = {r1}
  Signals = TRUE
  MaxVersion = 3
  Nothing = Nothing
  Posts = {a1, a2, b1, b2}
  Keys = {c1, c2}
  NewDeals = {d1, d2, n1}
  NoKey = NoKey
  PipelineIds = {a1, a2}
  StageIds = {1, 2, 3}
  Places = {1, 2, 3}
  PageLimit = 2
  Everywhere = Everywhere
  Tenants = {a1, a2}
  Slugs = {b1, b2}
  Texts = {c1, c2}
  Writers = {d1, d2}
  Null = Null
  Files = {f1}
  Asks = {b1, b2}
  Extracted = {c1, c2}
  NoFile = NoFile
SYMMETRY Symmetry
CHECK_DEADLOCK FALSE
INVARIANTS
  OneRevisionStands
  StalePdfIsADrafts
  DuplicatesNeedOverlap
  ColumnsMatchCatalog
  SuccessIsNoted
PROPERTIES
  SentIsFrozen
  SkipsNeedReorder
  RetiredWrittenOnlyByOverlap
  UrlNeedsFile
