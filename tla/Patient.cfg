SPECIFICATION PatientSpec
CONSTANTS
  p1 = p1
  p2 = p2
  t1 = t1
  Photo <- TwoPhotos
  Text <- OneText
  Empty = Empty
  DefaultNoteDetail = DefaultNoteDetail
  Nil = Nil
  Libraries <- OnePair
  ThumbnailSets <- AllOrNone
  Item <- TwoRows
  MaxLoads = 1
  DefaultItem = 1
  Placeholders = 2
  Visible <- TwoRows
  Texts <- BothTexts
  Typed <- TypedOrCleared
INVARIANTS
  SelectionAgrees
  IndicatorsAreRight
PROPERTIES
  ImplementsAlbum
