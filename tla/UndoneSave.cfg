SPECIFICATION Spec
CONSTANTS
  p1 = p1
  p2 = p2
  t1 = t1
  Photo <- TwoPhotos
  Text <- OneText
  Empty = Empty
  DefaultNoteDetail = DefaultNoteDetail
  Nil = Nil
  Libraries <- PairOrOne
  ThumbnailSets <- AllThumbnails
  Item <- TwoRows
  MaxLoads = 1
  DefaultItem = 1
  Placeholders = 2
  Visible <- TwoRows
  Texts <- DetailOnly
  Typed <- TypedOrCleared
INVARIANTS
  ScreenDoesNotUndoSave
