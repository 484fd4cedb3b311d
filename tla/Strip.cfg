SPECIFICATION Spec
CONSTANTS
  p1 = p1
  p2 = p2
  t1 = t1
  Photo <- TwoPhotos
  Text <- OneText
  Empty = Empty
  DefaultNoteDetail = DefaultNoteDetail
  Nil = Nil
  Libraries <- OnePair
  ThumbnailSets <- AllThumbnails
  Item <- TwoRows
  MaxLoads = 2
  DefaultItem = 0
  Placeholders = 1
  Visible <- TwoRows
  Texts <- TitleOnly
  Typed <- TypedOrCleared
INVARIANTS
  OneCellSelected
  CellsShowTheirPhotos
  NoUIKitException
