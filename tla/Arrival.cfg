SPECIFICATION FairSpec
CONSTANTS
  p1 = p1
  p2 = p2
  t1 = t1
  Photo <- TwoPhotos
  Text <- OneText
  Empty = Empty
  DefaultNoteDetail = DefaultNoteDetail
  Nil = Nil
  Libraries <- EitherPhoto
  ThumbnailSets <- AllThumbnails
  Item <- OneRow
  MaxLoads = 2
  DefaultItem = 0
  Placeholders = 1
  Visible <- NoRow
  Texts <- DetailOnly
  Typed <- Nothing
PROPERTIES
  CurrentIsShown
