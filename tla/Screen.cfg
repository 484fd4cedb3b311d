SPECIFICATION Spec
CONSTANTS
  p1 = p1
  p2 = p2
  t1 = t1
  Photo <- TwoPhotos
  Text <- OneText
  Empty = Empty
  DefaultNoteDetail = DefaultNoteDetail
  Nil = Nil
  Libraries <- EitherOrNone
  ThumbnailSets <- AllOrNone
  Item <- OneRow
  MaxLoads = 2
  DefaultItem = 0
  Placeholders = 1
  Visible <- NoRow
  Texts <- DetailOnly
  Typed <- TypedOrCleared
INVARIANTS
  StoreTypeOK
  ReadsAreDurable
  AtMostOneAtRisk
  LastAnswerIsTrue
  TypeOK
  ScreenShowsCurrentNote
  SaveWritesTheScreen
PROPERTIES
  ImplementsNoteBook
