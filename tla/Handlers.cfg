SPECIFICATION Spec
CONSTANTS
  d1 = d1
  t1 = t1
  t2 = t2
  Half = 2
  Data = {d1}
  NoData = NoData
  BadData = BadData
  Junk = Junk
  Thread = {t1, t2}
  Name = {n1}
  Upload <- Uploads
  Recording <- Recordings
  NoFile = NoFile
  NoOne = NoOne
SYMMETRY Alike
INVARIANTS
  TypeOK
  CleanBetweenCalls
  
  ReadersSurvive
  ImportWhole
  RoundTrip
