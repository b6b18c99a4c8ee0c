CONSTANTS
  Client = {c1, c2}
  Image = {i1, i2, i3}
  File = {f1, f2}
  Web = {}
  None = None
  MaxImages = 2
  MaxBatch = 2
  Faults = TRUE
SPECIFICATION HotelSpec
SYMMETRY Symmetry
INVARIANTS TypeOK WithinLimit AlbumInOrder FilesPresent
PROPERTIES RemovedStays

