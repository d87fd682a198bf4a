SPECIFICATION Spec
CONSTANTS
  BitmapLen = 66
  MemUppers <- MCMemUppers
  AllocStart = 2097152
  HeapSize = 4096
  LoadPage = 768
  MaxPages = 2
  VgaPage = 184
  Programs = {"empty", "small", "large"}
  Pages <- MCPages
INVARIANTS TypeOK FramesInRange MappedPagesTranslate HeapSparesItsTable
