\* The user copies a second file before the reset; the flash works.
CONSTANTS
  imgA = imgA
  imgB = imgB
  Junk = Junk
  Torn = Torn
  None = None
  NSectors = 2
  SectorBlocks <- MCSectorBlocks
  PPB = 2
  Pt2 = 1
  MaxCmd = 2
  Images <- MCImages
  Size <- MCSize
  Reupload = TRUE
  FlashFaults = FALSE
SPECIFICATION Spec
INVARIANT
  UploadBoots
