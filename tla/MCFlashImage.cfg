\* One copy per session, erase and program may fail, resets at any time.
CONSTANTS
  imgA = imgA
  imgB = imgB
  Junk = Junk
  Torn = Torn
  None = None
  NSectors = 2
  SectorBlocks <- MCSectorBlocks
  PPB = 2
  Pt2 = 1
  MaxCmd = 2
  Images <- MCImages
  Size <- MCSize
  Reupload = FALSE
  FlashFaults = TRUE
SPECIFICATION Spec
INVARIANTS
  TypeOK
  EraseAhead
  SessionClean
  UploadBoots
PROPERTIES
  ProgramsErased
  UpgradeIsAtomic
