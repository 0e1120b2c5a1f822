----------------------------- MODULE MCMmcCard -----------------------------
EXTENDS MmcCard

AllKinds == {"none", "MMC", "SD1", "SD2", "SDHC"}
OneKind  == {"SD2"}
=============================================================================
