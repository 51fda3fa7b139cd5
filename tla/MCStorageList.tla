--------------------------- MODULE MCStorageList ---------------------------
EXTENDS StorageList
KeySymmetry == Permutations(Keys)
=============================================================================
