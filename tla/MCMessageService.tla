-------------------------- MODULE MCMessageService --------------------------
EXTENDS MessageService, TLC

CellSymmetry == Permutations(Cells)
=============================================================================
