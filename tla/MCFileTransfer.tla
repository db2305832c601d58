--------------------------- MODULE MCFileTransfer ---------------------------
(***************************************************************************)
(* Small instances of FileTransfer.                                        *)
(***************************************************************************)
EXTENDS FileTransfer, TLC

\* Sessions differ in nothing but their name, and so do block contents.
Interchangeable == Permutations(Sessions) \cup Permutations(Data)
=============================================================================
