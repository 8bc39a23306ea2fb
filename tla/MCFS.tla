-------------------------------- MODULE MCFS --------------------------------
(***************************************************************************)
(* FSHandler for TLC: the kinds of path that behave differently.           *)
(***************************************************************************)
EXTENDS FSHandler

File == [dir |-> FALSE, gen |-> FALSE, big |-> FALSE, writable |-> TRUE, compressible |-> TRUE]
BigFile == [File EXCEPT !.big = TRUE]
Image == [File EXCEPT !.compressible = FALSE]
ReadOnlyFile == [File EXCEPT !.writable = FALSE]
Directory == [File EXCEPT !.dir = TRUE, !.gen = TRUE]
ReadOnlyDirectory == [File EXCEPT !.dir = TRUE, !.writable = FALSE]

AllConfigs == {File, BigFile, Image, ReadOnlyFile, Directory, ReadOnlyDirectory}
=============================================================================
