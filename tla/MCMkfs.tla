------------------------------- MODULE MCMkfs -------------------------------
(***************************************************************************)
(* Three units to a block, two direct blocks and two indirect ones, so     *)
(* that files use the direct blocks, the indirect block, and outgrow both; *)
(* ten data blocks, so that two of the larger files fill the image.        *)
(***************************************************************************)
EXTENDS Mkfs

MCFileLens == {0, 2, 3, 8, 12, 13}
MCNameLens == {1, 4}
EmptyFiles == {0}
ShortNames == {1}
=============================================================================
