------------------------------- MODULE MCNand -------------------------------
(***************************************************************************)
(* NandStorage with one save file of two blocks, two NANDFileInfos and     *)
(* four opens, so that a save can fail or be cut short and be repeated     *)
(* while another handle is open.                                           *)
(***************************************************************************)
EXTENDS NandStorage, TLC

BothBlocks == {1, 2}
InfosAlike == Permutations(Infos)
=============================================================================
