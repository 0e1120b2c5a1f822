---------------------------- MODULE MCFlashImage ----------------------------
(* Two sectors of 2 and 1 blocks and 2 packets a block; imgA fills both     *)
(* sectors, imgB the first one, and Junk is a file of one block.            *)
EXTENDS FlashImage

CONSTANTS imgA, imgB

MCSectorBlocks == <<2, 1>>
MCImages       == {imgA, imgB}
MCSize         == [f \in MCImages \cup {Junk} |-> IF f = imgA THEN 3 ELSE IF f = imgB THEN 2 ELSE 1]
=============================================================================
