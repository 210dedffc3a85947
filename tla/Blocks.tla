-------------------------------- MODULE Blocks --------------------------------
(* util.h: the arithmetic of things that are laid out in blocks. *)
EXTENDS Naturals

\* Mutant: a last block that is not full is forgotten.
Len2Blocks_floor(len, blocksize) == len \div blocksize

\* _vcd_len2blocks
Len2Blocks(len, blocksize) ==
    IF len % blocksize = 0 THEN len \div blocksize ELSE (len \div blocksize) + 1

\* _vcd_ceil2block
Ceil2Block(offset, blocksize) == Len2Blocks(offset, blocksize) * blocksize

\* Mutant: what does not fit into the block is not moved to the next.
OfsAdd_across(offset, length, blocksize) == offset + length

\* _vcd_ofs_add: where something ends that is put at offset or, when it does not fit
\* into the rest of the block, at the start of the next.
OfsAdd(offset, length, blocksize) ==
    IF blocksize - (offset % blocksize) < length
    THEN Ceil2Block(offset, blocksize) + length
    ELSE offset + length
=============================================================================
