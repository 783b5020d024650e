---------------------------- MODULE MCPageArena ----------------------------
(* A small instance of PageArena: pages of PageSize bytes that hold three    *)
(* PageBlock structs each, so that get_new_block_struct has to push onto     *)
(* pageblock_storage and to grow it while a client's push waits.             *)
EXTENDS PageArena

CONSTANTS a1, a2, storage

MCArenas == {a1, a2}
=============================================================================
