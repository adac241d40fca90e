-------------------------- MODULE MCImportFromRpc --------------------------
(* Small instances of ImportFromRpc for TLC. *)
EXTENDS ImportFromRpc

\* An account with only its open block, one with an unconfirmed head, one
\* unconfirmed; the first may grow.
Heights  == <<1, 3, 1>>
Cemented == <<1, 2, 0>>
Grown    == <<2, 3, 1>>

AllPages == [ all_blocks : BOOLEAN, skip : BOOLEAN, include_blocks : {TRUE},
              single_account : {0}, start_block : {0} ]
NoBlocks == [ all_blocks : {FALSE}, skip : {FALSE}, include_blocks : {FALSE},
              single_account : {0}, start_block : {0} ]
Single   == [ all_blocks : BOOLEAN, skip : {FALSE}, include_blocks : {FALSE},
              single_account : {2}, start_block : {0, 2} ]
\* An empty table, and one that has the two ends of the second chain.
Tables == { NoRows, [hash |-> {<<2, 1>>, <<2, 3>>}, confirmed |-> {<<2, 1>>}, election_time |-> {<<2, 1>>}] }

AnyOptions == AllPages \cup NoBlocks \cup Single
=============================================================================
