----------------------------- MODULE MCImporter -----------------------------
(* Small instances of Importer for TLC. *)
EXTENDS Importer

Blocks == Account \X (1..MaxHeight)
NoBlocks == [a \in Account |-> 0]
EmptyTable == { {} }
==============================================================================
