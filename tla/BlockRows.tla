------------------------------ MODULE BlockRows ------------------------------
(***************************************************************************)
(* The rows of the table `blocks` (db/schema.postgres.sql) and what the    *)
(* importers' INSERT ... ON CONFLICT (hash) DO UPDATE statements do to     *)
(* them.                                                                   *)
(*                                                                         *)
(* A set of rows is a record of columns.  A column is the set of the       *)
(* primary keys (hashes) for which it holds: `hash` has the rows that are  *)
(* there, `confirmed` those whose column confirmed is 1, `election_time`   *)
(* those whose election columns are not NULL.  The columns that the node   *)
(* fixes when it creates the block (amount, balance, account, link, ...)   *)
(* are a function of the hash and are left out.                            *)
(***************************************************************************)

RowsOf(Keys) ==
    { r \in [hash : SUBSET Keys, confirmed : SUBSET Keys, election_time : SUBSET Keys] :
        /\ r.confirmed \subseteq r.hash
        /\ r.election_time \subseteq r.hash }

NoRows == [hash |-> {}, confirmed |-> {}, election_time |-> {}]

(***************************************************************************)
(* The statement of save_blocks: every column, the election columns too,   *)
(* is overwritten with the new row's (EXCLUDED).                           *)
(***************************************************************************)
UpsertWithElection(blocks, rows) ==
    [ hash          |-> blocks.hash \cup rows.hash,
      confirmed     |-> (blocks.confirmed \ rows.hash) \cup rows.confirmed,
      election_time |-> (blocks.election_time \ rows.hash) \cup rows.election_time ]

(***************************************************************************)
(* The statement of update_account and of import-from-rpc: it does not     *)
(* name the election columns.  A new row has them NULL, a row that was     *)
(* there keeps them.                                                       *)
(***************************************************************************)
UpsertKeepingElection(blocks, rows) ==
    [ hash          |-> blocks.hash \cup rows.hash,
      confirmed     |-> (blocks.confirmed \ rows.hash) \cup rows.confirmed,
      election_time |-> blocks.election_time ]
==============================================================================
