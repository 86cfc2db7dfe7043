------------------------------ MODULE MCTables ------------------------------
(* Small instances of Tables for TLC; the .cfg files give the constants. *)
EXTENDS Tables

CONSTANT NoLpn

\* every table with the same schema, as in testScripts
Equal == [t \in 1 .. MaxTables |-> 3]

\* load-table-page puts the second sector of the first page, which starts in
\* the middle of a row, in front of what table 1 is filling
SecondSector == {<<1, 1>>}

=============================================================================
