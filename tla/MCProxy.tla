------------------------------- MODULE MCProxy -------------------------------
(***************************************************************************)
(* Proxy with two tables, the second of which sends the one known path     *)
(* elsewhere, and body sizes below, at and above a cap of 100 bytes.       *)
(***************************************************************************)
EXTENDS Proxy

MCLower == [h \in {"api"} |-> h]

MCTable(upstream) ==
  << [host |-> "", path_prefix |-> << "/", "v" >>, source |-> "file", upstream |-> upstream] >>

MCTables == {MCTable("u1"), MCTable("u2")}

MCTargets == {[host |-> "api", path |-> << "/", "v" >>], [host |-> "api", path |-> << "/" >>]}

MCLens == {100, 101, 200}
MCChunks == {60, 100}
=============================================================================
