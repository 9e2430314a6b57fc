--------------------------- MODULE MCBlockedImports ---------------------------
(***************************************************************************)
(* The numbers of references and embeddings of the run over all graphs: none, *)
(* few, more than the bonus of one interface, one and two interfaces.         *)
(***************************************************************************)
EXTENDS BlockedImports

MCCounts == {<<0, 0>>, <<1, 0>>, <<baseEmbedWeight + 1, 0>>, <<0, 1>>, <<0, 2>>}
=============================================================================
