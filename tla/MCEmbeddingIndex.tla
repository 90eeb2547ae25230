---------------------------- MODULE MCEmbeddingIndex ----------------------------
(* TLC instance of EmbeddingIndex: two assets, two versions, two writes and one *)
(* fault, with the migration at any moment.                                     *)
EXTENDS EmbeddingIndex
================================================================================
