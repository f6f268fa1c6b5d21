--------------------------- MODULE MCConversation ---------------------------
(***************************************************************************)
(* A conversation of three texts over two schemas with the same fields, of *)
(* which one is required.                                                  *)
(***************************************************************************)
EXTENDS Conversation, TLC

SymmetrySchemas == Permutations(Schemas)
=============================================================================
