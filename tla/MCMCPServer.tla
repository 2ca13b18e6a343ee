----------------------------- MODULE MCMCPServer -----------------------------
(***************************************************************************)
(* Three messages in any mixture of framings, through pipes of two units:  *)
(* shorter than a framed message, so that both ends block on the other.    *)
(***************************************************************************)
EXTENDS MCPServer

MCKinds  == {"quick", "call", "notice", "garbage"}
MCFrames == {"line", "lsp", "batch"}

=============================================================================
