----------------------------- MODULE MCCoreState -----------------------------
(* Small instances of CoreState for TLC. *)
EXTENDS CoreState

CONSTANT p1

NoPeer == {}
OnePeer == {p1}
NoCapability == {}
ReactionsOnly == {"MessageReactions"}
AllCapabilities == {"MultiUserChat", "MessageReactions", "HttpFileUpload"}

=============================================================================
