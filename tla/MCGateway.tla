------------------------------ MODULE MCGateway ------------------------------
(* Small instances of Gateway for TLC. *)
EXTENDS Gateway

CONSTANTS a1, a2, l1

OneAccount == {a1}
TwoAccounts == {a1, a2}
NoMessage == <<>>
OneMessage == <<a1>>
OneEach == <<a1, a2>>
TwoOfOne == <<a1, a1>>
ConnectOnly == {"connect"}
ConnectAndDisconnect == {"connect", "disconnect"}
ConnectAndSend == {"connect", "send"}
AllOps == {"connect", "disconnect", "send", "edit"}
NoJob == {}
OneJob == {l1}

=============================================================================
