------------------------------- MODULE MCInbound -------------------------------
(***************************************************************************)
(* An instance of Inbound for TLC.  Contacts and texts share the queues    *)
(* and nothing else, so one run explores them side by side: in each of its *)
(* behaviours either the roster, the devices and the contacts move, or the *)
(* texts, the receipts and the features of the server.                     *)
(***************************************************************************)
EXTENDS Inbound

CONSTANTS p1, p2

OnePeer == {p1}
Quoting(form, number) == <<[form |-> form, number |-> number]>>
Text(from, type, body, request, id, received) ==
  [from |-> from, type |-> type, body |-> body, request |-> request, id |-> id, received |-> received]

\* Texts with and without a receipt, requests of every kind of stanza, and
\* receipts that quote the first message of the user or nothing of ours.
SomeTexts ==
  {Text(p1, "chat", "text", TRUE, "usable", Quoting("receipt", 1)),
   Text(p1, "normal", "text", TRUE, "usable", <<>>),
   Text(p2, "chat", "long", TRUE, "none", Quoting("mindchat", 1)),
   Text("domain", "chat", "text", FALSE, "usable", Quoting("mindchat", 1))}

-----------------------------------------------------------------------------
VARIABLE side  \* what moves

SideInit ==
  /\ Init /\ side \in {"contacts", "texts"}
  /\ side = "contacts" => features = {"muc"}
  /\ side = "texts" => \A p \in Peers : roster[p] = "absent" /\ \A d \in Devices : shows[p][d] = "unavailable"

SideNext ==
  /\ Next /\ UNCHANGED side
  /\ side = "contacts" => UNCHANGED <<features, out>> /\ ghost'.texts = ghost.texts
  /\ side = "texts" => UNCHANGED <<roster, shows>>

SideSpec == SideInit /\ [][SideNext]_<<vars, side>>

=============================================================================
