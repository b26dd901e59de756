---------------------------- MODULE MCSpokeVpn ----------------------------
(***************************************************************************)
(* An instance of SpokeVpn for TLC: the link a1 of one spoke and b1 of     *)
(* another, which Terraform lists first, so that a1 gets a new number; a   *)
(* spoke of another firewall and one without a VPN.                        *)
(***************************************************************************)
EXTENDS SpokeVpn, TLC

CONSTANTS a1, b1, c1, fw, other

Module(vpn, id, links) == [spoke |-> vpn, id |-> id, public |-> links, inside |-> links]
SpokeA == Module(TRUE, fw, <<a1>>)
SpokeB == Module(TRUE, fw, <<b1>>)
NotMine == Module(TRUE, other, <<c1>>)
NoVpn == Module(FALSE, fw, <<c1>>)
MCDeployment ==
  {<<NotMine, NoVpn>>, <<NotMine, SpokeA, NoVpn>>, <<SpokeB, NotMine, SpokeA>>}

Empty == [gateways |-> <<>>, interfaces |-> {}, tunnels |-> <<>>]
MCStarts == {Empty}

(* One more VPN, made and removed by hand: tunnel and gateway -1; and one  *)
(* that is to use the same gateway.                                        *)
MCTask    == {"present", "absent", "shared"}
MCState   == [t \in Task |-> IF t = "absent" THEN t ELSE "present"]
MCName    == [t \in Task |-> IF t = "shared" THEN -2 ELSE -1]
MCGateway == [t \in Task |-> -1]
MCPeer    == [t \in Task |-> c1]
MCNumber  == [t \in Task |-> 0]
=============================================================================
