---------------------------- MODULE MCConfigTask ----------------------------
(***************************************************************************)
(* Instances of ConfigTask for TLC.  A task is a pair <<kind, state>>;     *)
(* Kinds gives the script of each kind, the object it is about and the one *)
(* that must exist.  A play has the kinds with a task of each state and    *)
(* the objects they need, and starts from every tree of these with the     *)
(* settings in MCValues: none, what is asked for, or another value and one *)
(* more key.                                                               *)
(***************************************************************************)
EXTENDS ConfigTask, TLC

CONSTANT Plays

Kinds ==
  LET Kind(script, target, holder) == [script |-> script, target |-> target, holder |-> holder]
  IN   "bgp"         :> Kind("panos_bgp", "bgp", "vr")
    @@ "auth"        :> Kind("panos_bgp_auth", "auth", "vr")
    @@ "rekey"       :> Kind("panos_bgp_auth", "auth", "vr")
    @@ "peer"        :> Kind("panos_bgp_peer", "peer", "group")
    @@ "group"       :> Kind("panos_bgp_peer_group", "group", "vr")
    @@ "rule"        :> Kind("panos_bgp_policy_rule", "rule", "vr")
    @@ "suppress"    :> Kind("panos_bgp_policy_filter", "suppress", "aggregate")
    @@ "nonexist"    :> Kind("panos_bgp_policy_filter", "nonexist", "conditional")
    @@ "aggregate"   :> Kind("panos_bgp_aggregate", "aggregate", "vr")
    @@ "conditional" :> Kind("panos_bgp_conditional_advertisement", "conditional", "vr")
    @@ "dampening"   :> Kind("panos_bgp_dampening", "dampening", "vr")
    @@ "redist"      :> Kind("panos_bgp_redistribute", "redist", "vr")
    @@ "profile"     :> Kind("panos_redist_prof", "profile", "vr")
    @@ "route"       :> Kind("panos_static_route", "route", "vr")
    @@ "noroute"     :> Kind("panos_static_route", "route", "vr")
    @@ "routefca"    :> Kind("panos_static_route_fca", "route", "vr")
    @@ "nextvr"      :> Kind("panos_static_route_fca", "route", "vr")
    @@ "crypto"      :> Kind("panos_ike_crypto_profile", "crypto", "vr")
    @@ "gateway"     :> Kind("panos_ike_gateway", "gateway", "vr")
    @@ "ipsec"       :> Kind("panos_ipsec_profile", "ipsec", "vr")
    @@ "tunnel"      :> Kind("panos_ipsec_tunnel", "tunnel", "vr")
    @@ "management"  :> Kind("panos_management_profile", "management", "vr")
    @@ "zone"        :> Kind("panos_create_zones", "zone", "vr")
    @@ "router"      :> Kind("panos_virtual_router", "vr", "vr")

Play(present, absent, objects) ==
  [present |-> present, absent |-> absent, objects |-> objects]

(* The scripts by what their objects are inside of.                        *)
MCEvery ==
  {Play({"router", "bgp", "group", "peer"}, {"group", "peer"},
        {"vr", "bgp", "options", "group", "peer"}),
   Play({"auth", "rekey", "aggregate", "suppress"}, {"auth", "suppress"},
        {"vr", "bgp", "auth", "aggregate", "suppress"}),
   Play({"conditional", "nonexist", "bgp"}, {"conditional"},
        {"vr", "bgp", "conditional", "nonexist", "advertise"}),
   Play({"rule", "redist", "dampening"}, {"rule", "dampening"},
        {"vr", "bgp", "rule", "redist", "dampening"}),
   Play({"router", "route", "noroute", "nextvr", "routefca"}, {"router", "route"}, {"vr", "route"}),
   Play({"router", "profile"}, {"profile"}, {"vr", "profile"}),
   Play({"crypto", "ipsec", "tunnel"}, {"crypto", "tunnel"}, {"crypto", "ipsec", "tunnel"}),
   Play({"management", "zone"}, {"management", "zone"}, {"management", "permitted", "zone"}),
   Play({"gateway"}, {"gateway"}, {"gateway"})}
(* A play whose tasks build on each other.                                 *)
MCNested == {Play({"router", "bgp", "group", "peer"}, {},
                  {"vr", "bgp", "options", "group", "peer"})}

MCTasks(p) == (p.present \X {"present"}) \cup (p.absent \X {"absent"})
MCTask   == UNION {MCTasks(p) : p \in Plays}
MCScript == [t \in MCTask |-> Kinds[t[1]].script]
MCState  == [t \in MCTask |-> t[2]]
MCTarget == [t \in MCTask |-> Kinds[t[1]].target]
MCHolder == [t \in MCTask |-> Kinds[t[1]].holder]

MCObject == {"vr", "bgp"} \cup UNION {p.objects : p \in Plays}
MCAbove == [o \in MCObject |->
  CASE o \in {"bgp", "profile", "route"} -> {"vr"}
    [] o \in {"options", "auth", "group", "rule", "aggregate", "conditional",
              "dampening", "redist"}     -> {"vr", "bgp"}
    [] o = "peer"                        -> {"vr", "bgp", "group"}
    [] o = "suppress"                    -> {"vr", "bgp", "aggregate"}
    [] o \in {"nonexist", "advertise"}   -> {"vr", "bgp", "conditional"}
    [] o = "permitted"                   -> {"management"}
    [] OTHER                             -> {}]

MCSetting == {"entry", "a1", "a2", "b1"}
MCKeyOf   == [s \in MCSetting |-> CASE s \in {"a1", "a2"} -> "a" [] OTHER -> s]
MCValues  == {{}, {"entry", "a1"}, {"entry", "a2", "b1"}}
(* Trees of the objects of the play, with other settings only where one of *)
(* its tasks may change them.                                              *)
MCTrees(p) ==
  LET here == p.objects
      mine == {Kinds[t[1]].target : t \in MCTasks(p)}
      some == {c \in [here -> MCValues] : \A o \in here :
                 /\ c[o] # {} => \A q \in MCAbove[o] : c[q] # {}
                 /\ "b1" \in c[o] => o \in mine}
  IN  {[o \in MCObject |-> IF o \in here THEN c[o] ELSE {}] : c \in some}
MCStarts == UNION {{MCTasks(p)} \X MCTrees(p) : p \in Plays}

MCAsked == [t \in MCTask |-> {"entry", "a1"}]
MCKids  == [t \in MCTask |-> [o \in MCObject |->
  CASE t[1] = "bgp" /\ o = "options" -> {"entry", "a1"}
    [] t[1] = "conditional" /\ o \in {"nonexist", "advertise"} -> {"entry", "a1"}
    [] OTHER -> {}]]
MCReplace    == {t \in MCTask : t[1] = "rekey"}
MCNextVr     == {t \in MCTask : t[1] = "nextvr"}
MCIncomplete == {t \in MCTask : t[1] = "noroute"}
=============================================================================
