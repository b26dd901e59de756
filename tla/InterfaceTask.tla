--------------------------- MODULE InterfaceTask ---------------------------
(***************************************************************************)
(* The scripts that put an interface into a zone and a virtual router of a *)
(* firewall: library/panos_interface.py, panos_tunnel_int.py and           *)
(* panos_tun_interface.py.  The role pa_network runs one task per          *)
(* interface, ignores their errors and runs them again.                    *)
(*                                                                         *)
(* A task reads the interfaces, the zones and the routers, and later       *)
(* writes whole member lists, computed from what it read, one API call at  *)
(* a time.  A call may fail, with or without having been carried out; the  *)
(* task then ends where it is.                                             *)
(*                                                                         *)
(* Zones and virtual routers are both groups with a list of members; an    *)
(* empty list is read back as None.  Simplified: one vsys (vsys_list,      *)
(* organize_into_vsys and delete_import read or move nothing here), and    *)
(* the settings of an interface are compared as a whole.                   *)
(***************************************************************************)
EXTENDS Naturals

CONSTANTS If, Zone, Router,
          Mode,          \* interface modes: "layer3", "layer2", ...
          ModeOf,        \* the mode each interface is given
          Task,
          IfOf, ZoneFor, RouterFor,   \* a task's if_name, zone_name, vr_name
          Script, Op,    \* a task's script and its state or operation
          Dhcp, Commit,  \* tasks with enable_dhcp, tasks with commit
          NoGroup,
          Flaky,         \* kinds of API calls that may fail
          Overlap        \* may tasks run at the same time?

Group == Zone \cup Router
Scripts == {"panos_interface", "panos_tunnel_int", "panos_tun_interface"}
States == {"present", "absent"}
Operations == {"add", "update", "delete"}

ASSUME InterfaceAssumption ==
  /\ Zone \cap Router = {} /\ NoGroup \notin Group
  /\ ModeOf \in [If -> Mode]
  /\ IfOf \in [Task -> If] /\ ZoneFor \in [Task -> Zone]
  /\ RouterFor \in [Task -> Router]
  /\ Script \in [Task -> Scripts] /\ Op \in [Task -> States \cup Operations]
  /\ \A t \in Task : Script[t] = "panos_tun_interface" => Op[t] \in Operations
  /\ Dhcp \subseteq Task /\ Commit \subseteq Task
  /\ \A t \in Dhcp : Script[t] = "panos_interface"
  /\ Flaky \subseteq {"read", "write", "commit"}
  /\ Overlap \in BOOLEAN

VARIABLES conf,      \* the settings of each interface
          exists,    \* the groups that are configured
          zmode,     \* the mode of each zone
          mem,       \* the members of each group
          running,   \* is the candidate also the running configuration?
          pc,        \* of each task: the step of main() it is at
          ifs,       \*   interfaces
          groups,    \*   the zones and routers it has read,
          snap,      \*   with their members
          todo,      \*   the groups its loop has still to visit
          changed,   \*   changed
          res        \*   how its last run ended

device == <<conf, exists, zmode, mem, running>>
read == <<ifs, groups, snap>>
locals == <<ifs, groups, snap, todo, changed, res>>
vars == <<conf, exists, zmode, mem, running,
          pc, ifs, groups, snap, todo, changed, res>>

Label == {"idle", "interfaces", "zones", "routers", "refresh", "apply",
          "create", "leaveZone", "leaveVr", "dhcp", "delete", "commit"}

TypeOK ==
  /\ conf \in [If -> {"absent", "other", "asked", "dhcp"}]
  /\ exists \subseteq Group
  /\ zmode \in [Zone -> Mode]
  /\ mem \in [Group -> SUBSET If]
  /\ running \in {"same", "behind"}
  /\ pc \in [Task -> Label]
  /\ ifs \in [Task -> SUBSET If]
  /\ groups \in [Task -> SUBSET Group]
  /\ snap \in [Task -> [Group -> SUBSET If]]
  /\ todo \in [Task -> SUBSET Group]
  /\ changed \in [Task -> {"no", "yes"}]
  /\ res \in [Task -> {"none", "ok", "failed"}]

There == {i \in If : conf[i] # "absent"}

(* Any configuration a firewall accepts: members are configured interfaces *)
(* of the zone's mode, in one zone and one router at most.                 *)
Init ==
  /\ conf \in [If -> {"absent", "other", "asked"}]
  /\ exists \in SUBSET Group
  /\ zmode \in [Zone -> Mode]
  /\ \E zone \in [If -> Zone \cup {NoGroup}], router \in [If -> Router \cup {NoGroup}] :
       /\ \A i \in If : /\ {zone[i], router[i]} \subseteq exists \cup {NoGroup}
                        /\ conf[i] = "absent" => zone[i] = NoGroup /\ router[i] = NoGroup
                        /\ zone[i] # NoGroup => zmode[zone[i]] = ModeOf[i]
       /\ mem = [g \in Group |-> {i \in If : zone[i] = g \/ router[i] = g}]
  /\ running = "same"
  /\ pc = [t \in Task |-> "idle"]
  /\ ifs = [t \in Task |-> {}] /\ groups = [t \in Task |-> {}]
  /\ snap = [t \in Task |-> [g \in Group |-> {}]]
  /\ todo = [t \in Task |-> {}]
  /\ changed = [t \in Task |-> "no"] /\ res = [t \in Task |-> "none"]

-----------------------------------------------------------------------------
(* The groups the task's interface must be in when it ends.                *)
Wanted(t) == IF Op[t] \in {"absent", "delete"} THEN {} ELSE {ZoneFor[t], RouterFor[t]}

At(t, label) == pc[t] = label
Goto(t, label) == pc' = [pc EXCEPT ![t] = label]
End(t, how) ==
  /\ Goto(t, "idle")
  /\ ifs' = [ifs EXCEPT ![t] = {}] /\ groups' = [groups EXCEPT ![t] = {}]
  /\ snap' = [snap EXCEPT ![t] = [g \in Group |-> {}]]
  /\ todo' = [todo EXCEPT ![t] = {}] /\ changed' = [changed EXCEPT ![t] = "no"]
  /\ res' = [res EXCEPT ![t] = how]

(* The end of main(): commit if something changed, else exit_json.  The    *)
(* commit of panos_tun_interface is commented out.                         *)
WillCommit(t, chg) == chg = "yes" /\ t \in Commit /\ Script[t] # "panos_tun_interface"
FinishAs(t, chg) ==
  \/ /\ WillCommit(t, chg)
     /\ Goto(t, "commit") /\ changed' = [changed EXCEPT ![t] = chg]
     /\ todo' = [todo EXCEPT ![t] = {}]
     /\ UNCHANGED <<read, res>>
  \/ ~ WillCommit(t, chg) /\ End(t, "ok")

(* A write is answered and the task goes on, or it was made but the answer *)
(* is an error; a call may also fail without effect (CallFails).           *)
WriteLost(t) == "write" \in Flaky /\ End(t, "failed")

-----------------------------------------------------------------------------
(* Reading the configuration, one refreshall after the other.              *)
Start(t) ==
  /\ At(t, "idle")
  /\ Overlap \/ \A u \in Task : At(u, "idle")
  /\ Goto(t, "interfaces")
  /\ res' = [res EXCEPT ![t] = "none"]
  /\ UNCHANGED <<device, read, todo, changed>>

ReadInterfaces(t) ==
  /\ At(t, "interfaces")
  /\ Goto(t, "zones")
  /\ ifs' = [ifs EXCEPT ![t] = There]
  /\ UNCHANGED <<device, groups, snap, todo, changed, res>>

Refresh(t, kind) ==
  /\ groups' = [groups EXCEPT ![t] = @ \cup (exists \cap kind)]
  /\ snap' = [snap EXCEPT ![t] = [g \in Group |-> IF g \in kind THEN mem[g] ELSE @[g]]]

ReadZones(t) ==
  /\ At(t, "zones")
  /\ Goto(t, "routers")
  /\ Refresh(t, Zone)
  /\ UNCHANGED <<device, ifs, todo, changed, res>>

(* What is done to the interface first, for each state or operation.  The  *)
(* loops take it out of its groups before it is deleted.                   *)
ByState(t) ==
  CASE Op[t] = "present" -> IF IfOf[t] \in ifs[t] THEN "refresh" ELSE "create"
    [] Op[t] = "absent"  -> "leaveZone"
ByOperation(t) ==
  CASE Op[t] = "add"    -> IF IfOf[t] \in ifs[t] THEN "idle" ELSE "create"
    [] Op[t] = "update" -> IF IfOf[t] \in ifs[t] THEN "apply" ELSE "idle"
    [] Op[t] = "delete" -> IF IfOf[t] \in ifs[t] THEN "leaveZone" ELSE "idle"
FirstStepDeletes(t) ==
  IF Op[t] \in {"absent", "delete"} /\ IfOf[t] \in ifs[t] THEN "delete"
  ELSE IF Op[t] \in States THEN ByState(t) ELSE ByOperation(t)
FirstStep(t) == IF Op[t] \in States THEN ByState(t) ELSE ByOperation(t)

(* "idle" is fail_json: there is nothing to update, or it is there already. *)
ReadRouters(t) ==
  /\ At(t, "routers")
  /\ UNCHANGED device
  /\ \/ FirstStep(t) = "idle" /\ End(t, "failed")
     \/ /\ FirstStep(t) # "idle" /\ Goto(t, FirstStep(t))
        /\ Refresh(t, Router)
        /\ todo' = [todo EXCEPT ![t] = (groups[t] \cap Zone) \ Wanted(t)]
        /\ UNCHANGED <<ifs, changed, res>>
-----------------------------------------------------------------------------
(* The interface itself.                                                   *)

(* State "present" compares the settings and applies them if they differ.  *)
RefreshInterface(t) ==
  /\ At(t, "refresh")
  /\ UNCHANGED device
  /\ \/ conf[IfOf[t]] = "absent" /\ End(t, "failed")
     \/ /\ Goto(t, IF conf[IfOf[t]] = "asked" THEN "leaveZone" ELSE "apply")
        /\ conf[IfOf[t]] # "absent"
        /\ UNCHANGED locals

Configure(t) ==
  /\ pc[t] \in {"apply", "create"}
  /\ conf' = [conf EXCEPT ![IfOf[t]] = "asked"]
  /\ running' = "behind"
  /\ UNCHANGED <<exists, zmode, mem>>
  /\ \/ /\ Goto(t, "leaveZone") /\ changed' = [changed EXCEPT ![t] = "yes"]
        /\ UNCHANGED <<read, todo, res>>
     \/ WriteLost(t)

(* xapi.edit of the interface's entry, not counted as a change.            *)
EnableDhcp(t) ==
  /\ At(t, "dhcp")
  /\ conf' = [conf EXCEPT ![IfOf[t]] = "dhcp"]
  /\ running' = "behind"
  /\ UNCHANGED <<exists, zmode, mem>>
  /\ FinishAs(t, changed[t]) \/ WriteLost(t)

Delete(t) ==
  /\ At(t, "delete")
  /\ conf' = [conf EXCEPT ![IfOf[t]] = "absent"]
  /\ running' = "behind"
  /\ UNCHANGED <<exists, zmode, mem>>
  /\ FinishAs(t, "yes") \/ WriteLost(t)

-----------------------------------------------------------------------------
(* set_zone and set_virtual_router.  The loop visits the groups the task   *)
(* has read, in any order, and takes the interface out of all but the one  *)
(* it is for; then it is put into that one.                                *)
Looping(t) == pc[t] \in {"leaveZone", "leaveVr"}

LeaveGroupClears(t, g) ==
  /\ Looping(t) /\ g \in todo[t] /\ IfOf[t] \in snap[t][g]
  /\ mem' = [mem EXCEPT ![g] = {}]
  /\ running' = "behind"
  /\ todo' = [todo EXCEPT ![t] = @ \ {g}]
  /\ changed' = [changed EXCEPT ![t] = "yes"]
  /\ UNCHANGED <<conf, exists, zmode, pc, read, res>>
LeaveGroup(t, g) ==
  /\ Looping(t) /\ g \in todo[t] /\ IfOf[t] \in snap[t][g]
  /\ mem' = [mem EXCEPT ![g] = snap[t][g] \ {IfOf[t]}]
  /\ running' = "behind"
  /\ UNCHANGED <<conf, exists, zmode>>
  /\ \/ /\ todo' = [todo EXCEPT ![t] = @ \ {g}]
        /\ changed' = [changed EXCEPT ![t] = "yes"]
        /\ UNCHANGED <<pc, read, res>>
     \/ WriteLost(t)

PassAnyGroup(t, g) ==
  /\ Looping(t) /\ g \in todo[t]
  /\ g \in Zone => snap[t][g] # {}
  /\ todo' = [todo EXCEPT ![t] = @ \ {g}]
  /\ UNCHANGED <<device, pc, read, changed, res>>
PassGroup(t, g) ==
  /\ Looping(t) /\ g \in todo[t] /\ IfOf[t] \notin snap[t][g]
  /\ g \in Zone => snap[t][g] # {}
  /\ todo' = [todo EXCEPT ![t] = @ \ {g}]
  /\ UNCHANGED <<device, pc, read, changed, res>>

(* A zone without members: "in None" is a TypeError that nobody catches.   *)
EmptyZoneRaises(t, g) ==
  /\ At(t, "leaveZone") /\ g \in todo[t] /\ snap[t][g] = {}
  /\ End(t, "failed")
  /\ UNCHANGED device

ToRouters(t, chg) ==
  /\ Goto(t, "leaveVr")
  /\ todo' = [todo EXCEPT ![t] = (groups[t] \cap Router) \ Wanted(t)]
  /\ changed' = [changed EXCEPT ![t] = chg]
  /\ UNCHANGED <<read, res>>

AddsDhcp(t) == Op[t] = "present" /\ t \in Dhcp

AfterRouters(t, chg) ==
  \/ /\ AddsDhcp(t)
     /\ Goto(t, "dhcp") /\ changed' = [changed EXCEPT ![t] = chg]
     /\ UNCHANGED <<read, todo, res>>
  \/ /\ Wanted(t) = {} /\ IfOf[t] \in ifs[t]
     /\ Goto(t, "delete") /\ changed' = [changed EXCEPT ![t] = chg]
     /\ UNCHANGED <<read, todo, res>>
  \/ /\ ~ AddsDhcp(t)
     /\ ~ (Wanted(t) = {} /\ IfOf[t] \in ifs[t])
     /\ FinishAs(t, chg)

(* A zone of another mode: panos_interface raises, and from the tunnel     *)
(* scripts the firewall does not take such a member.                       *)
WrongMode(t, z) == zmode[z] # ModeOf[IfOf[t]]

InWanted(t, g) == Wanted(t) = {} \/ IfOf[t] \in snap[t][g]

KeepZone(t) ==
  /\ At(t, "leaveZone") /\ todo[t] = {} /\ InWanted(t, ZoneFor[t])
  /\ Wanted(t) # {} => ~ WrongMode(t, ZoneFor[t])
  /\ ToRouters(t, changed[t])
  /\ UNCHANGED device

RefuseZone(t) ==
  LET z == ZoneFor[t]
  IN  /\ At(t, "leaveZone") /\ todo[t] = {} /\ Wanted(t) # {}
      /\ z \in exists /\ WrongMode(t, z)
      /\ End(t, "failed")
      /\ UNCHANGED device

JoinZoneByName(t) ==
  LET z == ZoneFor[t]
  IN  /\ At(t, "leaveZone") /\ todo[t] = {} /\ ~ InWanted(t, z)
      /\ z \in groups[t] /\ ~ WrongMode(t, z)
      /\ mem' = [mem EXCEPT ![z] = snap[t][z] \cup {z}]
      /\ running' = "behind"
      /\ ToRouters(t, "yes")
      /\ UNCHANGED <<conf, exists, zmode>>
JoinZoneAlone(t) ==
  LET z == ZoneFor[t]
  IN  /\ At(t, "leaveZone") /\ todo[t] = {} /\ ~ InWanted(t, z)
      /\ z \in groups[t] /\ ~ WrongMode(t, z)
      /\ mem' = [mem EXCEPT ![z] = {IfOf[t]}]
      /\ running' = "behind"
      /\ ToRouters(t, "yes") \/ WriteLost(t)
      /\ UNCHANGED <<conf, exists, zmode>>
JoinZone(t) ==
  LET z == ZoneFor[t]
  IN  /\ At(t, "leaveZone") /\ todo[t] = {} /\ ~ InWanted(t, z)
      /\ z \in groups[t] /\ ~ WrongMode(t, z)
      /\ mem' = [mem EXCEPT ![z] = snap[t][z] \cup {IfOf[t]}]
      /\ running' = "behind"
      /\ ToRouters(t, "yes") \/ WriteLost(t)
      /\ UNCHANGED <<conf, exists, zmode>>

(* Zone.create() adds to a zone that was made in the meantime.             *)
CreateZoneLater(t) ==
  /\ At(t, "leaveZone") /\ todo[t] = {} /\ ~ InWanted(t, ZoneFor[t])
  /\ ZoneFor[t] \notin groups[t]
  /\ ToRouters(t, changed[t])
  /\ UNCHANGED device
CreateZone(t) ==
  LET z == ZoneFor[t]
  IN  /\ At(t, "leaveZone") /\ todo[t] = {} /\ ~ InWanted(t, z)
      /\ z \notin groups[t]
      /\ z \in exists => ~ WrongMode(t, z)
      /\ exists' = exists \cup {z}
      /\ zmode' = [zmode EXCEPT ![z] = ModeOf[IfOf[t]]]
      /\ mem' = [mem EXCEPT ![z] = @ \cup {IfOf[t]}]
      /\ running' = "behind"
      /\ ToRouters(t, "yes") \/ WriteLost(t)
      /\ UNCHANGED conf

KeepRouter(t) ==
  /\ At(t, "leaveVr") /\ todo[t] = {} /\ InWanted(t, RouterFor[t])
  /\ AfterRouters(t, changed[t])
  /\ UNCHANGED device

JoinRouter(t) ==
  LET vr == RouterFor[t]
  IN  /\ At(t, "leaveVr") /\ todo[t] = {} /\ ~ InWanted(t, vr)
      /\ vr \in groups[t]
      /\ mem' = [mem EXCEPT ![vr] = snap[t][vr] \cup {IfOf[t]}]
      /\ running' = "behind"
      /\ AfterRouters(t, "yes") \/ WriteLost(t)
      /\ UNCHANGED <<conf, exists, zmode>>

MissingRouterRaises(t) ==
  /\ At(t, "leaveVr") /\ todo[t] = {} /\ ~ InWanted(t, RouterFor[t])
  /\ RouterFor[t] \notin groups[t]
  /\ End(t, "failed")
  /\ UNCHANGED device

-----------------------------------------------------------------------------
(* con.commit(): panos_interface passes a keyword the method does not have *)
(* and raises; panos_tunnel_int does not ask for an exception, and a       *)
(* commit that the firewall rejects passes for a good one, while a request *)
(* that is not answered fails the task, whether it arrived or not.         *)
CommitAll(t) ==
  /\ At(t, "commit")
  /\ UNCHANGED <<conf, exists, zmode, mem>>
  /\ \/ /\ Script[t] = "panos_interface"
        /\ End(t, "failed") /\ UNCHANGED running
     \/ /\ Script[t] = "panos_tunnel_int"
        /\ \/ running' = "same" /\ End(t, "ok")
           \/ "commit" \in Flaky /\ UNCHANGED running /\ End(t, "ok")
           \/ "commit" \in Flaky /\ running' \in {running, "same"} /\ End(t, "failed")

(* A call that fails without effect ends the task.                         *)
Calling(t) ==
  IF pc[t] \in {"interfaces", "zones", "routers", "refresh"} THEN "read"
  ELSE IF \/ pc[t] \in {"apply", "create", "dhcp", "delete"}
          \/ Looping(t) /\ \E g \in todo[t] : IfOf[t] \in snap[t][g]
          \/ At(t, "leaveZone") /\ todo[t] = {} /\ ~ InWanted(t, ZoneFor[t])
          \/ At(t, "leaveVr") /\ todo[t] = {} /\ ~ InWanted(t, RouterFor[t])
       THEN "write"
  ELSE "none"

CallFails(t) ==
  /\ Calling(t) \in Flaky
  /\ End(t, "failed")
  /\ UNCHANGED device

Step(t) ==
  \/ ReadInterfaces(t) \/ ReadZones(t) \/ ReadRouters(t)
  \/ RefreshInterface(t) \/ Configure(t) \/ EnableDhcp(t) \/ Delete(t)
  \/ \E g \in Group : LeaveGroup(t, g) \/ PassGroup(t, g) \/ EmptyZoneRaises(t, g)
  \/ KeepZone(t) \/ RefuseZone(t) \/ JoinZone(t) \/ CreateZone(t)
  \/ KeepRouter(t) \/ JoinRouter(t) \/ MissingRouterRaises(t)
  \/ CommitAll(t) \/ CallFails(t)

Next == \E t \in Task : Start(t) \/ Step(t)

Spec == Init /\ [][Next]_vars

(* The role is run again until it succeeds, and a call that is made again  *)
(* and again is answered in the end.                                       *)
Fairness ==
  \A t \in Task :
    /\ SF_vars(Start(t)) /\ WF_vars(Step(t))
    /\ \A l \in Label : SF_vars(At(t, l) /\ Step(t) /\ res'[t] # "failed")
FairSpec == Spec /\ Fairness

-----------------------------------------------------------------------------
(* PROPERTIES.                                                             *)

In(i, kind) == {g \in kind : i \in mem[g]}
Placed(t) ==
  IF Wanted(t) = {}
  THEN IfOf[t] \notin There /\ In(IfOf[t], Group) = {}
  ELSE /\ In(IfOf[t], Group) = Wanted(t)
       /\ conf[IfOf[t]] = IF AddsDhcp(t) THEN "dhcp" ELSE "asked"

(* What ends well has done all it was asked, whatever earlier runs left    *)
(* half done: the interface is in its zone and its router and in no other. *)
OkMeansPlaced ==
  [][\A t \in Task : res[t] # "ok" /\ res'[t] = "ok" => Placed(t)']_vars

(* A member of a zone or a router is configured: a task that fails between *)
(* two calls leaves no reference to an interface that is gone.             *)
MembersExist == \A g \in Group : mem[g] \subseteq There

(* No interface is ever in two zones or in two virtual routers.            *)
OneHome == \A i \in If : \A kind \in {Zone, Router} :
             \A g, h \in In(i, kind) : g = h

(* No call of a task, and none that fails, leaves the groups in a state    *)
(* that a commit refuses: a member that is gone, or one in two places.     *)
Consistent == OneHome /\ MembersExist

(* Only a task of its own moves an interface: the member lists a task      *)
(* writes whole do not lose or bring back another member.                  *)
OthersUntouched ==
  [][\A i \in If : In(i, Group) # In(i, Group)'
       => \E t \in Task : IfOf[t] = i /\ ~ At(t, "idle")]_vars

(* A task that is run again ends up with its interface in place, unless    *)
(* its router is missing, its zone has another mode, or a zone it is not   *)
(* for has no members.                                                     *)
Obstructed(t) ==
  \/ RouterFor[t] \notin exists
  \/ ZoneFor[t] \in exists /\ WrongMode(t, ZoneFor[t])
  \/ \E z \in (Zone \cap exists) \ Wanted(t) : mem[z] = {}
Converges == \A t \in Task : Op[t] = "present" => <>(Placed(t) \/ Obstructed(t))

Home(i, kind) ==
  IF In(i, kind) = {} THEN NoGroup ELSE CHOOSE g \in kind : i \in mem[g]
P == INSTANCE Placement WITH
       there  <- There,
       zone   <- [i \in If |-> Home(i, Zone)],
       router <- [i \in If |-> Home(i, Router)]
PlacementSpec == P!Spec
=============================================================================
