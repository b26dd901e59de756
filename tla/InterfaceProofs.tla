-------------------------- MODULE InterfaceProofs --------------------------
(***************************************************************************)
(* Proofs about InterfaceTask, for every set of interfaces, zones, routers *)
(* and tasks.                                                              *)
(***************************************************************************)
EXTENDS InterfaceTask, TLAPS

USE DEF device, read, locals, At, Goto

(* What the constants are.                                                 *)
LEMMA TaskConstants ==
  \A t \in Task : /\ IfOf[t] \in If
                  /\ ZoneFor[t] \in Zone /\ ZoneFor[t] \in Group
                  /\ RouterFor[t] \in Router /\ RouterFor[t] \in Group
                  /\ ModeOf[IfOf[t]] \in Mode
BY InterfaceAssumption DEF Group

(* A task that ends leaves its local variables well typed.                 *)
LocalsOK ==
  /\ pc \in [Task -> Label]
  /\ ifs \in [Task -> SUBSET If]
  /\ groups \in [Task -> SUBSET Group]
  /\ snap \in [Task -> [Group -> SUBSET If]]
  /\ todo \in [Task -> SUBSET Group]
  /\ changed \in [Task -> {"no", "yes"}]
  /\ res \in [Task -> {"none", "ok", "failed"}]

LEMMA EndType ==
  ASSUME LocalsOK, NEW t \in Task, NEW how \in {"ok", "failed"}, End(t, how)
  PROVE  LocalsOK'
BY DEF LocalsOK, End, Label

LEMMA FinishType ==
  ASSUME LocalsOK, NEW t \in Task, NEW chg \in {"no", "yes"}, FinishAs(t, chg)
  PROVE  LocalsOK'
<1>1. CASE End(t, "ok")
  BY <1>1, EndType
<1>2. CASE ~ End(t, "ok")
  BY <1>2 DEF LocalsOK, FinishAs, Label
<1>3. QED
  BY <1>1, <1>2

LEMMA LostType ==
  ASSUME LocalsOK, NEW t \in Task, WriteLost(t)
  PROVE  LocalsOK'
BY EndType DEF WriteLost

LEMMA ToRoutersType ==
  ASSUME LocalsOK, NEW t \in Task, NEW chg \in {"no", "yes"}, ToRouters(t, chg)
  PROVE  LocalsOK'
BY DEF LocalsOK, ToRouters, Label

LEMMA AfterRoutersType ==
  ASSUME LocalsOK, NEW t \in Task, NEW chg \in {"no", "yes"}, AfterRouters(t, chg)
  PROVE  LocalsOK'
<1>1. CASE FinishAs(t, chg)
  BY <1>1, FinishType
<1>2. CASE ~ FinishAs(t, chg)
  BY <1>2 DEF LocalsOK, AfterRouters, Label
<1>3. QED
  BY <1>1, <1>2

(* The configuration is well typed.                                        *)
DeviceOK ==
  /\ conf \in [If -> {"absent", "other", "asked", "dhcp"}]
  /\ exists \subseteq Group
  /\ zmode \in [Zone -> Mode]
  /\ mem \in [Group -> SUBSET If]
  /\ running \in {"same", "behind"}

(* A step of a task keeps the types of the configuration ...               *)
LEMMA DeviceStep ==
  ASSUME DeviceOK, LocalsOK, NEW t \in Task, Step(t)
  PROVE  DeviceOK'
<1>0. /\ snap[t] \in [Group -> SUBSET If]
      /\ \A g \in Group : snap[t][g] \in SUBSET If
  BY DEF LocalsOK
<1> USE <1>0, TaskConstants DEF DeviceOK
<1>1. CASE ReadInterfaces(t) \/ ReadZones(t) \/ ReadRouters(t) \/ RefreshInterface(t)
  BY <1>1 DEF ReadInterfaces, ReadZones, ReadRouters, RefreshInterface
<1>2. CASE KeepZone(t) \/ RefuseZone(t) \/ KeepRouter(t) \/ MissingRouterRaises(t) \/ CallFails(t)
  BY <1>2 DEF KeepZone, RefuseZone, KeepRouter, MissingRouterRaises, CallFails
<1>3. CASE Configure(t)
  BY <1>3 DEF Configure
<1>4. CASE EnableDhcp(t)
  BY <1>4 DEF EnableDhcp
<1>5. CASE Delete(t)
  BY <1>5 DEF Delete
<1>6. CASE JoinZone(t)
  BY <1>6 DEF JoinZone
<1>7. CASE CreateZone(t)
  BY <1>7 DEF CreateZone
<1>8. CASE JoinRouter(t)
  BY <1>8 DEF JoinRouter
<1>9. CASE CommitAll(t)
  BY <1>9 DEF CommitAll
<1>10. ASSUME NEW g \in Group, LeaveGroup(t, g)
      PROVE  DeviceOK'
  BY <1>10 DEF LeaveGroup
<1>11. ASSUME NEW g \in Group, PassGroup(t, g) \/ EmptyZoneRaises(t, g)
      PROVE  DeviceOK'
  BY <1>11 DEF PassGroup, EmptyZoneRaises
<1>12. QED
  BY <1>1, <1>2, <1>3, <1>4, <1>5, <1>6, <1>7, <1>8, <1>9, <1>10, <1>11 DEF Step

(* ... and those of the tasks' local variables.                            *)
LEMMA LocalsStep ==
  ASSUME DeviceOK, LocalsOK, NEW t \in Task, Start(t) \/ Step(t)
  PROVE  LocalsOK'
<1>0. changed[t] \in {"no", "yes"}
  BY DEF LocalsOK
<1>1. CASE Start(t)
  BY <1>1 DEF Start, LocalsOK, Label
<1>2. CASE ReadInterfaces(t)
  BY <1>2 DEF ReadInterfaces, There, LocalsOK, Label
<1>3. CASE ReadZones(t)
  BY <1>3 DEF ReadZones, Refresh, LocalsOK, DeviceOK, Label
<1>4. CASE ReadRouters(t)
  <2>1. CASE End(t, "failed")
    BY <2>1, EndType
  <2>2. CASE ~ End(t, "failed")
    <3>1. FirstStep(t) \in Label
      BY InterfaceAssumption DEF FirstStep, ByState, ByOperation, Label, States, Operations
    <3>2. /\ pc' = [pc EXCEPT ![t] = FirstStep(t)]
          /\ Refresh(t, Router)
          /\ todo' = [todo EXCEPT ![t] = (groups[t] \cap Zone) \ Wanted(t)]
          /\ UNCHANGED <<ifs, changed, res>>
      BY <1>4, <2>2 DEF ReadRouters
    <3>3. groups' \in [Task -> SUBSET Group] /\ snap' \in [Task -> [Group -> SUBSET If]]
      BY <3>2 DEF Refresh, LocalsOK, DeviceOK
    <3>4. QED
      BY <3>1, <3>2, <3>3 DEF LocalsOK
  <2>3. QED
    BY <2>1, <2>2
<1>5. CASE RefreshInterface(t)
  <2>1. CASE End(t, "failed")
    BY <2>1, EndType
  <2>2. CASE ~ End(t, "failed")
    BY <1>5, <2>2 DEF RefreshInterface, LocalsOK, Label
  <2>3. QED
    BY <2>1, <2>2
<1>6. CASE Configure(t)
  <2>1. CASE WriteLost(t)
    BY <2>1, LostType
  <2>2. CASE ~ WriteLost(t)
    BY <1>6, <2>2 DEF Configure, LocalsOK, Label
  <2>3. QED
    BY <2>1, <2>2
<1>7. CASE EnableDhcp(t) \/ Delete(t)
  BY <1>0, <1>7, LostType, FinishType DEF EnableDhcp, Delete
<1>8. CASE KeepZone(t) \/ JoinZone(t) \/ CreateZone(t)
  BY <1>0, <1>8, LostType, ToRoutersType DEF KeepZone, JoinZone, CreateZone
<1>9. CASE KeepRouter(t) \/ JoinRouter(t)
  BY <1>0, <1>9, LostType, AfterRoutersType DEF KeepRouter, JoinRouter
<1>10. CASE RefuseZone(t) \/ MissingRouterRaises(t) \/ CommitAll(t) \/ CallFails(t)
  BY <1>10, EndType DEF RefuseZone, MissingRouterRaises, CommitAll, CallFails
<1>11. ASSUME NEW g \in Group, LeaveGroup(t, g)
       PROVE  LocalsOK'
  <2>1. CASE WriteLost(t)
    BY <2>1, LostType
  <2>2. CASE ~ WriteLost(t)
    <3>1. /\ todo' = [todo EXCEPT ![t] = @ \ {g}]
          /\ changed' = [changed EXCEPT ![t] = "yes"]
          /\ UNCHANGED <<pc, read, res>>
      BY <1>11, <2>2 DEF LeaveGroup
    <3>2. QED
      BY <3>1 DEF LocalsOK
  <2>3. QED
    BY <2>1, <2>2
<1>12. ASSUME NEW g \in Group, PassGroup(t, g)
       PROVE  LocalsOK'
  BY <1>12 DEF PassGroup, LocalsOK
<1>13. ASSUME NEW g \in Group, EmptyZoneRaises(t, g)
       PROVE  LocalsOK'
  BY <1>13, EndType DEF EmptyZoneRaises
<1>14. QED
  BY <1>1, <1>2, <1>3, <1>4, <1>5, <1>6, <1>7, <1>8, <1>9, <1>10, <1>11,
     <1>12, <1>13 DEF Step

LEMMA InitType == Init => TypeOK
<1> SUFFICES ASSUME Init PROVE TypeOK
  OBVIOUS
<1>1. conf \in [If -> {"absent", "other", "asked", "dhcp"}]
  BY DEF Init
<1>2. exists \subseteq Group /\ zmode \in [Zone -> Mode]
  BY DEF Init
<1>3. mem \in [Group -> SUBSET If]
  BY DEF Init
<1>4. QED
  BY <1>1, <1>2, <1>3, Zenon DEF Init, TypeOK, Label

LEMMA TypeStep == TypeOK /\ [Next]_vars => TypeOK'
<1> SUFFICES ASSUME TypeOK, [Next]_vars PROVE TypeOK'
  OBVIOUS
<1>1. DeviceOK /\ LocalsOK
  BY DEF TypeOK, DeviceOK, LocalsOK
<1>2. DeviceOK' /\ LocalsOK'
  <2>1. ASSUME NEW t \in Task, Start(t) PROVE DeviceOK' /\ LocalsOK'
    BY <1>1, <2>1, LocalsStep DEF Start, DeviceOK
  <2>2. ASSUME NEW t \in Task, Step(t) PROVE DeviceOK' /\ LocalsOK'
    BY <1>1, <2>2, LocalsStep, DeviceStep
  <2>3. CASE UNCHANGED vars
    BY <1>1, <2>3 DEF DeviceOK, LocalsOK, vars
  <2>4. QED
    BY <2>1, <2>2, <2>3 DEF Next
<1>3. QED
  BY <1>2 DEF TypeOK, DeviceOK, LocalsOK

(* The type invariant, whatever tasks overlap or fail.                     *)
THEOREM TypeCorrect == Spec => []TypeOK
BY InitType, TypeStep, PTL DEF Spec

-----------------------------------------------------------------------------
(* Tasks that do not overlap.  What a task has read then stays true of the *)
(* groups it has not written yet, and the loop has visited every group the *)
(* interface is still a member of, but the one it is for.                  *)
Alone == \A t, u \in Task : pc[t] # "idle" /\ pc[u] # "idle" => t = u

Fresh(t, g) == snap[t][g] = mem[g] /\ (g \in groups[t] <=> g \in exists)

Leaving(t, kind) ==
  /\ todo[t] \subseteq kind /\ todo[t] \cap Wanted(t) = {}
  /\ \A g \in kind : /\ g \in todo[t] \cup Wanted(t) => Fresh(t, g)
                     /\ IfOf[t] \in mem[g] => g \in todo[t] \cup Wanted(t)

Left(t, kind) == \A g \in kind : IfOf[t] \in mem[g] <=> g \in Wanted(t)

TaskInv(t) ==
  /\ pc[t] \in {"idle", "interfaces", "zones"} => groups[t] = {}
  /\ pc[t] = "routers" => groups[t] \subseteq Zone /\ \A z \in Zone : Fresh(t, z)
  /\ pc[t] \in {"refresh", "apply", "create", "leaveZone"} =>
       Leaving(t, Zone) /\ \A r \in Router : Fresh(t, r)
  /\ pc[t] \in {"refresh", "apply", "create"} => Wanted(t) # {}
  /\ pc[t] = "leaveVr" => Left(t, Zone) /\ Leaving(t, Router)
  /\ pc[t] \in {"delete", "dhcp"} => Left(t, Group) /\ (Wanted(t) = {} <=> pc[t] = "delete")
  /\ pc[t] = "dhcp" => AddsDhcp(t)
  /\ pc[t] = "commit" => Placed(t)
  /\ pc[t] \in {"leaveZone", "leaveVr"} /\ Wanted(t) # {} => conf[IfOf[t]] = "asked"
  /\ pc[t] \in {"zones", "routers", "leaveZone", "leaveVr"} /\ Wanted(t) = {} =>
       (IfOf[t] \in ifs[t] <=> IfOf[t] \in There)

NoneInMissing == \A g \in Group \ exists : mem[g] = {}

Config == MembersExist /\ OneHome /\ NoneInMissing

Inv == TypeOK /\ Alone /\ Config /\ \A t \in Task : TaskInv(t)

LEMMA WantedIn ==
  ASSUME NEW t \in Task
  PROVE  /\ Wanted(t) = {} \/ Wanted(t) = {ZoneFor[t], RouterFor[t]}
         /\ Wanted(t) \subseteq Group
         /\ ZoneFor[t] \notin Router /\ RouterFor[t] \notin Zone
BY TaskConstants, InterfaceAssumption DEF Wanted

(* A step of a task changes no other task's local variables.               *)
LEMMA Frame ==
  ASSUME LocalsOK, NEW t \in Task, Start(t) \/ Step(t), NEW u \in Task, u # t
  PROVE  pc'[u] = pc[u] /\ groups'[u] = groups[u] /\ res'[u] = res[u]
<1> DEFINE Same == pc'[u] = pc[u] /\ groups'[u] = groups[u] /\ res'[u] = res[u]
<1>1. ASSUME NEW how, End(t, how) PROVE Same
  BY <1>1 DEF End, LocalsOK
<1>2. ASSUME NEW chg, FinishAs(t, chg) PROVE Same
  BY <1>1, <1>2 DEF FinishAs, LocalsOK
<1>3. ASSUME WriteLost(t) PROVE Same
  BY <1>1, <1>3 DEF WriteLost
<1>4. ASSUME NEW chg, ToRouters(t, chg) PROVE Same
  BY <1>4 DEF ToRouters, LocalsOK
<1>5. ASSUME NEW chg, AfterRouters(t, chg) PROVE Same
  BY <1>2, <1>5 DEF AfterRouters, LocalsOK
<1>6. CASE Start(t) \/ ReadInterfaces(t) \/ ReadZones(t)
  BY <1>6 DEF Start, ReadInterfaces, ReadZones, Refresh, LocalsOK
<1>7. CASE ReadRouters(t) \/ RefreshInterface(t)
  BY <1>1, <1>7 DEF ReadRouters, RefreshInterface, Refresh, LocalsOK
<1>8. CASE Configure(t) \/ EnableDhcp(t) \/ Delete(t)
  BY <1>2, <1>3, <1>8 DEF Configure, EnableDhcp, Delete, LocalsOK
<1>9. CASE KeepZone(t) \/ JoinZone(t) \/ CreateZone(t)
  BY <1>3, <1>4, <1>9 DEF KeepZone, JoinZone, CreateZone
<1>10. CASE KeepRouter(t) \/ JoinRouter(t)
  BY <1>3, <1>5, <1>10 DEF KeepRouter, JoinRouter
<1>11. CASE RefuseZone(t) \/ MissingRouterRaises(t) \/ CommitAll(t) \/ CallFails(t)
  BY <1>1, <1>11 DEF RefuseZone, MissingRouterRaises, CommitAll, CallFails
<1>12. ASSUME NEW g \in Group, LeaveGroup(t, g) \/ PassGroup(t, g) \/ EmptyZoneRaises(t, g)
       PROVE  Same
  BY <1>1, <1>3, <1>12 DEF LeaveGroup, PassGroup, EmptyZoneRaises, LocalsOK
<1>13. QED
  BY <1>6, <1>7, <1>8, <1>9, <1>10, <1>11, <1>12 DEF Step

(* What a task writes when its lists are fresh: its own interface only,    *)
(* out of one group, or into one it is for and when it is in no other.     *)
Removes(t) == \E g \in Group : mem' = [mem EXCEPT ![g] = mem[g] \ {IfOf[t]}]
Adds(t) == \E kind \in {Zone, Router}, g \in Group :
  /\ g \in kind /\ In(IfOf[t], kind) = {}
  /\ IfOf[t] \in There
  /\ g \in exists'
  /\ mem' = [mem EXCEPT ![g] = mem[g] \cup {IfOf[t]}]

LEMMA Writes ==
  ASSUME TypeOK, NEW t \in Task, TaskInv(t), NoneInMissing, Step(t)
  PROVE  /\ exists \subseteq exists'
         /\ \/ mem' = mem /\ (There' = There \/ There' = There \cup {IfOf[t]})
            \/ mem' = mem /\ There' = There \ {IfOf[t]} /\ Wanted(t) = {} /\ Left(t, Group)
            \/ Removes(t) /\ There' = There
            \/ Adds(t) /\ There' = There
<1> DEFINE Goal ==
      /\ exists \subseteq exists'
      /\ \/ mem' = mem /\ (There' = There \/ There' = There \cup {IfOf[t]})
         \/ mem' = mem /\ There' = There \ {IfOf[t]} /\ Wanted(t) = {} /\ Left(t, Group)
         \/ Removes(t) /\ There' = There
         \/ Adds(t) /\ There' = There
<1>0. mem \in [Group -> SUBSET If] /\ conf \in [If -> {"absent", "other", "asked", "dhcp"}]
  BY DEF TypeOK
<1>1. CASE \/ ReadInterfaces(t) \/ ReadZones(t) \/ ReadRouters(t) \/ RefreshInterface(t)
           \/ KeepZone(t) \/ RefuseZone(t) \/ KeepRouter(t)
  BY <1>1 DEF ReadInterfaces, ReadZones, ReadRouters, RefreshInterface,
              KeepZone, RefuseZone, KeepRouter, There
<1>2. CASE MissingRouterRaises(t) \/ CommitAll(t) \/ CallFails(t)
  BY <1>2 DEF MissingRouterRaises, CommitAll, CallFails, There
<1>3. CASE Configure(t) \/ EnableDhcp(t)
  <2>1. /\ mem' = mem /\ exists' = exists
        /\ \/ conf' = [conf EXCEPT ![IfOf[t]] = "asked"]
           \/ conf' = [conf EXCEPT ![IfOf[t]] = "dhcp"]
    BY <1>3 DEF Configure, EnableDhcp
  <2>2. There' = There \cup {IfOf[t]}
    BY <2>1, <1>0, TaskConstants DEF There
  <2>3. QED
    BY <2>1, <2>2
<1>4. CASE Delete(t)
  <2>1. /\ mem' = mem /\ exists' = exists
        /\ conf' = [conf EXCEPT ![IfOf[t]] = "absent"]
        /\ Wanted(t) = {} /\ Left(t, Group)
    BY <1>4 DEF Delete, TaskInv
  <2>2. There' = There \ {IfOf[t]}
    BY <2>1, <1>0, TaskConstants DEF There
  <2>3. QED
    BY <2>1, <2>2
<1>5. CASE JoinZone(t)
  <2>1. /\ snap[t][ZoneFor[t]] = mem[ZoneFor[t]]
        /\ In(IfOf[t], Zone) = {} /\ IfOf[t] \in There
        /\ ZoneFor[t] \in exists
    BY <1>5, WantedIn, TaskConstants DEF JoinZone, TaskInv, Leaving, Fresh, InWanted, In, There
  <2>2. mem' = [mem EXCEPT ![ZoneFor[t]] = mem[ZoneFor[t]] \cup {IfOf[t]}]
        /\ conf' = conf /\ exists' = exists
    BY <1>5, <2>1 DEF JoinZone
  <2>3. Adds(t)
    BY <2>1, <2>2, TaskConstants DEF Adds
  <2>4. QED
    BY <2>2, <2>3 DEF There
<1>6. CASE CreateZone(t)
  <2>1. In(IfOf[t], Zone) = {} /\ IfOf[t] \in There
    BY <1>6, WantedIn, TaskConstants DEF CreateZone, TaskInv, Leaving, Fresh, InWanted, In, There
  <2>2. mem' = [mem EXCEPT ![ZoneFor[t]] = mem[ZoneFor[t]] \cup {IfOf[t]}]
        /\ conf' = conf /\ exists' = exists \cup {ZoneFor[t]}
    BY <1>6 DEF CreateZone
  <2>3. Adds(t)
    BY <2>1, <2>2, TaskConstants DEF Adds
  <2>4. QED
    BY <2>2, <2>3 DEF There
<1>7. CASE JoinRouter(t)
  <2>1. /\ snap[t][RouterFor[t]] = mem[RouterFor[t]]
        /\ In(IfOf[t], Router) = {} /\ IfOf[t] \in There
        /\ RouterFor[t] \in exists
    BY <1>7, WantedIn, TaskConstants DEF JoinRouter, TaskInv, Leaving, Fresh, InWanted, In, There
  <2>2. mem' = [mem EXCEPT ![RouterFor[t]] = mem[RouterFor[t]] \cup {IfOf[t]}]
        /\ conf' = conf /\ exists' = exists
    BY <1>7, <2>1 DEF JoinRouter
  <2>3. Adds(t)
    BY <2>1, <2>2, TaskConstants DEF Adds
  <2>4. QED
    BY <2>2, <2>3 DEF There
<1>8. ASSUME NEW g \in Group, LeaveGroup(t, g)
      PROVE  Goal
  <2>1. snap[t][g] = mem[g]
    BY <1>8 DEF LeaveGroup, Looping, TaskInv, Leaving, Fresh
  <2>2. mem' = [mem EXCEPT ![g] = mem[g] \ {IfOf[t]}] /\ conf' = conf /\ exists' = exists
    BY <1>8, <2>1 DEF LeaveGroup
  <2>3. Removes(t)
    BY <2>2 DEF Removes
  <2>4. QED
    BY <2>2, <2>3 DEF There
<1>9. ASSUME NEW g \in Group, PassGroup(t, g) \/ EmptyZoneRaises(t, g)
      PROVE  Goal
  BY <1>9 DEF PassGroup, EmptyZoneRaises, There
<1>10. QED
  BY <1>1, <1>2, <1>3, <1>4, <1>5, <1>6, <1>7, <1>8, <1>9 DEF Step

(* The configuration stays one the firewall accepts.                       *)
LEMMA ConfigStep ==
  ASSUME TypeOK, NEW t \in Task, TaskInv(t), Config, Step(t)
  PROVE  Config'
<1>0. mem \in [Group -> SUBSET If]
  BY DEF TypeOK
<1>1. /\ \A g \in Group : mem[g] \subseteq There
      /\ \A g \in Group \ exists : mem[g] = {}
      /\ \A i \in If, kind \in {Zone, Router} : \A g, h \in kind :
           i \in mem[g] /\ i \in mem[h] => g = h
      /\ Zone \subseteq Group /\ Router \subseteq Group /\ Zone \cap Router = {}
  BY InterfaceAssumption DEF Config, MembersExist, NoneInMissing, OneHome, In, Group
<1>2. exists \subseteq exists'
  BY Writes DEF Config
<1>3. SUFFICES /\ \A g \in Group : mem'[g] \subseteq There'
               /\ \A g \in Group \ exists' : mem'[g] = {}
               /\ \A i \in If, kind \in {Zone, Router} : \A g, h \in kind :
                    i \in mem'[g] /\ i \in mem'[h] => g = h
  BY <1>3 DEF Config, MembersExist, NoneInMissing, OneHome, In
<1>4. CASE mem' = mem /\ (There' = There \/ There' = There \cup {IfOf[t]})
  BY <1>1, <1>2, <1>4
<1>5. CASE mem' = mem /\ There' = There \ {IfOf[t]} /\ Wanted(t) = {} /\ Left(t, Group)
  BY <1>1, <1>2, <1>5 DEF Left
<1>6. CASE Removes(t) /\ There' = There
  BY <1>0, <1>1, <1>2, <1>6 DEF Removes
<1>7. CASE Adds(t) /\ There' = There
  <2>1. PICK kind \in {Zone, Router}, g \in Group :
          /\ g \in kind /\ (\A h \in kind : IfOf[t] \notin mem[h])
          /\ IfOf[t] \in There /\ g \in exists'
          /\ mem' = [mem EXCEPT ![g] = mem[g] \cup {IfOf[t]}]
    BY <1>7 DEF Adds, In
  <2>2. \A h \in Group : mem'[h] = IF h = g THEN mem[g] \cup {IfOf[t]} ELSE mem[h]
    BY <1>0, <2>1
  <2>3. \A h \in Group : mem'[h] \subseteq There'
    BY <1>1, <1>7, <2>1, <2>2
  <2>4. \A h \in Group \ exists' : mem'[h] = {}
    BY <1>1, <1>2, <2>1, <2>2
  <2>5. ASSUME NEW i \in If, NEW k \in {Zone, Router}, NEW h1 \in k, NEW h2 \in k,
               i \in mem'[h1], i \in mem'[h2]
        PROVE  h1 = h2
    BY <1>1, <2>1, <2>2, <2>5
  <2>6. QED
    BY <2>3, <2>4, <2>5
<1>8. QED
  BY <1>4, <1>5, <1>6, <1>7, Writes DEF Config

(* A task keeps its own invariant: ended, there is nothing to show; going  *)
(* on, what it has not written yet is as it read it.                       *)
LEMMA Ended ==
  ASSUME LocalsOK, NEW t \in Task, NEW how, End(t, how)
  PROVE  TaskInv(t)'
BY DEF End, LocalsOK, TaskInv

LEMMA Finished ==
  ASSUME LocalsOK, NEW t \in Task, NEW chg, FinishAs(t, chg), Placed(t)'
  PROVE  TaskInv(t)'
BY Ended DEF FinishAs, LocalsOK, TaskInv

LEMMA Starts ==
  ASSUME LocalsOK, NEW t \in Task, TaskInv(t), Start(t) \/ ReadInterfaces(t)
  PROVE  TaskInv(t)'
BY DEF Start, ReadInterfaces, LocalsOK, TaskInv, There

LEMMA ZonesRead ==
  ASSUME TypeOK, NEW t \in Task, TaskInv(t), ReadZones(t)
  PROVE  TaskInv(t)'
<1>1. /\ pc'[t] = "routers"
      /\ groups'[t] = exists \cap Zone
      /\ \A z \in Zone : snap'[t][z] = mem[z]
  BY DEF ReadZones, Refresh, TaskInv, TypeOK, Group
<1>2. mem' = mem /\ exists' = exists
  BY DEF ReadZones
<1>3. (IfOf[t] \in ifs[t] <=> IfOf[t] \in There)' <=> (IfOf[t] \in ifs[t] <=> IfOf[t] \in There)
  BY DEF ReadZones, There
<1>4. QED
  BY <1>1, <1>2, <1>3 DEF ReadZones, TaskInv, Fresh

LEMMA RoutersRead ==
  ASSUME TypeOK, NEW t \in Task, TaskInv(t), NoneInMissing, ReadRouters(t)
  PROVE  TaskInv(t)'
<1>1. CASE End(t, "failed")
  BY <1>1, Ended DEF TypeOK, LocalsOK
<1>2. CASE ~ End(t, "failed")
  <2>1. /\ pc'[t] = FirstStep(t)
        /\ groups'[t] = groups[t] \cup (exists \cap Router)
        /\ \A g \in Group : snap'[t][g] = IF g \in Router THEN mem[g] ELSE snap[t][g]
        /\ todo'[t] = (groups[t] \cap Zone) \ Wanted(t)
    BY <1>2 DEF ReadRouters, Refresh, TypeOK
  <2>2. mem' = mem /\ exists' = exists /\ conf' = conf
    BY DEF ReadRouters
  <2>3. groups[t] \subseteq Zone /\ \A z \in Zone : Fresh(t, z)
    BY DEF ReadRouters, TaskInv
  <2>4. \A z \in Zone : Fresh(t, z)'
    BY <2>1, <2>2, <2>3, InterfaceAssumption DEF Fresh, Group
  <2>5. \A r \in Router : Fresh(t, r)'
    BY <2>1, <2>2, <2>3, InterfaceAssumption DEF Fresh, Group
  <2>6. Leaving(t, Zone)'
    <3>1. ASSUME NEW z \in Zone, IfOf[t] \in mem'[z] PROVE z \in todo'[t] \cup Wanted(t)
      BY <2>1, <2>2, <2>3, <3>1, TaskConstants DEF Fresh, NoneInMissing, Group
    <3>2. QED
      BY <2>1, <2>4, <3>1 DEF Leaving, Wanted
  <2>7. FirstStep(t) \in {"refresh", "apply", "create", "leaveZone", "idle"}
        /\ (FirstStep(t) \in {"leaveZone", "idle"} \/ Wanted(t) # {})
        /\ (FirstStep(t) = "leaveZone" => Wanted(t) = {})
    BY InterfaceAssumption DEF FirstStep, ByState, ByOperation, Wanted, States,
       Operations
  <2>8. FirstStep(t) # "idle"
    BY <1>2 DEF ReadRouters
  <2>9. Wanted(t) = {} => (IfOf[t] \in ifs[t] <=> IfOf[t] \in There)'
    BY <1>2 DEF ReadRouters, TaskInv, There
  <2>10. QED
    BY <2>1, <2>4, <2>5, <2>6, <2>7, <2>8, <2>9 DEF TaskInv, Wanted
<1>3. QED
  BY <1>1, <1>2

(* The last write to the interface itself.                                 *)
LEMMA LastWrite ==
  ASSUME TypeOK, NEW t \in Task, TaskInv(t), EnableDhcp(t) \/ Delete(t)
  PROVE  Placed(t)'
<1>1. mem' = mem /\ Left(t, Group)
  BY DEF EnableDhcp, Delete, TaskInv
<1>2. CASE EnableDhcp(t)
  <2>1. conf'[IfOf[t]] = "dhcp" /\ Wanted(t) # {} /\ AddsDhcp(t)
    BY <1>2, TaskConstants DEF EnableDhcp, TaskInv, TypeOK
  <2>2. QED
    BY <1>1, <2>1, WantedIn DEF Placed, In, Left
<1>3. CASE Delete(t)
  <2>1. conf'[IfOf[t]] = "absent" /\ Wanted(t) = {}
    BY <1>3, TaskConstants DEF Delete, TaskInv, TypeOK
  <2>2. QED
    BY <1>1, <2>1 DEF Placed, In, Left, There
<1>4. QED
  BY <1>2, <1>3

LEMMA OwnInterface ==
  ASSUME TypeOK, NEW t \in Task, TaskInv(t),
         RefreshInterface(t) \/ Configure(t) \/ EnableDhcp(t) \/ Delete(t)
  PROVE  TaskInv(t)'
<1>0. LocalsOK
  BY DEF TypeOK, LocalsOK
<1>1. CASE WriteLost(t) \/ \E how : End(t, how)
  BY <1>0, <1>1, Ended DEF WriteLost
<1>2. CASE EnableDhcp(t) \/ Delete(t)
  <2>1. Placed(t)'
    BY <1>2, LastWrite
  <2>2. QED
    BY <1>0, <1>1, <1>2, <2>1, Finished DEF EnableDhcp, Delete
<1>3. CASE ~ WriteLost(t) /\ (\A how : ~ End(t, how)) /\ ~ EnableDhcp(t) /\ ~ Delete(t)
  <2>1. /\ \/ /\ RefreshInterface(t) /\ conf' = conf
              /\ pc' = [pc EXCEPT ![t] = IF conf[IfOf[t]] = "asked" THEN "leaveZone" ELSE "apply"]
           \/ /\ Configure(t) /\ conf' = [conf EXCEPT ![IfOf[t]] = "asked"]
              /\ pc' = [pc EXCEPT ![t] = "leaveZone"]
        /\ pc[t] \in {"refresh", "apply", "create"}
        /\ UNCHANGED <<mem, exists, groups, snap, todo>>
    BY <1>3 DEF RefreshInterface, Configure
  <2>2. pc'[t] \in {"apply", "leaveZone"}
    BY <2>1 DEF TypeOK
  <2>3. Leaving(t, Zone)' /\ \A r \in Router : Fresh(t, r)'
    BY <2>1 DEF TaskInv, Leaving, Fresh
  <2>4. pc'[t] = "leaveZone" => conf'[IfOf[t]] = "asked"
    BY <2>1, TaskConstants DEF TypeOK
  <2>5. Wanted(t) # {}
    BY <2>1 DEF TaskInv
  <2>6. QED
    BY <2>2, <2>3, <2>4, <2>5 DEF TaskInv
<1>4. QED
  BY <1>1, <1>2, <1>3

(* The loop: one group less to visit, the others as they were.             *)
LEMMA Loops ==
  ASSUME TypeOK, NEW t \in Task, TaskInv(t), NEW g \in Group,
         LeaveGroup(t, g) \/ PassGroup(t, g) \/ EmptyZoneRaises(t, g)
  PROVE  TaskInv(t)'
<1>0. LocalsOK
  BY DEF TypeOK, LocalsOK
<1>1. CASE WriteLost(t) \/ EmptyZoneRaises(t, g)
  BY <1>0, <1>1, Ended DEF WriteLost, EmptyZoneRaises
<1>2. CASE ~ WriteLost(t) /\ ~ EmptyZoneRaises(t, g)
  <2>1. /\ Looping(t) /\ g \in todo[t]
        /\ todo' = [todo EXCEPT ![t] = @ \ {g}]
        /\ UNCHANGED <<pc, ifs, groups, snap, exists, conf>>
        /\ \/ mem' = [mem EXCEPT ![g] = snap[t][g] \ {IfOf[t]}]
           \/ mem' = mem /\ IfOf[t] \notin snap[t][g]
    BY <1>2 DEF LeaveGroup, PassGroup
  <2>2. /\ todo'[t] = todo[t] \ {g} /\ pc'[t] = pc[t] /\ There' = There
        /\ \A h \in Group : h # g => mem'[h] = mem[h]
    BY <2>1 DEF TypeOK, There
  <2>3. ASSUME NEW kind \in {Zone, Router}, Leaving(t, kind), g \notin Wanted(t)
        PROVE  Leaving(t, kind)'
    <3>1. g \in kind /\ snap[t][g] = mem[g]
      BY <2>1, <2>3 DEF Leaving, Fresh
    <3>2. IfOf[t] \notin mem'[g]
      BY <2>1, <3>1 DEF TypeOK
    <3>3. \A h \in kind : h \in todo'[t] \cup Wanted(t) => Fresh(t, h)'
      BY <2>1, <2>2, <2>3 DEF Leaving, Fresh, Group
    <3>4. \A h \in kind : IfOf[t] \in mem'[h] => h \in todo'[t] \cup Wanted(t)
      BY <2>1, <2>2, <2>3, <3>2 DEF Leaving, Group
    <3>5. QED
      BY <2>2, <2>3, <3>3, <3>4 DEF Leaving
  <2>4. CASE pc[t] = "leaveZone"
    <3>1. Leaving(t, Zone) /\ g \in Zone /\ g \notin Wanted(t)
      BY <2>1, <2>4 DEF TaskInv, Leaving
    <3>2. \A r \in Router : Fresh(t, r)'
      BY <2>1, <2>2, <2>4, <3>1, InterfaceAssumption DEF TaskInv, Fresh, Group
    <3>3. QED
      BY <2>1, <2>2, <2>3, <2>4, <3>1, <3>2 DEF TaskInv
  <2>5. CASE pc[t] = "leaveVr"
    <3>1. Leaving(t, Router) /\ g \in Router /\ g \notin Wanted(t)
      BY <2>1, <2>5 DEF TaskInv, Leaving
    <3>2. Left(t, Zone)'
      BY <2>2, <2>5, <3>1, InterfaceAssumption DEF TaskInv, Left, Group
    <3>3. QED
      BY <2>1, <2>2, <2>3, <2>5, <3>1, <3>2 DEF TaskInv
  <2>6. QED
    BY <2>1, <2>4, <2>5 DEF Looping
<1>3. QED
  BY <1>1, <1>2

(* Out of the zones and into the one it is for: now the routers.           *)
LEMMA Zoned ==
  ASSUME TypeOK, NEW t \in Task, TaskInv(t), NoneInMissing,
         KeepZone(t) \/ RefuseZone(t) \/ JoinZone(t) \/ CreateZone(t)
  PROVE  TaskInv(t)'
<1>0. LocalsOK
  BY DEF TypeOK, LocalsOK
<1>1. CASE WriteLost(t) \/ RefuseZone(t)
  BY <1>0, <1>1, Ended DEF WriteLost, RefuseZone
<1>2. CASE ~ WriteLost(t) /\ ~ RefuseZone(t)
  <2>1. PICK chg : ToRouters(t, chg)
    BY <1>2 DEF KeepZone, JoinZone, CreateZone
  <2>2. /\ pc'[t] = "leaveVr"
        /\ todo'[t] = (groups[t] \cap Router) \ Wanted(t)
        /\ groups' = groups /\ snap' = snap /\ ifs' = ifs
    BY <2>1 DEF ToRouters, TypeOK
  <2>3. /\ Leaving(t, Zone) /\ todo[t] = {} /\ conf' = conf
        /\ \A r \in Router : Fresh(t, r)
        /\ Wanted(t) # {} => conf[IfOf[t]] = "asked"
        /\ Wanted(t) = {} => (IfOf[t] \in ifs[t] <=> IfOf[t] \in There)
    BY <1>2 DEF KeepZone, JoinZone, CreateZone, TaskInv
  <2>4. /\ \A g \in Group : g # ZoneFor[t] => mem'[g] = mem[g] /\ (g \in exists' <=> g \in exists)
        /\ mem' # mem => Wanted(t) # {}
    BY <1>2 DEF KeepZone, JoinZone, CreateZone, InWanted, TypeOK
  <2>11. Wanted(t) # {} => IfOf[t] \in mem'[ZoneFor[t]]
    BY <1>2, <2>3, WantedIn, TaskConstants
       DEF KeepZone, JoinZone, CreateZone, InWanted, TypeOK, Leaving, Fresh
  <2>5. \A r \in Router : mem'[r] = mem[r] /\ (r \in exists' <=> r \in exists)
    BY <2>4, WantedIn DEF Group
  <2>6. Left(t, Zone)'
    BY <2>3, <2>4, <2>11, WantedIn, TaskConstants DEF Left, Leaving, Group
  <2>7. \A r \in Router : Fresh(t, r)'
    BY <2>2, <2>3, <2>5 DEF Fresh
  <2>8. \A r \in Router : IfOf[t] \in mem'[r] => r \in todo'[t] \cup Wanted(t)
    BY <2>2, <2>3, <2>5 DEF Fresh, NoneInMissing, Group
  <2>9. Leaving(t, Router)'
    BY <2>2, <2>7, <2>8 DEF Leaving
  <2>10. QED
    BY <2>2, <2>3, <2>6, <2>9 DEF TaskInv, There
<1>3. QED
  BY <1>1, <1>2

(* Past the loop over the routers the interface is where it must be.       *)
LEMMA Arrived ==
  ASSUME TypeOK, NEW t \in Task, TaskInv(t), KeepRouter(t) \/ JoinRouter(t)
  PROVE  /\ Left(t, Group)'
         /\ ~ AddsDhcp(t) /\ ~ (Wanted(t) = {} /\ IfOf[t] \in ifs[t]) => Placed(t)'
<1>1. /\ Left(t, Zone) /\ Leaving(t, Router) /\ todo[t] = {}
      /\ \A g \in Group : g # RouterFor[t] => mem'[g] = mem[g]
      /\ Wanted(t) = {} => mem' = mem
  BY DEF KeepRouter, JoinRouter, InWanted, TaskInv, TypeOK
<1>2. ASSUME Wanted(t) # {} PROVE IfOf[t] \in mem'[RouterFor[t]]
  <2>1. RouterFor[t] \in Wanted(t) /\ snap[t][RouterFor[t]] = mem[RouterFor[t]]
    BY <1>1, <1>2, WantedIn, TaskConstants DEF Leaving, Fresh
  <2>2. CASE KeepRouter(t)
    BY <1>2, <2>1, <2>2 DEF KeepRouter, InWanted
  <2>3. CASE JoinRouter(t)
    BY <2>1, <2>3, TaskConstants DEF JoinRouter, TypeOK
  <2>4. QED
    BY <2>2, <2>3
<1>3. Left(t, Group)'
  BY <1>1, <1>2, WantedIn, TaskConstants DEF Left, Leaving, Group
<1>4. /\ conf' = conf
      /\ Wanted(t) # {} => conf[IfOf[t]] = "asked"
      /\ Wanted(t) = {} => (IfOf[t] \in ifs[t] <=> IfOf[t] \in There)
  BY DEF KeepRouter, JoinRouter, TaskInv
<1>5. In(IfOf[t], Group)' = Wanted(t)
  BY <1>3, WantedIn DEF Left, In
<1>6. QED
  BY <1>3, <1>4, <1>5 DEF Placed, There

(* Out of the routers too: only then may the interface be deleted.         *)
LEMMA Routed ==
  ASSUME TypeOK, NEW t \in Task, TaskInv(t),
         KeepRouter(t) \/ JoinRouter(t) \/ MissingRouterRaises(t)
  PROVE  TaskInv(t)'
<1>0. LocalsOK
  BY DEF TypeOK, LocalsOK
<1>1. CASE WriteLost(t) \/ MissingRouterRaises(t)
  BY <1>0, <1>1, Ended DEF WriteLost, MissingRouterRaises
<1>2. CASE ~ WriteLost(t) /\ ~ MissingRouterRaises(t)
  <2>1. PICK chg : AfterRouters(t, chg)
    BY <1>2 DEF KeepRouter, JoinRouter
  <2>2. Left(t, Group)'
    BY <1>2, Arrived
  <2>4. CASE FinishAs(t, chg) /\ ~ AddsDhcp(t) /\ ~ (Wanted(t) = {} /\ IfOf[t] \in ifs[t])
    BY <1>0, <1>2, <2>4, Finished, Arrived
  <2>5. CASE ~ (FinishAs(t, chg) /\ ~ AddsDhcp(t) /\ ~ (Wanted(t) = {} /\ IfOf[t] \in ifs[t]))
    <3>1. \/ pc'[t] = "dhcp" /\ AddsDhcp(t)
          \/ pc'[t] = "delete" /\ Wanted(t) = {}
      BY <2>1, <2>5 DEF AfterRouters, TypeOK
    <3>2. AddsDhcp(t) => Wanted(t) # {}
      BY DEF AddsDhcp, Wanted
    <3>3. QED
      BY <2>2, <3>1, <3>2 DEF TaskInv
  <2>6. QED
    BY <2>4, <2>5
<1>3. QED
  BY <1>1, <1>2

LEMMA OwnStep ==
  ASSUME TypeOK, NEW t \in Task, TaskInv(t), NoneInMissing, Start(t) \/ Step(t)
  PROVE  TaskInv(t)'
<1>0. LocalsOK
  BY DEF TypeOK, LocalsOK
<1>1. CASE CommitAll(t) \/ CallFails(t)
  BY <1>0, <1>1, Ended DEF CommitAll, CallFails
<1>2. QED
  BY <1>0, <1>1, Starts, ZonesRead, RoutersRead, OwnInterface, Loops, Zoned, Routed
     DEF Step

(* A task that takes a step is not idle.                                   *)
LEMMA Moving ==
  ASSUME NEW t \in Task, Step(t)
  PROVE  pc[t] # "idle"
<1>1. CASE CallFails(t)
  BY <1>1, InterfaceAssumption DEF CallFails, Calling, Looping
<1>2. CASE \E g \in Group : LeaveGroup(t, g) \/ PassGroup(t, g) \/ EmptyZoneRaises(t, g)
  BY <1>2 DEF LeaveGroup, PassGroup, EmptyZoneRaises, Looping
<1>3. CASE \/ ReadInterfaces(t) \/ ReadZones(t) \/ ReadRouters(t) \/ RefreshInterface(t)
           \/ Configure(t) \/ EnableDhcp(t) \/ Delete(t)
  BY <1>3 DEF ReadInterfaces, ReadZones, ReadRouters, RefreshInterface, Configure,
              EnableDhcp, Delete
<1>4. CASE \/ KeepZone(t) \/ RefuseZone(t) \/ JoinZone(t) \/ CreateZone(t)
           \/ KeepRouter(t) \/ JoinRouter(t) \/ MissingRouterRaises(t) \/ CommitAll(t)
  BY <1>4 DEF KeepZone, RefuseZone, JoinZone, CreateZone, KeepRouter, JoinRouter,
              MissingRouterRaises, CommitAll
<1>5. QED
  BY <1>1, <1>2, <1>3, <1>4 DEF Step

(* The other tasks are idle.                                               *)
LEMMA Others ==
  ASSUME ~ Overlap, TypeOK, Alone, NEW t \in Task, Start(t) \/ Step(t),
         NEW u \in Task, u # t, TaskInv(u)
  PROVE  pc[u] = "idle" /\ pc'[u] = "idle" /\ TaskInv(u)'
<1>0. LocalsOK
  BY DEF TypeOK, LocalsOK
<1>1. pc'[u] = pc[u] /\ groups'[u] = groups[u]
  BY <1>0, Frame
<1>2. CASE Start(t)
  BY <1>1, <1>2 DEF Start, TaskInv
<1>3. CASE Step(t)
  <2>1. pc[t] # "idle"
    BY <1>3, Moving
  <2>2. pc[u] = "idle"
    BY <2>1 DEF Alone
  <2>3. QED
    BY <1>1, <2>2 DEF TaskInv
<1>4. QED
  BY <1>2, <1>3

LEMMA InvStep == ~ Overlap /\ Inv /\ [Next]_vars => Inv'
<1> SUFFICES ASSUME ~ Overlap, Inv, [Next]_vars PROVE Inv'
  OBVIOUS
<1>1. TypeOK'
  BY TypeStep DEF Inv
<1>2. CASE UNCHANGED vars
  BY <1>1, <1>2 DEF Inv, Alone, Config, MembersExist, OneHome, In, NoneInMissing, There,
     TaskInv, Fresh, Leaving, Left, Placed, vars
<1>3. ASSUME NEW t \in Task, Start(t) \/ Step(t) PROVE Inv'
  <2>1. TaskInv(t)'
    BY <1>3, OwnStep DEF Inv, Config
  <2>2. \A u \in Task : u # t => pc'[u] = "idle" /\ TaskInv(u)'
    BY <1>3, Others DEF Inv
  <2>3. Alone'
    BY <2>2 DEF Alone
  <2>4. Config'
    <3>1. CASE Start(t)
      BY <3>1 DEF Start, Inv, Config, MembersExist, OneHome, In, NoneInMissing, There
    <3>2. CASE Step(t)
      BY <3>2, ConfigStep DEF Inv
    <3>3. QED
      BY <1>3, <3>1, <3>2
  <2>5. QED
    BY <1>1, <2>1, <2>2, <2>3, <2>4 DEF Inv
<1>4. QED
  BY <1>2, <1>3 DEF Next

(* Whatever the firewall starts with, its configuration is one it accepts. *)
LEMMA InitInv == Init => Inv
<1> SUFFICES ASSUME Init PROVE Inv
  OBVIOUS
<1>1. PICK zone \in [If -> Zone \cup {NoGroup}], router \in [If -> Router \cup {NoGroup}] :
        /\ \A i \in If : /\ {zone[i], router[i]} \subseteq exists \cup {NoGroup}
                         /\ conf[i] = "absent" => zone[i] = NoGroup /\ router[i] = NoGroup
        /\ mem = [g \in Group |-> {i \in If : zone[i] = g \/ router[i] = g}]
  BY DEF Init
<1>2. NoGroup \notin Group /\ Zone \cap Router = {} /\ Zone \subseteq Group /\ Router \subseteq Group
  BY InterfaceAssumption DEF Group
<1>3. \A g \in Group : mem[g] = {i \in If : zone[i] = g \/ router[i] = g}
  BY <1>1
<1>4. MembersExist
  BY <1>1, <1>2, <1>3 DEF MembersExist, There
<1>5. OneHome
  BY <1>1, <1>2, <1>3 DEF OneHome, In
<1>6. NoneInMissing
  BY <1>1, <1>2, <1>3 DEF NoneInMissing
<1>7. Alone /\ \A t \in Task : TaskInv(t)
  BY DEF Init, Alone, TaskInv
<1>8. QED
  BY <1>4, <1>5, <1>6, <1>7, InitType DEF Inv, Config

(* Tasks that do not overlap keep every interface in one zone and one      *)
(* virtual router at most and every member configured, however many calls  *)
(* fail and however often tasks are run again.                             *)
THEOREM Placing == ~ Overlap => (Spec => []Consistent)
<1> SUFFICES ASSUME ~ Overlap PROVE Spec => []Consistent
  OBVIOUS
<1>1. Inv /\ [Next]_vars => Inv'
  BY InvStep
<1>2. Inv => Consistent
  BY DEF Inv, Config, Consistent
<1>3. QED
  BY <1>1, <1>2, InitInv, PTL DEF Spec

(* And a task moves no interface but its own.                              *)
THEOREM Untouched == ~ Overlap => (Spec => OthersUntouched)
<1> SUFFICES ASSUME ~ Overlap PROVE Spec => OthersUntouched
  OBVIOUS
<1> DEFINE Own == \A i \in If : In(i, Group) # In(i, Group)'
                    => \E t \in Task : IfOf[t] = i /\ ~ At(t, "idle")
<1>1. Inv /\ [Next]_vars => Inv'
  BY InvStep
<1>2. Inv /\ [Next]_vars => [Own]_vars
  <2> SUFFICES ASSUME Inv, [Next]_vars PROVE Own \/ UNCHANGED vars
    OBVIOUS
  <2>1. ASSUME NEW t \in Task, Start(t) PROVE Own
    BY <2>1 DEF Start, In
  <2>2. ASSUME NEW t \in Task, Step(t) PROVE Own
    <3>1. \A i \in If : i # IfOf[t] => In(i, Group) = In(i, Group)'
      <4>1. mem \in [Group -> SUBSET If] /\ (mem' = mem \/ Removes(t) \/ Adds(t))
        BY <2>2, Writes DEF Inv, Config, TypeOK
      <4>2. QED
        BY <4>1 DEF Removes, Adds, In
    <3>2. pc[t] # "idle"
      BY <2>2, Moving DEF Inv, TypeOK, LocalsOK
    <3>3. QED
      BY <3>1, <3>2
  <2>3. QED
    BY <2>1, <2>2 DEF Next
<1>3. QED
  BY <1>1, <1>2, InitInv, PTL DEF Spec, OthersUntouched

(* Tasks at the same time.  If no group is asked for by the tasks of two   *)
(* interfaces, or holds one of them and is asked for by those of another,  *)
(* every group has its interface: realm[i] are the groups of i.            *)
Separate(realm) ==
  /\ \A i, j \in If : i # j => realm[i] \cap realm[j] = {}
  /\ \A t \in Task : Wanted(t) \subseteq realm[IfOf[t]]
Within(members, realm) == \A g \in Group, i \in If : i \in members[g] => g \in realm[i]
WithinInv(realm) ==
  /\ TypeOK /\ Within(mem, realm)
  /\ \A t \in Task : Within(snap[t], realm)

(* What a task writes is a member list of its own interface's groups.      *)
LEMMA WritesOwn ==
  ASSUME NEW realm, Separate(realm), WithinInv(realm), NEW t \in Task, Step(t)
  PROVE  /\ Within(mem', realm)
         /\ \A g \in Group, i \in If : i # IfOf[t] => (i \in mem'[g] <=> i \in mem[g])
<1>0. /\ mem \in [Group -> SUBSET If] /\ snap[t] \in [Group -> SUBSET If]
      /\ Within(mem, realm) /\ Within(snap[t], realm) /\ IfOf[t] \in If
  BY TaskConstants DEF WithinInv, TypeOK
<1>1. ASSUME NEW g \in realm[IfOf[t]], g \in Group, NEW set \in SUBSET {i \in If : g \in realm[i]},
             mem' = [mem EXCEPT ![g] = set]
      PROVE  /\ Within(mem', realm)
             /\ \A h \in Group, i \in If : i # IfOf[t] => (i \in mem'[h] <=> i \in mem[h])
  <2>1. /\ mem'[g] = set
        /\ \A h \in Group : h # g => mem'[h] = mem[h]
    BY <1>0, <1>1
  <2>2. Within(mem', realm)
    BY <1>0, <2>1 DEF Within
  <2>3. \A i \in If : i # IfOf[t] => g \notin realm[i]
    BY <1>0, <1>1 DEF Separate
  <2>4. \A i \in If : i # IfOf[t] => i \notin mem[g] /\ i \notin set
    BY <1>0, <1>1, <2>3 DEF Within
  <2>5. QED
    BY <2>1, <2>2, <2>4
<1>2. CASE \/ ReadInterfaces(t) \/ ReadZones(t) \/ ReadRouters(t) \/ RefreshInterface(t)
           \/ Configure(t) \/ EnableDhcp(t) \/ Delete(t) \/ KeepZone(t) \/ RefuseZone(t)
           \/ KeepRouter(t) \/ MissingRouterRaises(t) \/ CommitAll(t) \/ CallFails(t)
  <2>1. mem' = mem
    BY <1>2 DEF ReadInterfaces, ReadZones, ReadRouters, RefreshInterface, Configure, EnableDhcp,
                Delete, KeepZone, RefuseZone, KeepRouter, MissingRouterRaises, CommitAll, CallFails
  <2>2. QED
    BY <1>0, <2>1
<1>3. CASE JoinZone(t) \/ CreateZone(t)
  <2>1. ZoneFor[t] \in Group /\ ZoneFor[t] \in realm[IfOf[t]]
    <3>1. Wanted(t) # {}
      BY <1>3 DEF JoinZone, CreateZone, InWanted
    <3>2. QED
      BY <3>1, TaskConstants DEF Wanted, Separate
  <2>2. PICK set \in {snap[t][ZoneFor[t]] \cup {IfOf[t]}, mem[ZoneFor[t]] \cup {IfOf[t]}} :
          mem' = [mem EXCEPT ![ZoneFor[t]] = set]
    BY <1>3 DEF JoinZone, CreateZone
  <2>3. set \in SUBSET {i \in If : ZoneFor[t] \in realm[i]}
    BY <1>0, <2>1, <2>2 DEF Within
  <2>4. QED
    BY <1>1, <2>1, <2>2, <2>3
<1>4. CASE JoinRouter(t)
  <2>1. RouterFor[t] \in Group /\ RouterFor[t] \in realm[IfOf[t]]
    <3>1. Wanted(t) # {}
      BY <1>4 DEF JoinRouter, InWanted
    <3>2. QED
      BY <3>1, TaskConstants DEF Wanted, Separate
  <2>2. mem' = [mem EXCEPT ![RouterFor[t]] = snap[t][RouterFor[t]] \cup {IfOf[t]}]
    BY <1>4 DEF JoinRouter
  <2>3. snap[t][RouterFor[t]] \cup {IfOf[t]} \in SUBSET {i \in If : RouterFor[t] \in realm[i]}
    BY <1>0, <2>1 DEF Within
  <2>4. QED
    BY <1>1, <2>1, <2>2, <2>3
<1>5. ASSUME NEW g \in Group, LeaveGroup(t, g)
      PROVE  /\ Within(mem', realm)
             /\ \A h \in Group, i \in If : i # IfOf[t] => (i \in mem'[h] <=> i \in mem[h])
  <2>1. g \in realm[IfOf[t]] /\ mem' = [mem EXCEPT ![g] = snap[t][g] \ {IfOf[t]}]
    BY <1>0, <1>5 DEF LeaveGroup, Within
  <2>2. snap[t][g] \ {IfOf[t]} \in SUBSET {i \in If : g \in realm[i]}
    BY <1>0 DEF Within
  <2>3. QED
    BY <1>1, <2>1, <2>2
<1>6. ASSUME NEW g \in Group, PassGroup(t, g) \/ EmptyZoneRaises(t, g)
      PROVE  mem' = mem
  BY <1>6 DEF PassGroup, EmptyZoneRaises
<1>7. QED
  BY <1>0, <1>2, <1>3, <1>4, <1>5, <1>6 DEF Step

(* What a task remembers is what it has read, or nothing.                  *)
LEMMA ReadsWithin ==
  ASSUME NEW realm, WithinInv(realm), NEW t \in Task, Start(t) \/ Step(t), NEW u \in Task
  PROVE  Within(snap'[u], realm)
<1>0. /\ snap \in [Task -> [Group -> SUBSET If]] /\ mem \in [Group -> SUBSET If]
      /\ Within(mem, realm) /\ Within(snap[u], realm)
  BY DEF WithinInv, TypeOK
<1>1. \/ snap' = snap
      \/ snap' = [snap EXCEPT ![t] = [g \in Group |-> {}]]
      \/ \E kind \in {Zone, Router} :
           snap' = [snap EXCEPT ![t] = [g \in Group |-> IF g \in kind THEN mem[g] ELSE snap[t][g]]]
  <2>1. CASE Start(t) \/ ReadInterfaces(t) \/ ReadZones(t)
    BY <2>1 DEF Start, ReadInterfaces, ReadZones, Refresh
  <2>2. CASE ReadRouters(t)
    BY <2>2 DEF ReadRouters, Refresh, End
  <2>3. CASE RefreshInterface(t) \/ Configure(t) \/ EnableDhcp(t) \/ Delete(t)
    BY <2>3 DEF RefreshInterface, Configure, EnableDhcp, Delete, FinishAs, WriteLost, End
  <2>4. CASE KeepZone(t) \/ RefuseZone(t) \/ JoinZone(t) \/ CreateZone(t)
    BY <2>4 DEF KeepZone, RefuseZone, JoinZone, CreateZone, ToRouters, WriteLost, End
  <2>5. CASE KeepRouter(t) \/ JoinRouter(t) \/ MissingRouterRaises(t) \/ CommitAll(t) \/ CallFails(t)
    BY <2>5 DEF KeepRouter, JoinRouter, MissingRouterRaises, CommitAll, CallFails, AfterRouters,
                FinishAs, WriteLost, End
  <2>6. ASSUME NEW g \in Group, LeaveGroup(t, g) \/ PassGroup(t, g) \/ EmptyZoneRaises(t, g)
        PROVE  snap' = snap \/ snap' = [snap EXCEPT ![t] = [h \in Group |-> {}]]
    BY <2>6 DEF LeaveGroup, PassGroup, EmptyZoneRaises, WriteLost, End
  <2>7. QED
    BY <2>1, <2>2, <2>3, <2>4, <2>5, <2>6 DEF Step
<1>2. QED
  BY <1>0, <1>1 DEF Within

(* So tasks that run at the same time move no interface but their own, if  *)
(* their interfaces have no group in common; that they are for the same    *)
(* interface does no harm.  One group in common and a member can be lost:  *)
(* JoinZone and LeaveGroup write what the task has read of the whole group *)
(* (panos_interface.py:208).                                               *)
THEOREM UntouchedApart ==
  ASSUME NEW CONSTANT realm, Separate(realm)
  PROVE  Spec /\ Within(mem, realm) => OthersUntouched
<1> DEFINE Own == \A i \in If : In(i, Group) # In(i, Group)'
                    => \E t \in Task : IfOf[t] = i /\ ~ At(t, "idle")
<1>1. Init /\ Within(mem, realm) => WithinInv(realm)
  <2> SUFFICES ASSUME Init, Within(mem, realm) PROVE WithinInv(realm)
    OBVIOUS
  <2>1. \A t \in Task : Within(snap[t], realm)
    BY DEF Init, Within
  <2>2. QED
    BY <2>1, InitType DEF WithinInv
<1>2. WithinInv(realm) /\ [Next]_vars => WithinInv(realm)'
  <2> SUFFICES ASSUME WithinInv(realm), [Next]_vars PROVE WithinInv(realm)'
    OBVIOUS
  <2>1. TypeOK'
    BY TypeStep DEF WithinInv
  <2>2. CASE UNCHANGED vars
    BY <2>1, <2>2 DEF WithinInv, vars
  <2>3. ASSUME NEW t \in Task, Start(t) \/ Step(t)
        PROVE  Within(mem', realm) /\ \A u \in Task : Within(snap'[u], realm)
    <3>1. Within(mem', realm)
      BY <2>3, WritesOwn DEF Start, WithinInv
    <3>2. QED
      BY <2>3, <3>1, ReadsWithin
  <2>4. QED
    BY <2>1, <2>2, <2>3 DEF Next, WithinInv
<1>3. WithinInv(realm) /\ [Next]_vars => [Own]_vars
  <2> SUFFICES ASSUME WithinInv(realm), [Next]_vars PROVE Own \/ UNCHANGED vars
    OBVIOUS
  <2>1. ASSUME NEW t \in Task, Start(t) PROVE Own
    BY <2>1 DEF Start, In
  <2>2. ASSUME NEW t \in Task, Step(t) PROVE Own
    <3>1. \A i \in If : i # IfOf[t] => In(i, Group) = In(i, Group)'
      BY <2>2, WritesOwn DEF In
    <3>2. pc[t] # "idle"
      BY <2>2, Moving DEF WithinInv, TypeOK, LocalsOK
    <3>3. QED
      BY <3>1, <3>2
  <2>3. QED
    BY <2>1, <2>2 DEF Next
<1>4. QED
  BY <1>1, <1>2, <1>3, PTL DEF Spec, OthersUntouched

(* A task that ends well has just made, or found, all it was asked for.    *)
LEMMA Succeeds ==
  ASSUME TypeOK, NEW t \in Task, TaskInv(t), Step(t), res[t] # "ok", res'[t] = "ok"
  PROVE  Placed(t)'
<1>1. ASSUME NEW how, how # "ok", End(t, how) PROVE FALSE
  BY <1>1 DEF End, TypeOK
<1>2. ~ WriteLost(t)
  BY <1>1 DEF WriteLost
<1>3. CASE EnableDhcp(t) \/ Delete(t)
  BY <1>3, LastWrite
<1>4. CASE KeepRouter(t) \/ JoinRouter(t)
  <2>1. PICK chg : AfterRouters(t, chg)
    BY <1>2, <1>4 DEF KeepRouter, JoinRouter
  <2>2. ~ AddsDhcp(t) /\ ~ (Wanted(t) = {} /\ IfOf[t] \in ifs[t])
    BY <2>1 DEF AfterRouters
  <2>3. QED
    BY <1>4, <2>2, Arrived
<1>5. CASE CommitAll(t)
  BY <1>5 DEF CommitAll, TaskInv, Placed, In, There
<1>6. CASE ReadInterfaces(t) \/ ReadZones(t) \/ ReadRouters(t) \/ RefreshInterface(t) \/ Configure(t)
  BY <1>1, <1>2, <1>6 DEF ReadInterfaces, ReadZones, ReadRouters, RefreshInterface, Configure
<1>7. CASE KeepZone(t) \/ RefuseZone(t) \/ JoinZone(t) \/ CreateZone(t)
  BY <1>1, <1>2, <1>7 DEF KeepZone, RefuseZone, JoinZone, CreateZone, ToRouters
<1>8. CASE MissingRouterRaises(t) \/ CallFails(t)
  BY <1>1, <1>8 DEF MissingRouterRaises, CallFails
<1>9. ASSUME NEW g \in Group, LeaveGroup(t, g) \/ PassGroup(t, g) \/ EmptyZoneRaises(t, g)
      PROVE  FALSE
  BY <1>1, <1>2, <1>9 DEF LeaveGroup, PassGroup, EmptyZoneRaises
<1>10. QED
  BY <1>3, <1>4, <1>5, <1>6, <1>7, <1>8, <1>9 DEF Step

(* So the report of a task can be trusted, whatever earlier runs left half *)
(* done.                                                                   *)
THEOREM Truthful == ~ Overlap => (Spec => OkMeansPlaced)
<1> SUFFICES ASSUME ~ Overlap PROVE Spec => OkMeansPlaced
  OBVIOUS
<1> DEFINE Good == \A t \in Task : res[t] # "ok" /\ res'[t] = "ok" => Placed(t)'
<1>1. Inv /\ [Next]_vars => Inv'
  BY InvStep
<1>2. Inv /\ [Next]_vars => [Good]_vars
  <2> SUFFICES ASSUME Inv, [Next]_vars PROVE Good \/ UNCHANGED vars
    OBVIOUS
  <2>1. ASSUME NEW u \in Task, Start(u) PROVE Good
    BY <2>1 DEF Start, Inv, TypeOK
  <2>2. ASSUME NEW u \in Task, Step(u) PROVE Good
    <3>1. \A t \in Task : t # u => res'[t] = res[t]
      BY <2>2, Frame DEF Inv, TypeOK, LocalsOK
    <3>2. QED
      BY <2>2, <3>1, Succeeds DEF Inv
  <2>3. QED
    BY <2>1, <2>2 DEF Next
<1>3. QED
  BY <1>1, <1>2, InitInv, PTL DEF Spec, OkMeansPlaced

-----------------------------------------------------------------------------
(* The refinement of Placement.  With one group of a kind at most, the     *)
(* group an interface is in is the one Home picks.                         *)
IsHome == \A i \in If, kind \in {Zone, Router} :
            /\ Home(i, kind) \in kind \cup {NoGroup}
            /\ \A g \in kind : Home(i, kind) = g <=> i \in mem[g]
            /\ Home(i, kind) = NoGroup <=> In(i, kind) = {}

LEMMA Homes == OneHome => IsHome
<1> SUFFICES ASSUME OneHome, NEW i \in If, NEW kind \in {Zone, Router}
             PROVE  /\ Home(i, kind) \in kind \cup {NoGroup}
                    /\ \A g \in kind : Home(i, kind) = g <=> i \in mem[g]
                    /\ Home(i, kind) = NoGroup <=> In(i, kind) = {}
  BY DEF IsHome
<1>1. NoGroup \notin kind
  BY InterfaceAssumption DEF Group
<1>2. CASE In(i, kind) = {}
  BY <1>1, <1>2 DEF Home, In
<1>3. CASE In(i, kind) # {}
  <2>1. PICK g \in kind : i \in mem[g]
    BY <1>3 DEF In
  <2>2. \A h \in kind : i \in mem[h] => h = g
    BY <2>1 DEF OneHome, In
  <2>3. Home(i, kind) = CHOOSE h \in kind : i \in mem[h]
    BY <1>3 DEF Home
  <2>4. Home(i, kind) = g
    BY <2>1, <2>2, <2>3
  <2>5. QED
    BY <1>1, <1>3, <2>1, <2>2, <2>4
<1>4. QED
  BY <1>2, <1>3

LEMMA InitPlacement == Init => P!Init
<1> SUFFICES ASSUME Init PROVE P!Init
  OBVIOUS
<1>1. Config
  BY InitInv DEF Inv
<1>2. IsHome
  BY <1>1, Homes DEF Config
<1>3. \A i \in If : i \notin There => Home(i, Zone) = NoGroup /\ Home(i, Router) = NoGroup
  BY <1>1, <1>2 DEF Config, MembersExist, IsHome, In, Group
<1>4. QED
  BY <1>2, <1>3 DEF P!Init, P!TypeOK, IsHome, There

(* Each step creates, deletes or moves one interface, or none.             *)
LEMMA PlacementStep ==
  ASSUME Inv, Config', IsHome, IsHome', NEW t \in Task, Step(t)
  PROVE  [P!Next]_(P!vars)
<1> DEFINE i == IfOf[t]
           Zones == [j \in If |-> Home(j, Zone)]
           Routers == [j \in If |-> Home(j, Router)]
<1> i \in If
  BY TaskConstants
<1>0. /\ mem \in [Group -> SUBSET If] /\ There \subseteq If /\ MembersExist
      /\ Zone \subseteq Group /\ Router \subseteq Group
      /\ Zone \cap Router = {} /\ NoGroup \notin Group
  BY InterfaceAssumption DEF Inv, TypeOK, Config, There, Group
<1>1. ASSUME NEW j \in If, NEW kind \in {Zone, Router},
             \A g \in kind : j \in mem'[g] <=> j \in mem[g]
      PROVE  Home(j, kind)' = Home(j, kind)
  BY <1>0, <1>1 DEF IsHome, In
<1>2. CASE mem' = mem
  <2>1. Zones' = Zones /\ Routers' = Routers
    BY <1>1, <1>2
  <2>2. CASE There' = There
    BY <2>1, <2>2 DEF P!vars
  <2>3. CASE There' = There \cup {i} /\ i \notin There
    BY <2>1, <2>3 DEF P!Next, P!Create
  <2>4. CASE There' = There \ {i} /\ Wanted(t) = {} /\ Left(t, Group) /\ i \in There
    <3>1. Zones[i] = NoGroup /\ Routers[i] = NoGroup
      BY <1>0, <2>4 DEF IsHome, In, Left
    <3>2. QED
      BY <2>1, <2>4, <3>1 DEF P!Next, P!Delete
  <2>5. QED
    BY <1>2, <2>2, <2>3, <2>4, Writes DEF Inv, Config
<1>3. CASE Removes(t) /\ There' = There
  <2>1. PICK g \in Group : mem' = [mem EXCEPT ![g] = mem[g] \ {i}]
    BY <1>3 DEF Removes
  <2>2. \A j \in If, h \in Group : j # i \/ h # g => (j \in mem'[h] <=> j \in mem[h])
    BY <1>0, <2>1
  <2>3. \A j \in If, kind \in {Zone, Router} : j # i \/ g \notin kind => Home(j, kind)' = Home(j, kind)
    BY <1>0, <1>1, <2>2
  <2>4. CASE i \notin mem[g]
    <3>1. mem' = mem
      BY <1>0, <2>1, <2>4
    <3>2. QED
      BY <1>2, <3>1
  <2>5. CASE i \in mem[g] /\ g \in Zone
    <3>1. Home(i, Zone) = g
      BY <2>5 DEF IsHome
    <3>2. In(i, Zone)' = {}
      BY <1>0, <2>1, <2>5, <3>1 DEF IsHome, In
    <3>3. Home(i, Zone)' = NoGroup
      BY <3>2 DEF IsHome
    <3>4. Routers' = Routers
      BY <1>0, <2>3, <2>5
    <3>5. Zones' = [Zones EXCEPT ![i] = NoGroup] /\ Zones[i] # NoGroup
      BY <1>0, <2>3, <2>5, <3>1, <3>3
    <3>6. QED
      BY <1>3, <3>4, <3>5 DEF P!Next, P!LeaveZone
  <2>6. CASE i \in mem[g] /\ g \in Router
    <3>1. Home(i, Router) = g
      BY <2>6 DEF IsHome
    <3>2. In(i, Router)' = {}
      BY <1>0, <2>1, <2>6, <3>1 DEF IsHome, In
    <3>3. Home(i, Router)' = NoGroup
      BY <3>2 DEF IsHome
    <3>4. Zones' = Zones
      BY <1>0, <2>3, <2>6
    <3>5. Routers' = [Routers EXCEPT ![i] = NoGroup] /\ Routers[i] # NoGroup
      BY <1>0, <2>3, <2>6, <3>1, <3>3
    <3>6. QED
      BY <1>3, <3>4, <3>5 DEF P!Next, P!LeaveRouter
  <2>7. QED
    BY <2>4, <2>5, <2>6 DEF Group
<1>4. CASE Adds(t) /\ There' = There
  <2>1. PICK kind \in {Zone, Router}, g \in Group :
          /\ g \in kind /\ In(i, kind) = {} /\ i \in There
          /\ mem' = [mem EXCEPT ![g] = mem[g] \cup {i}]
    BY <1>4 DEF Adds
  <2>2. \A j \in If, h \in Group : j # i \/ h # g => (j \in mem'[h] <=> j \in mem[h])
    BY <1>0, <2>1
  <2>3. \A j \in If, k \in {Zone, Router} : j # i \/ g \notin k => Home(j, k)' = Home(j, k)
    BY <1>0, <1>1, <2>2
  <2>4. Home(i, kind) = NoGroup /\ Home(i, kind)' = g
    BY <1>0, <2>1 DEF IsHome
  <2>5. CASE kind = Zone
    <3>1. Routers' = Routers
      BY <1>0, <2>1, <2>3, <2>5
    <3>2. Zones' = [Zones EXCEPT ![i] = g] /\ Zones[i] = NoGroup
      BY <1>0, <2>1, <2>3, <2>4, <2>5
    <3>3. QED
      BY <1>4, <2>1, <2>5, <3>1, <3>2 DEF P!Next, P!JoinZone
  <2>6. CASE kind = Router
    <3>1. Zones' = Zones
      BY <1>0, <2>1, <2>3, <2>6
    <3>2. Routers' = [Routers EXCEPT ![i] = g] /\ Routers[i] = NoGroup
      BY <1>0, <2>1, <2>3, <2>4, <2>6
    <3>3. QED
      BY <1>4, <2>1, <2>6, <3>1, <3>2 DEF P!Next, P!JoinRouter
  <2>7. QED
    BY <2>1, <2>5, <2>6
<1>5. QED
  BY <1>2, <1>3, <1>4, Writes DEF Inv, Config

(* Tasks that do not overlap implement Placement.                          *)
THEOREM Implements == ~ Overlap => (Spec => PlacementSpec)
<1> SUFFICES ASSUME ~ Overlap PROVE Spec => PlacementSpec
  OBVIOUS
<1>1. Inv /\ [Next]_vars => Inv'
  BY InvStep
<1>2. Inv => IsHome
  BY Homes DEF Inv, Config
<1>3. Inv /\ Inv' /\ IsHome /\ IsHome' /\ [Next]_vars => [P!Next]_(P!vars)
  <2> SUFFICES ASSUME Inv, Inv', IsHome, IsHome', [Next]_vars PROVE [P!Next]_(P!vars)
    OBVIOUS
  <2>1. ASSUME NEW t \in Task, Step(t) PROVE [P!Next]_(P!vars)
    BY <2>1, PlacementStep DEF Inv
  <2>2. ASSUME NEW t \in Task, Start(t) PROVE [P!Next]_(P!vars)
    BY <2>2 DEF Start, P!vars, There, Home, In
  <2>3. CASE UNCHANGED vars
    BY <2>3 DEF vars, P!vars, There, Home, In
  <2>4. QED
    BY <2>1, <2>2, <2>3 DEF Next
<1>4. QED
  BY <1>1, <1>2, <1>3, InitInv, InitPlacement, PTL DEF Spec, PlacementSpec, P!Spec
=============================================================================
