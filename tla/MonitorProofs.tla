--------------------------- MODULE MonitorProofs ---------------------------
(***************************************************************************)
(* Proofs about Monitor, for every set of devices, host names and runs.    *)
(***************************************************************************)
EXTENDS Monitor, TLAPS

USE DEF env, pano, lists, loop, locals, At, Goto, End, TakeDevice

(* The host names the scale set lists are host names.                      *)
LEMMA HostsType == Hosts \subseteq Host
BY MonitorAssumption DEF Hosts

(* The count of kills stays within its bound.                              *)
LEMMA CrashBound == /\ 0 \in 0..MaxCrash
                    /\ \A c \in 0..MaxCrash : c < MaxCrash => c + 1 \in 0..MaxCrash
BY MonitorAssumption

-----------------------------------------------------------------------------
(* TypeOK is not inductive: InsertEntity writes the device at hand, so     *)
(* there must be one whenever a step that uses it is next.                 *)
Holding == \A r \in Run :
  pc[r] \in {"insert", "rmDg", "rmTs", "rmMd", "dbDelete"} => cur[r] \in Device

TypeInv == TypeOK /\ Holding

(* A step of the system keeps TypeInv.                                     *)
LEMMA TypeStep == TypeInv /\ [Next]_vars => TypeInv'
<1> SUFFICES ASSUME TypeInv, [Next]_vars
             PROVE  TypeInv'
  OBVIOUS
<1> USE DEF TypeInv, TypeOK, Holding, Label
<1>1. ASSUME NEW d \in Device, CreateVm(d)
      PROVE  TypeInv'
  BY <1>1 DEF CreateVm
<1>2. ASSUME NEW d \in Device, JoinPanorama(d)
      PROVE  TypeInv'
  BY <1>2 DEF JoinPanorama
<1>3. ASSUME NEW d \in Device, DeleteVm(d)
      PROVE  TypeInv'
  BY <1>3 DEF DeleteVm
<1>4. CASE DeleteScaleSet
  BY <1>4 DEF DeleteScaleSet
<1>5. ASSUME NEW r \in Run, Start(r)
      PROVE  TypeInv'
  BY <1>5 DEF Start
<1>6. ASSUME NEW r \in Run, FindVmss(r)
      PROVE  TypeInv'
  BY <1>6 DEF FindVmss
<1>7. ASSUME NEW r \in Run, ListGroup(r)
      PROVE  TypeInv'
  BY <1>7 DEF ListGroup
<1>8. ASSUME NEW r \in Run, ShowDevices(r)
      PROVE  TypeInv'
  BY <1>8 DEF ShowDevices
<1>9. ASSUME NEW r \in Run, ListFails(r)
      PROVE  TypeInv'
  BY <1>9 DEF ListFails
<1>10. ASSUME NEW r \in Run, ListVmss(r)
      PROVE  TypeInv'
  BY <1>10, HostsType DEF ListVmss, Plan
<1>11. ASSUME NEW r \in Run, InsertEntity(r)
      PROVE  TypeInv'
  BY <1>11 DEF InsertEntity
<1>12. ASSUME NEW r \in Run, InsertFails(r)
      PROVE  TypeInv'
  BY <1>12 DEF InsertFails
<1>13. ASSUME NEW r \in Run, ListDb(r)
      PROVE  TypeInv'
  BY <1>13 DEF ListDb, VmsToDelic
<1>14. ASSUME NEW r \in Run, RemoveFromDg(r)
      PROVE  TypeInv'
  BY <1>14 DEF RemoveFromDg
<1>15. ASSUME NEW r \in Run, RemoveFromTs(r)
      PROVE  TypeInv'
  BY <1>15 DEF RemoveFromTs
<1>16. ASSUME NEW r \in Run, RemoveFromMd(r)
      PROVE  TypeInv'
  BY <1>16 DEF RemoveFromMd
<1>17. ASSUME NEW r \in Run, DeleteEntity(r)
      PROVE  TypeInv'
  BY <1>17 DEF DeleteEntity
<1>18. ASSUME NEW r \in Run, Finish(r)
      PROVE  TypeInv'
  BY <1>18 DEF Finish
<1>19. ASSUME NEW r \in Run, Crash(r)
      PROVE  TypeInv'
  <2>1. crashes' \in 0..MaxCrash
    BY <1>19, CrashBound, Zenon DEF Crash
  <2>2. QED
    BY <1>19, <2>1 DEF Crash
<1>20. ASSUME NEW r \in Run, NEW h \in Host, SkipVm(r, h)
      PROVE  TypeInv'
  BY <1>20 DEF SkipVm
<1>21. ASSUME NEW r \in Run, NEW d \in Device, FoundNewVm(r, d)
      PROVE  TypeInv'
  BY <1>21 DEF FoundNewVm
<1>22. ASSUME NEW r \in Run, NEW d \in Device, SkipDeactivate(r, d)
      PROVE  TypeInv'
  BY <1>22 DEF SkipDeactivate
<1>23. ASSUME NEW r \in Run, NEW d \in Device, Deactivate(r, d)
      PROVE  TypeInv'
  BY <1>23 DEF Deactivate
<1>24. ASSUME NEW r \in Run, NEW d \in Device, DeactivateFails(r, d)
      PROVE  TypeInv'
  BY <1>24 DEF DeactivateFails
<1>25. CASE UNCHANGED vars
  BY <1>25 DEF vars
<1>26. QED
  BY <1>1, <1>2, <1>3, <1>4, <1>5, <1>6, <1>7, <1>8, <1>9, <1>10, <1>11,
     <1>12, <1>13, <1>14, <1>15, <1>16, <1>17, <1>18, <1>19, <1>20, <1>21,
     <1>22, <1>23, <1>24, <1>25 DEF Next, World, RunStep

(* It holds at the start.                                                  *)
LEMMA InitType == Init => TypeInv
<1> SUFFICES ASSUME Init PROVE TypeInv
  OBVIOUS
<1>1. vmss \in {"up", "deleted"} /\ vm \in [Device -> {"new", "booting", "serving", "gone"}]
  BY Zenon DEF Init
<1>2. crashes \in 0..MaxCrash
  BY CrashBound, Zenon DEF Init
<1>3. QED
  BY <1>1, <1>2 DEF Init, TypeInv, TypeOK, Holding, Label

(* The type invariant, whatever runs overlap, fail or are killed.          *)
THEOREM TypeCorrect == Spec => []TypeOK
<1>1. TypeInv => TypeOK
  BY DEF TypeInv
<1>2. QED
  BY <1>1, InitType, TypeStep, PTL DEF Spec

-----------------------------------------------------------------------------
(* Runs that do not overlap.  The VM list of a run stays good for the rows *)
(* of the table, because only that run adds rows: a row whose host name is *)
(* not in the list belongs to a VM that is gone.                           *)
Listed   == {"scan", "insert", "delic", "rmDg", "rmTs", "rmMd", "dbDelete"}
Cleaning == {"rmDg", "rmTs", "rmMd", "dbDelete"}

(* At most one run is going on.                                            *)
Alone == \A q, r \in Run : pc[q] # "idle" /\ pc[r] # "idle" => q = r

(* Panorama, the table and a run's lists hold devices that have joined.    *)
Joined(d)   == vm[d] \in {"serving", "gone"}
StoresJoined == \A d \in dg \cup db : Joined(d)
ListJoined   == \A r \in Run : \A d \in pan[r] : Joined(d)
FoundJoined  == \A r \in Run : pc[r] = "insert" =>
                  Joined(cur[r]) /\ HostOf[cur[r]] \in hosts[r]
TodoListed   == \A r \in Run : todo[r] \subseteq hosts[r]

(* A row whose host name the run's VM list lacks belongs to a VM that is   *)
(* gone, and so does the device being cleaned up.                          *)
UnlistedGone ==
  \A r \in Run : pc[r] \in Listed =>
    \A d \in db : HostOf[d] \notin hosts[r] => vm[d] = "gone"
CurrentGone == \A r \in Run : pc[r] \in Cleaning => vm[cur[r]] = "gone"

SafeInv == /\ TypeInv /\ Alone
           /\ StoresJoined /\ ListJoined /\ FoundJoined /\ TodoListed
           /\ UnlistedGone /\ CurrentGone /\ DelicensedAreGone /\ ServingUntouched

(* Only Start makes a run active, and only when there is no other.         *)
LEMMA AloneStep == ASSUME ~ Overlap, TypeInv, Alone, [Next]_vars
      PROVE  Alone'
<1>0. pc \in [Run -> Label]
  BY DEF TypeInv, TypeOK, Holding
<1> USE <1>0
<1> USE DEF Label, Alone
<1>1. ASSUME NEW d \in Device, CreateVm(d)
      PROVE  Alone'
  BY <1>1 DEF CreateVm
<1>2. ASSUME NEW d \in Device, JoinPanorama(d)
      PROVE  Alone'
  BY <1>2 DEF JoinPanorama
<1>3. ASSUME NEW d \in Device, DeleteVm(d)
      PROVE  Alone'
  BY <1>3 DEF DeleteVm
<1>4. CASE DeleteScaleSet
  BY <1>4 DEF DeleteScaleSet
<1>5. ASSUME NEW r \in Run, Start(r) \/ FindVmss(r)
      PROVE  Alone'
  BY <1>5 DEF Start, FindVmss
<1>6. ASSUME NEW r \in Run, ListGroup(r) \/ ShowDevices(r)
      PROVE  Alone'
  BY <1>6 DEF ListGroup, ShowDevices
<1>7. ASSUME NEW r \in Run, ListFails(r) \/ Finish(r) \/ Crash(r)
      PROVE  Alone'
  BY <1>7 DEF ListFails, Finish, Crash
<1>8. ASSUME NEW r \in Run, ListVmss(r)
      PROVE  Alone'
  BY <1>8 DEF ListVmss, Plan
<1>9. ASSUME NEW r \in Run, InsertFails(r) \/ ListDb(r)
      PROVE  Alone'
  BY <1>9 DEF InsertFails, ListDb, VmsToDelic
<1>10. ASSUME NEW r \in Run, InsertEntity(r)
      PROVE  Alone'
  BY <1>10 DEF InsertEntity
<1>11. ASSUME NEW r \in Run, RemoveFromDg(r) \/ RemoveFromTs(r) \/
               RemoveFromMd(r)
      PROVE  Alone'
  BY <1>11 DEF RemoveFromDg, RemoveFromTs, RemoveFromMd
<1>12. ASSUME NEW r \in Run, DeleteEntity(r)
      PROVE  Alone'
  BY <1>12 DEF DeleteEntity
<1>13. ASSUME NEW r \in Run, NEW h \in Host, SkipVm(r, h)
      PROVE  Alone'
  BY <1>13 DEF SkipVm
<1>14. ASSUME NEW r \in Run, NEW d \in Device, FoundNewVm(r, d)
      PROVE  Alone'
  BY <1>14 DEF FoundNewVm
<1>15. ASSUME NEW r \in Run, NEW d \in Device, SkipDeactivate(r, d)
      PROVE  Alone'
  BY <1>15 DEF SkipDeactivate
<1>16. ASSUME NEW r \in Run, NEW d \in Device, Deactivate(r, d)
      PROVE  Alone'
  BY <1>16 DEF Deactivate
<1>17. ASSUME NEW r \in Run, NEW d \in Device, DeactivateFails(r, d)
      PROVE  Alone'
  BY <1>17 DEF DeactivateFails
<1>18. CASE UNCHANGED vars
  BY <1>18 DEF vars
<1>19. QED
  BY <1>1, <1>2, <1>3, <1>4, <1>5, <1>6, <1>7, <1>8, <1>9, <1>10, <1>11,
     <1>12, <1>13, <1>14, <1>15, <1>16, <1>17, <1>18 DEF Next, World, RunStep

(* A VM that has joined never goes back.                                   *)
LEMMA StoresJoinedStep == ASSUME TypeInv, StoresJoined, FoundJoined,
   [Next]_vars
      PROVE  StoresJoined'
<1>0. vm \in [Device -> {"new", "booting", "serving", "gone"}] /\ dg
   \subseteq Device /\ db \subseteq Device
  BY DEF TypeInv, TypeOK, Holding
<1> USE <1>0
<1> USE DEF StoresJoined, FoundJoined, Joined, InVmss
<1>1. ASSUME NEW d \in Device, CreateVm(d)
      PROVE  StoresJoined'
  BY <1>1 DEF CreateVm
<1>2. ASSUME NEW d \in Device, JoinPanorama(d)
      PROVE  StoresJoined'
  BY <1>2 DEF JoinPanorama
<1>3. ASSUME NEW d \in Device, DeleteVm(d)
      PROVE  StoresJoined'
  BY <1>3 DEF DeleteVm
<1>4. CASE DeleteScaleSet
  BY <1>4 DEF DeleteScaleSet
<1>5. ASSUME NEW r \in Run, Start(r) \/ FindVmss(r)
      PROVE  StoresJoined'
  BY <1>5 DEF Start, FindVmss
<1>6. ASSUME NEW r \in Run, ListGroup(r) \/ ShowDevices(r)
      PROVE  StoresJoined'
  BY <1>6 DEF ListGroup, ShowDevices
<1>7. ASSUME NEW r \in Run, ListFails(r) \/ Finish(r) \/ Crash(r)
      PROVE  StoresJoined'
  BY <1>7 DEF ListFails, Finish, Crash
<1>8. ASSUME NEW r \in Run, ListVmss(r)
      PROVE  StoresJoined'
  BY <1>8 DEF ListVmss, Plan
<1>9. ASSUME NEW r \in Run, InsertFails(r) \/ ListDb(r)
      PROVE  StoresJoined'
  BY <1>9 DEF InsertFails, ListDb, VmsToDelic
<1>10. ASSUME NEW r \in Run, InsertEntity(r)
      PROVE  StoresJoined'
  BY <1>10 DEF InsertEntity
<1>11. ASSUME NEW r \in Run, RemoveFromDg(r) \/ RemoveFromTs(r) \/
               RemoveFromMd(r)
      PROVE  StoresJoined'
  BY <1>11 DEF RemoveFromDg, RemoveFromTs, RemoveFromMd
<1>12. ASSUME NEW r \in Run, DeleteEntity(r)
      PROVE  StoresJoined'
  BY <1>12 DEF DeleteEntity
<1>13. ASSUME NEW r \in Run, NEW h \in Host, SkipVm(r, h)
      PROVE  StoresJoined'
  BY <1>13 DEF SkipVm
<1>14. ASSUME NEW r \in Run, NEW d \in Device, FoundNewVm(r, d)
      PROVE  StoresJoined'
  BY <1>14 DEF FoundNewVm
<1>15. ASSUME NEW r \in Run, NEW d \in Device, SkipDeactivate(r, d)
      PROVE  StoresJoined'
  BY <1>15 DEF SkipDeactivate
<1>16. ASSUME NEW r \in Run, NEW d \in Device, Deactivate(r, d)
      PROVE  StoresJoined'
  BY <1>16 DEF Deactivate
<1>17. ASSUME NEW r \in Run, NEW d \in Device, DeactivateFails(r, d)
      PROVE  StoresJoined'
  BY <1>17 DEF DeactivateFails
<1>18. CASE UNCHANGED vars
  BY <1>18 DEF vars
<1>19. QED
  BY <1>1, <1>2, <1>3, <1>4, <1>5, <1>6, <1>7, <1>8, <1>9, <1>10, <1>11,
     <1>12, <1>13, <1>14, <1>15, <1>16, <1>17, <1>18 DEF Next, World, RunStep

(* The Panorama list of a run keeps naming devices that have joined.       *)
LEMMA ListJoinedStep == ASSUME TypeInv, StoresJoined, ListJoined, [Next]_vars
      PROVE  ListJoined'
<1>0. vm \in [Device -> {"new", "booting", "serving", "gone"}] /\ dg
   \subseteq Device /\ db \subseteq Device /\ pan \in [Run -> SUBSET Device]
  BY DEF TypeInv, TypeOK, Holding
<1> USE <1>0
<1> USE DEF StoresJoined, ListJoined, Joined, InVmss
<1>1. ASSUME NEW d \in Device, CreateVm(d)
      PROVE  ListJoined'
  BY <1>1 DEF CreateVm
<1>2. ASSUME NEW d \in Device, JoinPanorama(d)
      PROVE  ListJoined'
  BY <1>2 DEF JoinPanorama
<1>3. ASSUME NEW d \in Device, DeleteVm(d)
      PROVE  ListJoined'
  BY <1>3 DEF DeleteVm
<1>4. CASE DeleteScaleSet
  BY <1>4 DEF DeleteScaleSet
<1>5. ASSUME NEW r \in Run, Start(r) \/ FindVmss(r)
      PROVE  ListJoined'
  BY <1>5 DEF Start, FindVmss
<1>6. ASSUME NEW r \in Run, ListGroup(r) \/ ShowDevices(r)
      PROVE  ListJoined'
  BY <1>6 DEF ListGroup, ShowDevices
<1>7. ASSUME NEW r \in Run, ListFails(r) \/ Finish(r) \/ Crash(r)
      PROVE  ListJoined'
  BY <1>7 DEF ListFails, Finish, Crash
<1>8. ASSUME NEW r \in Run, ListVmss(r)
      PROVE  ListJoined'
  BY <1>8 DEF ListVmss, Plan
<1>9. ASSUME NEW r \in Run, InsertFails(r) \/ ListDb(r)
      PROVE  ListJoined'
  BY <1>9 DEF InsertFails, ListDb, VmsToDelic
<1>10. ASSUME NEW r \in Run, InsertEntity(r)
      PROVE  ListJoined'
  BY <1>10 DEF InsertEntity
<1>11. ASSUME NEW r \in Run, RemoveFromDg(r) \/ RemoveFromTs(r) \/
               RemoveFromMd(r)
      PROVE  ListJoined'
  BY <1>11 DEF RemoveFromDg, RemoveFromTs, RemoveFromMd
<1>12. ASSUME NEW r \in Run, DeleteEntity(r)
      PROVE  ListJoined'
  BY <1>12 DEF DeleteEntity
<1>13. ASSUME NEW r \in Run, NEW h \in Host, SkipVm(r, h)
      PROVE  ListJoined'
  BY <1>13 DEF SkipVm
<1>14. ASSUME NEW r \in Run, NEW d \in Device, FoundNewVm(r, d)
      PROVE  ListJoined'
  BY <1>14 DEF FoundNewVm
<1>15. ASSUME NEW r \in Run, NEW d \in Device, SkipDeactivate(r, d)
      PROVE  ListJoined'
  BY <1>15 DEF SkipDeactivate
<1>16. ASSUME NEW r \in Run, NEW d \in Device, Deactivate(r, d)
      PROVE  ListJoined'
  BY <1>16 DEF Deactivate
<1>17. ASSUME NEW r \in Run, NEW d \in Device, DeactivateFails(r, d)
      PROVE  ListJoined'
  BY <1>17 DEF DeactivateFails
<1>18. CASE UNCHANGED vars
  BY <1>18 DEF vars
<1>19. QED
  BY <1>1, <1>2, <1>3, <1>4, <1>5, <1>6, <1>7, <1>8, <1>9, <1>10, <1>11,
     <1>12, <1>13, <1>14, <1>15, <1>16, <1>17, <1>18 DEF Next, World, RunStep

(* The VMs still to scan are VMs of the list.                              *)
LEMMA TodoListedStep == ASSUME TypeInv, TodoListed, [Next]_vars
      PROVE  TodoListed'
<1>0. todo \in [Run -> SUBSET Host] /\ hosts \in [Run -> SUBSET Host]
  BY DEF TypeInv, TypeOK, Holding
<1> USE <1>0
<1> USE DEF TodoListed
<1>1. ASSUME NEW d \in Device, CreateVm(d)
      PROVE  TodoListed'
  BY <1>1 DEF CreateVm
<1>2. ASSUME NEW d \in Device, JoinPanorama(d)
      PROVE  TodoListed'
  BY <1>2 DEF JoinPanorama
<1>3. ASSUME NEW d \in Device, DeleteVm(d)
      PROVE  TodoListed'
  BY <1>3 DEF DeleteVm
<1>4. CASE DeleteScaleSet
  BY <1>4 DEF DeleteScaleSet
<1>5. ASSUME NEW r \in Run, Start(r) \/ FindVmss(r)
      PROVE  TodoListed'
  BY <1>5 DEF Start, FindVmss
<1>6. ASSUME NEW r \in Run, ListGroup(r) \/ ShowDevices(r)
      PROVE  TodoListed'
  BY <1>6 DEF ListGroup, ShowDevices
<1>7. ASSUME NEW r \in Run, ListFails(r) \/ Finish(r) \/ Crash(r)
      PROVE  TodoListed'
  BY <1>7 DEF ListFails, Finish, Crash
<1>8. ASSUME NEW r \in Run, ListVmss(r)
      PROVE  TodoListed'
  BY <1>8 DEF ListVmss, Plan
<1>9. ASSUME NEW r \in Run, InsertFails(r) \/ ListDb(r)
      PROVE  TodoListed'
  BY <1>9 DEF InsertFails, ListDb, VmsToDelic
<1>10. ASSUME NEW r \in Run, InsertEntity(r)
      PROVE  TodoListed'
  BY <1>10 DEF InsertEntity
<1>11. ASSUME NEW r \in Run, RemoveFromDg(r) \/ RemoveFromTs(r) \/
               RemoveFromMd(r)
      PROVE  TodoListed'
  BY <1>11 DEF RemoveFromDg, RemoveFromTs, RemoveFromMd
<1>12. ASSUME NEW r \in Run, DeleteEntity(r)
      PROVE  TodoListed'
  BY <1>12 DEF DeleteEntity
<1>13. ASSUME NEW r \in Run, NEW h \in Host, SkipVm(r, h)
      PROVE  TodoListed'
  BY <1>13 DEF SkipVm
<1>14. ASSUME NEW r \in Run, NEW d \in Device, FoundNewVm(r, d)
      PROVE  TodoListed'
  BY <1>14 DEF FoundNewVm
<1>15. ASSUME NEW r \in Run, NEW d \in Device, SkipDeactivate(r, d)
      PROVE  TodoListed'
  BY <1>15 DEF SkipDeactivate
<1>16. ASSUME NEW r \in Run, NEW d \in Device, Deactivate(r, d)
      PROVE  TodoListed'
  BY <1>16 DEF Deactivate
<1>17. ASSUME NEW r \in Run, NEW d \in Device, DeactivateFails(r, d)
      PROVE  TodoListed'
  BY <1>17 DEF DeactivateFails
<1>18. CASE UNCHANGED vars
  BY <1>18 DEF vars
<1>19. QED
  BY <1>1, <1>2, <1>3, <1>4, <1>5, <1>6, <1>7, <1>8, <1>9, <1>10, <1>11,
     <1>12, <1>13, <1>14, <1>15, <1>16, <1>17, <1>18 DEF Next, World, RunStep

(* A device about to be recorded has joined and is in the VM list.         *)
LEMMA FoundJoinedStep == ASSUME TypeInv, ListJoined, TodoListed, FoundJoined,
   [Next]_vars
      PROVE  FoundJoined'
<1>0. pc \in [Run -> Label] /\ vm \in [Device -> {"new", "booting",
   "serving", "gone"}] /\ cur \in [Run -> Device \cup {NoDevice}] /\ hosts
   \in [Run -> SUBSET Host] /\ \A r \in Run : pc[r] \in {"insert", "rmDg",
   "rmTs", "rmMd", "dbDelete"} => cur[r] \in Device
  BY DEF TypeInv, TypeOK, Holding
<1> USE <1>0
<1> USE DEF ListJoined, TodoListed, FoundJoined, Joined, InVmss
<1>1. ASSUME NEW d \in Device, CreateVm(d)
      PROVE  FoundJoined'
  BY <1>1 DEF CreateVm
<1>2. ASSUME NEW d \in Device, JoinPanorama(d)
      PROVE  FoundJoined'
  BY <1>2 DEF JoinPanorama
<1>3. ASSUME NEW d \in Device, DeleteVm(d)
      PROVE  FoundJoined'
  BY <1>3 DEF DeleteVm
<1>4. CASE DeleteScaleSet
  BY <1>4 DEF DeleteScaleSet
<1>5. ASSUME NEW r \in Run, Start(r) \/ FindVmss(r)
      PROVE  FoundJoined'
  BY <1>5 DEF Start, FindVmss
<1>6. ASSUME NEW r \in Run, ListGroup(r) \/ ShowDevices(r)
      PROVE  FoundJoined'
  BY <1>6 DEF ListGroup, ShowDevices
<1>7. ASSUME NEW r \in Run, ListFails(r) \/ Finish(r) \/ Crash(r)
      PROVE  FoundJoined'
  BY <1>7 DEF ListFails, Finish, Crash
<1>8. ASSUME NEW r \in Run, ListVmss(r)
      PROVE  FoundJoined'
  BY <1>8 DEF ListVmss, Plan
<1>9. ASSUME NEW r \in Run, InsertFails(r) \/ ListDb(r)
      PROVE  FoundJoined'
  BY <1>9 DEF InsertFails, ListDb, VmsToDelic
<1>10. ASSUME NEW r \in Run, InsertEntity(r)
      PROVE  FoundJoined'
  BY <1>10 DEF InsertEntity
<1>11. ASSUME NEW r \in Run, RemoveFromDg(r) \/ RemoveFromTs(r) \/
               RemoveFromMd(r)
      PROVE  FoundJoined'
  BY <1>11 DEF RemoveFromDg, RemoveFromTs, RemoveFromMd
<1>12. ASSUME NEW r \in Run, DeleteEntity(r)
      PROVE  FoundJoined'
  BY <1>12 DEF DeleteEntity
<1>13. ASSUME NEW r \in Run, NEW h \in Host, SkipVm(r, h)
      PROVE  FoundJoined'
  BY <1>13 DEF SkipVm
<1>14. ASSUME NEW r \in Run, NEW d \in Device, FoundNewVm(r, d)
      PROVE  FoundJoined'
  BY <1>14 DEF FoundNewVm
<1>15. ASSUME NEW r \in Run, NEW d \in Device, SkipDeactivate(r, d)
      PROVE  FoundJoined'
  BY <1>15 DEF SkipDeactivate
<1>16. ASSUME NEW r \in Run, NEW d \in Device, Deactivate(r, d)
      PROVE  FoundJoined'
  BY <1>16 DEF Deactivate
<1>17. ASSUME NEW r \in Run, NEW d \in Device, DeactivateFails(r, d)
      PROVE  FoundJoined'
  BY <1>17 DEF DeactivateFails
<1>18. CASE UNCHANGED vars
  BY <1>18 DEF vars
<1>19. QED
  BY <1>1, <1>2, <1>3, <1>4, <1>5, <1>6, <1>7, <1>8, <1>9, <1>10, <1>11,
     <1>12, <1>13, <1>14, <1>15, <1>16, <1>17, <1>18 DEF Next, World, RunStep

(* No other run adds a row behind the back of a VM list.                   *)
LEMMA UnlistedGoneStep == ASSUME TypeInv, Alone, StoresJoined, FoundJoined,
   UnlistedGone, [Next]_vars
      PROVE  UnlistedGone'
<1>0. pc \in [Run -> Label] /\ vm \in [Device -> {"new", "booting",
   "serving", "gone"}] /\ hosts \in [Run -> SUBSET Host] /\ dg \subseteq
   Device /\ db \subseteq Device
  BY DEF TypeInv, TypeOK, Holding
<1> USE <1>0
<1> USE DEF Alone, StoresJoined, FoundJoined, Joined, UnlistedGone, Listed,
   InVmss, Hosts
<1>1. ASSUME NEW d \in Device, CreateVm(d)
      PROVE  UnlistedGone'
  BY <1>1 DEF CreateVm
<1>2. ASSUME NEW d \in Device, JoinPanorama(d)
      PROVE  UnlistedGone'
  BY <1>2 DEF JoinPanorama
<1>3. ASSUME NEW d \in Device, DeleteVm(d)
      PROVE  UnlistedGone'
  BY <1>3 DEF DeleteVm
<1>4. CASE DeleteScaleSet
  BY <1>4 DEF DeleteScaleSet
<1>5. ASSUME NEW r \in Run, Start(r)
      PROVE  UnlistedGone'
  BY <1>5 DEF Start
<1>6. ASSUME NEW r \in Run, FindVmss(r)
      PROVE  UnlistedGone'
  <2>1. UNCHANGED <<vm, db>>
    BY <1>6 DEF FindVmss
  <2>2. CASE End(r)
    BY <2>1, <2>2
  <2>3. CASE Goto(r, "group") /\ UNCHANGED hosts
    BY <2>1, <2>3
  <2>4. QED
    BY <1>6, <2>2, <2>3 DEF FindVmss
<1>7. ASSUME NEW r \in Run, ListGroup(r)
      PROVE  UnlistedGone'
  BY <1>7 DEF ListGroup
<1>8. ASSUME NEW r \in Run, ShowDevices(r)
      PROVE  UnlistedGone'
  BY <1>8 DEF ShowDevices
<1>9. ASSUME NEW r \in Run, ListFails(r)
      PROVE  UnlistedGone'
  BY <1>9 DEF ListFails
<1>10. ASSUME NEW r \in Run, ListVmss(r)
      PROVE  UnlistedGone'
  BY <1>10 DEF ListVmss, Plan
<1>11. ASSUME NEW r \in Run, InsertFails(r)
      PROVE  UnlistedGone'
  BY <1>11 DEF InsertFails
<1>12. ASSUME NEW r \in Run, InsertEntity(r)
      PROVE  UnlistedGone'
  BY <1>12 DEF InsertEntity
<1>13. ASSUME NEW r \in Run, ListDb(r)
      PROVE  UnlistedGone'
  BY <1>13 DEF ListDb, VmsToDelic
<1>14. ASSUME NEW r \in Run, Finish(r)
      PROVE  UnlistedGone'
  BY <1>14 DEF Finish
<1>15. ASSUME NEW r \in Run, Crash(r)
      PROVE  UnlistedGone'
  BY <1>15 DEF Crash
<1>16. ASSUME NEW r \in Run, RemoveFromDg(r) \/ RemoveFromTs(r) \/
               RemoveFromMd(r)
      PROVE  UnlistedGone'
  BY <1>16 DEF RemoveFromDg, RemoveFromTs, RemoveFromMd
<1>17. ASSUME NEW r \in Run, DeleteEntity(r)
      PROVE  UnlistedGone'
  <2>1. db' \subseteq db /\ vm' = vm
    BY <1>17 DEF DeleteEntity
  <2>2. CASE End(r)
    BY <2>1, <2>2
  <2>3. CASE Goto(r, "delic") /\ UNCHANGED hosts
    BY <1>17, <2>1, <2>3 DEF DeleteEntity
  <2>4. QED
    BY <1>17, <2>2, <2>3 DEF DeleteEntity
<1>18. ASSUME NEW r \in Run, NEW h \in Host, SkipVm(r, h)
      PROVE  UnlistedGone'
  BY <1>18 DEF SkipVm
<1>19. ASSUME NEW r \in Run, NEW d \in Device, FoundNewVm(r, d)
      PROVE  UnlistedGone'
  BY <1>19 DEF FoundNewVm
<1>20. ASSUME NEW r \in Run, NEW d \in Device, SkipDeactivate(r, d)
      PROVE  UnlistedGone'
  BY <1>20 DEF SkipDeactivate
<1>21. ASSUME NEW r \in Run, NEW d \in Device, Deactivate(r, d)
      PROVE  UnlistedGone'
  BY <1>21 DEF Deactivate
<1>22. ASSUME NEW r \in Run, NEW d \in Device, DeactivateFails(r, d)
      PROVE  UnlistedGone'
  BY <1>22 DEF DeactivateFails
<1>23. CASE UNCHANGED vars
  BY <1>23 DEF vars
<1>24. QED
  BY <1>1, <1>2, <1>3, <1>4, <1>5, <1>6, <1>7, <1>8, <1>9, <1>10, <1>11,
     <1>12, <1>13, <1>14, <1>15, <1>16, <1>17, <1>18, <1>19, <1>20, <1>21,
     <1>22, <1>23 DEF Next, World, RunStep

(* vms_to_delic only ever holds devices whose VM is gone.                  *)
LEMMA DelicensedStep == ASSUME TypeInv, UnlistedGone, DelicensedAreGone,
   [Next]_vars
      PROVE  DelicensedAreGone'
<1>0. vm \in [Device -> {"new", "booting", "serving", "gone"}] /\ delic \in
   [Run -> SUBSET Device]
  BY DEF TypeInv, TypeOK, Holding
<1> USE <1>0
<1> USE DEF UnlistedGone, Listed, DelicensedAreGone, InVmss
<1>1. ASSUME NEW d \in Device, CreateVm(d)
      PROVE  DelicensedAreGone'
  BY <1>1 DEF CreateVm
<1>2. ASSUME NEW d \in Device, JoinPanorama(d)
      PROVE  DelicensedAreGone'
  BY <1>2 DEF JoinPanorama
<1>3. ASSUME NEW d \in Device, DeleteVm(d)
      PROVE  DelicensedAreGone'
  BY <1>3 DEF DeleteVm
<1>4. CASE DeleteScaleSet
  BY <1>4 DEF DeleteScaleSet
<1>5. ASSUME NEW r \in Run, Start(r) \/ FindVmss(r)
      PROVE  DelicensedAreGone'
  BY <1>5 DEF Start, FindVmss
<1>6. ASSUME NEW r \in Run, ListGroup(r) \/ ShowDevices(r)
      PROVE  DelicensedAreGone'
  BY <1>6 DEF ListGroup, ShowDevices
<1>7. ASSUME NEW r \in Run, ListFails(r) \/ Finish(r) \/ Crash(r)
      PROVE  DelicensedAreGone'
  BY <1>7 DEF ListFails, Finish, Crash
<1>8. ASSUME NEW r \in Run, ListVmss(r)
      PROVE  DelicensedAreGone'
  BY <1>8 DEF ListVmss, Plan
<1>9. ASSUME NEW r \in Run, InsertFails(r) \/ ListDb(r)
      PROVE  DelicensedAreGone'
  BY <1>9 DEF InsertFails, ListDb, VmsToDelic
<1>10. ASSUME NEW r \in Run, InsertEntity(r)
      PROVE  DelicensedAreGone'
  BY <1>10 DEF InsertEntity
<1>11. ASSUME NEW r \in Run, RemoveFromDg(r) \/ RemoveFromTs(r) \/
               RemoveFromMd(r)
      PROVE  DelicensedAreGone'
  BY <1>11 DEF RemoveFromDg, RemoveFromTs, RemoveFromMd
<1>12. ASSUME NEW r \in Run, DeleteEntity(r)
      PROVE  DelicensedAreGone'
  BY <1>12 DEF DeleteEntity
<1>13. ASSUME NEW r \in Run, NEW h \in Host, SkipVm(r, h)
      PROVE  DelicensedAreGone'
  BY <1>13 DEF SkipVm
<1>14. ASSUME NEW r \in Run, NEW d \in Device, FoundNewVm(r, d)
      PROVE  DelicensedAreGone'
  BY <1>14 DEF FoundNewVm
<1>15. ASSUME NEW r \in Run, NEW d \in Device, SkipDeactivate(r, d)
      PROVE  DelicensedAreGone'
  BY <1>15 DEF SkipDeactivate
<1>16. ASSUME NEW r \in Run, NEW d \in Device, Deactivate(r, d)
      PROVE  DelicensedAreGone'
  BY <1>16 DEF Deactivate
<1>17. ASSUME NEW r \in Run, NEW d \in Device, DeactivateFails(r, d)
      PROVE  DelicensedAreGone'
  BY <1>17 DEF DeactivateFails
<1>18. CASE UNCHANGED vars
  BY <1>18 DEF vars
<1>19. QED
  BY <1>1, <1>2, <1>3, <1>4, <1>5, <1>6, <1>7, <1>8, <1>9, <1>10, <1>11,
     <1>12, <1>13, <1>14, <1>15, <1>16, <1>17, <1>18 DEF Next, World, RunStep

(* The device being cleaned up is gone.                                    *)
LEMMA CurrentGoneStep == ASSUME TypeInv, DelicensedAreGone, CurrentGone,
   [Next]_vars
      PROVE  CurrentGone'
<1>0. pc \in [Run -> Label] /\ vm \in [Device -> {"new", "booting",
   "serving", "gone"}] /\ cur \in [Run -> Device \cup {NoDevice}] /\ \A r \in
   Run : pc[r] \in {"insert", "rmDg", "rmTs", "rmMd", "dbDelete"} => cur[r]
   \in Device
  BY DEF TypeInv, TypeOK, Holding
<1> USE <1>0
<1> USE DEF DelicensedAreGone, CurrentGone, Cleaning, InVmss
<1>1. ASSUME NEW d \in Device, CreateVm(d)
      PROVE  CurrentGone'
  BY <1>1 DEF CreateVm
<1>2. ASSUME NEW d \in Device, JoinPanorama(d)
      PROVE  CurrentGone'
  BY <1>2 DEF JoinPanorama
<1>3. ASSUME NEW d \in Device, DeleteVm(d)
      PROVE  CurrentGone'
  BY <1>3 DEF DeleteVm
<1>4. CASE DeleteScaleSet
  BY <1>4 DEF DeleteScaleSet
<1>5. ASSUME NEW r \in Run, Start(r) \/ FindVmss(r)
      PROVE  CurrentGone'
  BY <1>5 DEF Start, FindVmss
<1>6. ASSUME NEW r \in Run, ListGroup(r) \/ ShowDevices(r)
      PROVE  CurrentGone'
  BY <1>6 DEF ListGroup, ShowDevices
<1>7. ASSUME NEW r \in Run, ListFails(r) \/ Finish(r) \/ Crash(r)
      PROVE  CurrentGone'
  BY <1>7 DEF ListFails, Finish, Crash
<1>8. ASSUME NEW r \in Run, ListVmss(r)
      PROVE  CurrentGone'
  BY <1>8 DEF ListVmss, Plan
<1>9. ASSUME NEW r \in Run, InsertFails(r) \/ ListDb(r)
      PROVE  CurrentGone'
  BY <1>9 DEF InsertFails, ListDb, VmsToDelic
<1>10. ASSUME NEW r \in Run, InsertEntity(r)
      PROVE  CurrentGone'
  BY <1>10 DEF InsertEntity
<1>11. ASSUME NEW r \in Run, RemoveFromDg(r) \/ RemoveFromTs(r) \/
               RemoveFromMd(r)
      PROVE  CurrentGone'
  BY <1>11 DEF RemoveFromDg, RemoveFromTs, RemoveFromMd
<1>12. ASSUME NEW r \in Run, DeleteEntity(r)
      PROVE  CurrentGone'
  BY <1>12 DEF DeleteEntity
<1>13. ASSUME NEW r \in Run, NEW h \in Host, SkipVm(r, h)
      PROVE  CurrentGone'
  BY <1>13 DEF SkipVm
<1>14. ASSUME NEW r \in Run, NEW d \in Device, FoundNewVm(r, d)
      PROVE  CurrentGone'
  BY <1>14 DEF FoundNewVm
<1>15. ASSUME NEW r \in Run, NEW d \in Device, SkipDeactivate(r, d)
      PROVE  CurrentGone'
  BY <1>15 DEF SkipDeactivate
<1>16. ASSUME NEW r \in Run, NEW d \in Device, Deactivate(r, d)
      PROVE  CurrentGone'
  BY <1>16 DEF Deactivate
<1>17. ASSUME NEW r \in Run, NEW d \in Device, DeactivateFails(r, d)
      PROVE  CurrentGone'
  BY <1>17 DEF DeactivateFails
<1>18. CASE UNCHANGED vars
  BY <1>18 DEF vars
<1>19. QED
  BY <1>1, <1>2, <1>3, <1>4, <1>5, <1>6, <1>7, <1>8, <1>9, <1>10, <1>11,
     <1>12, <1>13, <1>14, <1>15, <1>16, <1>17, <1>18 DEF Next, World, RunStep

(* So nothing is taken from a firewall that serves.                        *)
LEMMA ServingStep == ASSUME TypeInv, DelicensedAreGone, CurrentGone,
   ServingUntouched, [Next]_vars
      PROVE  ServingUntouched'
<1>0. vm \in [Device -> {"new", "booting", "serving", "gone"}] /\ cur \in
   [Run -> Device \cup {NoDevice}]
  BY DEF TypeInv, TypeOK, Holding
<1> USE <1>0
<1> USE DEF DelicensedAreGone, CurrentGone, Cleaning, ServingUntouched,
   InVmss
<1>1. ASSUME NEW d \in Device, CreateVm(d)
      PROVE  ServingUntouched'
  BY <1>1 DEF CreateVm
<1>2. ASSUME NEW d \in Device, JoinPanorama(d)
      PROVE  ServingUntouched'
  BY <1>2 DEF JoinPanorama
<1>3. ASSUME NEW d \in Device, DeleteVm(d)
      PROVE  ServingUntouched'
  BY <1>3 DEF DeleteVm
<1>4. CASE DeleteScaleSet
  BY <1>4 DEF DeleteScaleSet
<1>5. ASSUME NEW r \in Run, Start(r) \/ FindVmss(r)
      PROVE  ServingUntouched'
  BY <1>5 DEF Start, FindVmss
<1>6. ASSUME NEW r \in Run, ListGroup(r) \/ ShowDevices(r)
      PROVE  ServingUntouched'
  BY <1>6 DEF ListGroup, ShowDevices
<1>7. ASSUME NEW r \in Run, ListFails(r) \/ Finish(r) \/ Crash(r)
      PROVE  ServingUntouched'
  BY <1>7 DEF ListFails, Finish, Crash
<1>8. ASSUME NEW r \in Run, ListVmss(r)
      PROVE  ServingUntouched'
  BY <1>8 DEF ListVmss, Plan
<1>9. ASSUME NEW r \in Run, InsertFails(r) \/ ListDb(r)
      PROVE  ServingUntouched'
  BY <1>9 DEF InsertFails, ListDb, VmsToDelic
<1>10. ASSUME NEW r \in Run, InsertEntity(r)
      PROVE  ServingUntouched'
  BY <1>10 DEF InsertEntity
<1>11. ASSUME NEW r \in Run, RemoveFromDg(r) \/ RemoveFromTs(r) \/
               RemoveFromMd(r)
      PROVE  ServingUntouched'
  BY <1>11 DEF RemoveFromDg, RemoveFromTs, RemoveFromMd
<1>12. ASSUME NEW r \in Run, DeleteEntity(r)
      PROVE  ServingUntouched'
  BY <1>12 DEF DeleteEntity
<1>13. ASSUME NEW r \in Run, NEW h \in Host, SkipVm(r, h)
      PROVE  ServingUntouched'
  BY <1>13 DEF SkipVm
<1>14. ASSUME NEW r \in Run, NEW d \in Device, FoundNewVm(r, d)
      PROVE  ServingUntouched'
  BY <1>14 DEF FoundNewVm
<1>15. ASSUME NEW r \in Run, NEW d \in Device, SkipDeactivate(r, d)
      PROVE  ServingUntouched'
  BY <1>15 DEF SkipDeactivate
<1>16. ASSUME NEW r \in Run, NEW d \in Device, Deactivate(r, d)
      PROVE  ServingUntouched'
  BY <1>16 DEF Deactivate
<1>17. ASSUME NEW r \in Run, NEW d \in Device, DeactivateFails(r, d)
      PROVE  ServingUntouched'
  BY <1>17 DEF DeactivateFails
<1>18. CASE UNCHANGED vars
  BY <1>18 DEF vars
<1>19. QED
  BY <1>1, <1>2, <1>3, <1>4, <1>5, <1>6, <1>7, <1>8, <1>9, <1>10, <1>11,
     <1>12, <1>13, <1>14, <1>15, <1>16, <1>17, <1>18 DEF Next, World, RunStep

(* SafeInv holds at the start and is kept.                                 *)
LEMMA SafeInit == Init => SafeInv
<1> SUFFICES ASSUME Init PROVE SafeInv
  OBVIOUS
<1>1. TypeInv
  BY InitType
<1>2. Alone /\ StoresJoined /\ ListJoined /\ FoundJoined /\ TodoListed
  BY Zenon DEF Init, Alone, StoresJoined, ListJoined, FoundJoined, TodoListed
<1>3. UnlistedGone /\ CurrentGone /\ DelicensedAreGone
  BY DEF Init, UnlistedGone, CurrentGone, DelicensedAreGone, Listed, Cleaning
<1>4. ServingUntouched
  BY DEF Init, ServingUntouched
<1>5. QED
  BY <1>1, <1>2, <1>3, <1>4 DEF SafeInv

LEMMA SafeStep == ASSUME ~ Overlap, SafeInv, [Next]_vars PROVE SafeInv'
BY TypeStep, AloneStep, StoresJoinedStep, ListJoinedStep, TodoListedStep,
   FoundJoinedStep, UnlistedGoneStep, DelicensedStep, CurrentGoneStep, ServingStep
   DEF SafeInv

(* A run that has the system to itself takes nothing from a firewall that  *)
(* runs, and delicenses only what is gone.                                 *)
THEOREM Safe == ~ Overlap => (Spec => [](ServingUntouched /\ DelicensedAreGone))
<1> SUFFICES ASSUME ~ Overlap
             PROVE  Spec => [](ServingUntouched /\ DelicensedAreGone)
  OBVIOUS
<1>1. SafeInv /\ [Next]_vars => SafeInv'
  BY SafeStep
<1>2. SafeInv => ServingUntouched /\ DelicensedAreGone
  BY DEF SafeInv
<1>3. QED
  BY <1>1, <1>2, SafeInit, PTL DEF Spec

(* The second half on its own: a deactivation is only ever asked for a     *)
(* device whose VM Azure has deleted.                                      *)
THEOREM Rightful == ~ Overlap => (Spec => []DelicensedAreGone)
<1> SUFFICES ASSUME ~ Overlap PROVE Spec => []DelicensedAreGone
  OBVIOUS
<1>1. Spec => [](ServingUntouched /\ DelicensedAreGone)
  BY Safe
<1>2. QED
  BY <1>1, PTL
=============================================================================
