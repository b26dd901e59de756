---------------------------- MODULE LedgerProofs ----------------------------
(***************************************************************************)
(* Proofs that Monitor drops a row only when the licence is given back and *)
(* Panorama cleaned up, and that it implements LicenseLedger: for every set of devices, host    *)
(* names and runs that do not overlap, whatever fails or is killed.        *)
(***************************************************************************)
EXTENDS MonitorProofs

USE DEF env, pano, lists, loop, locals, At, Goto, End, TakeDevice

-----------------------------------------------------------------------------
(* The row of a run's device is still there when it comes to be deleted,   *)
(* it is the only one of its host name, and what is left to do does not    *)
(* hold that device a second time.                                         *)
RowsUnique == \A d, e \in db : HostOf[d] = HostOf[e] => d = e
InDb(r) ==
  /\ delic[r] \subseteq db
  /\ pc[r] \notin Cleaning \cup {"delic"} => delic[r] = {}
  /\ pc[r] \in Cleaning => cur[r] \in db /\ cur[r] \notin delic[r]
AllInDb == \A r \in Run : InDb(r)

(* Licences are held only with the plan byol, a run that knows a plan      *)
(* knows the right one, and the device it cleans up after has none.        *)
PlanKnown == licensed # {} => Byol
SkuIsPlan == \A r \in Run : sku[r] \in {"", Plan}
Released  == \A r \in Run : pc[r] \in Cleaning /\ sku[r] # "" => cur[r] \notin licensed

(* A scale set that is never emptied has a VM once it had one: a run that  *)
(* does not know the plan has no row to deal with.                         *)
NeverEmpty == ~ ScaleToZero =>
  \A d \in Device : vm[d] # "new" => \E e \in Device : InVmss(e)
SkuKnown == ~ ScaleToZero =>
  \A r \in Run : pc[r] \in Listed /\ sku[r] = "" => hosts[r] = {} /\ db = {}

LedgerInv == /\ SafeInv /\ RowsUnique /\ AllInDb
             /\ PlanKnown /\ SkuIsPlan /\ Released
             /\ NeverEmpty /\ SkuKnown

-----------------------------------------------------------------------------
(* Who writes what.                                                        *)

(* Only an insertion and a deletion write the table.                       *)
LEMMA DbFrame ==
  ASSUME [Next]_vars
  PROVE  \/ db' = db
         \/ \E r \in Run : InsertEntity(r) \/ DeleteEntity(r)
<1>1. CASE World \/ UNCHANGED vars
  BY <1>1 DEF World, vars, CreateVm, JoinPanorama, DeleteVm, DeleteScaleSet
<1>2. ASSUME NEW r \in Run, Start(r) \/ Crash(r)
      PROVE  db' = db
  BY <1>2 DEF Start, Crash
<1>3. ASSUME NEW r \in Run, RunStep(r)
      PROVE  db' = db \/ InsertEntity(r) \/ DeleteEntity(r)
  BY <1>3 DEF RunStep, FindVmss, ListGroup, ShowDevices, ListFails, ListVmss, InsertFails,
         ListDb, SkipVm, FoundNewVm, SkipDeactivate, Deactivate, DeactivateFails,
         RemoveFromDg, RemoveFromTs, RemoveFromMd, Finish
<1>4. QED
  BY <1>1, <1>2, <1>3 DEF Next

(* Only a new firewall adds a licence.                                     *)
LEMMA LicensedFrame ==
  ASSUME [Next]_vars
  PROVE  \/ licensed' \subseteq licensed
         \/ \E d \in Device : JoinPanorama(d)
<1>1. CASE World \/ UNCHANGED vars
  BY <1>1 DEF World, vars, CreateVm, DeleteVm, DeleteScaleSet
<1>2. ASSUME NEW r \in Run, Start(r) \/ Crash(r)
      PROVE  licensed' \subseteq licensed
  BY <1>2 DEF Start, Crash
<1>3. ASSUME NEW r \in Run, RunStep(r)
      PROVE  licensed' \subseteq licensed
  BY <1>3 DEF RunStep, FindVmss, ListGroup, ShowDevices, ListFails, ListVmss, InsertFails,
         InsertEntity, ListDb, SkipVm, FoundNewVm, SkipDeactivate, Deactivate,
         DeactivateFails, RemoveFromDg, RemoveFromTs, RemoveFromMd, DeleteEntity, Finish
<1>4. QED
  BY <1>1, <1>2, <1>3 DEF Next

(* No step of a run creates or deletes a VM.                               *)
LEMMA VmFrame ==
  ASSUME [Next]_vars
  PROVE  vm' = vm \/ World
<1>1. ASSUME NEW r \in Run, Start(r) \/ Crash(r)
      PROVE  vm' = vm
  BY <1>1 DEF Start, Crash
<1>2. ASSUME NEW r \in Run, RunStep(r)
      PROVE  vm' = vm
  BY <1>2 DEF RunStep, FindVmss, ListGroup, ShowDevices, ListFails, ListVmss, InsertFails,
         InsertEntity, ListDb, SkipVm, FoundNewVm, SkipDeactivate, Deactivate,
         DeactivateFails, RemoveFromDg, RemoveFromTs, RemoveFromMd, DeleteEntity, Finish
<1>3. QED
  BY <1>1, <1>2 DEF Next, vars

(* Only a look at the scale set tells a run the plan and the host names.   *)
LEMMA SkuFrame ==
  ASSUME TypeInv, [Next]_vars, NEW q \in Run
  PROVE  \/ sku'[q] = sku[q] /\ hosts'[q] = hosts[q]
         \/ sku'[q] = "" /\ pc'[q] = "idle"
         \/ ListVmss(q)
<1>0. /\ pc \in [Run -> Label] /\ sku \in [Run -> {"", "byol", "bundle"}]
      /\ hosts \in [Run -> SUBSET Host]
  BY DEF TypeInv, TypeOK
<1>1. ASSUME NEW r \in Run,
             \/ FindVmss(r) \/ ListFails(r) \/ Finish(r) \/ Crash(r) \/ DeleteEntity(r)
      PROVE  \/ sku'[q] = sku[q] /\ hosts'[q] = hosts[q]
             \/ sku'[q] = "" /\ pc'[q] = "idle"
  BY <1>0, <1>1 DEF FindVmss, ListFails, Finish, Crash, DeleteEntity
<1>2. ASSUME NEW r \in Run, ListVmss(r)
      PROVE  \/ sku'[q] = sku[q] /\ hosts'[q] = hosts[q]
             \/ ListVmss(q)
  BY <1>0, <1>2 DEF ListVmss
<1>3. \/ UNCHANGED <<sku, hosts>>
      \/ \E r \in Run : \/ FindVmss(r) \/ ListFails(r) \/ Finish(r) \/ Crash(r)
                        \/ DeleteEntity(r) \/ ListVmss(r)
  BY DEF Next, World, RunStep, vars, CreateVm, JoinPanorama, DeleteVm, DeleteScaleSet,
         Start, ListGroup, ShowDevices, InsertFails, InsertEntity, ListDb, SkipVm,
         FoundNewVm, SkipDeactivate, Deactivate, DeactivateFails, RemoveFromDg,
         RemoveFromTs, RemoveFromMd
<1>4. QED
  BY <1>1, <1>2, <1>3

-----------------------------------------------------------------------------
(* Each part is kept.                                                      *)

LEMMA RowsUniqueStep ==
  ASSUME TypeInv, RowsUnique, [Next]_vars
  PROVE  RowsUnique'
<1>1. ASSUME NEW r \in Run, InsertEntity(r)
      PROVE  RowsUnique'
  BY <1>1 DEF InsertEntity, RowsUnique
<1>2. ASSUME NEW r \in Run, DeleteEntity(r)
      PROVE  RowsUnique'
  BY <1>2 DEF DeleteEntity, RowsUnique
<1>3. CASE db' = db
  BY <1>3 DEF RowsUnique
<1>4. QED
  BY <1>1, <1>2, <1>3, DbFrame

(* A deletion removes the row of the device at hand and no other.          *)
LEMMA DeletesOne ==
  ASSUME TypeInv, RowsUnique, AllInDb, NEW r \in Run, DeleteEntity(r)
  PROVE  /\ cur[r] \in db /\ cur[r] \in Device /\ db' = db \ {cur[r]}
         /\ {e \in db : HostOf[e] = HostOf[cur[r]]} # {}
<1>1. pc[r] = "dbDelete" /\ pc[r] \in Cleaning
  BY DEF DeleteEntity, Cleaning
<1>2. cur[r] \in db /\ cur[r] \in Device
  BY <1>1 DEF AllInDb, InDb, TypeInv, Holding
<1>3. {e \in db : HostOf[e] = HostOf[cur[r]]} = {cur[r]}
  BY <1>2 DEF RowsUnique
<1>4. QED
  BY <1>2, <1>3 DEF DeleteEntity

LEMMA AllInDbStep ==
  ASSUME TypeInv, Alone, RowsUnique, AllInDb, [Next]_vars
  PROVE  AllInDb'
<1>0. /\ pc \in [Run -> Label] /\ delic \in [Run -> SUBSET Device]
      /\ cur \in [Run -> Device \cup {NoDevice}] /\ db \subseteq Device
  BY DEF TypeInv, TypeOK
<1> USE <1>0 DEF AllInDb, InDb, Cleaning
<1>1. CASE World \/ UNCHANGED vars
  BY <1>1 DEF World, CreateVm, JoinPanorama, DeleteVm, DeleteScaleSet, vars
<1>2. ASSUME NEW r \in Run,
             Start(r) \/ ListGroup(r) \/ ShowDevices(r) \/ ListVmss(r) \/ InsertFails(r)
      PROVE  AllInDb'
  BY <1>2 DEF Start, ListGroup, ShowDevices, ListVmss, InsertFails
<1>3. ASSUME NEW r \in Run, FindVmss(r) \/ ListFails(r) \/ Finish(r) \/ Crash(r)
      PROVE  AllInDb'
  BY <1>3 DEF FindVmss, ListFails, Finish, Crash
<1>4. ASSUME NEW r \in Run, InsertEntity(r)
      PROVE  AllInDb'
  BY <1>4 DEF InsertEntity
<1>5. ASSUME NEW r \in Run, ListDb(r)
      PROVE  AllInDb'
  BY <1>5 DEF ListDb, VmsToDelic
<1>6. ASSUME NEW r \in Run, NEW h \in Host, SkipVm(r, h)
      PROVE  AllInDb'
  BY <1>6 DEF SkipVm
<1>7. ASSUME NEW r \in Run, NEW d \in Device, FoundNewVm(r, d)
      PROVE  AllInDb'
  BY <1>7 DEF FoundNewVm
<1>8. ASSUME NEW r \in Run, NEW d \in Device, SkipDeactivate(r, d) \/ Deactivate(r, d)
      PROVE  AllInDb'
  BY <1>8 DEF SkipDeactivate, Deactivate
<1>9. ASSUME NEW r \in Run, NEW d \in Device, DeactivateFails(r, d)
      PROVE  AllInDb'
  BY <1>9 DEF DeactivateFails
<1>10. ASSUME NEW r \in Run, RemoveFromDg(r) \/ RemoveFromTs(r) \/ RemoveFromMd(r)
      PROVE  AllInDb'
  BY <1>10 DEF RemoveFromDg, RemoveFromTs, RemoveFromMd
<1>11. ASSUME NEW r \in Run, DeleteEntity(r)
      PROVE  AllInDb'
  <2>1. /\ cur[r] \in db /\ db' = db \ {cur[r]} /\ cur[r] \notin delic[r]
        /\ pc[r] = "dbDelete" /\ pc'[r] = "delic" /\ delic' = delic
        /\ \A q \in Run \ {r} : pc'[q] = pc[q] /\ cur'[q] = cur[q]
    BY <1>11, DeletesOne DEF DeleteEntity
  <2>2. \A q \in Run \ {r} : pc[q] = "idle"
    BY <2>1 DEF Alone
  <2>3. QED
    BY <2>1, <2>2
<1>12. QED
  BY <1>1, <1>2, <1>3, <1>4, <1>5, <1>6, <1>7, <1>8, <1>9, <1>10, <1>11
     DEF Next, RunStep

LEMMA PlanKnownStep ==
  ASSUME PlanKnown, [Next]_vars
  PROVE  PlanKnown'
<1>1. ASSUME NEW d \in Device, JoinPanorama(d)
      PROVE  PlanKnown'
  BY <1>1 DEF JoinPanorama, PlanKnown
<1>2. CASE licensed' \subseteq licensed
  BY <1>2 DEF PlanKnown
<1>3. QED
  BY <1>1, <1>2, LicensedFrame

LEMMA SkuIsPlanStep ==
  ASSUME TypeInv, SkuIsPlan, [Next]_vars
  PROVE  SkuIsPlan'
<1> SUFFICES ASSUME NEW q \in Run
             PROVE  sku'[q] \in {"", Plan}
  BY DEF SkuIsPlan, Plan
<1>1. CASE ListVmss(q)
  BY <1>1 DEF ListVmss, TypeInv, TypeOK
<1>2. QED
  BY <1>1, SkuFrame DEF SkuIsPlan

(* The licence of a device that is gone is not given again, and it was     *)
(* deactivated when the run took the device, or there was none.            *)
LEMMA ReleasedStep ==
  ASSUME TypeInv, CurrentGone, PlanKnown, SkuIsPlan, Released, [Next]_vars
  PROVE  Released'
<1>0. /\ pc \in [Run -> Label] /\ cur \in [Run -> Device \cup {NoDevice}]
      /\ sku \in [Run -> {"", "byol", "bundle"}]
      /\ vm \in [Device -> {"new", "booting", "serving", "gone"}]
      /\ delic \in [Run -> SUBSET Device]
  BY DEF TypeInv, TypeOK
<1> USE <1>0 DEF Released, Cleaning
<1>1. CASE UNCHANGED vars
  BY <1>1 DEF vars
<1>2. ASSUME NEW d \in Device, CreateVm(d) \/ DeleteVm(d) \/ DeleteScaleSet
      PROVE  Released'
  BY <1>2 DEF CreateVm, DeleteVm, DeleteScaleSet
<1>3. ASSUME NEW d \in Device, JoinPanorama(d)
      PROVE  Released'
  BY <1>3 DEF JoinPanorama, CurrentGone
<1>4. CASE DeleteScaleSet
  BY <1>4 DEF DeleteScaleSet
<1>5. ASSUME NEW r \in Run,
             Start(r) \/ ListGroup(r) \/ ShowDevices(r) \/ ListVmss(r) \/ InsertFails(r)
      PROVE  Released'
  BY <1>5 DEF Start, ListGroup, ShowDevices, ListVmss, InsertFails
<1>6. ASSUME NEW r \in Run, FindVmss(r) \/ ListFails(r) \/ Finish(r) \/ Crash(r)
      PROVE  Released'
  BY <1>6 DEF FindVmss, ListFails, Finish, Crash
<1>7. ASSUME NEW r \in Run, InsertEntity(r) \/ ListDb(r)
      PROVE  Released'
  BY <1>7 DEF InsertEntity, ListDb
<1>8. ASSUME NEW r \in Run, NEW h \in Host, SkipVm(r, h)
      PROVE  Released'
  BY <1>8 DEF SkipVm
<1>9. ASSUME NEW r \in Run, NEW d \in Device, FoundNewVm(r, d)
      PROVE  Released'
  BY <1>9 DEF FoundNewVm
<1>10. ASSUME NEW r \in Run, NEW d \in Device, SkipDeactivate(r, d)
      PROVE  Released'
  <2>1. sku[r] # "" => licensed = {}
    BY <1>10 DEF SkipDeactivate, SkuIsPlan, Plan, PlanKnown
  <2>2. QED
    BY <1>10, <2>1 DEF SkipDeactivate
<1>11. ASSUME NEW r \in Run, NEW d \in Device, Deactivate(r, d)
      PROVE  Released'
  BY <1>11 DEF Deactivate
<1>12. ASSUME NEW r \in Run, NEW d \in Device, DeactivateFails(r, d)
      PROVE  Released'
  BY <1>12 DEF DeactivateFails
<1>13. ASSUME NEW r \in Run, RemoveFromDg(r) \/ RemoveFromTs(r) \/ RemoveFromMd(r)
      PROVE  Released'
  BY <1>13 DEF RemoveFromDg, RemoveFromTs, RemoveFromMd
<1>14. ASSUME NEW r \in Run, DeleteEntity(r)
      PROVE  Released'
  BY <1>14 DEF DeleteEntity
<1>15. QED
  BY <1>1, <1>2, <1>3, <1>4, <1>5, <1>6, <1>7, <1>8, <1>9, <1>10, <1>11, <1>12, <1>13,
     <1>14 DEF Next, World, RunStep

LEMMA NeverEmptyStep ==
  ASSUME TypeInv, NeverEmpty, [Next]_vars
  PROVE  NeverEmpty'
<1> SUFFICES ASSUME ~ ScaleToZero
             PROVE  NeverEmpty'
  BY DEF NeverEmpty
<1>0. vm \in [Device -> {"new", "booting", "serving", "gone"}]
  BY DEF TypeInv, TypeOK
<1> USE <1>0 DEF NeverEmpty, InVmss
<1>1. ASSUME NEW d \in Device, CreateVm(d)
      PROVE  NeverEmpty'
  BY <1>1 DEF CreateVm
<1>2. ASSUME NEW d \in Device, JoinPanorama(d)
      PROVE  NeverEmpty'
  BY <1>2 DEF JoinPanorama
<1>3. ASSUME NEW d \in Device, DeleteVm(d)
      PROVE  NeverEmpty'
  BY <1>3 DEF DeleteVm
<1>4. CASE vm' = vm
  BY <1>4
<1>5. ~ DeleteScaleSet
  BY DEF DeleteScaleSet
<1>6. QED
  BY <1>1, <1>2, <1>3, <1>4, <1>5, VmFrame DEF World

(* A run that does not know the plan has seen no VM, so that there was     *)
(* none before and no row; and it inserts none, having no host name.       *)
LEMMA SkuKnownStep ==
  ASSUME LedgerInv, [Next]_vars
  PROVE  SkuKnown'
<1> SUFFICES ASSUME ~ ScaleToZero, NEW q \in Run, pc'[q] \in Listed, sku'[q] = ""
             PROVE  hosts'[q] = {} /\ db' = {}
  BY DEF SkuKnown, Listed
<1>0. /\ pc \in [Run -> Label] /\ sku \in [Run -> {"", "byol", "bundle"}]
      /\ hosts \in [Run -> SUBSET Host] /\ db \subseteq Device
      /\ vm \in [Device -> {"new", "booting", "serving", "gone"}]
  BY DEF LedgerInv, SafeInv, TypeInv, TypeOK
<1>1. CASE ListVmss(q)
  <2>1. hosts'[q] = Hosts /\ Hosts = {} /\ db' = db
    BY <1>0, <1>1 DEF ListVmss, Plan
  <2>2. \A e \in Device : ~ InVmss(e)
    BY <2>1 DEF Hosts
  <2>3. \A d \in Device : vm[d] = "new"
    BY <2>2 DEF LedgerInv, NeverEmpty
  <2>4. db = {}
    BY <1>0, <2>3 DEF LedgerInv, SafeInv, StoresJoined, Joined
  <2>5. QED
    BY <2>1, <2>4
<1>2. CASE sku'[q] = sku[q] /\ hosts'[q] = hosts[q] /\ ~ ListVmss(q)
  <2>1. pc[q] \in Listed
    <3>1. CASE World \/ UNCHANGED vars
      BY <3>1 DEF World, vars, CreateVm, JoinPanorama, DeleteVm, DeleteScaleSet
    <3>2. ASSUME NEW r \in Run, Start(r) \/ Crash(r)
          PROVE  pc[q] \in Listed
      BY <1>0, <3>2 DEF Start, Crash, Listed
    <3>3. ASSUME NEW r \in Run, ListVmss(r)
          PROVE  pc[q] \in Listed
      BY <1>0, <1>2, <3>3 DEF ListVmss, Listed
    <3>4. ASSUME NEW r \in Run, FindVmss(r) \/ ListGroup(r) \/ ShowDevices(r) \/ ListFails(r)
          PROVE  pc[q] \in Listed
      BY <1>0, <3>4 DEF FindVmss, ListGroup, ShowDevices, ListFails, Listed
    <3>5. ASSUME NEW r \in Run,
                 \/ InsertFails(r) \/ InsertEntity(r) \/ ListDb(r)
                 \/ \E h \in Host : SkipVm(r, h)
                 \/ \E d \in Device : \/ FoundNewVm(r, d) \/ SkipDeactivate(r, d)
                                      \/ Deactivate(r, d) \/ DeactivateFails(r, d)
          PROVE  pc[q] \in Listed
      BY <1>0, <3>5 DEF InsertFails, InsertEntity, ListDb, SkipVm, FoundNewVm,
             SkipDeactivate, Deactivate, DeactivateFails, Listed
    <3>6. ASSUME NEW r \in Run, \/ RemoveFromDg(r) \/ RemoveFromTs(r) \/ RemoveFromMd(r)
                                \/ DeleteEntity(r) \/ Finish(r)
          PROVE  pc[q] \in Listed
      BY <1>0, <3>6 DEF RemoveFromDg, RemoveFromTs, RemoveFromMd, DeleteEntity, Finish, Listed
    <3>7. QED
      BY <3>1, <3>2, <3>3, <3>4, <3>5, <3>6 DEF Next, RunStep
  <2>2. hosts[q] = {} /\ db = {}
    BY <1>2, <2>1 DEF LedgerInv, SkuKnown
  <2>3. ASSUME NEW r \in Run, InsertEntity(r)
        PROVE  FALSE
    <3>1. pc[r] = "insert"
      BY <2>3 DEF InsertEntity
    <3>2. r = q
      BY <2>1, <3>1 DEF Listed, LedgerInv, SafeInv, Alone
    <3>3. QED
      BY <2>2, <3>1, <3>2 DEF LedgerInv, SafeInv, FoundJoined
  <2>4. db' = {}
    BY <2>2, <2>3, DbFrame DEF DeleteEntity
  <2>5. QED
    BY <1>2, <2>2, <2>4
<1>3. CASE pc'[q] = "idle"
  BY <1>3 DEF Listed
<1>4. QED
  BY <1>1, <1>2, <1>3, SkuFrame DEF LedgerInv, SafeInv

(* The invariant as a whole.                                               *)
LEMMA LedgerInit == Init => LedgerInv
<1> SUFFICES ASSUME Init
             PROVE  LedgerInv
  OBVIOUS
<1>1. RowsUnique /\ AllInDb /\ Released /\ SkuKnown
  BY DEF Init, RowsUnique, AllInDb, InDb, Released, SkuKnown, Cleaning, Listed
<1>2. PlanKnown /\ SkuIsPlan /\ NeverEmpty
  BY DEF Init, PlanKnown, SkuIsPlan, NeverEmpty
<1>3. QED
  BY <1>1, <1>2, SafeInit DEF LedgerInv

LEMMA LedgerStep == ASSUME ~ Overlap, LedgerInv, [Next]_vars PROVE LedgerInv'
<1>1. TypeInv /\ Alone /\ CurrentGone
  BY DEF LedgerInv, SafeInv
<1>2. SafeInv'
  BY SafeStep DEF LedgerInv
<1>3. QED
  BY <1>1, <1>2, RowsUniqueStep, AllInDbStep, PlanKnownStep, SkuIsPlanStep, ReleasedStep,
     NeverEmptyStep, SkuKnownStep DEF LedgerInv

-----------------------------------------------------------------------------
(* What a deletion finds.                                                  *)
LEMMA DropsReleased ==
  ASSUME LedgerInv, NEW r \in Run, DeleteEntity(r), sku[r] # ""
  PROVE  cur[r] \notin licensed
BY DEF DeleteEntity, Cleaning, LedgerInv, Released

(* With one run at a time, a row is dropped with the licence still held    *)
(* only by a run that saw no VM in the scale set: no failure of a call and *)
(* no kill, at any step, makes main() forget a licence it has not given    *)
(* back.                                                                   *)
THEOREM Remembered == ~ Overlap => (Spec => ReleasedUnlessEmpty)
<1> SUFFICES ASSUME ~ Overlap PROVE Spec => ReleasedUnlessEmpty
  OBVIOUS
<1> DEFINE Drop == \A d \in db \ db' : d \in licensed =>
                      \E r \in Run : At(r, "dbDelete") /\ cur[r] = d /\ sku[r] = ""
<1>1. LedgerInv /\ [Next]_vars => LedgerInv'
  BY LedgerStep
<1>2. LedgerInv /\ [Next]_vars => Drop
  <2> SUFFICES ASSUME LedgerInv, [Next]_vars, NEW d \in db \ db', d \in licensed
               PROVE  \E r \in Run : At(r, "dbDelete") /\ cur[r] = d /\ sku[r] = ""
    OBVIOUS
  <2>1. PICK r \in Run : DeleteEntity(r)
    BY DbFrame DEF InsertEntity
  <2>2. cur[r] = d
    BY <2>1, DeletesOne DEF LedgerInv, SafeInv
  <2>3. sku[r] = ""
    BY <2>1, <2>2, DropsReleased
  <2>4. QED
    BY <2>1, <2>2, <2>3 DEF DeleteEntity
<1>3. LedgerInv /\ [Next]_vars => [Drop]_vars
  BY <1>2
<1>4. QED
  BY <1>1, <1>3, LedgerInit, PTL DEF Spec, ReleasedUnlessEmpty

-----------------------------------------------------------------------------
(* Clean-up calls that do not fail: what a run has gone through holds its  *)
(* device no more, and a device that is gone does not come back.           *)
Reliable == Flaky \cap {"rmDg", "rmTs", "rmMd"} = {}
Cleared == \A r \in Run :
  /\ pc[r] \in {"rmTs", "rmMd", "dbDelete"} => cur[r] \notin dg
  /\ pc[r] \in {"rmMd", "dbDelete"} => cur[r] \notin ts
  /\ pc[r] = "dbDelete" => cur[r] \notin md

LEMMA ClearedStep ==
  ASSUME Reliable, TypeInv, CurrentGone, Cleared, [Next]_vars
  PROVE  Cleared'
<1>0. /\ pc \in [Run -> Label] /\ cur \in [Run -> Device \cup {NoDevice}]
      /\ \A r \in Run : pc[r] \in Cleaning => vm[cur[r]] = "gone"
  BY DEF TypeInv, TypeOK, CurrentGone
<1> USE <1>0 DEF Cleared, Cleaning
<1>1. CASE UNCHANGED vars
  BY <1>1 DEF vars
<1>2. ASSUME NEW d \in Device, CreateVm(d) \/ DeleteVm(d)
      PROVE  Cleared'
  BY <1>2 DEF CreateVm, DeleteVm
<1>3. ASSUME NEW d \in Device, JoinPanorama(d)
      PROVE  Cleared'
  BY <1>3 DEF JoinPanorama
<1>4. CASE DeleteScaleSet
  BY <1>4 DEF DeleteScaleSet
<1>5. ASSUME NEW r \in Run,
             Start(r) \/ ListGroup(r) \/ ShowDevices(r) \/ ListVmss(r) \/ InsertFails(r)
      PROVE  Cleared'
  BY <1>5 DEF Start, ListGroup, ShowDevices, ListVmss, InsertFails
<1>6. ASSUME NEW r \in Run, FindVmss(r) \/ ListFails(r) \/ Finish(r) \/ Crash(r)
      PROVE  Cleared'
  BY <1>6 DEF FindVmss, ListFails, Finish, Crash
<1>7. ASSUME NEW r \in Run, InsertEntity(r) \/ ListDb(r) \/ DeleteEntity(r)
      PROVE  Cleared'
  BY <1>7 DEF InsertEntity, ListDb, DeleteEntity
<1>8. ASSUME NEW r \in Run, NEW h \in Host, SkipVm(r, h)
      PROVE  Cleared'
  BY <1>8 DEF SkipVm
<1>9. ASSUME NEW r \in Run, NEW d \in Device, FoundNewVm(r, d) \/ SkipDeactivate(r, d)
      PROVE  Cleared'
  BY <1>9 DEF FoundNewVm, SkipDeactivate
<1>10. ASSUME NEW r \in Run, NEW d \in Device, Deactivate(r, d) \/ DeactivateFails(r, d)
      PROVE  Cleared'
  BY <1>10 DEF Deactivate, DeactivateFails
<1>11. ASSUME NEW r \in Run, RemoveFromDg(r)
      PROVE  Cleared'
  BY <1>11 DEF RemoveFromDg, Reliable
<1>12. ASSUME NEW r \in Run, RemoveFromTs(r)
      PROVE  Cleared'
  BY <1>12 DEF RemoveFromTs, Reliable
<1>13. ASSUME NEW r \in Run, RemoveFromMd(r)
      PROVE  Cleared'
  BY <1>13 DEF RemoveFromMd, Reliable
<1>14. QED
  BY <1>1, <1>2, <1>3, <1>4, <1>5, <1>6, <1>7, <1>8, <1>9, <1>10, <1>11, <1>12, <1>13
     DEF Next, World, RunStep

(* With one run at a time and clean-up calls that do not fail, a firewall  *)
(* whose row is dropped has left the device group, the template stack and  *)
(* the managed devices, wherever earlier runs were killed.                 *)
THEOREM Forgotten == ~ Overlap /\ Reliable => (Spec => ForgottenLeftPanorama)
<1> SUFFICES ASSUME ~ Overlap, Reliable PROVE Spec => ForgottenLeftPanorama
  OBVIOUS
<1> DEFINE Drop == \A d \in db \ db' : d \notin dg \cup ts \cup md
<1>1. LedgerInv /\ [Next]_vars => LedgerInv'
  BY LedgerStep
<1>2. Init => Cleared
  BY DEF Init, Cleared
<1>3. LedgerInv /\ Cleared /\ [Next]_vars => Cleared'
  BY ClearedStep DEF LedgerInv, SafeInv
<1>4. LedgerInv /\ Cleared /\ [Next]_vars => Drop
  <2> SUFFICES ASSUME LedgerInv, Cleared, [Next]_vars, NEW d \in db \ db'
               PROVE  d \notin dg \cup ts \cup md
    OBVIOUS
  <2>1. PICK r \in Run : DeleteEntity(r)
    BY DbFrame DEF InsertEntity
  <2>2. cur[r] = d
    BY <2>1, DeletesOne DEF LedgerInv, SafeInv
  <2>3. QED
    BY <2>1, <2>2 DEF DeleteEntity, Cleared
<1>5. LedgerInv /\ Cleared /\ [Next]_vars => [Drop]_vars
  BY <1>4
<1>6. QED
  BY <1>1, <1>2, <1>3, <1>5, LedgerInit, PTL DEF Spec, ForgottenLeftPanorama

-----------------------------------------------------------------------------
(* Each step of Monitor is one of LicenseLedger's or leaves its variables. *)
LEMMA LedgerMaps ==
  ASSUME ~ ScaleToZero, LedgerInv, [Next]_vars
  PROVE  [Ledger!Next]_Ledger!vars
<1> DEFINE Goal == [Ledger!Next]_Ledger!vars
<1>0. /\ vm \in [Device -> {"new", "booting", "serving", "gone"}]
      /\ db \subseteq Device /\ licensed \subseteq Device
  BY DEF LedgerInv, SafeInv, TypeInv, TypeOK
<1>1. ASSUME NEW d \in Device, CreateVm(d)
      PROVE  Ledger!Boot(d)
  BY <1>1 DEF CreateVm, Ledger!Boot
<1>2. ASSUME NEW d \in Device, JoinPanorama(d)
      PROVE  Ledger!Join(d)
  BY <1>2 DEF JoinPanorama, Ledger!Join
<1>3. ASSUME NEW d \in Device, DeleteVm(d)
      PROVE  Ledger!Leave(d)
  BY <1>3 DEF DeleteVm, InVmss, Ledger!Leave
<1>4. ~ DeleteScaleSet
  BY DEF DeleteScaleSet
<1>5. ASSUME NEW r \in Run, InsertEntity(r)
      PROVE  cur[r] \in Device /\ Ledger!Record(cur[r])
  <2>1. pc[r] = "insert" /\ cur[r] \in Device /\ Joined(cur[r])
    BY <1>5 DEF InsertEntity, LedgerInv, SafeInv, FoundJoined, TypeInv, Holding
  <2>2. QED
    BY <1>5, <2>1 DEF InsertEntity, Joined, Ledger!Record
<1>6. ASSUME NEW r \in Run, DeleteEntity(r)
      PROVE  cur[r] \in Device /\ Ledger!Forget(cur[r])
  <2>1. cur[r] \in db /\ cur[r] \in Device /\ db' = db \ {cur[r]}
    BY <1>6, DeletesOne DEF LedgerInv, SafeInv
  <2>2. vm[cur[r]] = "gone"
    BY <1>6 DEF DeleteEntity, Cleaning, LedgerInv, SafeInv, CurrentGone
  <2>3. sku[r] # ""
    BY <1>6, <2>1 DEF DeleteEntity, Listed, LedgerInv, SkuKnown
  <2>4. cur[r] \notin licensed
    BY <1>6, <2>3, DropsReleased
  <2>5. QED
    BY <1>6, <2>1, <2>2, <2>4 DEF DeleteEntity, Ledger!Forget
<1>7. ASSUME NEW r \in Run, NEW d \in Device, Deactivate(r, d) \/ DeactivateFails(r, d)
      PROVE  Ledger!Release(d) \/ UNCHANGED <<vm, licensed, db>>
  <2>1. vm[d] = "gone"
    BY <1>7 DEF Deactivate, DeactivateFails, LedgerInv, SafeInv, DelicensedAreGone
  <2>2. QED
    BY <1>7, <2>1 DEF Deactivate, DeactivateFails, Ledger!Release
<1>8. ASSUME NEW r \in Run,
             \/ Start(r) \/ Crash(r) \/ FindVmss(r) \/ ListGroup(r) \/ ShowDevices(r)
             \/ ListFails(r) \/ ListVmss(r) \/ InsertFails(r) \/ ListDb(r)
             \/ \E h \in Host : SkipVm(r, h)
             \/ \E d \in Device : FoundNewVm(r, d) \/ SkipDeactivate(r, d)
             \/ RemoveFromDg(r) \/ RemoveFromTs(r) \/ RemoveFromMd(r) \/ Finish(r)
      PROVE  UNCHANGED <<vm, licensed, db>>
  BY <1>8 DEF Start, Crash, FindVmss, ListGroup, ShowDevices, ListFails, ListVmss,
         InsertFails, ListDb, SkipVm, FoundNewVm, SkipDeactivate, RemoveFromDg,
         RemoveFromTs, RemoveFromMd, Finish
<1>9. \/ \E d \in Device : \/ Ledger!Boot(d) \/ Ledger!Join(d) \/ Ledger!Leave(d)
                           \/ Ledger!Record(d) \/ Ledger!Release(d) \/ Ledger!Forget(d)
      \/ UNCHANGED <<vm, licensed, db>>
  BY <1>1, <1>2, <1>3, <1>4, <1>5, <1>6, <1>7, <1>8 DEF Next, World, RunStep, vars
<1>10. QED
  BY <1>9 DEF Ledger!Next, Ledger!vars

(* Runs that do not overlap, with a scale set that is never emptied,       *)
(* implement LicenseLedger's initial states and steps: a licence is given  *)
(* back only for a VM that is gone, and the row goes only after it.        *)
THEOREM ImplementsLedger == ~ Overlap /\ ~ ScaleToZero => (Spec => Ledger!Safety)
<1> SUFFICES ASSUME ~ Overlap, ~ ScaleToZero PROVE Spec => Ledger!Safety
  OBVIOUS
<1>1. Init => Ledger!Init
  BY DEF Init, Ledger!Init
<1>2. LedgerInv /\ [Next]_vars => LedgerInv'
  BY LedgerStep
<1>3. LedgerInv /\ [Next]_vars => [Ledger!Next]_Ledger!vars
  BY LedgerMaps
<1>4. QED
  BY <1>1, <1>2, <1>3, LedgerInit, PTL DEF Spec, Ledger!Safety

=============================================================================
