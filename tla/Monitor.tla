------------------------------ MODULE Monitor ------------------------------
(***************************************************************************)
(* The licence monitor of the Azure hub, azure/worker_node/monitor.py.     *)
(* cron starts a run every five minutes and takes no lock.  A run compares *)
(* three stores that change under it -- the scale set (Azure), the managed *)
(* devices (Panorama) and the table of firewalls (Cosmos DB) -- one API     *)
(* call at a time, records new firewalls in the table, and gives back the  *)
(* licence of those that left the scale set.                               *)
(*                                                                         *)
(* A device is one boot of a VM, with the serial number and the Panorama   *)
(* name it gets; a host name may be used again by a later device.  The DB  *)
(* row of a host name holds the device it was created from, so the table   *)
(* is a set of devices, at most one per host name.                         *)
(***************************************************************************)
EXTENDS Naturals

CONSTANTS Device,       \* boots of a firewall VM
          Host,         \* host names (computer_name)
          HostOf,       \* the host name of each device
          NoDevice,     \* "no device at hand"
          Run,          \* runs of the script that cron may have going
          Byol,         \* is the scale set's plan "byol"?
          Overlap,      \* may a run start before the last one has ended?
          ScaleToZero,  \* may the scale set be emptied or deleted?
          Flaky,        \* Panorama calls that may fail
          MaxCrash      \* bound: runs killed by the system

Call == {"group", "show", "deactivate", "rmDg", "rmTs", "rmMd"}

ASSUME MonitorAssumption ==
  /\ HostOf \in [Device -> Host]
  /\ NoDevice \notin Device
  /\ Byol \in BOOLEAN /\ Overlap \in BOOLEAN /\ ScaleToZero \in BOOLEAN
  /\ Flaky \subseteq Call
  /\ MaxCrash \in Nat

VARIABLES vmss,      \* does the scale set exist?
          vm,        \* Azure: life cycle of each VM
          licensed,  \* Panorama: serials that hold a VM-capacity licence
          dg,        \* Panorama: devices of the device group
          ts,        \* Panorama: devices of the template stack
          md,        \* Panorama: managed devices
          db,        \* Cosmos DB: the devices of the table's rows
          pc,        \* of each run: the step of main() it is at
          pan,       \*   pan_vms_list
          hosts,     \*   vmss_hostname_list
          todo,      \*   the VMs of the scale set still to scan
          sku,       \*   vm_license_sku
          delic,     \*   vms_to_delic, those still to do
          cur,       \*   the device at hand
          crashes    \* runs killed so far (bounds the model)

env  == <<vmss, vm>>
pano == <<licensed, dg, ts, md>>
lists == <<pan, hosts, todo, sku>>
loop == <<delic, cur>>
locals == <<pc, lists, loop>>
vars == <<vmss, vm, licensed, dg, ts, md, db,
          pc, pan, hosts, todo, sku, delic, cur, crashes>>

InVmss(d) == vm[d] \in {"booting", "serving"}
Plan      == IF Byol THEN "byol" ELSE "bundle"
Hosts     == {HostOf[d] : d \in {e \in Device : InVmss(e)}}

Label == {"idle", "findVmss", "group", "show", "listVmss", "scan", "insert",
          "delic", "rmDg", "rmTs", "rmMd", "dbDelete"}

TypeOK ==
  /\ vmss \in {"up", "deleted"}
  /\ vm \in [Device -> {"new", "booting", "serving", "gone"}]
  /\ licensed \subseteq Device /\ dg \subseteq Device
  /\ ts \subseteq Device /\ md \subseteq Device
  /\ db \subseteq Device
  /\ pc \in [Run -> Label]
  /\ pan \in [Run -> SUBSET Device] /\ delic \in [Run -> SUBSET Device]
  /\ hosts \in [Run -> SUBSET Host] /\ todo \in [Run -> SUBSET Host]
  /\ sku \in [Run -> {"", "byol", "bundle"}]
  /\ cur \in [Run -> Device \cup {NoDevice}]
  /\ crashes \in 0..MaxCrash

Init ==
  /\ vmss = "up"
  /\ vm = [d \in Device |-> "new"]
  /\ licensed = {} /\ dg = {} /\ ts = {} /\ md = {} /\ db = {}
  /\ pc = [r \in Run |-> "idle"] /\ sku = [r \in Run |-> ""]
  /\ pan = [r \in Run |-> {}] /\ delic = [r \in Run |-> {}]
  /\ hosts = [r \in Run |-> {}] /\ todo = [r \in Run |-> {}]
  /\ cur = [r \in Run |-> NoDevice]
  /\ crashes = 0

-----------------------------------------------------------------------------
(* The world around the monitor (external).                                *)

(* The scale set grows: a VM boots; no other VM uses its host name.        *)
CreateVm(d) ==
  /\ vmss = "up" /\ vm[d] = "new" /\ HostOf[d] \notin Hosts
  /\ vm' = [vm EXCEPT ![d] = "booting"]
  /\ UNCHANGED <<vmss, pano, db, locals, crashes>>

(* The firewall has booted: it is licensed and Panorama puts it in the     *)
(* device group, the template stack and the managed devices.               *)
JoinPanorama(d) ==
  /\ vm[d] = "booting"
  /\ vm' = [vm EXCEPT ![d] = "serving"]
  /\ licensed' = IF Byol THEN licensed \cup {d} ELSE licensed
  /\ dg' = dg \cup {d} /\ ts' = ts \cup {d} /\ md' = md \cup {d}
  /\ UNCHANGED <<vmss, db, locals, crashes>>

(* The scale set shrinks, or a VM is re-imaged: the VM is gone and nobody  *)
(* tells Panorama.                                                         *)
DeleteVm(d) ==
  /\ InVmss(d)
  /\ ScaleToZero \/ \E e \in Device \ {d} : InVmss(e)
  /\ vm' = [vm EXCEPT ![d] = "gone"]
  /\ UNCHANGED <<vmss, pano, db, locals, crashes>>

DeleteScaleSet ==
  /\ ScaleToZero /\ vmss = "up"
  /\ vmss' = "deleted"
  /\ vm' = [d \in Device |-> IF InVmss(d) THEN "gone" ELSE vm[d]]
  /\ UNCHANGED <<pano, db, locals, crashes>>

-----------------------------------------------------------------------------
(* The steps of one run of main().  A run that ends, by a return or by an  *)
(* exception nobody catches, forgets its local state.                      *)

At(r, label) == pc[r] = label
Goto(r, label) == pc' = [pc EXCEPT ![r] = label]
End(r) == /\ Goto(r, "idle")
          /\ pan' = [pan EXCEPT ![r] = {}] /\ delic' = [delic EXCEPT ![r] = {}]
          /\ hosts' = [hosts EXCEPT ![r] = {}] /\ todo' = [todo EXCEPT ![r] = {}]
          /\ sku' = [sku EXCEPT ![r] = ""] /\ cur' = [cur EXCEPT ![r] = NoDevice]

(* cron: */5 * * * * monitor.py                                            *)
Start(r) ==
  /\ At(r, "idle")
  /\ Overlap \/ \A q \in Run : At(q, "idle")
  /\ Goto(r, "findVmss")
  /\ UNCHANGED <<env, pano, db, lists, loop, crashes>>

(* get_vmss_by_name: without a scale set the spoke is skipped.             *)
FindVmss(r) ==
  /\ At(r, "findVmss")
  /\ \/ vmss = "up" /\ Goto(r, "group") /\ UNCHANGED <<lists, loop>>
     \/ vmss = "deleted" /\ End(r)
  /\ UNCHANGED <<env, pano, db, crashes>>

(* get_devices_in_dg, first call: the names in the device group.           *)
ListGroup(r) ==
  /\ At(r, "group")
  /\ Goto(r, "show")
  /\ pan' = [pan EXCEPT ![r] = dg]
  /\ UNCHANGED <<env, pano, db, hosts, todo, sku, loop, crashes>>

(* get_devices_in_dg, second call: keep those that show devices all lists. *)
ShowDevices(r) ==
  /\ At(r, "show")
  /\ Goto(r, "listVmss")
  /\ pan' = [pan EXCEPT ![r] = @ \cap md]
  /\ UNCHANGED <<env, pano, db, hosts, todo, sku, loop, crashes>>

(* Either call may fail: the first makes main() skip the spoke, the second *)
(* either does so or raises, because the error text has no devices.        *)
ListFails(r) ==
  /\ pc[r] \in {"group", "show"} \cap Flaky
  /\ End(r)
  /\ UNCHANGED <<env, pano, db, crashes>>

(* The pager of get_vms_in_vmss is read when the loop starts, after the    *)
(* Panorama calls.  The plan name is set from the VMs of the list only.    *)
ListVmss(r) ==
  /\ At(r, "listVmss")
  /\ Goto(r, "scan")
  /\ hosts' = [hosts EXCEPT ![r] = Hosts]
  /\ todo' = [todo EXCEPT ![r] = Hosts]
  /\ sku' = [sku EXCEPT ![r] = IF Hosts = {} THEN "" ELSE Plan]
  /\ UNCHANGED <<env, pano, db, pan, loop, crashes>>

(* One VM of the list: skipped if Panorama does not list its host name or  *)
(* if its row exists.  An error of the query counts as a missing row.      *)
SkipVmKnown(r, h) ==
  /\ At(r, "scan") /\ h \in todo[r]
  /\ todo' = [todo EXCEPT ![r] = @ \ {h}]
  /\ UNCHANGED <<env, pano, db, pc, pan, hosts, sku, loop, crashes>>
SkipVm(r, h) ==
  /\ At(r, "scan") /\ h \in todo[r]
  /\ \/ \A d \in pan[r] : HostOf[d] # h
     \/ \E d \in db : HostOf[d] = h
  /\ todo' = [todo EXCEPT ![r] = @ \ {h}]
  /\ UNCHANGED <<env, pano, db, pc, pan, hosts, sku, loop, crashes>>

FoundNewVm(r, d) ==
  /\ At(r, "scan") /\ HostOf[d] \in todo[r] /\ d \in pan[r]
  /\ Goto(r, "insert")
  /\ todo' = [todo EXCEPT ![r] = @ \ {HostOf[d]}]
  /\ cur' = [cur EXCEPT ![r] = d]
  /\ UNCHANGED <<env, pano, db, pan, hosts, sku, delic, crashes>>

(* create_db_entity: insert_entity refuses a row that exists, and any      *)
(* error is caught; the insertion may also have been made before it.       *)
InsertEntityLate(r) ==
  /\ At(r, "insert")
  /\ Goto(r, "scan")
  /\ cur' = [cur EXCEPT ![r] = NoDevice]
  /\ db' = db \cup {cur'[r]}
  /\ UNCHANGED <<env, pano, lists, delic, crashes>>
InsertEntity(r) ==
  /\ At(r, "insert")
  /\ \A e \in db : HostOf[e] # HostOf[cur[r]]
  /\ db' = db \cup {cur[r]}
  /\ Goto(r, "scan")
  /\ cur' = [cur EXCEPT ![r] = NoDevice]
  /\ UNCHANGED <<env, pano, lists, delic, crashes>>

InsertFails(r) ==
  /\ At(r, "insert")
  /\ Goto(r, "scan")
  /\ cur' = [cur EXCEPT ![r] = NoDevice]
  /\ UNCHANGED <<env, pano, db, lists, delic, crashes>>

(* get_fw_vms_in_cosmos_db and vms_to_delic; with the plan "byol" the      *)
(* licences are also queried, only to log a difference.                    *)
VmsToDelicAll(r)      == db
VmsToDelicInverse(r)  == {d \in db : HostOf[d] \in hosts[r]}
VmsToDelicLicensed(r) == {d \in db : HostOf[d] \notin hosts[r] /\ d \in licensed}
VmsToDelic(r) == {d \in db : HostOf[d] \notin hosts[r]}

ListDb(r) ==
  /\ At(r, "scan") /\ todo[r] = {}
  /\ Goto(r, "delic")
  /\ delic' = [delic EXCEPT ![r] = VmsToDelic(r)]
  /\ UNCHANGED <<env, pano, db, lists, cur, crashes>>

(* The loop over vms_to_delic.  Without the plan "byol" the deactivation   *)
(* is skipped; when it fails the device is left for the next run.          *)
TakeDevice(r, d, label) ==
  /\ Goto(r, label)
  /\ delic' = [delic EXCEPT ![r] = @ \ {d}]
  /\ cur' = [cur EXCEPT ![r] = d]

SkipDeactivate(r, d) ==
  /\ At(r, "delic") /\ d \in delic[r] /\ sku[r] # "byol"
  /\ TakeDevice(r, d, "rmDg")
  /\ UNCHANGED <<env, pano, db, lists, crashes>>

Deactivate(r, d) ==
  /\ At(r, "delic") /\ d \in delic[r] /\ sku[r] = "byol"
  /\ licensed' = licensed \ {d}
  /\ TakeDevice(r, d, "rmDg")
  /\ UNCHANGED <<env, dg, ts, md, db, lists, crashes>>

(* Refused, or carried out but the answer was lost.                        *)
DeactivateFailsGoesOn(r, d) ==
  /\ At(r, "delic") /\ d \in delic[r] /\ sku[r] = "byol"
  /\ "deactivate" \in Flaky
  /\ licensed' \in {licensed, licensed \ {d}}
  /\ TakeDevice(r, d, "rmDg")
  /\ UNCHANGED <<env, dg, ts, md, db, lists, crashes>>
DeactivateFails(r, d) ==
  /\ At(r, "delic") /\ d \in delic[r] /\ sku[r] = "byol"
  /\ "deactivate" \in Flaky
  /\ licensed' \in {licensed, licensed \ {d}}
  /\ delic' = [delic EXCEPT ![r] = @ \ {d}]
  /\ UNCHANGED <<env, dg, ts, md, db, pc, lists, cur, crashes>>

(* cleanup_device, three calls whose failures are only logged.  Panorama   *)
(* drops a managed device only when nothing refers to it.                  *)
RemoveFromDg(r) ==
  /\ At(r, "rmDg")
  /\ \/ dg' = dg \ {cur[r]}
     \/ "rmDg" \in Flaky /\ dg' = dg
  /\ Goto(r, "rmTs")
  /\ UNCHANGED <<env, licensed, ts, md, db, lists, loop, crashes>>

RemoveFromTsOnly(r) ==
  /\ At(r, "rmTs")
  /\ \/ ts' = ts \ {cur[r]}
     \/ "rmTs" \in Flaky /\ ts' = ts
  /\ Goto(r, "dbDelete")
  /\ UNCHANGED <<env, licensed, dg, md, db, lists, loop, crashes>>
RemoveFromTs(r) ==
  /\ At(r, "rmTs")
  /\ \/ ts' = ts \ {cur[r]}
     \/ "rmTs" \in Flaky /\ ts' = ts
  /\ Goto(r, "rmMd")
  /\ UNCHANGED <<env, licensed, dg, md, db, lists, loop, crashes>>

RemoveFromMd(r) ==
  /\ At(r, "rmMd")
  /\ \/ cur[r] \notin dg \cup ts /\ md' = md \ {cur[r]}
     \/ cur[r] \in dg \cup ts /\ md' = md
     \/ "rmMd" \in Flaky /\ md' = md
  /\ Goto(r, "dbDelete")
  /\ UNCHANGED <<env, licensed, dg, ts, db, lists, loop, crashes>>

(* delete_vm_from_cosmos_db: by host name; a missing row raises, and       *)
(* nobody catches it.                                                      *)
DeleteEntity(r) ==
  LET row == {e \in db : HostOf[e] = HostOf[cur[r]]}
  IN  /\ At(r, "dbDelete")
      /\ db' = db \ row
      /\ \/ row = {} /\ End(r)
         \/ /\ row # {} /\ Goto(r, "delic")
            /\ cur' = [cur EXCEPT ![r] = NoDevice]
            /\ UNCHANGED <<lists, delic>>
      /\ UNCHANGED <<env, pano, crashes>>

Finish(r) ==
  /\ At(r, "delic") /\ delic[r] = {}
  /\ End(r)
  /\ UNCHANGED <<env, pano, db, crashes>>

(* The run is killed, or an Azure call raises: it ends where it is.        *)
Crash(r) ==
  /\ ~ At(r, "idle") /\ crashes < MaxCrash
  /\ crashes' = crashes + 1
  /\ End(r)
  /\ UNCHANGED <<env, pano, db>>

RunStep(r) ==
  \/ FindVmss(r) \/ ListGroup(r) \/ ShowDevices(r) \/ ListFails(r)
  \/ ListVmss(r) \/ InsertEntity(r) \/ InsertFails(r) \/ ListDb(r)
  \/ \E h \in Host : SkipVm(r, h)
  \/ \E d \in Device : \/ FoundNewVm(r, d) \/ SkipDeactivate(r, d)
                       \/ Deactivate(r, d) \/ DeactivateFails(r, d)
  \/ RemoveFromDg(r) \/ RemoveFromTs(r) \/ RemoveFromMd(r)
  \/ DeleteEntity(r) \/ Finish(r)

World == \/ \E d \in Device : CreateVm(d) \/ JoinPanorama(d) \/ DeleteVm(d)
         \/ DeleteScaleSet

Next == World \/ \E r \in Run : Start(r) \/ RunStep(r) \/ Crash(r)

Spec == Init /\ [][Next]_vars

(* cron keeps starting runs and a run keeps going; a Panorama or DB call   *)
(* that is tried again and again is answered in the end.                   *)
Fairness ==
  /\ \A r \in Run : /\ WF_vars(Start(r)) /\ WF_vars(RunStep(r))
                    /\ SF_vars(ListGroup(r)) /\ SF_vars(ShowDevices(r))
                    /\ \A d \in Device : SF_vars(Deactivate(r, d))
                    /\ \A d \in Device : SF_vars(cur[r] = d /\ InsertEntity(r))

FairSpec == Spec /\ Fairness

-----------------------------------------------------------------------------
(* PROPERTIES.                                                             *)

(* A firewall that runs and has joined Panorama keeps its licence and its  *)
(* place in Panorama: the monitor only ever takes away what is gone.       *)
ServingUntouched ==
  \A d \in Device : vm[d] = "serving" =>
    (Byol => d \in licensed) /\ d \in dg /\ d \in ts /\ d \in md

(* The row is what makes main() retry, so that it must not be dropped      *)
(* while the licence is held: that happens only in a run that saw no VM in *)
(* the scale set and so does not know the plan, never because a call       *)
(* failed or a run was killed.                                             *)
ReleasedUnlessEmpty ==
  [][\A d \in db \ db' : d \in licensed =>
       \E r \in Run : At(r, "dbDelete") /\ cur[r] = d /\ sku[r] = ""]_vars

(* With clean-up calls that do not fail, a firewall whose row is dropped   *)
(* has left Panorama, however many runs were killed before: the row is     *)
(* dropped last.                                                           *)
ForgottenLeftPanorama == [][\A d \in db \ db' : d \notin dg \cup ts \cup md]_vars

(* A firewall that stays up is recorded, so that its licence can be given  *)
(* back; and one that is recorded and gone is delicensed and forgotten.    *)
ServingRecorded == \A d \in Device : vm[d] = "serving" ~> (d \in db \/ vm[d] = "gone")
GoneReclaimed == \A d \in Device :
  (vm[d] = "gone" /\ d \in db) ~> (d \notin db /\ d \notin licensed)

(* What the comment on vms_to_delic says of them: "They are gone".         *)
DelicensedAreGone ==
  \A r \in Run : \A d \in delic[r] : vm[d] = "gone"

Ledger == INSTANCE LicenseLedger WITH phase <- vm, ledger <- db
LedgerSpec == Ledger!Spec
=============================================================================
