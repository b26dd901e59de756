# pan-fca in TLA+

pan-fca deploys Palo Alto Networks firewalls into a cloud and configures them:
playbooks run Terraform, wait for the firewalls, and call Ansible scripts
(`library/*.py`) that edit a firewall's candidate configuration over its API; in
the Azure design a cron job watches a scale set of firewalls and gives the
licences of deleted ones back. This directory specifies the parts in which order,
failure and repetition decide what a firewall ends up with. Paths are relative to
the repository.

Model-check a module with `tlc -config MonitorSafe.cfg MCMonitor`, check proofs
with `tlapm MonitorProofs.tla`.

## 1. The system

| Part | State | Operations | Talks to | Hard behaviour | Correct if |
|---|---|---|---|---|---|
| Licence monitor `modules/azure/worker_node/monitor.py` | rows of a table (one per firewall), local lists of one run | one pass of `main()`: list devices, list VMs, insert new rows, delicense and clean up the ones gone | Panorama (API), Azure scale set, Cosmos table; started by cron every 5 minutes | three sources read one after another while VMs come and go; calls that fail or whose reply is lost; a run killed in between; a run started before the last one ended; host names used again; an empty scale set | a running firewall keeps licence and place; a licence is given back before its row is dropped; what is gone is reclaimed in the end |
| Interface scripts `library/panos_interface.py`, `panos_tunnel_int.py`, `panos_tun_interface.py` | candidate configuration: interfaces, zones and virtual routers with member lists | present, absent; add, update, delete | firewall; role `pa_network`, which ignores errors and runs them twice | whole member lists written from an old reading, one call at a time; failures half-way | an interface is in one zone and one router; no group has a member that is gone; other interfaces stay |
| Object scripts: `panos_bgp*.py`, `panos_static_route*.py`, `panos_redist_prof.py`, `panos_ike_*.py`, `panos_ipsec_profile.py`, `panos_ipsec_tunnel.py`, `panos_management_profile.py`, `panos_create_zones.py`, `panos_virtual_router.py`, `panos_commit.py` | candidate and running configuration, a tree of objects | present, absent, commit | firewall; roles of the push playbook | objects inside objects, replaced or merged; order of tasks; lost replies; other users' commits and reverts, between the steps of a task too; a commit that is not waited for; plays run until they succeed | success means the object is as asked for; nothing else is touched; what was changed is committed; a second run changes nothing |
| Rule scripts `panos_nat_rule.py`, `panos_security_rule.py` | an ordered rulebase | present, absent; add, update, find, delete, disable; move; check mode | firewall | write and move are two calls; the rulebase is edited by others in between | success means the rule is as asked for and in its place |
| `library/panos.py` (ConnectionHelper) | object trees of pandevice | connect; apply_state, apply_position, commit, which nothing calls | firewall or Panorama | a connection tried again until a deadline | as below; used by `panos_check.py` only |
| `panos_check.py`, `panos_admpwd.py`, `panos_init.go`, `tests/panos/commit.go` | deadlines; a booting firewall and its jobs; an ssh session | connect and poll, a conversation line by line, commit | firewall, API and ssh | a deadline against a late answer; a reboot in between; a line carried out after the script gave up; a commit refused during the auto-commit; another user's revert | ends in time and for a reason; ready only if ready; success only if the password is in force |
| `my_magic_filter`, `collate_filter`, role `pa_ipsec`, `panos_ipsec_config.py` | gateways, tunnel interfaces and tunnels, numbered; Terraform's state as it was read | number the links, three loops of calls; present, absent | Terraform's state file, firewall | links renumbered when a spoke comes or goes; an item that fails after others were committed; lists of unequal length are cut (239); a name used unbound (275); two VPNs on one gateway (243) | a play that ends well joins every link; a link that stays is not disturbed; failures are repaired |
| `library/load_partial.py` | a window, worker threads | connect, choose, load objects, rules and reports, import | firewall | a thread replaced while it runs; flags set before the answer (1154); signals connected after the start; a file read from one device and loaded on the next (1307, 811) | the window shows what the firewall has |
| `library/json_schema.py`, `mark2lib.py` | none | one pass over a file | playbooks | data of odd shapes | equal to their definition |
| `configuration_push.yml`, `destroy.yml`, `roles/pa_*` | facts of a play | order of the roles, one commit at the end (240) | all scripts | roles whose errors are ignored, then a commit | nothing half-made is committed |
| `roles/env_setup`, `terraform`, `var_management`, `merge_var_dir` | Terraform state files, their backups | back up, apply, merge variables | Terraform | a state file lost between two steps | a deployed state is never forgotten |
| Terraform modules, templates, `iron-skillet`, `schema_files`, `bootstrap`, `group_vars` | - | declarations and data | - | none of this program's | - |

The parts meet in the firewall: the scripts share its candidate configuration,
each reads it at its start and writes it later, and one commit, of a task with
`commit` or of `panos_commit` at the end of the play, takes the whole candidate,
whoever edited it.

## 2. Modules

| Module | What it is |
|---|---|
| `LicenseLedger` | What the monitor promises: Record, Release, Forget. |
| `Monitor` | `main()` of monitor.py, one action per call; Panorama, scale set and table around it. |
| `Placement` | What the interface scripts promise: an interface moves out of a group or into one. |
| `InterfaceTask` | The three interface scripts, one action per API call. |
| `ConfigTask` | The twenty object scripts: what each reads and decides (`BgpCalls`, `PeerCalls`, ...), its calls, and the commit. |
| `RuleTask` | The two rule scripts: decide, write, move, commit. |
| `PartialLoad` | The window of load_partial.py, its user and its threads. |
| `BootTask` | A booting firewall, the loops that wait for it and the two scripts that set its password, with time. |
| `SpokeVpn` | Terraform's links, the filters, the role that configures them, panos_ipsec_config and the commit of the play. |
| `MCMonitor`, `MCInterfaceTask`, `MCConfigTask`, `MCRuleTask`, `MCPartialLoad`, `MCBootTask`, `MCSpokeVpn` | Instances for TLC. |
| `MonitorProofs`, `LedgerProofs`, `InterfaceProofs`, `ConfigProofs`, `RuleProofs`, `PartialLoadProofs`, `BootProofs`, `SpokeVpnProofs` | Theorems and proofs. |

**Monitor.** `pc[r]` is where run `r` of `main()` is; `pan`, `hosts`, `todo`,
`sku`, `delic`, `cur` are its local variables. `licensed`, `dg`, `ts`, `md` are
Panorama's licences, device group, template stack and managed devices; `db` the
rows; `vm` the life of each VM. Each API call is a step (`ListGroup`,
`ShowDevices`, `ListVmss`, `InsertEntity`, `ListDb`, `Deactivate`, `RemoveFromDg`,
...). The pager of Azure's VM list is read when the loop starts, after the Panorama
calls: `ListVmss` is where it happens in time, not where it is written. `Crash` kills a run
at any step, or is an Azure call that raises. A VM joins Panorama by itself
(`JoinPanorama`, external).

**InterfaceTask.** Zones and routers are both groups (`mem`). A task reads
(`ReadInterfaces`, `ReadZones`, `ReadRouters`; `snap` is what it saw), writes the
interface (`Configure`), visits the groups it read (`LeaveGroup`, `PassGroup`,
`EmptyZoneRaises`) and joins its own (`JoinZone`, `CreateZone`, `JoinRouter`). A write
may fail with or without effect.

**ConfigTask.** A configuration gives each object a set of settings, empty for an
object that does not exist; `Above` says what is inside what. `CallsOf(t)` is what the script of
task `t` decides when it has read: a sequence of `apply` (replaces the object with
all inside it), `create` (merges), `delete`, or `raise`. `Call`, `CallFails`,
`CallLost` make them; `CommitAll`, `CommitRejected`, `CommitLost`,
`CommitNotNeeded` end the task. `play` is the set of tasks that are run again and
again in any order. Others commit (`CommitByOthers`) and revert (`Revert`) between any two
steps. `panos_management_profile` does two things no other script does: it writes back what
it has read inside the profile (`found`, kept while the call that uses it is to come), and
it does not wait for its commit (`Waits`, `Publish`), which the firewall makes at any later
time (`queued`, `CommitQueued`). `alone`, `touched` and `settled` serve properties:
has nobody else changed the candidate since the task has read, has it edited, and which task
ended well with no edit since.

**RuleTask.** `above` is the order of the rules, `book` their settings. A task
decides at `Start` (`FirstStep`), then `WriteRule` or `DeleteRule`, `MoveRule`, commit.
`Put` says what a write or a move does to the order. `alone` and `settled` only
serve properties.

**PartialLoad.** The window handles one event at a time, so that each slot of the
program is one action: what the user does (`Connect`, `SelectFile`, `SelectFrom`,
`SelectTo`, `LoadObjects`, `LoadRulebase`, `OpenSkillet`, `CloseSkillet`, `Import`) and
what it does with an answer (`SetConnectValues`, `FillToComboBoxes`, `LoadSavedConfigs`,
`ConnectValues`, `ConnectRuleValues`, `PrintIronSkillet`). `job[s]` is a thread: what its
request said when it was made, and its answer, which the thread's own action sets
(`ConnectThread`, `APIRequest`, ...) and the window takes at any later time. `conn` is
`_ip`, `_api` and `_url`; `saved` the files of each device, by name, with a text of their
own (`Text`, `Has`); `combo_*` the boxes; `flags` the `_flag_*`; `color` the buttons.
`Abort` is an exception in a slot or a thread, which ends a PyQt program, and `Destroyed`
a thread that is replaced while it runs. `Import` puts a file of the user's (`Local`) on the
device, over one of that name, and may have done so before an error or the end of the program.
`steady`, `sent`, `done` and `told` serve properties only:
has the user waited for every answer before each act since connecting,
what was asked for, and merged, with the device, file and groups that are chosen now, and
which errors the window has shown him that still count: an import that failed, until he chooses
the file again, and a running configuration that could not be read, until he connects again.

**BootTask.** `pc` is where the play is: it waits with `panos_check` (`BeginCheck`,
`Connect`, `Poll`, `PollAgain`, ...; connecting is the loop of `panos.py`), with
`wait_for` (`PortOpen`, `PortTimeout`) or not at all, then dials and goes through the
lines of its script (`NextLine`). `left` counts down to the deadline that the script
watches, `due` to the return of its call; `Tick` is the passing of time, and what the
script can do without waiting comes first (`Urgent`). The firewall boots, posts and
finishes jobs, goes down, and answers a line (`Serve`) or carries it out after the script
is gone (`ServeOrphan`). `cand` and `running` are the password in the two configurations,
`dirty` whether they differ in anything. `known`, `calm` and `reverted` serve properties.

**SpokeVpn.** `tf` is the list of modules in Terraform's state, `facts` what
`my_magic_filter` made of it when the play read it (`ReadState`). `Collate` gives the
items of a loop, `todo`; `Call`, `CallFails`, `CallLost` and `CommitRejected` are what can
come of one, and `bad` says that an item failed, which ends the play after its loop
(`LoopFailed`). Gateways and tunnels are lists, because `panos_ipsec_config` goes through
both side by side (`FoundGateway`, `FoundTunnel`). `wanted` is the links of this firewall
computed without the filters; it, `reverted` (the candidate was reverted under what runs) and
`torn` (the task began with one of its two objects without the other) serve properties. Tasks may
share a gateway.

### Simplifications

One firewall and, in InterfaceTask, one vsys; no Panorama behind the scripts; one
virtual router in ConfigTask; settings are compared as a set or one value.
pandevice and PAN-OS are modelled from how the scripts use them (external entries).
A firewall's configuration is whatever it accepts: every zone of another mode,
every tree of objects. In RuleTask `create` that meets a rule added in the meantime may
leave any settings. In PartialLoad devices and files are of one kind, so that there is one
box of groups on either side and none for rulebases; the files of a device change by imports
from this window only; message boxes are closed before
anything else happens; the report Iron Skillet collects is left out, and with it the
dictionary that one thread emits again and again (`load_partial.py:82`, `:116`).
In BootTask there is one play, a call takes whole ticks, and the reply to a line
comes whole. In SpokeVpn an item of a loop is one step, its calls being those of ConfigTask
and InterfaceTask.

## 3. Runs

Every run ends within minutes and explores its whole state space. Each property of a
passing run also has a mutant of the code (`PROJECT.json`) that violates it.

| Run | Bounds | What it shows |
|---|---|---|
| `monitor_safe` | 3 devices, 2 host names (one used again), any call may fail, 1 kill, scale set may be emptied or deleted; one run at a time | `ServingUntouched`: a running firewall loses neither licence nor place. `DelicensedAreGone`. `ReleasedUnlessEmpty`: a row is dropped with its licence held only by a run that saw an empty scale set. |
| `monitor_live` | 2 devices with names of their own, reading and deactivation may fail, 1 kill, the scale set keeps a VM | `ServingRecorded`, `GoneReclaimed`, `ForgottenLeftPanorama`, and Monitor implements `LicenseLedger` with its fairness. |
| `monitor_overlap` | 1 device, 2 runs at a time | violates `DelicensedAreGone` (section 5). |
| `interface_safe` | 2 interfaces, 2 zones, 1 router, 2 modes, 4 tasks of all scripts, reads, writes and commits fail, every starting configuration; one task at a time | `Consistent`: `OneHome` and `MembersExist`; `OthersUntouched`, `OkMeansPlaced`, and InterfaceTask implements `Placement`. |
| `interface_live` | 1 interface, 2 zones, 1 router, 2 modes | `Converges`: a task that is run again places its interface, unless obstructed. |
| `config_plays` | 9 plays of 2 to 7 tasks that hold every script and state; each tree of their objects with equal, other and additional settings; reads, writes, replies and commits fail; commits and reverts by others between any two steps (94 834 states) | `OnlyOwn`, `OkMeansAsked`, `RunAgain`, `CommitIfChanged`. |
| `config_live` | router, BGP, group and peer in any order; reads and writes fail | `Converges`: the play comes to rest with everything as asked. `OkMeansRunning`: what a task with commit reports is running, with no lost reply and no failed commit. |
| `rule_plays` | both rulebases, 3 rules, 7 tasks, one in check mode, one with wrong arguments; every kind of failure; others add, delete, edit, commit | `OkMeansAsked`, `OkMeansMoved`. |
| `partial_load` | 2 devices, of which one has two groups and one file, the other one group and two files; a file name that is on both, with two groups on the one and one on the other, and a file without groups; an import over the first; 1 kind of object, 1 of rule; 2 threads at a time (1 646 204 states) | for a user who waits for the answers, `FromOfFile`, `SelectionExists`, `GreenMeansLoaded`, `NoFalseAssurance`. |
| `boot` | 6 plays: both gates, both scripts, check mode, a user who is not admin, a task run again once; 2 jobs, 1 reboot, calls of 1 or 2 ticks, an interval of 3, deadlines of 0 and 4, prompts of 1 and 2; commits, reverts and edits by others | `InTime`, `GivesUpLate`, `ReadyMeansDone`: waiting ends in time, not too early, and for a reason. `OkMeansSet`: success means that the password is in force. `PlayEndsAtLast`. |
| `boot_init` | as `boot` | violates `SuccessMeansCommitted` (section 5). |
| `vpn` | 2 spokes with a link each, the first of which renumbers the other's, one of another firewall, one without a VPN; one more VPN by `panos_ipsec_config`, present and absent, and one that is to share its gateway; Terraform at any time; 2 failures, commits or reverts (999 375 states) | `OkMeansJoined`, `WorkingStays`, `OkMeansBoth`, and `Heals`: the next plays join every link. |

Why the bounds are enough: the interesting cases need two VMs for one host name and
one that stays (3 devices); two groups of a kind to be in both (2 zones); a rule above
and one below the one that moves (3 rules); an object with one that contains
it and one inside it, and settings that are missing, different or additional
(`MCValues`); a group and a file that one device has and the other has not, and a file
of one name that differs between them, so that one read from the wrong device, or before an
import, offers a group too many or too few. Two threads are what a connection starts, and enough for an answer to meet another's request. Repetition is not bounded: runs and tasks start again for ever. The only counters
are `MaxCrash`, in BootTask `Reboots` and `Retries` (the latter is the code's), and in
SpokeVpn `Trouble`, which bounds what goes wrong, not how often plays run: two are enough
for a second failure to meet what the first left behind. In BootTask the times are small
but differ, so that a deadline may pass in a call, in a sleep, or between them. In SpokeVpn
the spoke that comes later is the first in the state, so that its link takes the number of
another; two tasks on one gateway are enough for one to find what the other left.

**Fairness.** cron starts a run again and again (`WF` of `Start`), a run goes on
(`WF` of its steps), and a call that is tried again and again is answered in the end
(`SF`): without it, no retry of the code could succeed. For the scripts: a role is
run until it succeeds (`SF` of `Start`), the process goes on (`WF`), each kind of call is
answered in the end (`SF`). Nothing is assumed of the world: VMs need not be
created or deleted, administrators need not act. `monitor_live` leaves out the
failure of the clean-up calls: the code does not try them again, so that
`ForgottenLeftPanorama` is false with them.

For BootTask: time passes (`WF` of `Tick`) and the script takes the steps it can; nothing
is assumed of the firewall, which may stay down or never finish a job. For SpokeVpn: a play
or a task that has begun goes on, and the play is run again (`SF` of `ReadState`, as tasks
may come before it). `Heals` asks that Terraform be quiet in the end.

PartialLoad has no liveness: the user may stop at any time.

Deadlock is checked in every run but those of BootTask, whose play ends: cron and the
roles can always start again, and the user can quit.

## 4. Proofs

Every theorem is for all values of the constants, under the named assumptions of
the module: types of the constants; in ConfigTask that the objects form a tree,
in which a BGP object or a route is inside its router and a peer inside its group; in
SpokeVpn that both addresses of a link have the same place in Terraform's lists
(`modules/aws/vpn/outputs.tf:11-18`), that tunnel interfaces are numbered from the same number in both
variables (`group_vars/all/all.yml.aws.example:303`, `:310`), that names are not those of another kind of thing
(`None` is no task, a task's tunnel and gateway have no number of the role's), and that the
configurations to start from are such as plays and tasks leave of an empty firewall
(`StartsAssumption`: each entry once, a tunnel with the numbers the role gives it). TLC evaluates these on the instances.

| Theorem | States | Argument |
|---|---|---|
| `MonitorProofs!TypeCorrect` | `[]TypeOK`, overlapping runs included | `TypeOK` is not inductive: `InsertEntity` writes `cur[r]`, so `Holding` says there is one when it is next. |
| `MonitorProofs!Safe`, `Rightful` | `ServingUntouched`, `DelicensedAreGone` if runs do not overlap | What a run has read is compared with the world: its VM list contains every VM whose device it may have inserted; what it takes for gone was gone when it looked, and gone VMs do not return. |
| `LedgerProofs!Remembered` | `ReleasedUnlessEmpty` if runs do not overlap | `LedgerInv` strengthens the invariant of `Safe`: rows have different host names and the row of the device at hand is still there, so that a deletion takes that row only (`DeletesOne`); a device that a run with a plan cleans up after has no licence, as it is gone and cannot get one again (`Released`). |
| `LedgerProofs!Forgotten` | `ForgottenLeftPanorama` if, besides, clean-up calls do not fail | `Cleared`: what the run has gone through holds its device no more. |
| `LedgerProofs!ImplementsLedger` | `Ledger!Safety` if, besides, the scale set is never emptied | each step is one of LicenseLedger's or a stutter. A run without a plan would forget without releasing: `NeverEmpty` and `SkuKnown` say that it meets no row. |
| `InterfaceProofs!TypeCorrect` | `[]TypeOK` | - |
| `InterfaceProofs!Placing` | `Consistent` (`OneHome` and `MembersExist`) without overlap | Where the task is says what it has left: groups it has visited do not hold its interface, `snap` of those it has not is what they are, and before it deletes or joins it is in no other. |
| `InterfaceProofs!Untouched` | `OthersUntouched` without overlap | same invariant: `snap` is still true of the groups it writes. |
| `InterfaceProofs!UntouchedApart` | `OthersUntouched` for tasks at the same time whose interfaces have no group in common | what a task remembers of a group, old as it may be, is of its own interface (`WithinInv`). |
| `InterfaceProofs!Truthful` | `OkMeansPlaced` | same invariant at the last step. |
| `InterfaceProofs!Implements` | `PlacementSpec` | each step maps to one of Placement's or to a stutter; needs `OneHome`, so that a home is unique. |
| `ConfigProofs!TypeCorrect` | `[]TypeOK`: the configurations stay trees | each call keeps a tree. |
| `ConfigProofs!Confined` | `OnlyOwn`: of every script, whoever reverts meanwhile, but of `panos_management_profile` only if it was alone | `Promise`: the calls a task has left fit its script and state. What `panos_management_profile` writes back is what is there while it is alone (`found`). |
| `ConfigProofs!Truthful` | `OkMeansAsked`: of a task that was alone from its reading to its end | `Promise`: while the task is alone, with no call left the object is as asked for, and each remaining call makes it so. A revert that changes the candidate ends the promise. |
| `ConfigProofs!Committed` | `CommitIfChanged` | `Counted`: a script that is about to call, or has edited, has counted a change. |
| `ConfigProofs!Published` | `OkMeansRunning`, of a task that waits for its commit (not `panos_management_profile`) and was alone, if no reply is lost, no commit fails, tasks that do not commit or do not wait edit nothing that one that does asks for (`Apart`), and `panos_bgp` deletes nothing with commit (`DeletesUncounted`, `panos_bgp.py:317`) | `RunsInv`: both configurations are alike where tasks with commit look (`AllAlike`), or the one that runs has counted a change and made its last call, so that it commits. A script makes one call at most (`CallsFew`), so a call that fails leaves nothing behind - but for `panos_ipsec_tunnel`, whose two calls write a tunnel that both configurations have; and it never ends without a commit. |
| `ConfigProofs!Idempotent` | `[]RunAgain` | `Decided`: what is left to call is what the script would decide now. So after its one call (`CallsCalm`) it would decide nothing (`Rests`), and that stays true while nobody edits (`AtRest`). |
| `RuleProofs!TypeCorrect` | `[]TypeOK`: the rules stay in a strict total order | a write, a move and a deletion keep the order (`PutOrdered`, `EraseOrdered`). |
| `RuleProofs!Truthful` | `OkMeansAsked` | `Promise` of the next call, while nobody else edits. |
| `RuleProofs!Placing` | `OkMeansMoved` | the same; `MovedInPlace` says what a move does to the order. |
| `PartialLoadProofs!TypeCorrect` | `[]TypeOK` for every user | `Window` adds what a box looks like (a text is one of its items, and there is one if there are items): a late answer adds items but leaves the text. |
| `PartialLoadProofs!Sourced` | `FromOfFile`: which file the box shows, for every user; that its groups are those the connected device has it with, for one who waits | `Filed`, and of `Promises` `AsRead`: unless the list of files is being fetched or an import failed since the file was chosen, what is on offer is the file as the connected device has it. So a connection must empty the box, and a stored import must fetch the list, which puts the prompt in place of the file. |
| `PartialLoadProofs!Existing` | `SelectionExists` for one who waits, the connected device unless he was told | `Promises`: while `steady`, every thread's device is the connected one, nothing else runs while a connection is made, and the targets are those of the device read last (`Sound`). |
| `PartialLoadProofs!Truthful`, `Assured` | `GreenMeansLoaded`, `NoFalseAssurance` | the same: a load under way asks for what is chosen and was the last click, so that its answer colours its own button. |
| `BootProofs!TypeCorrect` | `[]TypeOK` | a session needs a firewall that is up. |
| `BootProofs!OnTime` | `InTime` | the deadline goes down with the time a call or a sleep has left: `left` is never below what `due` has still to come, less `Longest`. |
| `BootProofs!Patience` | `GivesUpLate` | while a call is under way, `calm` and `due` together are no more than `Latency`, or the answer was quiet. |
| `BootProofs!Readiness` | `ReadyMeansDone` | a job that was in a quiet answer is finished, and only a reboot makes it begin again. |
| `BootProofs!PasswordInForce` | `OkMeansSet` | along the lines of the conversation: after `second` the candidate has the password or was reverted, and a commit that succeeded has put it in force; a late line of an earlier try can only do the same. |
| `SpokeVpnProofs!TypeCorrect` | `[]TypeOK` | each entry stays once in its list, as a call replaces an entry or appends it (`PutEntry`). |
| `SpokeVpnProofs!PlayJoins` | `OkMeansJoined` | along the loops: what the filter found is the links, in order (`FactsFit`, by `Filters`); what is left of a loop are its last items (`Remaining`); and of the loops before it and the items it has done, every entry is in the configuration, until an item fails or another user reverts (`Made`). A commit of anybody takes the whole candidate. |
| `SpokeVpnProofs!PlayDisturbsNothing` | `WorkingStays` | an item with the number of a link in place is for that link: it replaces an entry by itself (`ItemKeepsPlace`). Needs that tunnels have the role's numbers (`Numbered`), which tasks do not change. |
| `SpokeVpnProofs!TaskLeavesBoth` | `OkMeansBoth` | `TaskInv`: a task that begins with both of its objects or none (`~ torn`) and is not reverted: how many of its calls it has left says which it has (`Progress`). Nothing is assumed of other tasks, which may have its gateway: it is the only one that runs, and commits leave the candidate. |

The filters go through lists of any length. What `my_magic_filter` makes of the first `n`
modules, and what a loop has done after `n` items, is proved by induction, stated for a set
of numbers (`Induction`, from the library's well-foundedness of the naturals), because a theorem
over operators cannot be used.

Only model-checked: liveness and everything under fairness (`ServingRecorded`,
`GoneReclaimed`, both `Converges`, `Heals`, `PlayEndsAtLast`, the fairness part of `LedgerSpec`),
which is out of the prover's reach. Every other property of a passing run is a theorem.

All theorems about InterfaceTask but `TypeCorrect` and `UntouchedApart` need `~ Overlap`. Tasks at
the same time, as two plays on one firewall would run them, may lose each other's members when
their interfaces share a group (`panos_interface.py:208`), and nothing in the code prevents it. The
hypotheses of `Published` hold in `config_live`; without the last one, with `panos_bgp` in both states,
TLC finds a task that reports the deletion of what still runs.

## 5. Where the code does something else

With a run that shows it:

1. `monitor.py:559`: overlapping runs delicense a running firewall
   (`monitor_overlap`); line 557 says "They are gone".
2. `panos_init.go:199`: whether the commit succeeded is found out and not used; a commit
   refused during the auto-commit is reported as success (`boot_init`), which line 220
   prints.

Modelled as the code has it, and excepted by name in a property that holds otherwise:

- `monitor.py:484`: the plan is known from the listed VMs only. An empty scale set
  drops rows with their licences held; line 556 calls them the ones that "need to be
  delicensed" (`ReleasedUnlessEmpty`).
- `panos_interface.py:196`: a zone without members makes the task raise before it
  creates its own; line 124 says the zone "is created" (`Obstructed` in `Converges`).
- `panos_nat_rule.py:446`: a NAT rule whose move failed is reported as done, in the
  wrong place, when the task is run again; line 152 promises the place (`OkMeansMoved`).
- `panos_ipsec_config.py:238`: one of gateway and tunnel is enough for "found": after the
  tunnel could not be created the task run again reports success without it, as does the
  first task of a VPN that is to use the gateway of another one (`:243-246`), and with the
  state absent it raises (`:275`), as it also does when the tunnel is listed after its gateway or
  beyond the shorter list (`:239`). Line 23 promises both (`torn` in `OkMeansBoth`, `Raise`).
- `panos_init.go:48` waits without a deadline (`PlayEndsAtLast`).
- `panos_check.py:131`: no jobs at all count as ready, also before the firewall has posted
  its auto-commit (`ReadyMeansDone` speaks of the jobs in the answer).
- `panos_admpwd.py:105` fails on a time limit while the firewall may still commit
  (`ServeOrphan`): the password is changed although the task failed.
- `pa_ipsec` configures by number and deletes nothing: a removed spoke leaves a second
  gateway for a link that was renumbered. Its gateways and interfaces are committed one by
  one (`panos_ike_gateway.py:229`, `panos_tunnel_int.py:261`), before their tunnels are.
- A revert by another user between a task's reading (`panos_bgp_peer.py:357`) and its end takes
  away what it found or made, and the task ends well all the same (`alone` in `OkMeansAsked`, `OkMeansRunning`
  and `settled`; `RuleTask`, `BootTask` and `SpokeVpn` have the like).
- `panos_management_profile.py:255` does not wait for its commit, nor learn whether it was
  rejected (`Waits` in `OkMeansRunning`); `:229-231` writes back the children it read, whatever
  happened to them since (`OnlyOwn`).
- `load_partial.py:1307`, `:811`: a file chosen while a connection is made is read from the old device
  and loaded from the one of that name on the new device; `:853-857` an import may replace the
  chosen file although its reply was lost (`steady`, `told` in `FromOfFile`).
- `load_partial.py:1402-1423`: when the running configuration cannot be read, the targets of the
  device read before go on offer, also to a user who waited (`told` in `SelectionExists`).

In the scripts, besides:

- `panos_interface.py:484` passes `exceptions` to `commit()` and always raises;
  `panos_commit.py:105` asks for an exception, so that the play fails at its end when there is
  nothing to commit (`CommitTheChanges` in SpokeVpn);
  `panos_tunnel_int.py:441`, the VPN, NAT and security scripts do not ask for an exception: a
  rejected commit is reported as success (`Reports` in ConfigTask, `CommitRejected`).
- `panos_bgp.py:317`: with state absent `changed` has the meaning of state present,
  so a deletion may be neither reported nor committed (`Reports`).
- `panos_bgp_aggregate.py:333` and `panos_bgp_conditional_advertisement.py` compare
  with what is inside the object, `panos_bgp_peer_group.py:249` merges what it then finds
  different, `panos_ipsec_tunnel.py:198` writes whatever it finds: they are never at
  rest (`Restless`). So is a rule moved before or after another one
  (`panos_security_rule.py:548`).
- `panos_redist_prof.py:173`, `panos_create_zones.py`, `panos_virtual_router.py` and
  `panos_static_route_fca.py:201` look for a name only (`NameOnly`).
- `panos_nat_rule.py:300`: `state` has a default, so that operations are never
  reached (the example at 183 disables a rule; the code writes it). `:544-546`: an update
  without a location moves the rule to the bottom. `:519` and
  `panos_security_rule.py:609`: the operation update always raises.
- `panos_security_rule.py:407`: a task without state fails if the rule exists (207 gives
  the default present);
  `:629` commits in check mode; `:503-508` has the branches for a device group
  exchanged (Panorama, not modelled).
- `load_partial.py:1215` colours the button of the last click; `:1154` sets the flag before
  the answer; `:1087` parses an answer without asking whether there was one (`ConnectRuleValues`);
  `:819`, `:1195` replace threads that may still run; `:784` keeps the file list of the old device.
  The properties therefore speak of a user who waits (`steady`).
- `panos.py:301`: `apply_state` removes children from a list while it goes through it; no script
  calls it, not modelled.

## 6. Not modelled

See `PROJECT.json`, "components". Panorama behind the scripts, several vsys and
several virtual routers would multiply the states without a new kind of step.
Terraform's declarations and the data files have no control flow. In the monitor,
functions that `main()` never calls are left out.

## 7. Plan

In order of importance; the first seven are done, with their proofs.

1. `LicenseLedger`, `Monitor`: properties, refinement, proofs.
2. `Placement`, `InterfaceTask`: the same.
3. `ConfigTask`: all object scripts, proofs.
4. `RuleTask`: rulebases, proofs.
5. `PartialLoad`: the window and its threads, proofs.
6. `BootTask`: waiting and the first password, proofs.
7. `SpokeVpn`: filters, role and commit, proofs.
8. `Deploy`: Terraform's state files, their backup and the workspaces of `roles/env_setup` and
   `roles/terraform`.

Theorems planned: `OkMeansPlaced` for tasks at the same time whose interfaces share no group;
the initial states and steps of `Deploy`. Runs of one module are merged when a new one needs room, and what a run showed
of a case in which the code does something else is then said by the exception in a property
(section 5).
