------------------------------ MODULE SpokeVpn ------------------------------
(***************************************************************************)
(* The VPNs of a firewall to the spokes of an AWS transit VPC.             *)
(*                                                                         *)
(* Terraform creates the links of a spoke: each is a public address to     *)
(* reach and the addresses inside the tunnel.  configuration_push.yml      *)
(* reads Terraform's state, my_magic_filter collects the links of each     *)
(* firewall and collate_filter numbers them; the role pa_ipsec then makes  *)
(* an IKE gateway, a tunnel interface and an IPSec tunnel of each, in a    *)
(* loop over all links for each of the three, and the play commits.        *)
(* panos_ipsec_config makes or removes one gateway and its tunnel.         *)
(*                                                                         *)
(* Simplified: one item of a loop is one step (its calls are those of      *)
(* ConfigTask and InterfaceTask), and so are the two reads of a task; one  *)
(* firewall runs the play; crypto profiles are there, the zones and        *)
(* routers of the interfaces are InterfaceTask's.                          *)
(***************************************************************************)
EXTENDS Integers, SequencesExt

CONSTANTS Link,          \* an address stands for the link it belongs to
          None,
          Firewall,      \* the ids in Terraform's state
          This,          \*   and the one whose address the play configures
          Deployment,    \* what Terraform may have created: lists of modules
          BeginTunnel,   \* begin_tunnel_number of cm_panos_spoke_tunnel1
          BeginIpsec,    \*   and of cm_panos_ipsec_tunnel1
          Starts,        \* configurations of the firewall to begin with
          Task,          \* tasks that call panos_ipsec_config: for each
          State,
          Name, Gateway, \* the names of the tunnel and of its gateway, which
                         \*   other tasks may share: not those that the
                         \*   filters make, which are in Nat
          Peer, Number,  \* the other end, and the interface of the tunnel
          Flaky,         \* calls that may fail
          Admin,         \* what is done beside the plays
          Trouble        \* bound: how often a call fails or an admin acts

Modules == [spoke : BOOLEAN, id : Firewall, public : Seq(Link), inside : Seq(Link)]

ASSUME SpokeVpnAssumption ==
  /\ None \notin Task /\ This \in Firewall
  /\ Deployment \subseteq Seq(Modules)
  (* outputs.tf lists both addresses of a link at the same place.          *)
  /\ \A modules \in Deployment : \A i \in DOMAIN modules :
       modules[i].public = modules[i].inside
  /\ BeginTunnel \in Nat /\ BeginIpsec = BeginTunnel
  /\ State \in [Task -> {"present", "absent"}]
  /\ Name \in [Task -> Int \ Nat] /\ Gateway \in [Task -> Int \ Nat]
  /\ Peer \in [Task -> Link] /\ Number \in [Task -> Nat]
  /\ Flaky \subseteq {"write", "lost", "rejected", "commit"}
  /\ Admin \subseteq {"commit", "revert"}
  /\ Trouble \in Nat

VARIABLES tf,            \* the modules in Terraform's state file
          cand, running, \* the configurations of the firewall
          pc,            \* where the play or the task is
          task,          \* the task that runs, None for the play
          facts,         \* what my_magic_filter made of the state
          todo,          \* the calls still to make
          bad,           \* did an item of the loop fail?
          last,          \* how the last play or task ended
          trouble,       \* how often that may still happen
          wanted,        \* HISTORY: the links of this firewall when the play read
          reverted,      \*   them; was the candidate reverted under what runs;
          torn           \*   was there one of the two objects of the task
                         \*   without the other when it began?

device  == <<cand, running>>
run     == <<pc, task, facts, todo, bad, last, wanted>>
history == <<reverted, torn>>
vars == <<tf, trouble, device, run, history>>

-----------------------------------------------------------------------------
(* The filters.                                                            *)

Extend(found, m) ==
  IF ~ m.spoke THEN found
  ELSE IF m.id \notin DOMAIN found
  THEN [k \in DOMAIN found \cup {m.id} |->
          IF k = m.id THEN [public |-> m.public, inside |-> m.inside] ELSE found[k]]
  ELSE [found EXCEPT ![m.id] = [public |-> @.public \o m.public,
                                inside |-> @.inside \o m.inside]]
MagicFilter(modules) ==
  LET found[n \in 0..Len(modules)] ==
        IF n = 0 THEN <<>> ELSE Extend(found[n - 1], modules[n])
  IN  found[Len(modules)]

(* collate_filter for this firewall: the item for the link of each index.  *)
(* index counts from 0; the names of gateways count from 1.                *)
GatewayItemFromZero(link, index) == [kind |-> "gateway", name |-> index, peer |-> link]
GatewayItem(link, index) == [kind |-> "gateway", name |-> index + 1, peer |-> link]
TunnelItem(link, index)  == [kind |-> "interface", name |-> index + BeginTunnel, link |-> link]
IpsecItem(index)         == [kind |-> "tunnel", name |-> index,
                             interface |-> index + BeginIpsec, gateway |-> index + 1]
CollateFrom(found, filter) ==
  IF This \notin DOMAIN found THEN <<>>
  ELSE LET public == found[This].public
           inside == found[This].inside
       IN CASE filter = "gateway" -> [i \in DOMAIN public |-> GatewayItem(public[i], i - 1)]
            [] filter = "tunnel"  -> [i \in DOMAIN inside |-> TunnelItem(inside[i], i - 1)]
            [] filter = "ipsec"   -> [i \in DOMAIN inside |-> IpsecItem(i - 1)]
CollateAnew(filter) == CollateFrom(MagicFilter(tf), filter)
Collate(filter) == CollateFrom(facts, filter)

(* Without the filters: the links of the modules of this firewall that     *)
(* have a VPN, one module after the other.                                 *)
LinksOf(modules) ==
  FlattenSeq([i \in DOMAIN modules |->
    IF modules[i].spoke /\ modules[i].id = This THEN modules[i].public ELSE <<>>])

-----------------------------------------------------------------------------
(* The configuration: gateways and tunnels in the order the firewall lists *)
(* them, and the tunnel interfaces that have an address.                   *)

Names(list) == {list[i].name : i \in DOMAIN list}
PutTwice(list, entry) == Append(list, entry)
PutIfNew(list, entry) == IF entry.name \in Names(list) THEN list ELSE Append(list, entry)
Put(list, entry) ==
  IF entry.name \in Names(list)
  THEN [i \in DOMAIN list |-> IF list[i].name = entry.name THEN entry ELSE list[i]]
  ELSE Append(list, entry)
Without(list, n) == RemoveFirstMatch(list, LAMBDA entry : entry.name = n)

Edit(c, call) ==
  CASE call.kind = "gateway"   ->
         [c EXCEPT !.gateways = Put(@, [name |-> call.name, peer |-> call.peer])]
    [] call.kind = "interface" ->
         [c EXCEPT !.interfaces = {e \in @ : e.name # call.name}
                                    \cup {[name |-> call.name, link |-> call.link]}]
    [] call.kind = "tunnel"    ->
         [c EXCEPT !.tunnels = Put(@, [name |-> call.name, interface |-> call.interface,
                                       gateway |-> call.gateway])]
    [] call.kind = "no tunnel"  -> [c EXCEPT !.tunnels = Without(@, call.name)]
    [] call.kind = "no gateway" -> [c EXCEPT !.gateways = Without(@, call.name)]

Once(list) == \A i, j \in DOMAIN list : list[i].name = list[j].name => i = j
Configuration(c) ==
  /\ c \in [gateways   : Seq([name : Int, peer : Link]),
            interfaces : SUBSET [name : Nat, link : Link],
            tunnels    : Seq([name : Int, interface : Nat, gateway : Int])]
  /\ Once(c.gateways) /\ Once(c.tunnels)
  /\ \A d, e \in c.interfaces : d.name = e.name => d = e

(* A firewall that was empty once, with what plays and tasks made of it:   *)
(* the tunnels of the filters go by one number each.                       *)
Numbered(c) ==
  \A tunnel \in Range(c.tunnels) : tunnel.name \in Nat =>
    tunnel.interface = tunnel.name + BeginTunnel /\ tunnel.gateway = tunnel.name + 1

ASSUME StartsAssumption == \A c \in Starts : Configuration(c) /\ Numbered(c)

-----------------------------------------------------------------------------
Init ==
  /\ tf \in Deployment
  /\ cand \in Starts /\ running = cand
  /\ pc = "idle" /\ task = None
  /\ facts = <<>> /\ todo = <<>> /\ bad = FALSE /\ last = "none"
  /\ wanted = <<>> /\ trouble = Trouble /\ reverted = FALSE /\ torn = FALSE

Wrong(what, kinds) == what \in kinds /\ trouble > 0 /\ trouble' = trouble - 1

End(how) ==
  /\ pc' = "idle" /\ task' = None
  /\ facts' = <<>> /\ todo' = <<>> /\ bad' = FALSE /\ last' = how
  /\ wanted' = <<>> /\ reverted' = FALSE /\ torn' = FALSE

(* The state is read once; what Terraform does later is for the next play. *)
ReadState ==
  /\ pc = "idle"
  /\ pc' = "state" /\ facts' = MagicFilter(tf) /\ wanted' = LinksOf(tf)
  /\ UNCHANGED <<tf, trouble, device, task, todo, bad, last, history>>

(* A loop begins when every item of the one before was done; an item that  *)
(* failed ends the play for this firewall.                                 *)
Loops == {"gateway", "tunnel", "ipsec"}
NextLoop(next) ==
  /\ todo = <<>> /\ ~ bad
  /\ pc' = next /\ todo' = Collate(next)
  /\ UNCHANGED <<tf, trouble, device, task, facts, bad, last, wanted, history>>
BeginGateways == pc = "state"   /\ NextLoop("gateway")
BeginTunnels  == pc = "gateway" /\ NextLoop("tunnel")
BeginIpsecs   == pc = "tunnel"  /\ NextLoop("ipsec")

LoopFailed ==
  /\ pc \in Loops /\ todo = <<>> /\ bad
  /\ End("failed")
  /\ UNCHANGED <<tf, trouble, device>>

(* panos_commit at the end of the play.  It fails when there is nothing to *)
(* commit as well; whether something that is not modelled was changed, so  *)
(* that there is, is left open.                                            *)
CommitTheChanges ==
  /\ pc = "ipsec" /\ todo = <<>> /\ ~ bad
  /\ running' = cand
  /\ End("ok") \/ (running = cand /\ End("failed"))
  /\ UNCHANGED <<tf, trouble, cand>>

CommitFails ==
  /\ Wrong("commit", Flaky)
  /\ pc = "ipsec" /\ todo = <<>> /\ ~ bad
  /\ running' \in {running, cand}
  /\ End("failed")
  /\ UNCHANGED <<tf, cand>>

-----------------------------------------------------------------------------
(* panos_ipsec_config goes through the two lists side by side, as far as   *)
(* the shorter one goes and not past the gateway it looks for.             *)

Common == IF Len(cand.gateways) < Len(cand.tunnels) THEN Len(cand.gateways)
                                                    ELSE Len(cand.tunnels)
GatewayAt(t, i) == i \in 1..Common /\ cand.gateways[i].name = Gateway[t]
FoundGateway(t) == \E i \in 1..Common : GatewayAt(t, i)
FoundTunnel(t) ==
  \E i \in 1..Common : /\ cand.tunnels[i].name = Name[t]
                       /\ \A j \in 1..(i - 1) : ~ GatewayAt(t, j)
Found(t) == FoundGateway(t) \/ FoundTunnel(t)

Creation(t) ==
  <<[kind |-> "gateway", name |-> Gateway[t], peer |-> Peer[t]],
    [kind |-> "tunnel", name |-> Name[t], interface |-> Number[t], gateway |-> Gateway[t]]>>
Deletion(t) ==
  <<[kind |-> "no tunnel", name |-> Name[t]], [kind |-> "no gateway", name |-> Gateway[t]]>>

Both(c, t) == Gateway[t] \in Names(c.gateways) <=> Name[t] \in Names(c.tunnels)

StartTask(t) ==
  /\ pc = "idle"
  /\ State[t] = "absent" /\ Found(t) => FoundGateway(t) /\ FoundTunnel(t)
  /\ pc' = "config" /\ task' = t
  /\ todo' = CASE State[t] = "present" /\ ~ Found(t) -> Creation(t)
               [] State[t] = "absent" /\ Found(t)    -> Deletion(t)
               [] OTHER                              -> <<>>
  /\ torn' = ~ Both(cand, t)
  /\ UNCHANGED <<tf, trouble, device, facts, bad, last, wanted, reverted>>

(* It found one of the two: the variable for the other has no value.       *)
Raise(t) ==
  /\ pc = "idle"
  /\ State[t] = "absent" /\ Found(t) /\ ~ (FoundGateway(t) /\ FoundTunnel(t))
  /\ last' = "failed"
  /\ UNCHANGED <<tf, trouble, device, pc, task, facts, todo, bad, wanted, history>>

TaskEnds ==
  /\ pc = "config" /\ todo = <<>>
  /\ End("ok")
  /\ UNCHANGED <<tf, trouble, device>>

-----------------------------------------------------------------------------
(* A call: the scripts for gateways and interfaces commit what they        *)
(* changed, since the role does not tell them otherwise, and do not notice *)
(* when that commit is rejected.                                           *)

Commits == pc \in {"gateway", "tunnel"} /\ Edit(cand, Head(todo)) # cand

GoOn == todo' = Tail(todo) /\ UNCHANGED <<pc, task, facts, bad, last, wanted, history>>

Call ==
  /\ todo # <<>>
  /\ cand' = Edit(cand, Head(todo))
  /\ running' = IF Commits THEN cand' ELSE running
  /\ GoOn
  /\ UNCHANGED <<tf, trouble>>

CommitRejected ==
  /\ Wrong("rejected", Flaky)
  /\ todo # <<>> /\ Commits
  /\ cand' = Edit(cand, Head(todo))
  /\ GoOn
  /\ UNCHANGED <<tf, running>>

(* A loop goes on after an item that failed, a task does not.              *)
FailsInSilence ==
  /\ todo' = Tail(todo) /\ bad' = (pc # "config")
  /\ UNCHANGED <<pc, task, facts, last, wanted, history>>
Fails ==
  IF pc = "config"
  THEN End("failed")
  ELSE /\ bad' = TRUE /\ todo' = Tail(todo)
       /\ UNCHANGED <<pc, task, facts, last, wanted, history>>

CallFails ==
  /\ Wrong("write", Flaky)
  /\ todo # <<>>
  /\ Fails
  /\ UNCHANGED <<tf, device>>

CallLost ==
  /\ Wrong("lost", Flaky)
  /\ todo # <<>>
  /\ cand' = Edit(cand, Head(todo))
  /\ running' \in IF Commits THEN {running, cand'} ELSE {running}
  /\ Fails
  /\ UNCHANGED tf

-----------------------------------------------------------------------------
Terraform ==
  /\ tf' \in Deployment
  /\ UNCHANGED <<trouble, device, run, history>>

AdminCommits ==
  /\ Wrong("commit", Admin)
  /\ running' = cand
  /\ UNCHANGED <<tf, cand, run, history>>

AdminReverts ==
  /\ Wrong("revert", Admin)
  /\ cand' = running
  /\ reverted' = (pc # "idle")
  /\ UNCHANGED <<tf, running, run, torn>>

Step == \/ BeginGateways \/ BeginTunnels \/ BeginIpsecs \/ LoopFailed
        \/ CommitTheChanges \/ CommitFails \/ TaskEnds
        \/ Call \/ CommitRejected \/ CallFails \/ CallLost
Others == Terraform \/ AdminCommits \/ AdminReverts
Next == ReadState \/ Step \/ Others \/ \E t \in Task : StartTask(t) \/ Raise(t)

Spec == Init /\ [][Next]_vars
(* The play is run again and again, and neither it nor a task stands still. *)
FairSpec == Spec /\ WF_vars(Step) /\ SF_vars(ReadState)

-----------------------------------------------------------------------------
(* PROPERTIES.                                                             *)

(* The variables have their types: no name is configured twice, what is    *)
(* still to do is of the kind the loop is for, and a failed item is        *)
(* remembered only while its loop runs.                                    *)
TypeOK ==
  /\ tf \in Deployment
  /\ Configuration(cand) /\ Configuration(running)
  /\ pc \in {"idle", "state", "config"} \cup Loops
  /\ task \in Task \cup {None} /\ (task # None <=> pc = "config")
  /\ \A i \in DOMAIN todo :
       \/ pc = "gateway" /\ todo[i].kind = "gateway"
       \/ pc = "tunnel" /\ todo[i].kind = "interface"
       \/ pc = "ipsec" /\ todo[i].kind = "tunnel"
       \/ pc = "config"
  /\ bad \in BOOLEAN /\ (bad => pc \in Loops)
  /\ last \in {"none", "ok", "failed"}
  /\ trouble \in 0..Trouble /\ wanted \in Seq(Link)
  /\ reverted \in BOOLEAN /\ torn \in BOOLEAN

(* A tunnel joins a link when its gateway has the address of the link for  *)
(* peer and its interface the address inside: not those of two links.      *)
Joins(c, tunnel, link) ==
  /\ [name |-> tunnel.gateway, peer |-> link] \in Range(c.gateways)
  /\ [name |-> tunnel.interface, link |-> link] \in c.interfaces
Joined(c, link) == \E tunnel \in Range(c.tunnels) : Joins(c, tunnel, link)

PlayEnds(how) == pc \in Loops /\ pc' = "idle" /\ last' = how

(* When the play ends well, every link that Terraform had created for this *)
(* firewall is joined in the running configuration: lists that were cut,   *)
(* swapped or numbered differently, items that failed, items of an earlier *)
(* play with other links make no difference.                               *)
OkMeansJoined ==
  [][PlayEnds("ok") /\ ~ reverted => \A link \in Range(wanted) : Joined(running', link)]_vars

(* A play never disturbs, not even for a while or when it fails, the       *)
(* tunnel of a link that is where it was the last time.                    *)
InPlace(c, i, link) ==
  \E tunnel \in Range(c.tunnels) : tunnel.name = i - 1 /\ Joins(c, tunnel, link)
WorkingStays ==
  [][task = None /\ Step => \A i \in DOMAIN wanted :
       InPlace(cand, i, wanted[i]) => InPlace(cand', i, wanted[i])]_vars

(* "Create an ipsec tunnel and IKE gateway on the device": a task that     *)
(* ends well leaves both or has removed both, wherever the firewall lists  *)
(* them, whatever was done before and whoever commits in the meantime.     *)
(* Not so when the candidate is reverted under it, nor when it begins with *)
(* one of the two without the other: then it does nothing and reports      *)
(* success.  A task that failed half way leaves that behind, and so does a *)
(* VPN made over a gateway that another one has.                           *)
Exists(c, t) == <<Gateway[t] \in Names(c.gateways), Name[t] \in Names(c.tunnels)>>
OkMeansBoth ==
  [][\A t \in Task : task = t /\ pc' = "idle" /\ last' = "ok" /\ ~ torn /\ ~ reverted
       => Exists(cand, t)' = IF State[t] = "present" THEN <<TRUE, TRUE>>
                                                    ELSE <<FALSE, FALSE>>]_vars

(* When Terraform, the network and the other users are quiet for good, the *)
(* play that is run again and again joins every link, whatever the earlier *)
(* ones left half done.                                                    *)
Heals == <>[][tf' = tf]_vars => <>[](\A link \in Range(LinksOf(tf)) : Joined(running, link))

=============================================================================
