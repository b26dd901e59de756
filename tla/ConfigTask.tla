----------------------------- MODULE ConfigTask -----------------------------
(***************************************************************************)
(* The scripts of library/ that put one object into the candidate          *)
(* configuration of a firewall or take it out: BGP and what is inside it,  *)
(* static routes, redistribution profiles, crypto profiles, gateways and   *)
(* tunnels, management profiles, zones and virtual routers.                *)
(*                                                                         *)
(* Each reads the objects it is about, decides which calls to make, makes  *)
(* them, and commits if it was asked to and something changed.  What they  *)
(* compare, which call they make and what they count as a change differs   *)
(* from script to script.  pandevice's calls are modelled from their use:  *)
(* apply() replaces the object with everything inside it, create() merges  *)
(* it into what is there, delete() removes it with everything inside it.   *)
(*                                                                         *)
(* An object's configuration is a set of settings, of which the first is   *)
(* its entry; an object without settings does not exist.  The prefixes of  *)
(* a BGP rule or filter are settings of it.  Others may commit and revert  *)
(* the candidate between any two steps of a task; alone is a history       *)
(* variable that no guard reads.  Simplified: one virtual router; no       *)
(* Panorama; the tasks for a firewall run one after the other.             *)
(***************************************************************************)
EXTENDS Sequences

CONSTANTS Object,
          Above,       \* the objects that an object is inside of
          Router, Bgp, \* the virtual router and its BGP configuration
          Setting,
          KeyOf,       \* settings with the same key exclude each other
          Bare,        \* the entry of an object
          Starts,      \* plays, sets of tasks, with configurations to start from
          Task, Idle,
          Script, State,  \* a task's script and its state
          Target,      \* the object it is about,
          Asked,       \*   the settings it asks for,
          Kids,        \*   and those of the objects inside it
          Holder,      \* its peer_group or policy_name, its router if none
          Commit,      \* tasks with commit
          Replace,     \* tasks with replace
          NextVr,      \* tasks with nexthop_type next-vr
          Incomplete,  \* tasks that lack an argument another one requires
          Flaky,       \* kinds of calls that may fail
          Admin        \* what is done beside the tasks

Config == [Object -> SUBSET Setting]
Inside(o) == {p \in Object : o \in Above[p]}
Rooted(c) == \A o \in Object : c[o] # {} => \A p \in Above[o] : c[p] # {}

BgpScripts ==
  {"panos_bgp", "panos_bgp_auth", "panos_bgp_peer", "panos_bgp_peer_group",
   "panos_bgp_policy_rule", "panos_bgp_policy_filter", "panos_bgp_aggregate",
   "panos_bgp_conditional_advertisement", "panos_bgp_dampening",
   "panos_bgp_redistribute"}
RouteScripts == {"panos_static_route", "panos_static_route_fca"}
VpnScripts == {"panos_ike_crypto_profile", "panos_ike_gateway",
               "panos_ipsec_profile", "panos_ipsec_tunnel"}
NameScripts == {"panos_redist_prof", "panos_create_zones", "panos_virtual_router"}
Scripts == BgpScripts \cup RouteScripts \cup VpnScripts \cup NameScripts
             \cup {"panos_management_profile"}

ASSUME ConfigAssumption ==
  /\ Above \in [Object -> SUBSET Object]
  /\ \A o \in Object : o \notin Above[o] /\ \A p \in Above[o] : Above[p] \subseteq Above[o]
  /\ \A o \in Object : \A p, q \in Above[o] : p = q \/ p \in Above[q] \/ q \in Above[p]
  /\ Router \in Object /\ Bgp \in Object
  /\ Bare \in Setting /\ DOMAIN KeyOf = Setting
  /\ \A s \in Starts : s[1] \subseteq Task /\ s[2] \in Config /\ Rooted(s[2])
  /\ Idle \notin Task
  /\ Script \in [Task -> Scripts] /\ State \in [Task -> {"present", "absent"}]
  /\ Target \in [Task -> Object] /\ Holder \in [Task -> Object]
  /\ Asked \in [Task -> SUBSET Setting] /\ \A t \in Task : Bare \in Asked[t]
  /\ Kids \in [Task -> Config]
  /\ \A t \in Task, o \in Object : Kids[t][o] # {} =>
       /\ o \in Inside(Target[t])
       /\ \A p \in Above[o] \cap Inside(Target[t]) : Kids[t][p] # {}
  /\ Commit \subseteq Task /\ Replace \subseteq Task
  /\ NextVr \subseteq Task /\ Incomplete \subseteq Task
  /\ Flaky \subseteq {"read", "write", "lost", "commit"}
  /\ Admin \subseteq {"commit", "revert"}

(* The objects of the other scripts are leaves of the configuration.       *)
Trees == {"panos_bgp", "panos_bgp_peer_group", "panos_bgp_aggregate",
          "panos_bgp_conditional_advertisement", "panos_management_profile"}
            \cup NameScripts
ASSUME LeafAssumption ==
  \A t \in Task : Script[t] \notin Trees => Inside(Target[t]) = {}

(* What a BGP or route script is about is inside its virtual router, a     *)
(* peer inside its group, a filter inside what it filters, a tunnel inside *)
(* nothing.                                                                *)
ASSUME NestAssumption ==
  \A t \in Task :
    /\ Script[t] \in BgpScripts \cup RouteScripts => Router \in Above[Target[t]]
    /\ Script[t] \in {"panos_bgp_peer", "panos_bgp_policy_filter"}
         => Holder[t] \in Above[Target[t]]
    /\ Script[t] = "panos_ipsec_tunnel" => Above[Target[t]] = {}

VARIABLES cand,     \* the candidate configuration
          running,  \* the running configuration
          queued,   \* has the firewall a commit to make that nobody waits for?
          play,     \* the tasks that are run, again and again
          task,     \* the task that runs, or Idle
          todo,     \* the calls it has still to make
          found,    \* the candidate it has read, if it is to write some of it back
          changed,  \* its variable changed
          touched,  \* has it edited the candidate?
          alone,    \* has nobody else changed the candidate since it has read?
          settled,  \* the last task that ended well, alone, if nobody has edited since
          last      \* how the last run ended, if none has started since

run  == <<play, task, todo, found, changed, touched>>
vars == <<cand, running, queued, run, alone, settled, last>>

Calls == {"apply", "applyAround", "create", "createWhole", "delete", "raise"}

-----------------------------------------------------------------------------
(* The firewall.                                                           *)

Nothing == [o \in Object |-> {}]
Missing(o) == cand[o] = {}
Merge(new, old) == new \cup {s \in old : \A n \in new : KeyOf[n] # KeyOf[s]}
WithEntry(set) == IF set = {} THEN {Bare} ELSE set

(* The candidate after a call of task t: its object, those inside it, those *)
(* above it and the others.                                                *)
OwnAfter(t, call) ==
  IF call = "delete" THEN {}
  ELSE IF call \in {"create", "createWhole"} THEN Merge(Asked[t], cand[Target[t]])
  ELSE Asked[t]
InsideAfter(t, call, o) ==
  IF call \in {"apply", "delete"} THEN {}
  ELSE IF call = "createWhole" THEN Merge(Kids[t][o], cand[o])
  ELSE IF call = "applyAround" THEN found[o] ELSE cand[o]
AfterCall(t, call) ==
  [o \in Object |->
     IF o = Target[t] THEN OwnAfter(t, call)
     ELSE IF o \in Inside(Target[t]) THEN InsideAfter(t, call, o)
     ELSE IF call # "delete" /\ o \in Above[Target[t]] THEN WithEntry(cand[o])
     ELSE cand[o]]

-----------------------------------------------------------------------------
(* What each script decides to call, from what it has read.                *)

Same(t) == cand[Target[t]] = Asked[t]
SameWithin(t) == Same(t) /\ \A o \in Inside(Target[t]) : cand[o] = Kids[t][o]
When(condition, call) == IF condition THEN <<call>> ELSE <<>>
Drop(t) == When(~ Missing(Target[t]), "delete")
(* An object added to a Bgp() that is in no router cannot be written.      *)
Attached(call) == IF Missing(Bgp) THEN "raise" ELSE call

SameBgp(t) == Same(t) /\ \A o \in Object : Kids[t][o] # {} => cand[o] = Kids[t][o]
BgpCalls(t) ==
  IF State[t] = "present" THEN When(~ SameBgp(t), "createWhole") ELSE <<Attached("delete")>>

AuthCalls(t) ==
  IF State[t] = "present"
  THEN When(t \in Replace \/ Missing(Target[t]), Attached("apply")) ELSE Drop(t)

PeerCallsNew(t) ==
  IF State[t] = "present"
  THEN IF Missing(Holder[t]) THEN <<"raise">> ELSE When(Missing(Target[t]), "apply")
  ELSE Drop(t)
PeerCalls(t) ==
  IF State[t] = "present"
  THEN IF Missing(Holder[t]) THEN <<"raise">> ELSE When(~ Same(t), "apply")
  ELSE Drop(t)

(* group.create() keeps the peers of the group.                            *)
GroupCallsApply(t) == IF State[t] = "present" THEN When(~ Same(t), "apply") ELSE Drop(t)
GroupCalls(t) == IF State[t] = "present" THEN When(~ Same(t), "create") ELSE Drop(t)

RuleCalls(t) ==
  IF State[t] = "present"
  THEN IF t \in Incomplete THEN <<"raise">> ELSE When(~ SameWithin(t), "apply")
  ELSE Drop(t)

FilterCallsAlways(t) ==
  IF t \in Incomplete \/ Missing(Holder[t]) THEN <<"raise">>
  ELSE IF State[t] = "present" THEN <<"apply">> ELSE Drop(t)
FilterCalls(t) ==
  IF t \in Incomplete \/ Missing(Holder[t]) THEN <<"raise">>
  ELSE IF State[t] = "present" THEN When(~ SameWithin(t), "apply") ELSE Drop(t)

AggregateCalls(t) ==
  IF State[t] = "present"
  THEN IF t \in Incomplete THEN <<"raise">> ELSE When(~ SameWithin(t), "create")
  ELSE Drop(t)

ConditionalCalls(t) ==
  IF State[t] = "absent" THEN Drop(t)
  ELSE IF ~ Missing(Target[t]) THEN When(~ Same(t), "create")
  ELSE IF t \in Incomplete THEN <<"raise">> ELSE <<Attached("createWhole")>>

DampeningCalls(t) ==
  IF State[t] = "present" THEN When(~ Same(t), Attached("apply")) ELSE Drop(t)

RedistributeCalls(t) == IF State[t] = "present" THEN When(~ SameWithin(t), "apply") ELSE Drop(t)

RouteCalls(t) ==
  IF State[t] = "absent" THEN Drop(t)
  ELSE IF t \in Incomplete THEN <<"raise">>
  ELSE IF Missing(Target[t]) THEN <<"create">> ELSE When(~ Same(t), "apply")

RouteFcaCalls(t) ==
  IF State[t] = "present" /\ t \notin Incomplete /\ t \in NextVr
  THEN When(Missing(Target[t]), "apply") ELSE RouteCalls(t)

(* The scripts that look for the name only.                                *)
ProfileCalls(t) == IF State[t] = "present" THEN When(Missing(Target[t]), "create") ELSE Drop(t)
ZoneCalls(t)    == ProfileCalls(t)
RouterCalls(t)  == ProfileCalls(t)

CryptoCalls(t) ==
  IF State[t] = "absent" THEN Drop(t)
  ELSE IF Missing(Target[t]) THEN <<"create">> ELSE When(~ Same(t), "apply")
GatewayCalls(t) == CryptoCalls(t)
IpsecProfileCalls(t) == CryptoCalls(t)

(* The loop over the tunnels has no break: its else branch always runs.    *)
TunnelCalls(t) ==
  IF State[t] = "absent" THEN Drop(t)
  ELSE IF Missing(Target[t]) \/ Same(t) THEN <<"create">> ELSE <<"apply", "create">>

ManagementCalls(t) ==
  IF State[t] = "absent" THEN Drop(t)
  ELSE IF Missing(Target[t]) THEN <<"create">> ELSE When(~ Same(t), "applyAround")

CallsOf(t) ==
  IF Script[t] \in BgpScripts \cup RouteScripts /\ Missing(Router) THEN <<"raise">>
  ELSE CASE Script[t] = "panos_bgp"                   -> BgpCalls(t)
         [] Script[t] = "panos_bgp_auth"              -> AuthCalls(t)
         [] Script[t] = "panos_bgp_peer"              -> PeerCalls(t)
         [] Script[t] = "panos_bgp_peer_group"        -> GroupCalls(t)
         [] Script[t] = "panos_bgp_policy_rule"       -> RuleCalls(t)
         [] Script[t] = "panos_bgp_policy_filter"     -> FilterCalls(t)
         [] Script[t] = "panos_bgp_aggregate"         -> AggregateCalls(t)
         [] Script[t] = "panos_bgp_conditional_advertisement" -> ConditionalCalls(t)
         [] Script[t] = "panos_bgp_dampening"         -> DampeningCalls(t)
         [] Script[t] = "panos_bgp_redistribute"      -> RedistributeCalls(t)
         [] Script[t] = "panos_redist_prof"           -> ProfileCalls(t)
         [] Script[t] = "panos_static_route"          -> RouteCalls(t)
         [] Script[t] = "panos_static_route_fca"      -> RouteFcaCalls(t)
         [] Script[t] = "panos_ike_crypto_profile"    -> CryptoCalls(t)
         [] Script[t] = "panos_ike_gateway"           -> GatewayCalls(t)
         [] Script[t] = "panos_ipsec_profile"         -> IpsecProfileCalls(t)
         [] Script[t] = "panos_ipsec_tunnel"          -> TunnelCalls(t)
         [] Script[t] = "panos_management_profile"    -> ManagementCalls(t)
         [] Script[t] = "panos_create_zones"          -> ZoneCalls(t)
         [] Script[t] = "panos_virtual_router"        -> RouterCalls(t)

(* What a script counts as a change.  panos_bgp asks whether the settings  *)
(* differ, whatever the state; panos_bgp_peer_group does so as well.       *)
Changes(t) ==
  CASE Script[t] = "panos_bgp"            -> ~ SameBgp(t)
    [] Script[t] = "panos_bgp_peer_group" -> ~ Same(t) \/ CallsOf(t) # <<>>
    [] OTHER                              -> CallsOf(t) # <<>>

(* commit(exception=True) raises when the commit fails or is not needed;   *)
(* the other scripts that commit do not ask for it.                        *)
Loud(t) == Script[t] \in BgpScripts
Commits(t) == t \in Commit /\ Script[t] \in
                BgpScripts \cup VpnScripts \cup {"panos_management_profile"}
(* dev.commit() without sync=True returns when the job is queued.          *)
Waits(t) == Script[t] # "panos_management_profile"

-----------------------------------------------------------------------------
Init ==
  /\ \E start \in Starts : play = start[1] /\ cand = start[2]
  /\ running = cand /\ queued = FALSE
  /\ task = Idle /\ todo = <<>> /\ found = Nothing
  /\ changed = FALSE /\ touched = FALSE
  /\ alone = TRUE /\ settled = Idle /\ last = "none"

Start(t) ==
  /\ task = Idle /\ t \in play
  /\ task' = t
  /\ todo' = CallsOf(t)
  /\ found' = IF todo' = <<"applyAround">> THEN cand ELSE Nothing
  /\ changed' = Changes(t) /\ last' = "none"
  /\ UNCHANGED <<cand, running, queued, play, touched, alone, settled>>

EndKeepsCalls(how) ==
  /\ task' = Idle /\ found' = Nothing
  /\ changed' = FALSE /\ touched' = FALSE /\ alone' = TRUE
  /\ last' = how /\ UNCHANGED <<play, todo>>
End(how) ==
  /\ task' = Idle /\ todo' = <<>> /\ found' = Nothing
  /\ changed' = FALSE /\ touched' = FALSE /\ alone' = TRUE
  /\ last' = how /\ UNCHANGED play

EndsWell == End("ok") /\ settled' = IF alone THEN task ELSE Idle
Fails    == End("failed") /\ settled' = Idle

ReadFails ==
  /\ "read" \in Flaky
  /\ task = Idle
  /\ last' = "failed" /\ settled' = Idle
  /\ UNCHANGED <<cand, running, queued, run, alone>>

Busy == task # Idle
Calling == Busy /\ todo # <<>> /\ todo[1] # "raise"

Call ==
  /\ Calling
  /\ cand' = AfterCall(task, todo[1])
  /\ todo' = Tail(todo) /\ found' = Nothing
  /\ touched' = (touched \/ cand' # cand)
  /\ settled' = IF cand' = cand THEN settled ELSE Idle
  /\ UNCHANGED <<running, queued, play, task, changed, alone, last>>

CallFails ==
  /\ "write" \in Flaky
  /\ Calling
  /\ Fails
  /\ UNCHANGED <<cand, running, queued>>

(* The firewall made the edit, the reply did not arrive.                   *)
CallLost ==
  /\ "lost" \in Flaky
  /\ Calling
  /\ cand' = AfterCall(task, todo[1])
  /\ Fails
  /\ UNCHANGED <<running, queued>>

Raise ==
  /\ Busy /\ todo # <<>> /\ todo[1] = "raise"
  /\ Fails
  /\ UNCHANGED <<cand, running, queued>>

Called == Busy /\ todo = <<>>
MustCommitNew == Commits(task) /\ changed /\ running[Target[task]] = {}
MustCommit == Commits(task) /\ changed

Finish ==
  /\ Called /\ ~ MustCommit
  /\ EndsWell
  /\ UNCHANGED <<cand, running, queued>>

(* The commit that is asked for has been made, or is still to be made.     *)
Publish(t) ==
  IF Waits(t) THEN running' = cand /\ UNCHANGED queued
              ELSE queued' = TRUE /\ UNCHANGED running

CommitAll ==
  /\ Called /\ MustCommit
  /\ Publish(task)
  /\ EndsWell
  /\ UNCHANGED cand

CommitNotNeeded ==
  /\ Called /\ MustCommit /\ Loud(task) /\ running = cand
  /\ Fails
  /\ UNCHANGED <<cand, running, queued>>

CommitRejected ==
  /\ "commit" \in Flaky
  /\ Called /\ MustCommit
  /\ IF Loud(task) THEN Fails ELSE EndsWell
  /\ UNCHANGED <<cand, running, queued>>

CommitLost ==
  /\ "commit" \in Flaky
  /\ Called /\ MustCommit
  /\ Publish(task)
  /\ Fails
  /\ UNCHANGED cand

(* panos_commit at the end of configuration_push.yml, or another user of   *)
(* the firewall, commits the candidate as it is.                           *)
CommitByOthers ==
  /\ "commit" \in Admin
  /\ running' = cand
  /\ UNCHANGED <<cand, queued, run, alone, settled, last>>

(* The firewall comes to the commit in its queue.                          *)
CommitQueued ==
  /\ queued
  /\ running' = cand /\ queued' = FALSE
  /\ UNCHANGED <<cand, run, alone, settled, last>>

(* Another user drops all that is not committed, whatever task runs.       *)
Revert ==
  /\ "revert" \in Admin
  /\ cand' = running
  /\ alone' = (task = Idle \/ (alone /\ cand' = cand))
  /\ settled' = IF cand' = cand THEN settled ELSE Idle
  /\ UNCHANGED <<running, queued, run, last>>

Step == \/ Call \/ CallFails \/ CallLost \/ Raise
        \/ Finish \/ CommitAll \/ CommitNotNeeded \/ CommitRejected \/ CommitLost

Next == \/ \E t \in Task : Start(t)
        \/ ReadFails \/ Step \/ CommitByOthers \/ CommitQueued \/ Revert

Spec == Init /\ [][Next]_vars

(* The play is run again until it succeeds; a call that is made again and  *)
(* again is answered in the end.                                           *)
FairSpec ==
  /\ Spec /\ WF_vars(Step)
  /\ \A t \in Task : SF_vars(Start(t)) /\ SF_vars(task = t /\ Call)

-----------------------------------------------------------------------------
(* PROPERTIES.                                                             *)

(* The variables have their types, the run of no task leaves anything      *)
(* behind, and the candidate and the running configuration are trees.      *)
TypeOK ==
  /\ cand \in Config /\ running \in Config
  /\ Rooted(cand) /\ Rooted(running)
  /\ queued \in BOOLEAN /\ found \in Config
  /\ play \subseteq Task /\ task \in play \cup {Idle}
  /\ todo \in Seq(Calls)
  /\ changed \in BOOLEAN /\ touched \in BOOLEAN /\ alone \in BOOLEAN
  /\ settled \in Task \cup {Idle}
  /\ last \in {"none", "ok", "failed"}
  /\ task = Idle => todo = <<>> /\ ~ changed /\ ~ touched /\ alone

(* The objects a task may edit: its own; those inside it when it deletes,  *)
(* and those it was given when it does not; and above it an object that    *)
(* does not exist yet.                                                     *)
Own(t) ==
  {Target[t]} \cup
  IF State[t] = "absent" THEN Inside(Target[t])
  ELSE {o \in Object : Kids[t][o] # {}} \cup {o \in Above[Target[t]] : Missing(o)}

(* A task edits only objects of its own: a peer group is updated without   *)
(* its peers, a policy without its filters, a management profile without   *)
(* what is inside it.  Only the last may go wrong when others revert the   *)
(* candidate meanwhile: the task writes back what it read inside (231).    *)
OnlyOwn ==
  [][Step /\ (alone \/ Waits(task)) =>
       \A o \in Object : cand'[o] # cand[o] => o \in Own(task)]_vars

Ends(how) == Busy /\ task' = Idle /\ last' = how

(* Scripts and options that do not look at the settings of an object that  *)
(* exists.                                                                 *)
NameOnly(t) == \/ Script[t] \in NameScripts
               \/ Script[t] = "panos_bgp_auth" /\ t \notin Replace
               \/ t \in NextVr
Holds(t, c) ==
  IF State[t] = "absent" THEN c[Target[t]] = {}
  ELSE /\ c[Target[t]] # {}
       /\ NameOnly(t) \/ Asked[t] \subseteq c[Target[t]]
       /\ Script[t] = "panos_bgp" => \A o \in Object : Kids[t][o] \subseteq c[o]

(* A task that ends well left the candidate as it was asked to: what it    *)
(* decided not to do was not necessary.  Nothing keeps another user from   *)
(* reverting the candidate after the task has read or edited it; it then   *)
(* ends well all the same, so this holds of tasks that were alone.         *)
OkMeansAsked == [][Ends("ok") /\ alone => Holds(task, cand')]_vars

(* "Commit configuration if changed": when a BGP task with commit ends     *)
(* well, what it edited is in the running configuration.  Not so for       *)
(* panos_bgp with state absent, whose change is not counted, nor for the   *)
(* other scripts, which do not notice that their commit was rejected.      *)
Reports(t) == Loud(t) /\ ~ (Script[t] = "panos_bgp" /\ State[t] = "absent")
CommitIfChanged ==
  [][Ends("ok") /\ Commits(task) /\ Reports(task) /\ touched => running' = cand']_vars

(* A task with commit that ends well finds what it asked for in the        *)
(* running configuration, if it was alone, no reply is lost and no commit  *)
(* fails: a task that is run again after one of these finds nothing to     *)
(* change and does not commit.  Not so for panos_management_profile, which *)
(* does not wait for its commit.                                           *)
Publishes(t) == Commits(t) /\ Waits(t)
OkMeansRunning ==
  [][Ends("ok") /\ alone /\ Publishes(task) => Holds(task, running')]_vars

(* "Run 1 or N times and only make 1 change": run again, with no edit in   *)
(* between, a task makes no call and reports no change - but for the       *)
(* scripts that write an object which differs by what their call does not  *)
(* change, or that write whatever they find.                               *)
Restless(t) ==
  \/ Script[t] \in {"panos_bgp", "panos_bgp_peer_group", "panos_bgp_aggregate",
                    "panos_bgp_conditional_advertisement", "panos_ipsec_tunnel"}
  \/ t \in Replace
RunAgain == Busy /\ task = settled /\ ~ Restless(task) => todo = <<>> /\ ~ changed

(* Run again and again, in any order, the tasks of a play come to rest     *)
(* with everything as it was asked for.                                    *)
Converges == <>[](\A t \in play : Holds(t, cand))
=============================================================================
