---------------------------- MODULE ConfigProofs ----------------------------
(***************************************************************************)
(* What holds of ConfigTask for every tree of objects, every set of tasks  *)
(* and every kind of failure: the candidate stays a tree, a task edits     *)
(* only objects of its own, one that ends well while nobody reverts the    *)
(* candidate left its object as it was asked to, its edits are committed   *)
(* if they are to be, one that is run again does nothing, and what a task  *)
(* that waits for its commit reports is running.                           *)
(*                                                                         *)
(* The invariant behind the first ones says of the task that runs what its *)
(* remaining calls are good for: each of them makes its object as it       *)
(* should be, whatever others did (Fitting), and if there are none and     *)
(* nobody reverted the candidate, it is so already (Promise).              *)
(***************************************************************************)
EXTENDS ConfigTask, TLAPS

Edits == {"apply", "applyAround", "create", "createWhole"}

(* A call that is right for the task.                                      *)
Fits(t, call) ==
  \/ call = "raise"
  \/ call = "delete" /\ State[t] = "absent"
  \/ /\ call \in Edits /\ State[t] = "present"
     /\ call = "apply" => Inside(Target[t]) = {}
     /\ call = "applyAround" => ~ Waits(t)
     /\ Script[t] = "panos_bgp" => call = "createWhole"

Promise(t, calls) ==
  \/ calls = <<>> /\ Holds(t, cand)
  \/ \E call \in Calls : calls = <<call>> /\ Fits(t, call)
  \/ calls = <<"apply", "create">> /\ Fits(t, "apply") /\ Fits(t, "create")
Fitting(t, calls) ==
  \/ calls = <<>>
  \/ \E call \in Calls : calls = <<call>> /\ Fits(t, call)
  \/ calls = <<"apply", "create">> /\ Fits(t, "apply") /\ Fits(t, "create")

(* What a task copied is what there is, until others change that.          *)
Copied == alone /\ todo = <<"applyAround">> => found = cand
IInv ==
  /\ TypeOK /\ Rooted(found)
  /\ Busy => Fitting(task, todo) /\ Copied
  /\ Busy /\ alone => Promise(task, todo)

-----------------------------------------------------------------------------
(* What is decided.                                                        *)

LEMMA TaskFacts ==
  ASSUME NEW t \in Task
  PROVE  /\ Target[t] \in Object /\ Asked[t] \subseteq Setting /\ Bare \in Asked[t]
         /\ Kids[t] \in Config /\ State[t] \in {"present", "absent"}
         /\ Script[t] \in Scripts
         /\ Script[t] \notin Trees => Inside(Target[t]) = {}
BY ConfigAssumption, LeafAssumption

LEMMA DropFits ==
  ASSUME NEW t \in Task, State[t] = "absent"
  PROVE  Promise(t, Drop(t))
BY DEF Drop, When, Missing, Promise, Holds, Fits, Calls

(* A single call, made unless the object is as it should be.               *)
LEMMA WhenFits ==
  ASSUME NEW t \in Task, NEW call \in Calls, Fits(t, call), NEW c \in BOOLEAN,
         ~ c => Holds(t, cand)
  PROVE  Promise(t, When(c, call))
BY DEF When, Promise

LEMMA SameHolds ==
  ASSUME NEW t \in Task, State[t] = "present", Same(t), Script[t] # "panos_bgp"
  PROVE  Holds(t, cand)
BY TaskFacts DEF Same, Holds

LEMMA ThereHolds ==
  ASSUME NEW t \in Task, State[t] = "present", NameOnly(t), ~ Missing(Target[t]),
         Script[t] # "panos_bgp"
  PROVE  Holds(t, cand)
BY DEF Missing, Holds

LEMMA OneCall ==
  ASSUME NEW t \in Task, NEW call \in Calls, Fits(t, call)
  PROVE  Promise(t, <<call>>)
BY DEF Promise

LEMMA RaiseFits ==
  ASSUME NEW t \in Task
  PROVE  Promise(t, <<"raise">>)
BY OneCall DEF Fits, Calls

LEMMA EditFits ==
  ASSUME NEW t \in Task, State[t] = "present", Script[t] # "panos_bgp"
  PROVE  /\ Fits(t, "create") /\ Fits(t, "createWhole")
         /\ ~ Waits(t) => Fits(t, "applyAround")
         /\ Script[t] \notin Trees => Fits(t, "apply")
BY TaskFacts DEF Fits, Edits

LEMMA AttachedFits ==
  ASSUME NEW t \in Task, NEW call \in Calls, Fits(t, call)
  PROVE  Attached(call) \in Calls /\ Fits(t, Attached(call))
BY DEF Attached, Fits, Calls

(* The scripts that write only what differs: with nothing to write the     *)
(* object is the same.                                                     *)
LEMMA WhenOther ==
  ASSUME NEW t \in Task, State[t] = "present", Script[t] # "panos_bgp",
         NEW call \in Calls, Fits(t, call), NEW c \in BOOLEAN, ~ c => Same(t)
  PROVE  Promise(t, When(c, call))
BY WhenFits, SameHolds

LEMMA WhenMissing ==
  ASSUME NEW t \in Task, State[t] = "present", Script[t] # "panos_bgp", NameOnly(t),
         NEW call \in Calls, Fits(t, call)
  PROVE  Promise(t, When(Missing(Target[t]), call))
<1>1. Missing(Target[t]) \in BOOLEAN
  BY DEF Missing
<1>2. QED
  BY <1>1, WhenFits, ThereHolds

LEMMA BgpFits ==
  ASSUME NEW t \in Task, Script[t] = "panos_bgp"
  PROVE  Promise(t, BgpCalls(t))
<1>1. CASE State[t] = "present"
  <2>1. SameBgp(t) => Holds(t, cand)
    BY <1>1, TaskFacts DEF SameBgp, Same, Holds
  <2>2. SameBgp(t) \in BOOLEAN /\ Fits(t, "createWhole") /\ "createWhole" \in Calls
    BY <1>1 DEF SameBgp, Same, Fits, Edits, Calls
  <2>3. QED
    BY <1>1, <2>1, <2>2, WhenFits DEF BgpCalls
<1>2. CASE State[t] = "absent"
  <2>1. Fits(t, "delete") /\ "delete" \in Calls
    BY <1>2 DEF Fits, Calls
  <2>2. BgpCalls(t) = <<Attached("delete")>>
    BY <1>2 DEF BgpCalls
  <2>3. QED
    BY <2>1, <2>2, AttachedFits, OneCall
<1>3. QED
  BY <1>1, <1>2, TaskFacts

LEMMA AuthFits ==
  ASSUME NEW t \in Task, Script[t] = "panos_bgp_auth"
  PROVE  Promise(t, AuthCalls(t))
<1>1. CASE State[t] = "present"
  <2>1. Attached("apply") \in Calls /\ Fits(t, Attached("apply"))
    BY <1>1, EditFits, AttachedFits DEF Trees, NameScripts, Calls
  <2>2. ~ (t \in Replace \/ Missing(Target[t])) => Holds(t, cand)
    BY <1>1, ThereHolds DEF NameOnly
  <2>3. (t \in Replace \/ Missing(Target[t])) \in BOOLEAN
    OBVIOUS
  <2>4. QED
    BY <1>1, <2>1, <2>2, <2>3, WhenFits DEF AuthCalls
<1>2. CASE State[t] = "absent"
  BY <1>2, DropFits DEF AuthCalls
<1>3. QED
  BY <1>1, <1>2, TaskFacts

(* Scripts about a leaf that write it when it is not as they were asked    *)
(* for, and may raise first.                                               *)
LEMMA LeafFits ==
  ASSUME NEW t \in Task, Script[t] \notin Trees, State[t] = "present",
         NEW c \in BOOLEAN, c => Same(t)
  PROVE  /\ Promise(t, When(~ c, "apply"))
         /\ Promise(t, When(~ c, Attached("apply")))
<1>1. Script[t] # "panos_bgp" /\ Fits(t, "apply") /\ "apply" \in Calls
  BY EditFits DEF Trees, Calls
<1>2. QED
  BY <1>1, AttachedFits, WhenOther

LEMMA SameBool ==
  ASSUME NEW t \in Task
  PROVE  /\ Same(t) \in BOOLEAN /\ SameWithin(t) \in BOOLEAN
         /\ SameWithin(t) => Same(t)
BY DEF Same, SameWithin

LEMMA ApplyFits ==
  ASSUME NEW t \in Task,
         Script[t] \in {"panos_bgp_peer", "panos_bgp_policy_rule", "panos_bgp_policy_filter",
                        "panos_bgp_dampening", "panos_bgp_redistribute"}
  PROVE  Promise(t, CASE Script[t] = "panos_bgp_peer"          -> PeerCalls(t)
                      [] Script[t] = "panos_bgp_policy_rule"   -> RuleCalls(t)
                      [] Script[t] = "panos_bgp_policy_filter" -> FilterCalls(t)
                      [] Script[t] = "panos_bgp_dampening"     -> DampeningCalls(t)
                      [] OTHER                                 -> RedistributeCalls(t))
<1>0. Script[t] \notin Trees
  BY DEF Trees, NameScripts
<1>1. CASE State[t] = "present"
  <2>1. /\ Promise(t, When(~ Same(t), "apply")) /\ Promise(t, When(~ SameWithin(t), "apply"))
        /\ Promise(t, When(~ Same(t), Attached("apply"))) /\ Promise(t, <<"raise">>)
    BY <1>0, <1>1, LeafFits, SameBool, RaiseFits
  <2>2. QED
    BY <1>1, <2>1 DEF PeerCalls, RuleCalls, FilterCalls, DampeningCalls, RedistributeCalls
<1>2. CASE State[t] = "absent"
  <2>1. Promise(t, Drop(t)) /\ Promise(t, <<"raise">>)
    BY <1>2, DropFits, RaiseFits
  <2>2. QED
    BY <1>2, <2>1 DEF PeerCalls, RuleCalls, FilterCalls, DampeningCalls, RedistributeCalls
<1>3. QED
  BY <1>1, <1>2, TaskFacts

LEMMA CreateFits ==
  ASSUME NEW t \in Task,
         Script[t] \in {"panos_bgp_peer_group", "panos_bgp_aggregate",
                        "panos_bgp_conditional_advertisement"}
  PROVE  Promise(t, CASE Script[t] = "panos_bgp_peer_group" -> GroupCalls(t)
                      [] Script[t] = "panos_bgp_aggregate"  -> AggregateCalls(t)
                      [] OTHER                              -> ConditionalCalls(t))
<1>1. CASE State[t] = "present"
  <2>1. Fits(t, "create") /\ Fits(t, "createWhole") /\ {"create", "createWhole"} \subseteq Calls
    BY <1>1, EditFits DEF Calls
  <2>2. /\ Promise(t, When(~ Same(t), "create")) /\ Promise(t, When(~ SameWithin(t), "create"))
        /\ Promise(t, <<Attached("createWhole")>>) /\ Promise(t, <<"raise">>)
    BY <1>1, <2>1, WhenOther, SameBool, AttachedFits, OneCall, RaiseFits
  <2>3. QED
    BY <1>1, <2>2 DEF GroupCalls, AggregateCalls, ConditionalCalls
<1>2. CASE State[t] = "absent"
  BY <1>2, DropFits DEF GroupCalls, AggregateCalls, ConditionalCalls
<1>3. QED
  BY <1>1, <1>2, TaskFacts

LEMMA NameFits ==
  ASSUME NEW t \in Task, Script[t] \in NameScripts
  PROVE  Promise(t, ProfileCalls(t))
<1>1. CASE State[t] = "present"
  <2>1. Script[t] # "panos_bgp" /\ NameOnly(t)
    BY DEF NameScripts, NameOnly
  <2>2. Fits(t, "create") /\ "create" \in Calls
    BY <1>1, <2>1, EditFits DEF Calls
  <2>3. QED
    BY <1>1, <2>1, <2>2, WhenMissing DEF ProfileCalls
<1>2. CASE State[t] = "absent"
  BY <1>2, DropFits DEF ProfileCalls
<1>3. QED
  BY <1>1, <1>2, TaskFacts

LEMMA CryptoFits ==
  ASSUME NEW t \in Task, Script[t] \in RouteScripts \cup VpnScripts
  PROVE  /\ Promise(t, RouteCalls(t)) /\ Promise(t, RouteFcaCalls(t))
         /\ Promise(t, CryptoCalls(t)) /\ Promise(t, TunnelCalls(t))
<1>0. Script[t] \notin Trees /\ Script[t] # "panos_bgp"
  BY DEF Trees, NameScripts, RouteScripts, VpnScripts
<1>1. CASE State[t] = "present"
  <2>1. Fits(t, "create") /\ Fits(t, "apply") /\ {"create", "apply"} \subseteq Calls
    BY <1>0, <1>1, EditFits DEF Calls
  <2>2. /\ Promise(t, <<"raise">>) /\ Promise(t, <<"create">>)
        /\ Promise(t, <<"apply", "create">>)
    BY <2>1, RaiseFits, OneCall DEF Promise
  <2>3. Promise(t, When(~ Same(t), "apply"))
    BY <1>0, <1>1, LeafFits, SameBool
  <2>4. t \in NextVr => Promise(t, When(Missing(Target[t]), "apply"))
    BY <1>0, <1>1, <2>1, WhenMissing DEF NameOnly
  <2>5. QED
    BY <1>1, <2>2, <2>3, <2>4 DEF RouteCalls, RouteFcaCalls, CryptoCalls, TunnelCalls
<1>2. CASE State[t] = "absent"
  BY <1>2, DropFits DEF RouteCalls, RouteFcaCalls, CryptoCalls, TunnelCalls
<1>3. QED
  BY <1>1, <1>2, TaskFacts

LEMMA ManagementFits ==
  ASSUME NEW t \in Task, Script[t] = "panos_management_profile"
  PROVE  Promise(t, ManagementCalls(t))
<1>1. CASE State[t] = "present"
  <2>1. Fits(t, "create") /\ Fits(t, "applyAround") /\ {"create", "applyAround"} \subseteq Calls
    BY <1>1, EditFits DEF Calls, Waits
  <2>2. Promise(t, <<"create">>) /\ Promise(t, When(~ Same(t), "applyAround"))
    BY <1>1, <2>1, OneCall, WhenOther, SameBool
  <2>3. QED
    BY <1>1, <2>2 DEF ManagementCalls
<1>2. CASE State[t] = "absent"
  BY <1>2, DropFits DEF ManagementCalls
<1>3. QED
  BY <1>1, <1>2, TaskFacts

LEMMA CallsFit ==
  ASSUME NEW t \in Task
  PROVE  Promise(t, CallsOf(t))
<1>1. CASE Script[t] \in BgpScripts \cup RouteScripts /\ Missing(Router)
  BY <1>1, RaiseFits DEF CallsOf
<1>2. CASE ~ (Script[t] \in BgpScripts \cup RouteScripts /\ Missing(Router))
  <2>1. CASE Script[t] \in {"panos_bgp", "panos_bgp_auth"}
    BY <1>2, <2>1, BgpFits, AuthFits DEF CallsOf
  <2>2. CASE Script[t] \in {"panos_bgp_peer", "panos_bgp_policy_rule", "panos_bgp_policy_filter",
                            "panos_bgp_dampening", "panos_bgp_redistribute"}
    BY <1>2, <2>2, ApplyFits DEF CallsOf
  <2>3. CASE Script[t] \in {"panos_bgp_peer_group", "panos_bgp_aggregate",
                            "panos_bgp_conditional_advertisement"}
    BY <1>2, <2>3, CreateFits DEF CallsOf
  <2>4. CASE Script[t] \in NameScripts
    BY <1>2, <2>4, NameFits DEF CallsOf, NameScripts, ZoneCalls, RouterCalls
  <2>5. CASE Script[t] \in RouteScripts \cup VpnScripts
    BY <1>2, <2>5, CryptoFits
    DEF CallsOf, RouteScripts, VpnScripts, GatewayCalls, IpsecProfileCalls
  <2>6. CASE Script[t] = "panos_management_profile"
    BY <1>2, <2>6, ManagementFits DEF CallsOf
  <2>7. QED
    BY <2>1, <2>2, <2>3, <2>4, <2>5, <2>6, TaskFacts DEF Scripts, BgpScripts
<1>3. QED
  BY <1>1, <1>2

-----------------------------------------------------------------------------
(* What a call does.                                                       *)

LEMMA MergeFacts ==
  ASSUME NEW new \in SUBSET Setting, NEW old \in SUBSET Setting
  PROVE  /\ Merge(new, old) \in SUBSET Setting /\ new \subseteq Merge(new, old)
         /\ Merge({}, old) = old
         /\ new # {} \/ old # {} => Merge(new, old) # {}
BY DEF Merge

(* The candidate after a call, place by place.                             *)
LEMMA CallParts ==
  ASSUME NEW t \in Task, NEW call \in Calls, cand \in Config, NEW o \in Object
  PROVE  /\ o = Target[t] => AfterCall(t, call)[o] = OwnAfter(t, call)
         /\ o \in Inside(Target[t]) => AfterCall(t, call)[o] = InsideAfter(t, call, o)
         /\ o # Target[t] /\ o \notin Inside(Target[t]) =>
              AfterCall(t, call)[o] =
                IF call # "delete" /\ o \in Above[Target[t]] THEN WithEntry(cand[o]) ELSE cand[o]
BY ConfigAssumption DEF AfterCall, Inside

LEMMA CallType ==
  ASSUME NEW t \in Task, NEW call \in Calls, cand \in Config, found \in Config
  PROVE  /\ AfterCall(t, call) \in Config
         /\ OwnAfter(t, call) \in SUBSET Setting
         /\ call \in Edits => Bare \in OwnAfter(t, call)
<1>1. OwnAfter(t, call) \in SUBSET Setting /\ (call \in Edits => Bare \in OwnAfter(t, call))
  BY TaskFacts, MergeFacts DEF OwnAfter, Config, Edits
<1>2. ASSUME NEW o \in Object PROVE InsideAfter(t, call, o) \in SUBSET Setting
  BY <1>2, TaskFacts, MergeFacts DEF InsideAfter, Config
<1>3. ASSUME NEW o \in Object PROVE WithEntry(cand[o]) \in SUBSET Setting /\ cand[o] \in SUBSET Setting
  BY <1>3, ConfigAssumption DEF WithEntry, Config
<1>4. QED
  BY <1>1, <1>2, <1>3 DEF AfterCall, Config

LEMMA DeleteRooted ==
  ASSUME NEW t \in Task, cand \in Config, Rooted(cand)
  PROVE  Rooted(AfterCall(t, "delete"))
<1> DEFINE c == AfterCall(t, "delete")
<1>1. SUFFICES ASSUME NEW o \in Object, c[o] # {}, NEW p \in Above[o]
               PROVE  c[p] # {}
  BY DEF Rooted
<1>2. p \in Object /\ "delete" \in Calls /\ Above[p] \subseteq Above[o]
  BY ConfigAssumption DEF Calls
<1>3. o # Target[t] /\ o \notin Inside(Target[t]) /\ cand[o] # {}
  BY <1>1, <1>2, CallParts DEF OwnAfter, InsideAfter
<1>4. p # Target[t] /\ p \notin Inside(Target[t]) /\ cand[p] # {}
  BY <1>2, <1>3 DEF Inside, Rooted
<1>5. QED
  BY <1>2, <1>4, CallParts

LEMMA EditRooted ==
  ASSUME NEW t \in Task, NEW call \in Edits, cand \in Config, Rooted(cand),
         found \in Config, Rooted(found)
  PROVE  Rooted(AfterCall(t, call))
<1> DEFINE c == AfterCall(t, call)
           T == Target[t]
<1>1. SUFFICES ASSUME NEW o \in Object, c[o] # {}, NEW p \in Above[o]
               PROVE  c[p] # {}
  BY DEF Rooted
<1>2. /\ p \in Object /\ call \in Calls /\ call # "delete" /\ T \in Object
      /\ Above[p] \subseteq Above[o] /\ o \notin Above[o] /\ T \notin Above[T]
  BY ConfigAssumption, TaskFacts DEF Calls, Edits
<1>3. c[T] # {}
  BY <1>2, CallParts, CallType
<1>4. \A q \in Above[T] : c[q] # {}
  <2>1. SUFFICES ASSUME NEW q \in Above[T] PROVE c[q] # {}
    OBVIOUS
  <2>2. q \in Object /\ q # T /\ q \notin Inside(T)
    BY <1>2, <2>1, ConfigAssumption DEF Inside
  <2>3. QED
    BY <1>2, <2>1, <2>2, CallParts DEF WithEntry
<1>5. CASE o = T
  BY <1>4, <1>5
<1>6. CASE o \in Above[T]
  <2>1. p \in Above[T]
    BY <1>6, ConfigAssumption, TaskFacts
  <2>2. QED
    BY <1>4, <2>1
<1>7. CASE o \in Inside(T) /\ o # T
  <2>1. T \in Above[o] /\ (p = T \/ p \in Above[T] \/ p \in Inside(T))
    BY <1>2, <1>7, ConfigAssumption DEF Inside
  <2>2. CASE p \in Inside(T)
    <3>1. /\ c[o] = InsideAfter(t, call, o) /\ c[p] = InsideAfter(t, call, p)
          /\ InsideAfter(t, call, o) # {}
      BY <1>1, <1>2, <1>7, <2>2, CallParts
    <3>2. (cand[o] # {} => cand[p] # {}) /\ (found[o] # {} => found[p] # {})
      BY DEF Rooted
    <3>3. Kids[t][o] # {} => Kids[t][p] # {}
      BY <1>2, <2>2, ConfigAssumption
    <3>4. /\ Kids[t][o] \in SUBSET Setting /\ Kids[t][p] \in SUBSET Setting
          /\ cand[o] \in SUBSET Setting /\ cand[p] \in SUBSET Setting
      BY <1>2, TaskFacts DEF Config
    <3>5. CASE call = "createWhole"
      <4>1. Merge(Kids[t][o], cand[o]) # {}
        BY <3>1, <3>5 DEF InsideAfter
      <4>2. Kids[t][o] # {} \/ cand[o] # {}
        BY <4>1 DEF Merge
      <4>3. Merge(Kids[t][p], cand[p]) # {}
        BY <3>2, <3>3, <3>4, <4>2, MergeFacts
      <4>4. QED
        BY <3>1, <3>5, <4>3 DEF InsideAfter
    <3>6. CASE call # "createWhole"
      BY <3>1, <3>2, <3>6 DEF InsideAfter
    <3>7. QED
      BY <3>5, <3>6
  <2>3. QED
    BY <1>3, <1>4, <2>1, <2>2
<1>8. CASE o # T /\ o \notin Inside(T) /\ o \notin Above[T]
  <2>1. cand[o] # {} /\ cand[p] # {}
    BY <1>1, <1>2, <1>8, CallParts DEF Rooted
  <2>2. p # T /\ p \notin Inside(T)
    BY <1>2, <1>8 DEF Inside
  <2>3. QED
    BY <1>2, <1>4, <2>1, <2>2, CallParts
<1>9. QED
  BY <1>5, <1>6, <1>7, <1>8

LEMMA CallHolds ==
  ASSUME NEW t \in Task, NEW call \in Calls, call # "raise", Fits(t, call), cand \in Config
  PROVE  Holds(t, AfterCall(t, call))
<1> DEFINE c == AfterCall(t, call)
<1>1. c[Target[t]] = OwnAfter(t, call) /\ Target[t] \in Object
  BY CallParts, TaskFacts
<1>2. CASE call = "delete"
  BY <1>1, <1>2 DEF Fits, OwnAfter, Holds, Edits
<1>3. CASE call \in Edits /\ State[t] = "present"
  <2>1. Asked[t] \subseteq c[Target[t]] /\ c[Target[t]] # {}
    BY <1>1, <1>3, TaskFacts, MergeFacts DEF OwnAfter, Edits, Config
  <2>2. ASSUME Script[t] = "panos_bgp", NEW o \in Object PROVE Kids[t][o] \subseteq c[o]
    <3>1. CASE o \in Inside(Target[t])
      <4>1. call = "createWhole"
        BY <1>3, <2>2 DEF Fits, Edits
      <4>2. c[o] = Merge(Kids[t][o], cand[o])
        BY <2>2, <3>1, <4>1, CallParts DEF InsideAfter
      <4>3. QED
        BY <2>2, <4>2, TaskFacts, MergeFacts DEF Config
    <3>2. CASE o \notin Inside(Target[t])
      BY <2>2, <3>2, ConfigAssumption
    <3>3. QED
      BY <3>1, <3>2
  <2>3. QED
    BY <1>3, <2>1, <2>2 DEF Holds
<1>4. QED
  BY <1>2, <1>3 DEF Fits, Calls, Edits

LEMMA CallOwn ==
  ASSUME NEW t \in Task, NEW call \in Calls, call # "raise", Fits(t, call), cand \in Config,
         NEW o \in Object, AfterCall(t, call)[o] # cand[o],
         call = "applyAround" => found = cand
  PROVE  o \in Own(t)
<1>1. CASE o = Target[t]
  BY <1>1 DEF Own
<1>2. CASE o \in Inside(Target[t]) /\ o # Target[t]
  <2>1. InsideAfter(t, call, o) # cand[o]
    BY <1>2, CallParts
  <2>2. CASE State[t] = "absent"
    BY <1>2, <2>2 DEF Own
  <2>3. CASE State[t] # "absent"
    <3>1. call = "createWhole"
      BY <1>2, <2>1, <2>3 DEF Fits, InsideAfter, Edits
    <3>2. Kids[t][o] # {}
      BY <2>1, <3>1, MergeFacts DEF InsideAfter, Config
    <3>3. QED
      BY <2>3, <3>2 DEF Own
  <2>4. QED
    BY <2>2, <2>3
<1>3. CASE o # Target[t] /\ o \notin Inside(Target[t])
  <2>1. call # "delete" /\ o \in Above[Target[t]] /\ cand[o] = {}
    BY <1>3, CallParts DEF WithEntry
  <2>2. QED
    BY <2>1 DEF Own, Fits, Missing, Edits
<1>4. QED
  BY <1>1, <1>2, <1>3

-----------------------------------------------------------------------------
(* The invariant.                                                          *)

LEMMA PromiseSeq ==
  ASSUME NEW t \in Task, NEW calls, Promise(t, calls)
  PROVE  calls \in Seq(Calls)
<1>1. ASSUME NEW a \in Calls, NEW b \in Calls PROVE <<a, b>> \in Seq(Calls) /\ <<a>> \in Seq(Calls)
  OBVIOUS
<1>2. {"apply", "create"} \subseteq Calls /\ <<>> \in Seq(Calls)
  BY DEF Calls
<1>3. QED
  BY <1>1, <1>2 DEF Promise

LEMMA ChangesBool ==
  ASSUME NEW t \in Task
  PROVE  Changes(t) \in BOOLEAN
BY DEF Changes, SameBgp, Same

(* The call that is next, and those that remain after it.                  *)
LEMMA NextCall ==
  ASSUME IInv, Calling
  PROVE  /\ task \in Task /\ todo[1] \in Calls /\ todo[1] # "raise" /\ Fits(task, todo[1])
         /\ todo[1] = "applyAround" /\ alone => found = cand
         /\ Tail(todo) \in Seq(Calls)
         /\ \/ Tail(todo) = <<>>
            \/ Tail(todo) = <<"create">> /\ Fits(task, "create")
<1>1. /\ task \in Task /\ todo # <<>> /\ todo[1] # "raise" /\ Fitting(task, todo)
      /\ alone /\ todo = <<"applyAround">> => found = cand
  BY DEF IInv, TypeOK, Calling, Busy, Copied
<1>2. CASE \E call \in Calls : todo = <<call>> /\ Fits(task, call)
  <2>1. PICK call \in Calls : todo = <<call>> /\ Fits(task, call)
    BY <1>2
  <2>2. todo[1] = call /\ Tail(todo) = <<>>
    BY <2>1
  <2>3. QED
    BY <1>1, <2>1, <2>2
<1>3. CASE todo = <<"apply", "create">> /\ Fits(task, "apply") /\ Fits(task, "create")
  <2>1. todo[1] = "apply" /\ Tail(todo) = <<"create">> /\ {"apply", "create"} \subseteq Calls
    BY <1>3 DEF Calls
  <2>2. <<"create">> \in Seq(Calls)
    BY <2>1
  <2>3. QED
    BY <1>1, <1>3, <2>1, <2>2
<1>4. QED
  BY <1>1, <1>2, <1>3 DEF Fitting

LEMMA CallRooted ==
  ASSUME IInv, Calling
  PROVE  AfterCall(task, todo[1]) \in Config /\ Rooted(AfterCall(task, todo[1]))
<1>1. cand \in Config /\ Rooted(cand) /\ found \in Config /\ Rooted(found)
  BY DEF IInv, TypeOK
<1>2. todo[1] = "delete" \/ todo[1] \in Edits
  BY NextCall DEF Calls, Edits
<1>3. QED
  BY <1>1, <1>2, NextCall, CallType, DeleteRooted, EditRooted

LEMMA NothingFacts == Nothing \in Config /\ Rooted(Nothing)
BY DEF Nothing, Config, Rooted

LEMMA PromiseFitting ==
  ASSUME NEW t, NEW calls, Promise(t, calls)
  PROVE  Fitting(t, calls)
BY DEF Promise, Fitting

LEMMA InitInv == Init => IInv
<1>1. SUFFICES ASSUME Init PROVE IInv
  OBVIOUS
<1>2. cand \in Config /\ Rooted(cand) /\ play \subseteq Task
  BY <1>1, ConfigAssumption DEF Init
<1>3. <<>> \in Seq(Calls)
  OBVIOUS
<1>4. TypeOK /\ Rooted(found)
  BY <1>1, <1>2, <1>3, NothingFacts DEF Init, TypeOK
<1>5. ~ Busy
  BY <1>1 DEF Init, Busy
<1>6. QED
  BY <1>4, <1>5 DEF IInv

LEMMA StartInv ==
  ASSUME IInv, NEW t \in Task, Start(t)
  PROVE  IInv'
<1>1. Promise(t, CallsOf(t)) /\ CallsOf(t) \in Seq(Calls) /\ Changes(t) \in BOOLEAN
  BY CallsFit, PromiseSeq, ChangesBool
<1>2. /\ task' = t /\ task' # Idle /\ todo' = CallsOf(t) /\ cand' = cand
      /\ found' = IF todo' = <<"applyAround">> THEN cand ELSE Nothing
  BY ConfigAssumption DEF Start
<1>3. TypeOK' /\ Rooted(found')
  BY <1>1, <1>2, NothingFacts DEF IInv, TypeOK, Start, Rooted
<1>4. Promise(task, todo)'
  BY <1>1, <1>2 DEF Promise, Holds, Fits, NameOnly, Waits
<1>5. Fitting(task, todo)' /\ Copied'
  BY <1>2, <1>4 DEF Promise, Fitting, Copied
<1>6. Rooted(found)'
  BY <1>3 DEF Rooted
<1>7. QED
  BY <1>3, <1>4, <1>5, <1>6 DEF IInv

(* When no task runs, the shape of the configurations is all there is.     *)
LEMMA RestInv ==
  ASSUME IInv, play' \subseteq Task, task' = Idle, todo' = <<>>, changed' = FALSE, touched' = FALSE,
         found' = Nothing, alone' = TRUE, queued' \in BOOLEAN,
         settled' \in Task \cup {Idle}, last' \in {"none", "ok", "failed"},
         cand' \in Config, Rooted(cand'), running' \in Config, Rooted(running')
  PROVE  IInv'
<1>1. <<>> \in Seq(Calls)
  OBVIOUS
<1>2. (Rooted(cand) /\ Rooted(running) /\ Rooted(found))' /\ found' \in Config
  BY NothingFacts DEF Rooted
<1>3. TypeOK'
  BY <1>1, <1>2 DEF TypeOK
<1>4. ~ Busy'
  BY DEF Busy
<1>5. QED
  BY <1>2, <1>3, <1>4 DEF IInv

(* The ends of a run.                                                      *)
LEMMA EndInv ==
  ASSUME IInv, EndsWell \/ Fails,
         cand' = cand \/ (Calling /\ cand' = AfterCall(task, todo[1])),
         running' = running \/ running' = cand, queued' \in {queued, TRUE}
  PROVE  IInv'
<1>1. cand' \in Config /\ Rooted(cand')
  BY CallRooted DEF IInv, TypeOK
<1>2. running' \in Config /\ Rooted(running') /\ queued' \in BOOLEAN
  BY DEF IInv, TypeOK
<1>3. /\ play' \subseteq Task /\ task' = Idle /\ todo' = <<>> /\ changed' = FALSE /\ touched' = FALSE
      /\ found' = Nothing /\ alone' = TRUE
      /\ settled' \in Task \cup {Idle} /\ last' \in {"none", "ok", "failed"}
  BY DEF EndsWell, Fails, End, IInv, TypeOK
<1>4. QED
  BY <1>1, <1>2, <1>3, RestInv

LEMMA CallInv ==
  ASSUME IInv, Call
  PROVE  IInv'
<1>1. /\ Calling /\ cand' = AfterCall(task, todo[1]) /\ todo' = Tail(todo)
      /\ play' = play /\ task' = task /\ running' = running /\ queued' = queued
      /\ changed' = changed /\ last' = last /\ alone' = alone /\ found' = Nothing
      /\ touched' \in BOOLEAN /\ settled' \in {settled, Idle}
  BY DEF Call
<1>2. task \in Task /\ task # Idle
  BY <1>1, NextCall, ConfigAssumption
<1>3. cand' \in Config /\ Rooted(cand') /\ todo' \in Seq(Calls)
  BY <1>1, CallRooted, NextCall
<1>4. TypeOK' /\ Rooted(found)'
  BY <1>1, <1>2, <1>3, NothingFacts DEF IInv, TypeOK, Rooted
<1>5. Holds(task, AfterCall(task, todo[1]))
  BY <1>1, NextCall, CallHolds DEF IInv, TypeOK
<1>6. Promise(task, todo)' /\ Copied'
  <2>1. CASE Tail(todo) = <<>>
    <3>1. Holds(task, cand)'
      BY <1>1, <1>5 DEF Holds, NameOnly
    <3>2. QED
      BY <1>1, <2>1, <3>1 DEF Promise, Copied
  <2>2. CASE Tail(todo) = <<"create">> /\ Fits(task, "create")
    <3>1. "create" \in Calls /\ <<"create">> # <<"applyAround">>
      BY DEF Calls
    <3>2. QED
      BY <1>1, <2>2, <3>1 DEF Promise, Fits, Copied
  <2>3. QED
    BY <1>1, <2>1, <2>2, NextCall
<1>7. Fitting(task, todo)'
  BY <1>6 DEF Promise, Fitting
<1>8. QED
  BY <1>4, <1>6, <1>7 DEF IInv

(* The steps that leave the task alone.                                    *)
LEMMA AsideInv ==
  ASSUME IInv, UNCHANGED run, cand' \in {cand, running},
         alone' \in BOOLEAN, ~ Busy => alone' = alone,
         Busy /\ alone' => alone /\ cand' = cand,
         running' \in {cand, running}, queued' \in BOOLEAN, settled' \in Task \cup {Idle},
         last' \in {"none", "ok", "failed"}
  PROVE  IInv'
<1>1. TypeOK' /\ Rooted(found)'
  BY DEF IInv, TypeOK, Rooted, run, Busy
<1>2. ASSUME Busy' PROVE Fitting(task, todo)' /\ Copied'
  <2>1. Busy /\ UNCHANGED <<task, todo, found>>
    BY <1>2 DEF Busy, run
  <2>2. Fitting(task, todo) /\ Copied
    BY <2>1 DEF IInv
  <2>3. QED
    BY <2>1, <2>2 DEF Fitting, Fits, Copied
<1>3. ASSUME Busy', alone' PROVE Promise(task, todo)'
  <2>1. Busy /\ alone /\ cand' = cand /\ task' = task /\ todo' = todo
    BY <1>3 DEF Busy, run
  <2>2. Promise(task, todo)
    BY <2>1 DEF IInv
  <2>3. QED
    BY <2>1, <2>2 DEF Promise, Holds, Fits, NameOnly
<1>4. QED
  BY <1>1, <1>2, <1>3 DEF IInv

LEMMA NextInv ==
  ASSUME IInv, [Next]_vars
  PROVE  IInv'
<1>0. /\ last \in {"none", "ok", "failed"} /\ settled \in Task \cup {Idle}
      /\ "ok" \in {"none", "ok", "failed"} /\ "failed" \in {"none", "ok", "failed"}
      /\ queued \in BOOLEAN /\ alone \in BOOLEAN /\ (~ Busy => alone)
  BY DEF IInv, TypeOK, Busy
<1>1. CASE \E t \in Task : Start(t)
  BY <1>1, StartInv
<1>2. CASE ReadFails
  BY <1>0, <1>2, AsideInv DEF ReadFails
<1>3. CASE Call
  BY <1>3, CallInv
<1>4. CASE CallFails
  BY <1>4, EndInv DEF CallFails
<1>5. CASE CallLost
  BY <1>5, EndInv DEF CallLost
<1>6. CASE Raise
  BY <1>6, EndInv DEF Raise
<1>7. CASE Finish
  BY <1>7, EndInv DEF Finish
<1>8. CASE CommitAll
  BY <1>8, EndInv DEF CommitAll, Publish
<1>9. CASE CommitNotNeeded
  BY <1>9, EndInv DEF CommitNotNeeded
<1>10. CASE CommitRejected
  BY <1>10, EndInv DEF CommitRejected
<1>11. CASE CommitLost
  BY <1>11, EndInv DEF CommitLost, Publish
<1>12. CASE CommitByOthers
  BY <1>0, <1>12, AsideInv DEF CommitByOthers
<1>13. CASE CommitQueued
  BY <1>0, <1>13, AsideInv DEF CommitQueued
<1>14. CASE Revert
  <2>1. /\ UNCHANGED run /\ cand' \in {cand, running} /\ running' = running
        /\ alone' \in BOOLEAN /\ (~ Busy => alone' = alone)
        /\ (Busy /\ alone' => alone /\ cand' = cand)
        /\ queued' \in BOOLEAN /\ settled' \in Task \cup {Idle} /\ last' = last
    BY <1>0, <1>14 DEF Revert, Busy
  <2>2. QED
    BY <1>0, <2>1, AsideInv
<1>15. CASE UNCHANGED vars
  BY <1>0, <1>15, AsideInv DEF vars
<1>16. QED
  BY <1>1, <1>2, <1>3, <1>4, <1>5, <1>6, <1>7, <1>8, <1>9, <1>10, <1>11, <1>12, <1>13, <1>14, <1>15
  DEF Next, Step

THEOREM Invariant == Spec => []IInv
<1>1. IInv /\ [Next]_vars => IInv'
  BY NextInv
<1>2. QED
  BY <1>1, InitInv, PTL DEF Spec

(* The variables have their types, and the candidate and the running       *)
(* configuration remain trees whatever calls are made, fail or are lost.   *)
THEOREM TypeCorrect == Spec => []TypeOK
<1>1. IInv => TypeOK
  BY DEF IInv
<1>2. QED
  BY <1>1, Invariant, PTL

-----------------------------------------------------------------------------
(* The action properties.                                                  *)

LEMMA StepConfined ==
  ASSUME IInv, Step, alone \/ Waits(task), NEW o \in Object, cand'[o] # cand[o]
  PROVE  o \in Own(task)
<1>1. Calling /\ cand' = AfterCall(task, todo[1])
  BY DEF Step, Call, CallFails, CallLost, Raise, Finish, CommitAll, CommitNotNeeded,
         CommitRejected, CommitLost
<1>2. cand \in Config
  BY DEF IInv, TypeOK
<1>3. todo[1] = "applyAround" => found = cand
  BY <1>1, NextCall DEF Fits, Edits
<1>4. QED
  BY <1>1, <1>2, <1>3, NextCall, CallOwn

(* No task edits an object that is not its own, for every tree of objects, *)
(* every set of tasks, whatever fails and whatever others revert - but for *)
(* a management profile, when others reverted what it had read.            *)
THEOREM Confined == Spec => OnlyOwn
<1>1. IInv /\ [Next]_vars =>
        [Step /\ (alone \/ Waits(task)) =>
           \A o \in Object : cand'[o] # cand[o] => o \in Own(task)]_vars
  BY StepConfined
<1>2. QED
  BY <1>1, Invariant, PTL DEF Spec, OnlyOwn

LEMMA StepTruthful ==
  ASSUME IInv, [Next]_vars, Ends("ok"), alone
  PROVE  Holds(task, cand')
<1>1. Called /\ cand' = cand
  BY DEF Next, Step, Start, ReadFails, Call, CallFails, CallLost, Raise, Finish, CommitAll,
         CommitNotNeeded, CommitRejected, CommitLost, CommitByOthers, CommitQueued, Revert,
         Fails, EndsWell, End, Ends, Busy, run, vars
<1>2. Promise(task, todo) /\ todo = <<>>
  BY <1>1 DEF IInv, Called
<1>3. QED
  BY <1>1, <1>2 DEF Promise

(* A task that ends well left its object as it was asked to, also when it  *)
(* decided that there was nothing to do: whichever script it is, whatever  *)
(* fails and whoever commits meanwhile, if nobody reverts the candidate    *)
(* between its read and its end.                                           *)
THEOREM Truthful == Spec => OkMeansAsked
<1>1. IInv /\ [Next]_vars => [Ends("ok") /\ alone => Holds(task, cand')]_vars
  BY StepTruthful
<1>2. QED
  BY <1>1, Invariant, PTL DEF Spec, OkMeansAsked

-----------------------------------------------------------------------------
(* What a BGP task edited is counted as changed, so that it commits.       *)
Counted ==
  Busy /\ Reports(task) /\ (touched \/ (todo # <<>> /\ todo[1] # "raise")) => changed

(* A script that counts counts the call it is going to make.               *)
LEMMA CallCounts ==
  ASSUME NEW t \in Task, Reports(t), CallsOf(t) # <<>>, CallsOf(t)[1] # "raise"
  PROVE  Changes(t)
<1>1. CASE Script[t] = "panos_bgp"
  <2>1. State[t] = "present"
    BY <1>1, TaskFacts DEF Reports
  <2>2. CASE SameBgp(t)
    <3>1. CallsOf(t) = <<"raise">> \/ CallsOf(t) = <<>>
      BY <1>1, <2>1, <2>2 DEF CallsOf, BgpCalls, When
    <3>2. QED
      BY <3>1
  <2>3. QED
    BY <1>1, <2>2 DEF Changes
<1>2. QED
  BY <1>1 DEF Changes

LEMMA CountedStep ==
  ASSUME IInv, Counted, [Next]_vars
  PROVE  Counted'
<1>1. ASSUME NEW t \in Task, Start(t)
      PROVE  Counted'
  <2>1. ~ touched /\ touched' = touched /\ task' = t /\ todo' = CallsOf(t)
        /\ changed' = Changes(t)
    BY <1>1 DEF Start, IInv, TypeOK
  <2>2. QED
    BY <2>1, CallCounts DEF Counted, Reports, Loud
<1>2. CASE Call
  BY <1>2 DEF Call, Calling, Counted, Busy, Reports, Loud
<1>3. CASE ReadFails \/ CommitByOthers \/ CommitQueued \/ Revert \/ UNCHANGED vars
  BY <1>3 DEF ReadFails, CommitByOthers, CommitQueued, Revert, vars, run, Counted, Busy, Reports, Loud
<1>4. CASE Step /\ ~ Call
  BY <1>4 DEF Step, CallFails, CallLost, Raise, Finish, CommitAll, CommitNotNeeded,
         CommitRejected, CommitLost, EndsWell, Fails, End, Counted, Busy
<1>5. QED
  BY <1>1, <1>2, <1>3, <1>4 DEF Next

LEMMA StepCommits ==
  ASSUME Counted, [Next]_vars, Ends("ok"), Commits(task), Reports(task), touched
  PROVE  running' = cand'
<1>1. MustCommit /\ Loud(task)
  BY DEF Counted, Ends, MustCommit, Reports
<1>2. CommitAll
  BY <1>1 DEF Next, Step, Start, ReadFails, Call, CallFails, CallLost, Raise, Finish,
         CommitNotNeeded, CommitRejected, CommitLost, CommitByOthers, CommitQueued, Revert,
         Fails, End, Ends, Busy, run, vars
<1>3. Waits(task)
  BY <1>1 DEF Loud, Waits, BgpScripts
<1>4. QED
  BY <1>2, <1>3 DEF CommitAll, Publish

(* A BGP task with commit that ends well and edited anything has committed *)
(* it, whichever script it is and whatever the firewall answered.          *)
THEOREM Committed == Spec => CommitIfChanged
<1>1. Init => Counted
  BY DEF Init, Counted, Busy
<1>2. IInv /\ Counted /\ [Next]_vars => Counted'
  BY CountedStep
<1>3. Counted /\ [Next]_vars =>
        [Ends("ok") /\ Commits(task) /\ Reports(task) /\ touched => running' = cand']_vars
  BY StepCommits
<1>4. QED
  BY <1>1, <1>2, <1>3, Invariant, PTL DEF Spec, CommitIfChanged

-----------------------------------------------------------------------------
(* Run again: the calls of a task that is at rest are those its script     *)
(* decides on for the candidate as it is now, and after the one call there *)
(* are none.                                                               *)
Decided ==
  /\ Busy /\ alone /\ ~ Restless(task) => todo = CallsOf(task)
  /\ Busy /\ ~ alone => settled = Idle
AtRest  == settled # Idle /\ ~ Restless(settled) => CallsOf(settled) = <<>>

(* The scripts that come to rest make one call at most, and create only    *)
(* what is missing.                                                        *)
Calm(t, calls) ==
  \/ calls \in {<<>>, <<"raise">>}
  \/ State[t] = "absent" /\ calls = <<"delete">>
  \/ State[t] = "present" /\ calls \in {<<"apply">>, <<"applyAround">>}
  \/ State[t] = "present" /\ Missing(Target[t]) /\ calls = <<"create">>

LEMMA CallsCalm ==
  ASSUME NEW t \in Task, ~ Restless(t)
  PROVE  Calm(t, CallsOf(t))
<1>1. State[t] = "absent" => Calm(t, Drop(t))
  BY DEF Calm, Drop, When
<1>2. CASE Script[t] \in BgpScripts \cup RouteScripts /\ Missing(Router)
  BY <1>2 DEF CallsOf, Calm
<1>3. CASE ~ (Script[t] \in BgpScripts \cup RouteScripts /\ Missing(Router))
  <2>1. CASE Script[t] = "panos_bgp_auth"
    BY <1>1, <1>3, <2>1, TaskFacts DEF CallsOf, AuthCalls, Attached, When, Calm
  <2>2. CASE Script[t] = "panos_bgp_peer"
    BY <1>1, <1>3, <2>2, TaskFacts DEF CallsOf, PeerCalls, When, Calm
  <2>3. CASE Script[t] = "panos_bgp_policy_rule"
    BY <1>1, <1>3, <2>3, TaskFacts DEF CallsOf, RuleCalls, When, Calm
  <2>4. CASE Script[t] = "panos_bgp_policy_filter"
    BY <1>1, <1>3, <2>4, TaskFacts DEF CallsOf, FilterCalls, When, Calm
  <2>5. CASE Script[t] = "panos_bgp_dampening"
    BY <1>1, <1>3, <2>5, TaskFacts DEF CallsOf, DampeningCalls, Attached, When, Calm
  <2>6. CASE Script[t] = "panos_bgp_redistribute"
    BY <1>1, <1>3, <2>6, TaskFacts DEF CallsOf, RedistributeCalls, When, Calm
  <2>7. CASE Script[t] \in RouteScripts
    BY <1>1, <1>3, <2>7, TaskFacts
    DEF RouteScripts, CallsOf, RouteCalls, RouteFcaCalls, When, Calm
  <2>8. CASE Script[t] \in NameScripts
    BY <1>1, <1>3, <2>8, TaskFacts
    DEF NameScripts, CallsOf, ProfileCalls, ZoneCalls, RouterCalls, When, Calm
  <2>9. CASE Script[t] \in VpnScripts
    BY <1>1, <1>3, <2>9, TaskFacts
    DEF VpnScripts, CallsOf, CryptoCalls, GatewayCalls, IpsecProfileCalls, When, Calm, Restless
  <2>10. CASE Script[t] = "panos_management_profile"
    BY <1>1, <1>3, <2>10, TaskFacts DEF CallsOf, ManagementCalls, When, Calm
  <2>11. QED
    BY <2>1, <2>2, <2>3, <2>4, <2>5, <2>6, <2>7, <2>8, <2>9, <2>10, TaskFacts
    DEF Scripts, BgpScripts, Restless
<1>4. QED
  BY <1>2, <1>3

(* A call leaves what the object is inside of, and the object as the       *)
(* scripts that come to rest look at it.                                   *)
LEMMA Left ==
  ASSUME NEW t \in Task, ~ Restless(t), NEW call \in Calls, call # "raise",
         CallsOf(t) = <<call>>, cand \in Config, cand' = AfterCall(t, call)
  PROVE  /\ \A o \in Above[Target[t]] : ~ Missing(o) => ~ Missing(o)'
         /\ State[t] = "absent" => Missing(Target[t])'
         /\ State[t] = "present" => Same(t)' /\ ~ Missing(Target[t])'
<1>1. /\ State[t] = "absent" /\ call = "delete"
      \/ /\ State[t] = "present"
         /\ call \in {"apply", "applyAround"} \/ (call = "create" /\ Missing(Target[t]))
  BY CallsCalm DEF Calm
<1>2. ASSUME NEW o \in Above[Target[t]], ~ Missing(o)
      PROVE  ~ Missing(o)'
  <2>1. o \in Object /\ o # Target[t] /\ o \notin Inside(Target[t])
    BY <1>2, TaskFacts, ConfigAssumption DEF Inside
  <2>2. cand'[o] = WithEntry(cand[o]) \/ cand'[o] = cand[o]
    BY <2>1, CallParts
  <2>3. QED
    BY <1>2, <2>2 DEF Missing, WithEntry
<1>3. cand'[Target[t]] = OwnAfter(t, call)
  BY TaskFacts, CallParts
<1>4. CASE State[t] = "absent"
  BY <1>1, <1>2, <1>3, <1>4 DEF OwnAfter, Missing
<1>5. CASE State[t] = "present"
  <2>1. Missing(Target[t]) => Merge(Asked[t], cand[Target[t]]) = Asked[t]
    BY DEF Merge, Missing
  <2>2. cand'[Target[t]] = Asked[t]
    BY <1>1, <1>3, <1>5, <2>1 DEF OwnAfter
  <2>3. QED
    BY <1>2, <1>5, <2>2, TaskFacts DEF Same, Missing
<1>6. QED
  BY <1>4, <1>5, TaskFacts

(* So that there is nothing more to call.                                  *)
LEMMA Rests ==
  ASSUME NEW t \in Task, ~ Restless(t), NEW call \in Calls, call # "raise",
         CallsOf(t) = <<call>>, cand \in Config, cand' = AfterCall(t, call)
  PROVE  CallsOf(t)' = <<>>
<1>1. /\ State[t] = "absent" => Missing(Target[t])'
      /\ State[t] = "present" => Same(t)' /\ ~ Missing(Target[t])'
  BY Left
<1>2. Script[t] \notin Trees => (Same(t)' => SameWithin(t)')
  BY TaskFacts DEF SameWithin
<1>3. /\ Script[t] \in BgpScripts \cup RouteScripts => ~ Missing(Router)'
      /\ Script[t] \in {"panos_bgp_peer", "panos_bgp_policy_filter"} /\ ~ Missing(Holder[t])
           => ~ Missing(Holder[t])'
  <2>1. Script[t] \in BgpScripts \cup RouteScripts => ~ Missing(Router)
    BY DEF CallsOf
  <2>2. QED
    BY <2>1, Left, NestAssumption
<1>4. State[t] = "absent" => Drop(t)' = <<>>
  BY <1>1 DEF Drop, When
<1> USE TaskFacts
<1>5. CASE Script[t] = "panos_bgp_auth"
  BY <1>1, <1>3, <1>4, <1>5 DEF CallsOf, AuthCalls, When, Restless, BgpScripts
<1>6. CASE Script[t] = "panos_bgp_peer"
  BY <1>1, <1>3, <1>4, <1>6 DEF CallsOf, PeerCalls, When, BgpScripts
<1>7. CASE Script[t] = "panos_bgp_policy_rule"
  BY <1>1, <1>2, <1>3, <1>4, <1>7 DEF CallsOf, RuleCalls, When, BgpScripts, Trees, NameScripts
<1>8. CASE Script[t] = "panos_bgp_policy_filter"
  BY <1>1, <1>2, <1>3, <1>4, <1>8 DEF CallsOf, FilterCalls, When, BgpScripts, Trees, NameScripts
<1>9. CASE Script[t] = "panos_bgp_dampening"
  BY <1>1, <1>3, <1>4, <1>9 DEF CallsOf, DampeningCalls, When, BgpScripts
<1>10. CASE Script[t] = "panos_bgp_redistribute"
  BY <1>1, <1>2, <1>3, <1>4, <1>10
  DEF CallsOf, RedistributeCalls, When, BgpScripts, Trees, NameScripts
<1>11. CASE Script[t] \in RouteScripts
  BY <1>1, <1>3, <1>4, <1>11 DEF CallsOf, RouteScripts, RouteCalls, RouteFcaCalls, When
<1>12. CASE Script[t] \in NameScripts
  BY <1>1, <1>4, <1>12
  DEF CallsOf, NameScripts, BgpScripts, RouteScripts, ProfileCalls, ZoneCalls, RouterCalls, When
<1>13. CASE Script[t] \in VpnScripts
  BY <1>1, <1>4, <1>13 DEF CallsOf, VpnScripts, BgpScripts, RouteScripts, CryptoCalls,
         GatewayCalls, IpsecProfileCalls, When, Restless
<1>14. CASE Script[t] = "panos_management_profile"
  BY <1>1, <1>4, <1>14 DEF CallsOf, BgpScripts, RouteScripts, ManagementCalls, When
<1>15. QED
  BY <1>5, <1>6, <1>7, <1>8, <1>9, <1>10, <1>11, <1>12, <1>13, <1>14
  DEF Scripts, BgpScripts, Restless

(* What a script decides is a function of the candidate.                   *)
LEMMA SameCalls ==
  ASSUME NEW t, cand' = cand
  PROVE  CallsOf(t)' = CallsOf(t)
BY DEF CallsOf, BgpCalls, AuthCalls, PeerCalls, GroupCalls, RuleCalls, FilterCalls,
       AggregateCalls, ConditionalCalls, DampeningCalls, RedistributeCalls, ProfileCalls,
       RouteCalls, RouteFcaCalls, CryptoCalls, GatewayCalls, IpsecProfileCalls, TunnelCalls,
       ManagementCalls, ZoneCalls, RouterCalls, Drop, Attached, SameBgp, SameWithin, Same, Missing

RestInvariant == Decided /\ AtRest /\ RunAgain

LEMMA RestStep ==
  ASSUME IInv, RestInvariant, [Next]_vars
  PROVE  RestInvariant'
<1>0. /\ settled \in Task \cup {Idle} /\ (Busy => task \in Task) /\ cand \in Config
      /\ Idle \notin Task /\ alone \in BOOLEAN /\ (~ Busy => alone)
  BY ConfigAssumption DEF IInv, TypeOK, Busy
<1> USE DEF RestInvariant, RunAgain, Decided, AtRest, Busy, Restless
<1>1. ASSUME NEW t \in Task, Start(t)
      PROVE  RestInvariant'
  <2>1. cand' = cand /\ settled' = settled /\ task' = t /\ todo' = CallsOf(t)
        /\ changed' = Changes(t) /\ alone' = alone /\ alone
    BY <1>0, <1>1 DEF Start
  <2>2. ~ Restless(t) => (Changes(t) <=> CallsOf(t) # <<>>)
    BY DEF Changes
  <2>3. QED
    BY <2>1, <2>2, SameCalls
<1>2. CASE Call
  <2>1. /\ Busy /\ task \in Task /\ todo # <<>> /\ todo[1] # "raise"
        /\ cand' = AfterCall(task, todo[1]) /\ todo' = Tail(todo)
        /\ task' = task /\ changed' = changed /\ alone' = alone
        /\ settled' = IF cand' = cand THEN settled ELSE Idle
    BY <1>0, <1>2 DEF Call, Calling
  <2>2. CASE Restless(task) \/ ~ alone
    <3>1. settled' = settled \/ settled' = Idle
      BY <2>1
    <3>2. settled' # Idle => CallsOf(settled)' = CallsOf(settled)
      BY <2>1, SameCalls
    <3>3. QED
      BY <1>0, <2>1, <2>2, <3>1, <3>2
  <2>3. CASE ~ Restless(task) /\ alone
    <3>1. PICK call \in Calls : CallsOf(task) = <<call>> /\ todo = <<call>>
      <4>1. Calm(task, todo) /\ todo = CallsOf(task)
        BY <2>1, <2>3, CallsCalm
      <4>2. {"raise", "apply", "applyAround", "create", "delete"} \subseteq Calls
        BY DEF Calls
      <4>3. QED
        BY <2>1, <4>1, <4>2 DEF Calm
    <3>2. todo[1] = call /\ Tail(todo) = <<>>
      BY <3>1
    <3>3. CallsOf(task)' = <<>>
      BY <1>0, <2>1, <2>3, <3>1, <3>2, Rests
    <3>4. QED
      BY <2>1, <2>3, <3>2, <3>3, SameCalls
  <2>4. QED
    BY <2>2, <2>3
<1>3. CASE Finish \/ CommitAll \/ CommitRejected
  <2>1. /\ task # Idle /\ todo = <<>> /\ cand' = cand /\ (EndsWell \/ Fails)
    BY <1>3 DEF Finish, CommitAll, CommitRejected, Called
  <2>2. task' = Idle /\ (settled' = Idle \/ (settled' = task /\ alone))
    BY <2>1 DEF EndsWell, Fails, End
  <2>3. CASE settled' = task /\ alone
    <3>1. PICK t \in Task : t = task
      BY <1>0, <2>1
    <3>2. CallsOf(t)' = CallsOf(t)
      BY <2>1, SameCalls
    <3>3. ~ Restless(t) => CallsOf(t) = <<>>
      BY <2>1, <2>3, <3>1
    <3>4. QED
      BY <2>2, <2>3, <3>1, <3>2, <3>3
  <2>4. CASE settled' = Idle
    BY <2>2, <2>4
  <2>5. QED
    BY <2>2, <2>3, <2>4
<1>4. CASE CallFails \/ CallLost \/ Raise \/ CommitNotNeeded \/ CommitLost
  BY <1>4 DEF CallFails, CallLost, Raise, CommitNotNeeded, CommitLost, Fails, End
<1>5. CASE ReadFails \/ CommitByOthers \/ CommitQueued \/ UNCHANGED vars
  <2>1. /\ UNCHANGED <<cand, task, todo, changed, alone>>
        /\ settled' = settled \/ (settled' = Idle /\ ~ Busy)
    BY <1>5 DEF ReadFails, CommitByOthers, CommitQueued, vars, run
  <2>2. CallsOf(settled)' = CallsOf(settled) \/ settled' # settled
    BY <2>1, SameCalls
  <2>3. CallsOf(task)' = CallsOf(task)
    BY <2>1, SameCalls
  <2>4. QED
    BY <2>1, <2>2, <2>3
<1>6. CASE Revert
  <2>1. /\ UNCHANGED <<task, todo, changed>>
        /\ Busy => (alone' = (alone /\ cand' = cand))
        /\ settled' = IF cand' = cand THEN settled ELSE Idle
    BY <1>6 DEF Revert, run
  <2>2. CASE cand' = cand
    <3>1. CallsOf(settled)' = CallsOf(settled) /\ CallsOf(task)' = CallsOf(task)
      BY <2>1, <2>2, SameCalls
    <3>2. QED
      BY <1>0, <2>1, <2>2, <3>1
  <2>3. CASE cand' # cand
    BY <1>0, <2>1, <2>3
  <2>4. QED
    BY <2>2, <2>3
<1>7. QED
  BY <1>1, <1>2, <1>3, <1>4, <1>5, <1>6 DEF Next, Step

(* Every script but the five that are never at rest is idempotent: run     *)
(* again after it ended well, with no edit in between, a task calls        *)
(* nothing and reports no change.                                          *)
THEOREM Idempotent == Spec => []RunAgain
<1>1. Init => RestInvariant
  BY DEF Init, RestInvariant, Decided, AtRest, RunAgain, Busy
<1>2. IInv /\ RestInvariant /\ [Next]_vars => RestInvariant'
  BY RestStep
<1>3. RestInvariant => RunAgain
  BY DEF RestInvariant
<1>4. QED
  BY <1>1, <1>2, <1>3, Invariant, PTL DEF Spec

-----------------------------------------------------------------------------
(* What runs.  While no reply is lost and no commit fails, the running     *)
(* configuration has all that tasks which wait for their commit are about  *)
(* as the candidate has it, but for a tunnel that is in the candidate:     *)
(* panos_ipsec_tunnel makes two calls, and the second may fail.            *)

(* The objects that a task asks for, and those that it may edit.           *)
Claims(t) == {Target[t]} \cup {o \in Object : Script[t] = "panos_bgp" /\ Kids[t][o] # {}}
Edited(t) ==
  {Target[t]} \cup
  IF State[t] = "absent" THEN Inside(Target[t])
  ELSE IF ~ Waits(t) THEN Inside(Target[t]) \cup Above[Target[t]]
  ELSE {o \in Object : Kids[t][o] # {}} \cup Above[Target[t]]
Tunnels == {Target[t] : t \in {u \in Task : Script[u] = "panos_ipsec_tunnel"}}
Watched == UNION {Claims(u) : u \in {t \in Task : Publishes(t)}}

(* No reply is lost and no commit fails.                                   *)
Answered == {"lost", "commit"} \cap Flaky = {}
(* No task that does not wait for a commit edits what one that does asks   *)
(* for, and tunnels are written by their own script only.                  *)
Apart ==
  /\ \A t \in Task : ~ Publishes(t) => Edited(t) \cap Watched = {}
  /\ \A t \in Task : Script[t] # "panos_ipsec_tunnel" => Claims(t) \cap Tunnels = {}
(* panos_bgp with state absent does not count its deletion (317).          *)
DeletesUncounted == \E t \in Task : Publishes(t) /\ Script[t] = "panos_bgp" /\ State[t] = "absent"

Alike(o) == running[o] = cand[o] \/ (o \in Tunnels /\ cand[o] # {})
AllAlike == \A o \in Watched : Alike(o)
Pending  == Busy /\ Publishes(task) /\ changed /\ todo = <<>>

(* At most one call, but for a tunnel.                                     *)
FewCalls(t, calls) ==
  \/ calls = <<>> \/ \E call \in Calls : calls = <<call>>
  \/ Script[t] = "panos_ipsec_tunnel" /\ calls = <<"apply", "create">>
(* What a task with commit is going to call, it has counted; a tunnel is   *)
(* always written.                                                         *)
Counts(t, calls, counted) ==
  \/ counted \/ calls = <<"raise">>
  \/ calls = <<>> /\ ~ (Script[t] = "panos_ipsec_tunnel" /\ State[t] = "present")
RunsInv ==
  /\ AllAlike \/ Pending
  /\ Busy => FewCalls(task, todo)
  /\ Busy /\ Publishes(task) => Counts(task, todo, changed)

LEMMA WhenFew ==
  ASSUME NEW t, NEW call \in Calls, NEW c
  PROVE  FewCalls(t, When(c, call)) /\ FewCalls(t, <<call>>)
BY DEF FewCalls, When

LEMMA CallsFew ==
  ASSUME NEW t \in Task
  PROVE  FewCalls(t, CallsOf(t))
<1>1. {"raise", "apply", "applyAround", "create", "createWhole", "delete"} \subseteq Calls
  BY DEF Calls
<1>2. \A call \in {"apply", "delete", "createWhole"} : Attached(call) \in Calls
  BY DEF Attached, Calls
<1>3. /\ \A call \in Calls, c \in BOOLEAN : FewCalls(t, When(c, call))
      /\ \A call \in Calls : FewCalls(t, <<call>>)
  BY WhenFew
<1>4. /\ SameBgp(t) \in BOOLEAN /\ Same(t) \in BOOLEAN /\ SameWithin(t) \in BOOLEAN
      /\ (t \in Replace \/ Missing(Target[t])) \in BOOLEAN /\ Missing(Target[t]) \in BOOLEAN
  BY DEF SameBgp, Same, SameWithin, Missing
<1>5. FewCalls(t, Drop(t)) /\ FewCalls(t, ProfileCalls(t)) /\ FewCalls(t, CryptoCalls(t))
  BY <1>1, <1>3, <1>4 DEF Drop, ProfileCalls, CryptoCalls
<1>6. /\ FewCalls(t, BgpCalls(t)) /\ FewCalls(t, AuthCalls(t)) /\ FewCalls(t, PeerCalls(t))
      /\ FewCalls(t, GroupCalls(t)) /\ FewCalls(t, RuleCalls(t)) /\ FewCalls(t, FilterCalls(t))
  BY <1>1, <1>2, <1>3, <1>4, <1>5
  DEF BgpCalls, AuthCalls, PeerCalls, GroupCalls, RuleCalls, FilterCalls
<1>7. /\ FewCalls(t, AggregateCalls(t)) /\ FewCalls(t, ConditionalCalls(t))
      /\ FewCalls(t, DampeningCalls(t)) /\ FewCalls(t, RedistributeCalls(t))
      /\ FewCalls(t, RouteCalls(t)) /\ FewCalls(t, ManagementCalls(t))
  BY <1>1, <1>2, <1>3, <1>4, <1>5
  DEF AggregateCalls, ConditionalCalls, DampeningCalls, RedistributeCalls, RouteCalls, ManagementCalls
<1>8. FewCalls(t, RouteFcaCalls(t))
  BY <1>1, <1>3, <1>4, <1>7 DEF RouteFcaCalls
<1>9. Script[t] = "panos_ipsec_tunnel" => FewCalls(t, TunnelCalls(t))
  BY <1>1, <1>3, <1>5 DEF TunnelCalls, FewCalls
<1>10. FewCalls(t, <<"raise">>)
  BY <1>1, <1>3
<1> HIDE DEF FewCalls
<1>11. CASE Script[t] \in BgpScripts \cup RouteScripts
  BY <1>6, <1>7, <1>8, <1>10, <1>11 DEF CallsOf, BgpScripts, RouteScripts
<1>12. CASE Script[t] \notin BgpScripts \cup RouteScripts
  BY <1>5, <1>7, <1>9, <1>12, TaskFacts DEF CallsOf, BgpScripts, RouteScripts, VpnScripts, NameScripts,
     Scripts, GatewayCalls, IpsecProfileCalls, ZoneCalls, RouterCalls
<1>13. QED
  BY <1>11, <1>12

LEMMA CallsCount ==
  ASSUME ~ DeletesUncounted, NEW t \in Task, Publishes(t)
  PROVE  Counts(t, CallsOf(t), Changes(t))
<1>1. CASE Script[t] = "panos_bgp"
  <2>1. State[t] = "present"
    BY <1>1, TaskFacts DEF DeletesUncounted
  <2>2. SameBgp(t) => CallsOf(t) = <<"raise">> \/ CallsOf(t) = <<>>
    BY <1>1, <2>1 DEF CallsOf, BgpCalls, When
  <2>3. QED
    BY <1>1, <2>2 DEF Changes, Counts
<1>2. CASE Script[t] = "panos_ipsec_tunnel"
  <2>1. CallsOf(t) = TunnelCalls(t)
    BY <1>2 DEF CallsOf, BgpScripts, RouteScripts
  <2>2. State[t] = "present" => TunnelCalls(t) # <<>>
    BY DEF TunnelCalls
  <2>3. QED
    BY <1>2, <2>1, <2>2 DEF Changes, Counts
<1>3. CASE Script[t] \notin {"panos_bgp", "panos_ipsec_tunnel"}
  BY <1>3 DEF Changes, Counts
<1>4. QED
  BY <1>1, <1>2, <1>3

LEMMA OwnEdited ==
  ASSUME NEW t \in Task
  PROVE  Own(t) \subseteq Edited(t)
BY ConfigAssumption DEF Own, Edited

(* Also a task that writes back what it copied edits nothing else.         *)
LEMMA CallEdited ==
  ASSUME NEW t \in Task, NEW call \in Calls, call # "raise", Fits(t, call), cand \in Config,
         NEW o \in Object, AfterCall(t, call)[o] # cand[o]
  PROVE  o \in Edited(t)
<1>1. CASE call # "applyAround"
  BY <1>1, CallOwn, OwnEdited
<1>2. CASE call = "applyAround"
  <2>1. State[t] # "absent" /\ ~ Waits(t)
    BY <1>2 DEF Fits, Edits
  <2>2. o = Target[t] \/ o \in Inside(Target[t]) \/ o \in Above[Target[t]]
    BY CallParts
  <2>3. QED
    BY <2>1, <2>2 DEF Edited
<1>3. QED
  BY <1>1, <1>2

(* The first of two calls writes a tunnel, and nothing else.               *)
LEMMA TunnelWritten ==
  ASSUME IInv, NEW t \in Task, Script[t] = "panos_ipsec_tunnel"
  PROVE  /\ AfterCall(t, "apply")[Target[t]] # {}
         /\ \A o \in Object : o # Target[t] => AfterCall(t, "apply")[o] = cand[o]
<1>1. /\ cand \in Config /\ "apply" \in Calls /\ Target[t] \in Object
      /\ Bare \in Asked[t] /\ Inside(Target[t]) = {} /\ Above[Target[t]] = {}
  BY TaskFacts, NestAssumption DEF IInv, TypeOK, Calls, Trees, NameScripts
<1>2. AfterCall(t, "apply")[Target[t]] # {}
  BY <1>1, CallParts DEF OwnAfter
<1>3. ASSUME NEW o \in Object, o # Target[t]
      PROVE  AfterCall(t, "apply")[o] = cand[o]
  BY <1>1, <1>3, CallParts
<1>4. QED
  BY <1>2, <1>3

LEMMA CallRuns ==
  ASSUME IInv, Apart, RunsInv, Call
  PROVE  RunsInv'
<1>1. /\ Calling /\ cand' = AfterCall(task, todo[1]) /\ todo' = Tail(todo)
      /\ task' = task /\ running' = running /\ changed' = changed
  BY DEF Call
<1>2. /\ task \in Task /\ todo # <<>> /\ todo[1] # "raise" /\ Busy /\ Busy'
      /\ todo \in Seq(Calls)
  BY <1>1, NextCall DEF Calling, Busy, IInv, TypeOK
<1>3. AllAlike /\ FewCalls(task, todo)
  BY <1>2 DEF RunsInv, Pending
<1>4. Publishes(task) => changed
  <2>1. todo = <<"raise">> => todo[1] = "raise"
    OBVIOUS
  <2>2. QED
    BY <1>2, <2>1 DEF RunsInv, Counts
<1>5. CASE Tail(todo) = <<>>
  <2>1. FewCalls(task, todo)' /\ (Publishes(task) => Counts(task, todo, changed)')
    BY <1>1, <1>4, <1>5 DEF FewCalls, Counts
  <2>2. Publishes(task) => Pending'
    BY <1>1, <1>2, <1>4, <1>5 DEF Pending, Publishes, Commits, Waits
  <2>3. ASSUME ~ Publishes(task) PROVE AllAlike'
    <3>1. ASSUME NEW o \in Watched PROVE cand'[o] = cand[o]
      <4>1. o \notin Edited(task)
        BY <1>2, <2>3 DEF Apart
      <4>2. o \in Object
        BY TaskFacts DEF Watched, Claims
      <4>3. QED
        BY <1>1, <1>2, <4>1, <4>2, NextCall, CallEdited DEF IInv, TypeOK
    <3>2. QED
      BY <1>1, <1>3, <3>1 DEF AllAlike, Alike, Watched, Claims, Publishes, Commits, Waits, Tunnels
  <2>4. QED
    BY <1>1, <2>1, <2>2, <2>3 DEF RunsInv, Publishes, Commits, Waits
<1>6. CASE Tail(todo) # <<>>
  <2>1. /\ Script[task] = "panos_ipsec_tunnel"
        /\ todo[1] = "apply" /\ Tail(todo) = <<"create">>
    <3>1. \A call \in Calls : todo = <<call>> => Tail(todo) = <<>>
      OBVIOUS
    <3>2. todo = <<"apply", "create">> => todo[1] = "apply" /\ Tail(todo) = <<"create">>
      OBVIOUS
    <3>3. QED
      BY <1>2, <1>3, <1>6, <3>1, <3>2 DEF FewCalls
  <2>2. FewCalls(task, todo)' /\ (Publishes(task) => Counts(task, todo, changed)')
    <3>1. "create" \in Calls
      BY DEF Calls
    <3>2. QED
      BY <1>1, <1>4, <2>1, <3>1 DEF FewCalls, Counts
  <2>3. /\ cand'[Target[task]] # {}
        /\ \A o \in Object : o # Target[task] => cand'[o] = cand[o]
    BY <1>1, <1>2, <2>1, TunnelWritten
  <2>4. ASSUME NEW o \in Watched PROVE Alike(o)'
    <3>1. o \in Object
      BY TaskFacts DEF Watched, Claims
    <3>2. Alike(o)
      BY <1>3 DEF AllAlike
    <3>3. CASE o # Target[task]
      BY <1>1, <2>3, <3>1, <3>2, <3>3 DEF Alike, Tunnels
    <3>4. CASE o = Target[task]
      BY <1>2, <2>1, <2>3, <3>4 DEF Alike, Tunnels
    <3>5. QED
      BY <3>3, <3>4
  <2>5. AllAlike'
    BY <2>4 DEF AllAlike, Watched, Claims, Publishes, Commits, Waits
  <2>6. QED
    BY <1>1, <2>2, <2>5 DEF RunsInv, Publishes, Commits, Waits
<1>7. QED
  BY <1>5, <1>6

(* Until a task with commit has made its last call both configurations are *)
(* alike where such tasks look, and then it commits: a call that fails     *)
(* leaves no edit behind that the next task would take for done.           *)
LEMMA RunsStep ==
  ASSUME Answered, Apart, ~ DeletesUncounted, IInv, RunsInv, [Next]_vars
  PROVE  RunsInv'
<1>1. "lost" \notin Flaky /\ "commit" \notin Flaky
  BY DEF Answered
<1>2. cand' = running' => AllAlike'
  BY DEF AllAlike, Alike
<1>3. cand' = cand /\ running' = running /\ AllAlike => AllAlike'
  BY DEF AllAlike, Alike, Watched, Claims, Publishes, Commits, Waits, Tunnels
<1>4. AllAlike' /\ ~ Busy' => RunsInv'
  BY DEF RunsInv
<1>5. ASSUME NEW t \in Task, Start(t)
      PROVE  RunsInv'
  <2>1. /\ task = Idle /\ task' = t /\ todo' = CallsOf(t) /\ changed' = Changes(t)
        /\ cand' = cand /\ running' = running
    BY <1>5 DEF Start
  <2>2. AllAlike'
    BY <1>3, <2>1 DEF RunsInv, Pending, Busy
  <2>3. FewCalls(task, todo)'
    BY <2>1, CallsFew DEF FewCalls, Missing
  <2>4. Publishes(task)' => Counts(task, todo, changed)'
    BY <2>1, CallsCount DEF Counts, Publishes, Commits, Waits
  <2>5. QED
    BY <2>2, <2>3, <2>4 DEF RunsInv
<1>6. CASE Call
  BY <1>6, CallRuns
<1>7. CASE CallFails \/ Raise
  <2>1. AllAlike /\ cand' = cand /\ running' = running /\ ~ Busy'
    BY <1>7 DEF CallFails, Raise, Calling, Fails, End, RunsInv, Pending, Busy
  <2>2. QED
    BY <1>3, <1>4, <2>1
<1>8. CASE Finish
  <2>1. AllAlike /\ cand' = cand /\ running' = running /\ ~ Busy'
    BY <1>8 DEF Finish, MustCommit, EndsWell, End, RunsInv, Pending, Publishes, Busy
  <2>2. QED
    BY <1>3, <1>4, <2>1
<1>9. CASE CommitAll \/ CommitNotNeeded
  <2>1. cand' = cand /\ ~ Busy'
    BY <1>9 DEF CommitAll, CommitNotNeeded, EndsWell, Fails, End, Busy
  <2>2. CASE Publishes(task)
    <3>1. cand' = running'
      BY <1>9, <2>2 DEF CommitAll, CommitNotNeeded, Publish, Publishes
    <3>2. QED
      BY <1>2, <1>4, <2>1, <3>1
  <2>3. CASE ~ Publishes(task)
    <3>1. Commits(task) /\ (CommitNotNeeded => Waits(task))
      BY <1>9 DEF CommitAll, CommitNotNeeded, MustCommit, Loud, Waits, BgpScripts
    <3>2. AllAlike /\ running' = running
      BY <1>9, <2>3, <3>1 DEF CommitAll, Publish, Publishes, RunsInv, Pending
    <3>3. QED
      BY <1>3, <1>4, <2>1, <3>2
  <2>4. QED
    BY <2>2, <2>3
<1>10. CASE CallLost \/ CommitRejected \/ CommitLost
  BY <1>1, <1>10 DEF CallLost, CommitRejected, CommitLost
<1>11. CASE CommitByOthers \/ CommitQueued \/ Revert
  <2>1. cand' = running' /\ UNCHANGED <<task, todo, changed>>
    BY <1>11 DEF CommitByOthers, CommitQueued, Revert, run
  <2>2. QED
    BY <1>2, <2>1 DEF RunsInv, Busy, FewCalls, Counts, Publishes, Commits, Waits
<1>12. CASE ReadFails \/ UNCHANGED vars
  <2>1. UNCHANGED <<cand, running, task, todo, changed>>
    BY <1>12 DEF ReadFails, vars, run
  <2>2. AllAlike \/ Pending => AllAlike' \/ Pending'
    BY <1>3, <2>1 DEF Pending, Busy, Publishes, Commits, Waits
  <2>3. QED
    BY <2>1, <2>2 DEF RunsInv, Busy, FewCalls, Counts, Publishes, Commits, Waits
<1>13. QED
  BY <1>5, <1>6, <1>7, <1>8, <1>9, <1>10, <1>11, <1>12 DEF Next, Step

(* What a task claims and the candidate holds, the running one holds.      *)
LEMMA AlikeHolds ==
  ASSUME Apart, AllAlike, NEW t \in Task, Publishes(t), Holds(t, cand),
         ~ (Script[t] = "panos_ipsec_tunnel" /\ State[t] = "present")
  PROVE  Holds(t, running)
<1>1. \A o \in Claims(t) : Alike(o)
  BY DEF AllAlike, Watched
<1>2. Target[t] \in Claims(t)
  BY DEF Claims
<1>3. CASE Script[t] = "panos_ipsec_tunnel"
  BY <1>1, <1>2, <1>3, TaskFacts DEF Holds, Alike
<1>4. CASE Script[t] # "panos_ipsec_tunnel"
  <2>1. \A o \in Claims(t) : running[o] = cand[o]
    BY <1>1, <1>4 DEF Apart, Alike
  <2>2. ASSUME Script[t] = "panos_bgp", NEW o \in Object, Kids[t][o] \subseteq cand[o]
        PROVE  Kids[t][o] \subseteq running[o]
    BY <2>1, <2>2 DEF Claims
  <2>3. QED
    BY <1>2, <2>1, <2>2 DEF Holds
<1>5. QED
  BY <1>3, <1>4

LEMMA StepRuns ==
  ASSUME Answered, Apart, IInv, RunsInv, [Next]_vars, Ends("ok"), alone, Publishes(task)
  PROVE  Holds(task, running')
<1>1. Called /\ task \in Task /\ (Finish \/ CommitAll)
  BY DEF Next, Step, Start, ReadFails, Call, CallFails, CallLost, Raise, Finish, CommitAll,
         CommitNotNeeded, CommitRejected, CommitLost, CommitByOthers, CommitQueued, Revert,
         Fails, EndsWell, End, Ends, Busy, run, vars, Answered, IInv, TypeOK
<1>2. Holds(task, cand) /\ todo = <<>> /\ Busy
  BY <1>1 DEF IInv, Called, Promise
<1>3. CASE CommitAll
  BY <1>2, <1>3 DEF CommitAll, Publish, Publishes
<1>4. CASE Finish
  <2>1. ~ changed /\ running' = running
    BY <1>4 DEF Finish, MustCommit, Publishes
  <2>2. AllAlike /\ ~ (Script[task] = "panos_ipsec_tunnel" /\ State[task] = "present")
    BY <1>2, <2>1 DEF RunsInv, Pending, Counts
  <2>3. QED
    BY <1>1, <1>2, <2>1, <2>2, AlikeHolds
<1>5. QED
  BY <1>1, <1>3, <1>4

(* A task that waits for its commit, ends well and was alone finds what it *)
(* asked for in the running configuration, also when it had nothing to do: *)
(* whatever calls fail, whoever commits, reverts between tasks or during   *)
(* others, and whenever the firewall comes to the commits nobody waits for *)
(* - if no reply is lost, no commit fails, and the tasks that do not       *)
(* commit, or do not wait, edit other objects.  Left out: the deletion     *)
(* that panos_bgp does not count.                                          *)
THEOREM Published ==
  Answered /\ Apart /\ ~ DeletesUncounted => (Spec => OkMeansRunning)
<1> SUFFICES ASSUME Answered, Apart, ~ DeletesUncounted PROVE Spec => OkMeansRunning
  OBVIOUS
<1>1. Init => RunsInv
  BY DEF Init, RunsInv, AllAlike, Alike, Busy
<1>2. IInv /\ RunsInv /\ [Next]_vars => RunsInv'
  BY RunsStep
<1>3. IInv /\ RunsInv /\ [Next]_vars =>
        [Ends("ok") /\ alone /\ Publishes(task) => Holds(task, running')]_vars
  BY StepRuns
<1>4. QED
  BY <1>1, <1>2, <1>3, Invariant, PTL DEF Spec, OkMeansRunning
=============================================================================
